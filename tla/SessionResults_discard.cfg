CONSTANTS
  Results = {1, 2}
  Submitters = {"s1", "s2"}
  Batch <- OneEach
  Waiters = {"w1"}
  Calls <- Plain
  WaitBatchSize = 2
  MayDrop = TRUE
  Cleaned = {2}
  Failures = {"cancel", "delete", "throw", "escape", "download", "forget", "poll"}
SPECIFICATION FairSpec
CHECK_DEADLOCK FALSE
INVARIANTS
  TypeOK
PROPERTIES
  WaitEnds
  DeliverySpec
