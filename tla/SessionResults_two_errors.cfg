CONSTANTS
  Results = {1, 2}
  Submitters = {"s1", "s2"}
  Batch <- OneEach
  Waiters = {"w1"}
  Calls <- Plain
  WaitBatchSize = 2
  MayDrop = FALSE
  Cleaned = {}
  Failures = {"download", "throw"}
SPECIFICATION Spec
CHECK_DEADLOCK FALSE
INVARIANTS
  ErrorAtMostOnce
