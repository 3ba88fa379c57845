CONSTANTS
  Results = {1, 2}
  Submitters = {"s1", "s2"}
  Batch <- OneEach
  Waiters = {"w1", "w2"}
  Calls <- EveryKind
  WaitBatchSize = 1
  MayDrop = FALSE
  Cleaned = {}
  Failures = {"poll", "submit", "escape"}
SPECIFICATION Spec
CHECK_DEADLOCK FALSE
INVARIANTS
  ReturnedHandled
  HandledByOne
