CONSTANTS
  Tasks <- FewTasks
  Failures = {"lib_dlopen"}
  RawCalls = FALSE
  MayStop = FALSE
  MaxTasks = 4
  None = None
SPECIFICATION Spec
CHECK_DEADLOCK FALSE
INVARIANTS
  ServiceIsLive
