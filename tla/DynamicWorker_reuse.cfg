CONSTANTS
  Tasks <- AllTasks
  Failures = {"app_dlopen", "service_create", "leave"}
  RawCalls = FALSE
  MayStop = FALSE
  MaxTasks = 5
  None = None
SPECIFICATION Spec
CHECK_DEADLOCK FALSE
INVARIANTS
  ServiceIsLive
  ContextIsEntered
  RightService
  LifetimesNest
  StatusHonoured
