CONSTANTS
  Tasks <- FewTasks
  Failures = {"app_dlopen", "app_dlsym", "service_create", "lib_dlopen", "lib_dlsym", "lib_create", "enter", "leave"}
  RawCalls = TRUE
  MayStop = TRUE
  MaxTasks = 5
  None = None
SPECIFICATION Spec
CHECK_DEADLOCK FALSE
INVARIANTS
  NoServiceLeak
  OneKindLoaded
