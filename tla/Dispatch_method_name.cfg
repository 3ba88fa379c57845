CONSTANTS
  c1 = c1
  c2 = c2
  p1 = p1
  p2 = p2
  q1 = q1
  Configs <- SomeConfigs
  ControlPlanes <- SomePlanes
  ComputePlanes <- SomeComputePlanes
  Cells = {1, 2, 3, 4}
  Texts <- SomeTexts
  SetKeys = {"SubmitBatchSize"}
  IntMax = 1000
  Junk = Junk
  Null = Null
  Base = 2
  Width = 2
  NotText = {"bin"}
  Libraries = {"lib"}
  Descriptions <- Some
  MethodNames <- SomeMethods
  InputSets <- Inputs
  LegacyPayloads <- FewPayloads
  max_retries = 1
  MaxBlobs = 4
  MaxTasks = 2
  None = None
SPECIFICATION Spec
CHECK_DEADLOCK FALSE
INVARIANTS
  MethodIsDispatched
