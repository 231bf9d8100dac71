SPECIFICATION Spec
CONSTANTS
  Loops <- MCLoops
  LoopPaths <- MCPaths
  LocID <- MCLocID
  Loads = {"load"}
  Stores <- MCStores
  At <- MCAt
  Addresses = {0}
  NoStore = NoStore
  STK_MAX_SIZE = 2
  CtxMod = 4
  IterMod = 3
  SAMPLING_THRESHOLD = 1
  SamplingCycle = 2
  MaxIter <- MCIter
  MaxEvents = 4
CHECK_DEADLOCK FALSE
INVARIANTS
  EveryDependenceRecorded
  OnlyRealDependences
  SamplingOnlyOmits
  FirstIterationsComplete
