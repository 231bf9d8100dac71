SPECIFICATION Spec
CONSTANTS
  Loops = {"l"}
  LoopPaths <- MCObjPaths
  LocID <- MCObjLocID
  Loads = {"load"}
  Stores = {"store"}
  At <- MCObjAt
  Addresses = {0, 1}
  NoStore = NoStore
  STK_MAX_SIZE = 1
  CtxMod = 4
  IterMod = 3
  SAMPLING_THRESHOLD = 1
  SamplingCycle = 2
  MaxIter <- MCObjIter
  MaxEvents = 5
CHECK_DEADLOCK FALSE
INVARIANTS
  EveryDependenceRecorded
  OnlyRealDependences
