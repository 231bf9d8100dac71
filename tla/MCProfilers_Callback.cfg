SPECIFICATION Spec
CONSTANTS
  Kinds = {"exec"}
  CallbackKinds = {"exec"}
  Trees <- MCTrees
  nContext = 6
  MutedLocs = {1}
  CtxMod = 16
  ManyContexts = 6
  STK_MAX_SIZE = 2
  IterMod = 2
  Words = {0, 1}
  WordSize = 2
  Sizes = {3}
  InstrIDs = {7}
  MaxDepth <- MCDepth
  MaxAccesses = 2
  MaxWatched = 3
  MaxTime = 5
CHECK_DEADLOCK FALSE
INVARIANT
  NoAssertionFails
