SPECIFICATION Spec
CONSTANTS
  Functions <- MCFunctions
  Loops <- MCLoops
  Sites <- MCSites
  Main = "main"
  NoPad = "none"
  Programs <- MixedPrograms
  Offset <- MixedOffset
  LocMod = 64
  CtxMod = 64
  DisMod = 8
  STK_MAX_SIZE = 2
  IterMod = 2
  MaxDepth = 6
  MaxIter = 3
CHECK_DEADLOCK FALSE
INVARIANT ContextNamesCallPath
