SPECIFICATION CacheSpec
CONSTANTS
  Functions <- MCFunctions
  Loops <- MCLoops
  Sites <- MCSites
  Main = "main"
  NoPad = "none"
  Programs <- MCProgramSet
  Offset <- MCOffset
  LocMod = 64
  IndirectSites <- MCIndirect
  Orders <- MCOrders
CHECK_DEADLOCK FALSE
INVARIANTS
  LocalIdsAgree
  TablesMatchTree
  TreeComplete
  OneCopyPerContext
  DepthIsOfTree
PROPERTY
  TreeFinished
