SPECIFICATION ModuleSpec
CONSTANTS
  f1 = f1
  f2 = f2
  f3 = f3
  puts = puts
  log = log
  None = none
  Functions <- MCFunctions
  stdLibFunList <- MCStd
  Modules <- MCModules
  CallGraphs <- MCCallGraphs
CHECK_DEADLOCK FALSE
INVARIANTS
  NonRecursiveAcyclic
  EveryCycleCut
  EveryRealCycleCut
  OnlyRecursiveMarked
PROPERTY
  AnalysisEnds
