SPECIFICATION Spec
CONSTANTS
  Shapes <- MCShapes
  Passes = {"CAMP", "CampExectime", "CtxObjtrace", "ObjTrace", "Qprofiler"}
  NUM_CTX = 3
  File <- MCFile
  IterMod = 3
CHECK_DEADLOCK FALSE
INVARIANTS
  WellFormed
  ContextsOpen
  IterationsCounted
PROPERTY
  BehavesAsBefore
