SPECIFICATION Spec
CONSTANTS
  Units <- MCUnits
  Tools <- MCTools
  IdMod = 8
  NoName = "noname"
  None = "none"
  SearchLimit = 4
  NUM_CTX = 2
  File <- MCFile
CHECK_DEADLOCK FALSE
INVARIANTS
  InstructionIdsUnique
  LoopsKeepTheirIds
  DependencesListed
  DevicesFollowUses
  StartAndEndKept
