CONSTANTS
  Names <- AllNames
  Boards <- AllBoards
  Slots = {"pm_sys", "modem", "tgdsp", "ldsp", "cdsp"}
  Budget <- Faults
SPECIFICATION Spec
INVARIANTS
  TypeOK
  ItemsAreTheDocuments
  SpillsOnlySurplus
  NodesDecide
  HeadDecides
  CopiesTheModem
  RunsOnlyWhole
  VerifiesThisLoad
CHECK_DEADLOCK FALSE
