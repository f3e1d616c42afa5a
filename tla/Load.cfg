SPECIFICATION FairSpec
CONSTANTS
  Warms = {w1}
  CpTable <- Table
  Budget <- Failures
INVARIANTS
  TypeOK
  ImageInItsRegion
  FlagsTellTruth
  NoImageWithoutDdr
  BusQuietWhileCopying
  NoLockIsOrphaned
PROPERTIES
  KeepsContract
  NobodyBlocks
CHECK_DEADLOCK FALSE
