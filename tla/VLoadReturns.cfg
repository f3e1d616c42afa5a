SPECIFICATION FairSpec
CONSTANTS
  Warms = {w1}
  CpTable <- Table
  Budget <- FailedDdr
PROPERTY
  LoadReturns
CHECK_DEADLOCK FALSE
