CONSTANTS
  Waiters = {w1, w2}
  Props <- ReloadAtOnce
  PipeCapacity = 3
  Says = {"DUMP_COMPLETE"}
  MaxAlives = 9
  Panics = {}
  AliveDev = "alive"
  Budgets <- OneCrash
SPECIFICATION FairSpec
PROPERTY AssertIsHeard
CHECK_DEADLOCK FALSE
