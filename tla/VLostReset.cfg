CONSTANTS
  Waiters = {w1, w2}
  Props <- ReloadAll
  PipeCapacity = 3
  Says = {"DUMP_COMPLETE"}
  MaxAlives = 9
  Panics = {}
  AliveDev = "assert"
  Budgets <- CrashAndBlock
SPECIFICATION FairSpec
PROPERTY CrashIsRecovered
CHECK_DEADLOCK FALSE
