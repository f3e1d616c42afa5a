CONSTANTS
  Waiters = {w1, w2}
  Props <- ResetOrNot
  PipeCapacity = 3
  Says = {"DUMP_COMPLETE"}
  MaxAlives = 9
  Panics = {}
  AliveDev = "assert"
  Budgets <- CrashAndPArm
SPECIFICATION FairSpec
INVARIANTS TypeOK BootIsSupervised HealthyModemIsKept
PROPERTY CrashIsRecovered
CHECK_DEADLOCK FALSE
