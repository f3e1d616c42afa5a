CONSTANTS
  Waiters = {w1, w2}
  Props <- TwoSettings
  PipeCapacity = 3
  Says = {"AGDSP"}
  MaxAlives = 9
  Panics = {e1}
  AliveDev = "tty"
  Budgets <- TroubleReports
SPECIFICATION Spec
INVARIANT BootIsSupervised
CHECK_DEADLOCK FALSE
