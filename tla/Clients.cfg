SPECIFICATION Spec
CONSTANTS
  N = 2
  MaxConns = 3
  Budget <- OneOfEach
INVARIANTS TypeOK NoStateMissed EveryClientIsWatched
CHECK_DEADLOCK FALSE
