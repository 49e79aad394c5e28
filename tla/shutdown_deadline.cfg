SPECIFICATION Spec
CONSTANTS
  Requests = {r1, r2, r3}
  HasTimeout = TRUE
INVARIANT DeadlineCutsOff
CHECK_DEADLOCK FALSE
