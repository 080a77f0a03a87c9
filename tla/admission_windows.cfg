SPECIFICATION Spec
CONSTANTS
  a = a
  b = b
  c = c
  Requests = {a, b, c}
  Window <- MCWindow
  Limit <- MCLimit
  ConcurrentLimit = 1
  MaxDelay = 1
  MaxClock = 6
SYMMETRY Symmetry
INVARIANTS TypeOK WindowLimit
PROPERTIES RefusedOnlyOverLimit
CHECK_DEADLOCK FALSE
