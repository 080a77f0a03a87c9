SPECIFICATION Spec
CONSTANTS
  a = a
  b = b
  c = c
  Requests = {a, b}
  Window <- MCWindow
  Limit <- MCRoomyLimit
  ConcurrentLimit = 1
  MaxDelay = 1
  MaxClock = 2
INVARIANTS ConcurrentLimitHolds
CHECK_DEADLOCK FALSE
