SPECIFICATION LimiterSpec
CONSTANTS
  Callers = {r1, r2}
  Limits = {0, 1, 2}
  Window = 4
  Poll = 3
  Timeouts = {2, 5}
  MaxTime = 6
INVARIANTS NoBurst NotDeniedInVain
CHECK_DEADLOCK FALSE
