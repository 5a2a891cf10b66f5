\* Four requests against a limit of two in three instants.
SPECIFICATION Spec
CONSTANTS
  Requests = {r1, r2, r3, r4}
  Limit = 2
  Window = 3
  BrowserTimeout = 2
  MaxClock = 5
INVARIANTS RateLimited RefusedOnlyAtLimit
CHECK_DEADLOCK FALSE
