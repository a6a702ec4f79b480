SPECIFICATION Spec
CONSTANTS
  Run = {r1, r2, r3}
  None = None
  LockStale = 1
  LockWait = 0
  MaxClock = 3
  MaxJumps = 0
  MaxDeaths = 1
  MaxTries = 1
  Punctual = TRUE
INVARIANT NeverTwoWriters
CHECK_DEADLOCK FALSE
