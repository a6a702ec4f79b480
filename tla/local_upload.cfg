SPECIFICATION FairSpec
CONSTANTS
  Run = {r1, r2}
  None = None
  LockStale = 1
  LockWait = 1
  MaxClock = 4
  MaxJumps = 1
  MaxDeaths = 1
  MaxTries = 2
  Punctual = FALSE
INVARIANT SoleWriter
INVARIANT IdentitiesUnique
INVARIANT ReportsArrive
PROPERTY Increasing
PROPERTY EveryRunEnds
CHECK_DEADLOCK FALSE
