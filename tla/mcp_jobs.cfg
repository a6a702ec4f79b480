CONSTANTS
  MaxJobs = 3
  MaxCancelled = 1
  MaxKept = 2
SPECIFICATION FairSpec
INVARIANTS
  RunningIsKnown
  CancelPrevails
  NoneLeftBehind
PROPERTIES
  CancelEnds
CHECK_DEADLOCK FALSE
