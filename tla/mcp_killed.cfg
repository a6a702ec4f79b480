CONSTANTS
  MaxJobs = 2
  MaxKept = 1
  MaxCancelled = 1
SPECIFICATION Spec
INVARIANTS
  DiesWithServer
CHECK_DEADLOCK FALSE
