SPECIFICATION Spec
CONSTANTS
  Plans <- OneBranch
  Steps <- AllSteps
  Pattern = {"p"}
  MaxAttempts = 2
  Retries = 0
  MaxCuts = 1
  MaxSlow = 1
PROPERTY NoBlindBranch
CHECK_DEADLOCK FALSE
