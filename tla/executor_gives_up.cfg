SPECIFICATION Spec
CONSTANTS
  Plans <- OneAct
  Steps <- AllSteps
  Pattern = {"p"}
  MaxAttempts = 4
  Retries = 0
  MaxCuts = 1
  MaxSlow = 0
PROPERTY UsesAllAttempts
CHECK_DEADLOCK FALSE
