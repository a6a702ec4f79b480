SPECIFICATION Spec
CONSTANTS
  Plans <- TwoTests
  Steps <- AllSteps
  Pattern = {"p"}
  MaxAttempts = 2
  Retries = 0
  MaxCuts = 1
  MaxSlow = 0
PROPERTY OnlyOwnMocks
CHECK_DEADLOCK FALSE
