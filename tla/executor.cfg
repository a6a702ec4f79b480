SPECIFICATION FairSpec
CONSTANTS
  Plans <- AllPlans
  Steps <- AllSteps
  Pattern = {"p"}
  MaxAttempts = 2
  Retries = 1
  MaxCuts = 2
  MaxSlow = 1
INVARIANT TypeOK
INVARIANT ActsAsWritten
PROPERTY OnlyDeadlinesCost
PROPERTY Termination
CHECK_DEADLOCK FALSE
