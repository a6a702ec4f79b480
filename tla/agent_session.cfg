SPECIFICATION SessionSpec
CONSTANTS
  BootTime = 8
  TickTime = 3
  HookTime = 3
  RefreshTime = 5
  RejectWindow = 12
  TokenTime = 30
  DialTime = 30
  StepTime = 30
  LaunchTime = 120
  ReconnectDelay = 2
  MaxCalls = 2
  MaxFaults = 2
INVARIANT SessionTypeOK
INVARIANT GivesUpForCause
INVARIANT EndsInTime
