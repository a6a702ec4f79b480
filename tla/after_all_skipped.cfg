SPECIFICATION FairSpec
CONSTANTS
  Plans <- LostRows
  Content <- MCContent
  Bucket <- MCBucket
  NoData = NoData
  Retries = 1
  MaxRetries = 2
  MayInterrupt = FALSE
CHECK_DEADLOCK FALSE
INVARIANT AfterAllRuns
