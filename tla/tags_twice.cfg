SPECIFICATION FairSpec
CONSTANTS
  Plans <- TwoTagged
  Content <- MCContent
  Bucket <- MCBucket
  NoData = NoData
  Retries = 1
  MaxRetries = 2
  MayInterrupt = FALSE
CHECK_DEADLOCK FALSE
INVARIANT ReportedOnce
