SPECIFICATION FairSpec
CONSTANTS
  Plans <- AllPlans
  Content <- MCContent
  Bucket <- MCBucket
  NoData = NoData
  Retries = 1
  MaxRetries = 2
  MayInterrupt = TRUE
INVARIANT ReportedOnce
INVARIANT AttemptsTold
INVARIANT CleanedUp
INVARIANT OkMeansPassed
PROPERTY CommandEnds
CHECK_DEADLOCK FALSE
