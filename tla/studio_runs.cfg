SPECIFICATION FairRuns
CONSTANTS
  Run = {r1, r2}
  Async = {r1}
  Test = {t1, t2}
  NoRun = NoRun
INVARIANT RunsApart
PROPERTY FailedAreChosen
PROPERTY RunsEnd
CHECK_DEADLOCK FALSE
