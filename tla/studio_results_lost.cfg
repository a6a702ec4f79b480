SPECIFICATION RunsSpec
CONSTANTS
  Run = {r1, r2}
  Async = {r1}
  Test = {t1, t2}
  NoRun = NoRun
PROPERTY EveryOutcomeRecorded
CHECK_DEADLOCK FALSE
