CONSTANTS
  A = A
  B = B
  X = X
  Device = {A, B}
  Tests <- UndeclaredAliasTests
SPECIFICATION Spec
INVARIANT PassedRanWholeBody
CHECK_DEADLOCK FALSE
