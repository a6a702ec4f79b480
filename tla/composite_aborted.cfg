CONSTANTS
  A = A
  B = B
  X = X
  Device = {A, B}
  Tests <- TwoDeviceTests
SPECIFICATION Spec
INVARIANT NobodyPassesAlone
CHECK_DEADLOCK FALSE
