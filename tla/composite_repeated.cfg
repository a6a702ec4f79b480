CONSTANTS
  A = A
  B = B
  X = X
  Device = {A, B}
  Tests <- RepeatedLabelTests
SPECIFICATION Spec
INVARIANT Rendezvous
CHECK_DEADLOCK FALSE
