CONSTANTS
  A = A
  B = B
  X = X
  Device = {A, B}
  Tests <- TwoDeviceTests
SPECIFICATION FairSpec
INVARIANTS Rendezvous VerdictIsHonest
PROPERTIES ImplementsPromise Termination
CHECK_DEADLOCK FALSE
