SPECIFICATION Spec
CONSTANTS
  Call = {a1, i1, i2}
  Adb = {a1}
  Iproxy = {i1, i2}
  Dev <- MCDev
  None = None
INVARIANT CurrentHasTunnel
CHECK_DEADLOCK FALSE
