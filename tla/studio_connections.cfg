SPECIFICATION FairSpec
CONSTANTS
  Call = {a1, i1, i2}
  Adb = {a1}
  Iproxy = {i1, i2}
  Dev <- MCDev
  None = None
INVARIANT LiveOrStopped
INVARIANT PhoneTunnelKept
PROPERTY ReplacedAreClosed
CHECK_DEADLOCK FALSE
