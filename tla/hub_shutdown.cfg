CONSTANTS
  Conn = {c1, c2}
  Nobody = Nobody
SPECIFICATION FairSpec
PROPERTIES
  RunReturns
CHECK_DEADLOCK FALSE
