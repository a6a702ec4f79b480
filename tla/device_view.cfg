CONSTANTS
  Conn = {c1, c2}
  Nobody = Nobody
SPECIFICATION FairSpec
INVARIANTS
  PausedByClient
  QuietAfterReturn
  OneLateShot
PROPERTIES
  ReplacedIsClosed
  Watching
  Returns
CHECK_DEADLOCK FALSE
