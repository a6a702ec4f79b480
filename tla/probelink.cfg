SPECIFICATION FairSpec
CONSTANT Caller = {c1, c2}
INVARIANT RoomInChannel
PROPERTY ImplementsPromise
PROPERTY CallsReturn
CHECK_DEADLOCK FALSE
