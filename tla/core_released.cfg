SPECIFICATION Spec
CONSTANTS
    MaxMessages = 2
    MaxFrames = 1
    MaxHeartbeats = 0
INVARIANT
    ReleasedAfterLocalReply
CHECK_DEADLOCK FALSE
