SPECIFICATION FairSpec
CONSTANTS
    MaxMessages = 2
    MaxFrames = 1
    MaxHeartbeats = 0
PROPERTIES
    KeepsLifecycle
    PausedRequestsProceed
    ResourcesDrain
    RequestsAnswered
CHECK_DEADLOCK FALSE
