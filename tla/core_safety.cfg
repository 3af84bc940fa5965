SPECIFICATION Spec
CONSTANTS
    MaxMessages = 3
    MaxFrames = 2
    MaxHeartbeats = 1
INVARIANTS
    TypeOK
    Ownership
    PoolAgreement
    CallbacksOfLiving
    NoOrphans
    NoFrameLeftBehind
    ActiveIsWaiting
    AtMostOneReply
    CleanReuse
    StatsExact
PROPERTIES
    NoSendAfterReply
CHECK_DEADLOCK FALSE
