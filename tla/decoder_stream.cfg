SPECIFICATION FairSpec
CONSTANTS
    MaxFrames = 3
    MaxSize = 3
INVARIANTS TypeOK AssertsHold NothingHeldBack
PROPERTIES ImplementsFrameStream
CHECK_DEADLOCK FALSE
