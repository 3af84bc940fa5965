CONSTANTS
    Headers <- TwoHeaders
    SentTypes <- FieldTypes
    MaxSize = 2
    MaxDepth = 6
    MaxTokens = 6
    MaxMessages = 2
SPECIFICATION FairSpec
INVARIANTS TypeOK PlaceIsKept
PROPERTIES DecodesMessages ErrorSticks DecodeReturns
CHECK_DEADLOCK FALSE
