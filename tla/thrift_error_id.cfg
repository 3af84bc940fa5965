CONSTANTS
    Headers <- AllHeaders
    SentTypes = {"Scalar", "List", "Other"}
    MaxSize = 1
    MaxDepth = 4
    MaxTokens = 5
    MaxMessages = 2
SPECIFICATION Spec
PROPERTIES ErrorReplyHasSequenceId
CHECK_DEADLOCK FALSE
