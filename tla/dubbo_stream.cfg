CONSTANTS
    HeaderSize = 2
    MaxBodySize = 2
    Messages <- AllMessages
    MaxBuffer = 5
    MaxMessages = 2
SPECIFICATION Spec
INVARIANTS TypeOK Aligned
PROPERTIES DecodesPromptly ErrorSticks RepliesDecode
CHECK_DEADLOCK FALSE
