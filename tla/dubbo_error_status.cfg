CONSTANTS
    HeaderSize = 2
    MaxBodySize = 2
    Messages <- AllMessages
    MaxBuffer = 5
    MaxMessages = 2
SPECIFICATION Spec
PROPERTIES ErrorRepliesDecode
CHECK_DEADLOCK FALSE
