SPECIFICATION Spec
CONSTANTS
    MaxMessages = 2
    MaxFrames = 1
    MaxHeartbeats = 0
PROPERTY
    OnewaySurvivesHalfClose
CHECK_DEADLOCK FALSE
