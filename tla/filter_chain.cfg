CONSTANTS
    Chains <- AllChains
    MaxPauses = 3
    MaxAnswers = 3
SPECIFICATION FairSpec
INVARIANTS TypeOK EachFilterInTurn CanContinue FinishedOnce DestroyedOnce
PROPERTIES ReplyEndsRequest PausesEnd
CHECK_DEADLOCK FALSE
