CONSTANTS
    Chains <- AllChains
    MaxPauses = 3
    MaxAnswers = 3
SPECIFICATION Spec
PROPERTIES HeldResponseKept
CHECK_DEADLOCK FALSE
