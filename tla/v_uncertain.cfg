\* An order is ready to settle on a 68% answer.
SPECIFICATION Spec
CHECK_DEADLOCK FALSE
CONSTANTS
    Order <- MCOrder
    Today <- MCToday
    MaxNights = 2
    MaxRounds = 3
    Budget = 500000
    EscalateBelow = 85
    ReservePercent = 20
    NoAnswer = NoAnswer
INVARIANT NothingUncertainIsReady
