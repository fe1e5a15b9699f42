\* Orders at the boundaries of the catalogue, the ledger and the registry.
SPECIFICATION Spec
CHECK_DEADLOCK FALSE
CONSTANTS
    Order <- MCOrder
    Today <- MCToday
    MaxNights = 2
    MaxRounds = 3
    Budget = 500000
    EscalateBelow = 85
    ReservePercent = 20
    NoAnswer = NoAnswer
INVARIANTS
    TypeOK
    AnswersAreCovered
    ReadyOrdersAreGood
    RefusedNeverReady
    MistypedNumbersAreRejected
