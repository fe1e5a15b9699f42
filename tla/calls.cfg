\* One run of two rounds, one change of a service's configuration or
\* of the facilitator's key.
SPECIFICATION Spec
CONSTANTS
    Budget = 500000
    EscalateBelow = 85
    ReservePercent = 20
    NoAnswer = NoAnswer
    Terms <- Configurations
    Deployed <- Deployment
    Answers <- TwoRoundAnswers
    Asset = "usdc"
    Key = {"k1", "k2"}
    FALLBACK_FEE_PAYER = "k1"
    QUOTE_ATTEMPTS = 2
    MaxRounds = 2
    MaxChanges = 1
    Pending = Pending
    NoPayment = NoPayment
    NoKey = NoKey
CHECK_DEADLOCK FALSE
INVARIANTS
    TypeOK
    VerdictsAreOfTheRound
PROPERTIES
    WorkIsPaidFor
    OnePaymentPerRound
    NothingHangs
