\* One run with the real policy and answers, two concurrent requests.
SPECIFICATION Spec
CONSTANTS
    Run = {r1}
    Handler = {h1, h2}
    External = {e1}
    NoGroup = NoGroup
    NoRun = NoRun
    NoAnswer = NoAnswer
    ClientGroups <- ComposedGroups
    Answers <- ServiceAnswers
    MaxRuns = 1
    MaxRounds = 3
    Budget = 500000
    EscalateBelow = 85
    ReservePercent = 20
SYMMETRY HandlerSymmetry
INVARIANTS
    TypeOK
    UnanimousBeforeSubmission
    SubmittedOnce
    SubmittedPaysTheRound
    RequestOwnsItsRun
    LedgerWithinBudget
    OnlyVerificationGoesDeep
PROPERTIES
    SettlementSpec
