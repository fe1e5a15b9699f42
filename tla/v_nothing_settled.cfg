\* An aborted run whose group is on chain.
SPECIFICATION Spec
CONSTANTS
    Run = {r1}
    Handler = {h1}
    External = {}
    NoGroup = NoGroup
    NoRun = NoRun
    NoAnswer = NoAnswer
    ClientGroups = {}
    Answers <- ServiceAnswers
    MaxRuns = 1
    MaxRounds = 3
    Budget = 500000
    EscalateBelow = 85
    ReservePercent = 20
INVARIANTS
    NothingSettledIsTrue
