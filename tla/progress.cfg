\* One run, a client that plays along.
SPECIFICATION CooperativeSpec
CONSTANTS
    Run = {r1}
    Handler = {h1, h2}
    External = {}
    NoGroup = NoGroup
    NoRun = NoRun
    NoAnswer = NoAnswer
    ClientGroups <- ComposedGroups
    Answers <- SlowAnswers
    MaxRuns = 1
    MaxRounds = 3
    Budget = 500000
    EscalateBelow = 85
    ReservePercent = 20
PROPERTIES
    RunEnds
