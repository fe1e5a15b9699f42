\* Three runs in a store made for one.
SPECIFICATION Spec
CONSTANTS
    Run = {r1, r2, r3}
    Handler = {h1, h2}
    External = {}
    NoGroup = NoGroup
    NoRun = NoRun
    NoAnswer = NoAnswer
    ClientGroups = {}
    Answers <- SureAnswers
    MaxRuns = 1
    MaxRounds = 1
    Budget = 500000
    EscalateBelow = 85
    ReservePercent = 20
SYMMETRY RunSymmetry
PROPERTIES
    ForgottenStaysForgotten
    FinishedRunsAreFinal
