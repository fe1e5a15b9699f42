\* Two loops on one store.
SPECIFICATION Spec
CONSTANTS
    Loop = {l1, l2}
    OrchestratorRounds = 3
    VerdictCounts = {1, 3}
    None = None
CHECK_DEADLOCK FALSE
INVARIANTS
    TypeOK
    ScreensTellTheTruth
    ShownIsSigned
PROPERTIES
    RequestsFollowTheRun
    LoopEnds
