\* Two buyers, one service, limits of one and two requests.
SPECIFICATION Spec
CONSTANTS
    Buyer = {b1, b2}
    Service = {price}
    Orchestrator = orchestrator
    Request = {q1, q2}
    MaxSent = 3
    MAX_REQUESTS = 2
    QuoteShare = 3
    SettleShare = 10
    CheckShare = 4
    QuoteFloor = 1
    SettleFloor = 1
    CheckFloor = 1
    WINDOW = 2
    GRACE = 2
    None = None
SYMMETRY Symmetry
INVARIANTS
    TypeOK
PROPERTIES
    ResetsOnlyAfterTheGrace
    OwnLimit
