SPECIFICATION Spec
CONSTANTS
    H = 2
    Slack = 1
    Warmup = 1
    Band = 2
    None = None
    Span = 1
    Retain = 2
    Lies = {0, 3}
    MaxTime = 4
    MaxMoves = 1
INVARIANTS
    TypeOK
    SustainedIsFlagged
    FlagsMeanARun
    LatencySpansUnrest
    ClaimReproducible
PROPERTIES
    BenignResidual
CHECK_DEADLOCK FALSE
