CONSTANTS
    a = a
    b = b
    None = None
    Junctions = {a, b}
    Neighbours <- MCNeighbours
    Keys = {k1, k2}
    Ticks = {1, 2}
    Filters = {0, 1}
    Live = TRUE
    MaxPublished = 2
    MaxChanges = 2
    MaxJudged = 4
SYMMETRY Symmetry
CHECK_DEADLOCK FALSE
SPECIFICATION Spec
INVARIANTS
    TypeOK
    DeliveredMetAgain
    ScansBounded
    AtMostOnce
    NothingMissed
