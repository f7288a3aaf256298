SPECIFICATION Spec
CONSTANTS
    N = 2
    MaxSkip = 1
    Pressures = {0}
    Neighbours = {a, b}
    Vehicles = {ambulance, phantom}
    Real = {ambulance}
    Insiders = {a}
    None = None
    MaxIntervals = 2
    MaxMessages = 2
INVARIANTS ServedIsOnRecord RecordedOnce ForgeriesShow ProofsFit
PROPERTIES AssessmentsStand
CHECK_DEADLOCK FALSE
