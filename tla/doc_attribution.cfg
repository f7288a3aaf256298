SPECIFICATION Spec
CONSTANTS
    N = 1
    MaxSkip = 1
    Pressures = {0}
    Neighbours = {a, b}
    Vehicles = {ambulance}
    Real = {ambulance}
    Insiders = {}
    None = None
    MaxIntervals = 2
    MaxMessages = 2
INVARIANTS AdmittedNotBlamed
CHECK_DEADLOCK FALSE
