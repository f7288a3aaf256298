CONSTANTS
    Callers = {admin}
    MaxWrites = 3
    MaxStarts = 1
    AutoFlush = TRUE
    Reopens = FALSE
    JoinMayTimeOut = TRUE
SPECIFICATION FairSpec
INVARIANTS
    NothingStranded
    EffectsInOrder
    FlushDrains
PROPERTIES
    HandlesResolve
