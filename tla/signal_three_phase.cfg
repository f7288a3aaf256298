CONSTANTS
    N = 3
    MinGreen = 10
    Yellow = 3
    MaxSkip = 3
    Enabled = TRUE
    Pressures = {0, 1}
    Subclass = TRUE
    Preemptible = FALSE
    AgeCap = 0
    ViolationCap = 1
SPECIFICATION Spec
INVARIANTS
    TypeOK
    SkipBound
    OverdueAreOutnumbered
    WaitBound
PROPERTIES
    LampsKeepClearance
