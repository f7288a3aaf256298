CONSTANTS
    N = 4
    MinGreen = 2
    Yellow = 1
    MaxSkip = 3
    Enabled = TRUE
    Pressures = {0, 1}
    Subclass = TRUE
    Preemptible = TRUE
    AgeCap = 8
    ViolationCap = 1
SPECIFICATION Spec
INVARIANTS
    DebtRepaid
