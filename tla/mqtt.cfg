CONSTANTS
    Senders = {a, b}
    Self = self
    MaxTick = 1
    Retries = 1
    MaxCopies = 2
    MaxOwnCopies = 1
    MaxChanges = 1
SPECIFICATION FairSpec
INVARIANTS
    HandedOverOnce
    NothingVanishes
    SwallowedWereTurnedDown
PROPERTIES
    ReportsArrive
CHECK_DEADLOCK FALSE
