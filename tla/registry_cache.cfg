CONSTANTS
    Agents = {a, b}
    Keys = {k}
    NoKey = NoKey
    MaxEvents = 3
    Refreshers = {main, poller}
    Starter = main
    Source = "besu"
SPECIFICATION Spec
INVARIANTS
    RevocationLasts
    NoRevocationMissed
SYMMETRY Symmetry
