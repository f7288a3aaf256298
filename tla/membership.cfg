CONSTANTS
    Agents = {a, b}
    Keys = {k, m}
    NoKey = NoKey
    MaxEvents = 3
    Recipient = r
    Refreshers = {poller}
    Starter = poller
    Source = "besu"
    MaxPublished = 1
    MaxJudged = 2
SYMMETRY Symmetry
CHECK_DEADLOCK FALSE
SPECIFICATION MembershipSpec
INVARIANTS
    SteadySenderHeard
PROPERTIES
    RevokedNotHeard
