CONSTANTS
    Agents = {a, b}
    Keys = {k, m}
    NoKey = NoKey
    MaxEvents = 3
    Refreshers = {main}
    Starter = main
    Source = "snapshot"
SPECIFICATION FairSpec
PROPERTIES
    CacheIsAView
    CatchesUp
