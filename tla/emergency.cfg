CONSTANTS
    west = west
    mid = mid
    east = east
    Junctions = {west, mid, east}
    Neighbours <- MCNeighbours
    Vehicles = {ambulance, phantom}
    Real = {ambulance}
    Insiders = {west}
    None = None
    Ttl = 1
SPECIFICATION FairSpec
INVARIANTS
    TypeOK
    NoPhantomGreen
PROPERTIES
    OrderDoesNotMatter
    PhantomShutsOut
