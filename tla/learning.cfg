CONSTANTS
    Wild = Wild
    None = None
    MaxEntries = 4
    MaxBuffers = 1
    Stp = "stp"
    Hosts <- Pair
    AllPorts <- ThreePorts
    MovedTo <- BMoves
    MaxMoves = 2
    Group = "group"
    Filtered = "filtered"
    Traffic <- BothWays
    MaxInFlight = 1
SPECIFICATION FairSpec
PROPERTY Heals
