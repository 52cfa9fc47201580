CONSTANTS
    Wild = Wild
    None = None
    MaxEntries = 4
    MaxBuffers = 0
    Stp = "stp"
    FirstPorts <- Ports12
    LatePorts <- NoPorts
    Addresses <- Pair
    Packets <- OnePacket
    FlowMods <- TableMods
    PacketOuts <- NoOuts
    Bits <- NoBits
    MaxQueue = 1
SPECIFICATION SpecAny
INVARIANT EachBufferReported
INVARIANT EveryPortKnown
PROPERTY ImplementsTable
