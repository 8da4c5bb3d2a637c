CONSTANTS
    PacketDuration = 1
    PacketSize = 3
    Second = 1
    ShortRange = 8
    UintRange = 32
    AddressRange = 12
    BasePort = 4
    Traffic = "Mirror"
    Destinations <- NoDestinations
    Step = 1
    Millisecond = 1
    Microsecond = 1
    NumberOfCalls = 3
    CallDuration = 2
    SimulationDuration = 8
    StartIp = 6
    ShouldStart = TRUE
    InitialRtp <- OneRtp
    MaxLag = 1
    MaxHups = 0
SPECIFICATION Spec
INVARIANTS
    TypeOK
    SteppedOncePerTick
    FlowsDistinct
PROPERTY ImplementsTrafficPool
