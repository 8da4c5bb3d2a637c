CONSTANTS
    PacketDuration = 2
    PacketSize = 3
    Second = 2
    ShortRange = 16
    UintRange = 16
    AddressRange = 8
    BasePort = 4
    Traffic = "DrLink"
    Destinations <- FourDestinations
    Step = 2
    Millisecond = 2
    Microsecond = 2
    NumberOfCalls = 1
    CallDuration = 4
    SimulationDuration = 7
    StartIp = 6
    ShouldStart = TRUE
    InitialRtp <- OneRtp
    MaxLag = 3
    MaxHups = 1
SPECIFICATION FairSpec
INVARIANTS
    NotAheadOfClock
    StopsWithinATick
    NotCutShort
    IdsApart
    MediaConserved
    LogLocatesStream
PROPERTIES
    NeverEndsEarly
    SleepsToTheTick
    SimulationEnds
