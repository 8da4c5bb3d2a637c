CONSTANTS
    Threads <- MainAndPuts
    MaxPuts = 2
    Handles = {h1, h2, h3}
    NoHandle = NoHandle
    NoThread = NoThread
    MaxPoolSize = 2
    InitFails = TRUE
    MaxRetries = 1
    TransfersFail = TRUE
SPECIFICATION Spec
INVARIANTS
    ConnectionsWithinMax
    DetachFindsThread
    PoolOutlivesThreads
PROPERTIES
    ImplementsCloudServices
    ProgramEnds
