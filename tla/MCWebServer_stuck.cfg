CONSTANTS
    NumThreads = 2
    QueueSize = 2
    NumListeners = 2
    MaxConnections = 5
SPECIFICATION Spec
PROPERTY MasterWoken
