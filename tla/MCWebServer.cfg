CONSTANTS
    NumThreads = 3
    QueueSize = 2
    NumListeners = 1
    MaxConnections = 4
SPECIFICATION Spec
INVARIANT FreedAfterThreads
PROPERTIES
    ImplementsConnectionQueue
    QueuedIsTaken
    StopsUnlessLeftWaiting
