CONSTANTS
    Settings <- AllSettings
    MaxRetries = 2
    MaxCalls = 3
SPECIFICATION Spec
INVARIANT FactoryThere
