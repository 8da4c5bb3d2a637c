CONSTANTS
    Settings <- AllSettings
    MaxRetries = 2
    MaxCalls = 3
SPECIFICATION Spec
INVARIANTS
    UploadFindsSdk
    RunsOnLiveSdk
    ExitMeansUploaded
