CONSTANTS
    Seconds <- TwoSeconds
    MaxRuns = 2
    MaxPackets = 2
SPECIFICATION Spec
INVARIANTS
    ReportedSurvivesKill
    HeaderFirst
    UploadComplete
