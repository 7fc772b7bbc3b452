CONSTANTS
    Intervals = {2}
    Metrics <- Metered
    Second = 2
    Missed = 2
    StaleAfterMin = 1
    Window = 5
    EvidenceMin = 1
    Bucket = 2
    BucketsPerHour = 1
    Recent = 5
    Hours = 3
    MaxTime = 7
    MaxReports = 3
    MaxRestarts = 1
    MaxOpen = 1
    Null = Null
SPECIFICATION Spec
INVARIANTS
    TypeOK
    OnsetExact
    AlarmHasEvidence
    SilentFlagged
    BlocksHonest
    RunsCover
    ChartTrue
