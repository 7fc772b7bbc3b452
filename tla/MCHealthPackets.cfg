CONSTANTS
    Intervals = {1}
    Metrics <- Uneven
    Second = 1
    Missed = 2
    StaleAfterMin = 1
    Window = 2
    EvidenceMin = 1
    Bucket = 2
    BucketsPerHour = 1
    Recent = 3
    Hours = 2
    MaxTime = 4
    MaxReports = 3
    MaxRestarts = 0
    MaxOpen = 1
    Null = Null
SPECIFICATION Spec
INVARIANT
    PacketsArrived
