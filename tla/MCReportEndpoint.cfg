CONSTANTS
    Clients = {c1, c2}
    Requests = {r1, r2}
    Retention = 1
    MaxTime = 2
    Null = Null
SPECIFICATION FairSpec
INVARIANTS
    TypeOK
    NoOrphans
PROPERTIES
    LatestNeverLost
    KeptForRetention
    OldReportsGo
