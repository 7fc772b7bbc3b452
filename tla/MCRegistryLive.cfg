CONSTANTS
    Ids = {c1, c2}
    Keys = {k1}
    Sites = {s1}
    RegTokens = {t1}
    Admins = {a1}
    AllowPending = TRUE
    MaxPending = 1
    PendingTTL = 0
    TokenTTL = 1
    IdleAfter = 1
    MaxTime = 1
    Null = Null
SPECIFICATION FairSpec
PROPERTIES
    Lifecycle
    StaleGoes
    IdleStops
