CONSTANTS
    Ids = {c1, c2}
    Keys = {k1, k2}
    Sites = {s1, s2}
    RegTokens = {t1}
    Admins = {a1}
    AllowPending = TRUE
    MaxPending = 1
    PendingTTL = 0
    TokenTTL = 1
    IdleAfter = 2
    MaxTime = 2
    Null = Null
SPECIFICATION Spec
SYMMETRY Symmetry
INVARIANTS
    TypeOK
    RowsConsistent
    PendingCap
    OnePendingPerKey
    TokenSpentOnce
    TokenAnswersAgree
PROPERTY
    IdleWhenListed
