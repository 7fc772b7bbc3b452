CONSTANTS
    Clients = {c1, c2}
    Jtis = {j1}
    Leeway = 1
    MaxLifetime = 1
    Stall = 1
    MaxTime = 4
    Null = Null
SPECIFICATION Spec
SYMMETRY Symmetry
INVARIANTS
    TypeOK
    AcceptedOnce
    ReplayableOnRecord
    RecordsAreOwn
    RecordsBounded
