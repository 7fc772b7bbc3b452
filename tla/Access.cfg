CONSTANTS
    Kids = {1, 2, 3}
    TTL = 2
    Leeway = 1
    Stall = 1
    MaxTime = 4
    Null = Null
SPECIFICATION Spec
INVARIANTS
    TypeOK
    OutstandingVerifies
    CutOff
PROPERTY
    HintTrue
