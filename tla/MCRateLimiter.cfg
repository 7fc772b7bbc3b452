CONSTANTS
    Keys = {k1, k2}
    Limit = 2
    Window = 2
    MaxTime = 5
SPECIFICATION Spec
SYMMETRY Symmetry
INVARIANTS
    TypeOK
    NeverMoreThanLimit
    RefusedOnlyAtLimit
