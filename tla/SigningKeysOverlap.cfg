CONSTANTS
    Portal = Portal
    Commands = {r1, r2}
    Serialized = FALSE
    MaxKeys = 3
    MaxKills = 0
SPECIFICATION Spec
INVARIANT
    OldTokensVerify
