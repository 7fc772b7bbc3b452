CONSTANTS
    Portal = Portal
    Commands = {r1}
    Serialized = TRUE
    MaxKeys = 3
    MaxKills = 2
SPECIFICATION FairSpec
INVARIANTS
    TypeOK
    OldTokensVerify
    ManifestUsable
    OneSecret
PROPERTIES
    StartsUnlessEmpty
    ImplementsRing
