CONSTANTS
    Portal = Portal
    Commands = {r1}
    Serialized = TRUE
    MaxKeys = 3
    MaxKills = 1
SPECIFICATION FairSpec
PROPERTY
    StartsUnattended
