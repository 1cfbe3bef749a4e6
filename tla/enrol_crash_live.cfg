SPECIFICATION FairSpec
CONSTANTS
    Runs = {r1}
    Keys = {k1, k2}
    NoKey = NoKey
    HasInvite = FALSE
    BindMount = FALSE
    MaxAttempts = 1
    MaxCrashes = 1
    MaxLeaves = 0
PROPERTIES
    RegisteredInSpiteOfDeath
