SPECIFICATION FairSpec
CONSTANTS
    Runs = {r1, r2}
    Keys = {k1, k2, k3}
    NoKey = NoKey
    HasInvite = FALSE
    BindMount = FALSE
    MaxAttempts = 2
    MaxCrashes = 1
    MaxLeaves = 1
INVARIANTS
    TypeOK
    OneIdentity
    EnrolledBeforeWork
    LeaveAloneIsComplete
PROPERTIES
    KeyIsKept
    EventuallyRegistered
