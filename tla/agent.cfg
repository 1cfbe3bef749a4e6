SPECIFICATION FairSpec
CONSTANTS
    r1 = r1
    r2 = r2
    i1 = i1
    i2 = i2
    n1 = n1
    n2 = n2
    NoNonce = NoNonce
    NoWU = NoWU
    NoId = NoId
    Runs = {r1, r2}
    Ids = {i1, i2}
    Nonces = {n1, n2}
    WorkUnits <- MixedUnits
    WithToken = {r1}
    MaxCrashes = 1
INVARIANTS
    SeenOnlyAfterAcceptance
    OnlyOverlapRepeats
    OneHolder
    MarkedIsAccountedFor
    LogTellsTheTruth
PROPERTIES
    ImplementsLedger
    ImplementsReplayMemory
    EventuallyConsumed
