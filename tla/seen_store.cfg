SPECIFICATION Spec
CONSTANTS
    c1 = c1
    c2 = c2
    i1 = i1
    i2 = i2
    i3 = i3
    n1 = n1
    n2 = n2
    n3 = n3
    Clients = {c1, c2}
    Ids = {i1, i2, i3}
    Nonces = {n1, n2, n3}
    NoNonce = NoNonce
    NoRecord = NoRecord
    Units <- MixedUnits
    LineBreaks = {n3}
    MaxEntries = 2
    EvictCount = 1
    MaxFaults = 2
    MaxMarks = 4
    MaxRestarts = 1
SYMMETRY Symmetry
INVARIANTS
    DamageIsBounded
    NothingForgottenBelowBound
    RefusesOnlyReplays
PROPERTIES
    ImplementsReplayMemory
    MarksDoNotOverfill
CHECK_DEADLOCK FALSE
