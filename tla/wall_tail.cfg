SPECIFICATION FairSpec
CONSTANTS
    Conns = {c1, c2}
    MaxClients = 1
    MaxRows = 2
    MaxLeaves = 1
    EarlyResets = TRUE
INVARIANTS
    SlotsAreNotOverrun
    NoReplay
PROPERTIES
    GoneClientsAreNoticed
    RowsReachClients
