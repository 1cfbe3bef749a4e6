SPECIFICATION PageSpec
CONSTANTS
    c1 = c1
    c2 = c2
    l1 = l1
    l2 = l2
    Conns = {c1, c2}
    MaxClients = 1
    MaxRows = 2
    MaxLeaves = 1
    EarlyResets = TRUE
    Loads = {l1, l2}
    Inputs = {1}
    DefaultLimit = 2
    MaxShown = 3
    MaxDrops = 1
    NoConn = NoConn
SYMMETRY Symmetry
INVARIANTS
    PageTypeOK
    AtMostTwice
    HolesAreExplained
    RefusedOnlyAfterDrops
