SPECIFICATION ClosingSpec
CONSTANTS
    Conns = {c1}
    MaxClients = 1
    MaxRows = 1
    MaxLeaves = 0
    EarlyResets = TRUE
PROPERTIES
    SlotsRecover
