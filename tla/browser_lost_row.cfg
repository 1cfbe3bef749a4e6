SPECIFICATION Spec
CONSTANTS
    Tabs = {t1, t2}
    Seeds = {s1, s2}
    NoSeed = NoSeed
    Units = {u1}
    NoUnit = NoUnit
    MaxRows = 4
    MaxReloads = 0
    MaxLeaves = 0
SYMMETRY Symmetry
PROPERTIES
    AppendOnly
CHECK_DEADLOCK FALSE
