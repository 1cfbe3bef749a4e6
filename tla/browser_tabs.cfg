SPECIFICATION Spec
CONSTANTS
    Tabs = {t1, t2}
    Seeds = {s1, s2, s3}
    NoSeed = NoSeed
    Units = {u1}
    NoUnit = NoUnit
    MaxRows = 3
    MaxReloads = 1
    MaxLeaves = 1
SYMMETRY Symmetry
INVARIANTS
    EnrolledBeforeWork
    NoResubmission
    IdentityIsStored
    NothingSkipped
PROPERTIES
    OneTabAppendsOnly
CHECK_DEADLOCK FALSE
