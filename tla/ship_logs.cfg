SPECIFICATION FairSpec
CONSTANTS
    Shippers = {s1}
    NoCursor = NoCursor
    Poisoned = {2}
    MaxRows = 3
    MaxCrashes = 1
    MaxLeaves = 1
INVARIANTS
    NothingSkipped
    NothingShippedTwice
PROPERTIES
    EveryRowIsPassed
