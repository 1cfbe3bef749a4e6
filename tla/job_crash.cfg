SPECIFICATION Spec
CONSTANTS
    P = 29
    D = 27
    L = 5
    BaseY = 18
    Jobs <- CrashJobs
    PageKeys = {"", "core", "other"}
    Probabilities = {0, 5994, 5996, 6000, 6874, 6876, 10000, 20000}
    Thresholds <- Calibrations
    Joblib <- Classifiers
    MaxPromotions = 0
    MaxBytes = 8
    ChunkSize = 3
    Seeds = {0, 27}
    Hashes = {0, 1, 2, 3, 4, 5, 6, 9}
INVARIANTS
    NoUncaughtCrash
