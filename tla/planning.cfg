SPECIFICATION MCSpec
CONSTANTS
    NumWriters = 2
    Chunks = 1
    Contents = {1, 2}
    PageLimit = 2
    BatchLimit = 1
    Legacy = 0
    MaxTries = 3
    MaxReads = 1
    MaxTimeouts = 1
    MaxCrashes = 1
INVARIANTS
    VaultSafe
    ScheduleSafe
PROPERTIES
    ReaderFindsAll
    AdjustmentSafe
    GoalSafe
CHECK_DEADLOCK FALSE
