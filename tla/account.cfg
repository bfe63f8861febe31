SPECIFICATION MCSpec
CONSTANTS
    NoOne = NoOne
    MaxStarts = 3
    MaxKeys = 2
    MaxStops = 2
    MaxFaults = 1
INVARIANTS
    LifecycleSafe
    SyncSafe
PROPERTIES
    LifecycleSteps
    SessionsSafe
    ResetSafe
CHECK_DEADLOCK FALSE
