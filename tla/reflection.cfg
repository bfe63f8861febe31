SPECIFICATION MCSpec
CONSTANTS
    Windows = {1, 2}
    Keys = {"k"}
    LEASE = 1
    TERMINAL_AFTER = 2
    DEDUPLICATION = 2
    DRAINING = 3
    Faults = {"retry", "fatal"}
    MaxTime = 2
    MaxFaults = 2
    MaxCrashes = 1
    MaxStops = 1
    MaxReplays = 1
INVARIANTS
    ReflectionJobsSafe
    StreamSafe
    WindowsSafe
PROPERTIES
    IsAQueue
CHECK_DEADLOCK FALSE
