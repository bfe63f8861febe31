SPECIFICATION MCSpec
CONSTANTS
    Windows = {1, 2}
    Consumers = {"c1", "c2"}
    MaxRetries = 1
    MaxLeases = 1
    MaxFaults = 1
INVARIANTS
    CollectorSafe
    SnapshotsSafe
PROPERTIES
    TimelineJobsSafe
CHECK_DEADLOCK FALSE
