SPECIFICATION MCSpec
CONSTANTS
    Flights = {"client", "runs", "sidecar", "timeline", "reflection", "native", "repository"}
    Failing = {"runs", "timeline"}
    MaxRequests = 1
    MaxFaults = 1
    LateAttempts = {FALSE, TRUE}
INVARIANTS
    ShutdownSafe
    InstallationSafe
PROPERTIES
    UpdateSafe
    NativeSafe
CHECK_DEADLOCK FALSE
