SPECIFICATION Spec
CONSTANTS
    NumWindows = 2
    Scores = {1}
    ScoreThreshold = 2
    MaxSemanticAttempts = 2
    MaxJobResults = 2
    MaxRuns = 2
    MaxCrashes = 0
    MaxRotations = 2
    MaxFaults = 1
INVARIANTS
    NoDoubleScoring
    ArchiveMatchesRequest
    OneOpenRun
CHECK_DEADLOCK FALSE
