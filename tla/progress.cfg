SPECIFICATION FairSpec
CONSTANTS
    NumWindows = 2
    Scores = {1}
    ScoreThreshold = 2
    MaxSemanticAttempts = 2
    MaxJobResults = 2
    MaxRuns = 4
    MaxCrashes = 1
    MaxRotations = 0
    MaxFaults = 1
PROPERTIES
    EverythingSettles
CHECK_DEADLOCK FALSE
