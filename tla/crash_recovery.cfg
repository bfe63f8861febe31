SPECIFICATION Spec
CONSTANTS
    NumWindows = 2
    Scores = {1, 2}
    ScoreThreshold = 2
    MaxSemanticAttempts = 2
    MaxJobResults = 2
    MaxRuns = 2
    MaxCrashes = 1
    MaxRotations = 0
    MaxFaults = 1
INVARIANTS
    TypeOK
    ScoreIsReceipts
    ConsumedIsReleased
    PhaseTwoProof
    RecoveryNeverMismatches
    NoRerunOfConsumed
    CommitFindsSources
PROPERTIES
    SourceOutlivesReceipt
    ScoreOnlyConsumed
    FeedbackSpec
CHECK_DEADLOCK FALSE
