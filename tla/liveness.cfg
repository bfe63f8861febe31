SPECIFICATION FairSpec
PROPERTIES
    EverythingEnds
CHECK_DEADLOCK FALSE
