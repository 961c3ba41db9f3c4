SPECIFICATION FairSpec
CONSTANTS
    MaxTime = 3
    MaxSpan = 1
    MaxBacklog = 2
    MaxScans = 4
    MaxImu = 4
    MaxIniCount = 1
INVARIANTS
    NextIsOldest
PROPERTIES
    SamplesFusedInOrder
    PredictsForward
    ScansProcessed
CHECK_DEADLOCK FALSE
