SPECIFICATION FairSpec
CONSTANTS
    Final = 6
    Threshold = 2
    MaxRetries = 3
    MaxFailures = 1
    MaxCleanups = 1
INVARIANTS
    TypeOK
    KeptOnce
    StoredInOrder
PROPERTIES
    LoopReturns
CHECK_DEADLOCK FALSE
