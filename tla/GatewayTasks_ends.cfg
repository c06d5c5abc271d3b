SPECIFICATION FairSpec
CONSTANTS
    Task <- OneTask
    MaxUpdates = 3
    MaxRaises = 2
INVARIANTS
    TypeOK
    UpdatesInOrder
    CompletedOnce
PROPERTIES
    TaskEnds
CHECK_DEADLOCK FALSE
