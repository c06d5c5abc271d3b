SPECIFICATION FairSpec
CONSTANTS
    Task <- Tasks
    Run <- Runs
    TaskOf <- Targets
    Manual <- ByHand
    MaxRetries = 1
    MaxConcurrent = 1
    MaxErrors = 1
    MaxEdits = 1
    MaxCrashes = 1
INVARIANTS
    TypeOK
    ConcurrencyLimit
    OverlapNeedsEdit
    WaiterIsPending
PROPERTIES
    RunsEnd
    RowsEnd
CHECK_DEADLOCK FALSE
