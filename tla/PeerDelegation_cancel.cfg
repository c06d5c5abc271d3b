SPECIFICATION FairSpec
CONSTANTS
    MaxInvocations = 3
    MaxTurns = 1
    Call = {a, b}
    CancelRequest = {q}
    RunBased = TRUE
    SubmitFailures = {"late"}
    Failures = {"error"}
INVARIANTS
    SomethingWakesTask
    TypeOK
    ClaimedOnce
    TimerCoversSubTask
PROPERTIES
    TaskEnds
