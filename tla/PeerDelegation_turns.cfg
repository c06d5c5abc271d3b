SPECIFICATION Spec
CONSTANTS
    MaxInvocations = 3
    MaxTurns = 2
    Call = {a, b}
    CancelRequest = {}
    RunBased = FALSE
    SubmitFailures = {"early"}
    Failures = {"error", "limit", "session", "prepare"}
SYMMETRY CallSymmetry
INVARIANTS
    OneFinalResponse
    OneResultPerCall
    ResumeHasEveryResult
PROPERTIES
    JoinSpec
CHECK_DEADLOCK FALSE
