SPECIFICATION Spec
CONSTANTS
    Definitions <- OnlyChain
    Awaits = {"save", "load"}
    Replies = {"success", "error", "canceled"}
    CacheRaces = FALSE
    MayRaise = TRUE
    MaxCancels = 0
    MaxCalls = 4
INVARIANTS
    CalledOnce
    CallsSeeOutputs
    OneResponse
CHECK_DEADLOCK FALSE
