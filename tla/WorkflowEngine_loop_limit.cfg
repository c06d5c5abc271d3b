SPECIFICATION Spec
CONSTANTS
    Definitions <- ShortLoop
    Awaits = {"save", "load"}
    Replies = {"success"}
    CacheRaces = FALSE
    MayRaise = FALSE
    MaxCancels = 0
    MaxCalls = 4
INVARIANTS
    SomethingInProgress
CHECK_DEADLOCK FALSE
