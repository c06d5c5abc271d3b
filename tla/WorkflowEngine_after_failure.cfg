SPECIFICATION Spec
CONSTANTS
    Definitions <- OnlyFork
    Awaits = {"save", "load"}
    Replies = {"success", "error"}
    CacheRaces = FALSE
    MayRaise = FALSE
    MaxCancels = 0
    MaxCalls = 4
PROPERTIES
    NoNewNodesAfterFailure
CHECK_DEADLOCK FALSE
