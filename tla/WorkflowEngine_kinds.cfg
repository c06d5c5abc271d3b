SPECIFICATION Spec
CONSTANTS
    Definitions <- AllKinds
    Awaits = {"save", "load", "sleep"}
    Replies = {"success", "error", "canceled"}
    CacheRaces = FALSE
    MayRaise = FALSE
    MaxCancels = 1
    MaxCalls = 5
INVARIANTS
    TypeOK
    SuccessIsComplete
    DependenciesFirst
    OnlyDeadBranchesSkipped
    IterationsInOrder
    MapRunsItems
CHECK_DEADLOCK FALSE
