SPECIFICATION FairSpec
CONSTANTS
    Definitions <- PairOrMap
    Awaits = {"save", "load"}
    Replies = {"success", "error"}
    CacheRaces = TRUE
    MayRaise = FALSE
    MaxCancels = 1
    MaxCalls = 5
INVARIANTS
    SomethingInProgress
PROPERTIES
    WorkflowEnds
