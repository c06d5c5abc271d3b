SPECIFICATION Spec
CONSTANTS
    Connection = {a, b}
    Reconnecting = {b}
    Final = 3
    QueueSize = 2
    Background = TRUE
INVARIANTS
    TypeOK
    FirstClientMissesNothing
    ReconnectSeesLogged
    EndMeansDelivered
    LoopNeverBlocked
PROPERTIES
    FeedSpec
CHECK_DEADLOCK FALSE
