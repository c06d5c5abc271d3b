SPECIFICATION FairSpec
CONSTANTS
    MaxInvocations = 2
    MaxTurns = 1
    Call = {a}
    CancelRequest = {}
    RunBased = FALSE
    SubmitFailures = {}
    Failures = {}
PROPERTIES
    TimedOutPeerStops
