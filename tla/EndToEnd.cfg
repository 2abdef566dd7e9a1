SPECIFICATION FairSpec
CONSTANTS
    Kinds = {"slipstream", "quinn"}
    Modes = {"forward", "echo"}
    MaxChunks = 2
    SendCap = 1
    RecvCap = 1
    MayFail = TRUE
CHECK_DEADLOCK FALSE
INVARIANTS TypeOK DeliveredInOrder HalfCloseIsComplete
PROPERTIES EndTravels AppLearns UpstreamLearns TasksEnd DataTravels WaysAreTunnels
