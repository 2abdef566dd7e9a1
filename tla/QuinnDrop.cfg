SPECIFICATION Spec
CONSTANTS
    Kinds = {"quinn"}
    Modes = {"forward"}
    MaxChunks = 1
    SendCap = 1
    RecvCap = 1
    MayFail = FALSE
CHECK_DEADLOCK FALSE
INVARIANT OrderlyEndDelivers
