SPECIFICATION Spec
CONSTANTS
    SendCap = 2
    RecvCap = 2
    WakeCap = 1
    MaxTicks = 1
    MaxWrites = 2
    MaxIn = 1
    AddMayFail = FALSE
    FinCarriesData = FALSE
CHECK_DEADLOCK FALSE
INVARIANT CleanCloseDelivers
