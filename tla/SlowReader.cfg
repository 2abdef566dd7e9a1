SPECIFICATION Spec
CONSTANTS
    SendCap = 1
    RecvCap = 1
    WakeCap = 1
    MaxTicks = 1
    MaxWrites = 0
    MaxIn = 2
    AddMayFail = FALSE
    FinCarriesData = FALSE
CHECK_DEADLOCK FALSE
INVARIANT NothingReadIsLost
