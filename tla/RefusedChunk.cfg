SPECIFICATION Spec
CONSTANTS
    SendCap = 2
    RecvCap = 1
    WakeCap = 1
    MaxTicks = 1
    MaxWrites = 3
    MaxIn = 0
    AddMayFail = TRUE
    FinCarriesData = FALSE
CHECK_DEADLOCK FALSE
INVARIANT OutIsPrefix
