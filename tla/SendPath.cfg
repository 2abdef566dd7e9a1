SPECIFICATION FairSpec
CONSTANTS
    SendCap = 2
    RecvCap = 1
    WakeCap = 1
    MaxTicks = 1
    MaxWrites = 4
    MaxIn = 0
    AddMayFail = FALSE
    FinCarriesData = FALSE
CHECK_DEADLOCK FALSE
INVARIANTS NoLostWakeup CloseOnlyIfAbandoned
PROPERTIES SendPathIsFifo AbandonedThreadExits ParkedWriterResumes AcceptedReachesQuic
