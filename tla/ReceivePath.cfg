SPECIFICATION FairSpec
CONSTANTS
    SendCap = 1
    RecvCap = 3
    WakeCap = 1
    MaxTicks = 1
    MaxWrites = 1
    MaxIn = 3
    AddMayFail = TRUE
    FinCarriesData = TRUE
CHECK_DEADLOCK FALSE
INVARIANTS TypeOK InboundInOrder EofTruthful TailComplete
PROPERTIES EndIsReported ReceivePathIsTunnel
