SPECIFICATION Spec
CONSTANTS
    Conns = {c1}
    MaxStreams = 2
    MaxReady = 2
    SendCap = 1
    RecvCap = 1
    WakeCap = 1
    MaxWrites = 2
    MaxIn = 2
    AddMayFail = FALSE
CHECK_DEADLOCK FALSE
INVARIANTS TypeOK NoLostWakeup ReadsOneConnection TailComplete
PROPERTIES SendPathsAreFifo
