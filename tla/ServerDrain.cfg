SPECIFICATION WriteSpec
CONSTANTS
    Conns = {c1, c2}
    MaxStreams = 2
    MaxReady = 1
    SendCap = 1
    RecvCap = 1
    WakeCap = 1
    MaxWrites = 2
    MaxIn = 1
    AddMayFail = TRUE
CHECK_DEADLOCK FALSE
PROPERTIES AcceptedReachesQuic ParkedWriterResumes
