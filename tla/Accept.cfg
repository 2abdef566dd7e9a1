SPECIFICATION FairSpec
CONSTANTS
    Conns = {c1, c2, c3, c4}
    MaxConns = 2
    Drain = 1
    Kinds <- AllKinds
CHECK_DEADLOCK FALSE
INVARIANTS TypeOK PermitConservation AtMostOneLateStart
PROPERTIES HeldIsStarted ShutdownCompletes
