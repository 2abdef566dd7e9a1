SPECIFICATION LongConnections
CONSTANTS
    Conns = {c1, c2}
    MaxConns = 1
    Drain = 1
    Kinds <- JustQuinn
CHECK_DEADLOCK FALSE
PROPERTY SignalEndsProcess
