SPECIFICATION FairSpec
CONSTANTS
    MAX_IN_FLIGHT = 1
    MAX_QUEUE = 1
    c1 = c1
    s1 = s1
    s2 = s2
    r1 = r1
    r2 = r2
    r3 = r3
    None = None
    Conns <- OneConn
    Sockets <- OneSock
    ConnOf <- SoleConn
    Requests <- TwoCalls
    TargetOf <- ToC1
    Cancellable <- Nobody
    Abandonable <- Nobody
    Oversized <- Nobody
    CHANNEL = 1
    MayShutDown = TRUE
PROPERTIES ShutdownFailsEveryCall
CHECK_DEADLOCK FALSE
