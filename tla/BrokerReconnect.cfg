SPECIFICATION Spec
CONSTANTS
    MAX_IN_FLIGHT = 1
    MAX_QUEUE = 1
    c1 = c1
    s1 = s1
    s2 = s2
    r1 = r1
    r2 = r2
    r3 = r3
    None = None
    Conns <- OneConn
    Sockets <- TwoSocks
    ConnOf <- SameConn
    Requests <- TwoCalls
    TargetOf <- ToC1
    Cancellable <- JustR1
    Abandonable <- Nobody
    Oversized <- Nobody
    CHANNEL = 1
    MayShutDown = FALSE
CHECK_DEADLOCK FALSE
INVARIANTS TypeOK RegistryMirrors
PROPERTIES KeepsContract CancelIsLast
