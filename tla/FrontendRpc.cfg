SPECIFICATION Spec
CONSTANTS
    k1 = k1
    k2 = k2
    None = None
    Calls <- TwoCalls
    COMMANDS = 2
    PROGRESS = 1
    UPLINK = 4
    DOWNLINK = 1
    FRAMES = 1
    Oversizable <- JustK2
    MayShutDown = TRUE
    MayAbort = TRUE
    MayMisbehave = TRUE
CHECK_DEADLOCK FALSE
INVARIANTS
    NoCallIsLost
    TasksAreAccounted
PROPERTIES
    IsRemoteCall
