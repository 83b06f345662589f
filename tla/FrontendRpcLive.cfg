SPECIFICATION FairSpec
CONSTANTS
    k1 = k1
    k2 = k2
    None = None
    Calls <- TwoCalls
    COMMANDS = 2
    PROGRESS = 1
    UPLINK = 4
    DOWNLINK = 1
    FRAMES = 1
    Oversizable <- JustK2
    MayShutDown = FALSE
    MayAbort = TRUE
    MayMisbehave = FALSE
CHECK_DEADLOCK FALSE
PROPERTIES
    EveryCallEnds
    CancelStopsWork
