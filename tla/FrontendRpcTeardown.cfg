SPECIFICATION FairSpec
CONSTANTS
    k1 = k1
    k2 = k2
    None = None
    Calls <- TwoCalls
    COMMANDS = 2
    PROGRESS = 1
    UPLINK = 4
    DOWNLINK = 1
    FRAMES = 2
    Oversizable <- Nobody
    MayShutDown = FALSE
    MayAbort = FALSE
    MayMisbehave = TRUE
CHECK_DEADLOCK FALSE
PROPERTIES
    BadFrameCloses
