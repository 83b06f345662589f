SPECIFICATION FairSpec
CONSTANTS
    r1 = r1
    r2 = r2
    Requests <- TwoRequests
    SOCKETS = 2
    PROGRESS = 2
CHECK_DEADLOCK FALSE
INVARIANTS
    WorkIsOwned
    FramesAreDue
PROPERTIES
    RequestsAreSettled
