SPECIFICATION FairSpec
CONSTANTS
    k1 = k1
    k2 = k2
    Calls <- OneCall
    BACKENDS = 3
    PROGRESS = 2
CHECK_DEADLOCK FALSE
INVARIANTS
    TypeOK
    NoWaiterMissesABackend
PROPERTIES
    AbandonedIsCancelled
    NothingIsLeftWaiting
