SPECIFICATION FairSpec
CONSTANTS
    p1 = p1
    p2 = p2
    p3 = p3
    Foreign = Foreign
    None = None
    Procs <- ThreeProcs
    MaySquat = TRUE
    FAILURES = 2
CHECK_DEADLOCK FALSE
INVARIANTS
    TypeOK
    FollowersHaveLeaders
    PortsBelongToRoles
    NoDeadBackend
    ClosingHasNoFollowers
PROPERTIES
    Converges
