SPECIFICATION FairSpec
CONSTANTS
    MAX_IN_FLIGHT = 2
    MAX_QUEUE = 2
    MaxId = 5
INVARIANTS BooksBalance PlacesAreHeld GrantsAreReal
PROPERTIES EveryWaiterResolves IsSemaphore
CHECK_DEADLOCK FALSE
