SPECIFICATION PartsSpec
CONSTANTS
    Frontends = {f1, f2}
    Plugins = {p1}
    MaxFaults = 1
    MAX_DEPTH = 1
    MAX_RETURNED_NODES = 4
    MAX_INPUT_IDS = 3
    MaxElements = 6
    Names = {"a", "b", "c"}
    NameLength <- Length
    ValueLengths = {1, 2, 6}
    MAX_ENVELOPE_BYTES = 26
    MAX_TEXT_BYTES = 16
    MAX_SVG_BYTES = 4
    MAX_RASTER_BASE64_BYTES = 8
    Assets <- SomeAssets
    MaxAssets = 4
    WrapBytes = 1
    ErrorBytes = 2
    RETRY_DELAY_BASE = 1
    RETRY_DELAY_CAP = 5
    MIN_RETRY_DELAY_MS = 1
    MAX_RETRY_DELAY_MS = 9
    FULL_LOG_ATTEMPTS = 4
    QUIET_HEARTBEAT_ATTEMPTS = 6
    FULL_LOG_RECYCLES = 1
    QUIET_HEARTBEAT_RECYCLES = 2
    Spans = {0, 2, 5}
    MaxCount = 14
INVARIANTS
    EveryEncoding
    OnlyEncodings
    SameTrees
    EstimateIsExact
    BatchIsFaithful
    WaitsAreEarned
    NeverSilent
    CountsAreLeases
    ClosingIsEmpty
PROPERTIES
    QuietBrokerCloses
CHECK_DEADLOCK FALSE
