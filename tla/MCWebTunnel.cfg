SPECIFICATION WtSpec
CONSTANTS
    Timeouts = {0, 1, 4, 9}
    AttemptTimeout = 2
    SystemReserve = 2
    MaxDelay = 1
    MaxAddrs = 3
    Responses <- MCResponses
    BufLen = 8
    ReadCaps = {0, 1, 3}
INVARIANTS
    EveryAddressGetsItsTurn
    FallbackAsksSystem
    PayloadIntact
PROPERTIES
    ConnectReturns
CHECK_DEADLOCK FALSE
