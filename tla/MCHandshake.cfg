SPECIFICATION HsSpec
CONSTANTS
    Callers = {c1, c2, c3}
    Digests = {d1, d2}
    TtlLimit = 4
    MaxCap = 1
    MaxTime = 4
    MaxLog = 3
    TicksPerHour = 1
    Skews = {1}
    Pieces = 2
    MaxStall = 1
SYMMETRY Symm
INVARIANTS
    HelloAcceptedOnce
    HonestRefusedForCause
    ReplyVerifies
CHECK_DEADLOCK FALSE
