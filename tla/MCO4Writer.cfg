CONSTANTS
    Modes = {"off", "enabled", "paranoid"}
    Header = 2
    MaxPayload = 2
    Boundary = 2
    Lengths = {0, 4}
    MaxNonce = 6
    WireCap = 2
    MaxBytes = 3
    MaxIntr = 1
SPECIFICATION WriterFair
INVARIANTS AcceptedIsEncoded BufferBounded BurstsAreSpaced
PROPERTIES FlushReturns
CHECK_DEADLOCK FALSE
