SPECIFICATION TunnelFair
CONSTANTS
    Modes = {"off"}
    Header = 2
    MaxPayload = 2
    Boundary = 4
    Lengths = {3}
    MaxNonce = 4
    WireCap = 6
    MaxBytes = 3
    MaxIntr = 0
    ReadCaps = {1}
PROPERTIES IsByteStream FlushedArrives
CHECK_DEADLOCK FALSE
