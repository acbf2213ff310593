SPECIFICATION Spec
CONSTANTS
    Callers = {c1, c2}
    Digests = {d1, d2, d3}
    TtlLimit = 2
    MaxCap = 2
    MaxTime = 4
    MaxLog = 4
SYMMETRY Symm
INVARIANTS
    ReplayWindow
    NoSpuriousReplay
CHECK_DEADLOCK FALSE
