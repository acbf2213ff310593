SPECIFICATION CsSpec
CONSTANTS
    Builders = {b1, b2}
    MaxSet = 3
    MaxForeign = 2
SYMMETRY Symm
INVARIANTS
    SavedClientRestored
    BuiltAsConfigured
PROPERTY
    BridgeFileKept
CHECK_DEADLOCK FALSE
