SPECIFICATION StSpec
CONSTANTS
    Builders = {b1, b2}
    MaxRandom = 6
    MaxSet = 3
    MaxForeign = 1
SYMMETRY Symm
INVARIANTS
    BuiltStateSurvives
    OneConfiguration
    ChangeIsForeign
CHECK_DEADLOCK FALSE
