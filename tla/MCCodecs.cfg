SPECIFICATION MCSpec
CONSTANTS
    CredCap = 3
    MaxWeight = 4
    MaxValues = 4
    MinClientPad = 1
    MaxClientPad = 5
    MinServerPad = 0
    MaxServerPad = 4
    MaxTrailing = 4
    MaxHandshake = 11
INVARIANTS
    ArgsSurvive
    LineSurvives
    DrawnByWeight
    HelloReadAtAnySplit
    NothingLostBehindHello
CHECK_DEADLOCK FALSE
