SPECIFICATION FairSpec
CONSTANTS
    Listeners = {l1, l2}
    Tasks = {t1, t2}
    MaxConns = 1
INVARIANTS
    NothingOutlivesRun
    PermitsAccountForWork
    DropReachesEveryTask
PROPERTIES
    ShutdownCompletes
    ListenerLossIsReported
    DropStopsEverything
CHECK_DEADLOCK FALSE
