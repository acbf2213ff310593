SPECIFICATION Spec
CONSTANTS
    Listeners = {l1, l2}
    Tasks = {t1, t2}
    MaxConns = 2
INVARIANTS
    TerminateIsImmediate
CHECK_DEADLOCK FALSE
