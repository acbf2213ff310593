SPECIFICATION ManagedSpec
CONSTANTS
    Envs <- MCEnvs
    Requests <- MCRequests
    Conns = {c1, c2}
INVARIANTS
    AnnouncedIsServed
    DialsAsAsked
    ReplyMeansTunnel
PROPERTIES
    NegotiationEnds
CHECK_DEADLOCK FALSE
