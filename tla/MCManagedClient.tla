--------------------------- MODULE MCManagedClient ---------------------------
EXTENDS ManagedClient

Base == [statedir |-> TRUE, role |-> "client", experimental |-> FALSE, ver |-> TRUE,
         proxy |-> FALSE, methods |-> <<>>]

ClientEnvs ==
    {[Base EXCEPT !.methods = m] :
        m \in {<<"obfs4", "webtunnel">>, <<"obfs4", "other", "obfs4">>, <<"other">>}}
    \union {[Base EXCEPT !.methods = <<"webtunnel">>, !.ver = v, !.proxy = p] :
        v, p \in BOOLEAN}
    \union {[Base EXCEPT !.statedir = FALSE], [Base EXCEPT !.role = "both"],
            [Base EXCEPT !.role = "neither"], [Base EXCEPT !.role = "server"]}

Bind(m, a) == [method |-> m, addr |-> a]
BaseServer == [optionsParse |-> TRUE, options |-> [m \in {"obfs4"} |-> "valid"],
               bind |-> <<Bind("other", "a1"), Bind("obfs4", "a2")>>,
               transports |-> {"obfs4", "other"},
               orport |-> "a3", extport |-> "unset", cookie |-> FALSE]

ServerEnvs ==
    {[statedir |-> TRUE, role |-> "server", experimental |-> TRUE, ver |-> TRUE,
      proxy |-> FALSE, methods |-> <<>>, server |-> s] :
        s \in {BaseServer,
               [BaseServer EXCEPT !.transports = {"other"}],
               [BaseServer EXCEPT !.options = [m \in {"obfs4"} |-> "invalid"]],
               [BaseServer EXCEPT !.options = [m \in {"other"} |-> "invalid"]],
               [BaseServer EXCEPT !.bind = Append(@, Bind("obfs4", "a1"))],
               [BaseServer EXCEPT !.bind = <<Bind("obfs4", "no port")>>],
               [BaseServer EXCEPT !.extport = "a4"],
               [BaseServer EXCEPT !.orport = "unset", !.extport = "a4", !.cookie = TRUE],
               [BaseServer EXCEPT !.orport = "unset"]}}

MCEnvs == ClientEnvs \union ServerEnvs

Tunnel(url, addr, valid) ==
    [kind |-> "webtunnel", url |-> url, addr |-> addr, servername |-> "none",
     https |-> TRUE, valid |-> valid]
MCRequests ==
    [target : {"t1", "t2", "domain", "missing"},
     args : {[kind |-> "none"], [kind |-> "obfs4", cert |-> "c1"], [kind |-> "obfs4", cert |-> "c2"],
             Tunnel("u1", "none", TRUE), Tunnel("u2", "a1", TRUE), Tunnel("u1", "none", FALSE)}]
=============================================================================
