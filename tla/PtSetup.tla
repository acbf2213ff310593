------------------------------- MODULE PtSetup -------------------------------
(***************************************************************************)
(* How a managed transport comes up (crates/lyrebird/src/lib.rs, server.rs,*)
(* pt_proto.rs; crates/core/src/helpers.rs): the environment the parent    *)
(* sets is checked, the lines of the control channel are printed, sockets  *)
(* are bound one after the other, and only then are they served.  A bind   *)
(* may fail, and the run may be stopped while it waits for one.            *)
(***************************************************************************)
EXTENDS Integers, Sequences, FiniteSets, Functions

CONSTANT Envs     \* the environments the parent may start the process with

ASSUME PtSetupConstants == \A e \in Envs : e.role = "client" => e.methods \in Seq(STRING)

ClientMethods == {"obfs4", "webtunnel"}
ServerMethods == {"obfs4"}

VARIABLES env,      \* the environment
          phase,    \* start, client, server, up, failed
          at,       \* the methods or bind addresses dealt with so far
          lines,    \* what was printed on the control channel
          bound,    \* sockets bound: one record per listener
          serving   \* ports with an accept loop

setupVars == <<env, phase, at, lines, bound, serving>>

Line(what, method, port) == [what |-> what, method |-> method, port |-> port]
Version == Line("VERSION", "", 0)
ProxyError == Line("PROXY-ERROR", "", 0)
MethodsDone == Line("CMETHODS DONE", "", 0)

SetupInit ==
    /\ env \in Envs
    /\ phase = "start" /\ at = 0
    /\ lines = <<>> /\ bound = <<>> /\ serving = {}

(* An error drops every socket bound so far; nothing was spawned.          *)
SetupFails ==
    /\ phase' = "failed" /\ bound' = <<>>
    /\ UNCHANGED <<env, at, serving>>

(* make_state_dir, is_client, and setup_listeners without the server.      *)
WrongStart ==
    /\ phase = "start"
    /\ \/ ~env.statedir
       \/ env.role \in {"both", "neither"}
       \/ env.role = "server" /\ ~env.experimental
    /\ SetupFails /\ UNCHANGED lines

-----------------------------------------------------------------------------
(* client_setup until the first bind: the version is announced, a proxy is *)
(* refused, and ClientInfo::new needs the version among those offered.     *)
ClientBegins ==
    /\ phase = "start" /\ env.statedir /\ env.role = "client"
    /\ IF env.proxy THEN lines' = <<Version, ProxyError>> /\ SetupFails
       ELSE IF ~env.ver THEN lines' = <<Version>> /\ SetupFails
       ELSE /\ lines' = <<Version>> /\ phase' = "client"
            /\ UNCHANGED <<env, at, bound, serving>>

(* One method of the list: its listener is bound and announced, or it is   *)
(* no transport of ours.                                                   *)
Method == env.methods[at + 1]

(* Mutant: each listener is served as soon as it is bound.                 *)
BindAndServe ==
    /\ phase = "client" /\ at < Len(env.methods) /\ Method \in ClientMethods
    /\ at' = at + 1
    /\ bound' = Append(bound, [method |-> Method, port |-> at + 1])
    /\ lines' = Append(lines, Line("CMETHOD", Method, at + 1))
    /\ serving' = serving \union {at + 1}
    /\ UNCHANGED <<env, phase>>

BindMethod ==
    /\ phase = "client" /\ at < Len(env.methods) /\ Method \in ClientMethods
    /\ at' = at + 1
    /\ bound' = Append(bound, [method |-> Method, port |-> at + 1])
    /\ lines' = Append(lines, Line("CMETHOD", Method, at + 1))
    /\ UNCHANGED <<env, phase, serving>>

UnknownMethod ==
    /\ phase = "client" /\ at < Len(env.methods) /\ Method \notin ClientMethods
    /\ at' = at + 1
    /\ lines' = Append(lines, Line("CMETHOD-ERROR", Method, 0))
    /\ UNCHANGED <<env, phase, bound, serving>>

(* The end of the list: CMETHODS DONE, and all accept loops are spawned.   *)
ClientUp ==
    /\ phase = "client" /\ at = Len(env.methods)
    /\ lines' = Append(lines, MethodsDone)
    /\ serving' = {bound[i].port : i \in DOMAIN bound}
    /\ phase' = "up"
    /\ UNCHANGED <<env, at, bound>>

-----------------------------------------------------------------------------
(* resolve_addr: an address needs a host and a port.                       *)
Resolves(addr) == addr \notin {"no host", "no port", "no address"}

(* ServerInfo::new and Bindaddr::get_server_bindaddrs: everything that has *)
(* to be right before the first socket is bound.                           *)
ServerInfoOk ==
    LET s == env.server IN
    /\ env.ver /\ s.optionsParse
    /\ s.bind # <<>> /\ s.transports # {}
    /\ \A i \in DOMAIN s.bind :
         /\ Resolves(s.bind[i].addr)
         /\ \A j \in DOMAIN s.bind : s.bind[i].method = s.bind[j].method => i = j
    /\ s.orport # "unset" => Resolves(s.orport)
    /\ s.extport # "unset" => Resolves(s.extport) /\ s.cookie
    /\ s.orport # "unset" \/ s.extport # "unset"

(* filter_bindaddrs: the bind addresses of the transports asked for.       *)
BindAddrs == SelectSeq(env.server.bind, LAMBDA b : b.method \in env.server.transports)

OptionsOf(method) ==
    IF method \in DOMAIN env.server.options THEN env.server.options[method] ELSE "none"

(* server_setup until the first bind.                                      *)
ServerBegins ==
    /\ phase = "start" /\ env.statedir /\ env.role = "server" /\ env.experimental
    /\ IF ServerInfoOk
       THEN phase' = "server" /\ UNCHANGED <<env, at, bound, serving>>
       ELSE SetupFails
    /\ UNCHANGED lines

(* One bind address; options that do not apply end the setup.              *)
BindServer ==
    LET b == BindAddrs[at + 1] IN
    /\ phase = "server" /\ at < Len(BindAddrs)
    /\ IF b.method \notin ServerMethods
       THEN at' = at + 1 /\ UNCHANGED <<env, phase, bound, serving>>
       ELSE IF OptionsOf(b.method) = "invalid" THEN SetupFails
       ELSE /\ at' = at + 1
            /\ bound' = Append(bound, [method |-> b.method, port |-> at + 1, addr |-> b.addr,
                                       options |-> OptionsOf(b.method)])
            /\ UNCHANGED <<env, phase, serving>>
    /\ UNCHANGED lines

(* The monitor task launches the listeners.                                *)
ServerUp ==
    /\ phase = "server" /\ at = Len(BindAddrs)
    /\ serving' = {bound[i].port : i \in DOMAIN bound}
    /\ phase' = "up"
    /\ UNCHANGED <<env, at, lines, bound>>

-----------------------------------------------------------------------------
(* A bind fails, or the run ends while the setup waits for one.            *)
BindFails ==
    /\ \/ phase = "client" /\ at < Len(env.methods) /\ Method \in ClientMethods
       \/ phase = "server" /\ at < Len(BindAddrs) /\ BindAddrs[at + 1].method \in ServerMethods
    /\ SetupFails /\ UNCHANGED lines

SetupNext ==
    \/ WrongStart \/ ClientBegins \/ BindMethod \/ UnknownMethod \/ ClientUp
    \/ ServerBegins \/ BindServer \/ ServerUp \/ BindFails

-----------------------------------------------------------------------------
Announced == {lines[i].port : i \in {j \in DOMAIN lines : lines[j].what = "CMETHOD"}}

(* The parent can rely on the control channel: a listener is served only   *)
(* after CMETHODS DONE; then every method of the list has its one line, in *)
(* order, between VERSION and DONE, every announced port is served by the  *)
(* method it was announced for, and no other is.  A setup that fails       *)
(* leaves nothing served or bound, although lines may be out (client_setup)*)
AnnouncedIsServed ==
    /\ phase # "up" => serving = {} /\ ~\E i \in DOMAIN lines : lines[i] = MethodsDone
    /\ phase = "failed" => bound = <<>>
    /\ phase = "up" /\ env.role = "client" =>
         /\ Len(lines) = Len(env.methods) + 2
         /\ \A i \in DOMAIN env.methods : lines[i + 1].method = env.methods[i]
         /\ serving = Announced /\ Cardinality(serving) = Len(bound)
         /\ \A i \in DOMAIN bound : Line("CMETHOD", bound[i].method, bound[i].port) \in Range(lines)
=============================================================================
