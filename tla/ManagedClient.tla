---------------------------- MODULE ManagedClient ----------------------------
(***************************************************************************)
(* The managed transport from the parent's point of view: the setup of     *)
(* PtSetup, and the connections of Connection over the listeners it serves.*)
(***************************************************************************)
EXTENDS PtSetup, Connection

managedVars == <<setupVars, conn>>

ManagedInit == SetupInit /\ ConnInit

(* A connection waits in the backlog of its port until an accept loop      *)
(* takes it; a server's listener does nothing with it yet.                 *)
ParentConnects(c) ==
    /\ env.role = "client"
    /\ \E i \in DOMAIN bound : bound[i].port \in serving /\ Accept(c, bound[i].method)
    /\ UNCHANGED setupVars

ManagedNext ==
    \/ SetupNext /\ UNCHANGED conn
    \/ \E c \in Conns : ParentConnects(c)
    \/ \E c \in Conns : ConnNext(c) /\ UNCHANGED setupVars

(* The timers, and the steps that wait for nobody.                         *)
ManagedFairness ==
    \A c \in Conns :
        WF_managedVars((SocksFails(c) \/ Keygen(c) \/ ConnectUrl(c) \/ ConnectFails(c))
                       /\ UNCHANGED setupVars)

ManagedSpec == ManagedInit /\ [][ManagedNext]_managedVars /\ ManagedFairness

-----------------------------------------------------------------------------
Dialled == {c \in Conns : conn[c].pc \in {"handshake", "reply", "relay"}}

(* Every dial goes where this connection's own request says and nowhere    *)
(* else: obfs4 to the address of the SOCKS request, never to a name, with  *)
(* the certificate of the same request; WebTunnel to the addr= of its      *)
(* arguments or else to the host of the URL, never to the SOCKS target     *)
(* ("must never become a direct dial target").  With TOR_PT_PROXY set      *)
(* there is no dial at all ("refusing to bypass the configured proxy"),    *)
(* and no obfs4 dial begins before its key is drawn.                       *)
DialsAsAsked ==
    \A c \in Dialled : LET q == conn[c].req IN
        /\ ~env.proxy
        /\ q \in Requests /\ q.args.kind = conn[c].method
        /\ IF conn[c].method = "obfs4"
           THEN /\ conn[c].dialled = q.target /\ q.target # "domain"
                /\ conn[c].cfg.cert = q.args.cert /\ conn[c].key
           ELSE conn[c].dialled = IF q.args.addr = "none" THEN q.args.url ELSE q.args.addr

(* The parent is told of success only when the bridge has completed the    *)
(* handshake of this very connection, on a listener it was told of         *)
(* (set_execute_command(false), the reply after managed_connect).          *)
ReplyMeansTunnel ==
    \A c \in Conns : conn[c].pc \notin {"unused", "ended"} =>
        /\ conn[c].told => conn[c].tunnel
        /\ \E i \in DOMAIN lines : lines[i].what = "CMETHOD" /\ lines[i].method = conn[c].method
        /\ MethodsDone \in Range(lines)

(* A silent parent or a bridge that never answers does not keep a task:    *)
(* every negotiation comes to a reply or to its end, by the timeouts of    *)
(* client_handle_connection, establish and connect_url.                    *)
NegotiationEnds ==
    \A c \in Conns :
        conn[c].pc \in {"socks", "connect", "dial", "handshake"}
            ~> conn[c].pc \in {"reply", "relay", "ended"}
=============================================================================
