----------------------------- MODULE Connection -----------------------------
(***************************************************************************)
(* What becomes of a connection of the parent (client_handle_connection    *)
(* and managed_connect of crates/lyrebird/src/lib.rs, establish of         *)
(* crates/obfs4/src/client.rs, the configuration half of                   *)
(* crates/webtunnel/src/lib.rs): the SOCKS request is read but not carried *)
(* out, the login holds the arguments of the transport, the transport      *)
(* dials and shakes hands, and only then does the parent get its reply.    *)
(*                                                                         *)
(* The parent, the bridge and the clock are the environment: each step of  *)
(* theirs may come late or never.  The timers are the process's own.       *)
(***************************************************************************)
EXTENDS Integers, FiniteSets

CONSTANTS Conns,        \* connections of the parent
          Requests      \* what it may ask for: [target, args]

VARIABLE conn

NoHost == "no host"
NoConfig == [kind |-> "none"]
NoRequest == [target |-> "missing", args |-> NoConfig]

Fresh(method) == [pc |-> "socks", method |-> method, cfg |-> NoConfig, req |-> NoRequest,
                  key |-> FALSE, dialled |-> NoHost, tunnel |-> FALSE, told |-> FALSE]
Unused == [pc |-> "unused"]

ConnInit == conn = [c \in Conns |-> Unused]

At(c, pc) == conn[c].pc = pc
To(c, r) == conn' = [conn EXCEPT ![c] = r]

(* client_accept_loop hands the connection over with a clone of the        *)
(* builder, which has no configuration of its own.                         *)
Accept(c, method) ==
    /\ At(c, "unused")
    /\ To(c, Fresh(method))

(* Whether the task is over; nothing is held then.                         *)
Ended == [pc |-> "ended"]
End(c) == To(c, Ended)

-----------------------------------------------------------------------------
(* PreparedConfig::new: addr= replaces where to connect, servername= the   *)
(* name for TLS; both default to the host of the URL.                      *)
Prepared(a) ==
    [kind |-> "webtunnel",
     host |-> IF a.addr = "none" THEN a.url ELSE a.addr,
     sni |-> IF a.servername = "none" THEN a.url ELSE a.servername,
     tls |-> a.https]

(* Whether options accepts the arguments: obfs4 needs its certificate and  *)
(* the mode, WebTunnel a URL with a host and, if any, valid overrides.     *)
OptionsOk(method, a) ==
    \/ method = "obfs4" /\ a.kind = "obfs4"
    \/ method = "webtunnel" /\ a.kind = "webtunnel" /\ a.valid

(* options and build on the connection's own clone.                        *)
Configured(method, a) ==
    IF method = "obfs4" THEN [kind |-> "obfs4", cert |-> a.cert] ELSE Prepared(a)

(* Mutant: the SOCKS library carries out the command.                      *)
ExecuteCommand(c, q) ==
    /\ At(c, "socks") /\ q.target # "missing"
    /\ IF OptionsOk(conn[c].method, q.args)
       THEN To(c, [conn[c] EXCEPT !.pc = "connect", !.req = q,
                                  !.cfg = Configured(conn[c].method, q.args),
                                  !.told = TRUE])
       ELSE End(c)

(* upgrade_to_socks5 returns with the request; set_execute_command(false)  *)
(* keeps the library from dialling and answering.  Then, without waiting:  *)
(* the target must be there, the arguments must parse and apply.           *)
SocksRequest(c, q) ==
    /\ At(c, "socks")
    /\ IF q.target # "missing" /\ OptionsOk(conn[c].method, q.args)
       THEN To(c, [conn[c] EXCEPT !.pc = "connect", !.req = q,
                                  !.cfg = Configured(conn[c].method, q.args)])
       ELSE End(c)

(* The parent breaks off or errs, or SOCKS5_SETUP_TIMEOUT is over.         *)
SocksFails(c) == At(c, "socks") /\ End(c)

-----------------------------------------------------------------------------
(* resolve_target_addr: no name is ever looked up for the parent; a name   *)
(* that spells an address is that address, "domain" is any other.          *)
ResolvesTarget(t) == t # "domain"

(* managed_connect of obfs4 and establish_with_keygen: the target must be  *)
(* an address, then the ephemeral key is drawn, before the dial; drawing   *)
(* it may fail.                                                            *)
Keygen(c) ==
    /\ At(c, "connect") /\ conn[c].cfg.kind = "obfs4"
    /\ \/ ResolvesTarget(conn[c].req.target) /\ To(c, [conn[c] EXCEPT !.pc = "dial", !.key = TRUE])
       \/ End(c)

(* Mutant: WebTunnel dials what the SOCKS request names.                   *)
DialTarget(c) ==
    /\ At(c, "connect") /\ conn[c].cfg.kind = "webtunnel"
    /\ To(c, [conn[c] EXCEPT !.pc = "dial", !.cfg.host = conn[c].req.target])

(* connect_url: the SOCKS target is a placeholder.                         *)
ConnectUrl(c) ==
    /\ At(c, "connect") /\ conn[c].cfg.kind = "webtunnel"
    /\ To(c, [conn[c] EXCEPT !.pc = "dial"])

(* dial_bridge, or the dial of WebTunnel; the socket connects.             *)
Dial(c) ==
    /\ At(c, "dial")
    /\ To(c, [conn[c] EXCEPT !.pc = "handshake",
                 !.dialled = IF conn[c].cfg.kind = "obfs4" THEN conn[c].req.target
                             ELSE conn[c].cfg.host])

(* The bridge completes the handshake.                                     *)
HandshakeDone(c) ==
    /\ At(c, "handshake")
    /\ To(c, [conn[c] EXCEPT !.pc = "reply", !.tunnel = TRUE])

(* Mutant: only the handshake has a deadline.                              *)
HandshakeFails(c) == At(c, "handshake") /\ End(c)

(* The dial or the handshake fails, or the budget of timeout_at is over,   *)
(* which spans both; WebTunnel has its deadline.                           *)
ConnectFails(c) == (At(c, "dial") \/ At(c, "handshake")) /\ End(c)

-----------------------------------------------------------------------------
(* The reply is written and flushed; the parent may not read it.           *)
Reply(c) ==
    /\ At(c, "reply")
    /\ To(c, [conn[c] EXCEPT !.pc = "relay", !.told = TRUE])

ReplyFails(c) == At(c, "reply") /\ End(c)

(* copy_bidirectional, until one side is done.                             *)
RelayEnds(c) == At(c, "relay") /\ End(c)

(* Forced teardown drops the task at whatever it waits for.                *)
Cancelled(c) == conn[c].pc \notin {"unused", "ended"} /\ End(c)

ConnNext(c) ==
    \/ \E q \in Requests : SocksRequest(c, q)
    \/ SocksFails(c) \/ Keygen(c) \/ ConnectUrl(c) \/ Dial(c) \/ HandshakeDone(c)
    \/ ConnectFails(c) \/ Reply(c) \/ ReplyFails(c) \/ RelayEnds(c) \/ Cancelled(c)
=============================================================================
