------------------------------ MODULE WebTunnel ------------------------------
(***************************************************************************)
(* One WebTunnel connection (crates/webtunnel/src/handshake.rs and lib.rs):*)
(* names are resolved and addresses dialled under one deadline, then TLS,  *)
(* the HTTP upgrade, and the PrefixStream that returns what was read past  *)
(* the response.  The peer, the resolvers and TLS are external: they       *)
(* answer, fail or stay silent.                                            *)
(*                                                                         *)
(* Time is counted from the start of the handshake.  A task whose timer    *)
(* fires is polled at most MaxDelay later.                                 *)
(***************************************************************************)
EXTENDS Integers, SequencesExt, FiniteSetsExt

CONSTANTS Timeouts,         \* handshake timeouts a builder is given
          AttemptTimeout,   \* CONNECT_ATTEMPT_TIMEOUT
          SystemReserve,    \* FALLBACK_SYSTEM_RESERVE
          MaxDelay,
          MaxAddrs,         \* bound: addresses in an answer
          Responses,        \* what a peer sends: [head, kind, payload]
          BufLen,           \* size of read_upgrade's buffer
          ReadCaps          \* sizes of the buffers the user reads into

ASSUME WebTunnelConstants ==
    /\ Timeouts \subseteq Nat /\ AttemptTimeout \in Nat \ {0} /\ SystemReserve \in Nat
    /\ MaxDelay \in Nat /\ MaxAddrs \in Nat \ {0} /\ BufLen \in Nat \ {0}
    /\ ReadCaps \subseteq Nat

LF == 0
CR == 1

VARIABLES cfg,      \* the PreparedConfig, and how the client is used
          peer,     \* what the peer sends on the carrier
          now, timer,
          pc, why,  \* where connect is, and where and why it failed
          dial,     \* the resolution or dialling in progress
          buf, scan, prefix,   \* read_upgrade and PrefixStream
          conn,     \* bytes of the carrier not yet read
          got,      \* bytes returned to the user
          asked,    \* resolvers asked, and the time that was left then
          over      \* the last list of addresses that was given up

dialVars == <<timer, dial, asked, over>>
upgradeVars == <<buf, scan, prefix, conn, got>>

deadline == cfg.timeout
InProgress == pc \notin {"start", "open", "failed"}

NoPeer == [head |-> <<>>, kind |-> "none", payload |-> <<>>]
NotOver == [tried |-> 0, of |-> 0, time |-> 0]
NoError == [at |-> "none", error |-> "none"]
Dial(from, limit, n, idx, began) ==
    [from |-> from, limit |-> limit, n |-> n, idx |-> idx, began |-> began]
NoDial == Dial("none", 0, 0, 0, 0)

DohMode == {"off", "strict", "fallback"}

(* connect_url with its DohMode, or "literal" for an address that needs no *)
(* resolver, and whether a DohResolver can be built; establish and wrap    *)
(* use a carrier and refuse bind addresses.                                *)
DirectConfigs ==
    [via : {"url"}, mode : DohMode \union {"literal"}, doh : BOOLEAN,
     tls : BOOLEAN, timeout : Timeouts]
CarrierConfigs ==
    [via : {"establish", "wrap"}, bound : BOOLEAN, tls : BOOLEAN, timeout : Timeouts]

WtInit ==
    /\ cfg \in DirectConfigs \union CarrierConfigs
    /\ peer = NoPeer /\ conn = <<>>
    /\ now = 0 /\ timer = 0 /\ pc = "start" /\ why = NoError /\ dial = NoDial
    /\ buf = <<>> /\ prefix = <<>> /\ got = <<>>
    /\ scan = [scanned |-> 0, line_start |-> 0, saw_status_line |-> FALSE, end |-> 0]
    /\ asked = {} /\ over = NotOver

-----------------------------------------------------------------------------
(* Resolution and dialling.                                                *)
Fail(w) == pc' = "failed" /\ why' = [at |-> pc, error |-> w]

(* lookup_until, and the resolver it polls.                                *)
LookupUntil(who, limit) ==
    IF now >= limit
    THEN Fail("timeout") /\ UNCHANGED <<timer, dial, asked>>
    ELSE /\ pc' = "lookup" /\ timer' = limit /\ UNCHANGED why
         /\ dial' = Dial(who, limit, 0, 0, 0)
         /\ asked' = asked \union {[who |-> who, left |-> deadline - now]}

(* A lookup or all of its addresses failed: connect_fallback_with goes on  *)
(* to the system resolver, the others return the error.                    *)
PhaseFailed(w) ==
    IF dial.from = "doh" /\ cfg.mode = "fallback" THEN LookupUntil("system", deadline)
    ELSE Fail(w) /\ UNCHANGED <<timer, dial, asked>>

(* Mutant: an attempt may use all of the time.                             *)
AttemptWithoutBound(d, i) == d.limit - now

Attempt(d, i) ==
    IF i = d.n THEN d.limit - now ELSE Min({d.limit - now, AttemptTimeout})

GivenUp(d, tried) == [tried |-> tried, of |-> d.n, time |-> d.limit - d.began]

(* connect_first_until, from its i-th address on.                          *)
DialFrom(d, i) ==
    IF i > d.n \/ now >= d.limit
    THEN over' = GivenUp(d, i - 1) /\ PhaseFailed("connect")
    ELSE /\ pc' = "dial" /\ dial' = Dial(d.from, d.limit, d.n, i, d.began)
         /\ timer' = now + Attempt(d, i)
         /\ UNCHANGED <<why, asked, over>>

(* Mutant: nothing is set aside for the system resolver.                   *)
NoReserve == deadline

(* doh_deadline.                                                           *)
DohDeadline == deadline - Min({SystemReserve, deadline \div 2})

(* open_tcp, until it first waits.                                         *)
OpenTcp ==
    \/ /\ cfg.mode = "literal"
       /\ DialFrom(Dial("literal", deadline, 1, 0, 0), 1)
    \/ /\ cfg.mode = "off"
       /\ LookupUntil("system", deadline) /\ UNCHANGED over
    \/ /\ cfg.mode = "strict" /\ UNCHANGED over
       /\ IF cfg.doh THEN LookupUntil("doh", deadline)
          ELSE Fail("resolver") /\ UNCHANGED <<timer, dial, asked>>
    \/ /\ cfg.mode = "fallback" /\ UNCHANGED over
       /\ IF cfg.doh /\ DohDeadline > now THEN LookupUntil("doh", DohDeadline)
          ELSE LookupUntil("system", deadline)

WaitFor(place) ==
    /\ pc' = place /\ timer' = deadline
    /\ UNCHANGED <<why, dial, asked, over, peer, conn>>

(* The carrier is there: tls_connect, or read_upgrade at once.  What was   *)
(* recorded of the dialling is no longer needed.                           *)
Upgrade ==
    /\ pc' = (IF cfg.tls THEN "tls" ELSE "write") /\ timer' = deadline
    /\ peer' \in Responses /\ conn' = peer'.head \o peer'.payload
    /\ dial' = NoDial /\ asked' = {} /\ over' = NotOver /\ UNCHANGED why

(* connect_url dials; establish awaits a carrier; wrap is given one.       *)
Start ==
    /\ pc = "start"
    /\ \/ Fail("config") /\ UNCHANGED dialVars /\ UNCHANGED <<peer, conn>>
       \/ cfg.via = "url" /\ OpenTcp /\ UNCHANGED <<peer, conn>>
       \/ /\ cfg.via # "url" /\ cfg.bound /\ Fail("unsupported")
          /\ UNCHANGED dialVars /\ UNCHANGED <<peer, conn>>
       \/ cfg.via = "establish" /\ ~cfg.bound /\ WaitFor("carrier")
       \/ cfg.via = "wrap" /\ ~cfg.bound /\ Upgrade
    /\ UNCHANGED <<cfg, now, buf, scan, prefix, got>>

LookupAnswered(n) ==
    /\ pc = "lookup"
    /\ DialFrom(Dial(dial.from, dial.limit, n, 0, now), 1)
    /\ UNCHANGED <<cfg, peer, now>> /\ UNCHANGED upgradeVars

LookupFails ==
    /\ pc = "lookup" /\ PhaseFailed("lookup") /\ UNCHANGED over
    /\ UNCHANGED <<cfg, peer, now>> /\ UNCHANGED upgradeVars

DialFails ==
    /\ pc = "dial" /\ DialFrom(dial, dial.idx + 1)
    /\ UNCHANGED <<cfg, peer, now>> /\ UNCHANGED upgradeVars

(* A lookup or an attempt takes longer than it may.                        *)
TimesOut == now >= timer /\ (LookupFails \/ DialFails)

Connected ==
    /\ pc \in {"dial", "carrier"} /\ Upgrade
    /\ UNCHANGED <<cfg, now, buf, scan, prefix, got>>

-----------------------------------------------------------------------------
(* TLS, the upgrade and the stream.                                        *)
TlsDone ==
    /\ pc = "tls" /\ WaitFor("write")
    /\ UNCHANGED <<cfg, peer, now>> /\ UNCHANGED upgradeVars

RequestSent ==
    /\ pc = "write" /\ WaitFor("read")
    /\ UNCHANGED <<cfg, peer, now>> /\ UNCHANGED upgradeVars

(* The carrier, the TLS handshake, a write or a read fails.                *)
CarrierFails ==
    /\ pc \in {"carrier", "tls", "write", "read"} /\ Fail("io")
    /\ UNCHANGED <<cfg, peer, now>> /\ UNCHANGED dialVars /\ UNCHANGED upgradeVars

(* One turn of the loop of HeaderBoundary::find; end is its result.        *)
ScanByte(h, bytes) ==
    LET at == h.scanned + 1
        line == SubSeq(bytes, h.line_start + 1, h.scanned)
        empty == line \in {<<>>, <<CR>>}
    IN  IF h.end # 0 THEN h
        ELSE IF bytes[at] # LF THEN [h EXCEPT !.scanned = at]
        ELSE [h EXCEPT !.scanned = at, !.line_start = at,
                       !.saw_status_line = @ \/ ~empty,
                       !.end = IF empty /\ h.saw_status_line THEN at ELSE 0]

Find(h, bytes) ==
    FoldLeft(LAMBDA r, b : ScanByte(r, bytes), h, SubSeq(bytes, h.scanned + 1, Len(bytes)))

(* httparse: the header ends with the first empty line after the status    *)
(* line; 0 if it is not complete.                                          *)
EmptyLineAt(bytes, i) ==
    bytes[i] = LF /\ i > 1 /\ (bytes[i - 1] = LF \/ (i > 2 /\ bytes[i - 1] = CR /\ bytes[i - 2] = LF))

HeaderEnd(bytes) ==
    LET ends == {i \in 1..Len(bytes) : /\ EmptyLineAt(bytes, i)
                                       /\ \E j \in 1..i : bytes[j] \notin {LF, CR}}
    IN  IF ends = {} THEN 0 ELSE Min(ends)

(* What a peer sends: a head, that is everything up to its first empty     *)
(* line, and then the payload; or less than a head.                        *)
ASSUME ResponsesSplit ==
    \A r \in Responses :
        /\ r.head \in Seq(Nat) /\ r.payload \in Seq(Nat)
        /\ IF HeaderEnd(r.head) = 0 THEN r.payload = <<>> ELSE HeaderEnd(r.head) = Len(r.head)

(* Mutant: what follows the header is dropped.                             *)
NothingLeftOver(bytes) == <<>>

LeftOver(bytes) == SubSeq(bytes, HeaderEnd(bytes) + 1, Len(bytes))

(* One turn of read_upgrade's loop: n bytes arrive.  Without a complete    *)
(* header it reads on, if the buffer has room.                             *)
ReadResponse(n) ==
    LET bytes == buf \o SubSeq(conn, 1, n)
        h == Find(scan, bytes)
        end == HeaderEnd(bytes)
        complete == end # 0 /\ peer.kind # "malformed"
    IN  /\ pc = "read" /\ n <= Len(conn) /\ Len(bytes) <= BufLen
        /\ buf' = bytes /\ scan' = h /\ conn' = SubSeq(conn, n + 1, Len(conn))
        /\ \/ h.end = 0 /\ Len(bytes) < BufLen /\ UNCHANGED <<pc, why, prefix>>
           \/ h.end = 0 /\ Len(bytes) >= BufLen /\ Fail("too large") /\ UNCHANGED prefix
           \/ /\ h.end # 0 /\ (~complete \/ (peer.kind = "101" /\ end < h.end))
              /\ Fail("parse") /\ UNCHANGED prefix
           \/ h.end # 0 /\ complete /\ peer.kind = "other" /\ Fail("non101") /\ UNCHANGED prefix
           \/ /\ h.end # 0 /\ complete /\ peer.kind = "101" /\ end >= h.end
              /\ pc' = "open" /\ prefix' = LeftOver(bytes) /\ UNCHANGED why
        /\ UNCHANGED <<cfg, peer, now, got>> /\ UNCHANGED dialVars

ResponseEnds ==
    /\ pc = "read" /\ conn = <<>> /\ Fail("closed")
    /\ UNCHANGED <<cfg, peer, now>> /\ UNCHANGED dialVars /\ UNCHANGED upgradeVars

(* PrefixStream::poll_read into a buffer of cap bytes; n is what the       *)
(* carrier has.                                                            *)
PollRead(cap, n) ==
    /\ pc = "open"
    /\ IF prefix # <<>>
       THEN LET k == Min({Len(prefix), cap})
            IN  /\ got' = got \o SubSeq(prefix, 1, k)
                /\ prefix' = SubSeq(prefix, k + 1, Len(prefix)) /\ UNCHANGED conn
       ELSE /\ n <= Len(conn) /\ n <= cap /\ UNCHANGED prefix
            /\ got' = got \o SubSeq(conn, 1, n) /\ conn' = SubSeq(conn, n + 1, Len(conn))
    /\ UNCHANGED <<cfg, peer, now, pc, why, buf, scan>> /\ UNCHANGED dialVars

-----------------------------------------------------------------------------
Tick ==
    /\ InProgress /\ now < timer + MaxDelay /\ now' = now + 1
    /\ UNCHANGED <<cfg, peer, pc, why>> /\ UNCHANGED dialVars /\ UNCHANGED upgradeVars

(* Mutant: the deadline is for the connection only.                        *)
ExpireDialling ==
    /\ pc \in {"lookup", "dial", "carrier"} /\ now >= deadline /\ Fail("timeout")
    /\ over' = IF pc = "dial" THEN GivenUp(dial, dial.idx) ELSE over
    /\ UNCHANGED <<cfg, peer, now, timer, dial, asked>> /\ UNCHANGED upgradeVars

(* timeout_at around all of it.                                            *)
Expire ==
    /\ InProgress /\ now >= deadline /\ Fail("timeout")
    /\ over' = IF pc = "dial" THEN GivenUp(dial, dial.idx) ELSE over
    /\ UNCHANGED <<cfg, peer, now, timer, dial, asked>> /\ UNCHANGED upgradeVars

WtNext ==
    \/ Start \/ LookupFails \/ DialFails \/ Connected
    \/ \E n \in 1..MaxAddrs : LookupAnswered(n)
    \/ TlsDone \/ RequestSent \/ CarrierFails
    \/ \E n \in 1..BufLen : ReadResponse(n)
    \/ ResponseEnds
    \/ \E cap \in ReadCaps, n \in 1..BufLen : PollRead(cap, n)
    \/ Tick \/ Expire

WtVars == <<cfg, peer, now, timer, pc, why, dial, buf, scan, prefix, conn, got, asked, over>>

(* The task is polled and the clock runs; nothing is expected of the peer. *)
WtSpec == WtInit /\ [][WtNext]_WtVars /\ WF_WtVars(Start) /\ WF_WtVars(Tick)
                 /\ WF_WtVars(TimesOut) /\ WF_WtVars(Expire)

-----------------------------------------------------------------------------
(* "A silent peer cannot starve later addresses": addresses are left       *)
(* untried only when those that were tried could have used up all of the   *)
(* time at their bounded share each.                                       *)
EveryAddressGetsItsTurn ==
    over.tried < over.of => over.tried * (AttemptTimeout + MaxDelay) >= over.time

(* In fallback mode a connection fails before its carrier is there only    *)
(* after the system resolver was asked, with its reserve still left (if    *)
(* that is more than the delay of the scheduler).                          *)
FallbackAsksSystem ==
    LET reserve == Min({SystemReserve, deadline \div 2})
    IN  /\ cfg.via = "url" /\ cfg.mode = "fallback" /\ why.error # "config"
        /\ why.at \in {"start", "lookup", "dial"} /\ reserve > MaxDelay
        => \E a \in asked : a.who = "system" /\ a.left >= reserve - MaxDelay

(* From the moment the stream is handed out, what was returned, what is    *)
(* kept and what is still on the carrier are together the bytes the peer   *)
(* sent after its response: none is lost, repeated or reordered, however   *)
(* the reads were split.                                                   *)
PayloadIntact ==
    pc = "open" => got \o prefix \o conn = peer.payload

(* Whatever the resolvers and the peer do, connect ends.                   *)
ConnectReturns ==
    <>(pc \in {"open", "failed"})
=============================================================================
