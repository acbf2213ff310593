------------------------------ MODULE Handshake ------------------------------
(***************************************************************************)
(* The obfs4 handshake (crates/obfs4/src/sessions.rs, handshake/*.rs) over *)
(* the shared replay filter.  The client puts the hour of its own clock    *)
(* into the MAC of its hello but not on the wire; the bridge tries its own *)
(* hour and the two around it, then asks the replay filter about the MAC.  *)
(* Both sides read the peer's message in pieces and parse the whole prefix *)
(* again after every piece.                                                *)
(*                                                                         *)
(* A connection is a caller of the filter; a hello is the digest of its    *)
(* MAC.  Wall clocks run at the rate of the monotonic clock; a client's is *)
(* off by a skew.  Times are ticks, TicksPerHour to the hour.              *)
(***************************************************************************)
EXTENDS ReplayFilter

CONSTANTS TicksPerHour,  \* resolution of the clock
          Skews,         \* how far clients' clocks may be off, in ticks
          Pieces,        \* pieces a message arrives in; all of them fill the buffer
          MaxStall       \* longest delay from the hour being read to the filter's answer

ASSUME HandshakeConstants ==
    /\ TicksPerHour \in Nat \ {0}
    /\ Skews \subseteq Int
    /\ Pieces \in Nat \ {0}
    /\ MaxStall \in Nat
    /\ TtlLimit >= 3 * TicksPerHour + MaxStall    \* REPLAY_TTL is 30 hours

VARIABLES hello,  \* per digest: when, and stamped with which hour, it was made
          conn    \* per connection: both ends

hsVars == <<hello, conn>>

NotMade == [made |-> FALSE]
Hello == [made : {TRUE}, at : Time, skew : Int, stamp : Int]
Junk == "junk"      \* bytes without the mark of any hello
NoMsg == "nothing"

ASSUME NamesDistinct == Junk \notin Digests /\ NoMsg \notin Digests

Opened(m, cli) == [srv |-> "reading", cli |-> cli, msg |-> m, got |-> 0, at |-> 0,
                   cause |-> "none", echo |-> 0, rgot |-> 0]
Unused == [Opened(NoMsg, "none") EXCEPT !.srv = "unused"]

(* get_epoch_hour.                                                         *)
Hour(t) == t \div TicksPerHour

-----------------------------------------------------------------------------
(* Mutants of the hour window.                                             *)
OneHourBehind(stamp, hour) == stamp - hour \in {-1, 0}
TwoHours(stamp, hour) == stamp - hour \in -2..2

(* The MAC matches for one of the hours hour + {0, -1, +1}.                *)
MacMatches(stamp, hour) == stamp - hour \in -1..1

-----------------------------------------------------------------------------
HsInit ==
    /\ Init
    /\ hello = [d \in Digests |-> NotMade]
    /\ conn = [c \in Callers |-> Unused]

HsUnchanged == UNCHANGED vars

(* ClientSession::handshake: marshall stamps the client's hour, and the    *)
(* hello is written to the stream.                                         *)
ClientHello(c, d, skew) ==
    /\ conn[c].srv = "unused" /\ ~hello[d].made
    /\ hello' = [hello EXCEPT ![d] = [made |-> TRUE, at |-> clock, skew |-> skew,
                                      stamp |-> Hour(clock + skew)]]
    /\ conn' = [conn EXCEPT ![c] = Opened(d, "waiting")]
    /\ HsUnchanged

(* The same bytes arrive on another connection, or bytes that are no hello.*)
HelloAgain(c, d) ==
    /\ conn[c].srv = "unused" /\ hello[d].made
    /\ conn' = [conn EXCEPT ![c] = Opened(d, "none")]
    /\ UNCHANGED hello /\ HsUnchanged

NoHello(c) ==
    /\ conn[c].srv = "unused"
    /\ conn' = [conn EXCEPT ![c] = Opened(Junk, "none")]
    /\ UNCHANGED hello /\ HsUnchanged

(* The bridge refuses: it discards input until the deadline, if one is set.*)
(* at is when it read the hour.  The read buffer is gone.                  *)
Refused(r, why, at, to) == [r EXCEPT !.srv = to, !.cause = why, !.got = 0, !.at = at]

(* Mutant: a hello that is not complete yet goes to the filter as well.    *)
TestEveryPiece(c) ==
    /\ conn[c].srv = "reading" /\ conn[c].got + 1 < Pieces
    /\ conn' = [conn EXCEPT ![c].got = @ + 1]
    /\ \E seen \in BOOLEAN :
          /\ TestAndSet(clock, conn[c].msg, seen)
          /\ log' = IF seen THEN log
                    ELSE Append(log, [digest |-> conn[c].msg, first_seen |-> latest_time'])
    /\ UNCHANGED <<hello, clock, call, answer>>

(* Server::complete_handshake, one read: EAgain until the mark stands at   *)
(* the end of what was read, then the MAC under the three hours.           *)
ServerReadsPart(c) ==
    /\ conn[c].srv = "reading" /\ conn[c].got + 1 < Pieces
    /\ conn' = [conn EXCEPT ![c].got = @ + 1]
    /\ UNCHANGED hello /\ HsUnchanged

BufferFull(c) ==
    /\ conn[c].srv = "reading" /\ conn[c].got + 1 = Pieces /\ conn[c].msg = Junk
    /\ conn' = [conn EXCEPT ![c] = Refused(@, "full", 0, "failed")]
    /\ UNCHANGED hello /\ HsUnchanged

ServerParses(c) ==
    LET r == conn[c] IN
    /\ r.srv = "reading" /\ r.got + 1 = Pieces /\ r.msg # Junk
    /\ IF MacMatches(hello[r.msg].stamp, Hour(clock))
       THEN conn' = [conn EXCEPT ![c] = [r EXCEPT !.srv = "checking", !.got = Pieces,
                                                  !.at = clock]]
       ELSE \E to \in {"discarding", "failed"} :
              conn' = [conn EXCEPT ![c] = Refused(r, "bad", clock, to)]
    /\ UNCHANGED hello /\ HsUnchanged

(* ... then Instant::now() and the filter's mutex.                         *)
TestMac(c) ==
    /\ conn[c].srv = "checking"
    /\ Capture(c, conn[c].msg)
    /\ conn' = [conn EXCEPT ![c].srv = "locking"]
    /\ UNCHANGED hello

(* Mutant: the reply is over the bridge's own hour.                        *)
ReplyWithOwnHour(c) ==
    /\ conn[c].srv = "locking"
    /\ LockedTest(c)
    /\ IF answer'.seen
       THEN \E to \in {"discarding", "failed"} :
              conn' = [conn EXCEPT ![c] = Refused(@, "replayed", 0, to)]
       ELSE conn' = [conn EXCEPT ![c].srv = "replying", ![c].echo = Hour(clock),
                                 ![c].got = 0, ![c].at = 0]
    /\ UNCHANGED hello

(* The answer of the filter.  (Every hello was made by a client with a key *)
(* of its own, so the test for a key that does not contribute passes.)     *)
MacTested(c) ==
    /\ conn[c].srv = "locking"
    /\ LockedTest(c)
    /\ IF answer'.seen
       THEN \E to \in {"discarding", "failed"} :
              conn' = [conn EXCEPT ![c] = Refused(@, "replayed", 0, to)]
       ELSE conn' = [conn EXCEPT ![c].srv = "replying", ![c].echo = hello[conn[c].msg].stamp,
                                 ![c].got = 0, ![c].at = 0]
    /\ UNCHANGED hello

ServerReplied(c) ==
    /\ conn[c].srv = "replying"
    /\ conn' = [conn EXCEPT ![c].srv = "established"]
    /\ UNCHANGED hello /\ HsUnchanged

(* End of input, an I/O error or the handshake timeout, at any await.      *)
ServerGivesUp(c) ==
    /\ conn[c].srv \in {"reading", "replying", "discarding"}
    /\ conn' = [conn EXCEPT ![c].srv = "failed", ![c].got = 0]
    /\ UNCHANGED hello /\ HsUnchanged

(* ClientSession::complete_handshake: the reply's MAC must be over the     *)
(* hour the client stamped, whatever hour it is by now.                    *)
ClientReads(c) ==
    LET r == conn[c] IN
    /\ r.cli = "waiting"
    /\ \/ r.srv = "established"
       \/ r.srv = "replying" /\ r.rgot + 1 < Pieces
    /\ conn' = [conn EXCEPT
           ![c].rgot = (@ + 1) % Pieces,
           ![c].cli = IF r.rgot + 1 < Pieces THEN "waiting"
                      ELSE IF r.echo = hello[r.msg].stamp THEN "established" ELSE "refused"]
    /\ UNCHANGED hello /\ HsUnchanged

ClientGivesUp(c) ==
    /\ conn[c].cli = "waiting"
    /\ conn' = [conn EXCEPT ![c].cli = "failed", ![c].rgot = 0]
    /\ UNCHANGED hello /\ HsUnchanged

(* Time passes, but no call of the filter is held up beyond MaxStall.      *)
TimePasses ==
    /\ Tick
    /\ \A c \in Callers : conn[c].srv \in {"checking", "locking"} => clock - conn[c].at < MaxStall
    /\ UNCHANGED hsVars

HsNext ==
    \/ TimePasses
    \/ \E c \in Callers, d \in Digests, k \in Skews : ClientHello(c, d, k)
    \/ \E c \in Callers, d \in Digests : HelloAgain(c, d)
    \/ \E c \in Callers : NoHello(c)
    \/ \E c \in Callers : ServerReadsPart(c)
    \/ \E c \in Callers : BufferFull(c)
    \/ \E c \in Callers : ServerParses(c)
    \/ \E c \in Callers : TestMac(c)
    \/ \E c \in Callers : MacTested(c)
    \/ \E c \in Callers : ServerReplied(c)
    \/ \E c \in Callers : ServerGivesUp(c)
    \/ \E c \in Callers : ClientReads(c)
    \/ \E c \in Callers : ClientGivesUp(c)

HsSpec == HsInit /\ [][HsNext]_<<vars, hsVars>>

-----------------------------------------------------------------------------
ServerPcs == {"unused", "reading", "checking", "locking", "replying", "established",
              "discarding", "failed"}
ClientPcs == {"none", "waiting", "established", "refused", "failed"}
Causes == {"none", "full", "bad", "replayed"}

(* Every hello and connection record is well formed, and a connection      *)
(* waits for the filter exactly when the filter has a call of it.          *)
HsTypeOK ==
    /\ hello \in [Digests -> {NotMade} \union Hello]
    /\ \A c \in Callers :
         /\ conn[c].srv \in ServerPcs
         /\ conn[c].cli \in ClientPcs /\ conn[c].cause \in Causes
         /\ conn[c].msg \in Digests => hello[conn[c].msg].made
         /\ conn[c].got \in 0..Pieces /\ conn[c].rgot \in 0..Pieces
         /\ call[c].pending <=> conn[c].srv = "locking"

(* A hello is accepted once: the hour window closes before the filter's    *)
(* ttl_limit can pass, so the second acceptance of one MAC needs max_cap   *)
(* acceptances in between.                                                 *)
HelloAcceptedOnce ==
    \A i, j \in 1..Len(log) :
        i < j /\ log[i].digest = log[j].digest => j - i > MaxCap

(* An honest client is turned away only for a reason: as a replay only if  *)
(* the same hello reached the bridge on another connection, never because  *)
(* of its own earlier pieces; for its MAC only if clock skew and time on   *)
(* the way amount to more than an hour.                                    *)
HonestRefusedForCause ==
    \A c \in Callers : conn[c].cli # "none" =>
        /\ conn[c].cause = "replayed" =>
             \E k \in Callers \ {c} : conn[k].msg = conn[c].msg
        /\ conn[c].cause = "bad" =>
             LET h == hello[conn[c].msg]
             IN  \/ h.skew > TicksPerHour
                 \/ conn[c].at - h.at - h.skew > TicksPerHour

(* The client never refuses the reply of the bridge it dialled: the bridge *)
(* MACs its reply over the hour it found in the hello, so that a turn of   *)
(* the hour or a skewed clock between the two does not matter.             *)
ReplyVerifies ==
    \A c \in Callers : conn[c].cli # "refused"
=============================================================================
