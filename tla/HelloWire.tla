------------------------------ MODULE HelloWire ------------------------------
(***************************************************************************)
(* The two hellos of obfs4 as bytes on a stream (crates/obfs4/src/framing/ *)
(* handshake.rs, handshake/utils.rs, handshake/handshake_client.rs and the *)
(* read loops of sessions.rs).  Nothing on the wire says how long a hello  *)
(* is: the reader looks for the mark among random padding in whatever part *)
(* has arrived, and the bridge sends payload right behind its reply.       *)
(* Bytes are symbols, fields are a few bytes long.                         *)
(***************************************************************************)
EXTENDS Integers, SequencesExt

CONSTANTS MinClientPad, MaxClientPad,   \* CLIENT_{MIN,MAX}_PAD_LENGTH
          MinServerPad, MaxServerPad,   \* SERVER_{MIN,MAX}_PAD_LENGTH
          MaxTrailing,                  \* bytes the bridge sends behind its reply
          MaxHandshake                  \* MAX_HANDSHAKE_LENGTH

Repr == <<"x">>
Auth == <<"auth">>
Mark == <<"m1", "m2">>
Mac == <<"c1", "c2">>
WrongMac == <<"c1", "w2">>
WrongAuth == <<"other">>
PadBytes == {"p", "m1"}          \* padding may look like the start of the mark
Payload == <<"d1", "d2", "d3", "d4">>    \* frames the bridge sends behind its reply

MarkMac == Len(Mark) + Len(Mac)

ASSUME HelloWireConstants ==
    /\ MinClientPad \in Nat /\ MinServerPad \in Nat /\ MaxTrailing \in 0..Len(Payload)
    /\ Len(Repr) + MaxClientPad + MarkMac <= MaxHandshake + 1
    /\ Len(Repr) + Len(Auth) + MaxServerPad + MarkMac <= MaxHandshake + 1

VARIABLES wire,      \* what the peer writes: hello or reply, and what follows it
          kind,      \* hello, or the reply: good, or with a wrong MAC or AUTH
          read,      \* how many bytes of it the reader has taken
          reader,    \* reading, accepted, or the reason for the refusal
          remainder  \* bytes handed to the frame decoder

wireVars == <<wire, kind, read, reader, remainder>>

NotFound == -1

(* ClientHandshakeMessage::marshall and ServerHandshakeMessage::marshall.  *)
(* gen_range leaves out the longest padding.                               *)
Pads(min, max) == UNION {[1..n -> PadBytes] : n \in min..(max - 1)}
ClientHello(pad) == Repr \o pad \o Mark \o Mac
ServerReply(auth, pad, mac) == Repr \o auth \o pad \o Mark \o mac

(* Mutant: off by one, the MAC may not be the last thing read.             *)
FindNeedsMore(mark, buf, start_pos, max_pos, from_tail) ==
    LET end_pos == IF Len(buf) > max_pos THEN max_pos ELSE Len(buf)
        At(p) == SubSeq(buf, p + 1, p + Len(mark)) = mark
        hits == {p \in start_pos..(end_pos - MarkMac - 1) : At(p)}
        tail == end_pos - MarkMac
    IN  IF start_pos > Len(buf) \/ end_pos - start_pos < MarkMac THEN NotFound
        ELSE IF from_tail THEN (IF At(tail) THEN tail ELSE NotFound)
        ELSE IF hits = {} THEN NotFound
        ELSE CHOOSE p \in hits : \A q \in hits : p <= q

(* find_mac_mark: the offset of the mark, NotFound unless the whole MAC is *)
(* there too.                                                              *)
FindMacMark(mark, buf, start_pos, max_pos, from_tail) ==
    LET end_pos == IF Len(buf) > max_pos THEN max_pos ELSE Len(buf)
        At(p) == SubSeq(buf, p + 1, p + Len(mark)) = mark
        hits == {p \in start_pos..(end_pos - Len(mark)) : At(p)}
        first == CHOOSE p \in hits : \A q \in hits : p <= q
        tail == end_pos - MarkMac
    IN  IF start_pos > Len(buf) \/ end_pos - start_pos < MarkMac THEN NotFound
        ELSE IF from_tail THEN (IF At(tail) THEN tail ELSE NotFound)
        ELSE IF hits = {} \/ first + MarkMac > end_pos THEN NotFound
        ELSE first

MacAt(buf, pos) == SubSeq(buf, pos + Len(Mark) + 1, pos + MarkMac)

-----------------------------------------------------------------------------
(* try_parse of the client's hello: the mark at the tail, then the MAC,    *)
(* then nothing behind it.                                                 *)
ServerParse(buf) ==
    LET pos == FindMacMark(Mark, buf, Len(Repr) + MinClientPad, MaxHandshake, TRUE)
    IN  IF Len(buf) < Len(Repr) + MinClientPad + MarkMac \/ pos = NotFound
        THEN [res |-> "again"]
        ELSE IF MacAt(buf, pos) # Mac \/ Len(buf) # pos + MarkMac THEN [res |-> "bad"]
        ELSE [res |-> "accepted", rest |-> <<>>]

(* Mutant: the bytes behind the reply are dropped.                         *)
DropRemainder(buf) ==
    LET pos == FindMacMark(Mark, buf, Len(Repr) + Len(Auth) + MinServerPad, MaxHandshake, FALSE)
    IN  IF Len(buf) < Len(Repr) + Len(Auth) + MinServerPad + MarkMac \/ pos = NotFound
        THEN [res |-> "again"]
        ELSE IF MacAt(buf, pos) # Mac \/ SubSeq(buf, Len(Repr) + 1, Len(Repr) + Len(Auth)) # Auth
        THEN [res |-> "bad"]
        ELSE [res |-> "accepted", rest |-> <<>>]

(* try_parse of the reply and client_handshake2_obfs4: the first mark, its *)
(* MAC, the AUTH, and what follows is the remainder.                       *)
ClientParse(buf) ==
    LET pos == FindMacMark(Mark, buf, Len(Repr) + Len(Auth) + MinServerPad, MaxHandshake, FALSE)
    IN  IF Len(buf) < Len(Repr) + Len(Auth) + MinServerPad + MarkMac \/ pos = NotFound
        THEN [res |-> "again"]
        ELSE IF MacAt(buf, pos) # Mac \/ SubSeq(buf, Len(Repr) + 1, Len(Repr) + Len(Auth)) # Auth
        THEN [res |-> "bad"]
        ELSE [res |-> "accepted", rest |-> SubSeq(buf, pos + MarkMac + 1, Len(buf))]

-----------------------------------------------------------------------------
IsPayload(b) == b \in Range(Payload)
Trailing(n) == SubSeq(Payload, 1, n)

WireInit ==
    /\ read = 0 /\ reader = "reading" /\ remainder = <<>>
    /\ \/ kind = "hello" /\ \E p \in Pads(MinClientPad, MaxClientPad) : wire = ClientHello(p)
       \/ \E p \in Pads(MinServerPad, MaxServerPad), n \in 0..MaxTrailing :
            \/ kind = "good" /\ wire = ServerReply(Auth, p, Mac) \o Trailing(n)
            \/ kind = "wrong mac" /\ wire = ServerReply(Auth, p, WrongMac) \o Trailing(n)
            \/ kind = "wrong auth" /\ wire = ServerReply(WrongAuth, p, Mac) \o Trailing(n)

(* complete_handshake of either side, one turn: a read of any length into  *)
(* what is left of the buffer, and the whole prefix parsed again.          *)
ReadSome ==
    /\ reader = "reading"
    /\ \E n \in 1..(Len(wire) - read) :
        LET buf == SubSeq(wire, 1, read + n)
            p == IF kind = "hello" THEN ServerParse(buf) ELSE ClientParse(buf)
        IN  /\ read + n <= MaxHandshake
            /\ read' = read + n
            /\ reader' = IF p.res # "again" THEN p.res
                         ELSE IF read' = MaxHandshake THEN "full" ELSE "reading"
            /\ remainder' = IF p.res = "accepted" THEN p.rest ELSE remainder
    /\ UNCHANGED <<wire, kind>>

(* The peer goes away before the hello is complete.                        *)
StreamEnds ==
    /\ reader = "reading"
    /\ reader' = "eof"
    /\ UNCHANGED <<wire, kind, read, remainder>>

WireNext == ReadSome \/ StreamEnds

-----------------------------------------------------------------------------
(* However a hello is cut into reads and whatever its padding looks like,  *)
(* a genuine one is never taken for a bad or an endless one, and one whose *)
(* MAC or AUTH is wrong is never accepted (try_parse, both sides).         *)
HelloReadAtAnySplit ==
    /\ kind \in {"hello", "good"} => reader \notin {"bad", "full"}
    /\ kind \in {"wrong mac", "wrong auth"} => reader # "accepted"
    /\ reader = "reading" /\ kind \in {"hello", "good"}
          => read < Len(SelectSeq(wire, LAMBDA b : ~IsPayload(b)))

(* What the frame decoder is seeded with and what is still on the stream   *)
(* are together exactly what the bridge sent behind its reply: no byte of  *)
(* the first frames is lost or read twice (remainder in                    *)
(* client_handshake2_obfs4, O4Stream::new).                                *)
NothingLostBehindHello ==
    reader = "accepted" =>
        remainder \o SubSeq(wire, read + 1, Len(wire))
            = SelectSeq(wire, IsPayload)
=============================================================================
