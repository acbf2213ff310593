------------------------------- MODULE O4Tunnel -------------------------------
(***************************************************************************)
(* One direction of an obfs4 tunnel: the bridge's O4Writer, the connection *)
(* and the client's read half (crates/obfs4/src/proto.rs, the decoder of   *)
(* framing/codecs.rs, and Framed of tokio_util between them).  The client  *)
(* may have read past the bridge's reply while it waited for the handshake *)
(* to finish; O4Stream::new starts from those units.                       *)
(***************************************************************************)
EXTENDS O4Writer

CONSTANT ReadCaps   \* sizes of the buffers the client reads into

ASSUME TunnelConstants == ReadCaps \subseteq Nat \ {0}

VARIABLES
    rd,       \* the read half: its stage, the call in progress, Framed's flags
    rbuf,     \* Framed's read buffer
    ctr,      \* the decoder's nonce counter
    nlen,     \* EncryptingDecoder.next_length
    resid,    \* O4Stream.read_residual
    got,      \* bytes the client was given
    ended,    \* the client was told of the end of the stream
    damaged,  \* a unit was damaged on the way
    seed      \* session.len_seed, which length_dist and iat_dist are made from

rdVars == <<rd, rbuf, ctr, nlen, resid, got, ended, damaged, seed>>

Noise == [n |-> 0, i |-> 0]

TunnelInit ==
    /\ WriterInit
    /\ rd = [st |-> "hello", cap |-> 0, readable |-> FALSE, eof |-> FALSE, errored |-> FALSE]
    /\ rbuf = <<>> /\ ctr = 1 /\ nlen = 0 /\ resid = <<>> /\ got = <<>>
    /\ ended = FALSE /\ damaged = FALSE
    /\ seed = "own"

FirstOf(s, k) == SubSeq(s, 1, k)
After(s, k) == SubSeq(s, k + 1, Len(s))

(* ClientSession::complete_handshake read the reply and k units more.      *)
OverRead(k) ==
    /\ rd.st = "hello"
    /\ NetTakes(k)
    /\ rbuf' = FirstOf(wire, k)
    /\ rd' = [rd EXCEPT !.st = "new"]
    /\ UNCHANGED <<ctr, nlen, resid, got, ended, damaged, seed>> /\ UNCHANGED wrVars

-----------------------------------------------------------------------------
(* EncryptingCodec::decode, called from O4Stream::new for what the         *)
(* handshake left over and from Framed::poll_next.                         *)
Decoding == rd.st = "new" \/ (rd.cap > 0 /\ rd.readable /\ ~rd.errored)

(* A FrameError: fatal in new; poll_read returns it.                       *)
DecodeError ==
    rd' = IF rd.st = "new" THEN [rd EXCEPT !.st = "failed"]
          ELSE [rd EXCEPT !.errored = TRUE, !.cap = 0]

(* The length field.  Out of step or damaged, it is any number: one in the *)
(* range of frame lengths, or one that is refused (0 here).                *)
DecodeLength ==
    /\ Decoding /\ nlen = 0 /\ rbuf # <<>>
    /\ IF ctr = MaxNonce THEN DecodeError /\ UNCHANGED <<rbuf, ctr, nlen>>
       ELSE /\ ctr' = ctr + 1 /\ rbuf' = Tail(rbuf)
            /\ IF Head(rbuf) = [n |-> ctr, i |-> 1]
               THEN nlen' = Header + enc[ctr].size - 1 /\ UNCHANGED rd
               ELSE /\ nlen' \in {0} \union ((Header - 1)..(Segment - 1))
                    /\ IF nlen' = 0 THEN DecodeError ELSE UNCHANGED rd
    /\ UNCHANGED <<resid, got, ended, damaged, seed>> /\ UNCHANGED wrVars /\ UNCHANGED netVars

(* Mutant: read_residual is overwritten by what does not fit.              *)
DeliverWhatFits(data) ==
    LET k == IF rd.cap < Len(data) THEN rd.cap ELSE Len(data)
    IN  /\ got' = got \o FirstOf(data, k) /\ resid' = <<>>
        /\ rd' = [rd EXCEPT !.cap = 0]

(* stash_payload: what fits is delivered, the rest is kept.                *)
StashPayload(data) ==
    LET k == IF rd.cap < Len(data) THEN rd.cap ELSE Len(data)
    IN  /\ got' = got \o FirstOf(data, k) /\ resid' = After(data, k)
        /\ rd' = [rd EXCEPT !.cap = 0]

(* drain_residual: as much of the residual as fits.                        *)
DrainResidual(c) ==
    LET k == IF c < Len(resid) THEN c ELSE Len(resid)
    IN  got' = got \o FirstOf(resid, k) /\ resid' = After(resid, k)

(* Messages::try_parse: a payload of length zero is padding.               *)
TryParse(f) ==
    IF f.type = "prng_seed" THEN "seed" ELSE IF f.data = <<>> THEN "padding" ELSE "payload"

(* try_handle_non_payload_message: the client makes its distributions anew *)
(* from the bridge's seed.                                                 *)
HandleNonPayload(message) == seed' = IF message = "seed" THEN "bridge" ELSE seed

(* The box opens under the nonce of its length field, and only whole.      *)
Opens == ctr - 1 <= Len(enc) /\ FirstOf(rbuf, nlen) = Tail(Units(ctr - 1, enc[ctr - 1]))

(* The sealed frame: opened, parsed and handled; the loop goes on after    *)
(* all but a payload, which new keeps and poll_read returns.               *)
DecodeBody ==
    /\ Decoding /\ nlen > 0 /\ nlen <= Len(rbuf)
    /\ IF ~Opens THEN DecodeError /\ UNCHANGED <<rbuf, nlen, resid, got, seed>>
       ELSE LET f == enc[ctr - 1] IN
            /\ rbuf' = After(rbuf, nlen) /\ nlen' = 0
            /\ HandleNonPayload(TryParse(f))
            /\ IF TryParse(f) # "payload" THEN UNCHANGED <<rd, resid, got>>
               ELSE IF rd.st = "new" THEN resid' = resid \o f.data /\ UNCHANGED <<rd, got>>
               ELSE StashPayload(f.data)
    /\ UNCHANGED <<ctr, ended, damaged>> /\ UNCHANGED wrVars /\ UNCHANGED netVars

NeedsMore == (nlen = 0 /\ rbuf = <<>>) \/ nlen > Len(rbuf)

(* Mutant: O4Stream::new leaves whole frames to Framed, which looks at its *)
(* buffer only when more arrives.                                          *)
NewWithoutDecoding ==
    /\ Decoding /\ (rd.st = "new" \/ NeedsMore)
    /\ rd' = IF rd.st = "new" THEN [rd EXCEPT !.st = "open"]
             ELSE IF rd.eof THEN [rd EXCEPT !.readable = FALSE, !.cap = 0]
             ELSE [rd EXCEPT !.readable = FALSE]
    /\ ended' = (ended \/ (rd.st = "open" /\ rd.eof))
    /\ UNCHANGED <<rbuf, ctr, nlen, resid, got, damaged, seed>>
    /\ UNCHANGED wrVars /\ UNCHANGED netVars

(* decode returns None: new is done; poll_next reads on or, at the end of  *)
(* input, leaves a frame that was cut off behind and reports the end.      *)
DecodeNone ==
    /\ Decoding /\ NeedsMore
    /\ rd' = IF rd.st = "new" THEN [rd EXCEPT !.st = "open"]
             ELSE IF rd.eof THEN [rd EXCEPT !.readable = FALSE, !.cap = 0]
             ELSE [rd EXCEPT !.readable = FALSE]
    /\ ended' = (ended \/ (rd.st = "open" /\ rd.eof))
    /\ UNCHANGED <<rbuf, ctr, nlen, resid, got, damaged, seed>>
    /\ UNCHANGED wrVars /\ UNCHANGED netVars

-----------------------------------------------------------------------------
(* O4Stream::poll_read into a buffer of c bytes: the residual first, and   *)
(* only then the connection.                                               *)
PollRead(c) ==
    /\ rd.st = "open" /\ rd.cap = 0 /\ ~ended
    /\ IF resid # <<>> THEN DrainResidual(c) /\ UNCHANGED rd
       ELSE rd' = [rd EXCEPT !.cap = c] /\ UNCHANGED <<got, resid>>
    /\ UNCHANGED <<rbuf, ctr, nlen, ended, damaged, seed>>
    /\ UNCHANGED wrVars /\ UNCHANGED netVars

(* Framed::poll_next turns to the connection.                              *)
Reading == rd.cap > 0 /\ ~rd.readable /\ ~rd.errored

ReadInner(k) ==
    /\ Reading /\ NetTakes(k)
    /\ rbuf' = rbuf \o FirstOf(wire, k)
    /\ rd' = [rd EXCEPT !.readable = TRUE, !.eof = FALSE]
    /\ UNCHANGED <<ctr, nlen, resid, got, ended, damaged, seed>> /\ UNCHANGED wrVars

ReadEof ==
    /\ Reading /\ wire = <<>> /\ (fin \/ cut)
    /\ rd' = IF rd.eof THEN [rd EXCEPT !.cap = 0] ELSE [rd EXCEPT !.eof = TRUE, !.readable = TRUE]
    /\ ended' = (ended \/ rd.eof)
    /\ UNCHANGED <<rbuf, ctr, nlen, resid, got, damaged, seed>>
    /\ UNCHANGED wrVars /\ UNCHANGED netVars

ReadFails ==
    /\ Reading /\ wire = <<>> /\ cut
    /\ rd' = [rd EXCEPT !.errored = TRUE, !.cap = 0]
    /\ UNCHANGED <<rbuf, ctr, nlen, resid, got, ended, damaged, seed>>
    /\ UNCHANGED wrVars /\ UNCHANGED netVars

ReadPends ==
    /\ Reading /\ wire = <<>> /\ ~fin /\ ~cut
    /\ rd' = [rd EXCEPT !.cap = 0]
    /\ UNCHANGED <<rbuf, ctr, nlen, resid, got, ended, damaged, seed>>
    /\ UNCHANGED wrVars /\ UNCHANGED netVars

(* The call after an error reports the end of the stream.                  *)
AfterError ==
    /\ rd.cap > 0 /\ rd.errored
    /\ rd' = [rd EXCEPT !.errored = FALSE, !.readable = FALSE, !.cap = 0]
    /\ ended' = TRUE
    /\ UNCHANGED <<rbuf, ctr, nlen, resid, got, damaged, seed>>
    /\ UNCHANGED wrVars /\ UNCHANGED netVars

(* A unit is damaged on its way.                                           *)
Damage ==
    /\ ~damaged /\ damaged' = TRUE
    /\ \E i \in 1..Len(wire) : wire' = [wire EXCEPT ![i] = Noise]
    /\ UNCHANGED <<rd, rbuf, ctr, nlen, resid, got, ended, seed, fin, cut>> /\ UNCHANGED wrVars

ReaderSteps ==
    \/ \E k \in 0..Len(wire) : OverRead(k)
    \/ DecodeLength \/ DecodeBody \/ DecodeNone
    \/ \E c \in ReadCaps : PollRead(c)
    \/ \E k \in 1..WireCap : ReadInner(k)
    \/ ReadEof \/ ReadFails \/ ReadPends \/ AfterError

TunnelVars == <<wrVars, netVars, rdVars>>

TunnelSpec == TunnelInit /\ [][(WriterNext /\ UNCHANGED rdVars) \/ ReaderSteps \/ Damage]_TunnelVars

(* The reading application polls when it is woken.                         *)
TunnelFair == TunnelSpec /\ WF_TunnelVars(ReaderSteps)

-----------------------------------------------------------------------------
(* The tunnel is an ordered byte stream: the client is given what the      *)
(* bridge's application wrote, in order and once, also when units are      *)
(* damaged, and is told of an end before all of it only if the connection  *)
(* was lost or damaged.                                                    *)
Stream == INSTANCE ByteStream WITH sent <- accepted + wr.sent, closed <- down,
                                   broken <- cut \/ damaged
IsByteStream == Stream!BsSpec

(* What has been flushed arrives without anything more being sent.         *)
FlushedArrives ==
    \A k \in 1..MaxBytes :
        (accepted >= k /\ wbuf = <<>>) ~> (Len(got) >= k \/ cut \/ damaged)
=============================================================================
