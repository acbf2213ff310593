------------------------------- MODULE O4Writer -------------------------------
(***************************************************************************)
(* The write half of an obfs4 tunnel (crates/obfs4/src/proto.rs): O4Stream *)
(* with its codec's encoder and the IatCarrier below it, down to the TCP   *)
(* connection.  poll_write, poll_flush and poll_shutdown run to completion *)
(* on one task, but each of their carrier writes can be short, not ready,  *)
(* interrupted or refused, so a call is a sequence of steps.               *)
(*                                                                         *)
(* Payload bytes are their positions in the stream, 1, 2, ...  Ciphertext  *)
(* is a sequence of units; a unit is its place in the frame with nonce n.  *)
(***************************************************************************)
EXTENDS Integers, Sequences

CONSTANTS Modes,       \* IAT modes
          Header,      \* HEADER_LENGTH, in units
          MaxPayload,  \* MAX_MESSAGE_PAYLOAD_LENGTH
          Boundary,    \* Framed's backpressure boundary
          Lengths,     \* what length_dist may yield
          MaxNonce,    \* the nonce counter's last value (u64::MAX); nonces stay below
          WireCap,     \* units the connection takes before it is not ready
          MaxBytes,    \* bound: payload bytes the application writes
          MaxIntr      \* bound: writes that end with Interrupted

Segment == Header + MaxPayload   \* MAX_SEGMENT_LENGTH

IAT == {"off", "enabled", "paranoid"}

ASSUME WriterConstants ==
    /\ Modes \subseteq IAT
    /\ Header \in Nat \ {0, 1} /\ MaxPayload \in Nat /\ Header <= MaxPayload
    /\ Boundary \in Nat \ {0}
    /\ Lengths \subseteq 0..Segment
    /\ MaxNonce \in Nat \ {0, 1}
    /\ WireCap \in Nat \ {0}
    /\ MaxBytes \in Nat /\ MaxIntr \in Nat

VARIABLES
    mode,      \* O4Stream.iat_mode
    enc,       \* frames encoded so far; a frame's index is its nonce
    wbuf,      \* Framed's write buffer
    sched,     \* IatCarrier.scheduled_target, 0 if None
    delay,     \* iat_sleep if delay_pending, else "none"
    closing,   \* IatCarrier.shutdown_requested
    wr,        \* the call in progress
    term,      \* O4Stream.terminal_error is set
    down,      \* O4Stream.shutdown_complete
    accepted,  \* bytes the calls have reported as written
    wire,      \* units in the connection
    fin,       \* the connection is closed on this side
    cut,       \* the connection was lost
    intr,      \* interrupted writes so far
    run        \* units written since the last inter-arrival delay

wrVars == <<mode, enc, wbuf, sched, delay, closing, wr, term, down, accepted, intr, run>>
netVars == <<wire, fin, cut>>

-----------------------------------------------------------------------------
(* Frames.                                                                 *)
Seed == [type |-> "prng_seed", data |-> <<>>, size |-> 1]
Padding(n) == [type |-> "payload", data |-> <<>>, size |-> n]
Payload(from, n) == [type |-> "payload", data |-> [i \in 1..n |-> from + i], size |-> n]

(* The wire image of f under nonce n: the masked length, then the box.     *)
Units(n, f) == [i \in 1..Header + f.size |-> [n |-> n, i |-> i]]

Room == MaxNonce - 1 - Len(enc)   \* nonces left

(* EncryptingCodec::encode of the frames fs, those there are nonces for: a *)
(* payload and the two of its padding at most.                             *)
Encode(fs) ==
    LET k == IF Len(fs) < Room THEN Len(fs) ELSE Room
        Image(j) == IF j <= k THEN Units(Len(enc) + j, fs[j]) ELSE <<>>
    IN  /\ enc' = enc \o SubSeq(fs, 1, k)
        /\ wbuf' = wbuf \o Image(1) \o Image(2) \o Image(3)

(* pad_burst: the padding frames that bring a burst to the target length,  *)
(* or past it if there is no room for a frame of padding.                  *)
PadBurst(burst, target) ==
    LET tail == burst % Segment
        pad == IF target >= tail THEN target - tail ELSE Segment - tail + target
    IN  IF pad = 0 THEN <<>>
        ELSE IF pad > Header THEN <<Padding(pad - Header)>>
        ELSE <<Padding(MaxPayload), Padding(pad)>>

-----------------------------------------------------------------------------
NoCall == [op |-> "none", at |-> "-", len |-> 0, sent |-> 0, burst |-> 0, wake |-> "-"]
Call(op, at, n) == [NoCall EXCEPT !.op = op, !.at = at, !.len = n]

WriterInit ==
    /\ mode \in Modes
    /\ enc = <<Seed>> /\ wbuf = <<>> /\ sched = 0 /\ delay = "none" /\ closing = FALSE
    /\ wr = NoCall /\ term = FALSE /\ down = FALSE /\ accepted = 0
    /\ wire = Units(1, Seed) /\ fin = FALSE /\ cut = FALSE /\ intr = 0 /\ run = 0

(* The calls.  Each returns at once on a stored error, and after shutdown. *)
WriteCall(n) ==
    /\ wr.op = "none" /\ ~term /\ ~down /\ accepted + n <= MaxBytes
    /\ wr' = Call("write", "ready", n)
    /\ UNCHANGED <<mode, enc, wbuf, sched, delay, closing, term, down, accepted, intr, run>>
    /\ UNCHANGED netVars

FlushCall ==
    /\ wr.op = "none" /\ ~term /\ ~down
    /\ wr' = Call("flush", "flush", 0)
    /\ UNCHANGED <<mode, enc, wbuf, sched, delay, closing, term, down, accepted, intr, run>>
    /\ UNCHANGED netVars

ShutdownCall ==
    /\ wr.op = "none" /\ ~term /\ ~down
    /\ wr' = Call("shutdown", "flush", 0)
    /\ delay' = "none" /\ closing' = TRUE
    /\ UNCHANGED <<mode, enc, wbuf, sched, term, down, accepted, intr, run>>
    /\ UNCHANGED netVars

(* The call returns n bytes written.                                       *)
Return(n) == wr' = NoCall /\ accepted' = accepted + n

(* poll_write backs off after a prefix: it pads the burst and returns the  *)
(* prefix.  A padding error is kept for the next call.                     *)
BackOff ==
    /\ Return(wr.sent)
    /\ IF mode = "paranoid" THEN UNCHANGED <<enc, wbuf, term>>
       ELSE \E t \in Lengths :
              /\ Encode(PadBurst(wr.burst, t))
              /\ term' = (Room < Len(PadBurst(wr.burst, t)))

(* Mutant: Pending also after a prefix, which the caller writes again.     *)
PendsAfterPrefix(waker) ==
    /\ wr' = [wr EXCEPT !.at = "parked", !.wake = waker, !.sent = 0, !.burst = 0]
    /\ UNCHANGED <<enc, wbuf, term, accepted>>

(* The carrier is not ready, or was interrupted: the call is parked with a *)
(* waker, unless poll_write has already taken a prefix.                    *)
Pends(waker) ==
    IF wr.sent > 0 THEN BackOff
    ELSE wr' = [wr EXCEPT !.at = "parked", !.wake = waker] /\ UNCHANGED <<enc, wbuf, term, accepted>>

(* The carrier fails: the error is stored; a prefix is still reported.     *)
Fails == term' = TRUE /\ Return(wr.sent)

(* Mutant: no backpressure.                                                *)
AlwaysReady ==
    /\ wr.at = "ready"
    /\ wr' = [wr EXCEPT !.at = "send"]
    /\ UNCHANGED <<mode, enc, wbuf, sched, delay, closing, term, down, accepted, intr, run>>
    /\ UNCHANGED netVars

(* Sink::poll_ready: flush only above the boundary.                        *)
PollReady ==
    /\ wr.at = "ready"
    /\ wr' = [wr EXCEPT !.at = IF Len(wbuf) < Boundary THEN "send" ELSE "flush"]
    /\ UNCHANGED <<mode, enc, wbuf, sched, delay, closing, term, down, accepted, intr, run>>
    /\ UNCHANGED netVars

NextPayload(n) == <<Payload(accepted + wr.sent, n)>>

(* poll_write, a full chunk that is not the last.                          *)
SendChunk ==
    /\ wr.at = "send" /\ wr.len - wr.sent > MaxPayload
    /\ Encode(NextPayload(MaxPayload))
    /\ IF Room = 0 THEN Fails
       ELSE /\ wr' = [wr EXCEPT !.at = "ready", !.sent = @ + MaxPayload, !.burst = @ + Segment]
            /\ UNCHANGED <<term, accepted>>
    /\ UNCHANGED <<mode, sched, delay, closing, down, intr, run>> /\ UNCHANGED netVars

(* poll_write, the last chunk and the padding of the burst.                *)
SendLast ==
    LET n == wr.len - wr.sent IN
    /\ wr.at = "send" /\ n <= MaxPayload
    /\ \E t \in Lengths :
         LET fs == IF mode = "paranoid" THEN NextPayload(n)
                   ELSE NextPayload(n) \o PadBurst(wr.burst + Header + n, t)
         IN  /\ Encode(fs)
             /\ IF Room = 0 THEN Fails ELSE Return(wr.len) /\ term' = (Room < Len(fs))
    /\ UNCHANGED <<mode, sched, delay, closing, down, intr, run>> /\ UNCHANGED netVars

-----------------------------------------------------------------------------
(* Framed::poll_flush over IatCarrier: write out the buffer, then flush.   *)
Flushing == wr.at = "flush"

Clamp(t) == IF t < 1 THEN 1 ELSE t     \* the distribution ends at Segment

(* IatCarrier::poll_write fixes the length of the next burst.  In paranoid *)
(* mode a buffer shorter than the target sends the poll_*_with_iat loop to *)
(* pad_burst; padding_added gives the target up if the padding overshot.   *)
Schedule(t) ==
    /\ Flushing /\ wbuf # <<>> /\ mode # "off" /\ sched = 0
    /\ IF mode = "enabled" \/ Len(wbuf) >= Clamp(t)
       THEN /\ sched' = IF mode = "paranoid" THEN Clamp(t)
                        ELSE IF Len(wbuf) < Segment THEN Len(wbuf) ELSE Segment
            /\ UNCHANGED <<enc, wbuf, wr, term, accepted>>
       ELSE LET fs == PadBurst(Len(wbuf), Clamp(t)) IN
            /\ Encode(fs)
            /\ IF Room < Len(fs) THEN Fails /\ sched' = Clamp(t)
               ELSE /\ sched' = IF Len(wbuf') = Clamp(t) THEN Clamp(t) ELSE 0
                    /\ wr' = [wr EXCEPT !.at = IF wr.op = "write" THEN "ready" ELSE "flush"]
                    /\ UNCHANGED <<term, accepted>>
    /\ UNCHANGED <<mode, delay, closing, down, intr, run>> /\ UNCHANGED netVars

Scheduled == mode = "off" \/ sched # 0 \/ wbuf = <<>>

(* The inter-arrival sleep is polled before a burst, and by poll_flush.    *)
DelayPends ==
    /\ Flushing /\ Scheduled /\ delay = "running"
    /\ Pends("timer")
    /\ UNCHANGED <<mode, sched, delay, closing, down, intr, run>> /\ UNCHANGED netVars

DelayOver ==
    /\ Flushing /\ Scheduled /\ delay = "over"
    /\ delay' = "none" /\ run' = 0
    /\ UNCHANGED <<mode, enc, wbuf, sched, closing, wr, term, down, accepted, intr>>
    /\ UNCHANGED netVars

Connected == Flushing /\ Scheduled /\ delay = "none"

(* Mutant: the end of a burst does not arm the timer.                      *)
InnerWriteNoDelay(k) ==
    LET n == IF mode = "off" \/ Len(wbuf) < sched THEN Len(wbuf) ELSE sched IN
    /\ Connected /\ ~cut /\ k <= n /\ Len(wire) + k <= WireCap
    /\ wire' = wire \o SubSeq(wbuf, 1, k) /\ wbuf' = SubSeq(wbuf, k + 1, Len(wbuf))
    /\ sched' = IF mode = "off" THEN 0 ELSE sched - k
    /\ UNCHANGED delay
    /\ UNCHANGED <<mode, enc, closing, wr, term, down, accepted, intr, fin, cut>>
    /\ run' = IF mode = "off" THEN 0 ELSE run + k

(* The connection takes k units of the burst; its end arms the timer.      *)
InnerWrite(k) ==
    LET n == IF mode = "off" \/ Len(wbuf) < sched THEN Len(wbuf) ELSE sched IN
    /\ Connected /\ ~cut /\ k <= n /\ Len(wire) + k <= WireCap
    /\ wire' = wire \o SubSeq(wbuf, 1, k) /\ wbuf' = SubSeq(wbuf, k + 1, Len(wbuf))
    /\ sched' = IF mode = "off" THEN 0 ELSE sched - k
    /\ delay' = IF mode # "off" /\ k = sched /\ ~closing THEN "running" ELSE delay
    /\ run' = IF mode = "off" THEN 0 ELSE run + k
    /\ UNCHANGED <<mode, enc, closing, wr, term, down, accepted, intr, fin, cut>>

InnerPends ==
    /\ Connected /\ wbuf # <<>> /\ ~cut /\ Len(wire) = WireCap
    /\ Pends("io")
    /\ UNCHANGED <<mode, sched, delay, closing, down, intr, run>> /\ UNCHANGED netVars

(* Mutant: an interrupted write is not followed by wake_by_ref.            *)
InterruptedSleeps ==
    /\ Connected /\ wbuf # <<>> /\ intr < MaxIntr
    /\ Pends("none") /\ intr' = intr + 1
    /\ UNCHANGED <<mode, sched, delay, closing, down, run>> /\ UNCHANGED netVars

InnerInterrupted ==
    /\ Connected /\ wbuf # <<>> /\ intr < MaxIntr
    /\ Pends("self") /\ intr' = intr + 1
    /\ UNCHANGED <<mode, sched, delay, closing, down, run>> /\ UNCHANGED netVars

InnerFails ==
    /\ Connected \/ wr.at = "close"
    /\ cut /\ Fails
    /\ UNCHANGED <<mode, enc, wbuf, sched, delay, closing, down, intr, run>> /\ UNCHANGED netVars

(* The buffer is out: poll_ready goes on, poll_flush returns, poll_close   *)
(* closes the connection.                                                  *)
BufferOut ==
    /\ Connected /\ wbuf = <<>> /\ ~cut
    /\ wr' = CASE wr.op = "write" -> [wr EXCEPT !.at = "send"]
               [] wr.op = "flush" -> NoCall
               [] OTHER -> [wr EXCEPT !.at = "close"]
    /\ UNCHANGED <<mode, enc, wbuf, sched, delay, closing, term, down, accepted, intr, run>>
    /\ UNCHANGED netVars

InnerClose ==
    /\ wr.at = "close" /\ ~cut
    /\ fin' = TRUE /\ down' = TRUE /\ wr' = NoCall
    /\ UNCHANGED <<mode, enc, wbuf, sched, delay, closing, term, accepted, intr, run, wire, cut>>

-----------------------------------------------------------------------------
TimerElapses ==
    /\ delay = "running" /\ delay' = "over"
    /\ UNCHANGED <<mode, enc, wbuf, sched, closing, wr, term, down, accepted, intr, run>>
    /\ UNCHANGED netVars

(* A parked call is polled again once its waker has fired ...              *)
Repoll ==
    /\ wr.at = "parked"
    /\ \/ wr.wake = "timer" /\ delay # "running"
       \/ wr.wake = "io" /\ (cut \/ Len(wire) < WireCap)
       \/ wr.wake = "self"
    /\ wr' = [wr EXCEPT !.at = IF wr.op = "write" THEN "ready" ELSE "flush", !.wake = "-"]
    /\ UNCHANGED <<mode, enc, wbuf, sched, delay, closing, term, down, accepted, intr, run>>
    /\ UNCHANGED netVars

(* ... or given up, and the caller does something else.                    *)
Abandon ==
    /\ wr.at = "parked"
    /\ wr' = NoCall
    /\ UNCHANGED <<mode, enc, wbuf, sched, delay, closing, term, down, accepted, intr, run>>
    /\ UNCHANGED netVars

(* The connection is lost with some of what is under way.                  *)
Cut ==
    /\ ~cut /\ cut' = TRUE
    /\ \E k \in 0..Len(wire) : wire' = SubSeq(wire, 1, k)
    /\ UNCHANGED wrVars /\ UNCHANGED fin

(* The other end reads k units.                                            *)
NetTakes(k) ==
    /\ k <= Len(wire)
    /\ wire' = SubSeq(wire, k + 1, Len(wire))
    /\ UNCHANGED <<fin, cut>>

WriterSteps ==
    \/ PollReady \/ SendChunk \/ SendLast
    \/ DelayPends \/ DelayOver
    \/ InnerPends \/ InnerInterrupted \/ InnerFails \/ BufferOut \/ InnerClose

WriterNext ==
    \/ \E n \in 1..MaxBytes : WriteCall(n)
    \/ FlushCall \/ ShutdownCall
    \/ WriterSteps
    \/ \E t \in Lengths : Schedule(t)
    \/ \E k \in 1..WireCap : InnerWrite(k)
    \/ TimerElapses \/ Repoll \/ Abandon
    \/ Cut

PeerReads == \E k \in 1..WireCap : NetTakes(k) /\ UNCHANGED wrVars

WriterSpec == WriterInit /\ [][WriterNext \/ PeerReads]_<<wrVars, netVars>>

(* The task is polled when woken, timers elapse, the peer reads.           *)
WriterFair ==
    /\ WriterSpec
    /\ WF_<<wrVars, netVars>>(WriterSteps)
    /\ WF_<<wrVars, netVars>>(\E t \in Lengths : Schedule(t))
    /\ WF_<<wrVars, netVars>>(\E k \in 1..WireCap : InnerWrite(k))
    /\ WF_<<wrVars, netVars>>(TimerElapses)
    /\ WF_<<wrVars, netVars>>(Repoll)
    /\ WF_<<wrVars, netVars>>(PeerReads)

-----------------------------------------------------------------------------
(* The payload of the frames, one after the other, is 1, 2, ..., n: every  *)
(* byte stands before all that follow it, and none is missing.             *)
InOrder(frames, n) ==
    /\ \A j \in DOMAIN frames : \A i \in DOMAIN frames[j].data :
         /\ frames[j].data[i] \in 1..n
         /\ \A h \in DOMAIN frames[j].data : i < h => frames[j].data[i] < frames[j].data[h]
         /\ \A k \in DOMAIN frames : \A h \in DOMAIN frames[k].data :
               j < k => frames[j].data[i] < frames[k].data[h]
    /\ \A b \in 1..n : \E j \in DOMAIN frames : \E i \in DOMAIN frames[j].data : frames[j].data[i] = b

(* The bytes that poll_write has reported, and those the call in progress  *)
(* has taken, are exactly the payload of the frames encoded: a retry after *)
(* Pending or Interrupted sends nothing twice, an error after a prefix     *)
(* loses and repeats nothing.                                              *)
AcceptedIsEncoded == InOrder(enc, accepted + wr.sent)

(* Backpressure: the write buffer holds at most a frame and the padding of *)
(* a burst above the boundary, however the carrier behaves.                *)
BufferBounded ==
    Len(wbuf) < Boundary + 2 * Segment + 2 * Header

(* With IAT on and no shutdown asked for, no more than a segment leaves    *)
(* without an inter-arrival delay.                                         *)
BurstsAreSpaced ==
    mode # "off" /\ ~closing => run <= Segment

(* poll_flush and poll_shutdown return, whoever waits for whom: the timer, *)
(* the connection, an interrupted write.                                   *)
FlushReturns ==
    wr.op \in {"flush", "shutdown"} ~> wr.op = "none"
=============================================================================
