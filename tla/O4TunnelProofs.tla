---------------------------- MODULE O4TunnelProofs ----------------------------
(***************************************************************************)
(* The write half keeps its buffer bounded and its bursts apart and        *)
(* reports what it encodes, whatever the sizes of frames, boundary,        *)
(* connection and writes, and whatever length_dist yields; and the two     *)
(* halves with the connection between them are a byte stream.              *)
(***************************************************************************)
EXTENDS O4WireProofs

(* A frame is only sent into a buffer below the boundary, and a prefix is  *)
(* only padded while the buffer is at most a frame above it.               *)
Backpressure ==
    /\ wr.at = "send" => Len(wbuf) < Boundary
    /\ wr.sent > 0 /\ mode # "paranoid" => Len(wbuf) < Boundary + Segment

(* What has left since the last delay and what is still to leave without   *)
(* one are a segment together; a new burst begins only after a delay.      *)
Spacing ==
    mode # "off" /\ ~closing =>
        /\ sched <= Segment /\ run <= Segment
        /\ delay = "none" => run + sched <= Segment
        /\ delay = "none" /\ sched = 0 => run = 0

IInv == Types /\ Backpressure /\ BufferBounded /\ Spacing

-----------------------------------------------------------------------------
(* EncryptingCodec::encode appends at most the images of its frames, and   *)
(* no frame without a nonce.                                               *)
LEMMA EncodeAppends ==
  ASSUME Types, NEW fs \in Seq(Frame), Encode(fs)
  PROVE  /\ enc' \in Seq(Frame) /\ Len(enc') <= MaxNonce - 1
         /\ wbuf' \in Seq(Unit)
         /\ Len(wbuf') <= Len(wbuf) + Cost(fs, 1) + Cost(fs, 2) + Cost(fs, 3)
         /\ Len(wbuf') >= Len(wbuf)
<1> DEFINE k == IF Len(fs) < Room THEN Len(fs) ELSE Room
           Image(j) == IF j <= k THEN Units(Len(enc) + j, fs[j]) ELSE <<>>
<1>1. Len(enc) \in Nat /\ Len(fs) \in Nat /\ Room \in Nat /\ Len(enc) + Room = MaxNonce - 1
  BY WriterConstants DEF Types, Room
<1>2. k \in Nat /\ k <= Len(fs) /\ k <= Room
  BY <1>1
<1>3. enc' = enc \o SubSeq(fs, 1, k) /\ wbuf' = wbuf \o Image(1) \o Image(2) \o Image(3)
  BY DEF Encode
<1>4. ASSUME NEW j \in 1..3
      PROVE  Image(j) \in Seq(Unit) /\ Len(Image(j)) <= Cost(fs, j) /\ Len(Image(j)) \in Nat
             /\ Cost(fs, j) \in Nat
  <2>1. CASE j <= k
    <3>1. Len(enc) + j \in Nat /\ fs[j] \in Frame /\ j <= Len(fs)
      BY <1>1, <1>2, <2>1
    <3>2. Cost(fs, j) = Header + fs[j].size /\ Image(j) = Units(Len(enc) + j, fs[j])
      BY <3>1, <2>1 DEF Cost
    <3>3. Header + fs[j].size \in Nat
      BY <3>1, Sizes DEF Frame
    <3> HIDE DEF k, Image
    <3>4. Image(j) \in Seq(Unit) /\ Len(Image(j)) = Header + fs[j].size
      BY <3>1, <3>2, UnitsType
    <3> QED BY <3>2, <3>3, <3>4
  <2>2. CASE ~(j <= k)
    <3>1. Image(j) = <<>>
      BY <2>2
    <3>2. Cost(fs, j) \in Nat
      <4>1. CASE j <= Len(fs)
        <5>1. fs[j] \in Frame
          BY <1>1, <4>1
        <5> QED BY <4>1, <5>1, Sizes DEF Cost, Frame
      <4> QED BY <4>1 DEF Cost
    <3>3. <<>> \in Seq(Unit) /\ Len(<<>>) = 0
      OBVIOUS
    <3> HIDE DEF k, Image
    <3> QED BY <3>1, <3>2, <3>3
  <2> QED BY <2>1, <2>2
<1> HIDE DEF k, Image
<1>5. SubSeq(fs, 1, k) \in Seq(Frame) /\ Len(SubSeq(fs, 1, k)) = k
  BY <1>1, <1>2
<1>6. enc' \in Seq(Frame) /\ Len(enc') = Len(enc) + k
  BY <1>1, <1>2, <1>3, <1>5 DEF Types
<1>7. wbuf \in Seq(Unit) /\ Image(1) \in Seq(Unit) /\ Image(2) \in Seq(Unit) /\ Image(3) \in Seq(Unit)
  BY <1>4 DEF Types
<1>8. wbuf' \in Seq(Unit)
      /\ Len(wbuf') = Len(wbuf) + Len(Image(1)) + Len(Image(2)) + Len(Image(3))
  BY <1>3, <1>7
<1>9. Len(enc') <= MaxNonce - 1
  BY <1>1, <1>2, <1>6, WriterConstants
<1>10. Len(wbuf) \in Nat
  BY <1>7
<1>11. 1 \in 1..3 /\ 2 \in 1..3 /\ 3 \in 1..3
  OBVIOUS
<1>12. /\ Len(Image(1)) <= Cost(fs, 1) /\ Len(Image(1)) \in Nat /\ Cost(fs, 1) \in Nat
       /\ Len(Image(2)) <= Cost(fs, 2) /\ Len(Image(2)) \in Nat /\ Cost(fs, 2) \in Nat
       /\ Len(Image(3)) <= Cost(fs, 3) /\ Len(Image(3)) \in Nat /\ Cost(fs, 3) \in Nat
  BY <1>4, <1>11, Zenon
<1>13. Len(wbuf') <= Len(wbuf) + Cost(fs, 1) + Cost(fs, 2) + Cost(fs, 3) /\ Len(wbuf') >= Len(wbuf)
  BY <1>8, <1>10, <1>12
<1> QED BY <1>6, <1>8, <1>9, <1>13

(* A last chunk of n bytes and the padding of its burst.                   *)
LEMMA LastCosts ==
  ASSUME Types, NEW n \in Nat, NEW b \in Nat, NEW t \in 0..Segment,
         NEW all, all = NextPayload(n) \o PadBurst(b, t)
  PROVE  /\ all \in Seq(Frame)
         /\ Cost(all, 1) + Cost(all, 2) + Cost(all, 3) <= Header + n + Segment + 2 * Header
         /\ Cost(all, 1) \in Nat /\ Cost(all, 2) \in Nat /\ Cost(all, 3) \in Nat
<1> DEFINE p == NextPayload(n)
           q == PadBurst(b, t)
           fs == p \o q
<1>1. p \in Seq(Frame) /\ Len(p) = 1 /\ Cost(p, 1) = Header + n
  BY NextPayloadCosts
<1>2. /\ q \in Seq(Frame) /\ Len(q) <= 2 /\ Cost(q, 1) + Cost(q, 2) <= Segment + 2 * Header
      /\ Cost(q, 1) \in Nat /\ Cost(q, 2) \in Nat
  BY PadCosts
<1> HIDE DEF p, q
<1>3. Len(q) \in Nat
  BY <1>2
<1>4. fs \in Seq(Frame) /\ Len(fs) = 1 + Len(q) /\ fs[1] = p[1]
  <2>1. fs \in Seq(Frame)
    BY <1>1, <1>2
  <2>2. Len(p \o q) = Len(p) + Len(q)
        /\ \A i \in 1..Len(p) + Len(q) : (p \o q)[i] = IF i <= Len(p) THEN p[i] ELSE q[i - Len(p)]
    BY <1>1, <1>2, Concat, Zenon
  <2>3. Len(fs) = 1 + Len(q) /\ fs[1] = p[1]
    <3>1. fs = p \o q
      OBVIOUS
    <3> HIDE DEF fs
    <3> QED BY <1>1, <1>3, <2>2, <3>1
  <2> QED BY <2>1, <2>2, <2>3
<1>5. ASSUME NEW j \in 1..2 PROVE Cost(fs, j + 1) = Cost(q, j)
  <2>1. CASE j <= Len(q)
    <3>1. fs[j + 1] = q[j] /\ j + 1 <= Len(fs)
      BY <1>1, <1>2, <1>3, <1>4, <2>1
    <3> HIDE DEF fs
    <3> QED BY <2>1, <3>1 DEF Cost
  <2>2. CASE ~(j <= Len(q))
    <3>1. ~(j + 1 <= Len(fs))
      BY <1>3, <1>4, <2>2
    <3> HIDE DEF fs
    <3> QED BY <2>2, <3>1 DEF Cost
  <2> QED BY <2>1, <2>2
<1>6. Cost(fs, 2) = Cost(q, 1) /\ Cost(fs, 3) = Cost(q, 2)
  <2>1. 1 \in 1..2 /\ 2 \in 1..2 /\ 1 + 1 = 2 /\ 2 + 1 = 3
    OBVIOUS
  <2> HIDE DEF fs
  <2> QED BY <1>5, <2>1
<1>7. Cost(fs, 1) = Cost(p, 1)
  <2>1. 1 <= Len(fs) /\ 1 <= Len(p) /\ fs[1] = p[1]
    BY <1>1, <1>3, <1>4
  <2> HIDE DEF fs
  <2> QED BY <2>1 DEF Cost
<1>8. fs = all
  BY DEF p, q
<1>9. fs \in Seq(Frame)
  BY <1>4
<1> HIDE DEF fs
<1>10. Cost(fs, 1) \in Nat /\ Cost(fs, 2) \in Nat /\ Cost(fs, 3) \in Nat
  BY <1>1, <1>2, <1>6, <1>7, Sizes
<1>11. Cost(fs, 1) + Cost(fs, 2) + Cost(fs, 3) <= Header + n + Segment + 2 * Header
  BY <1>1, <1>2, <1>6, <1>7, Sizes
<1> QED BY <1>8, <1>9, <1>10, <1>11

-----------------------------------------------------------------------------
(* Spacing depends on the carrier alone.                                   *)
LEMMA SpacingStays ==
  ASSUME Spacing, UNCHANGED <<mode, sched, delay, closing, run>>
  PROVE  Spacing'
  BY DEF Spacing

LEMMA CallGoesOn ==
  ASSUME IsCall, NEW at, NEW wake,
         wr' = [wr EXCEPT !.at = at] \/ wr' = [wr EXCEPT !.at = at, !.wake = wake]
  PROVE  IsCall' /\ wr'.len = wr.len /\ wr'.sent = wr.sent /\ wr'.burst = wr.burst /\ wr'.at = at
         /\ wr'.op = wr.op
<1>1. CASE wr' = [wr EXCEPT !.at = at]
  BY <1>1 DEF IsCall
<1>2. CASE wr' = [wr EXCEPT !.at = at, !.wake = wake]
  BY <1>2 DEF IsCall
<1> QED BY <1>1, <1>2

(* A step of the call that leaves buffer and carrier alone.                *)
LEMMA CallMoves ==
  ASSUME IInv, UNCHANGED <<mode, enc, wbuf, sched, delay, closing, run>>,
         accepted' \in Nat, IsCall', wr'.len \in Nat, wr'.sent \in 0..wr'.len, wr'.burst \in Nat,
         wr'.at = "send" => Len(wbuf) < Boundary,
         wr'.sent = 0 \/ wr'.sent = wr.sent
  PROVE  IInv'
<1>1. Types'
  BY DEF IInv, Types
<1>2. Backpressure'
  BY DEF IInv, Backpressure
<1>3. BufferBounded'
  BY DEF IInv, BufferBounded
<1>4. Spacing'
  BY SpacingStays DEF IInv
<1> QED BY <1>1, <1>2, <1>3, <1>4 DEF IInv

LEMMA CallEnds ==
  ASSUME IInv, UNCHANGED <<mode, enc, wbuf, sched, delay, closing, run>>,
         accepted' \in Nat, wr' = NoCall
  PROVE  IInv'
  BY CallMoves, NoCallIs

LEMMA CallStays ==
  ASSUME IInv, UNCHANGED <<mode, enc, wbuf, sched, delay, closing, run, accepted>>,
         NEW at, NEW wake, at = "send" => Len(wbuf) < Boundary,
         wr' = [wr EXCEPT !.at = at] \/ wr' = [wr EXCEPT !.at = at, !.wake = wake]
  PROVE  IInv'
<1>1. /\ IsCall /\ accepted \in Nat /\ wr.len \in Nat /\ wr.sent \in 0..wr.len /\ wr.burst \in Nat
  BY DEF IInv, Types
<1>2. IsCall' /\ wr'.len = wr.len /\ wr'.sent = wr.sent /\ wr'.burst = wr.burst /\ wr'.at = at
  BY <1>1, CallGoesOn
<1> QED BY <1>1, <1>2, CallMoves

LEMMA FailsKeeps ==
  ASSUME IInv, Fails, UNCHANGED <<mode, enc, wbuf, sched, delay, closing, run>>
  PROVE  IInv'
<1>1. wr' = NoCall /\ accepted' = accepted + wr.sent
  BY DEF Fails, Return
<1>2. accepted' \in Nat
  BY <1>1 DEF IInv, Types
<1> QED BY <1>1, <1>2, CallEnds

(* A call that returns with frames added to the buffer.                    *)
LEMMA ReturnsPadded ==
  ASSUME IInv, mode' = mode, run' = run, sched' \in Nat, Spacing', NEW n \in Nat, Return(n),
         NEW fs \in Seq(Frame), Encode(fs),
         Cost(fs, 1) \in Nat, Cost(fs, 2) \in Nat, Cost(fs, 3) \in Nat,
         Len(wbuf) + Cost(fs, 1) + Cost(fs, 2) + Cost(fs, 3) < Boundary + 2 * Segment + 2 * Header
  PROVE  IInv'
<1>1. Types /\ mode \in IAT /\ sched \in Nat /\ run \in Nat /\ accepted \in Nat /\ Len(wbuf) \in Nat
  BY DEF IInv, Types
<1>2. /\ enc' \in Seq(Frame) /\ Len(enc') <= MaxNonce - 1 /\ wbuf' \in Seq(Unit)
      /\ Len(wbuf') <= Len(wbuf) + Cost(fs, 1) + Cost(fs, 2) + Cost(fs, 3)
  BY <1>1, EncodeAppends
<1>3. Len(wbuf') \in Nat
  BY <1>2
<1>4. wr' = NoCall /\ accepted' = accepted + n
  BY DEF Return
<1>5. IsCall' /\ wr'.len = 0 /\ wr'.sent = 0 /\ wr'.burst = 0 /\ wr'.at = "-"
  BY <1>4, NoCallIs
<1>6. Types'
  BY <1>1, <1>2, <1>4, <1>5 DEF Types
<1>7. Backpressure'
  BY <1>5 DEF Backpressure
<1>8. BufferBounded'
  BY <1>1, <1>2, <1>3, Sizes DEF BufferBounded
<1> QED BY <1>6, <1>7, <1>8 DEF IInv

LEMMA BackOffKeeps ==
  ASSUME IInv, wr.sent > 0, BackOff, UNCHANGED <<mode, sched, delay, closing, run>>
  PROVE  IInv'
<1>1. /\ wr.sent \in Nat /\ accepted \in Nat /\ wr.burst \in Nat /\ Len(wbuf) \in Nat
  BY DEF IInv, Types
<1>2. Return(wr.sent)
  BY DEF BackOff
<1>3. CASE mode = "paranoid"
  <2>1. UNCHANGED <<enc, wbuf>> /\ wr' = NoCall /\ accepted' \in Nat
    BY <1>1, <1>2, <1>3 DEF BackOff, Return
  <2> QED BY <2>1, CallEnds
<1>4. CASE mode # "paranoid"
  <2>1. PICK t \in Lengths : Encode(PadBurst(wr.burst, t))
    BY <1>4 DEF BackOff
  <2>2. t \in 0..Segment
    BY WriterConstants
  <2> DEFINE fs == PadBurst(wr.burst, t)
  <2>3. /\ fs \in Seq(Frame) /\ Cost(fs, 1) + Cost(fs, 2) <= Segment + 2 * Header
        /\ Cost(fs, 1) \in Nat /\ Cost(fs, 2) \in Nat /\ Cost(fs, 3) = 0
    BY <1>1, <2>2, PadCosts
  <2>4. Encode(fs)
    BY <2>1
  <2> HIDE DEF fs
  <2>5. Len(wbuf) < Boundary + Segment
    BY <1>4 DEF IInv, Backpressure
  <2>6. Len(wbuf) + Cost(fs, 1) + Cost(fs, 2) + Cost(fs, 3) < Boundary + 2 * Segment + 2 * Header
    BY <1>1, <2>3, <2>5, Sizes
  <2>7. sched' \in Nat /\ Spacing'
    BY SpacingStays DEF IInv, Types
  <2> QED BY <1>1, <1>2, <2>3, <2>4, <2>6, <2>7, ReturnsPadded
<1> QED BY <1>3, <1>4

LEMMA PendsKeeps ==
  ASSUME IInv, NEW waker, Pends(waker), UNCHANGED <<mode, sched, delay, closing, run>>
  PROVE  IInv'
<1>1. CASE wr.sent > 0
  BY <1>1, BackOffKeeps DEF Pends
<1>2. CASE ~(wr.sent > 0)
  <2>1. wr' = [wr EXCEPT !.at = "parked", !.wake = waker] /\ UNCHANGED <<enc, wbuf, accepted>>
    BY <1>2 DEF Pends
  <2>2. "parked" = "send" => Len(wbuf) < Boundary
    OBVIOUS
  <2> QED BY <2>1, <2>2, CallStays
<1> QED BY <1>1, <1>2

-----------------------------------------------------------------------------
(* The steps.                                                              *)
LEMMA WriteCallKeeps == ASSUME IInv, NEW n \in Nat, WriteCall(n) PROVE IInv'
<1>1. /\ UNCHANGED <<mode, enc, wbuf, sched, delay, closing, run, accepted>>
      /\ wr' = Call("write", "ready", n) /\ accepted \in Nat
  BY DEF WriteCall, IInv, Types
<1>2. IsCall' /\ wr'.len = n /\ wr'.sent = 0 /\ wr'.burst = 0 /\ wr'.at = "ready"
  BY <1>1, CallIs
<1> QED BY <1>1, <1>2, CallMoves

LEMMA FlushCallKeeps == ASSUME IInv, FlushCall PROVE IInv'
<1>1. /\ UNCHANGED <<mode, enc, wbuf, sched, delay, closing, run, accepted>>
      /\ wr' = Call("flush", "flush", 0) /\ accepted \in Nat
  BY DEF FlushCall, IInv, Types
<1>2. IsCall' /\ wr'.len = 0 /\ wr'.sent = 0 /\ wr'.burst = 0 /\ wr'.at = "flush"
  BY <1>1, CallIs
<1> QED BY <1>1, <1>2, CallMoves

LEMMA ShutdownCallKeeps == ASSUME IInv, ShutdownCall PROVE IInv'
<1>1. /\ UNCHANGED <<mode, enc, wbuf, sched, run, accepted>> /\ closing' = TRUE
      /\ wr' = Call("shutdown", "flush", 0)
  BY DEF ShutdownCall
<1>2. IsCall' /\ wr'.len = 0 /\ wr'.sent = 0 /\ wr'.burst = 0 /\ wr'.at = "flush"
  BY <1>1, CallIs
<1>3. Types'
  BY <1>1, <1>2 DEF IInv, Types
<1>4. Backpressure' /\ Spacing'
  BY <1>1, <1>2 DEF Backpressure, Spacing
<1>5. BufferBounded'
  BY <1>1 DEF IInv, BufferBounded
<1> QED BY <1>3, <1>4, <1>5 DEF IInv

LEMMA PollReadyKeeps == ASSUME IInv, PollReady PROVE IInv'
<1> DEFINE at == IF Len(wbuf) < Boundary THEN "send" ELSE "flush"
<1>1. /\ UNCHANGED <<mode, enc, wbuf, sched, delay, closing, run, accepted>>
      /\ wr' = [wr EXCEPT !.at = at]
  BY DEF PollReady
<1>2. at = "send" => Len(wbuf) < Boundary
  OBVIOUS
<1> HIDE DEF at
<1> QED BY <1>1, <1>2, CallStays

LEMMA SendChunkKeeps == ASSUME IInv, SendChunk PROVE IInv'
<1> DEFINE fs == NextPayload(MaxPayload)
<1>1. /\ Types /\ Len(wbuf) \in Nat /\ Len(wbuf) < Boundary /\ wr.len \in Nat /\ wr.sent \in 0..wr.len
      /\ wr.burst \in Nat /\ IsCall /\ mode \in IAT /\ sched \in Nat /\ run \in Nat /\ accepted \in Nat
  BY DEF SendChunk, IInv, Types, Backpressure
<1>2. /\ fs \in Seq(Frame) /\ Cost(fs, 1) = Segment /\ Cost(fs, 2) = 0 /\ Cost(fs, 3) = 0
  BY <1>1, NextPayloadCosts, Sizes
<1>3. Encode(fs) /\ UNCHANGED <<mode, sched, delay, closing, run>> /\ wr.len - wr.sent > MaxPayload
  BY DEF SendChunk
<1>4. Spacing'
  BY <1>3, SpacingStays DEF IInv
<1> HIDE DEF fs
<1>5. CASE Room = 0
  <2>1. Return(wr.sent) /\ wr.sent \in Nat
    BY <1>1, <1>5 DEF SendChunk, Fails
  <2>2. Len(wbuf) + Cost(fs, 1) + Cost(fs, 2) + Cost(fs, 3) < Boundary + 2 * Segment + 2 * Header
        /\ Cost(fs, 1) \in Nat /\ Cost(fs, 2) \in Nat /\ Cost(fs, 3) \in Nat
    BY <1>1, <1>2, Sizes
  <2> QED BY <1>1, <1>2, <1>3, <1>4, <2>1, <2>2, ReturnsPadded
<1>6. CASE Room # 0
  <2>1. wr' = [wr EXCEPT !.at = "ready", !.sent = @ + MaxPayload, !.burst = @ + Segment]
        /\ accepted' = accepted
    BY <1>6 DEF SendChunk
  <2>2. IsCall' /\ wr'.len = wr.len /\ wr'.sent = wr.sent + MaxPayload
        /\ wr'.burst = wr.burst + Segment /\ wr'.at = "ready"
    BY <1>1, <2>1 DEF IsCall
  <2>3. /\ enc' \in Seq(Frame) /\ Len(enc') <= MaxNonce - 1 /\ wbuf' \in Seq(Unit)
        /\ Len(wbuf') <= Len(wbuf) + Cost(fs, 1) + Cost(fs, 2) + Cost(fs, 3)
    BY <1>1, <1>2, <1>3, EncodeAppends
  <2>4. Len(wbuf') \in Nat /\ Len(wbuf') < Boundary + Segment
    BY <1>1, <1>2, <2>3, Sizes
  <2>5. wr'.len \in Nat /\ wr'.sent \in 0..wr'.len /\ wr'.burst \in Nat
    BY <1>1, <1>3, <2>2, Sizes
  <2>6. Types'
    BY <1>1, <1>3, <2>1, <2>2, <2>3, <2>5 DEF Types
  <2>7. Backpressure' /\ BufferBounded'
    BY <2>2, <2>4, Sizes DEF Backpressure, BufferBounded
  <2> QED BY <1>4, <2>6, <2>7 DEF IInv
<1> QED BY <1>5, <1>6

LEMMA SendLastKeeps == ASSUME IInv, SendLast PROVE IInv'
<1> DEFINE n == wr.len - wr.sent
<1>1. /\ Types /\ Len(wbuf) \in Nat /\ Len(wbuf) < Boundary /\ wr.len \in Nat /\ wr.sent \in Nat
      /\ wr.burst \in Nat /\ n \in 0..MaxPayload /\ sched \in Nat
  BY Sizes DEF SendLast, IInv, Types, Backpressure
<1>2. UNCHANGED <<mode, sched, delay, closing, run>>
  BY DEF SendLast
<1>3. Spacing'
  BY <1>2, SpacingStays DEF IInv
<1>4. PICK t \in Lengths :
        LET fs == IF mode = "paranoid" THEN NextPayload(n)
                  ELSE NextPayload(n) \o PadBurst(wr.burst + Header + n, t)
        IN  Encode(fs) /\ (Return(wr.sent) \/ Return(wr.len))
  BY DEF SendLast, Fails
<1> DEFINE b == wr.burst + Header + n
           fs == IF mode = "paranoid" THEN NextPayload(n) ELSE NextPayload(n) \o PadBurst(b, t)
<1>5. Encode(fs) /\ (Return(wr.sent) \/ Return(wr.len))
  BY <1>4
<1>6. t \in 0..Segment /\ b \in Nat /\ n \in Nat
  BY <1>1, Sizes, WriterConstants
<1> HIDE DEF n, b
<1>7. /\ fs \in Seq(Frame) /\ Cost(fs, 1) \in Nat /\ Cost(fs, 2) \in Nat /\ Cost(fs, 3) \in Nat
      /\ Cost(fs, 1) + Cost(fs, 2) + Cost(fs, 3) <= Header + n + Segment + 2 * Header
  <2>1. CASE mode = "paranoid"
    <3>1. fs = NextPayload(n)
      BY <2>1
    <3> HIDE DEF fs
    <3>2. /\ fs \in Seq(Frame) /\ Cost(fs, 1) = Header + n /\ Cost(fs, 2) = 0 /\ Cost(fs, 3) = 0
      BY <1>1, <1>6, <3>1, NextPayloadCosts
    <3> QED BY <1>6, <3>2, Sizes
  <2>2. CASE mode # "paranoid"
    <3>1. fs = NextPayload(n) \o PadBurst(b, t)
      BY <2>2
    <3> HIDE DEF fs
    <3> QED BY <1>1, <1>6, <3>1, LastCosts, Zenon
  <2> QED BY <2>1, <2>2
<1> HIDE DEF fs
<1>8. Len(wbuf) + Cost(fs, 1) + Cost(fs, 2) + Cost(fs, 3) < Boundary + 2 * Segment + 2 * Header
  BY <1>1, <1>7, Sizes
<1> QED BY <1>1, <1>2, <1>3, <1>5, <1>7, <1>8, ReturnsPadded

(* A burst is only fixed when none is under way.                           *)
LEMMA SpacingScheduled ==
  ASSUME Spacing, sched = 0, sched' \in 0..Segment, run \in Nat,
         UNCHANGED <<mode, delay, closing, run>>
  PROVE  Spacing'
<1> SUFFICES ASSUME mode # "off", ~closing
             PROVE  /\ sched' <= Segment /\ run <= Segment
                    /\ delay = "none" => run + sched' <= Segment /\ run = 0
  BY DEF Spacing
<1>1. run <= Segment /\ (delay = "none" => run = 0)
  BY DEF Spacing
<1>2. ASSUME NEW s \in 0..Segment PROVE s <= Segment /\ 0 + s <= Segment
  BY Sizes
<1> QED BY <1>1, <1>2

LEMMA ScheduleKeeps == ASSUME IInv, NEW t \in Lengths, Schedule(t) PROVE IInv'
<1>1. /\ Types /\ Len(wbuf) \in Nat /\ wbuf \in Seq(Unit) /\ wr.len \in Nat /\ wr.sent \in 0..wr.len
      /\ wr.burst \in Nat /\ IsCall /\ mode \in IAT /\ run \in Nat /\ accepted \in Nat /\ Spacing
  BY DEF IInv, Types
<1>2. /\ UNCHANGED <<mode, delay, closing, run>> /\ sched = 0 /\ mode # "off" /\ wr.at = "flush"
  BY DEF Schedule, Flushing
<1>3. Clamp(t) \in 1..Segment
  BY ClampType
<1>4. CASE mode = "enabled" \/ Len(wbuf) >= Clamp(t)
  <2>1. /\ UNCHANGED <<enc, wbuf, wr, accepted>>
        /\ sched' = IF mode = "paranoid" THEN Clamp(t)
                    ELSE IF Len(wbuf) < Segment THEN Len(wbuf) ELSE Segment
    BY <1>4 DEF Schedule
  <2>2. sched' \in 0..Segment
    BY <1>1, <1>3, <2>1, Sizes
  <2>3. Spacing'
    BY <1>1, <1>2, <2>2, SpacingScheduled
  <2>4. Types' /\ Backpressure' /\ BufferBounded'
    <3>1. sched' \in Nat /\ IsCall'
      BY <1>1, <2>1, <2>2, Sizes DEF IsCall
    <3> QED BY <1>2, <2>1, <3>1 DEF IInv, Types, Backpressure, BufferBounded
  <2> QED BY <2>3, <2>4 DEF IInv
<1>5. CASE ~(mode = "enabled" \/ Len(wbuf) >= Clamp(t))
  <2> DEFINE fs == PadBurst(Len(wbuf), Clamp(t))
  <2>1. Encode(fs)
    BY <1>5 DEF Schedule
  <2>2. /\ fs \in Seq(Frame) /\ Cost(fs, 1) + Cost(fs, 2) <= Segment + 2 * Header
        /\ Cost(fs, 1) \in Nat /\ Cost(fs, 2) \in Nat /\ Cost(fs, 3) = 0
    <3>1. Clamp(t) \in 0..Segment
      BY <1>3, Sizes
    <3> QED BY <1>1, <3>1, PadCosts
  <2>3. \/ Fails /\ sched' = Clamp(t)
        \/ /\ sched' = IF Len(wbuf') = Clamp(t) THEN Clamp(t) ELSE 0
           /\ wr' = [wr EXCEPT !.at = IF wr.op = "write" THEN "ready" ELSE "flush"]
           /\ accepted' = accepted
    BY <1>5 DEF Schedule
  <2> HIDE DEF fs
  <2>4. sched' \in 0..Segment
    BY <1>3, <2>3, Sizes
  <2>5. Spacing' /\ sched' \in Nat
    BY <1>1, <1>2, <2>4, SpacingScheduled, Sizes
  <2>6. Len(wbuf) + Cost(fs, 1) + Cost(fs, 2) + Cost(fs, 3) < Boundary + 2 * Segment + 2 * Header
    BY <1>1, <1>3, <1>5, <2>2, Sizes
  <2>7. CASE Fails
    <3>1. Return(wr.sent) /\ wr.sent \in Nat
      BY <1>1, <2>7 DEF Fails
    <3> QED BY <1>2, <2>1, <2>2, <2>5, <2>6, <3>1, ReturnsPadded
  <2>8. CASE ~Fails
    <3> DEFINE at == IF wr.op = "write" THEN "ready" ELSE "flush"
    <3>1. wr' = [wr EXCEPT !.at = at] /\ accepted' = accepted /\ at # "send"
      BY <2>3, <2>8
    <3> HIDE DEF at
    <3>2. IsCall' /\ wr'.len = wr.len /\ wr'.sent = wr.sent /\ wr'.burst = wr.burst /\ wr'.at = at
      BY <1>1, <3>1, CallGoesOn
    <3>3. /\ enc' \in Seq(Frame) /\ Len(enc') <= MaxNonce - 1 /\ wbuf' \in Seq(Unit)
          /\ Len(wbuf') <= Len(wbuf) + Cost(fs, 1) + Cost(fs, 2) + Cost(fs, 3)
      BY <1>1, <2>1, <2>2, EncodeAppends
    <3>4. Types'
      BY <1>1, <1>2, <2>5, <3>1, <3>2, <3>3 DEF Types
    <3>5. mode' = "paranoid"
      BY <1>1, <1>2, <1>5 DEF IAT
    <3>6. Backpressure'
      BY <3>1, <3>2, <3>5 DEF Backpressure
    <3>7. Len(wbuf') \in Nat
      BY <3>3
    <3>8. BufferBounded'
      BY <1>1, <2>2, <2>6, <3>3, <3>7, Sizes DEF BufferBounded
    <3> QED BY <2>5, <3>4, <3>6, <3>8 DEF IInv
  <2> QED BY <2>7, <2>8
<1> QED BY <1>4, <1>5

LEMMA DelayOverKeeps == ASSUME IInv, DelayOver PROVE IInv'
<1>1. UNCHANGED <<mode, enc, wbuf, sched, closing, wr, accepted>> /\ run' = 0 /\ delay' = "none"
  BY DEF DelayOver
<1>2. Types'
  BY <1>1 DEF IInv, Types, IsCall
<1>3. Backpressure' /\ BufferBounded'
  BY <1>1 DEF IInv, Backpressure, BufferBounded
<1>4. Spacing'
  BY <1>1, Sizes DEF IInv, Spacing, Types
<1> QED BY <1>2, <1>3, <1>4 DEF IInv

LEMMA TimerKeeps == ASSUME IInv, TimerElapses PROVE IInv'
<1>1. UNCHANGED <<mode, enc, wbuf, sched, closing, wr, accepted, run>> /\ delay' = "over"
  BY DEF TimerElapses
<1>2. Types'
  BY <1>1 DEF IInv, Types, IsCall
<1>3. Backpressure' /\ BufferBounded'
  BY <1>1 DEF IInv, Backpressure, BufferBounded
<1>4. Spacing'
  BY <1>1 DEF IInv, Spacing
<1> QED BY <1>2, <1>3, <1>4 DEF IInv

(* The end of a burst arms the timer, so run + sched only grows when a     *)
(* delay is pending.                                                       *)
LEMMA InnerWriteKeeps == ASSUME IInv, NEW k \in Nat \ {0}, InnerWrite(k) PROVE IInv'
<1> DEFINE n == IF mode = "off" \/ Len(wbuf) < sched THEN Len(wbuf) ELSE sched
<1>1. /\ wbuf \in Seq(Unit) /\ Len(wbuf) \in Nat /\ sched \in Nat /\ run \in Nat
  BY DEF IInv, Types
<1>2. /\ UNCHANGED <<mode, enc, closing, wr, accepted>> /\ k <= n /\ delay = "none"
      /\ wbuf' = SubSeq(wbuf, k + 1, Len(wbuf))
      /\ sched' = IF mode = "off" THEN 0 ELSE sched - k
      /\ delay' = IF mode # "off" /\ k = sched /\ ~closing THEN "running" ELSE delay
      /\ run' = IF mode = "off" THEN 0 ELSE run + k
  BY DEF InnerWrite, Connected
<1>3. k <= Len(wbuf) /\ (mode # "off" => k <= sched)
  BY <1>1, <1>2
<1> HIDE DEF n
<1>4. wbuf' \in Seq(Unit) /\ Len(wbuf') = Len(wbuf) - k
  <2>1. k + 1 \in 1..Len(wbuf) + 1
    BY <1>1, <1>3
  <2>2. wbuf' \in Seq(Unit)
    BY <1>1, <1>2, <2>1
  <2>3. Len(wbuf') = Len(wbuf) - k
    BY <1>1, <1>2, <1>3
  <2> QED BY <2>2, <2>3
<1>5. sched' \in Nat /\ run' \in Nat
  BY <1>1, <1>2, <1>3
<1>6. Types'
  BY <1>2, <1>4, <1>5 DEF IInv, Types, IsCall
<1>7. Backpressure' /\ BufferBounded'
  BY <1>1, <1>2, <1>4, Sizes DEF IInv, Backpressure, BufferBounded
<1>8. Spacing'
  BY <1>1, <1>2, <1>3, Sizes DEF IInv, Spacing
<1> QED BY <1>6, <1>7, <1>8 DEF IInv

LEMMA BufferOutKeeps == ASSUME IInv, BufferOut PROVE IInv'
<1>1. /\ UNCHANGED <<mode, enc, wbuf, sched, delay, closing, run, accepted>> /\ wbuf = <<>>
      /\ accepted \in Nat
  BY DEF BufferOut, IInv, Types
<1>2. Len(wbuf) < Boundary
  BY <1>1, Sizes
<1>3. CASE wr' = NoCall
  BY <1>1, <1>3, CallEnds
<1>4. CASE wr' = [wr EXCEPT !.at = "send"]
  BY <1>1, <1>2, <1>4, CallStays
<1>5. CASE wr' = [wr EXCEPT !.at = "close"]
  BY <1>1, <1>2, <1>5, CallStays
<1> QED BY <1>3, <1>4, <1>5 DEF BufferOut

LEMMA PolledKeeps == ASSUME IInv, DelayPends \/ InnerPends \/ InnerInterrupted PROVE IInv'
<1>1. CASE DelayPends
  BY <1>1, PendsKeeps DEF DelayPends
<1>2. CASE InnerPends
  BY <1>2, PendsKeeps DEF InnerPends
<1>3. CASE InnerInterrupted
  BY <1>3, PendsKeeps DEF InnerInterrupted
<1> QED BY <1>1, <1>2, <1>3

LEMMA EndsKeep == ASSUME IInv, InnerFails \/ InnerClose \/ Abandon PROVE IInv'
<1>1. CASE InnerFails
  BY <1>1, FailsKeeps DEF InnerFails
<1>2. accepted \in Nat
  BY DEF IInv, Types
<1>3. CASE InnerClose
  BY <1>2, <1>3, CallEnds DEF InnerClose
<1>4. CASE Abandon
  BY <1>2, <1>4, CallEnds DEF Abandon
<1> QED BY <1>1, <1>3, <1>4

LEMMA RepollKeeps == ASSUME IInv, Repoll PROVE IInv'
<1> DEFINE at == IF wr.op = "write" THEN "ready" ELSE "flush"
<1>1. /\ UNCHANGED <<mode, enc, wbuf, sched, delay, closing, run, accepted>>
      /\ wr' = [wr EXCEPT !.at = at, !.wake = "-"]
  BY DEF Repoll
<1>2. at = "send" => Len(wbuf) < Boundary
  OBVIOUS
<1> HIDE DEF at
<1> QED BY <1>1, <1>2, CallStays

(* Steps of the connection and the peer.                                   *)
LEMMA WriterIdle == ASSUME IInv, UNCHANGED wrVars PROVE IInv'
<1>1. UNCHANGED <<mode, enc, wbuf, sched, delay, closing, wr, accepted, run>>
  BY DEF wrVars
<1>2. Types'
  BY <1>1 DEF IInv, Types, IsCall
<1>3. Backpressure' /\ BufferBounded'
  BY <1>1 DEF IInv, Backpressure, BufferBounded
<1>4. Spacing'
  BY <1>1, SpacingStays DEF IInv
<1> QED BY <1>2, <1>3, <1>4 DEF IInv

LEMMA InitHolds == ASSUME WriterInit PROVE IInv
<1>1. /\ mode \in IAT /\ enc = <<Seed>> /\ wbuf = <<>> /\ sched = 0 /\ run = 0
      /\ wr = NoCall /\ accepted = 0
  BY WriterConstants DEF WriterInit
<1>2. Seed \in Frame
  <2>1. <<>> \in Seq(Nat)
    OBVIOUS
  <2> QED BY <2>1 DEF Seed, Frame
<1>3. enc \in Seq(Frame) /\ Len(enc) = 1 /\ wbuf \in Seq(Unit) /\ Len(wbuf) = 0
  BY <1>1, <1>2
<1>4. IsCall /\ wr.len = 0 /\ wr.sent = 0 /\ wr.burst = 0
  BY <1>1 DEF NoCall, IsCall
<1>5. Types
  BY <1>1, <1>3, <1>4, WriterConstants DEF Types
<1>6. Backpressure /\ BufferBounded
  BY <1>3, <1>4, Sizes DEF Backpressure, BufferBounded
<1>7. Spacing
  BY <1>1, Sizes DEF Spacing
<1> QED BY <1>5, <1>6, <1>7 DEF IInv

LEMMA StepKeeps == ASSUME IInv, WriterNext \/ PeerReads PROVE IInv'
<1>1. ASSUME NEW n \in 1..MaxBytes, WriteCall(n) PROVE IInv'
  BY <1>1, WriteCallKeeps
<1>2. CASE FlushCall \/ ShutdownCall
  BY <1>2, FlushCallKeeps, ShutdownCallKeeps
<1>3. CASE WriterSteps
  BY <1>3, PollReadyKeeps, SendChunkKeeps, SendLastKeeps, PolledKeeps, DelayOverKeeps,
     EndsKeep, BufferOutKeeps DEF WriterSteps
<1>4. ASSUME NEW t \in Lengths, Schedule(t) PROVE IInv'
  BY <1>4, ScheduleKeeps
<1>5. ASSUME NEW k \in 1..WireCap, InnerWrite(k) PROVE IInv'
  <2>1. k \in Nat \ {0}
    BY WriterConstants
  <2> QED BY <1>5, <2>1, InnerWriteKeeps
<1>6. CASE TimerElapses \/ Repoll \/ Abandon
  BY <1>6, TimerKeeps, RepollKeeps, EndsKeep
<1>7. CASE Cut \/ PeerReads
  BY <1>7, WriterIdle DEF Cut, PeerReads
<1> QED BY <1>1, <1>2, <1>3, <1>4, <1>5, <1>6, <1>7 DEF WriterNext

LEMMA InvHolds == WriterSpec => []IInv
<1>1. WriterInit => IInv
  BY InitHolds
<1>2. IInv /\ [WriterNext \/ PeerReads]_<<wrVars, netVars>> => IInv'
  BY StepKeeps, WriterIdle
<1> QED BY <1>1, <1>2, PTL DEF WriterSpec

-----------------------------------------------------------------------------
(* Framed's backpressure bounds the write buffer of poll_write and its     *)
(* paddings for every frame size, boundary and length distribution.        *)
THEOREM BufferIsBounded == WriterSpec => []BufferBounded
<1>1. IInv => BufferBounded
  BY DEF IInv
<1> QED BY <1>1, InvHolds, PTL

(* IatCarrier lets no more than a segment leave between two delays, for    *)
(* every segment length and however the connection splits the writes.      *)
THEOREM DelaysSpaceBursts == WriterSpec => []BurstsAreSpaced
<1>1. IInv => BurstsAreSpaced
  BY DEF IInv, Spacing, BurstsAreSpaced
<1> QED BY <1>1, InvHolds, PTL

-----------------------------------------------------------------------------
(* Bytes.                                                                  *)

(* Frames without payload change nothing.                                  *)
LEMMA PaddingInOrder ==
  ASSUME NEW e \in Seq(Frame), NEW g \in Seq(Frame), NEW n \in Nat, InOrder(e, n),
         Len(g) >= Len(e), \A j \in 1..Len(e) : g[j] = e[j],
         \A j \in Len(e) + 1..Len(g) : g[j].data = <<>>
  PROVE  InOrder(g, n)
<1>1. DOMAIN e = 1..Len(e) /\ DOMAIN g = 1..Len(g) /\ Len(e) \in Nat /\ Len(g) \in Nat
  OBVIOUS
<1>2. ASSUME NEW j \in DOMAIN g, NEW i \in DOMAIN g[j].data
      PROVE  j \in DOMAIN e /\ g[j] = e[j] /\ i \in DOMAIN e[j].data
  <2>1. CASE j <= Len(e)
    BY <1>1, <2>1
  <2>2. CASE ~(j <= Len(e))
    <3>1. g[j].data = <<>> /\ DOMAIN <<>> = {}
      BY <1>1, <2>2
    <3> QED BY <3>1
  <2> QED BY <2>1, <2>2
<1>3. ASSUME NEW j \in DOMAIN e PROVE j \in DOMAIN g /\ g[j] = e[j]
  BY <1>1
<1>4. ASSUME NEW j \in DOMAIN g, NEW i \in DOMAIN g[j].data
      PROVE  /\ g[j].data[i] \in 1..n
             /\ \A h \in DOMAIN g[j].data : i < h => g[j].data[i] < g[j].data[h]
             /\ \A k \in DOMAIN g : \A h \in DOMAIN g[k].data : j < k => g[j].data[i] < g[k].data[h]
  <2>1. j \in DOMAIN e /\ g[j] = e[j] /\ i \in DOMAIN e[j].data
    BY <1>2
  <2>2. /\ e[j].data[i] \in 1..n
        /\ \A h \in DOMAIN e[j].data : i < h => e[j].data[i] < e[j].data[h]
        /\ \A k \in DOMAIN e : \A h \in DOMAIN e[k].data : j < k => e[j].data[i] < e[k].data[h]
    BY <2>1, Zenon DEF InOrder
  <2>3. ASSUME NEW k \in DOMAIN g, NEW h \in DOMAIN g[k].data, j < k
        PROVE  g[j].data[i] < g[k].data[h]
    <3>1. k \in DOMAIN e /\ g[k] = e[k] /\ h \in DOMAIN e[k].data
      BY <1>2
    <3> QED BY <2>1, <2>2, <2>3, <3>1, Zenon
  <2> QED BY <2>1, <2>2, <2>3, Zenon
<1>5. ASSUME NEW b \in 1..n
      PROVE  \E j \in DOMAIN g : \E i \in DOMAIN g[j].data : g[j].data[i] = b
  <2>1. PICK j \in DOMAIN e : \E i \in DOMAIN e[j].data : e[j].data[i] = b
    BY Zenon DEF InOrder
  <2>2. j \in DOMAIN g /\ g[j] = e[j]
    BY <1>3
  <2> QED BY <2>1, <2>2, Zenon
<1> QED BY <1>4, <1>5, Zenon DEF InOrder

(* A payload frame takes the next k bytes.                                 *)
LEMMA PayloadInOrder ==
  ASSUME NEW e \in Seq(Frame), NEW g \in Seq(Frame), NEW n \in Nat, InOrder(e, n),
         Len(g) = Len(e) + 1, \A j \in 1..Len(e) : g[j] = e[j],
         NEW k \in Nat, g[Len(e) + 1].data = [i \in 1..k |-> n + i]
  PROVE  InOrder(g, n + k)
<1> DEFINE l == Len(e) + 1
           new == g[l].data
<1>1. DOMAIN e = 1..Len(e) /\ DOMAIN g = 1..l /\ Len(e) \in Nat /\ l \in Nat /\ l \notin DOMAIN e
      /\ l \in DOMAIN g
  OBVIOUS
<1>2. DOMAIN new = 1..k /\ \A i \in 1..k : new[i] = n + i
  OBVIOUS
<1>3. ASSUME NEW j \in DOMAIN g PROVE j = l \/ (j \in DOMAIN e /\ g[j] = e[j])
  <2>1. j \in 1..Len(e) \/ j = Len(e) + 1
    BY <1>1
  <2> QED BY <1>1, <2>1
<1>4. ASSUME NEW j \in DOMAIN e PROVE j \in DOMAIN g /\ g[j] = e[j]
  BY <1>1
<1>5. g[l].data = new
  OBVIOUS
<1> HIDE DEF new, l
<1>6. ASSUME NEW j \in DOMAIN e, NEW i \in DOMAIN e[j].data
      PROVE  /\ e[j].data[i] \in 1..n
             /\ \A h \in DOMAIN e[j].data : i < h => e[j].data[i] < e[j].data[h]
             /\ \A m \in DOMAIN e : \A h \in DOMAIN e[m].data : j < m => e[j].data[i] < e[m].data[h]
  BY DEF InOrder
<1>7. ASSUME NEW j \in DOMAIN g, NEW i \in DOMAIN g[j].data
      PROVE  /\ g[j].data[i] \in 1..n + k
             /\ \A h \in DOMAIN g[j].data : i < h => g[j].data[i] < g[j].data[h]
             /\ \A m \in DOMAIN g : \A h \in DOMAIN g[m].data : j < m => g[j].data[i] < g[m].data[h]
  <2>1. CASE j = l
    <3>1. i \in 1..k /\ g[j].data[i] = n + i
      BY <1>2, <1>5, <2>1
    <3>2. \A h \in DOMAIN g[j].data : h \in 1..k /\ g[j].data[h] = n + h
      BY <1>2, <1>5, <2>1
    <3>3. \A m \in DOMAIN g : ~(j < m)
      BY <1>1, <2>1
    <3> QED BY <3>1, <3>2, <3>3
  <2>2. CASE j \in DOMAIN e /\ g[j] = e[j]
    <3>1. i \in DOMAIN e[j].data /\ e[j].data[i] \in 1..n
      BY <1>6, <2>2
    <3>2. \A h \in DOMAIN g[j].data : i < h => g[j].data[i] < g[j].data[h]
      BY <1>6, <2>2
    <3>3. ASSUME NEW m \in DOMAIN g, NEW h \in DOMAIN g[m].data, j < m
          PROVE  g[j].data[i] < g[m].data[h]
      <4>1. CASE m = l
        <5>1. h \in 1..k /\ g[m].data[h] = n + h
          BY <1>2, <1>5, <4>1
        <5> QED BY <2>2, <3>1, <5>1
      <4>2. CASE m \in DOMAIN e /\ g[m] = e[m]
        BY <1>6, <2>2, <3>1, <3>3, <4>2
      <4> QED BY <1>3, <4>1, <4>2
    <3> QED BY <2>2, <3>1, <3>2, <3>3
  <2> QED BY <1>3, <2>1, <2>2
<1>8. ASSUME NEW b \in 1..n + k
      PROVE  \E j \in DOMAIN g : \E i \in DOMAIN g[j].data : g[j].data[i] = b
  <2>1. CASE b <= n
    <3>1. b \in 1..n
      BY <2>1
    <3>2. PICK j \in DOMAIN e : \E i \in DOMAIN e[j].data : e[j].data[i] = b
      BY <3>1, Zenon DEF InOrder
    <3>3. j \in DOMAIN g /\ g[j] = e[j]
      BY <1>4
    <3> QED BY <3>2, <3>3, Zenon
  <2>2. CASE ~(b <= n)
    <3>1. b - n \in 1..k /\ n + (b - n) = b
      BY <2>2
    <3>2. b - n \in DOMAIN g[l].data /\ g[l].data[b - n] = n + (b - n)
      BY <1>2, <1>5, <3>1
    <3>3. l \in DOMAIN g
      BY <1>1
    <3> QED BY <3>1, <3>2, <3>3, Zenon
  <2> QED BY <2>1, <2>2
<1> QED BY <1>7, <1>8, Zenon DEF InOrder

(* Encoding padding alone.                                                 *)
LEMMA PadsInOrder ==
  ASSUME Types, NEW n \in Nat, InOrder(enc, n), NEW b \in Nat, NEW t \in 0..Segment,
         Encode(PadBurst(b, t))
  PROVE  InOrder(enc', n)
<1> DEFINE fs == PadBurst(b, t)
           k == IF Len(fs) < Room THEN Len(fs) ELSE Room
<1>1. fs \in Seq(Frame) /\ \A j \in 1..Len(fs) : fs[j].data = <<>>
  BY PadCosts, PadIsEmpty
<1>2. Encode(fs) /\ enc \in Seq(Frame) /\ Len(enc) \in Nat
  BY DEF Types
<1> HIDE DEF fs
<1>3. k = IF Len(fs) < Room THEN Len(fs) ELSE Room
  OBVIOUS
<1> HIDE DEF k
<1>4. /\ k \in Nat /\ k <= Len(fs) /\ enc' \in Seq(Frame) /\ Len(enc') = Len(enc) + k
      /\ \A j \in 1..Len(enc) : enc'[j] = enc[j]
      /\ \A j \in 1..k : enc'[Len(enc) + j] = fs[j]
  BY <1>1, <1>2, <1>3, EncodeAdds
<1>5. Len(fs) \in Nat
  BY <1>1
<1>6. ASSUME NEW j \in Len(enc) + 1..Len(enc') PROVE enc'[j].data = <<>>
  <2> DEFINE i == j - Len(enc)
  <2>1. i \in 1..k /\ i \in 1..Len(fs) /\ Len(enc) + i = j
    BY <1>2, <1>4, <1>5
  <2> HIDE DEF i
  <2>2. enc'[Len(enc) + i] = fs[i] /\ fs[i].data = <<>>
    BY <1>1, <1>4, <2>1
  <2> QED BY <2>1, <2>2
<1>7. Len(enc') >= Len(enc)
  BY <1>2, <1>4
<1> QED BY <1>2, <1>4, <1>6, <1>7, PaddingInOrder

(* Encoding a payload frame and padding behind it.                         *)
LEMMA PayloadsInOrder ==
  ASSUME Types, NEW n \in Nat, InOrder(enc, n), NEW len \in Nat, NEW fs \in Seq(Frame),
         Len(fs) >= 1, fs[1].data = [i \in 1..len |-> n + i],
         \A j \in 2..Len(fs) : fs[j].data = <<>>, Encode(fs)
  PROVE  InOrder(enc', IF Room = 0 THEN n ELSE n + len)
<1> DEFINE k == IF Len(fs) < Room THEN Len(fs) ELSE Room
<1>1. k = IF Len(fs) < Room THEN Len(fs) ELSE Room
  OBVIOUS
<1>2. enc \in Seq(Frame) /\ Len(enc) \in Nat /\ Len(fs) \in Nat /\ Room \in Nat
  BY WriterConstants DEF Types, Room
<1>3. Room = 0 <=> k = 0
  BY <1>2
<1> HIDE DEF k
<1>4. /\ k \in Nat /\ k <= Len(fs) /\ enc' \in Seq(Frame) /\ Len(enc') = Len(enc) + k
      /\ \A j \in 1..Len(enc) : enc'[j] = enc[j]
      /\ \A j \in 1..k : enc'[Len(enc) + j] = fs[j]
  BY <1>1, EncodeAdds
<1>5. CASE k = 0
  <2>1. Len(enc') = Len(enc)
    BY <1>2, <1>4, <1>5
  <2>2. Len(enc') >= Len(enc) /\ Len(enc) + 1..Len(enc') = {}
    BY <1>2, <2>1
  <2>3. InOrder(enc', n)
    BY <1>2, <1>4, <2>2, PaddingInOrder
  <2> QED BY <1>3, <1>5, <2>3
<1>6. CASE k # 0
  <2> DEFINE mid == SubSeq(enc', 1, Len(enc) + 1)
  <2>1. Len(enc) + 1 \in 1..Len(enc') /\ Len(enc') \in Nat
    BY <1>2, <1>4, <1>6
  <2>2. mid \in Seq(Frame) /\ Len(mid) = Len(enc) + 1
    BY <1>2, <1>4, <2>1
  <2>3. \A j \in 1..Len(enc) + 1 : mid[j] = enc'[j]
    BY <1>2, <1>4, <2>1
  <2> HIDE DEF mid
  <2>4. \A j \in 1..Len(enc) : mid[j] = enc[j]
    BY <1>2, <1>4, <2>3
  <2>5. mid[Len(enc) + 1].data = [i \in 1..len |-> n + i]
    <3>1. 1 \in 1..k /\ Len(enc) + 1 \in 1..Len(enc) + 1
      BY <1>2, <1>4, <1>6
    <3>2. mid[Len(enc) + 1] = fs[1]
      BY <1>4, <2>3, <3>1
    <3> QED BY <3>2
  <2>6. InOrder(mid, n + len)
    BY <1>2, <2>2, <2>4, <2>5, PayloadInOrder
  <2>7. ASSUME NEW j \in Len(mid) + 1..Len(enc') PROVE enc'[j].data = <<>>
    <3> DEFINE i == j - Len(enc)
    <3>1. i \in 1..k /\ i \in 2..Len(fs) /\ Len(enc) + i = j
      BY <1>2, <1>4, <2>1, <2>2
    <3> HIDE DEF i
    <3>2. enc'[Len(enc) + i] = fs[i] /\ fs[i].data = <<>>
      BY <1>4, <3>1
    <3> QED BY <3>1, <3>2
  <2>8. Len(enc') >= Len(mid) /\ n + len \in Nat /\ \A j \in 1..Len(mid) : enc'[j] = mid[j]
    BY <2>1, <2>2, <2>3
  <2>9. InOrder(enc', n + len)
    BY <1>4, <2>2, <2>6, <2>7, <2>8, PaddingInOrder
  <2> QED BY <1>3, <1>6, <2>9
<1> QED BY <1>5, <1>6

(* A call that returns the n bytes now encoded.                            *)
LEMMA ReturnCounts ==
  ASSUME NEW n, wr' = NoCall, accepted' \in Nat, accepted' = n, InOrder(enc', n)
  PROVE  ByteInv'
<1>1. wr'.sent = 0 /\ wr'.at = "-"
  BY NoCallIs
<1>2. PrefixInv'
  BY <1>1 DEF PrefixInv
<1>3. accepted' + wr'.sent = n
  BY <1>1
<1>4. AcceptedIsEncoded'
  BY <1>3 DEF AcceptedIsEncoded
<1> QED BY <1>2, <1>4 DEF ByteInv

(* A step that encodes nothing and takes nothing.                          *)
LEMMA NothingTaken ==
  ASSUME ByteInv, enc' = enc, accepted' = accepted, wr'.sent = wr.sent, PrefixInv'
  PROVE  ByteInv'
  BY DEF ByteInv, AcceptedIsEncoded

LEMMA CallDropped ==
  ASSUME Types, ByteInv, enc' = enc, accepted' = accepted, wr' = NoCall, wr.sent = 0
  PROVE  ByteInv'
<1>1. accepted \in Nat /\ accepted + wr.sent = accepted
  BY DEF Types
<1>2. InOrder(enc', accepted)
  BY <1>1 DEF ByteInv, AcceptedIsEncoded
<1> QED BY <1>1, <1>2, ReturnCounts

LEMMA CallOnward ==
  ASSUME Types, ByteInv, enc' = enc, accepted' = accepted, NEW at, NEW wake,
         wr' = [wr EXCEPT !.at = at] \/ wr' = [wr EXCEPT !.at = at, !.wake = wake],
         wr.sent > 0 => at # "parked",
         at \in {"ready", "send"} => wr.op = "write", at = "close" => wr.op # "write"
  PROVE  ByteInv'
<1>1. wr'.sent = wr.sent /\ wr'.at = at /\ wr'.op = wr.op
  BY CallGoesOn DEF Types
<1>2. PrefixInv'
  BY <1>1 DEF PrefixInv, ByteInv
<1> QED BY <1>1, <1>2, NothingTaken

LEMMA FailsCounts ==
  ASSUME Types, ByteInv, Fails, InOrder(enc', accepted + wr.sent)
  PROVE  ByteInv'
<1>1. wr' = NoCall /\ accepted' = accepted + wr.sent /\ accepted' \in Nat
  BY DEF Fails, Return, Types
<1> QED BY <1>1, ReturnCounts

LEMMA PendsCounts ==
  ASSUME Types, ByteInv, NEW waker, Pends(waker)
  PROVE  ByteInv'
<1>1. wr.sent \in Nat /\ wr.burst \in Nat /\ accepted + wr.sent \in Nat
  BY DEF Types
<1>2. InOrder(enc, accepted + wr.sent)
  BY DEF ByteInv, AcceptedIsEncoded
<1>3. CASE wr.sent > 0
  <2>1. BackOff
    BY <1>3 DEF Pends
  <2>2. wr' = NoCall /\ accepted' = accepted + wr.sent
    BY <2>1 DEF BackOff, Return
  <2>3. InOrder(enc', accepted + wr.sent)
    <3>1. CASE mode = "paranoid"
      BY <1>2, <2>1, <3>1 DEF BackOff
    <3>2. CASE mode # "paranoid"
      <4>1. PICK t \in Lengths : Encode(PadBurst(wr.burst, t))
        BY <2>1, <3>2 DEF BackOff
      <4>2. t \in 0..Segment
        BY WriterConstants
      <4> QED BY <1>1, <1>2, <4>1, <4>2, PadsInOrder
    <3> QED BY <3>1, <3>2
  <2> QED BY <1>1, <2>2, <2>3, ReturnCounts
<1>4. CASE ~(wr.sent > 0)
  <2>1. wr' = [wr EXCEPT !.at = "parked", !.wake = waker] /\ UNCHANGED <<enc, accepted>>
    BY <1>4 DEF Pends
  <2> DEFINE at == "parked"
  <2>2. wr' = [wr EXCEPT !.at = at, !.wake = waker] /\ at \notin {"ready", "send"} /\ at # "close"
    BY <2>1
  <2> HIDE DEF at
  <2> QED BY <1>4, <2>1, <2>2, CallOnward
<1> QED BY <1>3, <1>4

LEMMA CallCounts ==
  ASSUME Types, ByteInv, NEW op, NEW at, NEW n, wr.op = "none", wr' = Call(op, at, n),
         at \in {"ready", "send"} => op = "write", at # "close",
         UNCHANGED <<enc, accepted>>
  PROVE  ByteInv'
<1>1. wr.sent \in Nat
  BY DEF Types
<1>2. wr.sent = 0
  BY <1>1 DEF ByteInv, PrefixInv
<1>3. wr'.sent = 0 /\ wr'.at = at /\ wr'.op = op
  BY CallIs
<1>4. PrefixInv'
  BY <1>3 DEF PrefixInv
<1> QED BY <1>2, <1>3, <1>4, NothingTaken

LEMMA SendChunkCounts == ASSUME Types, ByteInv, SendChunk PROVE ByteInv'
<1> DEFINE n == accepted + wr.sent
           fs == NextPayload(MaxPayload)
<1>1. n \in Nat /\ MaxPayload \in Nat /\ Segment \in Nat /\ wr.op = "write" /\ accepted \in Nat
      /\ wr.sent \in Nat
  BY Sizes DEF SendChunk, Types, ByteInv, PrefixInv
<1>2. InOrder(enc, n) /\ Encode(fs)
  BY DEF ByteInv, AcceptedIsEncoded, SendChunk
<1>3. fs \in Seq(Frame) /\ Len(fs) = 1
  BY <1>1, NextPayloadCosts
<1>4. fs[1].data = [i \in 1..MaxPayload |-> n + i]
  BY DEF NextPayload, Payload
<1> HIDE DEF fs, n
<1>5. \A j \in 2..Len(fs) : fs[j].data = <<>>
  BY <1>3
<1>6. Len(fs) >= 1
  BY <1>3
<1>7. InOrder(enc', IF Room = 0 THEN n ELSE n + MaxPayload)
  BY <1>1, <1>2, <1>3, <1>4, <1>5, <1>6, PayloadsInOrder
<1>8. CASE Room = 0
  <2>1. Fails
    BY <1>8 DEF SendChunk
  <2> QED BY <1>7, <1>8, <2>1, FailsCounts DEF n
<1>9. CASE Room # 0
  <2>1. /\ wr' = [wr EXCEPT !.at = "ready", !.sent = @ + MaxPayload, !.burst = @ + Segment]
        /\ accepted' = accepted
    BY <1>9 DEF SendChunk
  <2>2. IsCall
    BY DEF Types
  <2>3. wr'.sent = wr.sent + MaxPayload /\ wr'.at = "ready" /\ wr'.op = wr.op
    BY <2>1, <2>2 DEF IsCall
  <2>4. PrefixInv'
    BY <1>1, <2>3 DEF PrefixInv
  <2>5. accepted' + wr'.sent = n + MaxPayload
    BY <1>1, <2>1, <2>3 DEF n
  <2>6. AcceptedIsEncoded'
    BY <1>7, <1>9, <2>5 DEF AcceptedIsEncoded
  <2> QED BY <2>4, <2>6 DEF ByteInv
<1> QED BY <1>8, <1>9

LEMMA SendLastCounts == ASSUME Types, ByteInv, SendLast PROVE ByteInv'
<1> DEFINE n == accepted + wr.sent
           len == wr.len - wr.sent
           p == NextPayload(len)
<1>1. /\ n \in Nat /\ len \in Nat /\ accepted \in Nat /\ wr.len \in Nat /\ wr.sent \in Nat
      /\ n + len = accepted + wr.len /\ wr.burst + Header + len \in Nat
  <2>1. accepted \in Nat /\ wr.len \in Nat /\ wr.sent \in 0..wr.len /\ wr.burst \in Nat
    BY DEF Types
  <2> QED BY <2>1, Sizes
<1>2. InOrder(enc, n)
  BY DEF ByteInv, AcceptedIsEncoded
<1>3. p \in Seq(Frame) /\ Len(p) = 1
  BY <1>1, NextPayloadCosts
<1>4. p[1].data = [i \in 1..len |-> n + i]
  BY DEF NextPayload, Payload
<1>5. PICK t \in Lengths :
         LET fs == IF mode = "paranoid" THEN p ELSE p \o PadBurst(wr.burst + Header + len, t)
         IN  Encode(fs) /\ IF Room = 0 THEN Fails ELSE Return(wr.len) /\ term' = (Room < Len(fs))
  BY DEF SendLast
<1>6. t \in 0..Segment
  BY WriterConstants
<1> DEFINE q == PadBurst(wr.burst + Header + len, t)
           fs == IF mode = "paranoid" THEN p ELSE p \o q
<1>7. Encode(fs) /\ (Room = 0 => Fails) /\ (Room # 0 => Return(wr.len))
  BY <1>5
<1>8. q \in Seq(Frame) /\ \A j \in 1..Len(q) : q[j].data = <<>>
  BY <1>1, <1>6, PadCosts, PadIsEmpty
<1> HIDE DEF p, q
<1>9. /\ fs \in Seq(Frame) /\ Len(fs) >= 1 /\ fs[1] = p[1]
      /\ \A j \in 2..Len(fs) : fs[j].data = <<>>
  <2>1. CASE mode = "paranoid"
    <3>1. fs = p
      BY <2>1
    <3> HIDE DEF fs
    <3> QED BY <1>3, <3>1
  <2>2. CASE mode # "paranoid"
    <3>1. fs = p \o q
      BY <2>2
    <3>2. /\ Len(p \o q) = Len(p) + Len(q) /\ p \o q \in Seq(Frame)
          /\ \A i \in 1..Len(p) + Len(q) :
                (p \o q)[i] = IF i <= Len(p) THEN p[i] ELSE q[i - Len(p)]
      BY <1>3, <1>8, Concat, Zenon
    <3> HIDE DEF fs
    <3>3. Len(q) \in Nat /\ Len(fs) = 1 + Len(q) /\ fs \in Seq(Frame) /\ fs[1] = p[1]
      BY <1>3, <1>8, <3>1, <3>2
    <3>4. ASSUME NEW j \in 2..Len(fs) PROVE fs[j].data = <<>>
      <4>1. j - 1 \in 1..Len(q) /\ ~(j <= Len(p)) /\ j \in 1..Len(p) + Len(q) /\ j - Len(p) = j - 1
        BY <1>3, <3>3
      <4>2. fs[j] = q[j - 1]
        BY <3>1, <3>2, <4>1
      <4> QED BY <1>8, <4>1, <4>2
    <3> QED BY <3>3, <3>4
  <2> QED BY <2>1, <2>2
<1> HIDE DEF fs, n, len
<1>10. fs[1].data = [i \in 1..len |-> n + i]
  BY <1>4, <1>9
<1>11. InOrder(enc', IF Room = 0 THEN n ELSE n + len)
  BY <1>1, <1>2, <1>7, <1>9, <1>10, PayloadsInOrder
<1>12. CASE Room = 0
  BY <1>7, <1>11, <1>12, FailsCounts DEF n
<1>13. CASE Room # 0
  <2>1. wr' = NoCall /\ accepted' = n + len
    BY <1>1, <1>7, <1>13 DEF Return
  <2> QED BY <1>1, <1>11, <1>13, <2>1, ReturnCounts
<1> QED BY <1>12, <1>13

LEMMA ScheduleCounts == ASSUME Types, ByteInv, NEW t \in Lengths, Schedule(t) PROVE ByteInv'
<1> DEFINE n == accepted + wr.sent
<1>1. n \in Nat /\ Len(wbuf) \in Nat /\ Clamp(t) \in 0..Segment
  BY ClampType, Sizes DEF Types
<1>2. InOrder(enc, n)
  BY DEF ByteInv, AcceptedIsEncoded
<1>3. CASE mode = "enabled" \/ Len(wbuf) >= Clamp(t)
  <2>1. UNCHANGED <<enc, accepted, wr>>
    BY <1>3 DEF Schedule
  <2> QED BY <2>1 DEF ByteInv, PrefixInv, AcceptedIsEncoded
<1>4. CASE ~(mode = "enabled" \/ Len(wbuf) >= Clamp(t))
  <2> DEFINE fs == PadBurst(Len(wbuf), Clamp(t))
  <2>1. /\ Encode(fs)
        /\ \/ Fails
           \/ /\ wr' = [wr EXCEPT !.at = IF wr.op = "write" THEN "ready" ELSE "flush"]
              /\ accepted' = accepted
    BY <1>4 DEF Schedule
  <2>2. InOrder(enc', n)
    BY <1>1, <1>2, <2>1, PadsInOrder
  <2>3. CASE Fails
    BY <2>2, <2>3, FailsCounts
  <2>4. CASE /\ wr' = [wr EXCEPT !.at = IF wr.op = "write" THEN "ready" ELSE "flush"]
             /\ accepted' = accepted
    <3>1. /\ wr'.sent = wr.sent /\ wr'.op = wr.op
          /\ wr'.at = IF wr.op = "write" THEN "ready" ELSE "flush"
      BY <2>4, CallGoesOn DEF Types
    <3>2. PrefixInv'
      BY <3>1 DEF ByteInv, PrefixInv
    <3>3. AcceptedIsEncoded'
      BY <2>2, <2>4, <3>1 DEF AcceptedIsEncoded
    <3> QED BY <3>2, <3>3 DEF ByteInv
  <2> QED BY <2>1, <2>3, <2>4
<1> QED BY <1>3, <1>4

LEMMA BytesInit == ASSUME WriterInit PROVE ByteInv
<1>1. wr.sent = 0 /\ wr.at = "-" /\ accepted = 0 /\ enc = <<Seed>> /\ Seed.data = <<>>
  BY DEF WriterInit, NoCall, Seed
<1>2. DOMAIN enc = {1} /\ enc[1] = Seed /\ DOMAIN <<>> = {}
  BY <1>1
<1>3. InOrder(enc, 0)
  <2>1. 1..0 = {}
    OBVIOUS
  <2> QED BY <1>1, <1>2, <2>1 DEF InOrder
<1>4. accepted + wr.sent = 0
  BY <1>1
<1> QED BY <1>1, <1>3, <1>4 DEF ByteInv, PrefixInv, AcceptedIsEncoded

LEMMA BytesStep ==
  ASSUME Types, ByteInv, WriterNext \/ PeerReads
  PROVE  ByteInv'
<1>1. ASSUME NEW n \in 1..MaxBytes, WriteCall(n) PROVE ByteInv'
  <2>1. wr.op = "none" /\ wr' = Call("write", "ready", n) /\ UNCHANGED <<enc, accepted>>
    BY <1>1 DEF WriteCall
  <2> QED BY <2>1, CallCounts
<1>2. ASSUME FlushCall PROVE ByteInv'
  <2>1. wr.op = "none" /\ wr' = Call("flush", "flush", 0) /\ UNCHANGED <<enc, accepted>>
    BY <1>2 DEF FlushCall
  <2> QED BY <2>1, CallCounts
<1>3. ASSUME ShutdownCall PROVE ByteInv'
  <2>1. wr.op = "none" /\ wr' = Call("shutdown", "flush", 0) /\ UNCHANGED <<enc, accepted>>
    BY <1>3 DEF ShutdownCall
  <2> QED BY <2>1, CallCounts
<1>4. ASSUME PollReady PROVE ByteInv'
  <2> DEFINE at == IF Len(wbuf) < Boundary THEN "send" ELSE "flush"
  <2>1. wr' = [wr EXCEPT !.at = at] /\ UNCHANGED <<enc, accepted>>
    BY <1>4 DEF PollReady
  <2>2. at # "parked" /\ at # "close" /\ wr.op = "write"
    BY <1>4 DEF PollReady, ByteInv, PrefixInv
  <2> HIDE DEF at
  <2> QED BY <2>1, <2>2, CallOnward
<1>5. ASSUME DelayPends \/ InnerPends \/ InnerInterrupted PROVE ByteInv'
  BY <1>5, PendsCounts DEF DelayPends, InnerPends, InnerInterrupted
<1>6. ASSUME InnerFails PROVE ByteInv'
  <2>1. Fails /\ enc' = enc
    BY <1>6 DEF InnerFails
  <2>2. InOrder(enc', accepted + wr.sent)
    BY <2>1 DEF ByteInv, AcceptedIsEncoded
  <2> QED BY <2>1, <2>2, FailsCounts
<1>7. ASSUME BufferOut PROVE ByteInv'
  <2>1. UNCHANGED <<enc, accepted>> /\ wr.at = "flush" /\ wr.sent \in Nat
    BY <1>7 DEF BufferOut, Connected, Flushing, Types
  <2>2. CASE wr.op = "write"
    <3> DEFINE at == "send"
    <3>1. wr' = [wr EXCEPT !.at = at] /\ at # "parked" /\ at # "close"
      BY <1>7, <2>2 DEF BufferOut
    <3> HIDE DEF at
    <3> QED BY <2>1, <2>2, <3>1, CallOnward
  <2>3. CASE wr.op = "flush"
    <3>1. wr' = NoCall
      BY <1>7, <2>3 DEF BufferOut
    <3>2. wr.sent = 0
      BY <2>1, <2>3 DEF ByteInv, PrefixInv
    <3> QED BY <2>1, <3>1, <3>2, CallDropped
  <2>4. CASE wr.op # "write" /\ wr.op # "flush"
    <3> DEFINE at == "close"
    <3>1. wr' = [wr EXCEPT !.at = at] /\ at # "parked" /\ at \notin {"ready", "send"}
      BY <1>7, <2>4 DEF BufferOut
    <3> HIDE DEF at
    <3> QED BY <2>1, <2>4, <3>1, CallOnward
  <2> QED BY <2>2, <2>3, <2>4
<1>8. ASSUME InnerClose \/ Abandon PROVE ByteInv'
  <2>1. wr' = NoCall /\ UNCHANGED <<enc, accepted>> /\ wr.at \in {"close", "parked"}
    BY <1>8 DEF InnerClose, Abandon
  <2>2. wr.sent = 0
    BY <2>1 DEF Types, ByteInv, PrefixInv
  <2> QED BY <2>1, <2>2, CallDropped
<1>9. ASSUME Repoll PROVE ByteInv'
  <2> DEFINE at == IF wr.op = "write" THEN "ready" ELSE "flush"
  <2>1. wr' = [wr EXCEPT !.at = at, !.wake = "-"] /\ UNCHANGED <<enc, accepted>>
    BY <1>9 DEF Repoll
  <2>2. at # "parked" /\ at # "close" /\ (at \in {"ready", "send"} => wr.op = "write")
    OBVIOUS
  <2> HIDE DEF at
  <2> QED BY <2>1, <2>2, CallOnward
<1>10. ASSUME UNCHANGED <<enc, accepted, wr>> PROVE ByteInv'
  BY <1>10 DEF ByteInv, PrefixInv, AcceptedIsEncoded
<1>11. ASSUME DelayOver \/ (\E k \in 1..WireCap : InnerWrite(k)) \/ TimerElapses \/ Cut \/ PeerReads
       PROVE  UNCHANGED <<enc, accepted, wr>>
  BY <1>11 DEF DelayOver, InnerWrite, TimerElapses, Cut, PeerReads, wrVars
<1> QED
  BY <1>1, <1>2, <1>3, <1>4, <1>5, <1>6, <1>7, <1>8, <1>9, <1>10, <1>11,
     SendChunkCounts, SendLastCounts, ScheduleCounts DEF WriterNext, WriterSteps

(* What poll_write reports as written is what the codec has encoded, every *)
(* byte once and in order: across Pending, Interrupted, a partial write of *)
(* several frames, padding, the end of the nonces and a lost connection.   *)
THEOREM BytesInOrder == WriterSpec => []AcceptedIsEncoded
<1>1. WriterInit => ByteInv
  BY BytesInit
<1>2. IInv /\ ByteInv /\ [WriterNext \/ PeerReads]_<<wrVars, netVars>> => ByteInv'
  <2>1. ASSUME IInv, ByteInv, UNCHANGED <<wrVars, netVars>> PROVE ByteInv'
    BY <2>1 DEF wrVars, ByteInv, PrefixInv, AcceptedIsEncoded
  <2> QED BY <2>1, BytesStep DEF IInv
<1>3. ByteInv => AcceptedIsEncoded
  BY DEF ByteInv
<1> QED BY <1>1, <1>2, <1>3, InvHolds, PTL DEF WriterSpec

-----------------------------------------------------------------------------
(***************************************************************************)
(* The tunnel.                                                             *)
(***************************************************************************)
TunnelInv ==
    /\ IInv /\ ByteInv /\ FramesPlain /\ CloseInv /\ BufInv
    /\ ReaderTypes /\ StageInv /\ GotInv /\ WholeInv

LEMMA InitLaid ==
  ASSUME TunnelInit
  PROVE  \E off : /\ Rest(enc, wbuf, off, Header + 1)
                  /\ OnItsWay(enc, off, 0, rbuf, wire, wbuf) /\ off[1] = 0
<1> DEFINE h == Header + 1
           off == [j \in 1..2 |-> IF j = 1 THEN 0 ELSE h]
<1>1. /\ enc = <<Seed>> /\ wbuf = <<>> /\ wire = Units(1, Seed) /\ rbuf = <<>>
  BY DEF TunnelInit, WriterInit
<1>2. Header \in Nat /\ h \in Nat /\ h = Header + Seed.size
  BY Sizes DEF Seed
<1>3. Len(enc) = 1 /\ enc[1] = Seed /\ Len(wbuf) = 0 /\ Len(rbuf) = 0
  BY <1>1
<1>4. Seed \in Frame
  BY DEF Seed, Frame
<1>5. Len(wire) = h /\ \A k \in 1..h : wire[k] = [n |-> 1, i |-> k]
  BY <1>1, <1>2, <1>4, UnitsType DEF Units
<1> HIDE DEF h
<1>6. off \in [1..2 -> Nat] /\ off[1] = 0 /\ off[2] = h
  BY <1>2
<1> HIDE DEF off
<1>7. Laid(enc, off)
  <2>1. off[1 + 1] = off[1] + Header + enc[1].size
    BY <1>2, <1>3, <1>6
  <2>2. \A i, j \in 1..2 : i <= j => off[i] <= off[j]
    BY <1>2, <1>6
  <2> QED BY <1>3, <1>6, <2>1, <2>2 DEF Laid
<1>8. Placed(wire, enc, off, 0)
  <2>1. SUFFICES ASSUME NEW k \in 1..h PROVE At(wire[k], enc, off, 0 + k)
    BY <1>5 DEF Placed
  <2>2. wire[k].n = 1 /\ wire[k].i = k
    BY <1>5
  <2>3. enc[1].size = Seed.size
    BY <1>3
  <2> QED BY <1>2, <1>3, <1>6, <2>2, <2>3 DEF At
<1>9. Placed(wbuf, enc, off, h) /\ Placed(rbuf, enc, off, 0)
  BY <1>3 DEF Placed
<1>10. Rest(enc, wbuf, off, h)
  BY <1>2, <1>3, <1>6, <1>7, <1>9 DEF Rest
<1>11. OnItsWay(enc, off, 0, rbuf, wire, wbuf)
  BY <1>2, <1>3, <1>5, <1>6, <1>7, <1>8, <1>9 DEF OnItsWay
<1> QED BY <1>6, <1>10, <1>11 DEF h

LEMMA TunnelInitHolds == ASSUME TunnelInit PROVE TunnelInv
<1>1. WriterInit
  BY DEF TunnelInit
<1>2. IInv /\ ByteInv
  BY <1>1, InitHolds, BytesInit
<1>3. /\ enc = <<Seed>> /\ wbuf = <<>> /\ wr = NoCall /\ down = FALSE /\ fin = FALSE /\ cut = FALSE
      /\ wire = Units(1, Seed) /\ accepted = 0
      /\ rd = [st |-> "hello", cap |-> 0, readable |-> FALSE, eof |-> FALSE, errored |-> FALSE]
      /\ rbuf = <<>> /\ ctr = 1 /\ nlen = 0 /\ resid = <<>> /\ got = <<>>
      /\ ended = FALSE /\ damaged = FALSE
  BY DEF TunnelInit, WriterInit
<1>4. Len(enc) = 1 /\ enc[1] = Seed /\ Seed.data = <<>> /\ Len(Seed.data) = 0 /\ Seed \in Frame
  BY <1>3 DEF Seed, Frame
<1>5. FramesPlain
  BY <1>4 DEF FramesPlain, Plain
<1>6. CloseInv
  BY <1>3 DEF CloseInv, NoCall
<1>7. PICK off : /\ Rest(enc, wbuf, off, Header + 1)
                 /\ OnItsWay(enc, off, 0, rbuf, wire, wbuf) /\ off[1] = 0
  BY InitLaid
<1>8. BufInv
  <2>1. Header + 1 \in Nat
    BY Sizes
  <2> QED BY <1>7, <2>1 DEF BufInv
<1>9. ReaderTypes
  <2>1. wire \in Seq(Unit)
    BY <1>3, <1>4, UnitsType
  <2>2. \A k \in 1..Len(wire) : wire[k].n <= Len(enc)
    <3>1. \A k \in 1..Header + Seed.size : wire[k].n = 1
      BY <1>3 DEF Units
    <3>2. Len(wire) = Header + Seed.size
      BY <1>3, <1>4, UnitsType
    <3> QED BY <1>4, <3>1, <3>2
  <2>3. Known(wire) /\ Known(rbuf)
    BY <1>3, <2>1, <2>2 DEF Known
  <2>4. IsReader /\ rd.cap = 0 /\ rd.readable = FALSE /\ rd.eof = FALSE /\ rd.errored = FALSE
    BY <1>3 DEF IsReader
  <2>5. rd.cap \in Nat /\ ctr \in Nat \ {0} /\ nlen \in Nat /\ ~(nlen > 0)
    BY <1>3, <2>4
  <2>6. resid \in Seq(Nat) /\ got \in Seq(Nat)
    BY <1>3
  <2>7. /\ rd.readable \in BOOLEAN /\ rd.eof \in BOOLEAN /\ rd.errored \in BOOLEAN
        /\ ended \in BOOLEAN /\ damaged \in BOOLEAN
    BY <1>3, <2>4
  <2> QED BY <2>3, <2>4, <2>5, <2>6, <2>7, Zenon DEF ReaderTypes
<1>10. StageInv
  BY <1>3 DEF StageInv
<1>11. Place = 1 /\ Had = 0 /\ Taken(off) = 0
  <2>1. Place = 1
    BY <1>3 DEF Place
  <2> QED BY <1>3, <1>7, <2>1 DEF Had, Taken
<1>12. GotInv
  <2>1. accepted + wr.sent = 0
    BY <1>3 DEF NoCall
  <2>2. \A j \in 1..Len(enc) : Len(enc[j].data) = 0
    BY <1>4
  <2> QED BY <1>3, <1>4, <1>11, <2>1, <2>2 DEF GotInv
<1>13. WholeInv
  <2>1. rd.st = "hello" /\ ~rd.errored /\ ~rd.eof
    BY <1>3
  <2>2. \E o : OnItsWay(enc, o, Taken(o), rbuf, wire, wbuf)
    BY <1>7, <1>11
  <2> QED BY <1>3, <1>4, <1>11, <2>1, <2>2 DEF WholeInv
<1> QED BY <1>2, <1>5, <1>6, <1>8, <1>9, <1>10, <1>12, <1>13 DEF TunnelInv

LEMMA TunnelStep ==
  ASSUME TunnelInv, [(WriterNext /\ UNCHANGED rdVars) \/ ReaderSteps \/ Damage]_TunnelVars
  PROVE  TunnelInv'
<1>1. /\ IInv /\ ByteInv /\ FramesPlain /\ CloseInv /\ BufInv
      /\ ReaderTypes /\ StageInv /\ GotInv /\ WholeInv /\ Types
  BY DEF TunnelInv, IInv
<1>2. CASE WriterNext /\ UNCHANGED rdVars
  <2>1. IInv' /\ ByteInv' /\ Types'
    BY <1>1, <1>2, StepKeeps, BytesStep DEF IInv
  <2>2. FramesPlain' /\ CloseInv' /\ BufInv'
    BY <1>1, <1>2, FramesStayPlain, CloseKept, BufKept
  <2>3. ReaderTypes'
    BY <1>1, <1>2, WriterReaderTypes
  <2>4. StageInv'
    BY <1>1, <1>2 DEF StageInv, rdVars
  <2>5. GotInv' /\ WholeInv'
    BY <1>1, <1>2, <2>1, WriterGot, WriterWhole
  <2> QED BY <2>1, <2>2, <2>3, <2>4, <2>5 DEF TunnelInv
<1>3. ASSUME UNCHANGED wrVars, UNCHANGED <<fin, cut>>
      PROVE  IInv' /\ ByteInv' /\ FramesPlain' /\ CloseInv' /\ BufInv'
  <2>1. UNCHANGED <<enc, wbuf, wr, accepted, down>>
    BY <1>3 DEF wrVars
  <2>2. IInv'
    BY <1>1, <1>3, WriterIdle
  <2>3. ByteInv'
    BY <1>1, <2>1 DEF ByteInv, PrefixInv, AcceptedIsEncoded
  <2>4. FramesPlain'
    BY <1>1, <2>1 DEF FramesPlain
  <2>5. CloseInv'
    BY <1>1, <1>3, <2>1 DEF CloseInv, NoCall
  <2>6. BufInv'
    BY <1>1, <2>1 DEF BufInv
  <2> QED BY <2>2, <2>3, <2>4, <2>5, <2>6
<1>4. CASE ReaderSteps \/ Damage
  <2>1. IInv' /\ ByteInv' /\ FramesPlain' /\ CloseInv' /\ BufInv'
    BY <1>3, <1>4, ReaderKeepsWriter
  <2>2. ReaderTypes' /\ StageInv' /\ GotInv' /\ WholeInv'
    BY <1>1, <1>4, ReaderKeepsTypes, ReaderGot, ReaderWhole
  <2> QED BY <2>1, <2>2 DEF TunnelInv
<1>5. CASE UNCHANGED TunnelVars
  <2>1. UNCHANGED wrVars /\ UNCHANGED <<wire, fin, cut>> /\ UNCHANGED <<enc, wbuf, accepted, wr>>
        /\ UNCHANGED <<rd, rbuf, ctr, nlen, resid, got, ended, damaged>>
    BY <1>5 DEF TunnelVars, wrVars, netVars, rdVars
  <2>2. IInv' /\ ByteInv' /\ FramesPlain' /\ CloseInv' /\ BufInv'
    BY <1>3, <2>1
  <2>3. ReaderTypes' /\ StageInv'
    BY <1>1, <2>1 DEF ReaderTypes, IsReader, Known, StageInv
  <2>4. GotInv'
    BY <1>1, <2>1, GotSame DEF Alive, Place
  <2>5. WholeInv'
    BY <1>1, <2>1, WholeFacts, WholeSame DEF Whole
  <2> QED BY <2>2, <2>3, <2>4, <2>5 DEF TunnelInv
<1> QED BY <1>2, <1>4, <1>5

LEMMA TunnelInvHolds == TunnelSpec => []TunnelInv
<1>1. TunnelInit => TunnelInv
  BY TunnelInitHolds
<1>2. TunnelInv /\ [(WriterNext /\ UNCHANGED rdVars) \/ ReaderSteps \/ Damage]_TunnelVars => TunnelInv'
  BY TunnelStep
<1> QED BY <1>1, <1>2, PTL DEF TunnelSpec

-----------------------------------------------------------------------------
(* Every step of the tunnel is one of the byte stream, or none.            *)
LEMMA WriterRefines ==
  ASSUME TunnelInv, TunnelInv', WriterNext, UNCHANGED rdVars
  PROVE  [Stream!BsNext]_(Stream!bsVars)
<1>1. UNCHANGED <<got, ended, damaged>>
  BY DEF rdVars
<1>2. Types /\ Types' /\ ByteInv /\ ByteInv' /\ CloseInv /\ CloseInv'
  BY DEF TunnelInv, IInv
<1> DEFINE n == accepted + wr.sent
           m == accepted' + wr'.sent
<1>3. n <= m /\ n \in Nat /\ m \in Nat
  <2>1. accepted \in Nat /\ wr.len \in Nat /\ wr.sent \in 0..wr.len
    BY <1>2 DEF Types
  <2>2. accepted' \in Nat /\ wr'.len \in Nat /\ wr'.sent \in 0..wr'.len
    BY <1>2 DEF Types
  <2> QED BY <1>2, <2>1, <2>2, BytesStay
<1>4. CASE InnerClose
  <2>1. wr.at = "close" /\ wr' = NoCall /\ UNCHANGED <<accepted, cut>> /\ down' = TRUE
    BY <1>4 DEF InnerClose
  <2>2. wr.sent = 0 /\ wr'.sent = 0
    BY <1>2, <2>1 DEF ByteInv, PrefixInv, NoCall, Types
  <2>3. m = n
    BY <2>1, <2>2
  <2>4. Stream!Close
    BY <1>1, <2>1, <2>3 DEF Stream!Close
  <2> QED BY <2>4 DEF Stream!BsNext
<1>5. CASE ~InnerClose /\ cut' # cut
  <2>1. cut' = TRUE /\ UNCHANGED wrVars
    BY <1>5, ConnectionKept
  <2>2. UNCHANGED <<accepted, wr, down>>
    BY <2>1 DEF wrVars
  <2>3. Stream!Break
    BY <1>1, <2>1, <2>2 DEF Stream!Break
  <2> QED BY <2>3 DEF Stream!BsNext
<1>6. CASE ~InnerClose /\ cut' = cut
  <2>1. UNCHANGED <<down, cut>>
    BY <1>6, ConnectionKept
  <2>2. CASE m = n
    BY <1>1, <2>1, <2>2 DEF Stream!bsVars
  <2>3. CASE m # n
    <3>1. m > n
      <4> HIDE DEF m, n
      <4> QED BY <1>3, <2>3
    <3>2. ~down
      BY <1>2, <2>3, Shut
    <3>3. Stream!Send
      BY <1>1, <1>3, <2>1, <3>1, <3>2 DEF Stream!Send
    <3> QED BY <3>3 DEF Stream!BsNext
  <2> QED BY <2>2, <2>3
<1> QED BY <1>4, <1>5, <1>6

(* What a step of the read half shows the application.                     *)
LEMMA ReaderShows ==
  ASSUME Types, ReaderTypes, StageInv, ReaderSteps
  PROVE  /\ damaged' = damaged
         /\ \/ ended' = ended /\ Len(got) <= Len(got')
            \/ /\ got' = got /\ ended' = TRUE
               /\ rd.errored \/ (Decoding /\ NeedsMore /\ rd.st = "open" /\ rd.eof)
<1>1. RdOk
  BY DEF RdOk, ReaderTypes
<1>2. resid \in Seq(Nat) /\ got \in Seq(Nat) /\ rd.cap \in Nat /\ Len(got) \in Nat
  BY DEF ReaderTypes
<1>3. ASSUME UNCHANGED <<got, ended>> PROVE ended' = ended /\ Len(got) <= Len(got')
  BY <1>2, <1>3
<1>4. ASSUME NEW data \in Seq(Nat), NEW k \in 0..Len(data), got' = got \o FirstOf(data, k)
      PROVE  Len(got) <= Len(got')
  <2>1. Len(got \o FirstOf(data, k)) = Len(got) + k
    BY <1>2, Split
  <2>2. k \in Nat
    OBVIOUS
  <2> QED BY <1>2, <1>4, <2>1, <2>2
<1>5. ASSUME NEW k, OverRead(k) PROVE UNCHANGED <<got, ended, damaged>>
  BY <1>5 DEF OverRead
<1>6. ASSUME NEW k, ReadInner(k) PROVE UNCHANGED <<got, ended, damaged>>
  BY <1>6 DEF ReadInner
<1>7. CASE DecodeLength \/ ReadFails \/ ReadPends
  BY <1>3, <1>7 DEF DecodeLength, ReadFails, ReadPends
<1>8. ASSUME NEW c \in ReadCaps, PollRead(c)
      PROVE  UNCHANGED <<ended, damaged>> /\ Len(got) <= Len(got')
  <2>1. UNCHANGED <<ended, damaged>> /\ (UNCHANGED got \/ DrainResidual(c))
    BY <1>8 DEF PollRead
  <2>2. CASE DrainResidual(c)
    <3> DEFINE k == IF c < Len(resid) THEN c ELSE Len(resid)
    <3>1. k \in 0..Len(resid)
      BY <1>2, TunnelConstants, Fits
    <3>2. got' = got \o FirstOf(resid, k)
      BY <2>2 DEF DrainResidual
    <3> HIDE DEF k
    <3> QED BY <1>2, <1>4, <2>1, <3>1, <3>2
  <2> QED BY <1>3, <2>1, <2>2
<1>9. CASE DecodeBody
  <2>1. nlen > 0 /\ UNCHANGED <<ended, damaged>>
    BY <1>9 DEF DecodeBody
  <2>2. CASE UNCHANGED got
    BY <1>3, <2>1, <2>2
  <2>3. CASE ~UNCHANGED got
    <3> DEFINE d == enc[ctr - 1].data
               k == IF rd.cap < Len(d) THEN rd.cap ELSE Len(d)
    <3>1. Opens /\ StashPayload(d)
      BY <1>9, <2>3 DEF DecodeBody
    <3>2. d \in Seq(Nat)
      BY <2>1, <3>1, FrameAt DEF Opens
    <3>3. got' = got \o FirstOf(d, k)
      BY <3>1 DEF StashPayload
    <3> HIDE DEF d
    <3>4. k \in 0..Len(d)
      BY <1>2, <3>2, Fits
    <3> HIDE DEF k
    <3> QED BY <1>4, <2>1, <3>2, <3>3, <3>4
  <2> QED BY <2>2, <2>3
<1>10. CASE DecodeNone
  <2>1. /\ Decoding /\ NeedsMore /\ UNCHANGED <<got, damaged>>
        /\ ended' = (ended \/ (rd.st = "open" /\ rd.eof))
    BY <1>10 DEF DecodeNone
  <2>2. CASE rd.st = "open" /\ rd.eof
    BY <2>1, <2>2
  <2>3. CASE ~(rd.st = "open" /\ rd.eof)
    <3>1. ended' = ended
      BY <2>1, <2>3 DEF ReaderTypes
    <3> QED BY <1>3, <2>1, <3>1
  <2> QED BY <2>2, <2>3
<1>11. CASE ReadEof
  <2>1. rd.cap > 0 /\ ~rd.readable /\ UNCHANGED <<got, damaged>> /\ ended' = (ended \/ rd.eof)
    BY <1>11 DEF ReadEof, Reading
  <2>2. ~rd.eof /\ ~ended
    BY <1>1, <2>1, CallOpen
  <2>3. ended' = ended
    BY <2>1, <2>2 DEF ReaderTypes
  <2> QED BY <1>3, <2>1, <2>3
<1>12. CASE AfterError
  BY <1>12 DEF AfterError
<1> QED BY <1>3, <1>5, <1>6, <1>7, <1>8, <1>9, <1>10, <1>11, <1>12 DEF ReaderSteps

LEMMA ReaderRefines ==
  ASSUME TunnelInv, TunnelInv', ReaderSteps \/ Damage
  PROVE  [Stream!BsNext]_(Stream!bsVars)
<1>1. /\ Types /\ ByteInv /\ CloseInv /\ ReaderTypes /\ StageInv /\ GotInv /\ WholeInv
      /\ GotInv' /\ ReaderTypes'
  BY DEF TunnelInv, IInv
<1>2. UNCHANGED <<accepted, wr, down, cut>>
  BY ReaderKeepsWriter DEF wrVars
<1>3. CASE Damage
  <2>1. damaged' = TRUE /\ UNCHANGED <<got, ended>>
    BY <1>3 DEF Damage
  <2>2. Stream!Break
    BY <1>2, <2>1 DEF Stream!Break
  <2> QED BY <2>2 DEF Stream!BsNext
<1>4. ASSUME ended' = ended, Len(got) <= Len(got'), damaged' = damaged
      PROVE  [Stream!BsNext]_(Stream!bsVars)
  <2>1. /\ got \in Seq(Nat) /\ got' \in Seq(Nat) /\ Len(got) \in Nat /\ Len(got') \in Nat
        /\ \A i \in 1..Len(got) : got[i] = i
        /\ \A i \in 1..Len(got') : got'[i] = i
    BY <1>1 DEF ReaderTypes, GotInv
  <2>2. CASE Len(got) = Len(got')
    <3>1. got' = got
      BY <2>1, <2>2, SameElements
    <3> QED BY <1>2, <1>4, <3>1 DEF Stream!bsVars
  <2>3. CASE Len(got) # Len(got')
    <3>1. Len(got) < Len(got')
      BY <1>4, <2>1, <2>3
    <3>2. Len(got') <= accepted + wr.sent
      <4>1. Len(got') + Len(resid') <= accepted' + wr'.sent
        BY <1>1 DEF GotInv, Had
      <4>2. Len(resid') \in Nat
        BY <1>1 DEF ReaderTypes
      <4> QED BY <1>1, <1>2, <2>1, <4>1, <4>2, SentType
    <3>3. got' = [i \in 1..Len(got') |-> i]
      BY <2>1
    <3>4. Stream!Deliver
      BY <1>2, <1>4, <3>1, <3>2, <3>3 DEF Stream!Deliver
    <3> QED BY <3>4 DEF Stream!BsNext
  <2> QED BY <2>2, <2>3
<1>5. ASSUME got' = got, ended' = TRUE, damaged' = damaged,
             rd.errored \/ (Decoding /\ NeedsMore /\ rd.st = "open" /\ rd.eof)
      PROVE  [Stream!BsNext]_(Stream!bsVars)
  <2>1. (cut \/ damaged) \/ (down /\ Len(got) = accepted + wr.sent)
    <3>1. CASE Whole
      <4>1. ~rd.errored
        BY <1>1, <3>1, WholeFacts
      <4> QED BY <1>1, <1>5, <3>1, <4>1, EndIsLast
    <3>2. CASE ~Whole
      BY <3>2 DEF Whole
    <3> QED BY <3>1, <3>2
  <2>2. Stream!End
    BY <1>2, <1>5, <2>1 DEF Stream!End
  <2> QED BY <2>2 DEF Stream!BsNext
<1> QED BY <1>1, <1>3, <1>4, <1>5, ReaderShows

(* One direction of an obfs4 tunnel is an ordered byte stream: poll_read   *)
(* gives the client the bytes poll_write took on the bridge, in order and  *)
(* each once, however the connection splits, loses or damages them, and    *)
(* reports the end before all of them only if it was lost or damaged.      *)
THEOREM TunnelIsByteStream == TunnelSpec => IsByteStream
<1>1. TunnelInit => Stream!BsInit
  BY DEF TunnelInit, WriterInit, NoCall, Stream!BsInit
<1>2. ASSUME TunnelInv, TunnelInv',
             [(WriterNext /\ UNCHANGED rdVars) \/ ReaderSteps \/ Damage]_TunnelVars
      PROVE  [Stream!BsNext]_(Stream!bsVars)
  <2>1. CASE UNCHANGED TunnelVars
    BY <2>1 DEF TunnelVars, wrVars, netVars, rdVars, Stream!bsVars
  <2> QED BY <1>2, <2>1, WriterRefines, ReaderRefines
<1>3. TunnelInv /\ TunnelInv' /\ [(WriterNext /\ UNCHANGED rdVars) \/ ReaderSteps \/ Damage]_TunnelVars
      => [Stream!BsNext]_(Stream!bsVars)
  BY <1>2
<1> QED BY <1>1, <1>3, TunnelInvHolds, PTL DEF TunnelSpec, IsByteStream, Stream!BsSpec

===============================================================================
