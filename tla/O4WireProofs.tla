----------------------------- MODULE O4WireProofs -----------------------------
(***************************************************************************)
(* What the frames of the write half are, and how they reach the read half *)
(* of the peer: the facts about frames, buffers and the connection from    *)
(* which O4TunnelProofs shows that a tunnel is a byte stream.              *)
(***************************************************************************)
EXTENDS O4Tunnel, TLAPS

Unit == [n : Nat, i : Nat]
Frame == [type : {"payload", "prng_seed"}, data : Seq(Nat), size : Nat]

(* The call in progress is a record with the fields of a call.             *)
IsCall == wr = [op |-> wr.op, at |-> wr.at, len |-> wr.len, sent |-> wr.sent,
                burst |-> wr.burst, wake |-> wr.wake]

Types ==
    /\ enc \in Seq(Frame) /\ Len(enc) <= MaxNonce - 1
    /\ wbuf \in Seq(Unit)
    /\ IsCall /\ wr.len \in Nat /\ wr.sent \in 0..wr.len /\ wr.burst \in Nat
    /\ accepted \in Nat /\ sched \in Nat /\ run \in Nat
    /\ mode \in IAT

(* A prefix is only taken by a write that is not parked, and only a write  *)
(* passes through ready and send.                                          *)
PrefixInv ==
    /\ wr.sent > 0 => wr.op = "write" /\ wr.at # "parked"
    /\ wr.at \in {"ready", "send"} => wr.op = "write"
    /\ wr.at = "close" => wr.op # "write"

ByteInv == PrefixInv /\ AcceptedIsEncoded

-----------------------------------------------------------------------------
LEMMA Concat ==
  ASSUME NEW S, NEW s \in Seq(S), NEW t \in Seq(S)
  PROVE  /\ s \o t \in Seq(S) /\ Len(s \o t) = Len(s) + Len(t)
         /\ \A i \in 1..Len(s) + Len(t) : (s \o t)[i] = IF i <= Len(s) THEN s[i] ELSE t[i - Len(s)]
  OBVIOUS

LEMMA Tailed ==
  ASSUME NEW S, NEW s \in Seq(S), Len(s) # 0
  PROVE  /\ Tail(s) \in Seq(S) /\ Len(Tail(s)) = Len(s) - 1
         /\ \A k \in 1..Len(s) - 1 : Tail(s)[k] = s[k + 1]
  OBVIOUS

(* Sizes.                                                                  *)
LEMMA Sizes == Segment \in Nat \ {0} /\ Header \in Nat /\ MaxPayload \in Nat
               /\ Boundary \in Nat \ {0} /\ Segment = Header + MaxPayload
  BY WriterConstants DEF Segment

LEMMA UnitsType ==
  ASSUME NEW n \in Nat, NEW f \in Frame
  PROVE  Units(n, f) \in Seq(Unit) /\ Len(Units(n, f)) = Header + f.size
<1> DEFINE m == Header + f.size
<1>1. m \in Nat
  BY Sizes DEF Frame
<1>2. Units(n, f) = [i \in 1..m |-> [n |-> n, i |-> i]]
  BY DEF Units
<1>3. \A i \in 1..m : [n |-> n, i |-> i] \in Unit
  BY <1>1 DEF Unit
<1>4. m = Header + f.size
  OBVIOUS
<1> HIDE DEF m
<1>5. Units(n, f) \in [1..m -> Unit]
  BY <1>2, <1>3
<1>6. Units(n, f) \in Seq(Unit)
  BY <1>1, <1>5
<1>7. DOMAIN Units(n, f) = 1..m
  BY <1>2
<1>8. Len(Units(n, f)) = m
  BY <1>1, <1>6, <1>7
<1> QED BY <1>4, <1>6, <1>8

(* The units the j-th of the frames fs takes.                              *)
Cost(fs, j) == IF j <= Len(fs) THEN Header + fs[j].size ELSE 0

(* pad_burst: at most two frames, of a segment and two headers.            *)
LEMMA PadCosts ==
  ASSUME NEW b \in Nat, NEW t \in 0..Segment
  PROVE  /\ PadBurst(b, t) \in Seq(Frame) /\ Len(PadBurst(b, t)) <= 2
         /\ Cost(PadBurst(b, t), 1) + Cost(PadBurst(b, t), 2) <= Segment + 2 * Header
         /\ Cost(PadBurst(b, t), 1) \in Nat /\ Cost(PadBurst(b, t), 2) \in Nat
         /\ Cost(PadBurst(b, t), 3) = 0
<1> DEFINE tail == b % Segment
           pad == IF t >= tail THEN t - tail ELSE Segment - tail + t
           fs == PadBurst(b, t)
<1>1. tail \in 0..Segment - 1
  BY Sizes
<1>2. pad \in 0..Segment
  <2> HIDE DEF tail
  <2> QED BY <1>1, Sizes
<1>3. fs = IF pad = 0 THEN <<>>
           ELSE IF pad > Header THEN <<Padding(pad - Header)>>
           ELSE <<Padding(MaxPayload), Padding(pad)>>
  BY DEF PadBurst
<1> HIDE DEF pad, tail, fs
<1>4. ASSUME NEW n \in Nat PROVE Padding(n) \in Frame /\ Padding(n).size = n
  <2>1. <<>> \in Seq(Nat)
    OBVIOUS
  <2> QED BY <2>1 DEF Padding, Frame
<1>5. CASE pad = 0
  <2>1. fs = <<>>
    BY <1>3, <1>5
  <2> QED BY <2>1, Sizes DEF Cost, fs
<1>6. CASE pad # 0 /\ pad > Header
  <2> DEFINE p == Padding(pad - Header)
  <2>1. p \in Frame /\ p.size = pad - Header
    BY <1>2, <1>4, <1>6, Sizes
  <2>2. fs = <<p>>
    BY <1>3, <1>6
  <2> HIDE DEF p
  <2>3. fs \in Seq(Frame) /\ Len(fs) = 1 /\ fs[1] = p
    BY <2>1, <2>2
  <2>4. Cost(fs, 1) = pad /\ Cost(fs, 2) = 0 /\ Cost(fs, 3) = 0
    BY <1>2, <2>1, <2>3, Sizes DEF Cost
  <2> QED BY <1>2, <2>3, <2>4, Sizes DEF fs
<1>7. CASE pad # 0 /\ ~(pad > Header)
  <2> DEFINE p == Padding(MaxPayload)
             q == Padding(pad)
  <2>1. p \in Frame /\ p.size = MaxPayload /\ q \in Frame /\ q.size = pad
    BY <1>2, <1>4, Sizes
  <2>2. fs = <<p, q>>
    BY <1>3, <1>7
  <2> HIDE DEF p, q
  <2>3. fs \in Seq(Frame) /\ Len(fs) = 2 /\ fs[1] = p /\ fs[2] = q
    BY <2>1, <2>2
  <2>4. Cost(fs, 1) = Segment /\ Cost(fs, 2) = Header + pad /\ Cost(fs, 3) = 0
    BY <1>2, <2>1, <2>3, Sizes DEF Cost
  <2> QED BY <1>2, <1>7, <2>3, <2>4, Sizes DEF fs
<1> QED BY <1>5, <1>6, <1>7

(* A frame of n payload bytes.                                             *)
LEMMA PayloadFrame ==
  ASSUME NEW from \in Nat, NEW n \in Nat
  PROVE  Payload(from, n) \in Frame /\ Payload(from, n).size = n
<1> DEFINE bytes == [i \in 1..n |-> from + i]
<1>1. bytes \in [1..n -> Nat]
  OBVIOUS
<1>2. Payload(from, n) = [type |-> "payload", data |-> bytes, size |-> n]
  BY DEF Payload
<1> HIDE DEF bytes
<1>3. bytes \in Seq(Nat)
  BY <1>1
<1> QED BY <1>2, <1>3 DEF Frame

LEMMA NextPayloadCosts ==
  ASSUME Types, NEW n \in Nat
  PROVE  /\ NextPayload(n) \in Seq(Frame) /\ Len(NextPayload(n)) = 1
         /\ Cost(NextPayload(n), 1) = Header + n
         /\ Cost(NextPayload(n), 2) = 0 /\ Cost(NextPayload(n), 3) = 0
<1> DEFINE f == Payload(accepted + wr.sent, n)
<1>1. accepted + wr.sent \in Nat
  BY DEF Types
<1>2. f \in Frame /\ f.size = n
  BY <1>1, PayloadFrame
<1>3. NextPayload(n) = <<f>>
  BY DEF NextPayload
<1> HIDE DEF f
<1> QED BY <1>2, <1>3 DEF Cost

LEMMA NoCallIs ==
  ASSUME wr' = NoCall
  PROVE  IsCall' /\ wr'.len = 0 /\ wr'.sent = 0 /\ wr'.burst = 0 /\ wr'.at = "-" /\ wr'.op = "none"
  BY DEF NoCall, IsCall

LEMMA CallIs ==
  ASSUME NEW op, NEW at, NEW n, wr' = Call(op, at, n)
  PROVE  IsCall' /\ wr'.len = n /\ wr'.sent = 0 /\ wr'.burst = 0 /\ wr'.at = at /\ wr'.op = op
  BY DEF Call, NoCall, IsCall

LEMMA ClampType == ASSUME NEW t \in Lengths PROVE Clamp(t) \in 1..Segment
  BY Sizes, WriterConstants DEF Clamp

(* EncryptingCodec::encode adds a prefix of its frames.                    *)
LEMMA EncodeAdds ==
  ASSUME Types, NEW fs \in Seq(Frame), Encode(fs), NEW k, k = IF Len(fs) < Room THEN Len(fs) ELSE Room
  PROVE  /\ k \in Nat /\ k <= Len(fs) /\ enc' \in Seq(Frame) /\ Len(enc') = Len(enc) + k
         /\ \A j \in 1..Len(enc) : enc'[j] = enc[j]
         /\ \A j \in 1..k : enc'[Len(enc) + j] = fs[j]
<1>1. Len(enc) \in Nat /\ Len(fs) \in Nat /\ Room \in Nat /\ enc \in Seq(Frame)
  BY WriterConstants DEF Types, Room
<1>2. k \in Nat /\ k <= Len(fs)
  BY <1>1
<1> DEFINE add == SubSeq(fs, 1, k)
<1>3. add \in Seq(Frame) /\ Len(add) = k
  BY <1>1, <1>2
<1>4. \A j \in 1..k : add[j] = fs[j]
  BY <1>1, <1>2
<1>5. enc' = enc \o add
  BY DEF Encode
<1> HIDE DEF add
<1>6. /\ Len(enc \o add) = Len(enc) + Len(add) /\ enc \o add \in Seq(Frame)
      /\ \A i \in 1..Len(enc) + Len(add) :
            (enc \o add)[i] = IF i <= Len(enc) THEN enc[i] ELSE add[i - Len(enc)]
  BY <1>1, <1>3, Concat, Zenon
<1>7. \A j \in 1..Len(enc) : enc'[j] = enc[j]
  BY <1>1, <1>2, <1>3, <1>5, <1>6
<1>8. ASSUME NEW j \in 1..k PROVE enc'[Len(enc) + j] = fs[j]
  <2>1. Len(enc) + j \in 1..Len(enc) + Len(add) /\ ~(Len(enc) + j <= Len(enc))
        /\ (Len(enc) + j) - Len(enc) = j
    BY <1>1, <1>2, <1>3
  <2> QED BY <1>4, <1>5, <1>6, <2>1
<1> QED BY <1>2, <1>3, <1>5, <1>6, <1>7, <1>8

LEMMA PadIsEmpty ==
  ASSUME NEW b \in Nat, NEW t \in 0..Segment, NEW j \in 1..Len(PadBurst(b, t))
  PROVE  PadBurst(b, t)[j].data = <<>>
<1> DEFINE fs == PadBurst(b, t)
<1>1. PICK p, q : /\ fs \in {<<>>, <<Padding(p)>>, <<Padding(p), Padding(q)>>}
  <2> DEFINE tail == b % Segment
             pad == IF t >= tail THEN t - tail ELSE Segment - tail + t
  <2>1. fs = IF pad = 0 THEN <<>>
             ELSE IF pad > Header THEN <<Padding(pad - Header)>>
             ELSE <<Padding(MaxPayload), Padding(pad)>>
    BY DEF PadBurst
  <2> HIDE DEF tail, pad, fs
  <2>2. CASE pad = 0 \/ pad > Header
    BY <2>1, <2>2
  <2>3. CASE ~(pad = 0 \/ pad > Header)
    BY <2>1, <2>3
  <2> QED BY <2>2, <2>3
<1>2. Padding(p).data = <<>> /\ Padding(q).data = <<>>
  BY DEF Padding
<1>3. j \in 1..Len(fs)
  OBVIOUS
<1> HIDE DEF fs
<1>4. CASE fs = <<>>
  BY <1>3, <1>4
<1> DEFINE x == Padding(p)
           y == Padding(q)
<1>5. fs = <<>> \/ fs = <<x>> \/ fs = <<x, y>>
  BY <1>1
<1>6. x.data = <<>> /\ y.data = <<>>
  BY <1>2
<1> HIDE DEF x, y
<1>7. CASE fs = <<x>>
  BY <1>3, <1>6, <1>7 DEF fs
<1>8. CASE fs = <<x, y>>
  <2>1. j = 1 \/ j = 2
    BY <1>3, <1>8
  <2> QED BY <2>1, <1>6, <1>8 DEF fs
<1> QED BY <1>4, <1>5, <1>7, <1>8

-----------------------------------------------------------------------------
(***************************************************************************)
(* The tunnel is a byte stream.                                            *)
(*                                                                         *)
(* A frame's payload is a run of consecutive bytes, and a seed has none.   *)
(***************************************************************************)
Plain(f) ==
    /\ f.type = "prng_seed" => f.data = <<>>
    /\ \A i \in 1..Len(f.data) : f.data[i] = f.data[1] + i - 1

FramesPlain == \A j \in 1..Len(enc) : Plain(enc[j])

(* A shutdown that closes the connection has nothing left to write, and no *)
(* call is in progress after it.                                           *)
CloseInv ==
    /\ wr.at = "close" => wbuf = <<>>
    /\ down => wbuf = <<>> /\ wr = NoCall
    /\ down \in BOOLEAN /\ fin = down /\ cut \in BOOLEAN

IsReader == rd = [st |-> rd.st, cap |-> rd.cap, readable |-> rd.readable, eof |-> rd.eof,
                  errored |-> rd.errored]

(* A unit on its way is damaged or of an encoded frame.                    *)
Known(s) == s \in Seq(Unit) /\ \A k \in 1..Len(s) : s[k].n <= Len(enc)

ReaderTypes ==
    /\ IsReader /\ rd.cap \in Nat
    /\ rd.readable \in BOOLEAN /\ rd.eof \in BOOLEAN /\ rd.errored \in BOOLEAN /\ ended \in BOOLEAN
    /\ Known(rbuf) /\ Known(wire) /\ damaged \in BOOLEAN
    /\ ctr \in Nat \ {0} /\ nlen \in Nat /\ (nlen > 0 => ctr > 1)
    /\ resid \in Seq(Nat) /\ got \in Seq(Nat)

(* The stages of the read half: what O4Stream::new has not yet done, and a *)
(* poll_read that has not yet returned.                                    *)
StageInv ==
    /\ rd.st # "open" => rd.cap = 0 /\ ~rd.errored /\ ~rd.eof /\ ~ended
    /\ rd.st = "hello" => rbuf = <<>>
    /\ rd.cap > 0 => resid = <<>> /\ ~ended
    /\ rd.eof /\ ~rd.readable => ended

Alive == rd.st # "failed" /\ ~rd.errored /\ ~ended
Whole == ~cut /\ ~damaged

(* The frame the decoder is at, and the bytes the read half has had.       *)
Place == IF nlen = 0 THEN ctr ELSE ctr - 1
Had == Len(got) + Len(resid)

(* The client has had, and been given, the first bytes in order; while it  *)
(* decodes, they are those of the frames before the decoder's.             *)
GotInv ==
    /\ \A i \in 1..Len(got) : got[i] = i
    /\ \A i \in 1..Len(resid) : resid[i] = Len(got) + i
    /\ Had <= accepted + wr.sent
    /\ Alive =>
         /\ Place <= Len(enc) + 1
         /\ \A j \in 1..Len(enc) : \A i \in 1..Len(enc[j].data) :
               IF j < Place THEN enc[j].data[i] <= Had ELSE enc[j].data[i] > Had

-----------------------------------------------------------------------------
(* Where units are.  off[j] units stand before the frame j of e.           *)
Laid(e, off) ==
    /\ off \in [1..Len(e) + 1 -> Nat]
    /\ \A j \in 1..Len(e) : off[j + 1] = off[j] + Header + e[j].size
    /\ \A i, j \in 1..Len(e) + 1 : i <= j => off[i] <= off[j]

(* u is the unit at place x.                                               *)
At(u, e, off, x) ==
    u.n \in 1..Len(e) /\ u.i \in 1..Header + e[u.n].size /\ off[u.n] + u.i = x

Placed(s, e, off, x) == \A k \in 1..Len(s) : At(s[k], e, off, x + k)

(* The units that the decoder has taken.                                   *)
Taken(off) == off[Place] + IF nlen = 0 THEN 0 ELSE 1

(* What is on its way, from place x on, is all that e has there, in order. *)
OnItsWay(e, off, x, r, w, b) ==
    /\ Laid(e, off)
    /\ Placed(r, e, off, x) /\ Placed(w, e, off, x + Len(r)) /\ Placed(b, e, off, x + Len(r) + Len(w))
    /\ x + Len(r) + Len(w) + Len(b) = off[Len(e) + 1]

(* As long as nothing is lost or damaged, the decoder and the connection   *)
(* are in step, and what the encoder has made and the decoder has not      *)
(* taken is on its way.                                                    *)
WholeInv ==
    Whole =>
        /\ rd.st # "failed" /\ ~rd.errored
        /\ rd.eof => fin /\ wire = <<>>
        /\ Place \in 1..Len(enc) + 1
        /\ nlen > 0 => Place <= Len(enc) /\ nlen = Header + enc[Place].size - 1
        /\ \E off : OnItsWay(enc, off, Taken(off), rbuf, wire, wbuf)

-----------------------------------------------------------------------------
(* Parts of sequences.                                                     *)
LEMMA Cat ==
  ASSUME NEW S, NEW s \in Seq(S), NEW t \in Seq(S)
  PROVE  /\ s \o t \in Seq(S) /\ Len(s \o t) = Len(s) + Len(t)
         /\ \A i \in 1..Len(s) : (s \o t)[i] = s[i]
         /\ \A i \in 1..Len(t) : (s \o t)[Len(s) + i] = t[i]
<1>1. /\ Len(s \o t) = Len(s) + Len(t) /\ s \o t \in Seq(S)
      /\ \A i \in 1..Len(s) + Len(t) : (s \o t)[i] = IF i <= Len(s) THEN s[i] ELSE t[i - Len(s)]
  BY Concat, Zenon
<1>2. Len(s) \in Nat /\ Len(t) \in Nat
  OBVIOUS
<1> DEFINE c == s \o t
           m == Len(s)
           n == Len(t)
<1>3. m \in Nat /\ n \in Nat /\ \A i \in 1..m + n : c[i] = IF i <= m THEN s[i] ELSE t[i - m]
  BY <1>1, <1>2
<1> HIDE DEF c, m, n
<1>4. ASSUME NEW i \in 1..m PROVE c[i] = s[i]
  <2>1. i \in 1..m + n /\ i <= m
    BY <1>3
  <2> QED BY <1>3, <2>1
<1>5. ASSUME NEW i \in 1..n PROVE c[m + i] = t[i]
  <2>1. m + i \in 1..m + n /\ ~(m + i <= m) /\ (m + i) - m = i
    BY <1>3
  <2> QED BY <1>3, <2>1
<1> QED BY <1>1, <1>4, <1>5, Zenon DEF c, m, n

LEMMA Parts ==
  ASSUME NEW S, NEW s \in Seq(S), NEW k \in 0..Len(s)
  PROVE  /\ FirstOf(s, k) \in Seq(S) /\ Len(FirstOf(s, k)) = k
         /\ \A i \in 1..k : FirstOf(s, k)[i] = s[i]
         /\ After(s, k) \in Seq(S) /\ Len(After(s, k)) = Len(s) - k
         /\ \A i \in 1..Len(s) - k : After(s, k)[i] = s[k + i]
<1>1. Len(s) \in Nat /\ k \in Nat /\ k <= Len(s)
  OBVIOUS
<1>2. /\ FirstOf(s, k) \in Seq(S) /\ Len(FirstOf(s, k)) = k
      /\ \A i \in 1..k : FirstOf(s, k)[i] = s[i]
  BY <1>1 DEF FirstOf
<1>3. After(s, k) \in Seq(S) /\ Len(After(s, k)) = Len(s) - k
  BY <1>1 DEF After
<1>4. \A i \in 1..Len(s) - k : After(s, k)[i] = s[k + i]
  BY <1>1 DEF After
<1> QED BY <1>2, <1>3, <1>4

(* Two sequences with the same elements.                                   *)
LEMMA SameElements ==
  ASSUME NEW S, NEW s \in Seq(S), NEW t \in Seq(S), Len(s) = Len(t),
         \A i \in 1..Len(s) : s[i] = t[i]
  PROVE  s = t
  OBVIOUS

-----------------------------------------------------------------------------
(* Places.                                                                 *)
LEMMA PlacedCat ==
  ASSUME NEW s \in Seq(Unit), NEW t \in Seq(Unit), NEW e, NEW off, NEW x \in Nat,
         Placed(s, e, off, x), Placed(t, e, off, x + Len(s))
  PROVE  Placed(s \o t, e, off, x)
<1> DEFINE c == s \o t
<1>1. /\ Len(c) = Len(s) + Len(t) /\ Len(s) \in Nat /\ Len(t) \in Nat
      /\ \A i \in 1..Len(s) : c[i] = s[i]
      /\ \A i \in 1..Len(t) : c[Len(s) + i] = t[i]
  BY Cat
<1> HIDE DEF c
<1>2. ASSUME NEW i \in 1..Len(c) PROVE At(c[i], e, off, x + i)
  <2>1. CASE i <= Len(s)
    <3>1. i \in 1..Len(s)
      BY <2>1
    <3>2. At(s[i], e, off, x + i)
      BY <3>1 DEF Placed
    <3> QED BY <1>1, <3>1, <3>2
  <2>2. CASE ~(i <= Len(s))
    <3> DEFINE j == i - Len(s)
    <3>1. j \in 1..Len(t) /\ Len(s) + j = i /\ x + Len(s) + j = x + i
      BY <1>1, <2>2
    <3> HIDE DEF j
    <3>2. At(t[j], e, off, x + Len(s) + j)
      BY <3>1 DEF Placed
    <3>3. c[i] = t[j]
      BY <1>1, <3>1
    <3> QED BY <3>1, <3>2, <3>3
  <2> QED BY <2>1, <2>2
<1> QED BY <1>2 DEF Placed, c

LEMMA PlacedParts ==
  ASSUME NEW s \in Seq(Unit), NEW k \in 0..Len(s), NEW e, NEW off, NEW x \in Nat,
         Placed(s, e, off, x)
  PROVE  Placed(FirstOf(s, k), e, off, x) /\ Placed(After(s, k), e, off, x + k)
<1> DEFINE a == FirstOf(s, k)
           b == After(s, k)
<1>1. /\ Len(a) = k /\ Len(b) = Len(s) - k /\ Len(s) \in Nat /\ k \in Nat /\ k <= Len(s)
      /\ \A i \in 1..k : a[i] = s[i]
      /\ \A i \in 1..Len(s) - k : b[i] = s[k + i]
  BY Parts
<1> HIDE DEF a, b
<1>2. ASSUME NEW i \in 1..Len(a) PROVE At(a[i], e, off, x + i)
  <2>1. i \in 1..k /\ i \in 1..Len(s)
    BY <1>1
  <2> QED BY <1>1, <2>1 DEF Placed
<1>3. ASSUME NEW i \in 1..Len(b) PROVE At(b[i], e, off, x + k + i)
  <2>1. i \in 1..Len(s) - k /\ k + i \in 1..Len(s) /\ x + k + i = x + (k + i)
    BY <1>1
  <2>2. At(s[k + i], e, off, x + (k + i))
    BY <2>1 DEF Placed
  <2> QED BY <1>1, <2>1, <2>2
<1> QED BY <1>2, <1>3 DEF Placed, a, b

(* There is one unit at a place.                                           *)
LEMMA UnitAt ==
  ASSUME NEW e \in Seq(Frame), NEW off, Laid(e, off), NEW u \in Unit, NEW x \in Nat,
         At(u, e, off, x), NEW j \in 1..Len(e), off[j] < x, x <= off[j + 1]
  PROVE  u = [n |-> j, i |-> x - off[j]]
<1>1. /\ Len(e) \in Nat /\ j \in 1..Len(e) + 1 /\ j + 1 \in 1..Len(e) + 1
      /\ u.n \in 1..Len(e) + 1 /\ u.n + 1 \in 1..Len(e) + 1
  BY DEF At
<1>2. /\ off[j] \in Nat /\ off[j + 1] \in Nat /\ off[u.n] \in Nat /\ off[u.n + 1] \in Nat
  BY <1>1 DEF Laid
<1>3. off[u.n + 1] = off[u.n] + Header + e[u.n].size /\ e[u.n].size \in Nat
  <2>1. u.n \in 1..Len(e)
    BY DEF At
  <2>2. e[u.n] \in Frame
    BY <2>1
  <2>3. \A h \in 1..Len(e) : off[h + 1] = off[h] + Header + e[h].size
    BY Zenon DEF Laid
  <2> QED BY <2>1, <2>2, <2>3 DEF Frame
<1>4. u.i \in Nat /\ off[u.n] < x /\ x <= off[u.n + 1] /\ off[u.n] + u.i = x
  <2> DEFINE size == e[u.n].size
             a == off[u.n]
             b == off[u.n + 1]
  <2>1. u.i \in 1..Header + size /\ a + u.i = x
    BY DEF At
  <2>2. b = a + Header + size /\ a \in Nat /\ size \in Nat
    BY <1>2, <1>3
  <2> HIDE DEF size, a, b
  <2>3. u.i \in Nat /\ a < x /\ x <= b /\ a + u.i = x
    BY <2>1, <2>2, Sizes
  <2> QED BY <2>3 DEF a, b
<1>5. CASE u.n < j
  <2>1. u.n + 1 <= j
    BY <1>1, <1>5
  <2>2. off[u.n + 1] <= off[j]
    BY <1>1, <2>1 DEF Laid
  <2> QED BY <1>2, <1>4, <2>2
<1>6. CASE u.n > j
  <2>1. j + 1 <= u.n
    BY <1>1, <1>6
  <2>2. off[j + 1] <= off[u.n]
    BY <1>1, <2>1 DEF Laid
  <2> QED BY <1>2, <1>4, <2>2
<1>7. CASE u.n = j
  <2>1. u.i = x - off[j]
    BY <1>2, <1>4, <1>7
  <2> QED BY <1>7, <2>1 DEF Unit
<1> QED BY <1>1, <1>5, <1>6, <1>7

(* w is the last of the units of the frames e, from place y on.            *)
Rest(e, w, off, y) == Laid(e, off) /\ Placed(w, e, off, y) /\ y + Len(w) = off[Len(e) + 1]

(* More frames behind those of e.                                          *)
Longer(g, o, e, off) ==
    /\ Len(g) >= Len(e) /\ \A j \in 1..Len(e) : g[j] = e[j]
    /\ \A j \in 1..Len(e) + 1 : o[j] = off[j]

(* The write buffer is the last of the units encoded, whatever happened to *)
(* those before it.                                                        *)
BufInv == \E off : \E y \in Nat : Rest(enc, wbuf, off, y)

LEMMA PlacedStays ==
  ASSUME NEW e \in Seq(Frame), NEW g \in Seq(Frame), NEW off, NEW o, Longer(g, o, e, off),
         NEW s \in Seq(Unit), NEW x \in Nat, Placed(s, e, off, x)
  PROVE  Placed(s, g, o, x)
<1>1. SUFFICES ASSUME NEW k \in 1..Len(s) PROVE At(s[k], g, o, x + k)
  BY DEF Placed
<1>2. At(s[k], e, off, x + k)
  BY DEF Placed
<1>3. Len(e) \in Nat /\ Len(g) \in Nat /\ Len(g) >= Len(e)
  BY DEF Longer
<1>4. s[k].n \in 1..Len(e) /\ s[k].n \in 1..Len(e) + 1 /\ s[k].n \in 1..Len(g)
  BY <1>2, <1>3 DEF At
<1>5. g[s[k].n] = e[s[k].n] /\ o[s[k].n] = off[s[k].n]
  BY <1>4, Zenon DEF Longer
<1> QED BY <1>2, <1>4, <1>5, Zenon DEF At

LEMMA LongerTrans ==
  ASSUME NEW e \in Seq(Frame), NEW f \in Seq(Frame), NEW g \in Seq(Frame), NEW off, NEW p, NEW o,
         Longer(f, p, e, off), Longer(g, o, f, p)
  PROVE  Longer(g, o, e, off)
<1>1. Len(e) \in Nat /\ Len(f) \in Nat /\ Len(g) \in Nat /\ Len(f) >= Len(e) /\ Len(g) >= Len(f)
  BY DEF Longer
<1>2. ASSUME NEW j \in 1..Len(e) PROVE g[j] = e[j]
  <2>1. j \in 1..Len(f)
    BY <1>1
  <2> QED BY <2>1, Zenon DEF Longer
<1>3. ASSUME NEW j \in 1..Len(e) + 1 PROVE o[j] = off[j]
  <2>1. j \in 1..Len(f) + 1
    BY <1>1
  <2> QED BY <2>1, Zenon DEF Longer
<1>4. Len(g) >= Len(e)
  BY <1>1
<1> QED BY <1>2, <1>3, <1>4 DEF Longer

(* One more frame.                                                         *)
LEMMA GrowOne ==
  ASSUME NEW e \in Seq(Frame), NEW g \in Seq(Frame), Len(g) = Len(e) + 1,
         \A j \in 1..Len(e) : g[j] = e[j],
         NEW w \in Seq(Unit), NEW off, NEW y \in Nat, Rest(e, w, off, y)
  PROVE  \E o : /\ Rest(g, w \o Units(Len(e) + 1, g[Len(e) + 1]), o, y)
                /\ Longer(g, o, e, off)
<1> DEFINE l == Len(e) + 1
           f == g[l]
           last == off[l] + Header + f.size
           o == [j \in 1..l + 1 |-> IF j <= l THEN off[j] ELSE last]
           un == Units(l, f)
<1>1. l \in Nat \ {0} /\ Len(g) = l /\ Len(e) = l - 1 /\ f \in Frame /\ l \in 1..l
  OBVIOUS
<1>2. f.size \in Nat /\ Header \in Nat
  BY <1>1, Sizes DEF Frame
<1>3. off \in [1..l -> Nat] /\ off[l] \in Nat /\ y + Len(w) = off[l]
  BY <1>1 DEF Rest, Laid
<1>4. \A j \in 1..l - 1 : off[j + 1] = off[j] + Header + e[j].size
  BY <1>1, Zenon DEF Rest, Laid
<1>5. \A i, j \in 1..l : i <= j => off[i] <= off[j]
  BY Zenon DEF Rest, Laid
<1>6. last \in Nat /\ off[l] <= last /\ last = off[l] + Header + f.size
  BY <1>2, <1>3
<1>7. un \in Seq(Unit) /\ Len(un) = Header + f.size /\ \A k \in 1..Header + f.size : un[k] = [n |-> l, i |-> k]
  <2>1. un \in Seq(Unit) /\ Len(un) = Header + f.size
    BY <1>1, UnitsType
  <2>2. un = [k \in 1..Header + f.size |-> [n |-> l, i |-> k]]
    BY DEF Units
  <2> QED BY <2>1, <2>2
<1>8. \A j \in 1..l - 1 : g[j] = e[j]
  BY <1>1
<1>9. Rest(g, w \o un, o, y) <=> Rest(g, w \o Units(Len(e) + 1, g[Len(e) + 1]), o, y)
  OBVIOUS
<1>10. g[l] = f /\ w \in Seq(Unit) /\ Len(w) \in Nat /\ Placed(w, e, off, y)
  BY DEF Rest
<1> HIDE DEF f, last, un
<1>11. o = [j \in 1..l + 1 |-> IF j <= l THEN off[j] ELSE last]
  OBVIOUS
<1> HIDE DEF o, l
<1>12. \A j \in 1..l : o[j] = off[j] /\ o[j] \in Nat
  <2> SUFFICES ASSUME NEW j \in 1..l PROVE o[j] = off[j] /\ o[j] \in Nat
    OBVIOUS
  <2>1. j \in 1..l + 1 /\ j <= l
    BY <1>1
  <2> QED BY <1>3, <1>11, <2>1
<1>13. o[l + 1] = last
  <2>1. l + 1 \in 1..l + 1 /\ ~(l + 1 <= l)
    BY <1>1
  <2> QED BY <1>11, <2>1
<1>14. o \in [1..l + 1 -> Nat]
  <2>1. \A j \in 1..l + 1 : j \in 1..l \/ j = l + 1
    BY <1>1
  <2>2. \A j \in 1..l + 1 : o[j] \in Nat
    BY <1>6, <1>12, <1>13, <2>1
  <2> QED BY <1>11, <2>2
<1>15. ASSUME NEW j \in 1..l PROVE o[j + 1] = o[j] + Header + g[j].size
  <2>1. CASE j = l
    <3>1. l \in 1..l
      BY <1>1
    <3> QED BY <1>6, <1>10, <1>12, <1>13, <2>1, <3>1
  <2>2. CASE j # l
    <3>1. j \in 1..l - 1 /\ j + 1 \in 1..l
      BY <1>1, <2>2
    <3>2. off[j + 1] = off[j] + Header + e[j].size /\ g[j] = e[j]
      BY <1>4, <1>8, <3>1
    <3> QED BY <1>12, <3>1, <3>2
  <2> QED BY <2>1, <2>2
<1>16. ASSUME NEW i \in 1..l + 1, NEW j \in 1..l + 1, i <= j PROVE o[i] <= o[j]
  <2>1. CASE j = l + 1
    <3>1. CASE i = l + 1
      BY <1>6, <1>13, <2>1, <3>1
    <3>2. CASE i # l + 1
      <4>1. i \in 1..l /\ l \in 1..l /\ i <= l
        BY <1>1, <3>2
      <4>2. off[i] <= off[l] /\ o[i] = off[i] /\ off[i] \in Nat
        BY <1>5, <1>12, <4>1
      <4> QED BY <1>3, <1>6, <1>13, <2>1, <4>2
    <3> QED BY <3>1, <3>2
  <2>2. CASE j # l + 1
    <3>1. i \in 1..l /\ j \in 1..l
      BY <1>1, <1>16, <2>2
    <3> QED BY <1>5, <1>12, <1>16, <3>1
  <2> QED BY <2>1, <2>2
<1>17. Laid(g, o)
  BY <1>1, <1>14, <1>15, <1>16 DEF Laid
<1>18. Longer(g, o, e, off)
  <2>1. Len(g) >= Len(e)
    BY <1>1
  <2>2. \A j \in 1..Len(e) : g[j] = e[j]
    OBVIOUS
  <2>3. Len(e) + 1 = l
    BY <1>1
  <2> QED BY <1>12, <2>1, <2>2, <2>3 DEF Longer
<1>19. Placed(w, g, o, y)
  BY <1>10, <1>18, PlacedStays
<1>20. Placed(un, g, o, y + Len(w))
  <2> SUFFICES ASSUME NEW k \in 1..Len(un) PROVE At(un[k], g, o, y + Len(w) + k)
    BY DEF Placed
  <2>1. un[k] = [n |-> l, i |-> k] /\ k \in 1..Header + g[l].size
    BY <1>7, <1>10
  <2>2. un[k].n = l /\ un[k].i = k
    BY <2>1
  <2>3. l \in 1..Len(g) /\ l \in 1..l
    BY <1>1
  <2>4. o[l] + k = y + Len(w) + k
    BY <1>3, <1>12, <2>3
  <2> QED BY <2>1, <2>2, <2>3, <2>4 DEF At
<1>21. Placed(w \o un, g, o, y)
  BY <1>7, <1>19, <1>20, PlacedCat
<1>22. y + Len(w \o un) = o[Len(g) + 1]
  <2>1. Len(w \o un) = Len(w) + Len(un)
    BY <1>7, Cat
  <2>2. o[Len(g) + 1] = last
    BY <1>1, <1>13
  <2> DEFINE c == Len(w \o un)
             u == Len(un)
             m == Len(w)
             z == o[Len(g) + 1]
             v == f.size
             a == off[l]
  <2>3. c = m + u /\ u = Header + v /\ y + m = a /\ m \in Nat /\ z = a + Header + v /\ v \in Nat
    <3>1. c = m + u
      BY <2>1
    <3>2. u = Header + f.size
      BY <1>7
    <3>3. y + m = off[l] /\ m \in Nat
      BY <1>3, <1>10
    <3>4. z = off[l] + Header + f.size
      BY <1>6, <2>2
    <3> QED BY <1>2, <3>1, <3>2, <3>3, <3>4
  <2> HIDE DEF c, u, m, z, v, a
  <2>4. y + c = z
    BY <2>3, Sizes
  <2> QED BY <2>4 DEF c, z
<1>23. Rest(g, w \o un, o, y)
  BY <1>17, <1>21, <1>22 DEF Rest
<1> QED BY <1>9, <1>18, <1>23

LEMMA GrowMaybe ==
  ASSUME NEW e \in Seq(Frame), NEW g \in Seq(Frame), NEW w \in Seq(Unit), NEW un, NEW off,
         NEW y \in Nat, Rest(e, w, off, y),
         \/ /\ Len(g) = Len(e) + 1 /\ \A j \in 1..Len(e) : g[j] = e[j]
            /\ un = Units(Len(e) + 1, g[Len(e) + 1])
         \/ g = e /\ un = <<>>
  PROVE  /\ w \o un \in Seq(Unit)
         /\ \E o : Rest(g, w \o un, o, y) /\ Longer(g, o, e, off)
<1>1. CASE /\ Len(g) = Len(e) + 1 /\ \A j \in 1..Len(e) : g[j] = e[j]
           /\ un = Units(Len(e) + 1, g[Len(e) + 1])
  <2>1. Len(e) + 1 \in Nat /\ g[Len(e) + 1] \in Frame
    BY <1>1
  <2>2. un \in Seq(Unit)
    BY <1>1, <2>1, UnitsType
  <2>3. w \o un \in Seq(Unit)
    BY <2>2, Cat
  <2> QED BY <1>1, <2>3, GrowOne
<1>2. CASE g = e /\ un = <<>>
  <2>1. w \o un = w
    BY <1>2
  <2>2. Len(g) >= Len(e)
    BY <1>2
  <2>3. Longer(g, off, e, off)
    BY <1>2, <2>2 DEF Longer
  <2> QED BY <1>2, <2>1, <2>3
<1> QED BY <1>1, <1>2

(* EncryptingCodec::encode puts the units of its frames behind the others. *)
LEMMA EncodeGrows ==
  ASSUME Types, NEW fs \in Seq(Frame), Encode(fs), Len(fs) <= 3,
         NEW off, NEW y \in Nat, Rest(enc, wbuf, off, y)
  PROVE  \E o : Rest(enc', wbuf', o, y) /\ Longer(enc', o, enc, off)
<1> DEFINE k == IF Len(fs) < Room THEN Len(fs) ELSE Room
           Image(j) == IF j <= k THEN Units(Len(enc) + j, fs[j]) ELSE <<>>
           Up(j) == IF j <= k THEN j ELSE k
           G(j) == SubSeq(enc', 1, Len(enc) + Up(j))
<1>1. wbuf' = wbuf \o Image(1) \o Image(2) \o Image(3)
  BY DEF Encode
<1>2. k = IF Len(fs) < Room THEN Len(fs) ELSE Room
  OBVIOUS
<1> HIDE DEF k
<1>3. /\ k \in Nat /\ k <= Len(fs) /\ enc' \in Seq(Frame) /\ Len(enc') = Len(enc) + k
      /\ \A j \in 1..Len(enc) : enc'[j] = enc[j]
      /\ \A j \in 1..k : enc'[Len(enc) + j] = fs[j]
  BY <1>2, EncodeAdds
<1>4. enc \in Seq(Frame) /\ Len(enc) \in Nat /\ wbuf \in Seq(Unit) /\ k <= 3
  BY <1>3 DEF Types
<1>5. ASSUME NEW j \in 0..3
      PROVE  /\ G(j) \in Seq(Frame) /\ Len(G(j)) = Len(enc) + Up(j)
             /\ \A i \in 1..Len(enc) + Up(j) : G(j)[i] = enc'[i]
             /\ Up(j) \in 0..k
  <2>1. Up(j) \in 0..k
    BY <1>3
  <2> DEFINE m == Len(enc) + Up(j)
  <2>2. m \in 0..Len(enc')
    BY <1>3, <1>4, <2>1
  <2> HIDE DEF m
  <2>3. /\ SubSeq(enc', 1, m) \in Seq(Frame) /\ Len(SubSeq(enc', 1, m)) = m
        /\ \A i \in 1..m : SubSeq(enc', 1, m)[i] = enc'[i]
    BY <1>3, <2>2
  <2> QED BY <2>1, <2>3 DEF m
<1>6. G(0) = enc
  <2>1. Up(0) = 0
    BY <1>3
  <2>2. Len(G(0)) = Len(enc) /\ G(0) \in Seq(Frame) /\ \A i \in 1..Len(enc) : G(0)[i] = enc[i]
    BY <1>3, <1>4, <1>5, <2>1
  <2> HIDE DEF G
  <2> QED BY <1>4, <2>2, SameElements
<1>7. G(3) = enc'
  <2>1. Up(3) = k
    BY <1>3, <1>4
  <2>2. Len(G(3)) = Len(enc') /\ G(3) \in Seq(Frame) /\ \A i \in 1..Len(G(3)) : G(3)[i] = enc'[i]
    BY <1>3, <1>4, <1>5, <2>1
  <2> HIDE DEF G
  <2> QED BY <1>3, <2>2, SameElements
<1>8. ASSUME NEW j \in 1..3
      PROVE  \/ /\ Len(G(j)) = Len(G(j - 1)) + 1
                /\ \A i \in 1..Len(G(j - 1)) : G(j)[i] = G(j - 1)[i]
                /\ Image(j) = Units(Len(G(j - 1)) + 1, G(j)[Len(G(j - 1)) + 1])
             \/ G(j) = G(j - 1) /\ Image(j) = <<>>
  <2>1. j - 1 \in 0..3 /\ j \in 0..3
    OBVIOUS
  <2>2. CASE j <= k
    <3>1. Up(j) = j /\ Up(j - 1) = j - 1 /\ j \in 1..k
      BY <1>3, <2>2
    <3>2. Len(G(j)) = Len(enc) + j /\ Len(G(j - 1)) = Len(enc) + (j - 1)
      BY <1>5, <2>1, <3>1
    <3>3. /\ \A i \in 1..Len(enc) + j : G(j)[i] = enc'[i]
          /\ \A i \in 1..Len(enc) + (j - 1) : G(j - 1)[i] = enc'[i]
      BY <1>5, <2>1, <3>1
    <3>4. Image(j) = Units(Len(enc) + j, fs[j]) /\ enc'[Len(enc) + j] = fs[j]
      BY <1>3, <2>2, <3>1
    <3> HIDE DEF G, Image
    <3>5. Len(G(j - 1)) + 1 = Len(enc) + j /\ Len(enc) + j \in 1..Len(enc) + j
      BY <1>4, <3>2
    <3>6. G(j)[Len(enc) + j] = fs[j]
      BY <3>3, <3>4, <3>5
    <3>7. Image(j) = Units(Len(G(j - 1)) + 1, G(j)[Len(G(j - 1)) + 1])
      BY <3>4, <3>5, <3>6
    <3>8. ASSUME NEW i \in 1..Len(G(j - 1)) PROVE G(j)[i] = G(j - 1)[i]
      <4>1. i \in 1..Len(enc) + j /\ i \in 1..Len(enc) + (j - 1)
        BY <1>4, <3>2
      <4> QED BY <3>3, <4>1
    <3>9. Len(G(j)) = Len(G(j - 1)) + 1
      BY <3>2, <3>5
    <3> QED BY <3>7, <3>8, <3>9
  <2>3. CASE ~(j <= k)
    <3>1. Up(j) = k /\ Up(j - 1) = k
      BY <1>3, <2>3
    <3> QED BY <2>3, <3>1
  <2> QED BY <2>2, <2>3
<1>9. G(1) \in Seq(Frame) /\ G(2) \in Seq(Frame)
  BY <1>5
<1> DEFINE w1 == wbuf \o Image(1)
           w2 == w1 \o Image(2)
           w3 == w2 \o Image(3)
           e1 == G(1)
           e2 == G(2)
<1>10. \/ /\ Len(e1) = Len(enc) + 1 /\ \A i \in 1..Len(enc) : e1[i] = enc[i]
          /\ Image(1) = Units(Len(enc) + 1, e1[Len(enc) + 1])
       \/ e1 = enc /\ Image(1) = <<>>
  <2>1. 1 \in 1..3 /\ 1 - 1 = 0
    OBVIOUS
  <2> HIDE DEF G, Image
  <2> QED BY <1>6, <1>8, <2>1
<1>11. \/ /\ Len(e2) = Len(e1) + 1 /\ \A i \in 1..Len(e1) : e2[i] = e1[i]
          /\ Image(2) = Units(Len(e1) + 1, e2[Len(e1) + 1])
       \/ e2 = e1 /\ Image(2) = <<>>
  <2>1. 2 \in 1..3 /\ 2 - 1 = 1
    OBVIOUS
  <2> HIDE DEF G, Image
  <2> QED BY <1>8, <2>1
<1>12. \/ /\ Len(enc') = Len(e2) + 1 /\ \A i \in 1..Len(e2) : enc'[i] = e2[i]
          /\ Image(3) = Units(Len(e2) + 1, enc'[Len(e2) + 1])
       \/ enc' = e2 /\ Image(3) = <<>>
  <2>1. 3 \in 1..3 /\ 3 - 1 = 2
    OBVIOUS
  <2> HIDE DEF G, Image
  <2> QED BY <1>7, <1>8, <2>1
<1>13. wbuf' = w3 /\ e1 \in Seq(Frame) /\ e2 \in Seq(Frame)
  BY <1>1, <1>9
<1> DEFINE im1 == Image(1)
           im2 == Image(2)
           im3 == Image(3)
<1>14. w1 = wbuf \o im1 /\ w2 = w1 \o im2 /\ w3 = w2 \o im3
  OBVIOUS
<1>15. /\ \/ /\ Len(e1) = Len(enc) + 1 /\ \A i \in 1..Len(enc) : e1[i] = enc[i]
             /\ im1 = Units(Len(enc) + 1, e1[Len(enc) + 1])
          \/ e1 = enc /\ im1 = <<>>
       /\ \/ /\ Len(e2) = Len(e1) + 1 /\ \A i \in 1..Len(e1) : e2[i] = e1[i]
             /\ im2 = Units(Len(e1) + 1, e2[Len(e1) + 1])
          \/ e2 = e1 /\ im2 = <<>>
       /\ \/ /\ Len(enc') = Len(e2) + 1 /\ \A i \in 1..Len(e2) : enc'[i] = e2[i]
             /\ im3 = Units(Len(e2) + 1, enc'[Len(e2) + 1])
          \/ enc' = e2 /\ im3 = <<>>
  BY <1>10, <1>11, <1>12
<1> HIDE DEF G, Image, w1, w2, w3, e1, e2, im1, im2, im3
<1>16. w1 \in Seq(Unit) /\ \E o : Rest(e1, w1, o, y) /\ Longer(e1, o, enc, off)
  BY <1>4, <1>13, <1>14, <1>15, GrowMaybe
<1>17. PICK o1 : Rest(e1, w1, o1, y) /\ Longer(e1, o1, enc, off)
  BY <1>16
<1>18. w2 \in Seq(Unit) /\ \E o : Rest(e2, w2, o, y) /\ Longer(e2, o, e1, o1)
  BY <1>13, <1>14, <1>15, <1>16, <1>17, GrowMaybe
<1>19. PICK o2 : Rest(e2, w2, o2, y) /\ Longer(e2, o2, e1, o1)
  BY <1>18
<1>20. \E o : Rest(enc', w3, o, y) /\ Longer(enc', o, e2, o2)
  BY <1>3, <1>13, <1>14, <1>15, <1>18, <1>19, GrowMaybe
<1>21. PICK o3 : Rest(enc', w3, o3, y) /\ Longer(enc', o3, e2, o2)
  BY <1>20
<1>22. Longer(e2, o2, enc, off)
  BY <1>4, <1>13, <1>17, <1>19, LongerTrans
<1>23. Longer(enc', o3, enc, off)
  BY <1>3, <1>4, <1>13, <1>21, <1>22, LongerTrans
<1> QED BY <1>13, <1>21, <1>23

-----------------------------------------------------------------------------
(* What a step of the write half does to frames and units.                 *)
PlainFrames(fs) == fs \in Seq(Frame) /\ Len(fs) <= 3 /\ \A j \in 1..Len(fs) : Plain(fs[j])

Encodes == wire' = wire /\ \E fs \in Seq(Frame) : PlainFrames(fs) /\ Encode(fs)

Writes ==
    /\ enc' = enc
    /\ \E k \in 1..Len(wbuf) : wire' = wire \o FirstOf(wbuf, k) /\ wbuf' = After(wbuf, k)

Loses == cut' = TRUE /\ UNCHANGED <<enc, wbuf>> /\ \E k \in 0..Len(wire) : wire' = FirstOf(wire, k)

LEMMA PadIsPlain ==
  ASSUME NEW b \in Nat, NEW t \in 0..Segment
  PROVE  PlainFrames(PadBurst(b, t))
<1> DEFINE fs == PadBurst(b, t)
<1>1. fs \in Seq(Frame) /\ Len(fs) <= 2 /\ Len(fs) \in Nat
  <2>1. fs \in Seq(Frame) /\ Len(fs) <= 2
    BY PadCosts
  <2> HIDE DEF fs
  <2> QED BY <2>1
<1>2. ASSUME NEW j \in 1..Len(fs) PROVE Plain(fs[j])
  <2>1. fs[j].data = <<>>
    BY PadIsEmpty
  <2> HIDE DEF fs
  <2> QED BY <2>1 DEF Plain
<1>3. Len(fs) <= 3
  <2> HIDE DEF fs
  <2> QED BY <1>1
<1> QED BY <1>1, <1>2, <1>3 DEF PlainFrames

LEMMA PayloadIsPlain ==
  ASSUME Types, NEW n \in Nat
  PROVE  Plain(NextPayload(n)[1])
<1> DEFINE from == accepted + wr.sent
           bytes == [i \in 1..n |-> from + i]
<1>1. from \in Nat
  BY DEF Types
<1>2. NextPayload(n)[1] = [type |-> "payload", data |-> bytes, size |-> n]
  BY DEF NextPayload, Payload
<1> HIDE DEF from
<1>3. bytes \in Seq(Nat) /\ Len(bytes) = n
  BY <1>1
<1>4. \A i \in 1..n : bytes[i] = from + i
  OBVIOUS
<1> HIDE DEF bytes
<1>5. ASSUME NEW i \in 1..n PROVE bytes[i] = bytes[1] + i - 1
  <2>1. 1 \in 1..n
    OBVIOUS
  <2>2. bytes[1] = from + 1 /\ bytes[i] = from + i
    BY <1>4, <2>1
  <2> QED BY <1>1, <2>2
<1>6. NextPayload(n)[1].type # "prng_seed" /\ NextPayload(n)[1].data = bytes
  BY <1>2
<1> QED BY <1>3, <1>5, <1>6 DEF Plain

LEMMA PendsEncodes ==
  ASSUME Types, NEW waker, Pends(waker), wire' = wire
  PROVE  UNCHANGED <<enc, wbuf, wire>> \/ Encodes
<1>1. CASE wr.sent > 0 /\ mode # "paranoid"
  <2>1. PICK t \in Lengths : Encode(PadBurst(wr.burst, t))
    BY <1>1 DEF Pends, BackOff
  <2>2. t \in 0..Segment /\ wr.burst \in Nat
    BY WriterConstants DEF Types
  <2>3. PlainFrames(PadBurst(wr.burst, t))
    BY <2>2, PadIsPlain
  <2>4. PadBurst(wr.burst, t) \in Seq(Frame)
    BY <2>3 DEF PlainFrames
  <2> QED BY <2>1, <2>3, <2>4, Zenon DEF Encodes
<1>2. CASE ~(wr.sent > 0 /\ mode # "paranoid")
  BY <1>2 DEF Pends, BackOff
<1> QED BY <1>1, <1>2

LEMMA SendEncodes ==
  ASSUME Types, SendChunk \/ SendLast
  PROVE  Encodes
<1>1. wire' = wire
  BY DEF SendChunk, SendLast, netVars
<1>2. CASE SendChunk
  <2> DEFINE fs == NextPayload(MaxPayload)
  <2>1. fs \in Seq(Frame) /\ Len(fs) = 1 /\ Plain(fs[1]) /\ Encode(fs)
    BY <1>2, Sizes, NextPayloadCosts, PayloadIsPlain DEF SendChunk
  <2> HIDE DEF fs
  <2>2. PlainFrames(fs)
    BY <2>1 DEF PlainFrames
  <2> QED BY <1>1, <2>1, <2>2, Zenon DEF Encodes
<1>3. CASE SendLast
  <2> DEFINE n == wr.len - wr.sent
             p == NextPayload(n)
  <2>1. n \in Nat /\ wr.burst + Header + n \in Nat
    BY Sizes DEF Types
  <2>2. PICK t \in Lengths : Encode(IF mode = "paranoid" THEN p ELSE p \o PadBurst(wr.burst + Header + n, t))
    BY <1>3 DEF SendLast
  <2>3. t \in 0..Segment
    BY WriterConstants
  <2> DEFINE q == PadBurst(wr.burst + Header + n, t)
  <2>4. p \in Seq(Frame) /\ Len(p) = 1 /\ Plain(p[1])
    BY <2>1, NextPayloadCosts, PayloadIsPlain
  <2>5. q \in Seq(Frame) /\ Len(q) <= 2 /\ \A j \in 1..Len(q) : Plain(q[j])
    BY <2>1, <2>3, PadCosts, PadIsPlain DEF PlainFrames
  <2>6. Encode(IF mode = "paranoid" THEN p ELSE p \o q)
    BY <2>2
  <2> HIDE DEF p, q
  <2>7. CASE mode = "paranoid"
    <3>1. PlainFrames(p) /\ Encode(p)
      BY <2>4, <2>6, <2>7 DEF PlainFrames
    <3> QED BY <1>1, <2>4, <3>1, Zenon DEF Encodes
  <2>8. CASE mode # "paranoid"
    <3> DEFINE fs == p \o q
    <3>1. /\ fs \in Seq(Frame) /\ Len(fs) = Len(p) + Len(q)
          /\ \A i \in 1..Len(p) : fs[i] = p[i]
          /\ \A i \in 1..Len(q) : fs[Len(p) + i] = q[i]
      <4>1. p \in Seq(Frame) /\ q \in Seq(Frame)
        BY <2>4, <2>5
      <4> QED BY <4>1, Cat
    <3>2. Encode(fs)
      BY <2>6, <2>8
    <3> HIDE DEF fs
    <3>3. ASSUME NEW j \in 1..Len(fs) PROVE Plain(fs[j])
      <4>1. CASE j = 1
        <5>1. fs[1] = p[1]
          BY <2>4, <3>1
        <5> QED BY <2>4, <4>1, <5>1
      <4>2. CASE j # 1
        <5> DEFINE i == j - 1
        <5>1. i \in 1..Len(q) /\ Len(p) + i = j
          BY <2>4, <2>5, <3>1, <4>2
        <5> HIDE DEF i
        <5>2. fs[j] = q[i]
          BY <3>1, <5>1
        <5> QED BY <2>5, <5>1, <5>2
      <4> QED BY <4>1, <4>2
    <3>4. Len(fs) <= 3
      BY <2>4, <2>5, <3>1
    <3> QED BY <1>1, <3>1, <3>2, <3>3, <3>4, Zenon DEF Encodes, PlainFrames
  <2> QED BY <2>7, <2>8
<1> QED BY <1>2, <1>3

LEMMA WriterMoves ==
  ASSUME Types, WriterNext
  PROVE  UNCHANGED <<enc, wbuf, wire>> \/ Encodes \/ Writes \/ Loses
<1>1. ASSUME DelayPends \/ InnerPends \/ InnerInterrupted
      PROVE  UNCHANGED <<enc, wbuf, wire>> \/ Encodes
  BY <1>1, PendsEncodes DEF DelayPends, InnerPends, InnerInterrupted, netVars
<1>2. ASSUME NEW t \in Lengths, Schedule(t) PROVE UNCHANGED <<enc, wbuf, wire>> \/ Encodes
  <2>1. wire' = wire
    BY <1>2 DEF Schedule, netVars
  <2>2. CASE mode = "enabled" \/ Len(wbuf) >= Clamp(t)
    BY <1>2, <2>1, <2>2 DEF Schedule
  <2>3. CASE ~(mode = "enabled" \/ Len(wbuf) >= Clamp(t))
    <3> DEFINE fs == PadBurst(Len(wbuf), Clamp(t))
    <3>1. Len(wbuf) \in Nat /\ Clamp(t) \in 0..Segment
      BY ClampType, Sizes DEF Types
    <3>2. PlainFrames(fs) /\ Encode(fs)
      BY <1>2, <2>3, <3>1, PadIsPlain DEF Schedule
    <3> HIDE DEF fs
    <3> QED BY <2>1, <3>2, Zenon DEF Encodes, PlainFrames
  <2> QED BY <2>2, <2>3
<1>3. ASSUME NEW k \in 1..WireCap, InnerWrite(k) PROVE Writes
  <2>1. Len(wbuf) \in Nat /\ sched \in Nat /\ WireCap \in Nat
    BY WriterConstants DEF Types
  <2>2. k <= IF mode = "off" \/ Len(wbuf) < sched THEN Len(wbuf) ELSE sched
    BY <1>3 DEF InnerWrite
  <2>3. k \in 1..Len(wbuf)
    BY <2>1, <2>2
  <2>4. enc' = enc /\ wire' = wire \o FirstOf(wbuf, k) /\ wbuf' = After(wbuf, k)
    BY <1>3 DEF InnerWrite, FirstOf, After
  <2> QED BY <2>3, <2>4, Zenon DEF Writes
<1>4. ASSUME Cut PROVE Loses
  BY <1>4 DEF Cut, Loses, wrVars, FirstOf
<1>5. ASSUME \/ \E n \in 1..MaxBytes : WriteCall(n)
             \/ FlushCall \/ ShutdownCall \/ PollReady \/ DelayOver
             \/ InnerFails \/ BufferOut \/ InnerClose \/ TimerElapses \/ Repoll \/ Abandon
      PROVE  UNCHANGED <<enc, wbuf, wire>>
  BY <1>5 DEF WriteCall, FlushCall, ShutdownCall, PollReady, DelayOver, InnerFails, BufferOut,
     InnerClose, TimerElapses, Repoll, Abandon, netVars
<1> QED BY <1>1, <1>2, <1>3, <1>4, <1>5, SendEncodes DEF WriterNext, WriterSteps

(* Frames are only added.                                                  *)
LEMMA FramesAdded ==
  ASSUME Types, WriterNext
  PROVE  /\ enc' \in Seq(Frame) /\ Len(enc') \in Nat /\ Len(enc) \in Nat /\ Len(enc) <= Len(enc')
         /\ \A j \in 1..Len(enc) : enc'[j] = enc[j]
         /\ \A j \in 1..Len(enc') : j \in 1..Len(enc) \/ Plain(enc'[j])
<1>1. enc \in Seq(Frame) /\ Len(enc) \in Nat
  BY DEF Types
<1>2. CASE enc' = enc
  BY <1>1, <1>2
<1>3. CASE Encodes
  <2>1. PICK fs \in Seq(Frame) : PlainFrames(fs) /\ Encode(fs)
    BY <1>3 DEF Encodes
  <2> DEFINE k == IF Len(fs) < Room THEN Len(fs) ELSE Room
  <2>2. k = IF Len(fs) < Room THEN Len(fs) ELSE Room
    OBVIOUS
  <2> HIDE DEF k
  <2>3. /\ k \in Nat /\ k <= Len(fs) /\ enc' \in Seq(Frame) /\ Len(enc') = Len(enc) + k
        /\ \A j \in 1..Len(enc) : enc'[j] = enc[j]
        /\ \A j \in 1..k : enc'[Len(enc) + j] = fs[j]
    BY <2>1, <2>2, EncodeAdds
  <2>4. ASSUME NEW j \in 1..Len(enc'), j \notin 1..Len(enc) PROVE Plain(enc'[j])
    <3> DEFINE i == j - Len(enc)
    <3>1. Len(fs) \in Nat
      OBVIOUS
    <3>2. i \in 1..k /\ i \in 1..Len(fs) /\ Len(enc) + i = j
      BY <1>1, <2>3, <2>4, <3>1
    <3> HIDE DEF i
    <3>3. enc'[j] = fs[i]
      BY <2>3, <3>2
    <3> QED BY <2>1, <3>2, <3>3 DEF PlainFrames
  <2>5. Len(enc') \in Nat /\ Len(enc) <= Len(enc')
    BY <1>1, <2>3
  <2> QED BY <1>1, <2>3, <2>4, <2>5
<1> QED BY <1>2, <1>3, WriterMoves DEF Writes, Loses

LEMMA FramesStayPlain == ASSUME Types, FramesPlain, WriterNext PROVE FramesPlain'
<1>1. SUFFICES ASSUME NEW j \in 1..Len(enc') PROVE Plain(enc'[j])
  BY DEF FramesPlain, Plain
<1>2. CASE j \in 1..Len(enc)
  <2>1. enc'[j] = enc[j]
    BY <1>2, FramesAdded
  <2> QED BY <1>2, <2>1 DEF FramesPlain
<1> QED BY <1>2, FramesAdded

(* After the shutdown the write half is at rest.                           *)
LEMMA Shut ==
  ASSUME CloseInv, down, WriterNext
  PROVE  UNCHANGED <<enc, wbuf, wr, accepted, down, fin>> /\ (UNCHANGED <<wire, cut>> \/ Loses)
<1>1. wr.op = "none" /\ wr.at = "-"
  BY DEF CloseInv, NoCall
<1>2. ASSUME \/ \E n \in 1..MaxBytes : WriteCall(n)
             \/ FlushCall \/ ShutdownCall \/ PollReady \/ SendChunk \/ SendLast
             \/ DelayPends \/ DelayOver \/ InnerPends \/ InnerInterrupted \/ InnerFails
             \/ BufferOut \/ InnerClose \/ Repoll \/ Abandon
      PROVE  FALSE
  BY <1>1, <1>2 DEF WriteCall, FlushCall, ShutdownCall, PollReady, SendChunk, SendLast,
     DelayPends, DelayOver, InnerPends, InnerInterrupted, InnerFails, BufferOut, InnerClose,
     Repoll, Abandon, Flushing, Connected
<1>3. ASSUME \/ \E t \in Lengths : Schedule(t)
             \/ \E k \in 1..WireCap : InnerWrite(k)
      PROVE  FALSE
  BY <1>1, <1>3 DEF Schedule, InnerWrite, Flushing, Connected
<1>4. ASSUME TimerElapses
      PROVE  UNCHANGED <<enc, wbuf, wr, accepted, down, fin>> /\ UNCHANGED <<wire, cut>>
  BY <1>4 DEF TimerElapses, netVars
<1>5. ASSUME Cut PROVE UNCHANGED <<enc, wbuf, wr, accepted, down, fin>> /\ Loses
  BY <1>5 DEF Cut, wrVars, Loses, FirstOf
<1> QED BY <1>2, <1>3, <1>4, <1>5 DEF WriterNext, WriterSteps

(* The connection is closed only by the shutdown, and lost for good.       *)
LEMMA ConnectionKept ==
  ASSUME WriterNext
  PROVE  /\ cut' = cut \/ cut' = TRUE
         /\ cut' = cut \/ UNCHANGED wrVars
         /\ UNCHANGED <<down, fin>> \/ InnerClose
<1>1. ASSUME NEW t, Schedule(t) PROVE UNCHANGED <<down, fin, cut>>
  BY <1>1 DEF Schedule, netVars
<1>2. ASSUME NEW k, InnerWrite(k) PROVE UNCHANGED <<down, fin, cut>>
  BY <1>2 DEF InnerWrite
<1>3. ASSUME \/ \E n \in 1..MaxBytes : WriteCall(n)
             \/ FlushCall \/ ShutdownCall \/ PollReady \/ SendChunk \/ SendLast
             \/ DelayPends \/ DelayOver \/ InnerPends \/ InnerInterrupted \/ InnerFails
             \/ BufferOut \/ Repoll \/ Abandon \/ TimerElapses
      PROVE  UNCHANGED <<down, fin, cut>>
  BY <1>3 DEF WriteCall, FlushCall, ShutdownCall, PollReady, SendChunk, SendLast,
     DelayPends, DelayOver, InnerPends, InnerInterrupted, InnerFails, BufferOut,
     Repoll, Abandon, TimerElapses, netVars
<1>4. ASSUME InnerClose PROVE cut' = cut
  BY <1>4 DEF InnerClose
<1>5. ASSUME Cut PROVE cut' = TRUE /\ UNCHANGED <<down, fin>> /\ UNCHANGED wrVars
  BY <1>5 DEF Cut, wrVars
<1> QED BY <1>1, <1>2, <1>3, <1>4, <1>5 DEF WriterNext, WriterSteps

LEMMA CloseKept == ASSUME Types, CloseInv, WriterNext PROVE CloseInv'
<1>1. CASE down
  <2>1. UNCHANGED <<enc, wbuf, wr, accepted, down, fin>>
    BY <1>1, Shut
  <2>2. cut' \in BOOLEAN
    BY ConnectionKept DEF CloseInv
  <2> QED BY <2>1, <2>2 DEF CloseInv
<1>2. CASE ~down /\ InnerClose
  <2>1. wbuf' = <<>> /\ wr' = NoCall /\ down' = TRUE /\ fin' = TRUE /\ cut' = cut
    BY <1>2 DEF InnerClose, CloseInv
  <2> QED BY <2>1 DEF CloseInv
<1>3. CASE ~down /\ ~InnerClose
  <2>1. down' = down /\ fin' = fin /\ ~down'
    <3>1. UNCHANGED <<down, fin>>
      BY <1>3, ConnectionKept, Zenon
    <3>2. down' = down /\ fin' = fin
      BY <3>1
    <3> QED BY <1>3, <3>2, Zenon
  <2>3. cut' \in BOOLEAN
    BY ConnectionKept DEF CloseInv
  <2>2. wr'.at = "close" => wbuf' = <<>>
    <3>1. IsCall
      BY DEF Types
    <3>2. ASSUME wr' = NoCall \/ wr'.at # "close" \/ (wr' = wr /\ wbuf' = wbuf)
          PROVE  wr'.at = "close" => wbuf' = <<>>
      BY <3>2, NoCallIs DEF CloseInv
    <3>3. ASSUME NEW waker, Pends(waker) PROVE wr' = NoCall \/ wr'.at # "close"
      <4>1. CASE wr.sent > 0
        BY <3>3, <4>1 DEF Pends, BackOff, Return
      <4>2. CASE ~(wr.sent > 0)
        <5>1. wr' = [wr EXCEPT !.at = "parked", !.wake = waker]
          BY <3>3, <4>2 DEF Pends
        <5>2. wr'.at = "parked"
          BY <3>1, <5>1 DEF IsCall
        <5> QED BY <5>2
      <4> QED BY <4>1, <4>2
    <3>4. ASSUME NEW n \in 1..MaxBytes, WriteCall(n) PROVE wr'.at # "close"
      <4>1. wr' = Call("write", "ready", n)
        BY <3>4 DEF WriteCall
      <4> QED BY <4>1, CallIs
    <3>5. ASSUME FlushCall \/ ShutdownCall PROVE wr'.at # "close"
      <4>1. wr' = Call("flush", "flush", 0) \/ wr' = Call("shutdown", "flush", 0)
        BY <3>5 DEF FlushCall, ShutdownCall
      <4> QED BY <4>1, CallIs
    <3>6. ASSUME PollReady \/ Repoll PROVE wr'.at # "close"
      BY <3>1, <3>6 DEF PollReady, Repoll, IsCall
    <3>7. ASSUME SendChunk PROVE wr' = NoCall \/ wr'.at # "close"
      <4>1. wr' = NoCall \/ wr' = [wr EXCEPT !.at = "ready", !.sent = @ + MaxPayload, !.burst = @ + Segment]
        BY <3>7 DEF SendChunk, Fails, Return
      <4> QED BY <3>1, <4>1 DEF IsCall
    <3>8. ASSUME SendLast \/ InnerFails \/ Abandon PROVE wr' = NoCall
      BY <3>8 DEF SendLast, InnerFails, Abandon, Fails, Return
    <3>9. ASSUME DelayOver \/ TimerElapses \/ Cut PROVE wr' = wr /\ wbuf' = wbuf
      BY <3>9 DEF DelayOver, TimerElapses, Cut, wrVars
    <3>10. ASSUME NEW t \in Lengths, Schedule(t) PROVE wr' = NoCall \/ wr'.at # "close"
      <4>1. \/ wr' = wr /\ wr.at = "flush"
            \/ wr' = NoCall
            \/ wr' = [wr EXCEPT !.at = IF wr.op = "write" THEN "ready" ELSE "flush"]
        BY <3>10 DEF Schedule, Flushing, Fails, Return
      <4> QED BY <3>1, <4>1 DEF IsCall
    <3>11. ASSUME NEW k \in 1..WireCap, InnerWrite(k) PROVE wr'.at # "close"
      BY <3>11 DEF InnerWrite, Connected, Flushing
    <3>12. ASSUME BufferOut PROVE wr'.at = "close" => wbuf' = <<>>
      BY <3>12 DEF BufferOut
    <3>13. ASSUME DelayPends \/ InnerPends \/ InnerInterrupted PROVE wr' = NoCall \/ wr'.at # "close"
      BY <3>3, <3>13 DEF DelayPends, InnerPends, InnerInterrupted
    <3> QED BY <1>3, <3>2, <3>4, <3>5, <3>6, <3>7, <3>8, <3>9, <3>10, <3>11, <3>12, <3>13
            DEF WriterNext, WriterSteps
  <2> QED BY <2>1, <2>2, <2>3 DEF CloseInv
<1> QED BY <1>1, <1>2, <1>3

-----------------------------------------------------------------------------
(* Units on their way.                                                     *)
LEMMA LaidLast ==
  ASSUME NEW e \in Seq(Frame), NEW off, Laid(e, off)
  PROVE  off[Len(e) + 1] \in Nat
<1>1. Len(e) + 1 \in 1..Len(e) + 1
  OBVIOUS
<1> QED BY <1>1 DEF Laid

LEMMA WayWrites ==
  ASSUME NEW e \in Seq(Frame), NEW off, NEW x \in Nat, NEW r \in Seq(Unit), NEW w \in Seq(Unit),
         NEW b \in Seq(Unit), NEW k \in 0..Len(b), OnItsWay(e, off, x, r, w, b)
  PROVE  OnItsWay(e, off, x, r, w \o FirstOf(b, k), After(b, k))
<1> DEFINE f == FirstOf(b, k)
           a == After(b, k)
           y == x + Len(r)
           z == x + Len(r) + Len(w)
           c == w \o f
<1>1. /\ Len(r) \in Nat /\ Len(w) \in Nat /\ Len(b) \in Nat /\ k \in Nat
      /\ y \in Nat /\ z \in Nat /\ z = y + Len(w) /\ k <= Len(b)
  OBVIOUS
<1>2. f \in Seq(Unit) /\ Len(f) = k /\ a \in Seq(Unit) /\ Len(a) = Len(b) - k
  BY Parts
<1>3. c \in Seq(Unit) /\ Len(c) = Len(w) + k
  BY <1>2, Cat
<1>4. /\ Laid(e, off) /\ Placed(r, e, off, x) /\ Placed(w, e, off, y) /\ Placed(b, e, off, z)
      /\ z + Len(b) = off[Len(e) + 1]
  BY DEF OnItsWay
<1>5. Placed(f, e, off, z) /\ Placed(a, e, off, z + k)
  BY <1>1, <1>4, PlacedParts
<1> HIDE DEF f, a, y, z
<1>6. Placed(c, e, off, y)
  BY <1>1, <1>2, <1>4, <1>5, PlacedCat
<1> HIDE DEF c
<1>7. y + Len(c) = z + k
  BY <1>1, <1>3
<1>8. z + k + Len(a) = z + Len(b)
  BY <1>1, <1>2
<1>9. y = x + Len(r)
  BY DEF y
<1>10. OnItsWay(e, off, x, r, c, a)
  BY <1>4, <1>5, <1>6, <1>7, <1>8, <1>9, Zenon DEF OnItsWay
<1> QED BY <1>10 DEF c, f, a

LEMMA WayReads ==
  ASSUME NEW e \in Seq(Frame), NEW off, NEW x \in Nat, NEW r \in Seq(Unit), NEW w \in Seq(Unit),
         NEW b \in Seq(Unit), NEW k \in 0..Len(w), OnItsWay(e, off, x, r, w, b)
  PROVE  OnItsWay(e, off, x, r \o FirstOf(w, k), After(w, k), b)
<1> DEFINE f == FirstOf(w, k)
           a == After(w, k)
           y == x + Len(r)
           z == x + Len(r) + Len(w)
           c == r \o f
<1>1. /\ Len(r) \in Nat /\ Len(w) \in Nat /\ Len(b) \in Nat /\ k \in Nat
      /\ y \in Nat /\ z \in Nat /\ z = y + Len(w) /\ k <= Len(w)
  OBVIOUS
<1>2. f \in Seq(Unit) /\ Len(f) = k /\ a \in Seq(Unit) /\ Len(a) = Len(w) - k
  BY Parts
<1>3. c \in Seq(Unit) /\ Len(c) = Len(r) + k
  BY <1>2, Cat
<1>4. /\ Laid(e, off) /\ Placed(r, e, off, x) /\ Placed(w, e, off, y) /\ Placed(b, e, off, z)
      /\ z + Len(b) = off[Len(e) + 1]
  BY DEF OnItsWay
<1>5. Placed(f, e, off, y) /\ Placed(a, e, off, y + k)
  BY <1>1, <1>4, PlacedParts
<1>6. y = x + Len(r)
  OBVIOUS
<1> HIDE DEF f, a, y, z
<1>7. Placed(c, e, off, x)
  BY <1>2, <1>4, <1>5, <1>6, PlacedCat
<1> HIDE DEF c
<1>8. x + Len(c) = y + k
  BY <1>1, <1>3, <1>6
<1>9. y + k + Len(a) = z
  BY <1>1, <1>2
<1>10. OnItsWay(e, off, x, c, a, b)
  BY <1>4, <1>5, <1>7, <1>8, <1>9, Zenon DEF OnItsWay
<1> QED BY <1>10 DEF c, f, a

LEMMA WayTakes ==
  ASSUME NEW e \in Seq(Frame), NEW off, NEW x \in Nat, NEW r \in Seq(Unit), NEW w \in Seq(Unit),
         NEW b \in Seq(Unit), NEW k \in 0..Len(r), OnItsWay(e, off, x, r, w, b)
  PROVE  OnItsWay(e, off, x + k, After(r, k), w, b)
<1> DEFINE a == After(r, k)
           y == x + Len(r)
<1>1. Len(r) \in Nat /\ k \in Nat /\ k <= Len(r) /\ y \in Nat /\ y = x + Len(r)
  OBVIOUS
<1>2. a \in Seq(Unit) /\ Len(a) = Len(r) - k
  BY Parts
<1>3. /\ Laid(e, off) /\ Placed(r, e, off, x) /\ Placed(w, e, off, y) /\ Placed(b, e, off, y + Len(w))
      /\ y + Len(w) + Len(b) = off[Len(e) + 1]
  BY DEF OnItsWay
<1>4. Placed(a, e, off, x + k)
  BY <1>3, PlacedParts
<1> HIDE DEF a, y
<1>5. x + k + Len(a) = y
  BY <1>1, <1>2
<1>6. OnItsWay(e, off, x + k, a, w, b)
  BY <1>3, <1>4, <1>5, Zenon DEF OnItsWay
<1> QED BY <1>6 DEF a

LEMMA WayGrows ==
  ASSUME NEW e \in Seq(Frame), NEW g \in Seq(Frame), NEW off, NEW o, NEW x \in Nat,
         NEW r \in Seq(Unit), NEW w \in Seq(Unit), NEW b, NEW c, OnItsWay(e, off, x, r, w, b),
         Longer(g, o, e, off), Rest(g, c, o, x + Len(r) + Len(w))
  PROVE  OnItsWay(g, o, x, r, w, c)
<1>1. Placed(r, e, off, x) /\ Placed(w, e, off, x + Len(r)) /\ x + Len(r) \in Nat
  BY DEF OnItsWay
<1>2. Placed(r, g, o, x) /\ Placed(w, g, o, x + Len(r))
  BY <1>1, PlacedStays
<1> QED BY <1>2, Zenon DEF OnItsWay, Rest

-----------------------------------------------------------------------------
(* Steps of the write half.                                                *)
LEMMA BufKept == ASSUME Types, BufInv, WriterNext PROVE BufInv'
<1>1. PICK off : \E y \in Nat : Rest(enc, wbuf, off, y)
  BY DEF BufInv
<1>2. PICK y \in Nat : Rest(enc, wbuf, off, y)
  BY <1>1
<1>3. CASE UNCHANGED <<enc, wbuf>>
  <2>1. Rest(enc', wbuf', off, y)
    BY <1>2, <1>3
  <2> QED BY <2>1 DEF BufInv
<1>4. CASE Encodes
  <2>1. PICK fs \in Seq(Frame) : PlainFrames(fs) /\ Encode(fs)
    BY <1>4 DEF Encodes
  <2>2. Len(fs) <= 3
    BY <2>1 DEF PlainFrames
  <2>3. \E o : Rest(enc', wbuf', o, y)
    BY <1>2, <2>1, <2>2, EncodeGrows
  <2> QED BY <2>3 DEF BufInv
<1>5. CASE Writes
  <2>1. PICK k \in 1..Len(wbuf) : enc' = enc /\ wbuf' = After(wbuf, k)
    BY <1>5 DEF Writes
  <2>2. wbuf \in Seq(Unit) /\ Len(wbuf) \in Nat /\ k \in 0..Len(wbuf) /\ y + k \in Nat
    BY DEF Types
  <2>3. Laid(enc, off) /\ Placed(wbuf, enc, off, y) /\ y + Len(wbuf) = off[Len(enc) + 1]
    BY <1>2 DEF Rest
  <2>4. Placed(wbuf', enc', off, y + k)
    BY <2>1, <2>2, <2>3, PlacedParts
  <2>5. Len(wbuf') = Len(wbuf) - k
    BY <2>1, <2>2, Parts
  <2>6. y + k + Len(wbuf') = off[Len(enc') + 1] /\ Laid(enc', off)
    <3>1. y + k + Len(wbuf') = y + Len(wbuf)
      BY <2>2, <2>5
    <3> QED BY <2>1, <2>3, <3>1, Zenon
  <2>7. Rest(enc', wbuf', off, y + k)
    BY <2>4, <2>6 DEF Rest
  <2> QED BY <2>2, <2>7 DEF BufInv
<1> QED BY <1>3, <1>4, <1>5, WriterMoves DEF Loses

LEMMA BufKnown == ASSUME Types, BufInv PROVE Known(wbuf)
<1>1. PICK off : \E y \in Nat : Rest(enc, wbuf, off, y)
  BY DEF BufInv
<1>2. PICK y \in Nat : Rest(enc, wbuf, off, y)
  BY <1>1
<1>3. ASSUME NEW k \in 1..Len(wbuf) PROVE wbuf[k].n <= Len(enc)
  <2>1. At(wbuf[k], enc, off, y + k)
    BY <1>2 DEF Rest, Placed
  <2>2. wbuf[k].n \in 1..Len(enc) /\ Len(enc) \in Nat
    BY <2>1 DEF At, Types
  <2> QED BY <2>2
<1> QED BY <1>3 DEF Known, Types

(* What is known of the parts.                                             *)
LEMMA KnownCat ==
  ASSUME NEW s, NEW t, Known(s), Known(t)
  PROVE  Known(s \o t)
<1> DEFINE c == s \o t
<1>1. s \in Seq(Unit) /\ t \in Seq(Unit) /\ Len(s) \in Nat /\ Len(t) \in Nat
  BY DEF Known
<1>2. /\ c \in Seq(Unit) /\ Len(c) = Len(s) + Len(t)
      /\ \A i \in 1..Len(s) : c[i] = s[i]
      /\ \A i \in 1..Len(t) : c[Len(s) + i] = t[i]
  BY <1>1, Cat
<1> HIDE DEF c
<1>3. ASSUME NEW k \in 1..Len(c) PROVE c[k].n <= Len(enc)
  <2>1. CASE k <= Len(s)
    <3>1. k \in 1..Len(s)
      BY <1>1, <2>1
    <3> QED BY <1>2, <3>1 DEF Known
  <2>2. CASE ~(k <= Len(s))
    <3> DEFINE j == k - Len(s)
    <3>1. j \in 1..Len(t) /\ Len(s) + j = k
      BY <1>1, <1>2, <2>2
    <3> HIDE DEF j
    <3>2. c[k] = t[j]
      BY <1>2, <3>1
    <3> QED BY <3>1, <3>2 DEF Known
  <2> QED BY <2>1, <2>2
<1> QED BY <1>2, <1>3 DEF Known, c

LEMMA KnownParts ==
  ASSUME NEW s, Known(s), NEW k \in 0..Len(s)
  PROVE  Known(FirstOf(s, k)) /\ Known(After(s, k))
<1> DEFINE f == FirstOf(s, k)
           a == After(s, k)
<1>1. s \in Seq(Unit) /\ Len(s) \in Nat
  BY DEF Known
<1>2. /\ f \in Seq(Unit) /\ Len(f) = k /\ \A i \in 1..k : f[i] = s[i]
      /\ a \in Seq(Unit) /\ Len(a) = Len(s) - k /\ \A i \in 1..Len(s) - k : a[i] = s[k + i]
  BY <1>1, Parts
<1> HIDE DEF f, a
<1>3. ASSUME NEW i \in 1..Len(f) PROVE f[i].n <= Len(enc)
  <2>1. i \in 1..k /\ i \in 1..Len(s)
    BY <1>1, <1>2
  <2> QED BY <1>2, <2>1 DEF Known
<1>4. ASSUME NEW i \in 1..Len(a) PROVE a[i].n <= Len(enc)
  <2>1. i \in 1..Len(s) - k /\ k + i \in 1..Len(s)
    BY <1>1, <1>2
  <2> QED BY <1>2, <2>1 DEF Known
<1> QED BY <1>2, <1>3, <1>4 DEF Known, f, a

LEMMA KnownLater ==
  ASSUME Types, WriterNext, NEW s, Known(s)
  PROVE  s \in Seq(Unit) /\ \A k \in 1..Len(s) : s[k].n <= Len(enc')
<1>1. Len(enc) \in Nat /\ Len(enc') \in Nat /\ Len(enc) <= Len(enc')
  BY FramesAdded
<1>2. s \in Seq(Unit)
  BY DEF Known
<1>3. ASSUME NEW k \in 1..Len(s) PROVE s[k].n <= Len(enc')
  <2>1. s[k] \in Unit
    BY <1>2
  <2>2. s[k].n \in Nat /\ s[k].n <= Len(enc)
    BY <2>1 DEF Known, Unit
  <2> QED BY <1>1, <2>2
<1> QED BY <1>2, <1>3

LEMMA WriterReaderTypes ==
  ASSUME Types, BufInv, ReaderTypes, WriterNext, UNCHANGED rdVars
  PROVE  ReaderTypes'
<1>1. UNCHANGED <<rd, rbuf, ctr, nlen, resid, got, ended, damaged>>
  BY DEF rdVars
<1>2. Known(rbuf) /\ Known(wire) /\ Known(wbuf)
  BY BufKnown DEF ReaderTypes
<1>3. Known(wire')
  <2>1. CASE wire' = wire
    BY <1>2, <2>1
  <2>2. CASE Writes
    <3>1. PICK k \in 1..Len(wbuf) : wire' = wire \o FirstOf(wbuf, k)
      BY <2>2 DEF Writes
    <3>2. k \in 0..Len(wbuf)
      BY DEF Types
    <3>3. Known(FirstOf(wbuf, k))
      BY <1>2, <3>2, KnownParts
    <3>4. Known(wire \o FirstOf(wbuf, k))
      BY <1>2, <3>3, KnownCat
    <3> QED BY <3>1, <3>4
  <2>3. CASE Loses
    <3>1. PICK k \in 0..Len(wire) : wire' = FirstOf(wire, k)
      BY <2>3 DEF Loses
    <3> QED BY <1>2, <3>1, KnownParts
  <2> QED BY <2>1, <2>2, <2>3, WriterMoves DEF Encodes
<1>4. Known(rbuf)'
  <2>1. rbuf \in Seq(Unit) /\ \A k \in 1..Len(rbuf) : rbuf[k].n <= Len(enc')
    BY <1>2, KnownLater
  <2> QED BY <1>1, <2>1 DEF Known
<1>5. Known(wire)'
  <2>1. wire' \in Seq(Unit) /\ \A k \in 1..Len(wire') : wire'[k].n <= Len(enc')
    BY <1>3, KnownLater
  <2> QED BY <2>1 DEF Known
<1> QED BY <1>1, <1>4, <1>5 DEF ReaderTypes, IsReader

(* What was taken from the application stays taken.                        *)
LEMMA BytesStay ==
  ASSUME Types, Types', ByteInv, ByteInv', WriterNext
  PROVE  accepted + wr.sent <= accepted' + wr'.sent
<1> DEFINE n == accepted + wr.sent
           m == accepted' + wr'.sent
<1>1. n \in Nat /\ m \in Nat
  <2>1. accepted \in Nat /\ wr.len \in Nat /\ wr.sent \in 0..wr.len
    BY DEF Types
  <2>2. accepted' \in Nat /\ wr'.len \in Nat /\ wr'.sent \in 0..wr'.len
    BY DEF Types
  <2> QED BY <2>1, <2>2
<1>2. InOrder(enc, n) /\ InOrder(enc', m)
  BY DEF ByteInv, AcceptedIsEncoded
<1> HIDE DEF n, m
<1>3. CASE n = 0
  BY <1>1, <1>3 DEF n, m
<1>4. CASE n # 0
  <2>1. n \in 1..n
    BY <1>1, <1>4
  <2>2. PICK j \in DOMAIN enc : \E i \in DOMAIN enc[j].data : enc[j].data[i] = n
    BY <1>2, <2>1, Zenon DEF InOrder
  <2>3. DOMAIN enc = 1..Len(enc) /\ DOMAIN enc' = 1..Len(enc')
    BY DEF Types
  <2>4. j \in DOMAIN enc' /\ enc'[j] = enc[j]
    BY <2>3, FramesAdded
  <2>5. PICK i \in DOMAIN enc[j].data : enc[j].data[i] = n
    BY <2>2
  <2>6. i \in DOMAIN enc'[j].data /\ enc'[j].data[i] = n
    BY <2>4, <2>5
  <2>7. enc'[j].data[i] \in 1..m
    BY <1>2, <2>4, <2>6, Zenon DEF InOrder
  <2> QED BY <1>1, <2>6, <2>7 DEF n, m
<1> QED BY <1>3, <1>4

LEMMA WriterGot ==
  ASSUME Types, Types', ByteInv, ByteInv', ReaderTypes, GotInv, WriterNext, UNCHANGED rdVars
  PROVE  GotInv'
<1>1. UNCHANGED <<rd, ctr, nlen, resid, got, ended>>
  BY DEF rdVars
<1> DEFINE n == accepted + wr.sent
           m == accepted' + wr'.sent
<1>2. n \in Nat /\ m \in Nat /\ n <= m
  <2>1. accepted \in Nat /\ wr.len \in Nat /\ wr.sent \in 0..wr.len
    BY DEF Types
  <2>2. accepted' \in Nat /\ wr'.len \in Nat /\ wr'.sent \in 0..wr'.len
    BY DEF Types
  <2> QED BY <2>1, <2>2, BytesStay
<1>3. Had \in Nat /\ Had <= n /\ Had' = Had /\ Place' = Place /\ (Alive' <=> Alive)
  BY <1>1 DEF GotInv, ReaderTypes, Had, Place, Alive
<1>4. InOrder(enc, n) /\ InOrder(enc', m)
  BY DEF ByteInv, AcceptedIsEncoded
<1>5. /\ Len(enc') \in Nat /\ Len(enc) \in Nat /\ Len(enc) <= Len(enc')
      /\ \A j \in 1..Len(enc) : enc'[j] = enc[j]
      /\ enc \in Seq(Frame) /\ enc' \in Seq(Frame)
  BY FramesAdded DEF Types
<1>6. Had' <= m
  BY <1>2, <1>3
<1>7. ASSUME Alive PROVE Place \in Nat /\ Place <= Len(enc) + 1
  BY <1>7 DEF GotInv, ReaderTypes, Place
<1>8. ASSUME Alive, NEW j \in 1..Len(enc'), NEW i \in 1..Len(enc'[j].data)
      PROVE  IF j < Place THEN enc'[j].data[i] <= Had ELSE enc'[j].data[i] > Had
  <2>1. CASE j <= Len(enc)
    <3>1. j \in 1..Len(enc) /\ enc'[j] = enc[j]
      BY <1>5, <2>1
    <3> QED BY <1>8, <3>1 DEF GotInv
  <2>2. CASE ~(j <= Len(enc))
    <3>1. ~(j < Place)
      BY <1>5, <1>7, <1>8, <2>2
    <3>2. enc'[j].data \in Seq(Nat)
      <4>1. enc'[j] \in Frame
        BY <1>5, <1>8
      <4> QED BY <4>1 DEF Frame
    <3>3. DOMAIN enc = 1..Len(enc) /\ DOMAIN enc' = 1..Len(enc') /\ i \in DOMAIN enc'[j].data
      BY <1>5, <3>2
    <3>4. enc'[j].data[i] \in 1..m
      BY <1>4, <3>3, Zenon DEF InOrder
    <3>5. CASE Had = 0
      BY <3>1, <3>4, <3>5
    <3>6. CASE Had # 0
      <4>1. Had \in 1..n
        BY <1>2, <1>3, <3>6
      <4>2. PICK h \in DOMAIN enc : \E q \in DOMAIN enc[h].data : enc[h].data[q] = Had
        BY <1>4, <4>1, Zenon DEF InOrder
      <4>3. PICK q \in DOMAIN enc[h].data : enc[h].data[q] = Had
        BY <4>2
      <4>4. h \in DOMAIN enc' /\ enc'[h] = enc[h] /\ h < j
        BY <1>5, <2>2, <3>3
      <4>5. enc'[h].data[q] < enc'[j].data[i]
        BY <1>4, <3>3, <4>3, <4>4, Zenon DEF InOrder
      <4> QED BY <1>3, <3>1, <3>4, <4>3, <4>4, <4>5
    <3> QED BY <3>5, <3>6
  <2> QED BY <2>1, <2>2
<1>9. ASSUME Alive PROVE Place <= Len(enc') + 1
  BY <1>5, <1>7, <1>9
<1>10. /\ \A i \in 1..Len(got') : got'[i] = i
       /\ \A i \in 1..Len(resid') : resid'[i] = Len(got') + i
  BY <1>1 DEF GotInv
<1> QED BY <1>3, <1>6, <1>8, <1>9, <1>10 DEF GotInv

LEMMA TakenType ==
  ASSUME NEW off, Laid(enc, off), Place \in 1..Len(enc) + 1
  PROVE  Taken(off) \in Nat
<1>1. off[Place] \in Nat
  BY DEF Laid
<1> QED BY <1>1 DEF Taken

LEMMA WriterWhole ==
  ASSUME Types, Types', CloseInv, ReaderTypes, WholeInv, WriterNext, UNCHANGED rdVars
  PROVE  WholeInv'
<1>1. UNCHANGED <<rd, rbuf, ctr, nlen, resid, got, ended, damaged>>
  BY DEF rdVars
<1>2. SUFFICES ASSUME Whole' PROVE WholeInv'
  BY DEF WholeInv
<1>3. ~cut' /\ ~damaged' /\ damaged' = damaged
  BY <1>1, <1>2 DEF Whole
<1>4. Whole
  <2>1. ~cut
    BY <1>3, ConnectionKept, Zenon
  <2> QED BY <1>3, <2>1, Zenon DEF Whole
<1>5. ~Loses
  BY <1>3 DEF Loses
<1>6. /\ rd.st # "failed" /\ ~rd.errored
      /\ rd.eof => fin /\ wire = <<>>
      /\ Place \in 1..Len(enc) + 1
      /\ nlen > 0 => Place <= Len(enc) /\ nlen = Header + enc[Place].size - 1
      /\ \E off : OnItsWay(enc, off, Taken(off), rbuf, wire, wbuf)
  BY <1>4 DEF WholeInv
<1>7. /\ Len(enc') \in Nat /\ Len(enc) \in Nat /\ Len(enc) <= Len(enc')
      /\ \A j \in 1..Len(enc) : enc'[j] = enc[j]
      /\ enc \in Seq(Frame) /\ enc' \in Seq(Frame)
  BY FramesAdded DEF Types
<1>8. Place' = Place
  BY <1>1 DEF Place
<1>9. rd'.st # "failed" /\ ~rd'.errored
  BY <1>1, <1>6
<1>10. rd'.eof => fin' /\ wire' = <<>>
  <2>1. SUFFICES ASSUME rd.eof PROVE fin' /\ wire' = <<>>
    BY <1>1
  <2>2. fin /\ wire = <<>> /\ down
    BY <1>6, <2>1 DEF CloseInv
  <2>3. UNCHANGED <<fin, wire>>
    BY <1>5, <2>2, Shut
  <2> QED BY <2>2, <2>3
<1>11. Place' \in 1..Len(enc') + 1
  BY <1>6, <1>7, <1>8
<1>12. nlen' > 0 => Place' <= Len(enc') /\ nlen' = Header + enc'[Place'].size - 1
  <2>1. SUFFICES ASSUME nlen > 0 PROVE Place <= Len(enc') /\ nlen = Header + enc'[Place].size - 1
    BY <1>1, <1>8
  <2>2. Place \in 1..Len(enc) /\ nlen = Header + enc[Place].size - 1
    BY <1>6, <1>7, <2>1
  <2> QED BY <1>7, <2>2
<1>13. PICK off : OnItsWay(enc, off, Taken(off), rbuf, wire, wbuf)
  BY <1>6
<1> DEFINE x == Taken(off)
           y == x + Len(rbuf) + Len(wire)
<1>14. x \in Nat /\ rbuf \in Seq(Unit) /\ wire \in Seq(Unit) /\ wbuf \in Seq(Unit) /\ Laid(enc, off)
  BY <1>6, <1>13, TakenType DEF OnItsWay, ReaderTypes, Known, Types
<1>15. y \in Nat /\ Len(wbuf) \in Nat
  <2> HIDE DEF x
  <2> QED BY <1>14
<1>16. \E o : OnItsWay(enc', o, Taken(o)', rbuf', wire', wbuf')
  <2>1. ASSUME NEW o PROVE Taken(o)' = Taken(o)
    BY <1>1 DEF Taken, Place
  <2>2. CASE UNCHANGED <<enc, wbuf, wire>>
    BY <1>1, <1>13, <2>1, <2>2
  <2>3. CASE Writes
    <3>1. PICK k \in 1..Len(wbuf) : enc' = enc /\ wire' = wire \o FirstOf(wbuf, k) /\ wbuf' = After(wbuf, k)
      BY <2>3 DEF Writes
    <3>2. k \in 0..Len(wbuf)
      BY <1>15
    <3> HIDE DEF x
    <3>3. OnItsWay(enc, off, x, rbuf, wire, wbuf)
      BY <1>13 DEF x
    <3>4. OnItsWay(enc, off, x, rbuf, wire \o FirstOf(wbuf, k), After(wbuf, k))
      BY <1>7, <1>14, <3>2, <3>3, WayWrites
    <3>5. OnItsWay(enc', off, x, rbuf', wire', wbuf')
      BY <1>1, <3>1, <3>4
    <3> QED BY <2>1, <3>5 DEF x
  <2>4. CASE Encodes
    <3>1. PICK fs \in Seq(Frame) : PlainFrames(fs) /\ Encode(fs)
      BY <2>4 DEF Encodes
    <3>2. Len(fs) <= 3 /\ wire' = wire
      BY <2>4, <3>1 DEF PlainFrames, Encodes
    <3> HIDE DEF x
    <3>3. OnItsWay(enc, off, x, rbuf, wire, wbuf)
      BY <1>13 DEF x
    <3>4. Rest(enc, wbuf, off, y)
      BY <3>3 DEF OnItsWay, Rest
    <3> HIDE DEF y
    <3>5. PICK o : Rest(enc', wbuf', o, y) /\ Longer(enc', o, enc, off)
      BY <1>15, <3>1, <3>2, <3>4, EncodeGrows
    <3>6. OnItsWay(enc', o, x, rbuf, wire, wbuf')
      BY <1>7, <1>14, <3>3, <3>5, WayGrows DEF y
    <3>7. Taken(o) = x
      <4>1. o[Place] = off[Place]
        BY <1>6, <3>5 DEF Longer
      <4> QED BY <4>1 DEF Taken, x
    <3>8. OnItsWay(enc', o, Taken(o)', rbuf', wire', wbuf')
      BY <1>1, <2>1, <3>2, <3>6, <3>7
    <3> QED BY <3>8
  <2> QED BY <1>5, <2>2, <2>3, <2>4, WriterMoves
<1> QED BY <1>9, <1>10, <1>11, <1>12, <1>16 DEF WholeInv

-----------------------------------------------------------------------------
(* Steps of the read half.                                                 *)
LEMMA ReaderKeepsWriter ==
  ASSUME ReaderSteps \/ Damage
  PROVE  UNCHANGED wrVars /\ UNCHANGED <<fin, cut>> /\ (damaged' = damaged \/ Damage)
<1>1. ASSUME NEW k, OverRead(k) PROVE UNCHANGED wrVars /\ UNCHANGED <<fin, cut>> /\ damaged' = damaged
  BY <1>1 DEF OverRead, NetTakes
<1>2. ASSUME NEW k, ReadInner(k) PROVE UNCHANGED wrVars /\ UNCHANGED <<fin, cut>> /\ damaged' = damaged
  BY <1>2 DEF ReadInner, NetTakes
<1>3. ASSUME NEW c, PollRead(c) PROVE UNCHANGED wrVars /\ UNCHANGED <<fin, cut>> /\ damaged' = damaged
  BY <1>3 DEF PollRead, netVars
<1>4. CASE DecodeLength
  BY <1>4 DEF DecodeLength, netVars
<1>5. CASE DecodeBody
  BY <1>5 DEF DecodeBody, netVars
<1>6. CASE DecodeNone
  BY <1>6 DEF DecodeNone, netVars
<1>7. CASE ReadEof \/ ReadFails \/ ReadPends \/ AfterError
  BY <1>7 DEF ReadEof, ReadFails, ReadPends, AfterError, netVars
<1>8. CASE Damage
  BY <1>8 DEF Damage
<1> QED BY <1>1, <1>2, <1>3, <1>4, <1>5, <1>6, <1>7, <1>8 DEF ReaderSteps

(* The record of the read half and its stage.                              *)
RdOk == /\ IsReader /\ rd.cap \in Nat
        /\ rd.readable \in BOOLEAN /\ rd.eof \in BOOLEAN /\ rd.errored \in BOOLEAN /\ ended \in BOOLEAN
        /\ StageInv

LEMMA CallOpen ==
  ASSUME RdOk, rd.cap > 0
  PROVE  rd.st = "open" /\ resid = <<>> /\ ~ended /\ (rd.eof => rd.readable)
<1>1. rd.cap # 0
  OBVIOUS
<1> QED BY <1>1, Zenon DEF RdOk, StageInv

(* The call in progress returns.                                           *)
LEMMA CallReturns ==
  ASSUME RdOk, rd.st = "open", IsReader', rd'.st = "open", rd'.cap = 0, rd'.readable \in BOOLEAN,
         rd'.eof \in BOOLEAN, rd'.errored \in BOOLEAN, ended' \in BOOLEAN,
         rd'.eof /\ ~rd'.readable => ended'
  PROVE  RdOk'
<1>1. rd'.cap \in Nat /\ ~(rd'.cap > 0)
  OBVIOUS
<1>2. rd'.st # "hello"
  OBVIOUS
<1> QED BY <1>1, <1>2, Zenon DEF RdOk, StageInv

LEMMA ErrorStage ==
  ASSUME RdOk, Decoding, DecodeError, UNCHANGED <<resid, ended>>
  PROVE  RdOk' /\ ~Alive' /\ rd'.st # "hello"
<1>1. CASE rd.st = "new"
  BY <1>1 DEF RdOk, IsReader, StageInv, DecodeError, Alive
<1>2. CASE rd.st # "new"
  <2>1. rd.cap > 0 /\ rd' = [rd EXCEPT !.errored = TRUE, !.cap = 0] /\ ended' = ended
    BY <1>2 DEF Decoding, DecodeError
  <2>2. rd.st = "open" /\ rd.readable
    BY <1>2, <2>1, CallOpen DEF Decoding
  <2>3. /\ IsReader' /\ rd'.st = "open" /\ rd'.cap = 0 /\ rd'.readable = rd.readable
        /\ rd'.eof = rd.eof /\ rd'.errored = TRUE
    BY <2>1, <2>2 DEF RdOk, IsReader
  <2>4. RdOk'
    BY <2>1, <2>2, <2>3, CallReturns DEF RdOk
  <2> QED BY <2>3, <2>4 DEF Alive
<1> QED BY <1>1, <1>2

LEMMA ReaderStage ==
  ASSUME RdOk, ReaderSteps \/ Damage
  PROVE  RdOk'
<1>1. ASSUME NEW k, OverRead(k) PROVE RdOk'
  BY <1>1 DEF OverRead, RdOk, IsReader, StageInv
<1>2. ASSUME NEW k, ReadInner(k) PROVE RdOk'
  <2>1. rd.cap > 0 /\ rd' = [rd EXCEPT !.readable = TRUE, !.eof = FALSE] /\ UNCHANGED <<resid, ended>>
    BY <1>2 DEF ReadInner, Reading
  <2>2. rd.st = "open" /\ resid = <<>> /\ ~ended
    BY <2>1, CallOpen
  <2>3. /\ IsReader' /\ rd'.st = "open" /\ rd'.cap = rd.cap /\ rd'.readable = TRUE
        /\ rd'.eof = FALSE /\ rd'.errored = rd.errored
    BY <2>1, <2>2 DEF RdOk, IsReader
  <2>4. rd'.st # "hello" /\ resid' = <<>> /\ ended' = ended
    BY <2>1, <2>2, <2>3
  <2> QED BY <2>2, <2>3, <2>4, Zenon DEF RdOk, StageInv
<1>3. ASSUME NEW c \in ReadCaps, PollRead(c) PROVE RdOk'
  <2>1. c \in Nat
    BY TunnelConstants
  <2>2. CASE resid = <<>>
    BY <1>3, <2>1, <2>2 DEF PollRead, RdOk, IsReader, StageInv
  <2>3. CASE resid # <<>>
    BY <1>3, <2>1, <2>3 DEF PollRead, RdOk, IsReader, StageInv
  <2> QED BY <2>2, <2>3
<1>4. CASE DecodeLength
  <2>1. CASE DecodeError
    <3>1. Decoding /\ UNCHANGED <<resid, ended>>
      BY <1>4 DEF DecodeLength
    <3> QED BY <2>1, <3>1, ErrorStage
  <2>2. CASE UNCHANGED rd
    <3>1. Decoding /\ UNCHANGED <<resid, ended>>
      BY <1>4 DEF DecodeLength
    <3> QED BY <2>2, <3>1 DEF RdOk, IsReader, StageInv, Decoding
  <2> QED BY <1>4, <2>1, <2>2 DEF DecodeLength
<1>5. CASE DecodeBody
  <2>1. Decoding /\ UNCHANGED ended
    BY <1>5 DEF DecodeBody
  <2>2. CASE ~Opens
    BY <1>5, <2>1, <2>2, ErrorStage DEF DecodeBody
  <2>3. CASE Opens /\ UNCHANGED <<rd, resid>>
    BY <2>1, <2>3 DEF RdOk, IsReader, StageInv, Decoding
  <2>4. CASE Opens /\ rd.st = "new" /\ UNCHANGED rd
    BY <2>1, <2>4 DEF RdOk, IsReader, StageInv, Decoding
  <2>5. CASE Opens /\ rd.st # "new" /\ rd' = [rd EXCEPT !.cap = 0]
    BY <2>1, <2>5 DEF RdOk, IsReader, StageInv, Decoding
  <2> QED BY <1>5, <2>2, <2>3, <2>4, <2>5 DEF DecodeBody, StashPayload
<1>6. CASE DecodeNone
  <2>1. CASE rd.st = "new"
    BY <1>6, <2>1 DEF DecodeNone, RdOk, IsReader, StageInv
  <2>2. CASE rd.st # "new"
    <3>1. /\ rd.cap > 0 /\ ended' = (ended \/ (rd.st = "open" /\ rd.eof)) /\ UNCHANGED <<rbuf, resid>>
          /\ rd' = IF rd.eof THEN [rd EXCEPT !.readable = FALSE, !.cap = 0]
                   ELSE [rd EXCEPT !.readable = FALSE]
      BY <1>6, <2>2 DEF DecodeNone, Decoding
    <3>2. rd.st = "open" /\ resid = <<>> /\ ~ended
      BY <3>1, CallOpen
    <3>3. CASE rd.eof
      <4>1. /\ IsReader' /\ rd'.st = "open" /\ rd'.cap = 0 /\ rd'.readable = FALSE
            /\ rd'.eof = rd.eof /\ rd'.errored = rd.errored /\ ended' = TRUE
        BY <3>1, <3>2, <3>3 DEF RdOk, IsReader
      <4> QED BY <3>2, <4>1, CallReturns DEF RdOk
    <3>4. CASE ~rd.eof
      <4>1. /\ IsReader' /\ rd'.st = "open" /\ rd'.cap = rd.cap /\ rd'.readable = FALSE
            /\ rd'.eof = FALSE /\ rd'.errored = rd.errored
        BY <3>1, <3>2, <3>4 DEF RdOk, IsReader
      <4>2. rd'.st # "hello" /\ resid' = <<>> /\ ended' = FALSE
        BY <3>1, <3>2, <3>4, <4>1
      <4> QED BY <3>2, <4>1, <4>2, Zenon DEF RdOk, StageInv
    <3> QED BY <3>3, <3>4
  <2> QED BY <2>1, <2>2
<1>7. CASE ReadEof
  <2>1. /\ rd.cap > 0 /\ ~rd.readable /\ ended' = (ended \/ rd.eof) /\ UNCHANGED resid
        /\ rd' = IF rd.eof THEN [rd EXCEPT !.cap = 0] ELSE [rd EXCEPT !.eof = TRUE, !.readable = TRUE]
    BY <1>7 DEF ReadEof, Reading
  <2>2. rd.st = "open" /\ resid = <<>> /\ ~ended /\ ~rd.eof
    BY <2>1, CallOpen
  <2>3. /\ IsReader' /\ rd'.st = "open" /\ rd'.cap = rd.cap /\ rd'.readable = TRUE
        /\ rd'.eof = TRUE /\ rd'.errored = rd.errored
    BY <2>1, <2>2 DEF RdOk, IsReader
  <2>4. rd'.st # "hello" /\ resid' = <<>> /\ ended' = FALSE
    BY <2>1, <2>2, <2>3
  <2> QED BY <2>2, <2>3, <2>4, Zenon DEF RdOk, StageInv
<1>8. CASE ReadFails
  <2>1. rd.cap > 0 /\ ~rd.readable /\ UNCHANGED ended /\ rd' = [rd EXCEPT !.errored = TRUE, !.cap = 0]
    BY <1>8 DEF ReadFails, Reading
  <2>2. rd.st = "open" /\ ~rd.eof
    BY <2>1, CallOpen
  <2>3. /\ IsReader' /\ rd'.st = "open" /\ rd'.cap = 0 /\ rd'.readable = rd.readable
        /\ rd'.eof = rd.eof /\ rd'.errored = TRUE
    BY <2>1, <2>2 DEF RdOk, IsReader
  <2> QED BY <2>1, <2>2, <2>3, CallReturns DEF RdOk
<1>9. CASE ReadPends
  BY <1>9 DEF ReadPends, Reading, RdOk, IsReader, StageInv
<1>10. CASE AfterError
  <2>1. rd.cap > 0 /\ ended' = TRUE /\ rd' = [rd EXCEPT !.errored = FALSE, !.readable = FALSE, !.cap = 0]
    BY <1>10 DEF AfterError
  <2>2. rd.st = "open"
    BY <2>1, CallOpen
  <2>3. /\ IsReader' /\ rd'.st = "open" /\ rd'.cap = 0 /\ rd'.readable = FALSE
        /\ rd'.eof = rd.eof /\ rd'.errored = FALSE
    BY <2>1, <2>2 DEF RdOk, IsReader
  <2> QED BY <2>1, <2>2, <2>3, CallReturns DEF RdOk
<1>11. CASE Damage
  BY <1>11 DEF Damage, RdOk, IsReader, StageInv
<1> QED BY <1>1, <1>2, <1>3, <1>4, <1>5, <1>6, <1>7, <1>8, <1>9, <1>10, <1>11 DEF ReaderSteps

LEMMA KnownTail ==
  ASSUME Types, NEW s, Known(s), s # <<>>
  PROVE  /\ Tail(s) = After(s, 1) /\ Known(After(s, 1)) /\ 1 \in 0..Len(s)
         /\ Head(s) = s[1] /\ s[1] \in Unit /\ s[1].n <= Len(enc)
<1>1. s \in Seq(Unit) /\ Len(s) \in Nat /\ Len(s) # 0
  BY DEF Known
<1>2. 1 \in 0..Len(s) /\ 1 \in 1..Len(s)
  BY <1>1
<1>3. Known(After(s, 1))
  BY <1>2, KnownParts
<1>4. Tail(s) \in Seq(Unit) /\ Len(Tail(s)) = Len(s) - 1 /\ Head(s) = s[1]
  BY <1>1
<1>5. \A i \in 1..Len(s) - 1 : Tail(s)[i] = s[1 + i]
  BY <1>1
<1>6. /\ After(s, 1) \in Seq(Unit) /\ Len(After(s, 1)) = Len(s) - 1
      /\ \A i \in 1..Len(s) - 1 : After(s, 1)[i] = s[1 + i]
  BY <1>1, <1>2, Parts
<1>7. Tail(s) = After(s, 1)
  BY <1>4, <1>5, <1>6, SameElements
<1>8. s[1] \in Unit /\ s[1].n <= Len(enc)
  BY <1>1, <1>2 DEF Known
<1> QED BY <1>2, <1>3, <1>4, <1>7, <1>8

ReaderDataOk ==
    /\ Known(rbuf) /\ Known(wire) /\ damaged \in BOOLEAN
    /\ ctr \in Nat \ {0} /\ nlen \in Nat /\ (nlen > 0 => ctr > 1)
    /\ resid \in Seq(Nat) /\ got \in Seq(Nat)

(* A frame the decoder has opened the length of.                           *)
LEMMA FrameAt ==
  ASSUME Types, ReaderTypes, nlen > 0, ctr - 1 <= Len(enc)
  PROVE  /\ ctr - 1 \in 1..Len(enc) /\ Place = ctr - 1
         /\ enc[ctr - 1] \in Frame /\ enc[ctr - 1].data \in Seq(Nat) /\ enc[ctr - 1].size \in Nat
<1>1. ctr \in Nat /\ ctr > 1 /\ nlen \in Nat /\ enc \in Seq(Frame) /\ Len(enc) \in Nat
  BY DEF ReaderTypes, Types
<1>2. ctr - 1 \in 1..Len(enc) /\ Place = ctr - 1
  BY <1>1 DEF Place
<1>3. enc[ctr - 1] \in Frame
  BY <1>1, <1>2
<1> QED BY <1>2, <1>3 DEF Frame

LEMMA DecodeLengthData == ASSUME Types, ReaderTypes, DecodeLength PROVE ReaderDataOk'
<1>1. /\ nlen = 0 /\ rbuf # <<>> /\ UNCHANGED <<resid, got, damaged, wire, enc>>
      /\ \/ UNCHANGED <<rbuf, ctr, nlen>>
         \/ /\ ctr' = ctr + 1 /\ rbuf' = Tail(rbuf)
            /\ \/ Head(rbuf) = [n |-> ctr, i |-> 1] /\ nlen' = Header + enc[ctr].size - 1
               \/ nlen' \in {0} \union ((Header - 1)..(Segment - 1))
  BY DEF DecodeLength, wrVars, netVars
<1>2. /\ Known(rbuf) /\ Known(wire) /\ damaged \in BOOLEAN /\ ctr \in Nat \ {0} /\ nlen \in Nat
      /\ resid \in Seq(Nat) /\ got \in Seq(Nat)
  BY DEF ReaderTypes
<1>3. Known(wire)' /\ damaged' \in BOOLEAN /\ resid' \in Seq(Nat) /\ got' \in Seq(Nat)
  BY <1>1, <1>2 DEF Known
<1>4. CASE UNCHANGED <<rbuf, ctr, nlen>>
  BY <1>1, <1>2, <1>3, <1>4 DEF ReaderDataOk, Known
<1>5. CASE /\ ctr' = ctr + 1 /\ rbuf' = Tail(rbuf)
           /\ \/ Head(rbuf) = [n |-> ctr, i |-> 1] /\ nlen' = Header + enc[ctr].size - 1
              \/ nlen' \in {0} \union ((Header - 1)..(Segment - 1))
  <2>1. /\ rbuf' = After(rbuf, 1) /\ Known(After(rbuf, 1)) /\ Head(rbuf) = rbuf[1]
        /\ rbuf[1].n <= Len(enc)
    BY <1>1, <1>2, <1>5, KnownTail
  <2>2. Known(rbuf)'
    BY <1>1, <2>1 DEF Known
  <2>3. ctr' \in Nat \ {0} /\ ctr' > 1
    BY <1>2, <1>5
  <2>4. nlen' \in Nat
    <3>1. Header \in Nat /\ Header >= 2 /\ Segment \in Nat
      BY Sizes, WriterConstants
    <3>2. CASE Head(rbuf) = [n |-> ctr, i |-> 1] /\ nlen' = Header + enc[ctr].size - 1
      <4>1. rbuf[1].n = ctr
        BY <2>1, <3>2
      <4>2. ctr \in 1..Len(enc) /\ enc \in Seq(Frame)
        BY <1>2, <2>1, <4>1 DEF Types
      <4>3. enc[ctr] \in Frame
        BY <4>2
      <4>4. enc[ctr].size \in Nat
        BY <4>3 DEF Frame
      <4> QED BY <3>1, <3>2, <4>4
    <3>3. CASE nlen' \in {0} \union ((Header - 1)..(Segment - 1))
      BY <3>1, <3>3
    <3> QED BY <1>5, <3>2, <3>3
  <2> QED BY <1>3, <2>2, <2>3, <2>4 DEF ReaderDataOk
<1> QED BY <1>1, <1>4, <1>5

(* The payload that fits and the rest.                                     *)
LEMMA Fits ==
  ASSUME NEW data \in Seq(Nat), NEW c \in Nat
  PROVE  (IF c < Len(data) THEN c ELSE Len(data)) \in 0..Len(data)
  OBVIOUS

LEMMA Split ==
  ASSUME NEW data \in Seq(Nat), NEW g \in Seq(Nat), NEW k \in 0..Len(data)
  PROVE  /\ g \o FirstOf(data, k) \in Seq(Nat) /\ After(data, k) \in Seq(Nat)
         /\ Len(g \o FirstOf(data, k)) = Len(g) + k /\ Len(After(data, k)) = Len(data) - k
         /\ \A i \in 1..Len(g) : (g \o FirstOf(data, k))[i] = g[i]
         /\ \A i \in 1..k : (g \o FirstOf(data, k))[Len(g) + i] = data[i]
         /\ \A i \in 1..Len(data) - k : After(data, k)[i] = data[k + i]
<1>1. k \in 0..Len(data) /\ k \in Nat
  OBVIOUS
<1>2. /\ FirstOf(data, k) \in Seq(Nat) /\ Len(FirstOf(data, k)) = k
      /\ \A i \in 1..k : FirstOf(data, k)[i] = data[i]
      /\ After(data, k) \in Seq(Nat) /\ Len(After(data, k)) = Len(data) - k
      /\ \A i \in 1..Len(data) - k : After(data, k)[i] = data[k + i]
  BY <1>1, Parts
<1> DEFINE h == FirstOf(data, k)
<1>3. h \in Seq(Nat) /\ Len(h) = k
  BY <1>2
<1> HIDE DEF h
<1>4. /\ g \o h \in Seq(Nat) /\ Len(g \o h) = Len(g) + Len(h)
      /\ \A i \in 1..Len(g) : (g \o h)[i] = g[i]
      /\ \A i \in 1..Len(h) : (g \o h)[Len(g) + i] = h[i]
  <2>1. ASSUME NEW t \in Seq(Nat)
        PROVE  /\ g \o t \in Seq(Nat) /\ Len(g \o t) = Len(g) + Len(t)
               /\ \A i \in 1..Len(g) : (g \o t)[i] = g[i]
               /\ \A i \in 1..Len(t) : (g \o t)[Len(g) + i] = t[i]
    BY Cat
  <2> QED BY <1>3, <2>1, Zenon
<1>5. ASSUME NEW i \in 1..k PROVE (g \o h)[Len(g) + i] = data[i]
  <2>1. h[i] = data[i]
    BY <1>2 DEF h
  <2>2. (g \o h)[Len(g) + i] = h[i]
    BY <1>3, <1>4, Zenon
  <2> QED BY <2>1, <2>2
<1> QED BY <1>1, <1>2, <1>3, <1>4, <1>5 DEF h

LEMMA DecodeBodyData == ASSUME Types, ReaderTypes, DecodeBody PROVE ReaderDataOk'
<1>1. /\ nlen > 0 /\ nlen <= Len(rbuf) /\ UNCHANGED <<ctr, damaged, wire, enc>>
  BY DEF DecodeBody, wrVars, netVars
<1>2. /\ Known(rbuf) /\ Known(wire) /\ damaged \in BOOLEAN /\ ctr \in Nat \ {0} /\ nlen \in Nat
      /\ ctr > 1 /\ resid \in Seq(Nat) /\ got \in Seq(Nat) /\ rd.cap \in Nat
  BY <1>1 DEF ReaderTypes
<1>3. Known(wire)' /\ damaged' \in BOOLEAN /\ ctr' \in Nat \ {0} /\ ctr' > 1
  BY <1>1, <1>2 DEF Known
<1>4. CASE ~Opens
  <2>1. UNCHANGED <<rbuf, nlen, resid, got>>
    BY <1>4 DEF DecodeBody
  <2> QED BY <1>1, <1>2, <1>3, <2>1 DEF ReaderDataOk, Known
<1>5. CASE Opens
  <2> DEFINE data == enc[ctr - 1].data
  <2>1. /\ rbuf' = After(rbuf, nlen) /\ nlen' = 0
        /\ \/ UNCHANGED <<resid, got>>
           \/ resid' = resid \o data /\ got' = got
           \/ StashPayload(data)
    BY <1>5 DEF DecodeBody
  <2>2. data \in Seq(Nat)
    BY <1>1, <1>5, FrameAt DEF Opens
  <2> HIDE DEF data
  <2>3. Len(rbuf) \in Nat /\ nlen \in 0..Len(rbuf)
    BY <1>1, <1>2 DEF Known
  <2>4. Known(After(rbuf, nlen))
    BY <1>2, <2>3, KnownParts
  <2>5. Known(rbuf)'
    BY <1>1, <2>1, <2>4 DEF Known
  <2>6. resid' \in Seq(Nat) /\ got' \in Seq(Nat)
    <3>1. CASE UNCHANGED <<resid, got>>
      BY <1>2, <3>1
    <3>2. CASE resid' = resid \o data /\ got' = got
      BY <1>2, <2>2, <3>2
    <3>3. CASE StashPayload(data)
      <4> DEFINE k == IF rd.cap < Len(data) THEN rd.cap ELSE Len(data)
      <4>1. k \in 0..Len(data)
        BY <1>2, <2>2, Fits
      <4>2. got' = got \o FirstOf(data, k) /\ resid' = After(data, k)
        BY <3>3 DEF StashPayload
      <4> HIDE DEF k
      <4> QED BY <1>2, <2>2, <4>1, <4>2, Split
    <3> QED BY <2>1, <3>1, <3>2, <3>3
  <2> QED BY <1>3, <2>1, <2>5, <2>6 DEF ReaderDataOk
<1> QED BY <1>4, <1>5

LEMMA ReaderData ==
  ASSUME Types, ReaderTypes, ReaderSteps \/ Damage
  PROVE  ReaderDataOk'
<1>1. /\ Known(rbuf) /\ Known(wire) /\ damaged \in BOOLEAN /\ ctr \in Nat \ {0} /\ nlen \in Nat
      /\ (nlen > 0 => ctr > 1) /\ resid \in Seq(Nat) /\ got \in Seq(Nat)
  BY DEF ReaderTypes
<1>2. ASSUME Known(rbuf)', Known(wire)', damaged' \in BOOLEAN, UNCHANGED <<ctr, nlen, resid, got>>
      PROVE  ReaderDataOk'
  BY <1>1, <1>2 DEF ReaderDataOk
<1>3. ASSUME UNCHANGED <<rbuf, wire, enc, damaged>>
      PROVE  Known(rbuf)' /\ Known(wire)' /\ damaged' \in BOOLEAN
  BY <1>1, <1>3 DEF Known
<1>4. UNCHANGED wrVars => enc' = enc
  BY DEF wrVars
<1>5. ASSUME NEW k \in 0..Len(wire), NetTakes(k), UNCHANGED enc
      PROVE  Known(FirstOf(wire, k)) /\ Known(wire)'
  <2>1. Known(FirstOf(wire, k)) /\ Known(After(wire, k)) /\ wire' = After(wire, k)
    BY <1>1, <1>5, KnownParts DEF NetTakes, After
  <2> QED BY <1>5, <2>1 DEF Known
<1>6. ASSUME NEW k \in 0..Len(wire), OverRead(k) PROVE ReaderDataOk'
  <2>1. /\ NetTakes(k) /\ rbuf' = FirstOf(wire, k) /\ UNCHANGED <<ctr, nlen, resid, got, damaged>>
        /\ enc' = enc
    BY <1>4, <1>6 DEF OverRead
  <2>2. Known(FirstOf(wire, k)) /\ Known(wire)'
    BY <1>5, <2>1
  <2>3. Known(rbuf)'
    BY <2>1, <2>2 DEF Known
  <2> QED BY <1>1, <1>2, <2>1, <2>2, <2>3
<1>7. ASSUME NEW k \in 1..WireCap, ReadInner(k) PROVE ReaderDataOk'
  <2>1. /\ NetTakes(k) /\ rbuf' = rbuf \o FirstOf(wire, k) /\ UNCHANGED <<ctr, nlen, resid, got, damaged>>
        /\ enc' = enc
    BY <1>4, <1>7 DEF ReadInner
  <2>2. k \in 0..Len(wire)
    BY <1>1, <2>1 DEF NetTakes, Known
  <2>3. Known(FirstOf(wire, k)) /\ Known(wire)'
    BY <1>5, <2>1, <2>2
  <2>4. Known(rbuf \o FirstOf(wire, k))
    BY <1>1, <2>3, KnownCat
  <2>5. Known(rbuf)'
    BY <2>1, <2>4 DEF Known
  <2> QED BY <1>1, <1>2, <2>1, <2>3, <2>5
<1>8. ASSUME NEW c \in ReadCaps, PollRead(c) PROVE ReaderDataOk'
  <2>1. /\ UNCHANGED <<rbuf, wire, enc, damaged, ctr, nlen>>
        /\ DrainResidual(c) \/ UNCHANGED <<resid, got>>
    BY <1>4, <1>8 DEF PollRead, netVars
  <2>2. c \in Nat
    BY TunnelConstants
  <2>3. resid' \in Seq(Nat) /\ got' \in Seq(Nat)
    <3>1. CASE DrainResidual(c)
      <4> DEFINE k == IF c < Len(resid) THEN c ELSE Len(resid)
      <4>1. k \in 0..Len(resid)
        BY <1>1, <2>2, Fits
      <4>2. got' = got \o FirstOf(resid, k) /\ resid' = After(resid, k)
        BY <3>1 DEF DrainResidual
      <4> HIDE DEF k
      <4> QED BY <1>1, <4>1, <4>2, Split
    <3>2. CASE UNCHANGED <<resid, got>>
      BY <1>1, <3>2
    <3> QED BY <2>1, <3>1, <3>2
  <2> QED BY <1>1, <1>3, <2>1, <2>3 DEF ReaderDataOk
<1>9. CASE DecodeLength
  BY <1>9, DecodeLengthData
<1>10. CASE DecodeBody
  BY <1>10, DecodeBodyData
<1>11. CASE DecodeNone
  BY <1>2, <1>3, <1>4, <1>11 DEF DecodeNone, netVars
<1>12. CASE ReadEof \/ ReadFails \/ ReadPends \/ AfterError
  BY <1>2, <1>3, <1>4, <1>12 DEF ReadEof, ReadFails, ReadPends, AfterError, netVars
<1>13. CASE Damage
  <2>1. PICK i \in 1..Len(wire) : wire' = [wire EXCEPT ![i] = Noise]
    BY <1>13 DEF Damage
  <2>2. UNCHANGED <<rbuf, enc, ctr, nlen, resid, got>> /\ damaged' \in BOOLEAN
    BY <1>4, <1>13 DEF Damage
  <2>3. Noise \in Unit /\ Noise.n = 0
    BY DEF Noise, Unit
  <2>4. wire \in Seq(Unit) /\ wire' \in Seq(Unit) /\ Len(wire') = Len(wire)
    BY <1>1, <2>1, <2>3 DEF Known
  <2>5. Len(enc) \in Nat
    BY DEF Types
  <2>6. \A k \in 1..Len(wire) : wire'[k].n <= Len(enc)
    BY <1>1, <2>1, <2>3, <2>4, <2>5 DEF Known
  <2>7. Known(wire)' /\ Known(rbuf)'
    BY <1>1, <2>2, <2>4, <2>6 DEF Known
  <2> QED BY <1>2, <2>2, <2>7
<1> QED BY <1>6, <1>7, <1>8, <1>9, <1>10, <1>11, <1>12, <1>13 DEF ReaderSteps

LEMMA ReaderKeepsTypes ==
  ASSUME Types, ReaderTypes, StageInv, ReaderSteps \/ Damage
  PROVE  ReaderTypes' /\ StageInv'
<1>1. RdOk
  BY DEF RdOk, ReaderTypes
<1>2. RdOk' /\ ReaderDataOk'
  BY <1>1, ReaderStage, ReaderData
<1> QED BY <1>2 DEF RdOk, ReaderDataOk, ReaderTypes

-----------------------------------------------------------------------------
(* What the client is given.                                               *)
LEMMA SentType == ASSUME Types PROVE accepted + wr.sent \in Nat
<1>1. accepted \in Nat /\ wr.len \in Nat /\ wr.sent \in 0..wr.len
  BY DEF Types
<1> QED BY <1>1

LEMMA GotSame ==
  ASSUME GotInv, UNCHANGED <<enc, accepted, wr>>, UNCHANGED <<got, resid>>,
         Alive' => Alive /\ Place' = Place
  PROVE  GotInv'
<1>1. Had' = Had
  BY DEF Had
<1>2. ASSUME Alive'
      PROVE  /\ Place' <= Len(enc') + 1
             /\ \A j \in 1..Len(enc') : \A i \in 1..Len(enc'[j].data) :
                   IF j < Place' THEN enc'[j].data[i] <= Had' ELSE enc'[j].data[i] > Had'
  BY <1>1, <1>2 DEF GotInv
<1>3. /\ \A i \in 1..Len(got') : got'[i] = i
      /\ \A i \in 1..Len(resid') : resid'[i] = Len(got') + i
      /\ Had' <= accepted' + wr'.sent
  BY <1>1 DEF GotInv
<1> QED BY <1>2, <1>3 DEF GotInv

(* The payload of the frame the decoder is at is what comes next.          *)
LEMMA NextData ==
  ASSUME Types, ByteInv, FramesPlain, ReaderTypes, GotInv, Alive, Place \in 1..Len(enc),
         enc[Place].data # <<>>
  PROVE  /\ \A i \in 1..Len(enc[Place].data) : enc[Place].data[i] = Had + i
         /\ Had + Len(enc[Place].data) <= accepted + wr.sent
<1> DEFINE p == Place
           d == enc[p].data
           n == accepted + wr.sent
<1>1. n \in Nat
  BY SentType
<1>2. enc[p] \in Frame /\ DOMAIN enc = 1..Len(enc) /\ Plain(enc[p])
  BY DEF Types, FramesPlain
<1>3. d \in Seq(Nat) /\ d # <<>>
  BY <1>2 DEF Frame
<1>4. Len(d) \in Nat /\ Len(d) # 0 /\ DOMAIN d = 1..Len(d) /\ 1 \in 1..Len(d)
  <2> HIDE DEF d
  <2> QED BY <1>3
<1>5. Had \in Nat
  BY DEF ReaderTypes, Had
<1>6. InOrder(enc, n)
  BY DEF ByteInv, AcceptedIsEncoded
<1>7. p \in DOMAIN enc /\ p \in Nat
  BY <1>2 DEF ReaderTypes, Place
<1>8. d[1] > Had
  <2>1. \A i \in 1..Len(enc[p].data) : IF p < Place THEN enc[p].data[i] <= Had ELSE enc[p].data[i] > Had
    BY DEF GotInv
  <2> QED BY <1>4, <1>7, <2>1
<1>9. \A i \in 1..Len(d) : d[i] \in 1..n
  BY <1>4, <1>6, <1>7, Zenon DEF InOrder
<1>10. Had + 1 \in 1..n
  <2>1. d[1] \in 1..n
    BY <1>4, <1>9
  <2> QED BY <1>1, <1>5, <1>8, <2>1
<1>11. PICK j \in DOMAIN enc : \E i \in DOMAIN enc[j].data : enc[j].data[i] = Had + 1
  BY <1>6, <1>10, Zenon DEF InOrder
<1>12. PICK i \in DOMAIN enc[j].data : enc[j].data[i] = Had + 1
  BY <1>11
<1>13. enc[j].data \in Seq(Nat) /\ i \in 1..Len(enc[j].data) /\ j \in 1..Len(enc)
  <2>1. enc[j] \in Frame
    BY <1>11 DEF Types
  <2>2. enc[j].data \in Seq(Nat)
    BY <2>1 DEF Frame
  <2>3. DOMAIN enc[j].data = 1..Len(enc[j].data)
    BY <2>2
  <2>4. DOMAIN enc = 1..Len(enc)
    BY DEF Types
  <2> QED BY <1>11, <1>12, <2>2, <2>3, <2>4, Zenon
<1>14. ~(j < p)
  <2>1. j < p => enc[j].data[i] <= Had
    BY <1>13 DEF GotInv
  <2> QED BY <1>5, <1>12, <2>1
<1>15. ~(p < j)
  <2>1. p < j => d[1] < enc[j].data[i]
    BY <1>4, <1>6, <1>7, <1>12, Zenon DEF InOrder
  <2>2. d[1] \in Nat
    BY <1>3, <1>4
  <2> HIDE DEF d
  <2> QED BY <1>5, <1>8, <1>12, <2>1, <2>2
<1>16. j = p
  BY <1>7, <1>13, <1>14, <1>15
<1>17. i = 1
  <2>1. 1 < i => d[1] < d[i]
    BY <1>4, <1>6, <1>7, <1>12, <1>16, Zenon DEF InOrder
  <2>2. d[1] \in Nat /\ i \in 1..Len(d) /\ d[i] = Had + 1
    BY <1>3, <1>4, <1>12, <1>13, <1>16
  <2> HIDE DEF d
  <2> QED BY <1>4, <1>5, <1>8, <2>1, <2>2
<1>18. d[1] = Had + 1
  BY <1>12, <1>16, <1>17
<1>19. \A q \in 1..Len(d) : d[q] = d[1] + q - 1
  BY <1>2 DEF Plain
<1> HIDE DEF d, p, n
<1>20. \A q \in 1..Len(d) : d[q] = Had + q
  BY <1>4, <1>5, <1>18, <1>19
<1>21. Had + Len(d) <= n
  <2>1. Len(d) \in 1..Len(d)
    BY <1>4
  <2>2. d[Len(d)] = Had + Len(d) /\ d[Len(d)] \in 1..n
    BY <1>9, <1>20, <2>1
  <2> QED BY <1>1, <2>2
<1> QED BY <1>20, <1>21 DEF d, p, n

LEMMA Dealt ==
  ASSUME NEW data \in Seq(Nat), NEW g \in Seq(Nat), NEW k \in 0..Len(data)
  PROVE  /\ \A i \in 1..Len(g) : g[i] = i
         /\ \A i \in 1..Len(data) : data[i] = Len(g) + i
         => /\ \A i \in 1..Len(g \o FirstOf(data, k)) : (g \o FirstOf(data, k))[i] = i
            /\ \A i \in 1..Len(After(data, k)) : After(data, k)[i] = Len(g \o FirstOf(data, k)) + i
            /\ Len(g \o FirstOf(data, k)) + Len(After(data, k)) = Len(g) + Len(data)
<1>1. /\ g \o FirstOf(data, k) \in Seq(Nat) /\ After(data, k) \in Seq(Nat)
      /\ Len(g \o FirstOf(data, k)) = Len(g) + k /\ Len(After(data, k)) = Len(data) - k
      /\ \A i \in 1..Len(g) : (g \o FirstOf(data, k))[i] = g[i]
      /\ \A i \in 1..k : (g \o FirstOf(data, k))[Len(g) + i] = data[i]
      /\ \A i \in 1..Len(data) - k : After(data, k)[i] = data[k + i]
  <2>1. g \o FirstOf(data, k) \in Seq(Nat) /\ After(data, k) \in Seq(Nat)
    BY Split, Zenon
  <2>2. Len(g \o FirstOf(data, k)) = Len(g) + k /\ Len(After(data, k)) = Len(data) - k
    BY Split, Zenon
  <2>3. \A i \in 1..Len(g) : (g \o FirstOf(data, k))[i] = g[i]
    BY Split, Zenon
  <2>4. \A i \in 1..k : (g \o FirstOf(data, k))[Len(g) + i] = data[i]
    BY Split, Zenon
  <2>5. \A i \in 1..Len(data) - k : After(data, k)[i] = data[k + i]
    BY Split
  <2> QED BY <2>1, <2>2, <2>3, <2>4, <2>5, Zenon
<1> DEFINE a == Len(g)
           b == Len(data)
           h == g \o FirstOf(data, k)
           r == After(data, k)
<1>2. a \in Nat /\ b \in Nat
  OBVIOUS
<1>3. (a + k) + (b - k) = a + b
  BY <1>2
<1> SUFFICES ASSUME \A i \in 1..Len(g) : g[i] = i,
                    \A i \in 1..Len(data) : data[i] = Len(g) + i
             PROVE  /\ \A i \in 1..Len(h) : h[i] = i
                    /\ \A i \in 1..Len(r) : r[i] = Len(h) + i
                    /\ Len(h) + Len(r) = Len(g) + Len(data)
  BY Zenon
<1>4. /\ k \in 0..b /\ Len(h) = a + k /\ Len(r) = b - k
      /\ \A i \in 1..a : h[i] = g[i]
      /\ \A i \in 1..k : h[a + i] = data[i]
      /\ \A i \in 1..b - k : r[i] = data[k + i]
  BY <1>1, Zenon
<1>5. (\A i \in 1..a : g[i] = i) /\ (\A i \in 1..b : data[i] = a + i)
  BY Zenon
<1> HIDE DEF a, b, h, r
<1>6. ASSUME NEW i \in 1..a + k PROVE h[i] = i
  <2>1. CASE i <= a
    <3>1. i \in 1..a
      BY <1>2, <1>4, <2>1
    <3> QED BY <1>4, <1>5, <3>1, Zenon
  <2>2. CASE ~(i <= a)
    <3>1. i - a \in 1..k /\ i - a \in 1..b /\ a + (i - a) = i
      BY <1>2, <1>4, <2>2
    <3>2. h[a + (i - a)] = data[i - a]
      BY <1>4, <3>1, Zenon
    <3>3. data[i - a] = a + (i - a)
      BY <1>5, <3>1, Zenon
    <3> QED BY <3>1, <3>2, <3>3, Zenon
  <2> QED BY <2>1, <2>2
<1>7. ASSUME NEW i \in 1..b - k PROVE r[i] = (a + k) + i
  <2>1. k + i \in 1..b /\ a + (k + i) = (a + k) + i
    BY <1>2, <1>4
  <2>2. data[k + i] = a + (k + i)
    BY <1>5, <2>1, Zenon
  <2>3. r[i] = data[k + i]
    BY <1>4, Zenon
  <2> QED BY <2>1, <2>2, <2>3, Zenon
<1> QED BY <1>3, <1>4, <1>6, <1>7, Zenon DEF a, b

(* The frame the decoder was at is opened, and its l bytes are had.        *)
LEMMA GotMore ==
  ASSUME Types, ByteInv, FramesPlain, ReaderTypes, GotInv, Alive, Place \in 1..Len(enc),
         UNCHANGED <<enc, accepted, wr>>, Place' = Place + 1,
         \A i \in 1..Len(got') : got'[i] = i, \A i \in 1..Len(resid') : resid'[i] = Len(got') + i,
         Had' = Had + Len(enc[Place].data)
  PROVE  GotInv'
<1> DEFINE p == Place
           d == enc[p].data
           n == accepted + wr.sent
<1>1. /\ n \in Nat /\ Had \in Nat /\ Had <= n /\ p \in Nat /\ p \in 1..Len(enc) /\ Len(enc) \in Nat
      /\ DOMAIN enc = 1..Len(enc)
  BY SentType DEF ReaderTypes, Had, GotInv, Types
<1>2. d \in Seq(Nat) /\ Len(d) \in Nat /\ DOMAIN d = 1..Len(d)
  <2>1. enc[p] \in Frame
    BY DEF Types
  <2>2. d \in Seq(Nat)
    BY <2>1 DEF Frame
  <2> HIDE DEF d
  <2> QED BY <2>2
<1>3. (\A i \in 1..Len(d) : d[i] = Had + i) /\ Had + Len(d) <= n
  <2>1. CASE d = <<>>
    <3>1. Len(d) = 0
      BY <2>1
    <3> HIDE DEF d
    <3> QED BY <1>1, <3>1
  <2>2. CASE d # <<>>
    BY <2>2, NextData
  <2> QED BY <2>1, <2>2
<1>4. InOrder(enc, n)
  BY DEF ByteInv, AcceptedIsEncoded
<1>5. ASSUME NEW j \in 1..Len(enc), NEW i \in 1..Len(enc[j].data)
      PROVE  IF j < p + 1 THEN enc[j].data[i] <= Had + Len(d) ELSE enc[j].data[i] > Had + Len(d)
  <2>1. enc[j].data \in Seq(Nat)
    <3>1. enc[j] \in Frame
      BY DEF Types
    <3> QED BY <3>1 DEF Frame
  <2>2. enc[j].data[i] \in Nat /\ i \in DOMAIN enc[j].data
    BY <2>1
  <2>3. IF j < p THEN enc[j].data[i] <= Had ELSE enc[j].data[i] > Had
    BY DEF GotInv
  <2>4. CASE j < p
    <3> HIDE DEF d
    <3>1. j < p + 1 /\ enc[j].data[i] <= Had
      BY <1>1, <2>3, <2>4
    <3> QED BY <1>1, <1>2, <2>2, <3>1
  <2>5. CASE j = p
    <3>1. i \in 1..Len(d) /\ enc[j].data[i] = Had + i /\ j < p + 1
      BY <1>1, <1>3, <2>5
    <3> HIDE DEF d
    <3> QED BY <1>1, <1>2, <3>1
  <2>6. CASE p < j
    <3>1. ~(j < p + 1)
      BY <1>1, <2>6
    <3>2. CASE Len(d) = 0
      <4>1. enc[j].data[i] > Had
        BY <1>1, <2>3, <2>6
      <4> HIDE DEF d
      <4> QED BY <1>1, <3>1, <3>2, <4>1
    <3>3. CASE Len(d) # 0
      <4>1. Len(d) \in 1..Len(d) /\ Len(d) \in DOMAIN d
        <5> HIDE DEF d
        <5> QED BY <1>2, <3>3
      <4>2. p \in DOMAIN enc /\ j \in DOMAIN enc
        BY <1>1
      <4>3. d[Len(d)] < enc[j].data[i]
        BY <1>4, <2>2, <2>6, <4>1, <4>2, Zenon DEF InOrder
      <4>4. d[Len(d)] = Had + Len(d)
        BY <1>3, <4>1
      <4> HIDE DEF d
      <4> QED BY <1>1, <1>2, <2>2, <3>1, <4>3, <4>4
    <3> QED BY <3>2, <3>3
  <2> QED BY <1>1, <2>4, <2>5, <2>6
<1>6. Had' <= accepted' + wr'.sent
  BY <1>3
<1>7. Place' <= Len(enc') + 1
  BY <1>1
<1>8. \A j \in 1..Len(enc') : \A i \in 1..Len(enc'[j].data) :
        IF j < Place' THEN enc'[j].data[i] <= Had' ELSE enc'[j].data[i] > Had'
  BY <1>5
<1> HIDE DEF d, p, n
<1> QED BY <1>6, <1>7, <1>8 DEF GotInv

LEMMA DecodingAlive ==
  ASSUME RdOk, Decoding
  PROVE  Alive /\ (rd.st = "new" \/ (rd.cap > 0 /\ resid = <<>>))
<1>1. CASE rd.st = "new"
  BY <1>1 DEF RdOk, StageInv, Alive
<1>2. CASE rd.cap > 0 /\ rd.readable /\ ~rd.errored
  <2>1. rd.st = "open" /\ resid = <<>> /\ ~ended
    BY <1>2, CallOpen
  <2> QED BY <1>2, <2>1 DEF Alive
<1> QED BY <1>1, <1>2 DEF Decoding

LEMMA BodyGot ==
  ASSUME Types, ByteInv, FramesPlain, ReaderTypes, StageInv, GotInv, DecodeBody, Opens
  PROVE  GotInv'
<1>1. RdOk
  BY DEF RdOk, ReaderTypes
<1>2. /\ Decoding /\ nlen > 0 /\ UNCHANGED <<ctr, enc, accepted, wr>> /\ nlen' = 0
  BY DEF DecodeBody, wrVars
<1>3. Alive /\ (rd.st = "new" \/ (rd.cap > 0 /\ resid = <<>>))
  BY <1>1, <1>2, DecodingAlive
<1> DEFINE p == ctr - 1
           f == enc[p]
           d == f.data
<1>4. p \in 1..Len(enc) /\ Place = p /\ f \in Frame /\ d \in Seq(Nat)
  BY <1>2, FrameAt DEF Opens
<1>5. /\ \/ TryParse(f) # "payload" /\ UNCHANGED <<resid, got>>
         \/ TryParse(f) = "payload" /\ rd.st = "new" /\ resid' = resid \o d /\ got' = got
         \/ TryParse(f) = "payload" /\ rd.st # "new" /\ StashPayload(d)
  BY DEF DecodeBody
<1>6. Place' = Place + 1
  BY <1>2, <1>4 DEF Place, ReaderTypes
<1>7. /\ resid \in Seq(Nat) /\ got \in Seq(Nat) /\ rd.cap \in Nat
      /\ \A i \in 1..Len(got) : got[i] = i
      /\ \A i \in 1..Len(resid) : resid[i] = Len(got) + i
  BY DEF ReaderTypes, GotInv
<1>8. Place \in 1..Len(enc) /\ enc[Place].data = d
  BY <1>4
<1>9. CASE TryParse(f) # "payload" /\ UNCHANGED <<resid, got>>
  <2>1. Plain(f)
    BY <1>4 DEF FramesPlain
  <2>2. d = <<>>
    BY <1>9, <2>1 DEF TryParse, Plain
  <2>3. Had' = Had + Len(d)
    <3>1. Len(d) = 0 /\ Len(got) \in Nat /\ Len(resid) \in Nat
      BY <1>7, <2>2
    <3> HIDE DEF d
    <3> QED BY <1>9, <3>1 DEF Had
  <2> HIDE DEF d
  <2> QED BY <1>2, <1>3, <1>6, <1>7, <1>8, <1>9, <2>3, GotMore
<1>10. ASSUME TryParse(f) = "payload"
       PROVE  \A i \in 1..Len(d) : d[i] = Had + i
  <2>1. d # <<>>
    BY <1>10 DEF TryParse
  <2> QED BY <1>3, <1>8, <2>1, NextData
<1>11. CASE TryParse(f) = "payload" /\ rd.st = "new" /\ resid' = resid \o d /\ got' = got
  <2>1. \A i \in 1..Len(d) : d[i] = Had + i
    BY <1>10, <1>11
  <2> HIDE DEF d
  <2>2. /\ Len(resid') = Len(resid) + Len(d)
        /\ \A i \in 1..Len(resid) : resid'[i] = resid[i]
        /\ \A i \in 1..Len(d) : resid'[Len(resid) + i] = d[i]
    <3>1. /\ Len(resid \o d) = Len(resid) + Len(d)
          /\ \A i \in 1..Len(resid) : (resid \o d)[i] = resid[i]
          /\ \A i \in 1..Len(d) : (resid \o d)[Len(resid) + i] = d[i]
      <4>1. ASSUME NEW s \in Seq(Nat), NEW t \in Seq(Nat)
            PROVE  /\ Len(s \o t) = Len(s) + Len(t)
                   /\ \A i \in 1..Len(s) : (s \o t)[i] = s[i]
                   /\ \A i \in 1..Len(t) : (s \o t)[Len(s) + i] = t[i]
        BY Cat
      <4> QED BY <1>4, <1>7, <4>1, Zenon
    <3> QED BY <1>11, <3>1, Zenon
  <2>3. Len(resid) \in Nat /\ Len(d) \in Nat /\ Len(got) \in Nat
    BY <1>4, <1>7
  <2>4. Had' = Had + Len(d)
    BY <1>11, <2>2, <2>3 DEF Had
  <2>5. ASSUME NEW i \in 1..Len(resid') PROVE resid'[i] = Len(got') + i
    <3>1. CASE i <= Len(resid)
      <4>1. i \in 1..Len(resid)
        BY <2>3, <3>1
      <4> QED BY <1>7, <1>11, <2>2, <4>1
    <3>2. CASE ~(i <= Len(resid))
      <4>1. i - Len(resid) \in 1..Len(d) /\ Len(resid) + (i - Len(resid)) = i
        BY <2>2, <2>3, <3>2
      <4>2. resid'[Len(resid) + (i - Len(resid))] = d[i - Len(resid)]
        BY <2>2, <4>1, Zenon
      <4>3. d[i - Len(resid)] = Had + (i - Len(resid))
        BY <2>1, <4>1
      <4>4. Had + (i - Len(resid)) = Len(got) + i
        BY <2>3 DEF Had
      <4> QED BY <1>11, <4>1, <4>2, <4>3, <4>4
    <3> QED BY <3>1, <3>2
  <2>6. \A i \in 1..Len(got') : got'[i] = i
    BY <1>7, <1>11
  <2> QED BY <1>2, <1>3, <1>6, <1>8, <2>4, <2>5, <2>6, GotMore
<1>12. CASE TryParse(f) = "payload" /\ rd.st # "new" /\ StashPayload(d)
  <2>1. \A i \in 1..Len(d) : d[i] = Had + i
    BY <1>10, <1>12
  <2> HIDE DEF d
  <2> DEFINE k == IF rd.cap < Len(d) THEN rd.cap ELSE Len(d)
  <2>2. got' = got \o FirstOf(d, k) /\ resid' = After(d, k)
    BY <1>12 DEF StashPayload
  <2>3. k \in 0..Len(d)
    BY <1>4, <1>7, Fits
  <2> HIDE DEF k
  <2>4. Had = Len(got) /\ Len(got) \in Nat
    <3>1. Len(resid) = 0
      BY <1>3, <1>12
    <3> QED BY <1>7, <3>1 DEF Had
  <2>5. \A i \in 1..Len(d) : d[i] = Len(got) + i
    BY <2>1, <2>4
  <2>6. /\ \A i \in 1..Len(got') : got'[i] = i
        /\ \A i \in 1..Len(resid') : resid'[i] = Len(got') + i
        /\ Len(got') + Len(resid') = Len(got) + Len(d)
    <3>1. got \in Seq(Nat) /\ d \in Seq(Nat) /\ \A i \in 1..Len(got) : got[i] = i
      BY <1>4, <1>7
    <3> QED BY <2>2, <2>3, <2>5, <3>1, Dealt, Zenon
  <2>7. Had' = Had + Len(d)
    BY <2>4, <2>6 DEF Had
  <2> QED BY <1>2, <1>3, <1>6, <1>8, <2>6, <2>7, GotMore
<1> QED BY <1>5, <1>9, <1>11, <1>12

LEMMA ReaderGot ==
  ASSUME Types, ByteInv, FramesPlain, ReaderTypes, StageInv, GotInv, ReaderSteps \/ Damage
  PROVE  GotInv'
<1>1. RdOk
  BY DEF RdOk, ReaderTypes
<1>2. UNCHANGED <<enc, accepted, wr>>
  BY ReaderKeepsWriter DEF wrVars
<1>3. ASSUME UNCHANGED <<got, resid, ctr, nlen>>, Alive' => Alive
      PROVE  GotInv'
  <2>1. Place' = Place
    BY <1>3 DEF Place
  <2> QED BY <1>2, <1>3, <2>1, GotSame
<1>4. ASSUME NEW k, OverRead(k) PROVE GotInv'
  <2>1. UNCHANGED <<got, resid, ctr, nlen, ended>> /\ rd' = [rd EXCEPT !.st = "new"] /\ rd.st = "hello"
    BY <1>4 DEF OverRead
  <2>2. Alive' => Alive
    BY <1>1, <2>1 DEF Alive, RdOk, IsReader
  <2> QED BY <1>3, <2>1, <2>2
<1>5. ASSUME NEW k, ReadInner(k) PROVE GotInv'
  <2>1. /\ UNCHANGED <<got, resid, ctr, nlen, ended>>
        /\ rd' = [rd EXCEPT !.readable = TRUE, !.eof = FALSE]
    BY <1>5 DEF ReadInner
  <2>2. Alive' => Alive
    BY <1>1, <2>1 DEF Alive, RdOk, IsReader
  <2> QED BY <1>3, <2>1, <2>2
<1>6. ASSUME NEW c \in ReadCaps, PollRead(c) PROVE GotInv'
  <2>1. CASE resid = <<>>
    <3>1. UNCHANGED <<got, resid, ctr, nlen, ended>> /\ rd' = [rd EXCEPT !.cap = c]
      BY <1>6, <2>1 DEF PollRead
    <3>2. Alive' => Alive
      BY <1>1, <3>1 DEF Alive, RdOk, IsReader
    <3> QED BY <1>3, <3>1, <3>2
  <2>2. CASE resid # <<>>
    <3> DEFINE k == IF c < Len(resid) THEN c ELSE Len(resid)
    <3>1. /\ got' = got \o FirstOf(resid, k) /\ resid' = After(resid, k)
          /\ UNCHANGED <<ctr, nlen, ended, rd>>
      BY <1>6, <2>2 DEF PollRead, DrainResidual
    <3>2. /\ resid \in Seq(Nat) /\ got \in Seq(Nat) /\ c \in Nat
          /\ \A i \in 1..Len(got) : got[i] = i
          /\ \A i \in 1..Len(resid) : resid[i] = Len(got) + i
      BY TunnelConstants DEF ReaderTypes, GotInv
    <3>3. k \in 0..Len(resid)
      BY <3>2, Fits
    <3> HIDE DEF k
    <3>4. /\ \A i \in 1..Len(got') : got'[i] = i
          /\ \A i \in 1..Len(resid') : resid'[i] = Len(got') + i
          /\ Len(got') + Len(resid') = Len(got) + Len(resid)
      <4> DEFINE h == got \o FirstOf(resid, k)
                 r == After(resid, k)
      <4>1. /\ \A i \in 1..Len(h) : h[i] = i
            /\ \A i \in 1..Len(r) : r[i] = Len(h) + i
            /\ Len(h) + Len(r) = Len(got) + Len(resid)
        BY <3>2, <3>3, Dealt, Zenon
      <4>2. got' = h /\ resid' = r
        BY <3>1
      <4> HIDE DEF h, r
      <4> QED BY <4>1, <4>2, Zenon
    <3>5. Had' = Had
      BY <3>4 DEF Had
    <3>6. Place' = Place /\ (Alive' <=> Alive)
      BY <3>1 DEF Place, Alive
    <3>7. Had' <= accepted' + wr'.sent
      BY <1>2, <3>5 DEF GotInv
    <3>8. ASSUME Alive'
          PROVE  /\ Place' <= Len(enc') + 1
                 /\ \A j \in 1..Len(enc') : \A i \in 1..Len(enc'[j].data) :
                       IF j < Place' THEN enc'[j].data[i] <= Had' ELSE enc'[j].data[i] > Had'
      BY <1>2, <3>5, <3>6, <3>8 DEF GotInv
    <3> QED BY <3>4, <3>7, <3>8 DEF GotInv
  <2> QED BY <2>1, <2>2
<1>7. CASE DecodeLength
  <2>1. Decoding /\ nlen = 0 /\ UNCHANGED <<resid, got, ended>>
    BY <1>7 DEF DecodeLength
  <2>2. CASE DecodeError
    BY <1>1, <1>2, <2>1, <2>2, ErrorStage, GotSame
  <2>3. CASE ~DecodeError
    <3>1. ctr' = ctr + 1 /\ UNCHANGED rd /\ nlen' # 0
      <4>1. ctr' = ctr + 1 /\ UNCHANGED rd
        BY <1>7, <2>3 DEF DecodeLength
      <4>2. CASE Head(rbuf) # [n |-> ctr, i |-> 1]
        BY <1>7, <2>3, <4>2 DEF DecodeLength
      <4>3. CASE Head(rbuf) = [n |-> ctr, i |-> 1]
        <5>1. nlen' = Header + enc[ctr].size - 1 /\ rbuf # <<>>
          BY <1>7, <2>3, <4>3 DEF DecodeLength
        <5>2. Known(rbuf) /\ ctr \in Nat \ {0}
          BY DEF ReaderTypes
        <5>3. Head(rbuf) = rbuf[1] /\ rbuf[1].n <= Len(enc)
          BY <5>1, <5>2, KnownTail
        <5>4. ctr <= Len(enc)
          BY <4>3, <5>3
        <5>5. ctr \in 1..Len(enc) /\ enc \in Seq(Frame)
          BY <5>2, <5>4 DEF Types
        <5>6. enc[ctr] \in Frame
          BY <5>5
        <5>7. enc[ctr].size \in Nat
          BY <5>6 DEF Frame
        <5>8. Header \in Nat /\ Header >= 2
          BY WriterConstants
        <5> QED BY <4>1, <5>1, <5>7, <5>8
      <4> QED BY <4>1, <4>2, <4>3
    <3>2. Place' = Place
      BY <2>1, <3>1 DEF Place, ReaderTypes
    <3>3. Alive' => Alive
      BY <2>1, <3>1 DEF Alive
    <3> QED BY <1>2, <2>1, <3>2, <3>3, GotSame
  <2> QED BY <2>2, <2>3
<1>8. CASE DecodeBody
  <2>1. CASE Opens
    BY <1>8, <2>1, BodyGot
  <2>2. CASE ~Opens
    <3>1. Decoding /\ DecodeError /\ UNCHANGED <<resid, got, ended>>
      BY <1>8, <2>2 DEF DecodeBody
    <3> QED BY <1>1, <1>2, <3>1, ErrorStage, GotSame
  <2> QED BY <2>1, <2>2
<1>9. CASE DecodeNone
  <2>1. UNCHANGED <<got, resid, ctr, nlen>> /\ Decoding
    BY <1>9 DEF DecodeNone
  <2>2. Alive
    BY <1>1, <2>1, DecodingAlive
  <2> QED BY <1>3, <2>1, <2>2
<1>10. CASE ReadEof \/ ReadFails \/ ReadPends
  <2>1. UNCHANGED <<got, resid, ctr, nlen>> /\ rd.cap > 0 /\ ~rd.errored
    BY <1>10 DEF ReadEof, ReadFails, ReadPends, Reading
  <2>2. Alive
    BY <1>1, <2>1, CallOpen DEF Alive
  <2> QED BY <1>3, <2>1, <2>2
<1>11. CASE AfterError
  <2>1. UNCHANGED <<got, resid, ctr, nlen>> /\ ended' = TRUE
    BY <1>11 DEF AfterError
  <2> QED BY <1>3, <2>1 DEF Alive
<1>12. CASE Damage
  <2>1. UNCHANGED <<got, resid, ctr, nlen, rd, ended>>
    BY <1>12 DEF Damage
  <2> QED BY <1>3, <2>1 DEF Alive
<1> QED BY <1>4, <1>5, <1>6, <1>7, <1>8, <1>9, <1>10, <1>11, <1>12 DEF ReaderSteps

-----------------------------------------------------------------------------
(* The decoder and an unbroken connection stay in step.                    *)
LEMMA WholeFacts ==
  ASSUME WholeInv, Whole
  PROVE  /\ rd.st # "failed" /\ ~rd.errored
         /\ rd.eof => fin /\ wire = <<>>
         /\ Place \in 1..Len(enc) + 1
         /\ nlen > 0 => Place <= Len(enc) /\ nlen = Header + enc[Place].size - 1
         /\ \E off : OnItsWay(enc, off, Taken(off), rbuf, wire, wbuf)
  BY DEF WholeInv

LEMMA WholeSame ==
  ASSUME WholeInv, UNCHANGED <<enc, wbuf, rbuf, wire, ctr, nlen, fin>>,
         Whole' => /\ Whole /\ rd'.st # "failed" /\ ~rd'.errored
                   /\ rd'.eof => rd.eof \/ (fin /\ wire = <<>>)
  PROVE  WholeInv'
<1>1. SUFFICES ASSUME Whole' PROVE WholeInv'
  BY DEF WholeInv
<1>2. Place' = Place /\ \A off : Taken(off)' = Taken(off)
  BY DEF Place, Taken
<1>3. Whole
  BY <1>1
<1>4. \E off : OnItsWay(enc', off, Taken(off)', rbuf', wire', wbuf')
  <2>1. PICK off : OnItsWay(enc, off, Taken(off), rbuf, wire, wbuf)
    BY <1>3, WholeFacts
  <2>2. OnItsWay(enc', off, Taken(off)', rbuf', wire', wbuf')
    BY <1>2, <2>1
  <2> QED BY <2>2
<1>5. /\ rd'.st # "failed" /\ ~rd'.errored
      /\ rd'.eof => fin' /\ wire' = <<>>
      /\ Place' \in 1..Len(enc') + 1
      /\ nlen' > 0 => Place' <= Len(enc') /\ nlen' = Header + enc'[Place'].size - 1
  BY <1>1, <1>2, <1>3, WholeFacts
<1> QED BY <1>4, <1>5 DEF WholeInv

LEMMA WholeReads ==
  ASSUME Types, ReaderTypes, WholeInv, UNCHANGED <<enc, wbuf, ctr, nlen>>, NEW k \in 0..Len(wire),
         rbuf' = rbuf \o FirstOf(wire, k), wire' = After(wire, k), Whole' => Whole,
         rd'.st # "failed", rd'.errored = rd.errored, rd'.eof = FALSE
  PROVE  WholeInv'
<1>1. SUFFICES ASSUME Whole' PROVE WholeInv'
  BY DEF WholeInv
<1>2. Place' = Place /\ \A off : Taken(off)' = Taken(off)
  BY DEF Place, Taken
<1>3. Whole
  BY <1>1
<1>4. \E off : OnItsWay(enc', off, Taken(off)', rbuf', wire', wbuf')
  <2>1. PICK off : OnItsWay(enc, off, Taken(off), rbuf, wire, wbuf)
    BY <1>3, WholeFacts
  <2> DEFINE x == Taken(off)
  <2>2. x \in Nat
    BY <1>3, <2>1, WholeFacts, TakenType DEF OnItsWay
  <2>3. enc \in Seq(Frame) /\ rbuf \in Seq(Unit) /\ wire \in Seq(Unit) /\ wbuf \in Seq(Unit)
    BY DEF Types, ReaderTypes, Known
  <2>4. OnItsWay(enc, off, x, rbuf, wire, wbuf)
    BY <2>1
  <2> HIDE DEF x
  <2>5. OnItsWay(enc, off, x, rbuf \o FirstOf(wire, k), After(wire, k), wbuf)
    BY <2>2, <2>3, <2>4, WayReads
  <2>6. OnItsWay(enc', off, Taken(off)', rbuf', wire', wbuf')
    BY <1>2, <2>5 DEF x
  <2> QED BY <2>6
<1>5. /\ rd'.st # "failed" /\ ~rd'.errored
      /\ rd'.eof => fin' /\ wire' = <<>>
      /\ Place' \in 1..Len(enc') + 1
      /\ nlen' > 0 => Place' <= Len(enc') /\ nlen' = Header + enc'[Place'].size - 1
  BY <1>1, <1>2, <1>3, WholeFacts
<1> QED BY <1>4, <1>5 DEF WholeInv

(* Nothing stands behind the last frame.                                   *)
LEMMA FrameThere ==
  ASSUME NEW e \in Seq(Frame), NEW off, Laid(e, off), NEW u, NEW x \in Nat, At(u, e, off, x + 1),
         NEW j \in 1..Len(e) + 1, off[j] = x
  PROVE  j \in 1..Len(e)
<1>1. Len(e) \in Nat /\ Header \in Nat
  BY Sizes
<1>2. SUFFICES ASSUME j = Len(e) + 1 PROVE FALSE
  BY <1>1
<1> DEFINE n == u.n
<1>3. n \in 1..Len(e) /\ u.i \in 1..Header + e[n].size /\ off[n] + u.i = x + 1
  BY DEF At
<1>4. e[n] \in Frame
  BY <1>3
<1>5. e[n].size \in Nat
  BY <1>4 DEF Frame
<1> HIDE DEF n
<1>6. n + 1 \in 1..Len(e) + 1 /\ n \in 1..Len(e) + 1 /\ n + 1 <= j
  BY <1>1, <1>2, <1>3
<1>7. off[n + 1] = off[n] + Header + e[n].size /\ off[n + 1] <= off[j]
  BY <1>3, <1>6 DEF Laid
<1> DEFINE a == off[n]
           b == off[n + 1]
           z == e[n].size
<1>8. a \in Nat /\ z \in Nat /\ u.i \in 1..Header + z /\ a + u.i = x + 1 /\ b = a + Header + z /\ b <= x
  BY <1>3, <1>5, <1>6, <1>7 DEF Laid
<1> HIDE DEF a, b, z
<1> QED BY <1>1, <1>8

(* The decoder takes k units and is then at place x + k.                   *)
LEMMA WholeTakes ==
  ASSUME Types, ReaderTypes, WholeInv, UNCHANGED <<enc, wbuf, wire, fin>>, Whole,
         NEW off, OnItsWay(enc, off, Taken(off), rbuf, wire, wbuf),
         NEW k \in 0..Len(rbuf), rbuf' = After(rbuf, k), Taken(off)' = Taken(off) + k,
         Place' \in 1..Len(enc) + 1,
         nlen' > 0 => Place' <= Len(enc) /\ nlen' = Header + enc[Place'].size - 1,
         rd'.st = rd.st, rd'.errored = rd.errored, rd'.eof = rd.eof
  PROVE  WholeInv'
<1> DEFINE x == Taken(off)
<1>1. x \in Nat
  BY WholeFacts, TakenType DEF OnItsWay
<1>2. enc \in Seq(Frame) /\ rbuf \in Seq(Unit) /\ wire \in Seq(Unit) /\ wbuf \in Seq(Unit)
  BY DEF Types, ReaderTypes, Known
<1>3. OnItsWay(enc, off, x, rbuf, wire, wbuf)
  OBVIOUS
<1> HIDE DEF x
<1>4. OnItsWay(enc, off, x + k, After(rbuf, k), wire, wbuf)
  BY <1>1, <1>2, <1>3, WayTakes
<1>5. OnItsWay(enc', off, Taken(off)', rbuf', wire', wbuf')
  BY <1>4 DEF x
<1>6. /\ rd'.st # "failed" /\ ~rd'.errored
      /\ rd'.eof => fin' /\ wire' = <<>>
  BY WholeFacts
<1>7. /\ Place' \in 1..Len(enc') + 1
      /\ nlen' > 0 => Place' <= Len(enc') /\ nlen' = Header + enc'[Place'].size - 1
  OBVIOUS
<1> QED BY <1>5, <1>6, <1>7 DEF WholeInv

LEMMA LengthInStep ==
  ASSUME Types, ReaderTypes, WholeInv, Whole, nlen = 0, rbuf # <<>>
  PROVE  ctr \in 1..Len(enc) /\ ctr # MaxNonce /\ Head(rbuf) = [n |-> ctr, i |-> 1]
<1>1. PICK off : OnItsWay(enc, off, Taken(off), rbuf, wire, wbuf)
  BY WholeFacts
<1>2. Place = ctr /\ ctr \in 1..Len(enc) + 1
  BY WholeFacts DEF Place
<1>3. /\ enc \in Seq(Frame) /\ rbuf \in Seq(Unit) /\ Len(rbuf) \in Nat /\ Len(rbuf) # 0
      /\ Len(enc) \in Nat /\ Len(enc) <= MaxNonce - 1 /\ MaxNonce \in Nat /\ Header \in Nat /\ Header >= 2
  BY WriterConstants DEF Types, ReaderTypes, Known
<1>4. Laid(enc, off) /\ Placed(rbuf, enc, off, Taken(off))
  BY <1>1 DEF OnItsWay
<1> DEFINE x == off[ctr]
<1>5. x \in Nat
  BY <1>2, <1>4 DEF Laid
<1>6. Taken(off) = x
  BY <1>2, <1>5 DEF Taken
<1>7. 1 \in 1..Len(rbuf)
  BY <1>3
<1> HIDE DEF x
<1>8. At(rbuf[1], enc, off, x + 1)
  BY <1>4, <1>6, <1>7 DEF Placed
<1>9. ctr \in 1..Len(enc)
  BY <1>2, <1>3, <1>4, <1>5, <1>8, FrameThere DEF x
<1>10. rbuf[1] \in Unit /\ x + 1 \in Nat
  BY <1>3, <1>5, <1>7
<1>11. off[ctr] < x + 1 /\ x + 1 <= off[ctr + 1]
  <2>1. enc[ctr] \in Frame
    BY <1>3, <1>9
  <2>2. enc[ctr].size \in Nat
    BY <2>1 DEF Frame
  <2>3. off[ctr + 1] = x + Header + enc[ctr].size
    BY <1>4, <1>9 DEF Laid, x
  <2> QED BY <1>3, <1>5, <2>2, <2>3 DEF x
<1>12. rbuf[1] = [n |-> ctr, i |-> (x + 1) - off[ctr]]
  BY <1>3, <1>4, <1>8, <1>9, <1>10, <1>11, UnitAt
<1>13. (x + 1) - off[ctr] = 1
  BY <1>5 DEF x
<1>14. Head(rbuf) = rbuf[1]
  BY <1>3
<1>15. ctr # MaxNonce
  BY <1>3, <1>9
<1> QED BY <1>9, <1>12, <1>13, <1>14, <1>15

LEMMA BodyInStep ==
  ASSUME Types, ReaderTypes, WholeInv, Whole, nlen > 0, nlen <= Len(rbuf)
  PROVE  Opens
<1>1. PICK off : OnItsWay(enc, off, Taken(off), rbuf, wire, wbuf)
  BY WholeFacts
<1> DEFINE p == ctr - 1
           f == enc[p]
<1>2. /\ enc \in Seq(Frame) /\ rbuf \in Seq(Unit) /\ Len(rbuf) \in Nat /\ Len(enc) \in Nat
      /\ Header \in Nat /\ Header >= 2 /\ nlen \in Nat /\ ctr \in Nat
  BY WriterConstants DEF Types, ReaderTypes, Known
<1>3. Place = p
  BY <1>2 DEF Place
<1>4. p <= Len(enc) /\ nlen = Header + f.size - 1
  BY <1>3, WholeFacts
<1>5. p \in 1..Len(enc) /\ f \in Frame /\ f.size \in Nat
  BY <1>4, FrameAt
<1>6. Laid(enc, off) /\ Placed(rbuf, enc, off, Taken(off))
  BY <1>1 DEF OnItsWay
<1> DEFINE x == off[p] + 1
<1>7. off[p] \in Nat /\ off[p + 1] = off[p] + Header + f.size
  <2>1. p \in 1..Len(enc) + 1
    BY <1>2, <1>5
  <2> QED BY <1>5, <1>6, <2>1 DEF Laid
<1>8. Taken(off) = x
  BY <1>2, <1>3 DEF Taken
<1> HIDE DEF p, f
<1>9. Units(p, f) \in Seq(Unit) /\ Len(Units(p, f)) = Header + f.size
  <2>1. p \in Nat
    BY <1>2, <1>5
  <2> QED BY <1>5, <2>1, UnitsType
<1>10. \A j \in 1..Header + f.size : Units(p, f)[j] = [n |-> p, i |-> j]
  BY DEF Units
<1> DEFINE tl == Tail(Units(p, f))
<1>11. /\ tl \in Seq(Unit) /\ Len(tl) = nlen
       /\ \A k \in 1..nlen : tl[k] = [n |-> p, i |-> k + 1]
  <2> DEFINE un == Units(p, f)
             m == Header + f.size
  <2>1. m \in Nat /\ m # 0 /\ nlen = m - 1
    BY <1>2, <1>4, <1>5
  <2>2. un \in Seq(Unit) /\ Len(un) = m /\ \A i \in 1..m : un[i] = [n |-> p, i |-> i]
    BY <1>9, <1>10
  <2> HIDE DEF un, m
  <2>3. Tail(un) \in Seq(Unit) /\ Len(Tail(un)) = nlen
    BY <2>1, <2>2, Tailed
  <2>4. \A k \in 1..nlen : Tail(un)[k] = un[k + 1]
    BY <2>1, <2>2, Tailed
  <2>5. \A k \in 1..nlen : k + 1 \in 1..m
    BY <2>1
  <2> QED BY <2>2, <2>3, <2>4, <2>5 DEF un
<1>12. nlen \in 0..Len(rbuf)
  BY <1>2
<1>13. /\ FirstOf(rbuf, nlen) \in Seq(Unit) /\ Len(FirstOf(rbuf, nlen)) = nlen
       /\ \A k \in 1..nlen : FirstOf(rbuf, nlen)[k] = rbuf[k]
  BY <1>2, <1>12, Parts
<1>14. ASSUME NEW k \in 1..nlen PROVE rbuf[k] = [n |-> p, i |-> k + 1]
  <2>1. k \in 1..Len(rbuf) /\ x \in Nat /\ x + k \in Nat
    BY <1>2, <1>7
  <2>2. At(rbuf[k], enc, off, x + k)
    BY <1>6, <1>8, <2>1 DEF Placed
  <2>3. rbuf[k] \in Unit
    BY <1>2, <2>1
  <2>4. off[p] < x + k /\ x + k <= off[p + 1] /\ (x + k) - off[p] = k + 1
    <3> DEFINE a == off[p]
               z == off[p + 1]
               q == f.size
    <3>1. /\ a \in Nat /\ q \in Nat /\ Header \in Nat /\ nlen = Header + q - 1
          /\ z = a + Header + q /\ k \in 1..nlen
      BY <1>2, <1>4, <1>5, <1>7
    <3> HIDE DEF a, z, q
    <3>2. a < (a + 1) + k /\ (a + 1) + k <= z /\ ((a + 1) + k) - a = k + 1
      BY <3>1
    <3> QED BY <3>2 DEF a, z
  <2>5. rbuf[k] = [n |-> p, i |-> (x + k) - off[p]]
    <3> DEFINE y == x + k
    <3>1. y \in Nat /\ At(rbuf[k], enc, off, y) /\ off[p] < y /\ y <= off[p + 1]
      BY <2>1, <2>2, <2>4
    <3> HIDE DEF y
    <3>2. rbuf[k] = [n |-> p, i |-> y - off[p]]
      BY <1>2, <1>5, <1>6, <2>3, <3>1, UnitAt
    <3> QED BY <3>2 DEF y
  <2> QED BY <2>4, <2>5
<1> HIDE DEF tl
<1>15. FirstOf(rbuf, nlen) = tl
  BY <1>11, <1>13, <1>14, SameElements
<1> QED BY <1>4, <1>15 DEF Opens, p, f, tl

LEMMA LengthWhole ==
  ASSUME Types, ReaderTypes, WholeInv, DecodeLength
  PROVE  WholeInv'
<1>1. /\ nlen = 0 /\ rbuf # <<>> /\ UNCHANGED <<enc, wbuf, wire, fin, cut, damaged>>
  BY DEF DecodeLength, wrVars, netVars
<1>2. SUFFICES ASSUME Whole' PROVE WholeInv'
  BY DEF WholeInv
<1>3. Whole
  BY <1>1, <1>2 DEF Whole
<1>4. ctr \in 1..Len(enc) /\ ctr # MaxNonce /\ Head(rbuf) = [n |-> ctr, i |-> 1]
  BY <1>1, <1>3, LengthInStep
<1>5. ctr' = ctr + 1 /\ rbuf' = Tail(rbuf) /\ nlen' = Header + enc[ctr].size - 1 /\ UNCHANGED rd
  BY <1>4 DEF DecodeLength
<1>6. Known(rbuf) /\ ctr \in Nat \ {0} /\ enc \in Seq(Frame) /\ Header \in Nat /\ Header >= 2
      /\ Len(enc) \in Nat
  BY WriterConstants DEF ReaderTypes, Types
<1>7. rbuf' = After(rbuf, 1) /\ 1 \in 0..Len(rbuf)
  BY <1>1, <1>5, <1>6, KnownTail
<1>8. enc[ctr].size \in Nat
  <2>1. enc[ctr] \in Frame
    BY <1>4, <1>6
  <2> QED BY <2>1 DEF Frame
<1>9. nlen' \in Nat /\ nlen' # 0 /\ nlen' > 0
  BY <1>5, <1>6, <1>8
<1>10. Place = ctr /\ Place' = ctr
  BY <1>1, <1>5, <1>6, <1>9 DEF Place
<1>11. PICK off : OnItsWay(enc, off, Taken(off), rbuf, wire, wbuf)
  BY <1>3, WholeFacts
<1>12. Taken(off)' = Taken(off) + 1
  <2>1. off[ctr] \in Nat
    <3>1. ctr \in 1..Len(enc) + 1 /\ Laid(enc, off)
      BY <1>4, <1>6, <1>11 DEF OnItsWay
    <3> QED BY <3>1 DEF Laid
  <2> QED BY <1>1, <1>9, <1>10, <2>1 DEF Taken
<1>13. Place' \in 1..Len(enc) + 1 /\ Place' <= Len(enc) /\ nlen' = Header + enc[Place'].size - 1
  BY <1>4, <1>5, <1>6, <1>10
<1> QED BY <1>1, <1>3, <1>5, <1>7, <1>11, <1>12, <1>13, WholeTakes

LEMMA BodyWhole ==
  ASSUME Types, ReaderTypes, WholeInv, DecodeBody
  PROVE  WholeInv'
<1>1. nlen > 0 /\ nlen <= Len(rbuf) /\ UNCHANGED <<ctr, enc, wbuf, wire, fin, cut, damaged>>
  BY DEF DecodeBody, wrVars, netVars
<1>2. SUFFICES ASSUME Whole' PROVE WholeInv'
  BY DEF WholeInv
<1>3. Whole
  BY <1>1, <1>2 DEF Whole
<1>4. Opens
  BY <1>1, <1>3, BodyInStep
<1>5. rbuf' = After(rbuf, nlen) /\ nlen' = 0 /\ (UNCHANGED rd \/ rd' = [rd EXCEPT !.cap = 0])
  BY <1>4 DEF DecodeBody, StashPayload
<1>6. rd'.st = rd.st /\ rd'.errored = rd.errored /\ rd'.eof = rd.eof
  BY <1>5 DEF ReaderTypes, IsReader
<1> DEFINE p == ctr - 1
<1>7. Place = p /\ p \in 1..Len(enc) /\ enc[p].size \in Nat
  BY <1>1, <1>4, FrameAt DEF Opens
<1>8. nlen = Header + enc[p].size - 1
  BY <1>1, <1>3, <1>7, WholeFacts
<1>9. /\ Header \in Nat /\ Header >= 2 /\ nlen \in Nat /\ ctr \in Nat /\ Len(enc) \in Nat
      /\ Len(rbuf) \in Nat
  BY WriterConstants DEF ReaderTypes, Types, Known
<1>10. Place' = p + 1 /\ p + 1 \in 1..Len(enc) + 1
  BY <1>1, <1>5, <1>7, <1>9 DEF Place
<1>11. PICK off : OnItsWay(enc, off, Taken(off), rbuf, wire, wbuf)
  BY <1>3, WholeFacts
<1>12. Taken(off)' = Taken(off) + nlen
  <2>1. Laid(enc, off)
    BY <1>11, Zenon DEF OnItsWay
  <2>2. off[p] \in Nat /\ off[p + 1] \in Nat /\ off[p + 1] = off[p] + Header + enc[p].size
    <3>1. p \in 1..Len(enc) + 1
      BY <1>7, <1>9
    <3> QED BY <1>7, <1>10, <2>1, <3>1 DEF Laid
  <2>3. Taken(off)' = off[p + 1]
    BY <1>5, <1>10, <2>2 DEF Taken
  <2>4. Taken(off) = off[p] + 1
    BY <1>1, <1>7, <1>9 DEF Taken
  <2> DEFINE a == off[p]
             b == off[p + 1]
             q == enc[p].size
  <2>5. a \in Nat /\ q \in Nat /\ b = a + Header + q /\ nlen = Header + q - 1
    BY <1>7, <1>8, <2>2
  <2> HIDE DEF a, b, q
  <2>6. b = (a + 1) + nlen
    BY <1>9, <2>5
  <2> QED BY <2>3, <2>4, <2>6 DEF a, b
<1>13. nlen \in 0..Len(rbuf) /\ ~(nlen' > 0)
  BY <1>1, <1>5, <1>9
<1> HIDE DEF p
<1> QED BY <1>1, <1>3, <1>5, <1>6, <1>10, <1>11, <1>12, <1>13, WholeTakes

LEMMA ReaderWhole ==
  ASSUME Types, ReaderTypes, StageInv, WholeInv, ReaderSteps \/ Damage
  PROVE  WholeInv'
<1>1. IsReader /\ RdOk
  BY DEF RdOk, ReaderTypes
<1>2. UNCHANGED <<enc, wbuf, fin, cut>>
  BY ReaderKeepsWriter DEF wrVars
<1>3. UNCHANGED damaged => (Whole' <=> Whole)
  BY <1>2 DEF Whole
<1>4. Whole => rd.st # "failed" /\ ~rd.errored
  BY WholeFacts
<1>5. wire \in Seq(Unit) /\ rbuf \in Seq(Unit) /\ Len(wire) \in Nat
  BY DEF ReaderTypes, Known
<1>6. ASSUME NEW k \in 0..Len(wire), OverRead(k) PROVE WholeInv'
  <2>1. /\ rd.st = "hello" /\ rd' = [rd EXCEPT !.st = "new"] /\ UNCHANGED <<ctr, nlen, damaged>>
        /\ rbuf' = FirstOf(wire, k) /\ wire' = After(wire, k)
    BY <1>6 DEF OverRead, NetTakes, After
  <2>2. rbuf = <<>> /\ ~rd.eof
    BY <2>1 DEF StageInv
  <2>3. rd'.st # "failed" /\ rd'.errored = rd.errored /\ rd'.eof = FALSE
    BY <1>1, <2>1, <2>2 DEF IsReader, ReaderTypes
  <2>4. rbuf' = rbuf \o FirstOf(wire, k)
    <3>1. FirstOf(wire, k) \in Seq(Unit)
      BY <1>5, Parts
    <3> QED BY <2>1, <2>2, <3>1
  <2> QED BY <1>2, <1>3, <2>1, <2>3, <2>4, WholeReads
<1>7. ASSUME NEW k \in 1..WireCap, ReadInner(k) PROVE WholeInv'
  <2>1. /\ rd.cap > 0 /\ rd' = [rd EXCEPT !.readable = TRUE, !.eof = FALSE]
        /\ UNCHANGED <<ctr, nlen, damaged>> /\ k <= Len(wire)
        /\ rbuf' = rbuf \o FirstOf(wire, k) /\ wire' = After(wire, k)
    BY <1>7 DEF ReadInner, Reading, NetTakes, After
  <2>2. rd.st = "open"
    BY <1>1, <2>1, CallOpen
  <2>3. rd'.st # "failed" /\ rd'.errored = rd.errored /\ rd'.eof = FALSE
    BY <1>1, <2>1, <2>2 DEF IsReader
  <2>4. k \in 0..Len(wire)
    BY <1>5, <2>1
  <2> QED BY <1>2, <1>3, <2>1, <2>3, <2>4, WholeReads
<1>8. ASSUME NEW c, PollRead(c) PROVE WholeInv'
  <2>1. /\ UNCHANGED <<rbuf, wire, ctr, nlen, damaged>>
        /\ UNCHANGED rd \/ rd' = [rd EXCEPT !.cap = c]
    BY <1>8 DEF PollRead, netVars
  <2>2. rd'.st = rd.st /\ rd'.errored = rd.errored /\ rd'.eof = rd.eof
    BY <1>1, <2>1 DEF IsReader
  <2> QED BY <1>2, <1>3, <1>4, <2>1, <2>2, WholeSame
<1>9. CASE DecodeLength
  BY <1>9, LengthWhole
<1>10. CASE DecodeBody
  BY <1>10, BodyWhole
<1>11. CASE DecodeNone
  <2>1. /\ UNCHANGED <<rbuf, wire, ctr, nlen, damaged>>
        /\ rd' = IF rd.st = "new" THEN [rd EXCEPT !.st = "open"]
                 ELSE IF rd.eof THEN [rd EXCEPT !.readable = FALSE, !.cap = 0]
                 ELSE [rd EXCEPT !.readable = FALSE]
    BY <1>11 DEF DecodeNone, netVars
  <2>2. (rd'.st = rd.st \/ rd'.st = "open") /\ rd'.errored = rd.errored /\ rd'.eof = rd.eof
    BY <1>1, <2>1 DEF IsReader
  <2> QED BY <1>2, <1>3, <1>4, <2>1, <2>2, WholeSame
<1>12. CASE ReadEof
  <2>1. /\ UNCHANGED <<rbuf, wire, ctr, nlen, damaged>> /\ wire = <<>> /\ (fin \/ cut)
        /\ rd' = IF rd.eof THEN [rd EXCEPT !.cap = 0] ELSE [rd EXCEPT !.eof = TRUE, !.readable = TRUE]
    BY <1>12 DEF ReadEof, netVars
  <2>2. rd'.st = rd.st /\ rd'.errored = rd.errored
    BY <1>1, <2>1 DEF IsReader
  <2>3. Whole => fin /\ wire = <<>>
    BY <2>1 DEF Whole
  <2> QED BY <1>2, <1>3, <1>4, <2>1, <2>2, <2>3, WholeSame
<1>13. CASE ReadFails
  <2>1. cut'
    BY <1>2, <1>13 DEF ReadFails
  <2> QED BY <2>1 DEF WholeInv, Whole
<1>14. CASE ReadPends
  <2>1. UNCHANGED <<rbuf, wire, ctr, nlen, damaged>> /\ rd' = [rd EXCEPT !.cap = 0]
    BY <1>14 DEF ReadPends, netVars
  <2>2. rd'.st = rd.st /\ rd'.errored = rd.errored /\ rd'.eof = rd.eof
    BY <1>1, <2>1 DEF IsReader
  <2> QED BY <1>2, <1>3, <1>4, <2>1, <2>2, WholeSame
<1>15. CASE AfterError
  <2>1. UNCHANGED damaged /\ rd.errored
    BY <1>15 DEF AfterError
  <2> QED BY <1>3, <1>4, <2>1 DEF WholeInv
<1>16. CASE Damage
  <2>1. damaged' = TRUE
    BY <1>16 DEF Damage
  <2> QED BY <2>1 DEF WholeInv, Whole
<1> QED BY <1>6, <1>7, <1>8, <1>9, <1>10, <1>11, <1>12, <1>13, <1>14, <1>15, <1>16 DEF ReaderSteps

-----------------------------------------------------------------------------
(* The end of an unbroken stream comes after all of it.                    *)
LEMMA EndIsLast ==
  ASSUME Types, ByteInv, CloseInv, ReaderTypes, StageInv, GotInv, WholeInv, Whole,
         Decoding, NeedsMore, rd.st = "open", rd.eof
  PROVE  down /\ Len(got) = accepted + wr.sent
<1>1. RdOk /\ wire = <<>> /\ down /\ wbuf = <<>>
  BY WholeFacts DEF RdOk, ReaderTypes, CloseInv
<1>2. Alive /\ resid = <<>>
  BY <1>1, DecodingAlive
<1>3. PICK off : OnItsWay(enc, off, Taken(off), rbuf, wire, wbuf)
  BY WholeFacts
<1> DEFINE x == Taken(off)
           l == Len(enc)
           z == off[l + 1]
           p == Place
<1>4. /\ enc \in Seq(Frame) /\ l \in Nat /\ rbuf \in Seq(Unit) /\ Len(rbuf) \in Nat /\ nlen \in Nat
      /\ Header \in Nat /\ Header >= 2 /\ p \in 1..l + 1
  <2>1. enc \in Seq(Frame) /\ l \in Nat
    BY DEF Types
  <2>2. rbuf \in Seq(Unit) /\ Len(rbuf) \in Nat /\ nlen \in Nat
    BY DEF ReaderTypes, Known
  <2>3. Header \in Nat /\ Header >= 2
    BY WriterConstants
  <2>4. p \in 1..l + 1
    BY WholeFacts
  <2> QED BY <2>1, <2>2, <2>3, <2>4
<1>5. Laid(enc, off) /\ x \in Nat
  BY <1>3, WholeFacts, TakenType DEF OnItsWay
<1>6. x + Len(rbuf) = z
  <2>1. x + Len(rbuf) + Len(wire) + Len(wbuf) = z /\ Len(wire) = 0 /\ Len(wbuf) = 0
    BY <1>1, <1>3 DEF OnItsWay
  <2> HIDE DEF x, z
  <2> QED BY <1>4, <1>5, <2>1
<1>7. off[p] \in Nat
  BY <1>4, <1>5 DEF Laid
<1>8. p = l + 1
  <2>1. SUFFICES ASSUME p \in 1..l PROVE FALSE
    <3> HIDE DEF p, l
    <3> QED BY <1>4
  <2> DEFINE q == enc[p].size
             b == off[p + 1]
             a == off[p]
  <2>2. enc[p] \in Frame
    BY <1>4, <2>1
  <2>3. q \in Nat
    BY <2>2 DEF Frame
  <2>4. p + 1 \in 1..l + 1 /\ l + 1 \in 1..l + 1 /\ p + 1 <= l + 1
    <3> HIDE DEF p, l
    <3> QED BY <1>4, <2>1
  <2>5. b = a + Header + q
    BY <1>5, <2>1 DEF Laid
  <2>6. b <= z
    BY <1>5, <2>4 DEF Laid
  <2>7. x = a + IF nlen = 0 THEN 0 ELSE 1
    BY DEF Taken
  <2>8. nlen > 0 => nlen = Header + q - 1
    BY WholeFacts
  <2>9. (nlen = 0 /\ Len(rbuf) = 0) \/ nlen > Len(rbuf)
    BY DEF NeedsMore
  <2>10. a \in Nat
    BY <1>7
  <2> HIDE DEF x, l, z, p, q, b, a
  <2> QED BY <1>4, <1>5, <1>6, <2>3, <2>5, <2>6, <2>7, <2>8, <2>9, <2>10
<1> DEFINE n == accepted + wr.sent
<1>9. n \in Nat /\ Had \in Nat /\ Had <= n /\ Had = Len(got)
  <2>1. Len(resid) = 0 /\ Len(got) \in Nat
    BY <1>2 DEF ReaderTypes
  <2>2. Had = Len(got)
    BY <2>1 DEF Had
  <2> QED BY <2>1, <2>2, SentType DEF GotInv
<1>10. n <= Had
  <2>1. CASE n = 0
    BY <1>9, <2>1
  <2>2. CASE n # 0
    <3>1. n \in 1..n
      <4> HIDE DEF n
      <4> QED BY <1>9, <2>2
    <3>2. InOrder(enc, n) /\ DOMAIN enc = 1..l
      BY <1>4 DEF ByteInv, AcceptedIsEncoded
    <3>3. PICK j \in DOMAIN enc : \E i \in DOMAIN enc[j].data : enc[j].data[i] = n
      BY <3>1, <3>2, Zenon DEF InOrder
    <3>4. PICK i \in DOMAIN enc[j].data : enc[j].data[i] = n
      BY <3>3
    <3>5. j \in 1..l /\ j < p
      BY <1>4, <1>8, <3>2, <3>3
    <3>6. enc[j] \in Frame
      BY <1>4, <3>5
    <3>7. enc[j].data \in Seq(Nat)
      BY <3>6 DEF Frame
    <3>8. i \in 1..Len(enc[j].data)
      BY <3>4, <3>7
    <3>9. enc[j].data[i] <= Had
      BY <1>2, <3>5, <3>8 DEF GotInv
    <3> QED BY <3>4, <3>9
  <2> QED BY <2>1, <2>2
<1>11. n = Had
  <2> HIDE DEF n
  <2> QED BY <1>9, <1>10
<1> QED BY <1>1, <1>9, <1>11

===============================================================================
