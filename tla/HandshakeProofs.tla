--------------------------- MODULE HandshakeProofs ---------------------------
(***************************************************************************)
(* Proofs about the replay filter, for any callers, digests, lifetime and  *)
(* capacity, and about the obfs4 handshake that uses it, for any number of *)
(* connections and any ttl_limit that covers the three hours of the MAC    *)
(* window.                                                                 *)
(***************************************************************************)
EXTENDS Handshake, SequenceTheorems, WellFoundedInduction, TLAPS

-----------------------------------------------------------------------------
(* The replay filter.                                                      *)

(* A non-empty set of natural numbers has a least element. *)
LEMMA LeastElement ==
    ASSUME NEW T, T \subseteq Nat, T # {}
    PROVE  \E m \in T : \A k \in T : m <= k
<1>1. PICK m \in T : \A k \in T : ~(<<k, m>> \in OpToRel(<, Nat))
  BY NatLessThanWellFounded, WFMin
<1>2. \A k \in T : ~(k < m)
  BY <1>1 DEF OpToRel
<1>. QED
  BY <1>2

(* garbage_collect's loop is well defined: it removes a prefix of expired  *)
(* entries that ends before an entry that has not expired.                 *)
LEMMA CollectedProperties ==
    ASSUME NEW q \in Seq(Entry), NEW now \in Time
    PROVE  /\ Collected(q, now) \in 0..Len(q)
           /\ \A i \in 1..Collected(q, now) : Expired(q[i], now)
           /\ Collected(q, now) < Len(q)
                => ~Expired(q[Collected(q, now) + 1], now)
<1> DEFINE Stop(n) == /\ \A i \in 1..n : Expired(q[i], now)
                      /\ n < Len(q) => ~Expired(q[n + 1], now)
           Live == {i \in 1..Len(q) : ~Expired(q[i], now)}
<1>1. Len(q) \in Nat
  BY LenProperties
<1>2. \E n \in 0..Len(q) : Stop(n)
  <2>1. CASE Live = {}
    <3>1. Stop(Len(q))
      BY <2>1, <1>1
    <3>. QED  BY <3>1, <1>1
  <2>2. CASE Live # {}
    <3>1. PICK m \in Live : \A k \in Live : m <= k
      <4>1. Live \subseteq Nat
        BY <1>1
      <4>. HIDE DEF Live
      <4>. QED  BY <2>2, <4>1, LeastElement
    <3>2. m - 1 \in 0..Len(q) /\ Stop(m - 1)
      BY <3>1, <1>1
    <3>. QED  BY <3>2
  <2>. QED  BY <2>1, <2>2
<1>. QED
  BY <1>2 DEF Collected

(* What remains of a queue after its n oldest entries are dropped. *)
LEMMA DropOldestProperties ==
    ASSUME NEW q \in Seq(Entry), NEW n \in 0..Len(q)
    PROVE  /\ DropOldest(q, n) \in Seq(Entry)
           /\ Len(DropOldest(q, n)) = Len(q) - n
           /\ Len(DropOldest(q, n)) \in Nat
           /\ \A i \in 1..Len(DropOldest(q, n)) : /\ DropOldest(q, n)[i] = q[n + i]
                                                  /\ n + i \in 1..Len(q)
<1>1. Len(q) \in Nat /\ \A i \in 1..Len(q) : q[i] \in Entry
  BY LenProperties, ElementOfSeq
<1>2. \A i \in (n + 1)..Len(q) : q[i] \in Entry
  BY <1>1
<1>3. /\ DropOldest(q, n) \in Seq(Entry)
      /\ Len(DropOldest(q, n)) = Len(q) - n
      /\ \A i \in 1..(Len(q) - n) : DropOldest(q, n)[i] = q[n + i]
  BY <1>1, <1>2, SubSeqProperties DEF DropOldest
<1>. QED
  BY <1>1, <1>3

(* Dropping entries from the queue and forgetting their digests keeps the  *)
(* set equal to the digests that are queued, if no digest is queued twice. *)
LEMMA ForgetOldestProperties ==
    ASSUME NEW q \in Seq(Entry), NEW n \in 0..Len(q),
           \A i, j \in 1..Len(q) : q[i].digest = q[j].digest => i = j
    PROVE  ForgetOldest(DigestsOf(q), q, n) = DigestsOf(DropOldest(q, n))
<1> DEFINE old == SubSeq(q, 1, n)
           young == DropOldest(q, n)
<1>1. Len(q) \in Nat /\ DOMAIN q = 1..Len(q) /\ \A i \in 1..Len(q) : q[i] \in Entry
  BY LenProperties, ElementOfSeq
<1>2. /\ old \in Seq(Entry)
      /\ Len(old) = n
      /\ \A i \in 1..n : old[i] = q[i]
  BY <1>1, SubSeqProperties
<1>3. /\ young \in Seq(Entry)
      /\ Len(young) = Len(q) - n
      /\ \A i \in 1..Len(young) : young[i] = q[n + i]
  BY DropOldestProperties
<1>4. DOMAIN old = 1..n /\ DOMAIN young = 1..(Len(q) - n)
  BY <1>2, <1>3, LenProperties
<1>. HIDE DEF old, young
<1>5. ASSUME NEW d PROVE d \in DigestsOf(q) \ DigestsOf(old) <=> d \in DigestsOf(young)
  <2>1. ASSUME NEW i \in 1..Len(q), q[i].digest = d, d \notin DigestsOf(old)
        PROVE  d \in DigestsOf(young)
    <3>1. i \notin 1..n
      BY <2>1, <1>2, <1>4 DEF DigestsOf
    <3>2. i - n \in 1..(Len(q) - n) /\ young[i - n] = q[i]
      BY <3>1, <1>1, <1>3
    <3>. QED  BY <3>2, <2>1, <1>4 DEF DigestsOf
  <2>2. ASSUME NEW k \in 1..(Len(q) - n), young[k].digest = d
        PROVE  d \in DigestsOf(q) \ DigestsOf(old)
    <3>1. n + k \in 1..Len(q) /\ q[n + k].digest = d
      BY <2>2, <1>1, <1>3
    <3>2. \A i \in 1..n : old[i].digest # d
      BY <3>1, <1>1, <1>2
    <3>. QED  BY <3>1, <3>2, <1>1, <1>4 DEF DigestsOf
  <2>. QED  BY <2>1, <2>2, <1>1, <1>4 DEF DigestsOf
<1>. QED
  BY <1>5 DEF ForgetOldest, old, young

(* Initially nothing was tested. *)
LEMMA InitIInv == Init => IInv
<1> SUFFICES ASSUME Init PROVE IInv
  OBVIOUS
<1>1. fifo = <<>> /\ log = <<>> /\ Len(fifo) = 0 /\ Len(log) = 0
  BY DEF Init, FilterInit
<1>2. fifo \in Seq(Entry) /\ log \in Seq(Entry)
  BY <1>1
<1>3. TypeOK
  BY <1>1, <1>2, ReplayFilterConstants
     DEF Init, FilterInit, TypeOK, NoTime, Time
<1>4. FilterIsFifo
  BY <1>1 DEF Init, FilterInit, FilterIsFifo, DigestsOf
<1>5. ReplayWindow /\ NoSpuriousReplay
  BY <1>1 DEF Init, ReplayWindow, NoSpuriousReplay, NoAnswer
<1>6. FifoIsLogTail /\ LogInTimeOrder /\ DroppedForCause
  BY <1>1 DEF Init, FilterInit, FifoIsLogTail, LogInTimeOrder, DroppedForCause,
              Dropped, NoTime
<1>7. CapturedInPast
  BY DEF Init, CapturedInPast, Idle
<1>. QED
  BY <1>3, <1>4, <1>5, <1>6, <1>7 DEF IInv

(* Neither the clock nor a caller's capture touches the filter. *)
LEMMA TickIInv == IInv /\ Tick => IInv'
<1> SUFFICES ASSUME IInv, Tick PROVE IInv'
  OBVIOUS
<1>1. UNCHANGED <<filter, fifo, latest_time, call, log, answer>> /\ clock' = clock + 1
  BY DEF Tick
<1>2. TypeOK' /\ FilterIsFifo' /\ ReplayWindow' /\ NoSpuriousReplay'
  BY <1>1 DEF IInv, TypeOK, FilterIsFifo, ReplayWindow, NoSpuriousReplay, Time
<1>3. FifoIsLogTail' /\ DroppedForCause'
  BY <1>1 DEF IInv, FifoIsLogTail, DroppedForCause, Dropped
<1>4. LogInTimeOrder'
  BY <1>1 DEF IInv, TypeOK, LogInTimeOrder, Time, NoTime
<1>5. CapturedInPast'
  <2> SUFFICES ASSUME NEW c \in Callers, call[c].pending PROVE call[c].now <= clock + 1
    BY <1>1 DEF CapturedInPast
  <2>1. call[c] \in Captured
    BY DEF IInv, TypeOK, Idle
  <2>2. call[c].now \in Nat
    BY <2>1 DEF Captured, Time
  <2>. QED  BY <2>2 DEF IInv, TypeOK, CapturedInPast, Time
<1>. QED
  BY <1>2, <1>3, <1>4, <1>5 DEF IInv

LEMMA CaptureIInv ==
    ASSUME NEW c \in Callers, NEW d \in Digests, IInv, Capture(c, d)
    PROVE  IInv'
<1>1. /\ UNCHANGED <<filter, fifo, latest_time, clock, log, answer>>
      /\ call' = [call EXCEPT ![c] = [pending |-> TRUE, digest |-> d, now |-> clock]]
  BY DEF Capture
<1>2. call' \in [Callers -> {Idle} \union Captured]
  BY <1>1 DEF IInv, TypeOK, Captured
<1>3. TypeOK'
  BY <1>1, <1>2 DEF IInv, TypeOK
<1>4. FilterIsFifo' /\ ReplayWindow' /\ NoSpuriousReplay'
  BY <1>1 DEF IInv, FilterIsFifo, ReplayWindow, NoSpuriousReplay
<1>5. FifoIsLogTail' /\ DroppedForCause' /\ LogInTimeOrder'
  BY <1>1 DEF IInv, FifoIsLogTail, DroppedForCause, Dropped, LogInTimeOrder
<1>6. CapturedInPast'
  BY <1>1 DEF IInv, TypeOK, CapturedInPast, Time
<1>. QED
  BY <1>3, <1>4, <1>5, <1>6 DEF IInv

(* The heart of the argument: a locked test.  After garbage collection the *)
(* queue is still a tail of the log, holds exactly the unexpired entries   *)
(* of what it held, and everything no longer queued left for cause.        *)
LEMMA LockedTestIInv ==
    ASSUME NEW c \in Callers, IInv, LockedTest(c)
    PROVE  IInv'
<1> DEFINE now   == ClampedNow(call[c].now)
           d     == call[c].digest
           gone  == Collected(fifo, now)
           liveQ == DropOldest(fifo, gone)
           liveF == ForgetOldest(filter, fifo, gone)
           room  == Evicted(liveQ)
           base  == Dropped + gone
           e     == [digest |-> d, first_seen |-> now]
<1>1. PICK seen \in BOOLEAN :
        /\ TestAndSet(call[c].now, d, seen)
        /\ answer' = [given |-> TRUE, digest |-> d, seen |-> seen, at |-> latest_time']
        /\ log' = IF seen THEN log
                  ELSE Append(log, [digest |-> d, first_seen |-> latest_time'])
  BY DEF LockedTest
<1>2. call[c] \in Captured /\ call[c].pending
  BY DEF LockedTest, IInv, TypeOK, Idle
<1>3. d \in Digests /\ call[c].now \in Nat /\ call[c].now <= clock
  BY <1>2 DEF Captured, IInv, CapturedInPast, Time
<1>4. /\ now \in Nat
      /\ latest_time <= now
      /\ now <= clock
      /\ latest_time \in Int
  BY <1>3 DEF ClampedNow, IInv, TypeOK, Time, NoTime, LogInTimeOrder
<1>5. /\ fifo \in Seq(Entry) /\ log \in Seq(Entry)
      /\ Len(fifo) \in Nat /\ Len(log) \in Nat
      /\ Len(fifo) <= Len(log)
      /\ Len(fifo) <= MaxCap
      /\ Dropped \in Nat /\ Dropped = Len(log) - Len(fifo)
      /\ TtlLimit \in Nat /\ MaxCap \in Nat
  BY LenProperties, ReplayFilterConstants DEF IInv, TypeOK, FifoIsLogTail, Dropped
<1>6. /\ \A i \in 1..Len(log) : log[i] \in Entry
      /\ \A i \in 1..Len(log) : log[i].digest \in Digests /\ log[i].first_seen \in Nat
  <2>1. \A i \in 1..Len(log) : log[i] \in Entry
    BY <1>5, ElementOfSeq
  <2>. QED  BY <2>1 DEF Entry, Time
<1>7. /\ gone \in 0..Len(fifo)
      /\ \A i \in 1..gone : Expired(fifo[i], now)
      /\ gone < Len(fifo) => ~Expired(fifo[gone + 1], now)
  BY <1>4, <1>5, CollectedProperties DEF Time
<1>8. /\ liveQ \in Seq(Entry)
      /\ Len(liveQ) = Len(fifo) - gone
      /\ Len(liveQ) \in Nat
      /\ \A i \in 1..Len(liveQ) : liveQ[i] = fifo[gone + i] /\ gone + i \in 1..Len(fifo)
  BY <1>5, <1>7, DropOldestProperties
<1>9. liveF = DigestsOf(liveQ)
  BY <1>5, <1>7, ForgetOldestProperties DEF IInv, FilterIsFifo
<1>10. call' = [call EXCEPT ![c] = Idle] /\ clock' = clock /\ latest_time' = now
  BY <1>1 DEF LockedTest, TestAndSet
<1>11. /\ seen = (d \in liveF)
       /\ seen \/ MaxCap = 0 => fifo' = liveQ /\ filter' = liveF
       /\ ~(seen \/ MaxCap = 0) =>
             /\ fifo' = Append(DropOldest(liveQ, room), e)
             /\ filter' = ForgetOldest(liveF, liveQ, room) \union {d}
       /\ log' = IF seen THEN log ELSE Append(log, e)
       /\ answer' = [given |-> TRUE, digest |-> d, seen |-> seen, at |-> now]
  BY <1>1 DEF TestAndSet
<1> HIDE DEF now, d, gone, liveQ, liveF, room
<1>12. /\ base \in Nat
       /\ base + Len(liveQ) = Len(log)
       /\ \A i \in 1..Len(liveQ) : liveQ[i] = log[base + i]
  <2>1. base \in Nat /\ base + Len(liveQ) = Len(log)
    BY <1>5, <1>7, <1>8
  <2>2. ASSUME NEW i \in 1..Len(liveQ) PROVE liveQ[i] = log[base + i]
    <3>1. gone + i \in 1..Len(fifo) /\ liveQ[i] = fifo[gone + i]
      BY <1>8
    <3>2. fifo[gone + i] = log[Dropped + (gone + i)]
      BY <3>1 DEF IInv, FifoIsLogTail
    <3>3. Dropped + (gone + i) = base + i
      BY <1>5, <1>7
    <3>. QED  BY <3>1, <3>2, <3>3
  <2>. QED  BY <2>1, <2>2
<1>13. \A i, j \in 1..Len(liveQ) : liveQ[i].digest = liveQ[j].digest => i = j
  <2> SUFFICES ASSUME NEW i \in 1..Len(liveQ), NEW j \in 1..Len(liveQ),
                      liveQ[i].digest = liveQ[j].digest
               PROVE  i = j
    OBVIOUS
  <2>1. gone + i = gone + j
    BY <1>8 DEF IInv, FilterIsFifo
  <2>. QED  BY <2>1, <1>7
<1>14. \A i \in 1..base : \/ now - log[i].first_seen >= TtlLimit
                         \/ Len(log) - i >= MaxCap
  <2> SUFFICES ASSUME NEW i \in 1..base
               PROVE  \/ now - log[i].first_seen >= TtlLimit
                      \/ Len(log) - i >= MaxCap
    OBVIOUS
  <2>0. i \in 1..Len(log) /\ log[i].first_seen \in Nat /\ log[i].first_seen <= latest_time
    BY <1>5, <1>6, <1>7, <1>12 DEF IInv, LogInTimeOrder
  <2>1. CASE i <= Dropped
    BY <2>0, <2>1, <1>4, <1>5 DEF IInv, DroppedForCause
  <2>2. CASE i > Dropped
    <3>1. i - Dropped \in 1..gone /\ fifo[i - Dropped] = log[i]
      BY <2>2, <1>5, <1>7 DEF IInv, FifoIsLogTail
    <3>2. Expired(log[i], now)
      BY <3>1, <1>7
    <3>. QED  BY <3>2, <2>0, <1>4, <1>5 DEF Expired, Age
  <2>. QED  BY <2>1, <2>2, <1>5
<1>15. \A i \in 1..Len(liveQ) : now - liveQ[i].first_seen < TtlLimit
  <2> SUFFICES ASSUME NEW i \in 1..Len(liveQ)
               PROVE  now - liveQ[i].first_seen < TtlLimit
    OBVIOUS
  <2>1. /\ ~Expired(liveQ[1], now)
        /\ liveQ[1] = log[base + 1] /\ liveQ[i] = log[base + i]
        /\ base + 1 \in 1..Len(log) /\ base + i \in 1..Len(log)
    <3>1. 1 \in 1..Len(liveQ) /\ gone < Len(fifo)
      BY <1>5, <1>7, <1>8
    <3>2. ~Expired(liveQ[1], now)
      BY <3>1, <1>7, <1>8
    <3>. QED  BY <3>1, <3>2, <1>5, <1>8, <1>12
  <2>2. log[base + 1].first_seen <= log[base + i].first_seen
    BY <2>1, <1>6, <1>12 DEF IInv, LogInTimeOrder
  <2>3. log[base + 1].first_seen <= now
    BY <2>1, <1>4, <1>6 DEF IInv, LogInTimeOrder
  <2>. QED  BY <2>1, <2>2, <2>3, <1>4, <1>5, <1>6 DEF Expired, Age
<1>16. e \in Entry
  BY <1>3, <1>4 DEF Entry, Time
<1>17. CapturedInPast' /\ call' \in [Callers -> {Idle} \union Captured]
  BY <1>10 DEF IInv, TypeOK, CapturedInPast, Idle
<1>18. answer' \in Answer
  BY <1>3, <1>4, <1>11 DEF Answer, Time
<1>. HIDE DEF base, e
<1>19. CASE seen
  <2>1. fifo' = liveQ /\ filter' = liveF /\ log' = log
    BY <1>11, <1>19
  <2>2. TypeOK'
    <3>1. liveF \subseteq Digests
      <4>1. DOMAIN liveQ = 1..Len(liveQ) /\ \A i \in 1..Len(liveQ) : liveQ[i] \in Entry
        BY <1>8, ElementOfSeq, LenProperties
      <4>. QED  BY <4>1, <1>9 DEF DigestsOf, Entry
    <3>. QED  BY <3>1, <2>1, <1>4, <1>5, <1>7, <1>8, <1>10, <1>17, <1>18
              DEF TypeOK, IInv, Time
  <2>3. FilterIsFifo'
    BY <2>1, <1>9, <1>13 DEF FilterIsFifo, DigestsOf
  <2>4. Dropped' = base
    BY <2>1, <1>12, <1>8, <1>5 DEF Dropped
  <2>5. FifoIsLogTail'
    BY <2>1, <2>4, <1>12, <1>8, <1>5 DEF FifoIsLogTail
  <2>6. LogInTimeOrder'
    BY <2>1, <1>4, <1>6, <1>10 DEF IInv, LogInTimeOrder
  <2>7. DroppedForCause'
    BY <2>1, <2>4, <1>10, <1>14 DEF DroppedForCause
  <2>8. ReplayWindow'
    BY <2>1 DEF IInv, ReplayWindow
  <2>9. NoSpuriousReplay'
    <3>1. PICK i \in 1..Len(liveQ) : liveQ[i].digest = d
      BY <1>9, <1>11, <1>19, <1>8, LenProperties DEF DigestsOf
    <3>2. base + i \in 1..Len(log) /\ log[base + i].digest = d
          /\ now - log[base + i].first_seen < TtlLimit
      BY <3>1, <1>5, <1>8, <1>12, <1>15
    <3>. QED  BY <3>2, <2>1, <1>11 DEF NoSpuriousReplay
  <2>. QED  BY <2>2, <2>3, <2>5, <2>6, <2>7, <2>8, <2>9, <1>17 DEF IInv
<1>20. CASE ~seen
  <2>1. /\ log' = Append(log, e)
        /\ log' \in Seq(Entry)
        /\ Len(log') = Len(log) + 1
        /\ \A i \in 1..Len(log) : log'[i] = log[i]
        /\ log'[Len(log) + 1] = e
    BY <1>5, <1>11, <1>16, <1>20, AppendProperties
  <2>2. e.digest = d /\ e.first_seen = now
    BY DEF e
  <2>3. LogInTimeOrder'
    <3>1. \A i \in 1..Len(log') : log'[i].first_seen <= now
      BY <2>1, <2>2, <1>4, <1>5, <1>6 DEF IInv, LogInTimeOrder
    <3>2. \A i, j \in 1..Len(log') : i < j => log'[i].first_seen <= log'[j].first_seen
      BY <3>1, <2>1, <2>2, <1>5 DEF IInv, LogInTimeOrder
    <3>. QED  BY <3>1, <3>2, <1>4, <1>10 DEF LogInTimeOrder
  <2>4. \A i \in 1..Len(liveQ) : liveQ[i].digest # d
    BY <1>8, <1>9, <1>11, <1>20, LenProperties DEF DigestsOf
  <2>5. ReplayWindow'
    <3> SUFFICES ASSUME NEW i \in 1..Len(log'), NEW j \in 1..Len(log'),
                        i < j, log'[i].digest = log'[j].digest
                 PROVE  \/ log'[j].first_seen - log'[i].first_seen >= TtlLimit
                        \/ j - i > MaxCap
      BY DEF ReplayWindow
    <3>1. CASE j <= Len(log)
      BY <3>1, <2>1, <1>5 DEF IInv, ReplayWindow
    <3>2. CASE j = Len(log) + 1
      <4>1. i \in 1..Len(log) /\ log[i].digest = d /\ log'[i] = log[i]
        BY <3>2, <2>1, <2>2, <1>5
      <4>2. i \in 1..base
        <5>1. ~(i > base)
          <6> SUFFICES ASSUME i > base PROVE FALSE
            OBVIOUS
          <6>1. i - base \in 1..Len(liveQ) /\ liveQ[i - base] = log[base + (i - base)]
            BY <4>1, <1>5, <1>8, <1>12
          <6>. QED  BY <6>1, <4>1, <2>4, <1>12
        <5>. QED  BY <5>1, <4>1, <1>12
      <4>. QED  BY <4>1, <4>2, <3>2, <2>1, <2>2, <1>5, <1>6, <1>14, <1>4
    <3>. QED  BY <3>1, <3>2, <2>1, <1>5
  <2>6. NoSpuriousReplay'
    BY <1>11, <1>20 DEF NoSpuriousReplay
  <2>7. CASE MaxCap = 0
    <3>1. fifo' = liveQ /\ filter' = liveF
      BY <1>11, <2>7
    <3>2. Len(fifo) = 0 /\ Len(liveQ) = 0 /\ base = Len(log)
      BY <2>7, <1>5, <1>7, <1>8, <1>12
    <3>3. liveF = {}
      BY <3>2, <1>8, <1>9, LenProperties DEF DigestsOf
    <3>4. TypeOK'
      BY <3>1, <3>2, <3>3, <2>1, <1>4, <1>5, <1>8, <1>10, <1>17, <1>18
         DEF TypeOK, IInv, Time
    <3>5. FilterIsFifo'
      BY <3>1, <1>9, <1>13 DEF FilterIsFifo, DigestsOf
    <3>6. Dropped' = Len(log) + 1
      BY <3>1, <3>2, <2>1, <1>5 DEF Dropped
    <3>7. FifoIsLogTail'
      BY <3>1, <3>2, <2>1, <1>5 DEF FifoIsLogTail
    <3>8. DroppedForCause'
      BY <3>6, <2>1, <2>7, <1>5 DEF DroppedForCause
    <3>. QED  BY <3>4, <3>5, <3>7, <3>8, <2>3, <2>5, <2>6, <1>17 DEF IInv
  <2>8. CASE MaxCap # 0
    <3> DEFINE keptQ == DropOldest(liveQ, room)
    <3>1. /\ fifo' = Append(keptQ, e)
          /\ filter' = ForgetOldest(liveF, liveQ, room) \union {d}
      BY <1>11, <1>20, <2>8
    <3>2. /\ room \in 0..Len(liveQ)
          /\ Len(liveQ) - room < MaxCap
          /\ room # 0 => Len(liveQ) >= MaxCap
      <4>1. Len(liveQ) \in Nat /\ MaxCap \in Nat /\ MaxCap # 0
        BY <2>8, <1>5, <1>8
      <4>2. room = IF Len(liveQ) >= MaxCap THEN Len(liveQ) - MaxCap + 1 ELSE 0
        BY DEF room, Evicted
      <4>. QED  BY <4>1, <4>2
    <3>3. /\ keptQ \in Seq(Entry)
          /\ Len(keptQ) = Len(liveQ) - room
          /\ Len(keptQ) \in Nat
          /\ \A i \in 1..Len(keptQ) : keptQ[i] = liveQ[room + i] /\ room + i \in 1..Len(liveQ)
      BY <3>2, <1>8, DropOldestProperties
    <3>4. ForgetOldest(liveF, liveQ, room) = DigestsOf(keptQ)
      BY <3>2, <1>8, <1>9, <1>13, ForgetOldestProperties
    <3> HIDE DEF keptQ
    <3>5. /\ fifo' \in Seq(Entry)
          /\ Len(fifo') = Len(keptQ) + 1
          /\ \A i \in 1..Len(keptQ) : fifo'[i] = keptQ[i]
          /\ fifo'[Len(keptQ) + 1] = e
      BY <3>1, <3>3, <1>16, AppendProperties
    <3>6. filter' = DigestsOf(fifo')
      <4>1. DOMAIN keptQ = 1..Len(keptQ) /\ DOMAIN fifo' = 1..(Len(keptQ) + 1)
            /\ Len(keptQ) \in Nat
        BY <3>3, <3>5, LenProperties
      <4>2. DigestsOf(fifo') = DigestsOf(keptQ) \union {d}
        BY <4>1, <3>5, <2>2 DEF DigestsOf
      <4>. QED  BY <4>2, <3>1, <3>4
    <3>7. FilterIsFifo'
      <4> SUFFICES ASSUME NEW i \in 1..Len(fifo'), NEW j \in 1..Len(fifo'),
                          fifo'[i].digest = fifo'[j].digest
                   PROVE  i = j
        BY <3>6 DEF FilterIsFifo
      <4>1. \A k \in 1..Len(keptQ) : /\ room + k \in 1..Len(liveQ)
                                     /\ fifo'[k] = liveQ[room + k]
                                     /\ fifo'[k].digest # d
        BY <3>3, <3>5, <2>4
      <4>2. CASE i \in 1..Len(keptQ) /\ j \in 1..Len(keptQ)
        <5>1. room + i = room + j
          BY <4>1, <4>2, <1>13
        <5>. QED  BY <5>1, <3>2, <4>2
      <4>3. CASE i = Len(keptQ) + 1 /\ j = Len(keptQ) + 1
        BY <4>3
      <4>4. i \in 1..Len(keptQ) \/ i = Len(keptQ) + 1
        BY <3>3, <3>5
      <4>5. j \in 1..Len(keptQ) \/ j = Len(keptQ) + 1
        BY <3>3, <3>5
      <4>. QED  BY <4>1, <4>2, <4>3, <4>4, <4>5, <3>5, <2>2
    <3>8. TypeOK'
      <4>1. filter' \subseteq Digests
        <5>1. /\ DOMAIN fifo' = 1..Len(fifo')
              /\ \A i \in 1..Len(fifo') : fifo'[i] \in Entry
          BY <3>5, ElementOfSeq, LenProperties
        <5>. QED  BY <5>1, <3>6 DEF DigestsOf, Entry
      <4>2. Len(fifo') <= MaxCap
        BY <3>2, <3>3, <3>5, <1>5, <1>8
      <4>. QED  BY <4>1, <4>2, <3>5, <2>1, <1>4, <1>10, <1>17, <1>18
                DEF TypeOK, IInv, Time
    <3>9. Dropped' = base + room /\ Len(fifo') <= Len(log')
      <4>1. Len(fifo') = Len(liveQ) - room + 1 /\ Len(log') = Len(log) + 1
        BY <3>3, <3>5, <2>1
      <4>2. base \in Nat /\ base + Len(liveQ) = Len(log)
        BY <1>12
      <4>3. room \in Nat /\ Len(liveQ) \in Nat /\ room <= Len(liveQ)
        BY <3>2, <1>8
      <4>. QED  BY <4>1, <4>2, <4>3 DEF Dropped
    <3>10. FifoIsLogTail'
      <4> SUFFICES ASSUME NEW i \in 1..Len(fifo')
                   PROVE  fifo'[i] = log'[base + room + i]
        BY <3>9 DEF FifoIsLogTail
      <4>1. CASE i <= Len(keptQ)
        <5>1. room + i \in 1..Len(liveQ) /\ fifo'[i] = liveQ[room + i]
          BY <4>1, <3>3, <3>5
        <5>2. liveQ[room + i] = log[base + (room + i)] /\ base + (room + i) \in 1..Len(log)
          <6>1. liveQ[room + i] = log[base + (room + i)]
            BY <5>1, <1>12
          <6>2. base \in Nat /\ Len(liveQ) \in Nat /\ base + Len(liveQ) = Len(log)
            BY <1>8, <1>12
          <6>. QED  BY <5>1, <6>1, <6>2
        <5>. QED  BY <5>1, <5>2, <2>1, <1>12, <3>2
      <4>2. CASE i = Len(keptQ) + 1
        <5>1. base + room + i = Len(log) + 1
          <6>1. i = Len(liveQ) - room + 1 /\ base + Len(liveQ) = Len(log)
            BY <4>2, <3>3, <1>12
          <6>2. room \in Nat /\ base \in Nat /\ Len(liveQ) \in Nat
            BY <3>2, <1>8, <1>12
          <6>. QED  BY <6>1, <6>2
        <5>. QED  BY <5>1, <4>2, <3>5, <2>1
      <4>. QED  BY <4>1, <4>2, <3>3, <3>5
    <3>11. DroppedForCause'
      <4> SUFFICES ASSUME NEW i \in 1..(base + room)
                   PROVE  \/ now - log'[i].first_seen >= TtlLimit
                          \/ Len(log') - i >= MaxCap
        BY <3>9, <1>10 DEF DroppedForCause
      <4>1. i \in 1..Len(log) /\ log'[i] = log[i]
        BY <3>2, <2>1, <1>5, <1>7, <1>8, <1>12
      <4>2. CASE i <= base
        BY <4>1, <4>2, <1>12, <1>14, <1>5, <2>1
      <4>3. CASE i > base
        <5>1. Len(liveQ) - room < MaxCap /\ Len(liveQ) >= MaxCap
              /\ room = Len(liveQ) - MaxCap + 1
          BY <4>3, <3>2, <1>5, <1>8, <1>12 DEF room, Evicted
        <5>2. i <= base + room /\ base + Len(liveQ) = Len(log) /\ Len(log') = Len(log) + 1
          BY <2>1, <1>12, <3>2
        <5>3. base \in Nat /\ Len(liveQ) \in Nat /\ MaxCap \in Nat /\ i \in Nat
          BY <1>5, <1>8, <1>12, <3>2
        <5>4. i <= base + (Len(liveQ) - MaxCap + 1)
          BY <5>1, <5>2
        <5>5. Len(log') = base + Len(liveQ) + 1
          BY <5>2
        <5>6. Len(log') - i >= MaxCap
          BY <5>3, <5>4, <5>5
        <5>. QED  BY <5>6
      <4>. QED  BY <4>2, <4>3, <1>12
    <3>. QED  BY <3>7, <3>8, <3>10, <3>11, <2>3, <2>5, <2>6, <1>17 DEF IInv
  <2>. QED  BY <2>7, <2>8
<1>. QED
  BY <1>19, <1>20

(* Every step of the filter keeps the inductive invariant. *)
LEMMA NextIInv == IInv /\ [Next]_vars => IInv'
<1> SUFFICES ASSUME IInv, [Next]_vars PROVE IInv'
  OBVIOUS
<1>1. CASE Tick
  BY <1>1, TickIInv
<1>2. CASE \E c \in Callers, d \in Digests : Capture(c, d)
  BY <1>2, CaptureIInv
<1>3. CASE \E c \in Callers : LockedTest(c)
  BY <1>3, LockedTestIInv
<1>4. CASE UNCHANGED vars
  BY <1>4 DEF vars, IInv, TypeOK, FilterIsFifo, FifoIsLogTail, LogInTimeOrder,
              DroppedForCause, Dropped, CapturedInPast, ReplayWindow, NoSpuriousReplay
<1>. QED  BY <1>1, <1>2, <1>3, <1>4 DEF Next

(* IInv is an invariant of the filter, whatever the number of callers, the *)
(* lifetime and the capacity.                                              *)
THEOREM Invariance == Spec => []IInv
BY InitIInv, NextIInv, PTL DEF Spec

(* The filter's types, and its bound on the number of entries. *)
THEOREM TypeCorrect == Spec => []TypeOK
BY Invariance, PTL DEF IInv

(* The digest set and the queue never disagree, and the queue is in the    *)
(* order of its times, however late a caller gets the lock.                *)
THEOREM FilterConsistent == Spec => [](FilterIsFifo /\ QueueInTimeOrder)
<1>1. IInv => FilterIsFifo /\ QueueInTimeOrder
  <2> SUFFICES ASSUME IInv, NEW i \in 1..Len(fifo), NEW j \in 1..Len(fifo), i < j
               PROVE  fifo[i].first_seen <= fifo[j].first_seen
    BY DEF IInv, QueueInTimeOrder
  <2>1. /\ Len(fifo) \in Nat /\ Len(log) \in Nat /\ Len(fifo) <= Len(log)
        /\ fifo[i] = log[Dropped + i] /\ fifo[j] = log[Dropped + j]
    BY DEF IInv, TypeOK, FifoIsLogTail
  <2>2. /\ Dropped + i \in 1..Len(log) /\ Dropped + j \in 1..Len(log)
        /\ Dropped + i < Dropped + j
    BY <2>1 DEF Dropped
  <2> HIDE DEF Dropped
  <2> QED BY <2>1, <2>2 DEF IInv, LogInTimeOrder
<1> QED BY <1>1, Invariance, PTL

(* One digest is let through twice only after ttl_limit or max_cap other   *)
(* insertions.                                                             *)
THEOREM ReplaysCaught == Spec => []ReplayWindow
BY Invariance, PTL DEF IInv

(* Only a digest inserted less than ttl_limit ago is reported as a replay. *)
THEOREM NoFalseAlarm == Spec => []NoSpuriousReplay
BY Invariance, PTL DEF IInv

-----------------------------------------------------------------------------
(* The handshake.                                                          *)
Testing(c) == conn[c].srv \in {"checking", "locking"}

(* A hello with this stamp passes the MAC check at a time t only inside    *)
(* the window of its three hours.                                          *)
InWindow(stamp, t) == (stamp - 1) * TicksPerHour <= t /\ t < (stamp + 2) * TicksPerHour

(* A connection between the MAC check and the filter's answer read the     *)
(* hour inside the window of its hello and at most MaxStall ago.           *)
TestsInWindow ==
    \A c \in Callers : Testing(c) =>
        /\ conn[c].msg \in Digests
        /\ hello[conn[c].msg] \in Hello
        /\ conn[c].at \in Nat
        /\ conn[c].at <= clock
        /\ clock <= conn[c].at + MaxStall
        /\ InWindow(hello[conn[c].msg].stamp, conn[c].at)

(* The filter's call of a connection is about its hello and not older than *)
(* the reading of the hour.                                                *)
CallsMatch ==
    \A c \in Callers :
        /\ call[c].pending => conn[c].srv = "locking"
        /\ call[c].pending => call[c].digest = conn[c].msg
        /\ call[c].pending => conn[c].at <= call[c].now

(* Every insertion happened in the window of its hello, or at most         *)
(* MaxStall after it.                                                      *)
LogInWindow ==
    \A i \in 1..Len(log) :
        /\ hello[log[i].digest] \in Hello
        /\ (hello[log[i].digest].stamp - 1) * TicksPerHour <= log[i].first_seen
        /\ log[i].first_seen < (hello[log[i].digest].stamp + 2) * TicksPerHour + MaxStall

ConnRec == [srv : ServerPcs, cli : ClientPcs, msg : Digests \union {Junk, NoMsg},
            got : Int, at : Nat, cause : Causes, echo : Int, rgot : Int]

ConnType ==
    /\ hello \in [Digests -> {NotMade} \union Hello]
    /\ conn \in [Callers -> ConnRec]
    /\ \A c \in Callers : conn[c].msg \in Digests => hello[conn[c].msg] \in Hello
    /\ \A c \in Callers : conn[c].srv = "reading" => conn[c].msg # NoMsg

HsInv == ConnType /\ TestsInWindow /\ CallsMatch /\ LogInWindow

-----------------------------------------------------------------------------
(* The hour of t is the h with h * TicksPerHour <= t < (h+1) * TicksPerHour. *)
LEMMA HourBounds ==
    ASSUME NEW t \in Int
    PROVE  /\ Hour(t) \in Int
           /\ Hour(t) * TicksPerHour <= t
           /\ t < (Hour(t) + 1) * TicksPerHour
<1>1. TicksPerHour \in Nat /\ TicksPerHour > 0
  BY HandshakeConstants
<1> QED BY <1>1, SMT DEF Hour

(* try_parse_client_handshake_at accepts a MAC only inside the window.     *)
LEMMA MatchInWindow ==
    ASSUME NEW stamp \in Int, NEW t \in Nat, MacMatches(stamp, Hour(t))
    PROVE  InWindow(stamp, t)
<1>1. TicksPerHour \in Nat /\ TicksPerHour > 0
  BY HandshakeConstants
<1> DEFINE h == Hour(t)
<1>2. h \in Int /\ h * TicksPerHour <= t /\ t < (h + 1) * TicksPerHour
  BY HourBounds
<1>3. stamp - h \in -1..1
  BY DEF MacMatches
<1> HIDE DEF h
<1>4. stamp = h - 1 \/ stamp = h \/ stamp = h + 1
  BY <1>2, <1>3
<1>5. CASE stamp = h - 1
  BY <1>1, <1>2, <1>5 DEF InWindow
<1>6. CASE stamp = h
  BY <1>1, <1>2, <1>6 DEF InWindow
<1>7. CASE stamp = h + 1
  BY <1>1, <1>2, <1>7 DEF InWindow
<1> QED BY <1>4, <1>5, <1>6, <1>7

-----------------------------------------------------------------------------
(* A step of one connection that leaves the filter alone keeps HsInv, if   *)
(* the connection neither enters nor leaves the filter and, when it passes *)
(* the MAC check, does so inside the window.                               *)
LEMMA ConnStepInv ==
    ASSUME HsInv, IInv, UNCHANGED vars, hello' = hello,
           NEW c \in Callers, NEW r \in ConnRec,
           conn' = [conn EXCEPT ![c] = r],
           conn[c].srv # "locking", r.srv # "locking",
           r.msg \in Digests => hello[r.msg] \in Hello,
           r.srv = "reading" => r.msg # NoMsg,
           r.srv = "checking" => /\ r.msg \in Digests
                                 /\ r.at <= clock /\ clock <= r.at + MaxStall
                                 /\ InWindow(hello[r.msg].stamp, r.at)
    PROVE  HsInv'
<1>1. ConnType'
  BY DEF HsInv, ConnType
<1>2. \A k \in Callers : conn'[k] = IF k = c THEN r ELSE conn[k]
  BY DEF HsInv, ConnType
<1>3. clock' = clock /\ log' = log /\ call' = call
  BY DEF vars
<1>4. TestsInWindow'
  <2> SUFFICES ASSUME NEW k \in Callers, Testing(k)'
               PROVE  (/\ conn[k].msg \in Digests
                       /\ hello[conn[k].msg] \in Hello
                       /\ conn[k].at \in Nat
                       /\ conn[k].at <= clock
                       /\ clock <= conn[k].at + MaxStall
                       /\ InWindow(hello[conn[k].msg].stamp, conn[k].at))'
    BY DEF TestsInWindow
  <2>1. CASE k = c
    BY <2>1, <1>2, <1>3 DEF Testing, ConnRec, InWindow
  <2>2. CASE k # c
    BY <2>2, <1>2, <1>3 DEF Testing, InWindow, HsInv, TestsInWindow
  <2> QED BY <2>1, <2>2
<1>5. CallsMatch'
  <2> SUFFICES ASSUME NEW k \in Callers, call[k].pending
               PROVE  conn'[k].srv = "locking" /\ call[k].digest = conn'[k].msg
                      /\ conn'[k].at <= call[k].now
    BY <1>3 DEF CallsMatch
  <2>1. k # c
    BY DEF HsInv, CallsMatch
  <2> QED BY <2>1, <1>2 DEF HsInv, CallsMatch
<1>6. LogInWindow'
  BY <1>3 DEF HsInv, LogInWindow
<1> QED BY <1>1, <1>4, <1>5, <1>6 DEF HsInv

(* What the log holds are digests of hellos. *)
LEMMA LoggedDigests ==
    ASSUME IInv
    PROVE  \A i \in 1..Len(log) : log[i] \in Entry /\ log[i].digest \in Digests
<1>1. log \in Seq(Entry)
  BY DEF IInv, TypeOK
<1>2. \A i \in 1..Len(log) : log[i] \in Entry
  BY <1>1, ElementOfSeq
<1> QED BY <1>2 DEF Entry

(* Setting fields of a connection record.                                  *)
LEMMA SetFields ==
    ASSUME NEW r \in ConnRec
    PROVE  /\ \A x \in ServerPcs : LET n == [r EXCEPT !.srv = x] IN
                 n \in ConnRec /\ n.srv = x /\ n.msg = r.msg /\ n.at = r.at
           /\ \A x \in Int : LET n == [r EXCEPT !.got = x] IN
                 n \in ConnRec /\ n.srv = r.srv /\ n.msg = r.msg /\ n.at = r.at
           /\ \A x \in Nat : LET n == [r EXCEPT !.at = x] IN
                 n \in ConnRec /\ n.srv = r.srv /\ n.msg = r.msg /\ n.at = x
           /\ \A x \in Causes : LET n == [r EXCEPT !.cause = x] IN
                 n \in ConnRec /\ n.srv = r.srv /\ n.msg = r.msg /\ n.at = r.at
           /\ \A x \in Int : LET n == [r EXCEPT !.echo = x] IN
                 n \in ConnRec /\ n.srv = r.srv /\ n.msg = r.msg /\ n.at = r.at
           /\ \A x \in Int : LET n == [r EXCEPT !.rgot = x] IN
                 n \in ConnRec /\ n.srv = r.srv /\ n.msg = r.msg /\ n.at = r.at
           /\ \A x \in ClientPcs : LET n == [r EXCEPT !.cli = x] IN
                 n \in ConnRec /\ n.srv = r.srv /\ n.msg = r.msg /\ n.at = r.at
BY DEF ConnRec

(* A refused connection.                                                   *)
LEMMA RefusedFields ==
    ASSUME NEW r \in ConnRec, NEW why \in Causes, NEW at \in Nat, NEW to \in ServerPcs
    PROVE  /\ Refused(r, why, at, to) \in ConnRec
           /\ Refused(r, why, at, to).srv = to
           /\ Refused(r, why, at, to).msg = r.msg
<1> DEFINE r1 == [r EXCEPT !.srv = to]
           r2 == [r1 EXCEPT !.cause = why]
           r3 == [r2 EXCEPT !.got = 0]
           r4 == [r3 EXCEPT !.at = at]
<1>1. r1 \in ConnRec /\ r1.srv = to /\ r1.msg = r.msg
  BY SetFields
<1>2. Refused(r, why, at, to) = r4
  BY DEF Refused
<1> HIDE DEF r1
<1>3. r2 \in ConnRec /\ r2.srv = to /\ r2.msg = r.msg
  BY <1>1, SetFields
<1> HIDE DEF r2
<1>4. r3 \in ConnRec /\ r3.srv = to /\ r3.msg = r.msg
  BY <1>3, SetFields
<1> HIDE DEF r3
<1>5. r4 \in ConnRec /\ r4.srv = to /\ r4.msg = r.msg
  BY <1>4, SetFields
<1> QED BY <1>2, <1>5

(* Opening a connection, reading, replying and giving up.                  *)
LEMMA ClientHelloInv ==
    ASSUME HsInv, IInv, NEW c \in Callers, NEW d \in Digests, NEW k \in Skews,
           ClientHello(c, d, k)
    PROVE  HsInv'
<1>1. /\ ~hello[d].made /\ conn[c].srv = "unused"
      /\ hello' = [hello EXCEPT ![d] = [made |-> TRUE, at |-> clock, skew |-> k,
                                        stamp |-> Hour(clock + k)]]
      /\ conn' = [conn EXCEPT ![c] = Opened(d, "waiting")]
      /\ UNCHANGED vars
  BY DEF ClientHello, HsUnchanged
<1>2. clock \in Nat /\ k \in Int /\ clock + k \in Int
  BY HandshakeConstants DEF IInv, TypeOK, Time
<1>3. hello'[d] \in Hello
  BY <1>1, <1>2, HourBounds DEF Hello, Time, HsInv, ConnType
<1>4. \A e \in Digests : hello[e] \in Hello => e # d /\ hello'[e] = hello[e]
  BY <1>1 DEF Hello, HsInv, ConnType
<1>5. hello' \in [Digests -> {NotMade} \union Hello]
  BY <1>1, <1>3 DEF HsInv, ConnType
<1>6. Opened(d, "waiting") \in ConnRec
  BY DEF Opened, ConnRec, ServerPcs, ClientPcs, Causes
<1>7. \A j \in Callers : conn'[j] = IF j = c THEN Opened(d, "waiting") ELSE conn[j]
  BY <1>1 DEF HsInv, ConnType
<1>8. clock' = clock /\ log' = log /\ call' = call
  BY <1>1 DEF vars
<1>9. ConnType'
  <2>1. conn' \in [Callers -> ConnRec]
    BY <1>1, <1>6 DEF HsInv, ConnType
  <2>2. \A j \in Callers : conn'[j].msg \in Digests => hello'[conn'[j].msg] \in Hello
    BY <1>3, <1>4, <1>7 DEF HsInv, ConnType, Opened
  <2>3. \A j \in Callers : conn'[j].srv = "reading" => conn'[j].msg # NoMsg
    BY <1>7, NamesDistinct DEF HsInv, ConnType, Opened
  <2> QED BY <1>5, <2>1, <2>2, <2>3 DEF ConnType
<1>10. TestsInWindow'
  <2> SUFFICES ASSUME NEW j \in Callers, Testing(j)'
               PROVE  (/\ conn[j].msg \in Digests
                       /\ hello[conn[j].msg] \in Hello
                       /\ conn[j].at \in Nat
                       /\ conn[j].at <= clock
                       /\ clock <= conn[j].at + MaxStall
                       /\ InWindow(hello[conn[j].msg].stamp, conn[j].at))'
    BY DEF TestsInWindow
  <2>1. j # c /\ conn'[j] = conn[j]
    BY <1>7 DEF Testing, Opened
  <2> QED BY <2>1, <1>4, <1>8 DEF Testing, InWindow, HsInv, TestsInWindow
<1>11. CallsMatch'
  BY <1>1, <1>7, <1>8 DEF HsInv, CallsMatch
<1>12. LogInWindow'
  <2>1. \A i \in 1..Len(log) : log[i].digest \in Digests
    BY LoggedDigests
  <2> QED BY <2>1, <1>4, <1>8 DEF HsInv, LogInWindow
<1> QED BY <1>9, <1>10, <1>11, <1>12 DEF HsInv

(* The actions of one connection that do not touch the filter.             *)
LEMMA ServerParsesInv ==
    ASSUME HsInv, IInv, NEW c \in Callers, ServerParses(c)
    PROVE  HsInv'
<1> DEFINE r == conn[c]
           h == hello[r.msg]
<1>1. r \in ConnRec /\ r.srv = "reading" /\ r.msg \in Digests /\ h \in Hello
  BY DEF ServerParses, HsInv, ConnType, ConnRec
<1>2. clock \in Nat /\ MaxStall \in Nat
  BY HandshakeConstants DEF IInv, TypeOK, Time
<1>3. UNCHANGED vars /\ hello' = hello
  BY DEF ServerParses, HsUnchanged
<1>4. CASE MacMatches(h.stamp, Hour(clock))
  <2> DEFINE ra == [r EXCEPT !.srv = "checking"]
             rb == [ra EXCEPT !.got = Pieces]
             r2 == [rb EXCEPT !.at = clock]
  <2>1. conn' = [conn EXCEPT ![c] = r2]
    BY <1>4 DEF ServerParses
  <2>a. ra \in ConnRec /\ ra.msg = r.msg /\ ra.srv = "checking"
    BY <1>1, SetFields DEF ServerPcs
  <2> HIDE DEF ra
  <2>b. rb \in ConnRec /\ rb.msg = r.msg /\ rb.srv = "checking"
    BY <2>a, HandshakeConstants, SetFields
  <2> HIDE DEF rb
  <2>2. r2 \in ConnRec
    BY <2>b, <1>2, SetFields
  <2>3. r2.msg = r.msg /\ r2.srv = "checking" /\ r2.at = clock
    BY <2>b, <1>2, SetFields
  <2>4. InWindow(h.stamp, clock)
    BY <1>1, <1>2, <1>4, MatchInWindow DEF Hello
  <2>5. r2.at <= clock /\ clock <= r2.at + MaxStall
    BY <2>3, <1>2
  <2> HIDE DEF r2
  <2> QED BY <2>1, <2>2, <2>3, <2>4, <2>5, <1>1, <1>3, ConnStepInv
<1>5. CASE ~MacMatches(h.stamp, Hour(clock))
  <2>1. PICK to \in {"discarding", "failed"} :
           conn' = [conn EXCEPT ![c] = Refused(r, "bad", clock, to)]
    BY <1>5 DEF ServerParses
  <2> DEFINE r2 == Refused(r, "bad", clock, to)
  <2>a. to \in ServerPcs /\ "bad" \in Causes
    BY DEF ServerPcs, Causes
  <2>2. r2 \in ConnRec /\ r2.msg = r.msg /\ r2.srv = to
    BY <1>1, <1>2, <2>a, RefusedFields
  <2> HIDE DEF r2
  <2>3. conn' = [conn EXCEPT ![c] = r2]
    BY <2>1 DEF r2
  <2> QED BY <2>2, <2>3, <1>1, <1>3, ConnStepInv
<1> QED BY <1>4, <1>5

LEMMA QuietStepInv ==
    ASSUME HsInv, IInv, NEW c \in Callers,
           \/ \E d \in Digests : HelloAgain(c, d)
           \/ NoHello(c)
           \/ ServerReadsPart(c)
           \/ BufferFull(c)
           \/ ServerReplied(c)
           \/ ServerGivesUp(c)
           \/ ClientReads(c)
           \/ ClientGivesUp(c)
    PROVE  HsInv'
<1>1. conn \in [Callers -> ConnRec] /\ conn[c] \in ConnRec
  BY DEF HsInv, ConnType
<1>2. conn[c].msg \in Digests => hello[conn[c].msg] \in Hello
  BY DEF HsInv, ConnType
<1>3. CASE \E d \in Digests : HelloAgain(c, d)
  <2>1. PICK d \in Digests : HelloAgain(c, d)
    BY <1>3
  <2> DEFINE r == Opened(d, "none")
  <2>2. r \in ConnRec /\ r.srv = "reading" /\ r.msg = d /\ d # NoMsg
    BY NamesDistinct DEF Opened, ConnRec, ServerPcs, ClientPcs, Causes
  <2>3. hello[d] \in Hello
    BY <2>1 DEF HelloAgain, HsInv, ConnType, NotMade
  <2>4. conn' = [conn EXCEPT ![c] = r] /\ conn[c].srv = "unused" /\ UNCHANGED vars /\ hello' = hello
    BY <2>1 DEF HelloAgain, HsUnchanged
  <2> HIDE DEF r
  <2> QED BY <2>2, <2>3, <2>4, ConnStepInv
<1>4. CASE NoHello(c)
  <2> DEFINE r == Opened(Junk, "none")
  <2>2. r \in ConnRec /\ r.srv = "reading" /\ r.msg = Junk /\ Junk \notin Digests /\ Junk # NoMsg
    BY NamesDistinct DEF Opened, ConnRec, ServerPcs, ClientPcs, Causes, Junk, NoMsg
  <2>4. conn' = [conn EXCEPT ![c] = r] /\ conn[c].srv = "unused" /\ UNCHANGED vars /\ hello' = hello
    BY <1>4 DEF NoHello, HsUnchanged
  <2> HIDE DEF r
  <2> QED BY <2>2, <2>4, ConnStepInv
<1>5. CASE ServerReadsPart(c)
  <2> DEFINE r == [conn[c] EXCEPT !.got = conn[c].got + 1]
  <2>2. r \in ConnRec /\ r.srv = "reading" /\ r.msg = conn[c].msg /\ conn[c].srv = "reading"
    BY <1>1, <1>5 DEF ConnRec, ServerReadsPart
  <2>3. r.msg # NoMsg
    BY <2>2 DEF HsInv, ConnType
  <2>4. conn' = [conn EXCEPT ![c] = r] /\ UNCHANGED vars /\ hello' = hello
    BY <1>1, <1>5 DEF ServerReadsPart, HsUnchanged
  <2> HIDE DEF r
  <2> QED BY <2>2, <2>3, <2>4, <1>2, ConnStepInv
<1>6. CASE BufferFull(c)
  <2> DEFINE r == Refused(conn[c], "full", 0, "failed")
  <2>1. "failed" \in ServerPcs /\ "full" \in Causes /\ conn[c].srv = "reading"
    BY <1>6 DEF ServerPcs, Causes, BufferFull
  <2>2. r \in ConnRec /\ r.srv = "failed" /\ r.msg = conn[c].msg
    BY <1>1, <2>1, RefusedFields
  <2>4. conn' = [conn EXCEPT ![c] = r] /\ UNCHANGED vars /\ hello' = hello
    BY <1>1, <1>6 DEF BufferFull, HsUnchanged
  <2> HIDE DEF r
  <2> QED BY <2>1, <2>2, <2>4, <1>2, ConnStepInv
<1>7. CASE ServerReplied(c)
  <2> DEFINE r == [conn[c] EXCEPT !.srv = "established"]
  <2>2. r \in ConnRec /\ r.srv = "established" /\ r.msg = conn[c].msg /\ conn[c].srv = "replying"
    BY <1>1, <1>7 DEF ConnRec, ServerReplied, ServerPcs
  <2>4. conn' = [conn EXCEPT ![c] = r] /\ UNCHANGED vars /\ hello' = hello
    BY <1>1, <1>7 DEF ServerReplied, HsUnchanged
  <2> HIDE DEF r
  <2> QED BY <2>2, <2>4, <1>2, ConnStepInv
<1>8. CASE ServerGivesUp(c)
  <2> DEFINE q == [conn[c] EXCEPT !.srv = "failed"]
             r == [q EXCEPT !.got = 0]
  <2>1. q \in ConnRec /\ q.srv = "failed" /\ q.msg = conn[c].msg /\ conn[c].srv # "locking"
    BY <1>1, <1>8, SetFields DEF ServerGivesUp, ServerPcs
  <2>4. conn' = [conn EXCEPT ![c] = r] /\ UNCHANGED vars /\ hello' = hello
    BY <1>1, <1>8 DEF ServerGivesUp, HsUnchanged
  <2> HIDE DEF q
  <2>2. r \in ConnRec /\ r.srv = "failed" /\ r.msg = conn[c].msg
    BY <2>1, SetFields
  <2> HIDE DEF r
  <2> QED BY <2>1, <2>2, <2>4, <1>2, ConnStepInv
<1>9. CASE ClientReads(c)
  <2> DEFINE k == (conn[c].rgot + 1) % Pieces
             to == IF conn[c].rgot + 1 < Pieces THEN "waiting"
                   ELSE IF conn[c].echo = hello[conn[c].msg].stamp
                        THEN "established" ELSE "refused"
             q == [conn[c] EXCEPT !.rgot = k]
             r == [q EXCEPT !.cli = to]
  <2>1. conn[c].rgot \in Int /\ conn[c].srv \in {"established", "replying"}
    BY <1>1, <1>9 DEF ClientReads, ConnRec
  <2>2. k \in Int
    <3>1. Pieces \in Nat \ {0}
      BY HandshakeConstants
    <3> QED BY <2>1, <3>1
  <2>3. to \in ClientPcs
    BY DEF ClientPcs
  <2>4. conn' = [conn EXCEPT ![c] = r] /\ UNCHANGED vars /\ hello' = hello
    BY <1>1, <1>9 DEF ClientReads, HsUnchanged
  <2> HIDE DEF k, to
  <2>5. q \in ConnRec /\ q.srv = conn[c].srv /\ q.msg = conn[c].msg
    BY <1>1, <2>2, SetFields
  <2> HIDE DEF q
  <2>6. r \in ConnRec /\ r.srv = conn[c].srv /\ r.msg = conn[c].msg
    BY <2>3, <2>5, SetFields
  <2> HIDE DEF r
  <2> QED BY <2>1, <2>4, <2>6, <1>2, ConnStepInv
<1>10. CASE ClientGivesUp(c)
  <2> DEFINE q == [conn[c] EXCEPT !.cli = "failed"]
             r == [q EXCEPT !.rgot = 0]
  <2>1. conn' = [conn EXCEPT ![c] = r] /\ UNCHANGED vars /\ hello' = hello
    BY <1>1, <1>10 DEF ClientGivesUp, HsUnchanged
  <2>2. q \in ConnRec /\ q.srv = conn[c].srv /\ q.msg = conn[c].msg /\ q.at = conn[c].at
    BY <1>1, SetFields DEF ClientPcs
  <2> HIDE DEF q
  <2>3. r \in ConnRec /\ r.srv = conn[c].srv /\ r.msg = conn[c].msg /\ r.at = conn[c].at
    BY <2>2, SetFields
  <2> HIDE DEF r
  <2>4. \A k \in Callers : /\ conn'[k].srv = conn[k].srv /\ conn'[k].msg = conn[k].msg
                           /\ conn'[k].at = conn[k].at
    BY <1>1, <2>1, <2>3
  <2>5. conn' \in [Callers -> ConnRec]
    BY <1>1, <2>1, <2>3
  <2>6. clock' = clock /\ log' = log /\ call' = call /\ hello' = hello
    BY <2>1 DEF vars
  <2>7. ConnType'
    BY <2>4, <2>5, <2>6 DEF HsInv, ConnType
  <2>8. TestsInWindow'
    BY <2>4, <2>6 DEF HsInv, TestsInWindow, Testing, InWindow
  <2>9. CallsMatch' /\ LogInWindow'
    BY <2>4, <2>6 DEF HsInv, CallsMatch, LogInWindow
  <2> QED BY <2>7, <2>8, <2>9 DEF HsInv
<1> QED BY <1>3, <1>4, <1>5, <1>6, <1>7, <1>8, <1>9, <1>10

(* Time, the call of the filter and its answer.                            *)
LEMMA TimePassesInv == HsInv /\ IInv /\ TimePasses => HsInv'
<1> SUFFICES ASSUME HsInv, IInv, TimePasses PROVE HsInv'
  OBVIOUS
<1>1. clock' = clock + 1 /\ log' = log /\ call' = call /\ hello' = hello /\ conn' = conn
  BY DEF TimePasses, Tick, hsVars
<1>2. clock \in Nat /\ MaxStall \in Nat
  BY HandshakeConstants DEF IInv, TypeOK, Time
<1>3. ConnType' /\ CallsMatch' /\ LogInWindow'
  BY <1>1 DEF HsInv, ConnType, CallsMatch, LogInWindow
<1>4. TestsInWindow'
  <2> SUFFICES ASSUME NEW k \in Callers, Testing(k)
               PROVE  conn[k].at <= clock + 1 /\ clock + 1 <= conn[k].at + MaxStall
    BY <1>1 DEF TestsInWindow, Testing, InWindow, HsInv
  <2>1. clock - conn[k].at < MaxStall
    BY DEF TimePasses, Testing
  <2>2. conn[k].at \in Nat /\ conn[k].at <= clock
    BY DEF HsInv, TestsInWindow
  <2> QED BY <2>1, <2>2, <1>2
<1> QED BY <1>3, <1>4 DEF HsInv

LEMMA TestMacInv ==
    ASSUME HsInv, IInv, NEW c \in Callers, TestMac(c)
    PROVE  HsInv'
<1> DEFINE r == [conn[c] EXCEPT !.srv = "locking"]
<1>1. conn \in [Callers -> ConnRec] /\ conn[c] \in ConnRec
  BY DEF HsInv, ConnType
<1>2. /\ conn' = [conn EXCEPT ![c] = r] /\ conn[c].srv = "checking"
      /\ hello' = hello /\ clock' = clock /\ log' = log
      /\ call' = [call EXCEPT ![c] = [pending |-> TRUE, digest |-> conn[c].msg, now |-> clock]]
  BY <1>1 DEF TestMac, Capture
<1>3. r \in ConnRec /\ r.srv = "locking" /\ r.msg = conn[c].msg /\ r.at = conn[c].at
  BY <1>1, SetFields DEF ServerPcs
<1> HIDE DEF r
<1>4. \A k \in Callers : /\ conn'[k].msg = conn[k].msg /\ conn'[k].at = conn[k].at
                         /\ conn'[k].srv = IF k = c THEN "locking" ELSE conn[k].srv
  BY <1>1, <1>2, <1>3
<1>5. conn' \in [Callers -> ConnRec]
  BY <1>1, <1>2, <1>3
<1>6. ConnType'
  BY <1>2, <1>4, <1>5 DEF HsInv, ConnType
<1>7. TestsInWindow'
  <2> SUFFICES ASSUME NEW k \in Callers, Testing(k)'
               PROVE  Testing(k)
    BY <1>2, <1>4 DEF HsInv, TestsInWindow, InWindow
  <2> QED BY <1>2, <1>4 DEF Testing
<1>8. CallsMatch'
  <2>1. call \in [Callers -> {Idle} \union Captured]
    BY DEF IInv, TypeOK
  <2>2. conn[c].at <= clock
    BY <1>2 DEF HsInv, TestsInWindow, Testing
  <2> SUFFICES ASSUME NEW k \in Callers, call'[k].pending
               PROVE  /\ conn'[k].srv = "locking" /\ call'[k].digest = conn'[k].msg
                      /\ conn'[k].at <= call'[k].now
    BY DEF CallsMatch
  <2>3. CASE k = c
    BY <2>1, <2>2, <2>3, <1>2, <1>4
  <2>4. CASE k # c
    <3>1. call'[k] = call[k]
      BY <2>1, <2>4, <1>2
    <3> QED BY <3>1, <2>4, <1>4 DEF HsInv, CallsMatch
  <2> QED BY <2>3, <2>4
<1>9. LogInWindow'
  BY <1>2 DEF HsInv, LogInWindow
<1> QED BY <1>6, <1>7, <1>8, <1>9 DEF HsInv

LEMMA MacTestedInv ==
    ASSUME HsInv, IInv, NEW c \in Callers, MacTested(c)
    PROVE  HsInv'
<1> DEFINE h == hello[conn[c].msg]
<1>1. conn \in [Callers -> ConnRec] /\ conn[c] \in ConnRec /\ conn[c].srv = "locking"
  BY DEF HsInv, ConnType, MacTested
<1>2. /\ conn[c].msg \in Digests /\ h \in Hello
      /\ conn[c].at \in Nat /\ conn[c].at <= clock /\ clock <= conn[c].at + MaxStall
      /\ InWindow(h.stamp, conn[c].at)
  BY <1>1 DEF HsInv, TestsInWindow, Testing
<1>3. /\ LockedTest(c) /\ hello' = hello /\ clock' = clock
      /\ call' = [call EXCEPT ![c] = Idle] /\ call[c].pending
  BY DEF MacTested, LockedTest
<1>4. call \in [Callers -> {Idle} \union Captured] /\ log \in Seq(Entry) /\ clock \in Nat
  BY DEF IInv, TypeOK, Time
<1>5. call[c] \in Captured /\ call[c].digest = conn[c].msg /\ conn[c].at <= call[c].now
  BY <1>3, <1>4 DEF HsInv, CallsMatch, Idle
<1>6. IInv'
  BY <1>3, LockedTestIInv
<1>7. PICK r \in ConnRec : /\ conn' = [conn EXCEPT ![c] = r]
                          /\ r.msg = conn[c].msg
                          /\ r.srv \in {"discarding", "failed", "replying"}
  <2>1. CASE answer'.seen
    <3>1. PICK to \in {"discarding", "failed"} :
            conn' = [conn EXCEPT ![c] = Refused(conn[c], "replayed", 0, to)]
      BY <2>1 DEF MacTested
    <3>2. to \in ServerPcs /\ "replayed" \in Causes
      BY DEF ServerPcs, Causes
    <3>3. /\ Refused(conn[c], "replayed", 0, to) \in ConnRec
          /\ Refused(conn[c], "replayed", 0, to).srv = to
          /\ Refused(conn[c], "replayed", 0, to).msg = conn[c].msg
      BY <1>1, <3>2, RefusedFields
    <3> QED BY <3>1, <3>3
  <2>2. CASE ~answer'.seen
    <3> DEFINE ra == [conn[c] EXCEPT !.srv = "replying"]
               rb == [ra EXCEPT !.echo = h.stamp]
               rc == [rb EXCEPT !.got = 0]
               rd == [rc EXCEPT !.at = 0]
    <3>1. conn' = [conn EXCEPT ![c] = rd]
      BY <1>1, <2>2 DEF MacTested
    <3>2. ra \in ConnRec /\ ra.srv = "replying" /\ ra.msg = conn[c].msg
      BY <1>1, SetFields DEF ServerPcs
    <3>3. h \in Hello
      BY <1>2
    <3> HIDE DEF ra, h
    <3>4. h.stamp \in Int
      BY <3>3 DEF Hello
    <3>5. rb \in ConnRec /\ rb.srv = "replying" /\ rb.msg = conn[c].msg
      BY <3>2, <3>4, SetFields
    <3> HIDE DEF rb
    <3>6. rc \in ConnRec /\ rc.srv = "replying" /\ rc.msg = conn[c].msg
      BY <3>5, SetFields
    <3> HIDE DEF rc
    <3>7. rd \in ConnRec /\ rd.srv = "replying" /\ rd.msg = conn[c].msg
      BY <3>6, SetFields
    <3> HIDE DEF rd
    <3> QED BY <3>1, <3>7
  <2> QED BY <2>1, <2>2
<1>8. \A k \in Callers : conn'[k] = IF k = c THEN r ELSE conn[k]
  BY <1>1, <1>7
<1>9. ConnType'
  BY <1>1, <1>3, <1>7, <1>8 DEF HsInv, ConnType
<1>10. TestsInWindow'
  <2> SUFFICES ASSUME NEW k \in Callers, Testing(k)'
               PROVE  k # c
    BY <1>3, <1>8 DEF HsInv, TestsInWindow, Testing, InWindow
  <2> QED BY <1>7, <1>8 DEF Testing
<1>11. CallsMatch'
  <2>1. \A k \in Callers : call'[k].pending => k # c /\ call'[k] = call[k]
    BY <1>3, <1>4 DEF Idle
  <2> QED BY <2>1, <1>8 DEF HsInv, CallsMatch
<1>12. LogInWindow'
  <2>1. CASE log' = log
    BY <2>1, <1>3 DEF HsInv, LogInWindow
  <2>2. CASE log' = Append(log, [digest |-> call[c].digest, first_seen |-> latest_time'])
    <3> DEFINE e == [digest |-> call[c].digest, first_seen |-> latest_time']
    <3>1. latest_time' = ClampedNow(call[c].now)
      BY <1>3 DEF LockedTest, TestAndSet
    <3>2. latest_time \in Nat \union {-1} /\ call[c].now \in Nat
      BY <1>5 DEF IInv, TypeOK, Time, NoTime, Captured
    <3>3. latest_time' \in Nat /\ latest_time' >= call[c].now
      BY <3>1, <3>2 DEF ClampedNow, NoTime
    <3>4. latest_time' <= clock
      BY <1>3, <1>6 DEF IInv, LogInTimeOrder
    <3>5. /\ (h.stamp - 1) * TicksPerHour <= latest_time'
          /\ latest_time' < (h.stamp + 2) * TicksPerHour + MaxStall
      <4>1. PICK lo \in Int, hi \in Int : lo = (h.stamp - 1) * TicksPerHour
                                       /\ hi = (h.stamp + 2) * TicksPerHour
        <5>1. h.stamp \in Int /\ TicksPerHour \in Int
          <6>1. \A x \in Hello : x.stamp \in Int
            BY DEF Hello
          <6>2. h \in Hello
            BY <1>2
          <6> HIDE DEF h
          <6> QED BY <6>1, <6>2, HandshakeConstants
        <5>2. /\ (h.stamp - 1) * TicksPerHour \in Int
              /\ (h.stamp + 2) * TicksPerHour \in Int
          <6> HIDE DEF h
          <6> QED BY <5>1
        <5> QED BY <5>2
      <4>2. lo <= conn[c].at /\ conn[c].at < hi
        BY <4>1, <1>2 DEF InWindow
      <4>3. MaxStall \in Nat
        BY HandshakeConstants
      <4>4. lo <= latest_time' /\ latest_time' < hi + MaxStall
        BY <4>2, <4>3, <3>2, <3>3, <3>4, <1>2, <1>4, <1>5
      <4> QED BY <4>1, <4>4
    <3>6. e \in Entry
      BY <3>3, <1>2, <1>5 DEF Entry, Time
    <3>7. /\ Len(log') = Len(log) + 1 /\ Len(log) \in Nat
          /\ \A i \in 1..Len(log) : log'[i] = log[i]
          /\ log'[Len(log) + 1] = e
      BY <2>2, <3>6, <1>4, AppendProperties, LenProperties
    <3> SUFFICES ASSUME NEW i \in 1..Len(log')
                 PROVE  /\ hello[log'[i].digest] \in Hello
                        /\ (hello[log'[i].digest].stamp - 1) * TicksPerHour <= log'[i].first_seen
                        /\ log'[i].first_seen
                              < (hello[log'[i].digest].stamp + 2) * TicksPerHour + MaxStall
      BY <1>3 DEF LogInWindow
    <3>8. CASE i \in 1..Len(log)
      BY <3>7, <3>8 DEF HsInv, LogInWindow
    <3>9. CASE i = Len(log) + 1
      <4>1. e.digest = conn[c].msg /\ e.first_seen = latest_time'
        BY <1>5
      <4> HIDE DEF e
      <4>2. log'[i].digest = conn[c].msg /\ log'[i].first_seen = latest_time'
        BY <3>7, <3>9, <4>1
      <4>3. hello[log'[i].digest] = h /\ h \in Hello
        BY <4>2, <1>2
      <4> HIDE DEF h
      <4> QED BY <4>2, <4>3, <3>5, Zenon
    <3>10. i \in 1..Len(log) \/ i = Len(log) + 1
      BY <3>7
    <3> QED BY <3>8, <3>9, <3>10, Zenon
  <2> QED BY <2>1, <2>2, <1>3 DEF LockedTest
<1> QED BY <1>9, <1>10, <1>11, <1>12 DEF HsInv

-----------------------------------------------------------------------------
(* Every step of the handshake is a step of the filter or leaves it alone. *)
LEMMA FilterStep == HsInv /\ IInv /\ [HsNext]_<<vars, hsVars>> => [Next]_vars
<1> SUFFICES ASSUME HsInv, IInv, [HsNext]_<<vars, hsVars>> PROVE [Next]_vars
  OBVIOUS
<1>1. CASE TimePasses
  BY <1>1 DEF TimePasses, Next
<1>2. CASE \E c \in Callers : TestMac(c)
  <2>1. PICK c \in Callers : TestMac(c)
    BY <1>2
  <2>2. conn[c].msg \in Digests /\ Capture(c, conn[c].msg)
    BY <2>1 DEF TestMac, HsInv, TestsInWindow, Testing
  <2> QED BY <2>2 DEF Next
<1>3. CASE \E c \in Callers : MacTested(c)
  BY <1>3 DEF MacTested, Next
<1>4. CASE UNCHANGED vars
  BY <1>4
<1> QED
  BY <1>1, <1>2, <1>3, <1>4
     DEF HsNext, HsUnchanged, ClientHello, HelloAgain, NoHello, ServerReadsPart, BufferFull,
         ServerParses, ServerReplied, ServerGivesUp, ClientReads, ClientGivesUp

LEMMA HsInitInv == HsInit => HsInv /\ IInv
<1> SUFFICES ASSUME HsInit PROVE HsInv /\ IInv
  OBVIOUS
<1>1. IInv
  BY InitIInv DEF HsInit
<1>2. /\ hello = [d \in Digests |-> NotMade] /\ conn = [c \in Callers |-> Unused]
      /\ call = [c \in Callers |-> Idle] /\ log = <<>> /\ Len(log) = 0
  BY DEF HsInit, Init
<1>3. Unused \in ConnRec /\ Unused.srv = "unused" /\ Unused.msg = NoMsg
  BY DEF Unused, Opened, ConnRec, ServerPcs, ClientPcs, Causes
<1>4. ConnType
  BY <1>2, <1>3, NamesDistinct DEF ConnType
<1>5. \A c \in Callers : conn[c].srv = "unused" /\ ~call[c].pending
  BY <1>2, <1>3 DEF Idle
<1>6. TestsInWindow /\ CallsMatch
  BY <1>5 DEF TestsInWindow, Testing, CallsMatch
<1>7. LogInWindow
  BY <1>2 DEF LogInWindow
<1> QED BY <1>1, <1>4, <1>6, <1>7 DEF HsInv

(* The handshake's invariant, together with the filter's.                  *)
THEOREM HsInvariance == HsSpec => [](HsInv /\ IInv)
<1>1. HsInv /\ IInv /\ [HsNext]_<<vars, hsVars>> => HsInv' /\ IInv'
  <2> SUFFICES ASSUME HsInv, IInv, [HsNext]_<<vars, hsVars>> PROVE HsInv' /\ IInv'
    OBVIOUS
  <2>1. IInv'
    BY FilterStep, NextIInv
  <2>2. HsInv'
    <3>1. CASE TimePasses
      BY <3>1, TimePassesInv
    <3>2. CASE \E c \in Callers, d \in Digests, k \in Skews : ClientHello(c, d, k)
      BY <3>2, ClientHelloInv
    <3>3. CASE \E c \in Callers : ServerParses(c)
      BY <3>3, ServerParsesInv
    <3>4. CASE \E c \in Callers : TestMac(c)
      BY <3>4, TestMacInv
    <3>5. CASE \E c \in Callers : MacTested(c)
      BY <3>5, MacTestedInv
    <3>6. CASE UNCHANGED <<vars, hsVars>>
      BY <3>6 DEF vars, hsVars, HsInv, ConnType, TestsInWindow, Testing, InWindow,
                  CallsMatch, LogInWindow
    <3> QED
      BY <3>1, <3>2, <3>3, <3>4, <3>5, <3>6, QuietStepInv DEF HsNext
  <2> QED BY <2>1, <2>2
<1> QED BY <1>1, HsInitInv, PTL DEF HsSpec

(* A hello is accepted once, unless max_cap acceptances lie between: two   *)
(* acceptances of one MAC are less than three hours and MaxStall apart,    *)
(* and the filter remembers it longer than that.                           *)
THEOREM AcceptedOnce == HsSpec => []HelloAcceptedOnce
<1>1. HsInv /\ IInv => HelloAcceptedOnce
  <2> SUFFICES ASSUME HsInv, IInv,
                      NEW i \in 1..Len(log), NEW j \in 1..Len(log),
                      i < j, log[i].digest = log[j].digest
               PROVE  j - i > MaxCap
    BY DEF HelloAcceptedOnce
  <2> DEFINE s == hello[log[i].digest].stamp
  <2>1. log[i] \in Entry /\ log[j] \in Entry
    BY LoggedDigests
  <2>2. log[i].first_seen \in Nat /\ log[j].first_seen \in Nat
    BY <2>1 DEF Entry, Time
  <2>3. s \in Int /\ TicksPerHour \in Nat /\ MaxStall \in Nat /\ TtlLimit \in Nat
    BY HandshakeConstants, ReplayFilterConstants DEF HsInv, LogInWindow, Hello
  <2>4. (s - 1) * TicksPerHour <= log[i].first_seen
        /\ log[j].first_seen < (s + 2) * TicksPerHour + MaxStall
    BY DEF HsInv, LogInWindow
  <2> HIDE DEF s
  <2>5. (s + 2) * TicksPerHour = (s - 1) * TicksPerHour + 3 * TicksPerHour
    BY <2>3
  <2>6. log[j].first_seen - log[i].first_seen < 3 * TicksPerHour + MaxStall
    <3>1. PICK lo \in Int : lo = (s - 1) * TicksPerHour
      BY <2>3
    <3>2. PICK span \in Int : span = 3 * TicksPerHour
      BY <2>3
    <3>3. lo <= log[i].first_seen /\ log[j].first_seen < lo + span + MaxStall
      BY <3>1, <3>2, <2>4, <2>5
    <3>4. log[j].first_seen - log[i].first_seen < span + MaxStall
      BY <3>1, <3>2, <3>3, <2>2, <2>3
    <3> QED BY <3>2, <3>4
  <2>7. ~(log[j].first_seen - log[i].first_seen >= TtlLimit)
    BY <2>2, <2>3, <2>6, HandshakeConstants
  <2> QED BY <2>7 DEF IInv, ReplayWindow
<1> QED BY <1>1, HsInvariance, PTL

-----------------------------------------------------------------------------
(* Why a connection is refused.  A connection past the filter ...          *)
Past(r) == r.srv \in {"replying", "established", "discarding", "failed"}

(* ... and what a connection's record says about its hello.                *)
Justified(r, h) ==
    /\ r.srv = "unused" => r.cli = "none" /\ r.msg = NoMsg
    /\ r.cli # "none" => r.msg \in Digests
    /\ r.cli # "refused"
    /\ r.cause # "none" => r.srv \in {"discarding", "failed"}
    /\ r.srv \in {"replying", "established"} => r.msg \in Digests /\ r.echo = h[r.msg].stamp
    /\ r.cause = "replayed" => r.msg \in Digests
    /\ r.cause = "bad" =>
         /\ r.msg \in Digests
         /\ \/ h[r.msg].skew > TicksPerHour
            \/ r.at - h[r.msg].at - h[r.msg].skew > TicksPerHour

HelloStamped ==
    \A d \in Digests : hello[d] \in Hello =>
        hello[d].at <= clock /\ hello[d].stamp = Hour(hello[d].at + hello[d].skew)

(* What the filter holds came over a connection that is past it; a replay  *)
(* was seen on another connection.                                         *)
LoggedByPast == \A i \in 1..Len(log) : \E k \in Callers : Past(conn[k]) /\ conn[k].msg = log[i].digest

ReplayedElsewhere ==
    \A c \in Callers : conn[c].cause = "replayed" => \E k \in Callers \ {c} : conn[k].msg = conn[c].msg

FairInv ==
    /\ \A c \in Callers : Justified(conn[c], hello)
    /\ HelloStamped /\ LoggedByPast /\ ReplayedElsewhere

LEMMA ConnFields ==
    ASSUME NEW r \in ConnRec
    PROVE  r = [srv |-> r.srv, cli |-> r.cli, msg |-> r.msg, got |-> r.got, at |-> r.at,
                cause |-> r.cause, echo |-> r.echo, rgot |-> r.rgot]
BY DEF ConnRec

(* A MAC that matches under none of the three hours: the client's clock    *)
(* was more than an hour ahead, or the hello arrived more than an hour     *)
(* after what its clock said.                                              *)
LEMMA NoMatchMeansLate ==
    ASSUME NEW at \in Nat, NEW skew \in Int, NEW t \in Nat, at <= t,
           ~MacMatches(Hour(at + skew), Hour(t))
    PROVE  skew > TicksPerHour \/ t - at - skew > TicksPerHour
<1> DEFINE s == Hour(at + skew)
           h == Hour(t)
<1>1. TicksPerHour \in Nat /\ TicksPerHour > 0 /\ at + skew \in Int
  BY HandshakeConstants
<1>2. s \in Int /\ s * TicksPerHour <= at + skew /\ at + skew < (s + 1) * TicksPerHour
  BY <1>1, HourBounds
<1>3. h \in Int /\ h * TicksPerHour <= t /\ t < (h + 1) * TicksPerHour
  BY HourBounds
<1>4. ~(s - h \in -1..1)
  BY DEF MacMatches
<1> HIDE DEF s, h
<1>5. s >= h + 2 \/ s <= h - 2
  BY <1>2, <1>3, <1>4
<1>6. CASE s >= h + 2
  <2>1. s * TicksPerHour >= (h + 2) * TicksPerHour
    BY <1>1, <1>2, <1>3, <1>6
  <2>2. (h + 2) * TicksPerHour = (h + 1) * TicksPerHour + TicksPerHour
    BY <1>1, <1>3
  <2> DEFINE x == s * TicksPerHour
             y == (h + 1) * TicksPerHour
  <2>3. x \in Int /\ y \in Int
    BY <1>1, <1>2, <1>3
  <2>4. x >= y + TicksPerHour /\ x <= at + skew /\ t < y
    BY <1>2, <1>3, <2>1, <2>2
  <2> HIDE DEF x, y
  <2> QED BY <1>1, <2>3, <2>4
<1>7. CASE s <= h - 2
  <2>1. (s + 1) * TicksPerHour <= (h - 1) * TicksPerHour
    BY <1>1, <1>2, <1>3, <1>7
  <2>2. (h - 1) * TicksPerHour = h * TicksPerHour - TicksPerHour
    BY <1>1, <1>3
  <2> DEFINE x == (s + 1) * TicksPerHour
             y == h * TicksPerHour
  <2>3. x \in Int /\ y \in Int
    BY <1>1, <1>2, <1>3
  <2>4. x <= y - TicksPerHour /\ at + skew < x /\ y <= t
    BY <1>2, <1>3, <2>1, <2>2
  <2> HIDE DEF x, y
  <2> QED BY <1>1, <2>3, <2>4
<1> QED BY <1>5, <1>6, <1>7

(* A step of one connection.                                               *)
LEMMA OneConnFair ==
    ASSUME HsInv, FairInv, NEW c \in Callers, NEW r, conn' = [conn EXCEPT ![c] = r],
           \A e \in Digests : hello[e] \in Hello => hello'[e] = hello[e],
           HelloStamped', Justified(r, hello'),
           conn[c].srv = "unused" \/ r.msg = conn[c].msg,
           Past(conn[c]) => Past(r),
           r.cause = "replayed" => \E k \in Callers \ {c} : conn[k].msg = r.msg,
           \A i \in 1..Len(log') :
              \/ i \in 1..Len(log) /\ log'[i] = log[i]
              \/ log'[i].digest = r.msg /\ Past(r)
    PROVE  FairInv'
<1>1. \A k \in Callers : conn'[k] = IF k = c THEN r ELSE conn[k]
  BY DEF HsInv, ConnType
<1>2. conn[c].msg \in Digests => r.msg = conn[c].msg
  BY NamesDistinct DEF FairInv, Justified
<1>3. ASSUME NEW k \in Callers PROVE Justified(conn'[k], hello')
  <2>1. CASE k = c
    BY <1>1, <2>1
  <2>2. CASE k # c
    <3>1. conn'[k] = conn[k] /\ Justified(conn[k], hello)
      BY <1>1, <2>2 DEF FairInv
    <3>2. conn[k].msg \in Digests => hello'[conn[k].msg] = hello[conn[k].msg]
      BY DEF HsInv, ConnType
    <3> QED BY <3>1, <3>2 DEF Justified
  <2> QED BY <2>1, <2>2
<1>4. LoggedByPast'
  <2> SUFFICES ASSUME NEW i \in 1..Len(log')
               PROVE  \E k \in Callers : Past(conn'[k]) /\ conn'[k].msg = log'[i].digest
    BY DEF LoggedByPast, Past
  <2>1. CASE i \in 1..Len(log) /\ log'[i] = log[i]
    <3>1. PICK k \in Callers : Past(conn[k]) /\ conn[k].msg = log[i].digest
      BY <2>1 DEF FairInv, LoggedByPast
    <3>2. CASE k # c
      BY <1>1, <2>1, <3>1, <3>2
    <3>3. CASE k = c
      <4>1. conn[c].srv # "unused"
        BY <3>1, <3>3 DEF Past
      <4>2. conn'[c] = r /\ r.msg = conn[c].msg /\ Past(r)
        BY <1>1, <3>1, <3>3, <4>1
      <4> QED BY <2>1, <3>1, <3>3, <4>2
    <3> QED BY <3>2, <3>3
  <2>2. CASE log'[i].digest = r.msg /\ Past(r)
    BY <1>1, <2>2
  <2> QED BY <2>1, <2>2
<1>5. ReplayedElsewhere'
  <2> SUFFICES ASSUME NEW k \in Callers, conn'[k].cause = "replayed"
               PROVE  \E j \in Callers \ {k} : conn'[j].msg = conn'[k].msg
    BY DEF ReplayedElsewhere
  <2>1. CASE k = c
    BY <1>1, <2>1
  <2>2. CASE k # c
    <3>0. conn'[k] = conn[k] /\ Justified(conn[k], hello)
      BY <1>1, <2>2 DEF FairInv
    <3>1. conn'[k] = conn[k] /\ conn[k].msg \in Digests
      BY <3>0 DEF Justified
    <3>2. PICK j \in Callers \ {k} : conn[j].msg = conn[k].msg
      BY <3>1 DEF FairInv, ReplayedElsewhere
    <3>3. conn'[j].msg = conn[k].msg
      BY <1>1, <1>2, <3>1, <3>2
    <3> QED BY <3>1, <3>2, <3>3
  <2> QED BY <2>1, <2>2
<1> QED BY <1>3, <1>4, <1>5 DEF FairInv

(* ... that touches neither the hellos nor the filter.                     *)
LEMMA QuietConnFair ==
    ASSUME HsInv, FairInv, UNCHANGED vars, hello' = hello,
           NEW c \in Callers, NEW r, conn' = [conn EXCEPT ![c] = r],
           Justified(r, hello),
           conn[c].srv = "unused" \/ r.msg = conn[c].msg,
           Past(conn[c]) => Past(r),
           r.cause = "replayed" => conn[c].cause = "replayed" /\ r.msg = conn[c].msg
    PROVE  FairInv'
<1>1. clock' = clock /\ log' = log
  BY DEF vars
<1>2. HelloStamped'
  BY <1>1 DEF FairInv, HelloStamped
<1>3. r.cause = "replayed" => \E k \in Callers \ {c} : conn[k].msg = r.msg
  BY DEF FairInv, ReplayedElsewhere
<1>4. \A i \in 1..Len(log') : i \in 1..Len(log) /\ log'[i] = log[i]
  BY <1>1
<1> QED BY <1>2, <1>3, <1>4, OneConnFair

LEMMA ClientHelloFair ==
    ASSUME HsInv, IInv, FairInv, NEW c \in Callers, NEW d \in Digests, NEW k \in Skews,
           ClientHello(c, d, k)
    PROVE  FairInv'
<1> DEFINE r == Opened(d, "waiting")
           new == [made |-> TRUE, at |-> clock, skew |-> k, stamp |-> Hour(clock + k)]
<1>1. /\ ~hello[d].made /\ conn[c].srv = "unused"
      /\ hello' = [hello EXCEPT ![d] = new]
      /\ conn' = [conn EXCEPT ![c] = r]
      /\ clock' = clock /\ log' = log
  BY DEF ClientHello, HsUnchanged, vars
<1>2. clock \in Nat /\ hello \in [Digests -> {NotMade} \union Hello]
  BY DEF IInv, TypeOK, Time, HsInv, ConnType
<1>3. \A e \in Digests : hello[e] \in Hello => e # d /\ hello'[e] = hello[e]
  BY <1>1, <1>2 DEF Hello
<1>4. HelloStamped'
  <2> SUFFICES ASSUME NEW e \in Digests, hello'[e] \in Hello
               PROVE  hello'[e].at <= clock /\ hello'[e].stamp = Hour(hello'[e].at + hello'[e].skew)
    BY <1>1 DEF HelloStamped, Hour
  <2>1. CASE e = d
    <3>1. hello'[e] = new
      BY <1>1, <1>2, <2>1
    <3>2. new.at = clock /\ new.stamp = Hour(new.at + new.skew)
      OBVIOUS
    <3>3. clock <= clock
      BY <1>2
    <3> HIDE DEF new
    <3> QED BY <3>1, <3>2, <3>3, Zenon
  <2>2. CASE e # d
    <3>1. hello'[e] = hello[e]
      BY <1>1, <1>2, <2>2
    <3> QED BY <3>1 DEF FairInv, HelloStamped
  <2> QED BY <2>1, <2>2
<1>5. r.srv = "reading" /\ r.cli = "waiting" /\ r.msg = d /\ r.cause = "none"
  BY DEF Opened
<1> HIDE DEF r
<1>6. Justified(r, hello')
  BY <1>5 DEF Justified
<1>7. ~Past(conn[c])
  BY <1>1 DEF Past
<1>8. \A i \in 1..Len(log') : i \in 1..Len(log) /\ log'[i] = log[i]
  BY <1>1
<1> QED BY <1>1, <1>3, <1>4, <1>5, <1>6, <1>7, <1>8, OneConnFair

LEMMA ServerParsesFair ==
    ASSUME HsInv, IInv, FairInv, NEW c \in Callers, ServerParses(c)
    PROVE  FairInv'
<1> DEFINE q == conn[c]
           h == hello[q.msg]
<1>1. q \in ConnRec /\ q.srv = "reading" /\ q.msg \in Digests /\ h \in Hello
  BY DEF ServerParses, HsInv, ConnType, ConnRec
<1>2. Justified(q, hello) /\ q.cause = "none" /\ ~Past(q)
  BY <1>1 DEF FairInv, Justified, Past
<1>3. UNCHANGED vars /\ hello' = hello /\ clock \in Nat
  BY DEF ServerParses, HsUnchanged, IInv, TypeOK, Time
<1>4. h.at \in Nat /\ h.skew \in Int /\ h.at <= clock /\ h.stamp = Hour(h.at + h.skew)
  <2>1. \A x \in Hello : x.at \in Nat /\ x.skew \in Int
    BY DEF Hello, Time
  <2> QED BY <1>1, <2>1 DEF FairInv, HelloStamped
<1>5. CASE MacMatches(h.stamp, Hour(clock))
  <2> DEFINE r == [q EXCEPT !.srv = "checking", !.got = Pieces, !.at = clock]
  <2>1. conn' = [conn EXCEPT ![c] = r]
    BY <1>5 DEF ServerParses
  <2>2. r.srv = "checking" /\ r.cli = q.cli /\ r.msg = q.msg /\ r.cause = q.cause
    BY <1>1, ConnFields
  <2> HIDE DEF r, q
  <2>3. Justified(r, hello)
    BY <1>2, <2>2 DEF Justified
  <2> QED BY <1>2, <1>3, <2>1, <2>2, <2>3, QuietConnFair DEF q
<1>6. CASE ~MacMatches(h.stamp, Hour(clock))
  <2>1. PICK to \in {"discarding", "failed"} :
           conn' = [conn EXCEPT ![c] = Refused(q, "bad", clock, to)]
    BY <1>6 DEF ServerParses
  <2> DEFINE r == Refused(q, "bad", clock, to)
  <2>2. r.srv = to /\ r.cli = q.cli /\ r.msg = q.msg /\ r.cause = "bad" /\ r.at = clock
    BY <1>1, ConnFields DEF Refused
  <2>3. h.skew > TicksPerHour \/ clock - h.at - h.skew > TicksPerHour
    BY <1>3, <1>4, <1>6, NoMatchMeansLate
  <2>4. conn' = [conn EXCEPT ![c] = r]
    BY <2>1
  <2> HIDE DEF r
  <2>5. Justified(r, hello)
    BY <1>1, <1>2, <2>2, <2>3 DEF Justified
  <2> QED BY <1>2, <1>3, <2>2, <2>4, <2>5, QuietConnFair
<1> QED BY <1>5, <1>6

LEMMA QuietStepFair ==
    ASSUME HsInv, IInv, FairInv, NEW c \in Callers,
           \/ \E d \in Digests : HelloAgain(c, d)
           \/ NoHello(c)
           \/ ServerReadsPart(c)
           \/ BufferFull(c)
           \/ ServerReplied(c)
           \/ ServerGivesUp(c)
           \/ ClientReads(c)
           \/ ClientGivesUp(c)
    PROVE  FairInv'
<1> DEFINE q == conn[c]
<1>1. q \in ConnRec /\ Justified(q, hello)
  BY DEF HsInv, ConnType, FairInv
<1>2. UNCHANGED vars /\ hello' = hello
  BY DEF HelloAgain, NoHello, ServerReadsPart, BufferFull, ServerReplied, ServerGivesUp,
         ClientReads, ClientGivesUp, HsUnchanged
<1>3. ASSUME NEW m, conn' = [conn EXCEPT ![c] = Opened(m, "none")], q.srv = "unused"
      PROVE  FairInv'
  <2> DEFINE r == Opened(m, "none")
  <2>1. r.srv = "reading" /\ r.cli = "none" /\ r.cause = "none"
    BY DEF Opened
  <2>2. conn' = [conn EXCEPT ![c] = r]
    BY <1>3
  <2> HIDE DEF r
  <2>3. Justified(r, hello) /\ ~Past(q)
    BY <1>3, <2>1 DEF Justified, Past
  <2> QED BY <1>2, <1>3, <2>1, <2>2, <2>3, QuietConnFair
<1>4. CASE \E d \in Digests : HelloAgain(c, d)
  BY <1>3, <1>4 DEF HelloAgain
<1>5. CASE NoHello(c)
  BY <1>3, <1>5 DEF NoHello
<1>6. CASE ServerReadsPart(c)
  <2> DEFINE r == [q EXCEPT !.got = q.got + 1]
  <2>1. conn' = [conn EXCEPT ![c] = r]
    BY <1>6 DEF ServerReadsPart, HsInv, ConnType
  <2>2. r.srv = q.srv /\ r.cli = q.cli /\ r.msg = q.msg /\ r.cause = q.cause
        /\ r.at = q.at /\ r.echo = q.echo
    BY <1>1, ConnFields
  <2> HIDE DEF r
  <2>3. Justified(r, hello) /\ (Past(q) => Past(r))
    BY <1>1, <2>2 DEF Justified, Past
  <2> QED BY <1>2, <2>1, <2>2, <2>3, QuietConnFair
<1>7. CASE BufferFull(c)
  <2> DEFINE r == Refused(q, "full", 0, "failed")
  <2>1. conn' = [conn EXCEPT ![c] = r]
    BY <1>7 DEF BufferFull, HsInv, ConnType
  <2>2. r.srv = "failed" /\ r.cli = q.cli /\ r.msg = q.msg /\ r.cause = "full"
    BY <1>1, ConnFields DEF Refused
  <2> HIDE DEF r
  <2>3. Justified(r, hello) /\ Past(r)
    BY <1>1, <2>2 DEF Justified, Past
  <2> QED BY <1>2, <2>1, <2>2, <2>3, QuietConnFair
<1>8. CASE ServerReplied(c)
  <2> DEFINE r == [q EXCEPT !.srv = "established"]
  <2>1. conn' = [conn EXCEPT ![c] = r] /\ q.srv = "replying"
    BY <1>8 DEF ServerReplied, HsInv, ConnType
  <2>2. r.srv = "established" /\ r.cli = q.cli /\ r.msg = q.msg /\ r.cause = q.cause
        /\ r.at = q.at /\ r.echo = q.echo
    BY <1>1, ConnFields
  <2> HIDE DEF r
  <2>3. Justified(r, hello) /\ Past(r)
    BY <1>1, <2>1, <2>2 DEF Justified, Past
  <2> QED BY <1>2, <2>1, <2>2, <2>3, QuietConnFair
<1>9. CASE ServerGivesUp(c)
  <2> DEFINE r == [q EXCEPT !.srv = "failed", !.got = 0]
  <2>1. conn' = [conn EXCEPT ![c] = r] /\ q.srv # "unused"
    BY <1>9 DEF ServerGivesUp, HsInv, ConnType
  <2>2. r.srv = "failed" /\ r.cli = q.cli /\ r.msg = q.msg /\ r.cause = q.cause
        /\ r.at = q.at /\ r.echo = q.echo
    BY <1>1, ConnFields
  <2> HIDE DEF r
  <2>3. Justified(r, hello) /\ Past(r)
    BY <1>1, <2>1, <2>2 DEF Justified, Past
  <2> QED BY <1>2, <2>1, <2>2, <2>3, QuietConnFair
<1>10. CASE ClientReads(c)
  <2> DEFINE k == (q.rgot + 1) % Pieces
             to == IF q.rgot + 1 < Pieces THEN "waiting"
                   ELSE IF q.echo = hello[q.msg].stamp THEN "established" ELSE "refused"
             r == [q EXCEPT !.rgot = k, !.cli = to]
  <2>1. /\ conn' = [conn EXCEPT ![c] = r] /\ q.cli = "waiting"
        /\ q.srv \in {"established", "replying"}
    BY <1>10 DEF ClientReads, HsInv, ConnType
  <2>2. q.echo = hello[q.msg].stamp
    BY <1>1, <2>1 DEF Justified
  <2>3. to # "refused" /\ to # "none"
    BY <2>2
  <2> HIDE DEF k, to
  <2>4. r.srv = q.srv /\ r.cli = to /\ r.msg = q.msg /\ r.cause = q.cause
        /\ r.at = q.at /\ r.echo = q.echo
    BY <1>1, ConnFields
  <2> HIDE DEF r
  <2>5. Justified(r, hello) /\ (Past(q) => Past(r))
    BY <1>1, <2>1, <2>3, <2>4 DEF Justified, Past
  <2> QED BY <1>2, <2>1, <2>4, <2>5, QuietConnFair
<1>11. CASE ClientGivesUp(c)
  <2> DEFINE r == [q EXCEPT !.cli = "failed", !.rgot = 0]
  <2>1. conn' = [conn EXCEPT ![c] = r] /\ q.cli = "waiting"
    BY <1>11 DEF ClientGivesUp, HsInv, ConnType
  <2>2. r.srv = q.srv /\ r.cli = "failed" /\ r.msg = q.msg /\ r.cause = q.cause
        /\ r.at = q.at /\ r.echo = q.echo
    BY <1>1, ConnFields
  <2> HIDE DEF r
  <2>3. Justified(r, hello) /\ (Past(q) => Past(r))
    BY <1>1, <2>1, <2>2 DEF Justified, Past
  <2> QED BY <1>2, <2>1, <2>2, <2>3, QuietConnFair
<1> QED BY <1>4, <1>5, <1>6, <1>7, <1>8, <1>9, <1>10, <1>11

LEMMA TestMacFair ==
    ASSUME HsInv, IInv, FairInv, NEW c \in Callers, TestMac(c)
    PROVE  FairInv'
<1> DEFINE q == conn[c]
           r == [q EXCEPT !.srv = "locking"]
<1>1. q \in ConnRec /\ Justified(q, hello)
  BY DEF HsInv, ConnType, FairInv
<1>2. /\ conn' = [conn EXCEPT ![c] = r] /\ q.srv = "checking"
      /\ hello' = hello /\ clock' = clock /\ log' = log
  BY DEF TestMac, Capture, HsInv, ConnType
<1>3. r.srv = "locking" /\ r.cli = q.cli /\ r.msg = q.msg /\ r.cause = q.cause
  BY <1>1, ConnFields
<1> HIDE DEF r
<1>4. Justified(r, hello) /\ r.cause = "none" /\ ~Past(q)
  BY <1>1, <1>2, <1>3 DEF Justified, Past
<1>5. HelloStamped'
  BY <1>2 DEF FairInv, HelloStamped
<1>6. \A i \in 1..Len(log') : i \in 1..Len(log) /\ log'[i] = log[i]
  BY <1>2
<1> QED BY <1>2, <1>3, <1>4, <1>5, <1>6, OneConnFair

(* The filter's answer.  A replay was logged by a connection past the      *)
(* filter, which this one was not.                                         *)
LEMMA MacTestedFair ==
    ASSUME HsInv, IInv, FairInv, IInv', NEW c \in Callers, MacTested(c)
    PROVE  FairInv'
<1> DEFINE q == conn[c]
<1>1. q \in ConnRec /\ Justified(q, hello) /\ q.srv = "locking" /\ ~Past(q) /\ q.cause = "none"
  BY DEF HsInv, ConnType, FairInv, MacTested, Justified, Past
<1>2. q.msg \in Digests /\ hello[q.msg] \in Hello
  BY <1>1 DEF HsInv, TestsInWindow, Testing
<1>3. hello' = hello /\ clock' = clock /\ call[c].pending
  BY DEF MacTested, LockedTest
<1>4. HelloStamped'
  BY <1>3 DEF FairInv, HelloStamped
<1>5. call[c].digest = q.msg
  BY <1>3 DEF HsInv, CallsMatch
<1>6. PICK seen \in BOOLEAN :
         /\ answer' = [given |-> TRUE, digest |-> q.msg, seen |-> seen, at |-> latest_time']
         /\ log' = IF seen THEN log ELSE Append(log, [digest |-> q.msg, first_seen |-> latest_time'])
  BY <1>5 DEF MacTested, LockedTest
<1>7. answer'.seen = seen /\ answer'.given /\ answer'.digest = q.msg
  BY <1>6
<1>8. CASE seen
  <2>1. PICK to \in {"discarding", "failed"} :
           conn' = [conn EXCEPT ![c] = Refused(q, "replayed", 0, to)]
    BY <1>7, <1>8 DEF MacTested, HsInv, ConnType
  <2> DEFINE r == Refused(q, "replayed", 0, to)
  <2>2. r.srv = to /\ r.cli = q.cli /\ r.msg = q.msg /\ r.cause = "replayed"
    BY <1>1, ConnFields DEF Refused
  <2>3. conn' = [conn EXCEPT ![c] = r] /\ log' = log
    BY <1>6, <1>8, <2>1
  <2> HIDE DEF r
  <2>4. Justified(r, hello) /\ Past(r)
    BY <1>1, <1>2, <2>2 DEF Justified, Past
  <2>5. PICK i \in 1..Len(log) : log[i].digest = q.msg
    BY <1>7, <1>8, <2>3 DEF IInv, NoSpuriousReplay
  <2>6. PICK k \in Callers : Past(conn[k]) /\ conn[k].msg = log[i].digest
    BY DEF FairInv, LoggedByPast
  <2>7. k # c
    BY <1>1, <2>6
  <2>8. \E j \in Callers \ {c} : conn[j].msg = r.msg
    BY <2>2, <2>5, <2>6, <2>7
  <2>9. \A j \in 1..Len(log') : j \in 1..Len(log) /\ log'[j] = log[j]
    BY <2>3
  <2> QED BY <1>3, <1>4, <2>2, <2>3, <2>4, <2>8, <2>9, OneConnFair
<1>9. CASE ~seen
  <2> DEFINE r == [q EXCEPT !.srv = "replying", !.echo = hello[q.msg].stamp, !.got = 0, !.at = 0]
             e == [digest |-> q.msg, first_seen |-> latest_time']
  <2>1. conn' = [conn EXCEPT ![c] = r] /\ log' = Append(log, e)
    BY <1>6, <1>7, <1>9 DEF MacTested, HsInv, ConnType
  <2>2. /\ r.srv = "replying" /\ r.cli = q.cli /\ r.msg = q.msg /\ r.cause = q.cause
        /\ r.echo = hello[q.msg].stamp
    BY <1>1, ConnFields
  <2> HIDE DEF r
  <2>3. Justified(r, hello) /\ Past(r) /\ r.cause = "none"
    BY <1>1, <1>2, <2>2 DEF Justified, Past
  <2>4. log \in Seq(Entry) /\ log' \in Seq(Entry) /\ e.digest = q.msg
    BY DEF IInv, TypeOK
  <2> HIDE DEF e
  <2>5. /\ Len(log') = Len(log) + 1 /\ Len(log) \in Nat
        /\ \A i \in 1..Len(log) : log'[i] = log[i]
        /\ log'[Len(log) + 1] = e
    BY <2>1, <2>4
  <2>6. ASSUME NEW i \in 1..Len(log')
        PROVE  \/ i \in 1..Len(log) /\ log'[i] = log[i]
               \/ log'[i].digest = r.msg /\ Past(r)
    <3>1. i \in 1..Len(log) \/ i = Len(log) + 1
      BY <2>5
    <3> QED BY <2>2, <2>3, <2>4, <2>5, <3>1
  <2> QED BY <1>3, <1>4, <2>1, <2>2, <2>3, <2>6, OneConnFair
<1> QED BY <1>8, <1>9

LEMMA FairInit == HsInit => FairInv
<1> SUFFICES ASSUME HsInit PROVE FairInv
  OBVIOUS
<1>1. /\ hello = [d \in Digests |-> NotMade] /\ conn = [c \in Callers |-> Unused] /\ Len(log) = 0
  BY DEF HsInit, Init
<1>2. Unused.srv = "unused" /\ Unused.msg = NoMsg /\ Unused.cli = "none" /\ Unused.cause = "none"
  BY DEF Unused, Opened
<1>3. Justified(Unused, hello)
  BY <1>2 DEF Justified
<1>4. NotMade \notin Hello
  BY DEF NotMade, Hello
<1>5. HelloStamped /\ LoggedByPast /\ ReplayedElsewhere
  BY <1>1, <1>2, <1>4 DEF HelloStamped, LoggedByPast, ReplayedElsewhere
<1> QED BY <1>1, <1>3, <1>5 DEF FairInv

LEMMA FairStep == HsInv /\ IInv /\ IInv' /\ FairInv /\ [HsNext]_<<vars, hsVars>> => FairInv'
<1> SUFFICES ASSUME HsInv, IInv, IInv', FairInv, [HsNext]_<<vars, hsVars>> PROVE FairInv'
  OBVIOUS
<1>1. CASE TimePasses
  <2>1. clock' = clock + 1 /\ log' = log /\ hello' = hello /\ conn' = conn
    BY <1>1 DEF TimePasses, Tick, hsVars
  <2>2. HelloStamped'
    <3>1. clock \in Nat /\ \A d \in Digests : hello[d] \in Hello => hello[d].at \in Nat
      BY DEF IInv, TypeOK, Time, Hello
    <3>2. \A t \in Nat : t <= clock => t <= clock'
      BY <2>1, <3>1
    <3> QED BY <2>1, <3>1, <3>2, Zenon DEF FairInv, HelloStamped, Hour
  <2> QED BY <2>1, <2>2 DEF FairInv, Justified, LoggedByPast, Past, ReplayedElsewhere
<1>2. CASE \E c \in Callers, d \in Digests, k \in Skews : ClientHello(c, d, k)
  BY <1>2, ClientHelloFair
<1>3. CASE \E c \in Callers : ServerParses(c)
  BY <1>3, ServerParsesFair
<1>4. CASE \E c \in Callers : TestMac(c)
  BY <1>4, TestMacFair
<1>5. CASE \E c \in Callers : MacTested(c)
  BY <1>5, MacTestedFair
<1>6. CASE UNCHANGED <<vars, hsVars>>
  BY <1>6 DEF vars, hsVars, FairInv, Justified, HelloStamped, LoggedByPast, Past, ReplayedElsewhere
<1> QED BY <1>1, <1>2, <1>3, <1>4, <1>5, <1>6, QuietStepFair DEF HsNext

LEMMA FairInvariance == HsSpec => []FairInv
<1> QED BY FairInit, FairStep, HsInvariance, PTL DEF HsSpec

(* An honest client is turned away as a replay only if its hello came on   *)
(* another connection as well, however its pieces arrive and however often *)
(* the filter is asked by others; and for its MAC only if skew and delay   *)
(* come to more than an hour.                                              *)
THEOREM HonestRefusals == HsSpec => []HonestRefusedForCause
<1>1. FairInv => HonestRefusedForCause
  BY DEF FairInv, Justified, ReplayedElsewhere, HonestRefusedForCause
<1> QED BY <1>1, FairInvariance, PTL

(* The bridge's reply is over the hour of the hello it answers, so no      *)
(* client refuses it, whatever the two clocks have done in between.        *)
THEOREM RepliesVerify == HsSpec => []ReplyVerifies
<1>1. FairInv => ReplyVerifies
  BY DEF FairInv, Justified, ReplyVerifies
<1> QED BY <1>1, FairInvariance, PTL
=============================================================================
