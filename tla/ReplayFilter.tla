---------------------------- MODULE ReplayFilter ----------------------------
(***************************************************************************)
(* The replay filter of an obfs4 bridge                                    *)
(* (crates/obfs4/src/common/replay_filter.rs).  One filter is shared by    *)
(* every connection: a caller takes its timestamp (Instant::now()), then   *)
(* waits for the mutex, so timestamps may reach the filter out of order.   *)
(*                                                                         *)
(* A handshake MAC is represented by its SipHash digest.  Times are        *)
(* natural numbers; NoTime is the None of latest_time.  fifo is the        *)
(* VecDeque read from back to front: fifo[1] is the oldest entry.          *)
(***************************************************************************)
EXTENDS Integers, Sequences, FiniteSets

CONSTANTS Callers,    \* tasks that share the filter
          Digests,    \* digests of what they test
          TtlLimit,   \* ttl_limit
          MaxCap,     \* max_cap
          MaxTime,    \* bound: the last clock reading explored
          MaxLog      \* bound: how many insertions are explored

ASSUME ReplayFilterConstants ==
    /\ TtlLimit \in Nat
    /\ MaxCap \in Nat
    /\ MaxTime \in Nat
    /\ MaxLog \in Nat

VARIABLES
    filter,       \* InnerReplayFilter.filter: the digests to report as replays
    fifo,         \* InnerReplayFilter.fifo: the same digests, oldest first
    latest_time,  \* InnerReplayFilter.latest_time
    clock,        \* the monotonic clock callers read
    call,         \* per caller: what it captured before asking for the lock
    log,          \* history: every test that answered "not seen", in order
    answer        \* history: the last answer given

filterVars == <<filter, fifo, latest_time>>
vars == <<filter, fifo, latest_time, clock, call, log, answer>>

NoTime == -1
Time == Nat
Entry == [digest : Digests, first_seen : Time]
Idle == [pending |-> FALSE]
Captured == [pending : {TRUE}, digest : Digests, now : Time]
NoAnswer == [given |-> FALSE]
Answer == [given : {TRUE}, digest : Digests, seen : BOOLEAN, at : Time]

DigestsOf(q) == {q[i].digest : i \in DOMAIN q}

-----------------------------------------------------------------------------
(* Mutants: plausible mistakes in the operators they precede.              *)

UnclampedNow(now) == now

StopAfterOneExpired(q, now) ==
    IF q # <<>> /\ now - q[1].first_seen >= TtlLimit THEN 1 ELSE 0

-----------------------------------------------------------------------------
(* A timestamp older than the newest one seen is moved up to it.           *)
ClampedNow(now) == IF latest_time # NoTime /\ now < latest_time
                   THEN latest_time ELSE now

(* saturating_duration_since: an entry from the future has age 0.          *)
Age(e, now) == IF now < e.first_seen THEN 0 ELSE now - e.first_seen

Expired(e, now) == TtlLimit = 0 \/ Age(e, now) >= TtlLimit

(* How many entries garbage_collect pops: it stops at the first entry from *)
(* the back that is not expired.                                           *)
Collected(q, now) ==
    CHOOSE n \in 0..Len(q) :
        /\ \A i \in 1..n : Expired(q[i], now)
        /\ n < Len(q) => ~Expired(q[n + 1], now)

(* How many entries are evicted so that one more fits.                     *)
Evicted(q) == IF Len(q) >= MaxCap THEN Len(q) - MaxCap + 1 ELSE 0

(* evict_oldest, n times: on the queue, and on the set of digests.         *)
DropOldest(q, n) == SubSeq(q, n + 1, Len(q))
ForgetOldest(f, q, n) == f \ DigestsOf(SubSeq(q, 1, n))

(* InnerReplayFilter::test_and_set: d is tested at time now and the answer *)
(* is seen.                                                                *)
TestAndSet(captured, d, seen) ==
    LET now    == ClampedNow(captured)
        gone   == Collected(fifo, now)
        liveQ  == DropOldest(fifo, gone)
        liveF  == ForgetOldest(filter, fifo, gone)
        room   == Evicted(liveQ)
    IN  /\ latest_time' = now
        /\ seen = (d \in liveF)
        /\ IF seen \/ MaxCap = 0
           THEN /\ fifo' = liveQ
                /\ filter' = liveF
           ELSE /\ fifo' = Append(DropOldest(liveQ, room),
                                  [digest |-> d, first_seen |-> now])
                /\ filter' = ForgetOldest(liveF, liveQ, room) \union {d}

-----------------------------------------------------------------------------
FilterInit ==
    /\ filter = {}
    /\ fifo = <<>>
    /\ latest_time = NoTime

Init ==
    /\ FilterInit
    /\ clock = 0
    /\ call = [c \in Callers |-> Idle]
    /\ log = <<>>
    /\ answer = NoAnswer

Pending == {c \in Callers : call[c].pending}

(* Time passes. *)
Tick ==
    /\ clock < MaxTime
    /\ clock' = clock + 1
    /\ UNCHANGED <<filter, fifo, latest_time, call, log, answer>>

(* A caller evaluates Instant::now() and then waits for the mutex.         *)
Capture(c, d) ==
    /\ ~call[c].pending
    /\ Len(log) + Cardinality(Pending) < MaxLog
    /\ call' = [call EXCEPT ![c] = [pending |-> TRUE, digest |-> d, now |-> clock]]
    /\ UNCHANGED <<filter, fifo, latest_time, clock, log, answer>>

(* ReplayFilter::test_and_set: the caller holds the mutex for one whole    *)
(* test.                                                                   *)
LockedTest(c) ==
    /\ call[c].pending
    /\ \E seen \in BOOLEAN :
         /\ TestAndSet(call[c].now, call[c].digest, seen)
         /\ answer' = [given |-> TRUE, digest |-> call[c].digest,
                       seen |-> seen, at |-> latest_time']
         /\ log' = IF seen THEN log
                   ELSE Append(log, [digest |-> call[c].digest,
                                     first_seen |-> latest_time'])
    /\ call' = [call EXCEPT ![c] = Idle]
    /\ UNCHANGED clock

Next ==
    \/ Tick
    \/ \E c \in Callers, d \in Digests : Capture(c, d)
    \/ \E c \in Callers : LockedTest(c)

Spec == Init /\ [][Next]_vars

-----------------------------------------------------------------------------
(* Every variable holds a value of its Rust type, and the queue never      *)
(* holds more than max_cap entries.                                        *)
TypeOK ==
    /\ filter \subseteq Digests
    /\ fifo \in Seq(Entry)
    /\ Len(fifo) <= MaxCap
    /\ latest_time \in Time \union {NoTime}
    /\ clock \in Time
    /\ call \in [Callers -> {Idle} \union Captured]
    /\ log \in Seq(Entry)
    /\ answer \in {NoAnswer} \union Answer

(* The set and the queue describe the same digests, each queued once: the  *)
(* eviction of an old entry never makes the filter forget a younger entry  *)
(* of the same digest, and no digest outlives its queue entry.             *)
FilterIsFifo ==
    /\ filter = DigestsOf(fifo)
    /\ \A i, j \in 1..Len(fifo) : fifo[i].digest = fifo[j].digest => i = j

(* The queue is in the order of the times it holds, although callers come  *)
(* out of order: garbage_collect relies on it when it stops at the first   *)
(* entry that is not expired.                                              *)
QueueInTimeOrder ==
    \A i, j \in 1..Len(fifo) : i < j => fifo[i].first_seen <= fifo[j].first_seen

(* What test_and_set is for: two tests of one digest are both answered     *)
(* "not seen" only when ttl_limit has passed between them or max_cap other *)
(* insertions came in between, however late the callers got the lock.      *)
ReplayWindow ==
    \A i, j \in 1..Len(log) :
        i < j /\ log[i].digest = log[j].digest
            => \/ log[j].first_seen - log[i].first_seen >= TtlLimit
               \/ j - i > MaxCap

(* A test is answered "seen" only if the digest was inserted less than     *)
(* ttl_limit before: garbage_collect has always removed what is expired,   *)
(* also when callers' timestamps came out of order.                        *)
NoSpuriousReplay ==
    answer.given /\ answer.seen
        => \E i \in 1..Len(log) : /\ log[i].digest = answer.digest
                                  /\ answer.at - log[i].first_seen < TtlLimit

-----------------------------------------------------------------------------
(* The inductive invariant.  The queue is the tail of the log; the log is  *)
(* in time order and not ahead of the clock; an entry of the log that is   *)
(* no longer queued has expired or has max_cap younger entries.            *)
Dropped == Len(log) - Len(fifo)

FifoIsLogTail ==
    /\ Len(fifo) <= Len(log)
    /\ \A i \in 1..Len(fifo) : fifo[i] = log[Dropped + i]

LogInTimeOrder ==
    /\ latest_time <= clock
    /\ \A i \in 1..Len(log) : log[i].first_seen <= latest_time
    /\ \A i, j \in 1..Len(log) : i < j => log[i].first_seen <= log[j].first_seen

DroppedForCause ==
    \A i \in 1..Dropped : \/ latest_time - log[i].first_seen >= TtlLimit
                          \/ Len(log) - i >= MaxCap

CapturedInPast == \A c \in Callers : call[c].pending => call[c].now <= clock

IInv ==
    /\ TypeOK
    /\ FilterIsFifo
    /\ FifoIsLogTail
    /\ LogInTimeOrder
    /\ DroppedForCause
    /\ CapturedInPast
    /\ ReplayWindow
    /\ NoSpuriousReplay
=============================================================================
