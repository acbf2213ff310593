-------------------------- MODULE WebTunnelProofs --------------------------
(* For any timeouts, reserve, scheduling delay and number of addresses: a    *)
(* silent address does not starve the others, and in fallback mode the       *)
(* system resolver is asked with its reserve.  For any response, any size of *)
(* the buffers and any splitting of the reads: the payload arrives whole.    *)
EXTENDS WebTunnel, SequenceTheorems, WellFoundedInduction, TLAPS

Share == AttemptTimeout + MaxDelay    \* the most one address takes from the others
Reserve == Min({SystemReserve, deadline \div 2})

Types ==
  /\ deadline \in Nat /\ now \in Nat /\ timer \in Int
  /\ dial.limit \in Int /\ dial.n \in Nat /\ dial.idx \in Nat /\ dial.began \in Int
  /\ over \in [tried : Nat, of : Nat, time : Int]

(* Where the clock stands while a lookup or an attempt waits: at most the   *)
(* scheduler's delay behind its timer, which is within the limit and, for   *)
(* an attempt that is not the last, within the shares of the addresses so   *)
(* far.                                                                     *)
ClockInv ==
  /\ pc = "start" => now = 0
  /\ pc \in {"lookup", "dial"} => /\ dial.limit <= deadline /\ timer <= dial.limit
                                  /\ now <= timer + MaxDelay
  /\ pc = "dial" => /\ dial.idx \in 1..dial.n
                    /\ dial.idx < dial.n =>
                         timer <= dial.began + (dial.idx - 1) * Share + AttemptTimeout

TimeInv == Types /\ ClockInv /\ EveryAddressGetsItsTurn

LEMMA MinOfTwo ==
  ASSUME NEW a \in Int, NEW b \in Int
  PROVE  Min({a, b}) \in {a, b} /\ Min({a, b}) <= a /\ Min({a, b}) <= b
<1>1. \E x \in {a, b} : \A y \in {a, b} : x =< y
  <2>1. CASE a <= b
    BY <2>1
  <2>2. CASE ~(a <= b)
    BY <2>2
  <2> QED BY <2>1, <2>2
<1>2. Min({a, b}) \in {a, b} /\ \A y \in {a, b} : Min({a, b}) =< y
  BY <1>1 DEF Min
<1> QED BY <1>2

LEMMA ReserveType ==
  ASSUME deadline \in Nat
  PROVE  Reserve \in Nat /\ Reserve <= deadline /\ DohDeadline = deadline - Reserve
<1> DEFINE h == deadline \div 2
<1>1. h \in Int /\ h >= 0 /\ h <= deadline
  OBVIOUS
<1>2. SystemReserve \in Int /\ SystemReserve >= 0
  BY WebTunnelConstants
<1> HIDE DEF h
<1>3. Min({SystemReserve, h}) \in {SystemReserve, h} /\ Min({SystemReserve, h}) <= h
  BY <1>1, <1>2, MinOfTwo, Zenon
<1>4. Reserve = Min({SystemReserve, h})
  BY DEF Reserve, h
<1>5. Reserve \in Nat /\ Reserve <= deadline
  BY <1>1, <1>2, <1>3, <1>4
<1> QED BY <1>5 DEF DohDeadline, Reserve

LEMMA FailIs == ASSUME NEW w, Fail(w) PROVE pc' = "failed" /\ why'.at = pc /\ why'.error = w
  BY DEF Fail

LEMMA Product == ASSUME NEW i \in Nat, NEW x \in Int PROVE i * x \in Int /\ (i + 1) * x = i * x + x
  OBVIOUS

LEMMA TimeInit == WtInit => TimeInv
<1> SUFFICES ASSUME WtInit PROVE TimeInv
  OBVIOUS
<1>1. deadline \in Nat
  <2>1. CASE cfg \in DirectConfigs
    BY <2>1, WebTunnelConstants DEF DirectConfigs, deadline
  <2>2. CASE cfg \in CarrierConfigs
    BY <2>2, WebTunnelConstants DEF CarrierConfigs, deadline
  <2> QED BY <2>1, <2>2 DEF WtInit
<1>2. now \in Nat /\ timer \in Int
  BY DEF WtInit
<1>3. dial.limit \in Int /\ dial.n \in Nat /\ dial.idx \in Nat /\ dial.began \in Int
  BY DEF WtInit, NoDial, Dial
<1>4. over \in [tried : Nat, of : Nat, time : Int] /\ EveryAddressGetsItsTurn
  BY DEF WtInit, NotOver, EveryAddressGetsItsTurn
<1>5. ClockInv
  BY DEF WtInit, ClockInv
<1> QED BY <1>1, <1>2, <1>3, <1>4, <1>5 DEF TimeInv, Types

(* The connection fails, or waits for something else than a lookup or an    *)
(* attempt to connect.                                                      *)
LEMMA Otherwise ==
  ASSUME TimeInv, UNCHANGED <<cfg, now>>, pc' \notin {"start", "lookup", "dial"}, timer' \in Int,
         dial' \in {dial, NoDial}, over' \in [tried : Nat, of : Nat, time : Int],
         EveryAddressGetsItsTurn'
  PROVE  TimeInv'
<1>1. dial'.limit \in Int /\ dial'.n \in Nat /\ dial'.idx \in Nat /\ dial'.began \in Int
  BY DEF TimeInv, Types, NoDial, Dial
<1>2. Types'
  BY <1>1 DEF TimeInv, Types, deadline
<1>3. ClockInv'
  BY DEF ClockInv
<1> QED BY <1>2, <1>3 DEF TimeInv

LEMMA LookupKeeps ==
  ASSUME TimeInv, NEW who, NEW limit \in Int, limit <= deadline, LookupUntil(who, limit),
         UNCHANGED <<cfg, now>>, over' \in [tried : Nat, of : Nat, time : Int],
         EveryAddressGetsItsTurn'
  PROVE  TimeInv'
<1>1. CASE now >= limit
  BY <1>1, Otherwise DEF LookupUntil, Fail, TimeInv, Types
<1>2. CASE ~(now >= limit)
  <2>1. pc' = "lookup" /\ timer' = limit /\ dial' = Dial(who, limit, 0, 0, 0)
    BY <1>2 DEF LookupUntil
  <2>2. dial'.limit = limit /\ dial'.n = 0 /\ dial'.idx = 0 /\ dial'.began = 0
    BY <2>1 DEF Dial
  <2>3. Types'
    BY <2>1, <2>2 DEF TimeInv, Types, deadline
  <2>4. ClockInv'
    BY <1>2, <2>1, <2>2, WebTunnelConstants DEF TimeInv, Types, ClockInv, deadline
  <2> QED BY <2>3, <2>4 DEF TimeInv
<1> QED BY <1>1, <1>2

LEMMA PhaseKeeps ==
  ASSUME TimeInv, NEW w, PhaseFailed(w), UNCHANGED <<cfg, now>>,
         over' \in [tried : Nat, of : Nat, time : Int], EveryAddressGetsItsTurn'
  PROVE  TimeInv'
<1>1. deadline \in Int /\ deadline <= deadline /\ timer \in Int
  BY DEF TimeInv, Types
<1>2. CASE dial.from = "doh" /\ cfg.mode = "fallback"
  BY <1>1, <1>2, LookupKeeps DEF PhaseFailed
<1>3. CASE ~(dial.from = "doh" /\ cfg.mode = "fallback")
  BY <1>1, <1>3, Otherwise DEF PhaseFailed, Fail
<1> QED BY <1>2, <1>3

(* connect_first_until goes on to its i-th address within the shares of     *)
(* the addresses before it.                                                 *)
LEMMA DialKeeps ==
  ASSUME TimeInv, NEW d, NEW i \in Nat \ {0}, DialFrom(d, i), UNCHANGED <<cfg, now>>,
         d.limit \in Int, d.limit <= deadline, d.n \in Nat, d.began \in Int,
         i <= d.n => now <= d.began + (i - 1) * Share
  PROVE  TimeInv'
<1>1. Share \in Nat /\ i - 1 \in Nat /\ (i - 1) * Share \in Int /\ now \in Nat
  BY WebTunnelConstants DEF Share, TimeInv, Types
<1>2. CASE i > d.n \/ now >= d.limit
  <2>1. over' = GivenUp(d, i - 1) /\ PhaseFailed("connect")
    BY <1>2 DEF DialFrom
  <2>2. over'.tried = i - 1 /\ over'.of = d.n /\ over'.time = d.limit - d.began
        /\ over' \in [tried : Nat, of : Nat, time : Int]
    BY <2>1, <1>1 DEF GivenUp
  <2>3. ASSUME i - 1 < d.n PROVE (i - 1) * Share >= d.limit - d.began
    <3>1. now >= d.limit /\ now <= d.began + (i - 1) * Share
      BY <1>2, <2>3, <1>1
    <3> DEFINE p == (i - 1) * Share
    <3>2. p \in Int /\ now <= d.began + p
      BY <1>1, <3>1
    <3> HIDE DEF p
    <3>3. p >= d.limit - d.began
      BY <1>1, <3>1, <3>2
    <3> QED BY <3>3 DEF p
  <2>4. EveryAddressGetsItsTurn'
    BY <2>2, <2>3 DEF EveryAddressGetsItsTurn, Share
  <2> QED BY <2>1, <2>2, <2>4, PhaseKeeps
<1>3. CASE ~(i > d.n \/ now >= d.limit)
  <2>1. /\ pc' = "dial" /\ dial' = Dial(d.from, d.limit, d.n, i, d.began)
        /\ timer' = now + Attempt(d, i) /\ over' = over
    BY <1>3 DEF DialFrom
  <2>2. dial'.limit = d.limit /\ dial'.n = d.n /\ dial'.idx = i /\ dial'.began = d.began
    BY <2>1 DEF Dial
  <2>3. /\ Attempt(d, i) \in Int /\ Attempt(d, i) <= d.limit - now /\ Attempt(d, i) >= 0
        /\ i < d.n => Attempt(d, i) <= AttemptTimeout
    <3>1. CASE i = d.n
      BY <1>1, <1>3, <3>1 DEF Attempt
    <3>2. CASE i # d.n
      <4> DEFINE left == d.limit - now
      <4>1. left \in Int /\ AttemptTimeout \in Int /\ left >= 0 /\ AttemptTimeout >= 0
        BY <1>1, <1>3, WebTunnelConstants
      <4>2. Attempt(d, i) = Min({left, AttemptTimeout})
        BY <3>2 DEF Attempt
      <4>3. left = d.limit - now
        OBVIOUS
      <4> HIDE DEF left
      <4>4. Min({left, AttemptTimeout}) \in {left, AttemptTimeout}
            /\ Min({left, AttemptTimeout}) <= left /\ Min({left, AttemptTimeout}) <= AttemptTimeout
        BY <4>1, MinOfTwo, Zenon
      <4> QED BY <4>1, <4>2, <4>3, <4>4
    <3> QED BY <3>1, <3>2
  <2>4. Types'
    BY <2>1, <2>2, <2>3, <1>1 DEF TimeInv, Types, deadline
  <2>5. /\ dial'.limit <= deadline' /\ timer' <= dial'.limit /\ now' <= timer' + MaxDelay
        /\ dial'.idx \in 1..dial'.n
    BY <1>1, <1>3, <2>1, <2>2, <2>3, WebTunnelConstants DEF deadline
  <2>6. ASSUME i < d.n PROVE timer' <= d.began + (i - 1) * Share + AttemptTimeout
    <3> DEFINE p == (i - 1) * Share
    <3>1. p \in Int /\ now <= d.began + p
      BY <1>1, <2>6
    <3> HIDE DEF p
    <3>2. timer' <= d.began + p + AttemptTimeout
      BY <1>1, <2>1, <2>3, <2>6, <3>1, WebTunnelConstants
    <3> QED BY <3>2 DEF p
  <2>7. ClockInv'
    BY <2>1, <2>2, <2>5, <2>6 DEF ClockInv
  <2> QED BY <2>1, <2>4, <2>7 DEF TimeInv, EveryAddressGetsItsTurn
<1> QED BY <1>2, <1>3

LEMMA StartKeeps == ASSUME TimeInv, Start PROVE TimeInv'
<1>1. UNCHANGED <<cfg, now>> /\ pc = "start" /\ now = 0 /\ deadline \in Nat /\ timer \in Int
      /\ over \in [tried : Nat, of : Nat, time : Int] /\ EveryAddressGetsItsTurn
  BY DEF Start, TimeInv, ClockInv, Types
<1>2. CASE UNCHANGED dialVars /\ pc' = "failed"
  BY <1>1, <1>2, Otherwise DEF dialVars, EveryAddressGetsItsTurn
<1>3. CASE OpenTcp
  <2>1. CASE DialFrom(Dial("literal", deadline, 1, 0, 0), 1)
    <3> DEFINE d == Dial("literal", deadline, 1, 0, 0)
    <3>1. d.limit = deadline /\ d.n = 1 /\ d.began = 0
      BY DEF Dial
    <3> HIDE DEF d
    <3>2. (1 - 1) * Share = 0
      BY WebTunnelConstants DEF Share
    <3> QED BY <1>1, <2>1, <3>1, <3>2, DialKeeps DEF d
  <2>2. ASSUME NEW who, NEW limit \in {deadline, DohDeadline}, LookupUntil(who, limit), over' = over
        PROVE  TimeInv'
    <3>1. DohDeadline \in Int /\ DohDeadline <= deadline
      BY <1>1, ReserveType
    <3>2. limit \in Int /\ limit <= deadline
      BY <1>1, <2>2, <3>1
    <3> QED BY <1>1, <2>2, <3>2, LookupKeeps DEF EveryAddressGetsItsTurn
  <2>3. CASE Fail("resolver") /\ UNCHANGED <<timer, dial, asked, over>>
    BY <1>1, <2>3, Otherwise DEF Fail, EveryAddressGetsItsTurn
  <2>4. \/ DialFrom(Dial("literal", deadline, 1, 0, 0), 1)
        \/ over' = over /\ LookupUntil("system", deadline)
        \/ over' = over /\ LookupUntil("doh", deadline)
        \/ over' = over /\ LookupUntil("doh", DohDeadline)
        \/ Fail("resolver") /\ UNCHANGED <<timer, dial, asked, over>>
    BY <1>3 DEF OpenTcp
  <2> QED BY <2>1, <2>2, <2>3, <2>4
<1>4. CASE WaitFor("carrier")
  BY <1>1, <1>4, Otherwise DEF WaitFor, EveryAddressGetsItsTurn
<1>5. CASE Upgrade
  BY <1>1, <1>5, Otherwise DEF Upgrade, NotOver, EveryAddressGetsItsTurn
<1> QED BY <1>2, <1>3, <1>4, <1>5 DEF Start, Fail

LEMMA AnswerKeeps == ASSUME TimeInv, NEW n \in 1..MaxAddrs, LookupAnswered(n) PROVE TimeInv'
<1> DEFINE d == Dial(dial.from, dial.limit, n, 0, now)
<1>1. pc = "lookup" /\ DialFrom(d, 1) /\ UNCHANGED <<cfg, now>>
  BY DEF LookupAnswered
<1>2. d.limit = dial.limit /\ d.n = n /\ d.began = now
  BY DEF Dial
<1> HIDE DEF d
<1>3. dial.limit \in Int /\ dial.limit <= deadline /\ n \in Nat /\ now \in Int
  BY <1>1, WebTunnelConstants DEF TimeInv, Types, ClockInv
<1>4. (1 - 1) * Share = 0
  BY WebTunnelConstants DEF Share
<1> QED BY <1>1, <1>2, <1>3, <1>4, DialKeeps

LEMMA NextAddressKeeps == ASSUME TimeInv, DialFails PROVE TimeInv'
<1>1. pc = "dial" /\ DialFrom(dial, dial.idx + 1) /\ UNCHANGED <<cfg, now>>
  BY DEF DialFails
<1>2. /\ dial.limit \in Int /\ dial.limit <= deadline /\ dial.n \in Nat /\ dial.began \in Int
      /\ dial.idx \in Nat \ {0} /\ now <= timer + MaxDelay /\ timer \in Int /\ now \in Nat
  BY <1>1 DEF TimeInv, Types, ClockInv
<1>3. ASSUME dial.idx + 1 <= dial.n PROVE now <= dial.began + (dial.idx + 1 - 1) * Share
  <2> DEFINE p == (dial.idx - 1) * Share
  <2>1. Share \in Nat /\ dial.idx - 1 \in Nat
    BY <1>2, WebTunnelConstants DEF Share
  <2>2. p \in Int /\ (dial.idx + 1 - 1) * Share = p + Share
    <3> DEFINE k == dial.idx - 1
    <3>1. k \in Nat /\ dial.idx + 1 - 1 = k + 1
      BY <1>2
    <3> HIDE DEF k
    <3>2. k * Share \in Int /\ (k + 1) * Share = k * Share + Share
      BY <2>1, <3>1, Product
    <3> QED BY <3>1, <3>2 DEF k
  <2>3. timer <= dial.began + p + AttemptTimeout
    BY <1>1, <1>2, <1>3 DEF TimeInv, ClockInv
  <2> HIDE DEF p
  <2>4. now <= dial.began + (p + Share)
    BY <1>2, <2>2, <2>3, WebTunnelConstants DEF Share
  <2> QED BY <2>2, <2>4
<1> QED BY <1>1, <1>2, <1>3, DialKeeps

(* timeout_at ends an attempt: the deadline is past its limit. *)
LEMMA ExpireKeeps == ASSUME TimeInv, Expire PROVE TimeInv'
<1>1. now >= deadline /\ pc' = "failed" /\ UNCHANGED <<cfg, now, timer, dial>>
      /\ over' = (IF pc = "dial" THEN GivenUp(dial, dial.idx) ELSE over)
  BY DEF Expire, Fail
<1>2. CASE pc # "dial"
  BY <1>1, <1>2, Otherwise DEF TimeInv, Types, EveryAddressGetsItsTurn
<1>3. CASE pc = "dial"
  <2>1. over'.tried = dial.idx /\ over'.of = dial.n /\ over'.time = dial.limit - dial.began
        /\ over' \in [tried : Nat, of : Nat, time : Int]
    BY <1>1, <1>3 DEF GivenUp, TimeInv, Types
  <2>2. /\ dial.limit \in Int /\ dial.limit <= deadline /\ dial.n \in Nat /\ dial.began \in Int
        /\ dial.idx \in Nat \ {0} /\ now <= timer + MaxDelay /\ timer \in Int /\ now \in Nat
        /\ deadline \in Nat
    BY <1>3 DEF TimeInv, Types, ClockInv
  <2>3. ASSUME dial.idx < dial.n PROVE dial.idx * Share >= dial.limit - dial.began
    <3> DEFINE p == (dial.idx - 1) * Share
    <3>1. Share \in Nat /\ dial.idx - 1 \in Nat
      BY <2>2, WebTunnelConstants DEF Share
    <3>2. p \in Int /\ dial.idx * Share = p + Share
      <4> DEFINE k == dial.idx - 1
      <4>1. k \in Nat /\ dial.idx = k + 1
        BY <2>2
      <4> HIDE DEF k
      <4>2. k * Share \in Int /\ (k + 1) * Share = k * Share + Share
        BY <3>1, <4>1, Product
      <4> QED BY <4>1, <4>2 DEF k
    <3>3. timer <= dial.began + p + AttemptTimeout
      BY <1>3, <2>2, <2>3 DEF TimeInv, ClockInv
    <3> HIDE DEF p
    <3>4. p + Share >= dial.limit - dial.began
      <4>1. now >= dial.limit /\ now <= dial.began + p + AttemptTimeout + MaxDelay
        BY <1>1, <2>2, <3>2, <3>3, WebTunnelConstants
      <4>2. Share = AttemptTimeout + MaxDelay /\ AttemptTimeout \in Nat /\ MaxDelay \in Nat
        BY WebTunnelConstants DEF Share
      <4> QED BY <2>2, <3>2, <4>1, <4>2
    <3> QED BY <3>2, <3>4
  <2>4. EveryAddressGetsItsTurn'
    BY <2>1, <2>3 DEF EveryAddressGetsItsTurn, Share
  <2> QED BY <1>1, <2>1, <2>2, <2>4, Otherwise
<1> QED BY <1>2, <1>3

LEMMA TickKeeps == ASSUME TimeInv, Tick PROVE TimeInv'
<1>1. /\ pc # "start" /\ now < timer + MaxDelay /\ now' = now + 1
      /\ UNCHANGED <<cfg, pc, timer, dial, over>>
  BY DEF Tick, InProgress, dialVars
<1>2. Types'
  BY <1>1 DEF TimeInv, Types, deadline
<1>3. ClockInv'
  BY <1>1, WebTunnelConstants DEF TimeInv, Types, ClockInv, deadline
<1> QED BY <1>1, <1>2, <1>3 DEF TimeInv, EveryAddressGetsItsTurn

(* The steps after the dialling, which leave its record or reset it. *)
After ==
  \/ Connected \/ TlsDone \/ RequestSent \/ CarrierFails \/ ResponseEnds
  \/ (\E n \in 1..BufLen : ReadResponse(n))
  \/ (\E cap \in ReadCaps, n \in 1..BufLen : PollRead(cap, n))

LEMMA AfterMoves ==
  ASSUME After
  PROVE  /\ UNCHANGED <<cfg, now>> /\ pc' \notin {"start", "lookup", "dial"} /\ timer' \in {timer, deadline}
         /\ dial' \in {dial, NoDial} /\ over' \in {over, NotOver}
         /\ pc # "failed"
         /\ \/ pc' # "failed" /\ why' = why
            \/ pc' = "failed" /\ why'.at = pc /\ pc \in {"carrier", "tls", "write", "read"}
<1>1. CASE Connected
  BY <1>1 DEF Connected, Upgrade
<1>2. CASE TlsDone \/ RequestSent
  BY <1>2 DEF TlsDone, RequestSent, WaitFor
<1>3. CASE CarrierFails \/ ResponseEnds
  BY <1>3 DEF CarrierFails, ResponseEnds, Fail, dialVars
<1>4. ASSUME NEW n \in 1..BufLen, ReadResponse(n)
      PROVE  /\ UNCHANGED <<cfg, now, timer, dial, over>> /\ pc = "read"
             /\ \/ pc' \in {"read", "open"} /\ why' = why
                \/ pc' = "failed" /\ why'.at = pc
  <2>1. UNCHANGED <<cfg, now, timer, dial, over>> /\ pc = "read"
    BY <1>4 DEF ReadResponse, dialVars
  <2>2. \/ UNCHANGED <<pc, why>>
        \/ pc' = "open" /\ UNCHANGED why
        \/ Fail("too large") \/ Fail("parse") \/ Fail("non101")
    BY <1>4, Zenon DEF ReadResponse
  <2> QED BY <2>1, <2>2, FailIs
<1>5. CASE \E cap \in ReadCaps, n \in 1..BufLen : PollRead(cap, n)
  BY <1>5 DEF PollRead, dialVars
<1> QED BY <1>1, <1>2, <1>3, <1>4, <1>5 DEF After

LEMMA TimeInductive == TimeInv /\ [WtNext]_WtVars => TimeInv'
<1> SUFFICES ASSUME TimeInv, [WtNext]_WtVars PROVE TimeInv'
  OBVIOUS
<1>1. CASE UNCHANGED WtVars
  BY <1>1 DEF WtVars, TimeInv, Types, ClockInv, EveryAddressGetsItsTurn, deadline
<1>2. CASE LookupFails
  <2>1. PhaseFailed("lookup") /\ UNCHANGED <<cfg, now>> /\ over' = over
    BY <1>2 DEF LookupFails
  <2>2. over' \in [tried : Nat, of : Nat, time : Int] /\ EveryAddressGetsItsTurn'
    BY <2>1 DEF TimeInv, Types, EveryAddressGetsItsTurn
  <2> QED BY <2>1, <2>2, PhaseKeeps
<1>3. CASE After
  <2>1. timer' \in Int /\ over' \in [tried : Nat, of : Nat, time : Int] /\ EveryAddressGetsItsTurn'
    BY <1>3, AfterMoves DEF TimeInv, Types, NotOver, EveryAddressGetsItsTurn
  <2> QED BY <1>3, <2>1, AfterMoves, Otherwise
<1> QED BY <1>1, <1>2, <1>3, StartKeeps, AnswerKeeps, NextAddressKeeps, ExpireKeeps, TickKeeps
        DEF WtNext, After

(* connect_first_until bounds each attempt but the last: for any timeouts,  *)
(* any scheduling delay and any number of addresses, the later addresses    *)
(* are left untried only when the time was used up at one share each.       *)
THEOREM NoAddressStarves == WtSpec => []EveryAddressGetsItsTurn
<1>1. TimeInv => EveryAddressGetsItsTurn
  BY DEF TimeInv
<1> QED BY <1>1, TimeInit, TimeInductive, PTL DEF WtSpec

-----------------------------------------------------------------------------
Falling == cfg.via = "url" /\ cfg.mode = "fallback" /\ Reserve > MaxDelay
SystemAsked == \E a \in asked : a.who = "system" /\ a.left >= Reserve - MaxDelay

(* The first resolver works within its own deadline, every other was the    *)
(* system's; a failure before the carrier is there comes after it.          *)
FallInv ==
  /\ pc # "failed" => why.at = "none"
  /\ Falling =>
       /\ pc \in {"lookup", "dial"} =>
            /\ dial.from = "doh" => dial.limit = deadline - Reserve
            /\ dial.from # "doh" => SystemAsked
       /\ why.error # "config" /\ why.at \in {"start", "lookup", "dial"} => SystemAsked

(* The system resolver is asked in time. *)
LEMMA AsksSystem ==
  ASSUME TimeInv, FallInv, pc # "failed", Falling, LookupUntil("system", deadline), UNCHANGED <<cfg, now>>,
         now <= deadline - Reserve + MaxDelay
  PROVE  FallInv'
<1>1. Reserve \in Nat /\ deadline \in Nat /\ now \in Nat /\ MaxDelay \in Nat /\ Reserve > MaxDelay
  BY ReserveType, WebTunnelConstants DEF TimeInv, Types, Falling
<1>2. ~(now >= deadline)
  BY <1>1
<1>3. /\ pc' = "lookup" /\ why' = why /\ dial' = Dial("system", deadline, 0, 0, 0)
      /\ asked' = asked \cup {[who |-> "system", left |-> deadline - now]}
  BY <1>2 DEF LookupUntil
<1>4. Reserve' = Reserve /\ dial'.from = "system"
  BY <1>3 DEF Reserve, deadline, Dial
<1>5. SystemAsked'
  <2> DEFINE a == [who |-> "system", left |-> deadline - now]
  <2>1. a \in asked' /\ a.who = "system" /\ a.left >= Reserve - MaxDelay
    BY <1>1, <1>3
  <2> QED BY <1>4, <2>1 DEF SystemAsked
<1> QED BY <1>3, <1>4, <1>5 DEF FallInv

LEMMA FallPhase ==
  ASSUME TimeInv, FallInv, pc \in {"lookup", "dial"}, NEW w, PhaseFailed(w), UNCHANGED <<cfg, now>>
  PROVE  FallInv'
<1>1. Falling' <=> Falling
  BY DEF Falling, Reserve, deadline
<1>2. CASE ~Falling
  <2>1. pc' # "failed" => why' = why
    BY DEF PhaseFailed, LookupUntil, Fail
  <2> QED BY <1>1, <1>2, <2>1 DEF FallInv
<1>3. CASE Falling /\ dial.from = "doh"
  <2>1. LookupUntil("system", deadline)
    BY <1>3 DEF PhaseFailed, Falling
  <2>2. now <= deadline - Reserve + MaxDelay
    BY <1>3, ReserveType, WebTunnelConstants DEF FallInv, TimeInv, Types, ClockInv
  <2> QED BY <1>3, <2>1, <2>2, AsksSystem
<1>4. CASE Falling /\ dial.from # "doh"
  <2>1. pc' = "failed" /\ asked' = asked /\ SystemAsked
    BY <1>4 DEF PhaseFailed, Fail, FallInv
  <2>2. SystemAsked'
    BY <2>1 DEF SystemAsked, Reserve, deadline
  <2> QED BY <2>1, <2>2 DEF FallInv
<1> QED BY <1>2, <1>3, <1>4

LEMMA FallDial ==
  ASSUME TimeInv, FallInv, pc \in {"lookup", "dial"}, NEW d, NEW i, DialFrom(d, i), UNCHANGED <<cfg, now>>,
         d.from = dial.from, d.limit = dial.limit
  PROVE  FallInv'
<1>1. CASE i > d.n \/ now >= d.limit
  BY <1>1, FallPhase DEF DialFrom
<1>2. CASE ~(i > d.n \/ now >= d.limit)
  <2>1. pc' = "dial" /\ dial' = Dial(d.from, d.limit, d.n, i, d.began) /\ UNCHANGED <<why, asked>>
    BY <1>2 DEF DialFrom
  <2>2. dial'.from = dial.from /\ dial'.limit = dial.limit
    BY <2>1 DEF Dial
  <2>3. (Falling' <=> Falling) /\ deadline' = deadline /\ Reserve' = Reserve /\ (SystemAsked' <=> SystemAsked)
    BY <2>1 DEF Falling, Reserve, deadline, SystemAsked
  <2> QED BY <2>1, <2>2, <2>3 DEF FallInv
<1> QED BY <1>1, <1>2

LEMMA FallStart == ASSUME TimeInv, FallInv, Start PROVE FallInv'
<1>1. pc = "start" /\ UNCHANGED <<cfg, now>> /\ now = 0 /\ why.at = "none" /\ deadline \in Nat
  BY DEF Start, TimeInv, ClockInv, FallInv, Types
<1>2. (Falling' <=> Falling) /\ deadline' = deadline /\ Reserve' = Reserve
  BY <1>1 DEF Falling, Reserve, deadline
<1>3. \/ pc' = "failed" /\ (why'.error = "config" \/ ~Falling)
      \/ pc' \notin {"failed", "lookup", "dial"} /\ why' = why
      \/ cfg.via = "url" /\ OpenTcp
  <2>1. \/ Fail("config")
        \/ cfg.via = "url" /\ OpenTcp
        \/ cfg.via # "url" /\ Fail("unsupported")
        \/ WaitFor("carrier") \/ Upgrade
    BY DEF Start
  <2>2. CASE WaitFor("carrier") \/ Upgrade
    BY <2>2 DEF WaitFor, Upgrade
  <2> QED BY <2>1, <2>2, FailIs DEF Falling
<1>4. CASE pc' = "failed" /\ (why'.error = "config" \/ ~Falling)
  BY <1>2, <1>4 DEF FallInv
<1>5. CASE pc' \notin {"failed", "lookup", "dial"} /\ why' = why
  BY <1>1, <1>5 DEF FallInv
<1>6. CASE cfg.via = "url" /\ OpenTcp /\ ~Falling
  <2>1. pc' # "failed" => why' = why
    BY <1>6 DEF OpenTcp, DialFrom, PhaseFailed, LookupUntil, Fail
  <2> QED BY <1>1, <1>2, <1>6, <2>1 DEF FallInv
<1>7. CASE OpenTcp /\ Falling
  <2>1. Reserve \in Nat /\ Reserve <= deadline /\ DohDeadline = deadline - Reserve /\ MaxDelay \in Nat
    BY <1>1, ReserveType, WebTunnelConstants
  <2>2. \/ DohDeadline > now /\ LookupUntil("doh", DohDeadline)
        \/ LookupUntil("system", deadline)
    BY <1>7 DEF OpenTcp, Falling
  <2>3. CASE LookupUntil("system", deadline)
    <3>1. now <= deadline - Reserve + MaxDelay /\ pc # "failed"
      BY <1>1, <2>1
    <3> QED BY <1>1, <1>7, <2>3, <3>1, AsksSystem
  <2>4. CASE DohDeadline > now /\ LookupUntil("doh", DohDeadline)
    <3>1. pc' = "lookup" /\ why' = why /\ dial' = Dial("doh", DohDeadline, 0, 0, 0)
      BY <1>1, <2>1, <2>4 DEF LookupUntil
    <3>2. dial'.from = "doh" /\ dial'.limit = deadline - Reserve
      BY <2>1, <3>1 DEF Dial
    <3> QED BY <1>1, <1>2, <3>1, <3>2 DEF FallInv
  <2> QED BY <2>2, <2>3, <2>4
<1> QED BY <1>3, <1>4, <1>5, <1>6, <1>7

(* The deadline passes for the system resolver only: the first one was      *)
(* given up before.                                                         *)
LEMMA FallExpire == ASSUME TimeInv, FallInv, Expire PROVE FallInv'
<1>1. /\ now >= deadline /\ pc' = "failed" /\ why'.at = pc /\ UNCHANGED <<cfg, asked>>
      /\ pc # "start"
  BY DEF Expire, Fail, InProgress
<1>2. (Falling' <=> Falling) /\ (SystemAsked' <=> SystemAsked)
  BY <1>1 DEF Falling, Reserve, deadline, SystemAsked
<1>3. ASSUME Falling, pc \in {"lookup", "dial"} PROVE SystemAsked
  <2>1. deadline \in Nat /\ now \in Nat /\ timer \in Int /\ Reserve \in Nat /\ MaxDelay \in Nat
        /\ Reserve > MaxDelay /\ timer <= dial.limit /\ now <= timer + MaxDelay /\ dial.limit \in Int
    BY <1>3, ReserveType, WebTunnelConstants DEF TimeInv, Types, ClockInv, Falling
  <2>2. dial.limit # deadline - Reserve
    BY <1>1, <2>1
  <2> QED BY <1>3, <2>2 DEF FallInv
<1> QED BY <1>1, <1>2, <1>3 DEF FallInv

LEMMA FallInductive == TimeInv /\ FallInv /\ [WtNext]_WtVars => FallInv'
<1> SUFFICES ASSUME TimeInv, FallInv, [WtNext]_WtVars PROVE FallInv'
  OBVIOUS
<1>1. CASE UNCHANGED WtVars \/ Tick
  <2>1. UNCHANGED <<cfg, pc, why, dial, asked>>
    BY <1>1 DEF WtVars, Tick, dialVars
  <2> QED BY <2>1 DEF FallInv, Falling, Reserve, deadline, SystemAsked
<1>2. CASE LookupFails
  BY <1>2, FallPhase DEF LookupFails
<1>3. CASE DialFails
  BY <1>3, FallDial DEF DialFails
<1>4. ASSUME NEW n \in 1..MaxAddrs, LookupAnswered(n) PROVE FallInv'
  <2> DEFINE d == Dial(dial.from, dial.limit, n, 0, now)
  <2>1. pc = "lookup" /\ DialFrom(d, 1) /\ UNCHANGED <<cfg, now>>
    BY <1>4 DEF LookupAnswered
  <2>2. d.from = dial.from /\ d.limit = dial.limit
    BY DEF Dial
  <2> HIDE DEF d
  <2> QED BY <2>1, <2>2, FallDial
<1>5. CASE After
  BY <1>5, AfterMoves DEF FallInv
<1> QED BY <1>1, <1>2, <1>3, <1>4, <1>5, FallStart, FallExpire DEF WtNext, After

(* connect_fallback_with and doh_deadline: whatever the DNS-over-HTTPS      *)
(* resolver and the addresses it gives do, a connection that fails in       *)
(* fallback mode has asked the system resolver, with its reserve left but   *)
(* for the scheduler's delay.                                               *)
THEOREM FallbackKeepsReserve == WtSpec => []FallbackAsksSystem
<1>1. WtInit => FallInv
  BY DEF WtInit, FallInv, NoError
<1>2. FallInv => FallbackAsksSystem
  BY DEF FallInv, Falling, SystemAsked, Reserve, FallbackAsksSystem
<1> QED BY <1>1, <1>2, TimeInit, TimeInductive, FallInductive, PTL DEF WtSpec

-----------------------------------------------------------------------------
(* The upgrade and the stream *)

Sent == peer.head \o peer.payload

(* Until the stream is handed out, the buffer and the carrier are together  *)
(* what the peer sends, and nothing has been returned.                      *)
StreamInv ==
  /\ buf \in Seq(Nat) /\ conn \in Seq(Nat) /\ got \in Seq(Nat) /\ prefix \in Seq(Nat)
  /\ pc \notin {"open", "failed"} => got = <<>> /\ prefix = <<>>
  /\ pc \in {"start", "lookup", "dial", "carrier"} => buf = <<>>
  /\ pc \in {"tls", "write", "read"} => peer \in Responses /\ buf \o conn = Sent
  /\ PayloadIntact

LEMMA LeastElement ==
  ASSUME NEW T, T \subseteq Nat, T # {}
  PROVE  Min(T) \in T /\ \A k \in T : Min(T) <= k
<1>1. PICK m \in T : \A k \in T : ~(<<k, m>> \in OpToRel(<, Nat))
  BY NatLessThanWellFounded, WFMin
<1>2. \A k \in T : ~(k < m)
  BY <1>1 DEF OpToRel
<1>3. \A k \in T : m =< k
  BY <1>2
<1>4. Min(T) \in T /\ \A k \in T : Min(T) =< k
  BY <1>3 DEF Min
<1> QED BY <1>4

(* Where a header may end in a sequence of bytes. *)
Ends(bytes) ==
  {i \in 1..Len(bytes) : /\ EmptyLineAt(bytes, i)
                         /\ \E j \in 1..i : bytes[j] \notin {LF, CR}}

LEMMA HeaderEndIsLeast ==
  ASSUME NEW bytes \in Seq(Nat)
  PROVE  /\ Ends(bytes) = {} => HeaderEnd(bytes) = 0
         /\ Ends(bytes) # {} => /\ HeaderEnd(bytes) \in Ends(bytes)
                                /\ \A k \in Ends(bytes) : HeaderEnd(bytes) <= k
<1>1. HeaderEnd(bytes) = IF Ends(bytes) = {} THEN 0 ELSE Min(Ends(bytes))
  BY DEF HeaderEnd, Ends
<1>2. Ends(bytes) \subseteq Nat
  BY LenProperties DEF Ends
<1> QED BY <1>1, <1>2, LeastElement

(* httparse decides by the bytes up to the end of the header: more of them  *)
(* do not change where it is.                                               *)
LEMMA EndsOfPrefix ==
  ASSUME NEW a \in Seq(Nat), NEW b \in Seq(Nat), Len(a) <= Len(b),
         \A i \in 1..Len(a) : a[i] = b[i]
  PROVE  \A i \in 1..Len(a) : i \in Ends(a) <=> i \in Ends(b)
<1>1. Len(a) \in Nat /\ Len(b) \in Nat
  BY LenProperties
<1> TAKE i \in 1..Len(a)
<1>2. i \in 1..Len(b) /\ i \in Nat /\ i >= 1
  BY <1>1
<1>3. \A j \in 1..i : a[j] = b[j]
  BY <1>1
<1>4. EmptyLineAt(a, i) <=> EmptyLineAt(b, i)
  <2>1. a[i] = b[i]
    BY <1>2, <1>3
  <2>2. i > 1 => a[i - 1] = b[i - 1]
    <3>1. i > 1 => i - 1 \in 1..i
      BY <1>2
    <3> QED BY <1>3, <3>1
  <2>3. i > 2 => a[i - 2] = b[i - 2]
    <3>1. i > 2 => i - 2 \in 1..i
      BY <1>2
    <3> QED BY <1>3, <3>1
  <2> QED BY <2>1, <2>2, <2>3 DEF EmptyLineAt
<1>5. (\E j \in 1..i : a[j] \notin {LF, CR}) <=> (\E j \in 1..i : b[j] \notin {LF, CR})
  BY <1>3
<1> QED BY <1>2, <1>4, <1>5 DEF Ends

(* A complete header found in what has been read of a response is the head  *)
(* of that response, however much was read.                                 *)
LEMMA HeadIsFound ==
  ASSUME NEW r \in Responses, NEW bytes \in Seq(Nat), NEW rest \in Seq(Nat),
         bytes \o rest = r.head \o r.payload, HeaderEnd(bytes) # 0
  PROVE  HeaderEnd(bytes) = Len(r.head) /\ Len(r.head) <= Len(bytes)
<1> DEFINE head == r.head
           payload == r.payload
           e == HeaderEnd(bytes)
           m == Len(head)
           n == Len(bytes)
<1>1. /\ head \in Seq(Nat) /\ payload \in Seq(Nat)
      /\ HeaderEnd(head) = 0 => payload = <<>>
      /\ HeaderEnd(head) # 0 => HeaderEnd(head) = m
  BY ResponsesSplit
<1> HIDE DEF head, payload
<1> DEFINE whole == head \o payload
<1>2. bytes \o rest = whole
  BY DEF head, payload
<1>3. /\ whole \in Seq(Nat) /\ m \in Nat /\ n \in Nat /\ m <= Len(whole) /\ n <= Len(whole)
      /\ \A i \in 1..m : whole[i] = head[i]
      /\ \A i \in 1..n : whole[i] = bytes[i]
  <2>1. /\ whole \in Seq(Nat) /\ Len(whole) = Len(head) + Len(payload)
        /\ \A i \in 1..Len(head) + Len(payload) :
              whole[i] = IF i <= Len(head) THEN head[i] ELSE payload[i - Len(head)]
    BY <1>1, ConcatProperties, Zenon
  <2>2. /\ Len(whole) = Len(bytes) + Len(rest)
        /\ \A i \in 1..Len(bytes) + Len(rest) :
              whole[i] = IF i <= Len(bytes) THEN bytes[i] ELSE rest[i - Len(bytes)]
    <3> DEFINE both == bytes \o rest
    <3>1. /\ Len(both) = Len(bytes) + Len(rest)
          /\ \A i \in 1..Len(bytes) + Len(rest) :
                both[i] = IF i <= Len(bytes) THEN bytes[i] ELSE rest[i - Len(bytes)]
      BY ConcatProperties, Zenon
    <3>2. both = whole
      BY <1>2
    <3> QED BY <3>1, <3>2, Zenon
  <2>3. Len(head) \in Nat /\ Len(payload) \in Nat /\ Len(bytes) \in Nat /\ Len(rest) \in Nat
    BY <1>1, LenProperties
  <2> HIDE DEF whole
  <2>4. m \in Nat /\ n \in Nat /\ m <= Len(whole) /\ n <= Len(whole)
    BY <2>1, <2>2, <2>3
  <2>5. \A i \in 1..m : i \in 1..Len(head) + Len(payload) /\ i <= Len(head)
    BY <2>3
  <2>6. \A i \in 1..n : i \in 1..Len(bytes) + Len(rest) /\ i <= Len(bytes)
    BY <2>3
  <2>7. \A i \in 1..m : whole[i] = head[i]
    BY <2>1, <2>5
  <2>8. \A i \in 1..n : whole[i] = bytes[i]
    BY <2>2, <2>6
  <2> QED BY <2>1, <2>4, <2>7, <2>8
<1>4. \A i \in 1..m : i \in Ends(head) <=> i \in Ends(whole)
  BY <1>1, <1>3, EndsOfPrefix
<1>5. \A i \in 1..n : i \in Ends(bytes) <=> i \in Ends(whole)
  BY <1>3, EndsOfPrefix
<1>6. e \in Ends(bytes) /\ e \in 1..n /\ \A k \in Ends(bytes) : e <= k
  BY HeaderEndIsLeast DEF Ends
<1>7. CASE HeaderEnd(head) = 0
  <2>1. Ends(head) = {}
    <3>1. 0 \notin Ends(head)
      BY <1>1, LenProperties DEF Ends
    <3> QED BY <1>1, <1>7, <3>1, HeaderEndIsLeast
  <2>2. whole = head
    BY <1>1, <1>7, ConcatEmptySeq
  <2>3. e \in Ends(head)
    BY <1>5, <1>6, <2>2
  <2> QED BY <2>1, <2>3
<1>8. CASE HeaderEnd(head) # 0
  <2>1. m \in Ends(head) /\ \A k \in Ends(head) : m <= k
    BY <1>1, <1>8, HeaderEndIsLeast
  <2>2. m \in 1..m /\ \A k \in Ends(head) : k = m
    <3>1. m \in 1..m /\ \A k \in Ends(head) : k \in 1..m
      BY <2>1 DEF Ends
    <3> QED BY <1>3, <2>1, <3>1
  <2>3. CASE e < m
    <3>1. e \in 1..m
      BY <1>3, <1>6, <2>3
    <3>2. e \in Ends(head)
      BY <1>4, <1>5, <1>6, <3>1
    <3> QED BY <1>3, <1>6, <2>2, <2>3, <3>2
  <2>4. CASE e >= m
    <3>1. m \in 1..n
      BY <1>3, <1>6, <2>2, <2>4
    <3>2. m \in Ends(bytes)
      BY <1>4, <1>5, <2>1, <2>2, <3>1
    <3> QED BY <1>3, <1>6, <2>4, <3>1, <3>2 DEF head
  <2> QED BY <1>3, <1>6, <2>3, <2>4
<1> QED BY <1>7, <1>8

Grouped(a, b, c) == (a \o b) \o c = a \o (b \o c)

LEMMA Regroup ==
  ASSUME NEW a \in Seq(Nat), NEW b \in Seq(Nat), NEW c \in Seq(Nat)
  PROVE  Grouped(a, b, c)
BY ConcatAssociative DEF Grouped

LEMMA CutInTwo ==
  ASSUME NEW q \in Seq(Nat), NEW k \in Nat, k <= Len(q)
  PROVE  /\ SubSeq(q, 1, k) \in Seq(Nat) /\ SubSeq(q, k + 1, Len(q)) \in Seq(Nat)
         /\ SubSeq(q, 1, k) \o SubSeq(q, k + 1, Len(q)) = q
<1>1. Len(q) \in Nat /\ \A i \in 1..Len(q) : q[i] \in Nat
  BY LenProperties, ElementOfSeq
<1>2. SubSeq(q, 1, k) \in Seq(Nat)
  <2>1. \A i \in 1..k : q[i] \in Nat
    BY <1>1
  <2> QED BY <2>1, SubSeqProperties
<1>3. SubSeq(q, k + 1, Len(q)) \in Seq(Nat)
  <2>1. \A i \in (k + 1)..Len(q) : q[i] \in Nat
    BY <1>1
  <2>2. k + 1 \in Int /\ Len(q) \in Int
    BY <1>1
  <2> QED BY <2>1, <2>2, SubSeqProperties
<1>4. SubSeq(q, 1, k) \o SubSeq(q, k + 1, Len(q)) = SubSeq(q, 1, Len(q))
  <2>1. 1 \in 1..Len(q) + 1 /\ k \in (1 - 1)..Len(q) /\ Len(q) \in k..Len(q)
    BY <1>1
  <2> QED BY <2>1, ConcatAdjacentSubSeq
<1> QED BY <1>2, <1>3, <1>4, SubSeqFull

SameBytes(bytes, rest, head, payload) ==
  bytes \o rest = head \o payload /\ Len(head) <= Len(bytes)

Behind(bytes, rest, head, payload) ==
  /\ SubSeq(bytes, Len(head) + 1, Len(bytes)) \in Seq(Nat)
  /\ SubSeq(bytes, Len(head) + 1, Len(bytes)) \o rest = payload

(* What follows the head in the buffer, and then the carrier, is the        *)
(* payload.                                                                 *)
LEMMA AfterHead ==
  ASSUME NEW head \in Seq(Nat), NEW payload \in Seq(Nat),
         NEW bytes \in Seq(Nat), NEW rest \in Seq(Nat),
         SameBytes(bytes, rest, head, payload)
  PROVE  Behind(bytes, rest, head, payload)
<1> DEFINE m == Len(head)
           a == SubSeq(bytes, 1, m)
           b == SubSeq(bytes, m + 1, Len(bytes))
<1>1. m \in Nat /\ Len(bytes) \in Nat /\ Len(rest) \in Nat /\ Len(payload) \in Nat
  BY LenProperties
<1>2. a \in Seq(Nat) /\ b \in Seq(Nat) /\ a \o b = bytes
  BY <1>1, CutInTwo DEF SameBytes
<1>3. Len(a) = m /\ \A i \in 1..m : a[i] = bytes[i]
  <2>1. \A i \in 1..m : bytes[i] \in Nat
    BY <1>1, ElementOfSeq DEF SameBytes
  <2>2. /\ Len(a) = IF 1 <= m THEN m - 1 + 1 ELSE 0
        /\ \A i \in 1..m - 1 + 1 : a[i] = bytes[1 + i - 1]
    BY <1>1, <2>1, SubSeqProperties
  <2> HIDE DEF a, m
  <2>3. Len(a) = m
    BY <1>1, <2>2
  <2>4. \A i \in 1..m : i \in 1..m - 1 + 1 /\ 1 + i - 1 = i
    BY <1>1
  <2> QED BY <2>2, <2>3, <2>4
<1>4. \A i \in 1..m : bytes[i] = head[i]
  <2> DEFINE whole == head \o payload
             both == bytes \o rest
  <2>1. \A i \in 1..Len(head) + Len(payload) :
           whole[i] = IF i <= Len(head) THEN head[i] ELSE payload[i - Len(head)]
    BY ConcatProperties, Zenon
  <2>2. \A i \in 1..Len(bytes) + Len(rest) :
           both[i] = IF i <= Len(bytes) THEN bytes[i] ELSE rest[i - Len(bytes)]
    BY ConcatProperties, Zenon
  <2>3. whole = both
    BY DEF SameBytes
  <2>4. \A i \in 1..m : /\ i \in 1..Len(head) + Len(payload) /\ i <= Len(head)
                        /\ i \in 1..Len(bytes) + Len(rest) /\ i <= Len(bytes)
    BY <1>1 DEF SameBytes
  <2> HIDE DEF whole, both
  <2>5. \A i \in 1..m : whole[i] = head[i]
    BY <2>1, <2>4
  <2>6. \A i \in 1..m : both[i] = bytes[i]
    BY <2>2, <2>4
  <2> QED BY <2>3, <2>5, <2>6
<1>5. a = head
  <2>1. \A i \in 1..Len(a) : a[i] = head[i]
    BY <1>3, <1>4
  <2> QED BY <1>2, <1>3, <2>1, SeqEqual
<1>6. head \o (b \o rest) = head \o payload
  <2>1. (head \o b) \o rest = head \o payload
    BY <1>2, <1>5 DEF SameBytes
  <2> HIDE DEF b
  <2>2. (head \o b) \o rest = head \o (b \o rest)
    <3>1. b \in Seq(Nat)
      BY <1>2
    <3>2. Grouped(head, b, rest)
      BY <3>1, Regroup, Zenon
    <3> QED BY <3>2, Zenon DEF Grouped
  <2> QED BY <2>1, <2>2, Zenon
<1> HIDE DEF b
<1>7. b \o rest \in Seq(Nat)
  BY <1>2, ConcatProperties
<1>8. b \o rest = payload
  BY <1>6, <1>7, ConcatSimplifications
<1> QED BY <1>2, <1>8 DEF b, Behind

LEMMA StreamInit == WtInit => StreamInv
BY DEF WtInit, StreamInv, PayloadIntact

(* read_upgrade's loop: bytes move from the carrier to the buffer, and the  *)
(* stream is handed out with what is behind the header.                     *)
LEMMA ReadKeeps ==
  ASSUME StreamInv, NEW n \in 1..BufLen, ReadResponse(n)
  PROVE  StreamInv'
<1> DEFINE bytes == buf \o SubSeq(conn, 1, n)
           rest == SubSeq(conn, n + 1, Len(conn))
<1>1. /\ pc = "read" /\ n <= Len(conn) /\ buf' = bytes /\ conn' = rest
      /\ got' = got /\ peer' = peer
  BY DEF ReadResponse
<1>2. /\ buf \in Seq(Nat) /\ conn \in Seq(Nat) /\ got = <<>> /\ prefix = <<>>
      /\ peer \in Responses /\ buf \o conn = Sent
  BY <1>1 DEF StreamInv
<1>3. n \in Nat
  BY WebTunnelConstants
<1>4. SubSeq(conn, 1, n) \in Seq(Nat) /\ rest \in Seq(Nat) /\ SubSeq(conn, 1, n) \o rest = conn
  BY <1>1, <1>2, <1>3, CutInTwo
<1>5. bytes \in Seq(Nat)
  BY <1>2, <1>4, ConcatProperties
<1>6. bytes \o rest = Sent
  <2> DEFINE x == SubSeq(conn, 1, n)
  <2>1. x \in Seq(Nat) /\ rest \in Seq(Nat) /\ x \o rest = conn
    BY <1>4
  <2> HIDE DEF x, rest
  <2>2. (buf \o x) \o rest = buf \o (x \o rest)
    <3>1. buf \in Seq(Nat) /\ x \in Seq(Nat) /\ rest \in Seq(Nat)
      BY <1>2, <2>1
    <3>2. Grouped(buf, x, rest)
      BY <3>1, Regroup, Zenon
    <3> QED BY <3>2, Zenon DEF Grouped
  <2> QED BY <1>2, <2>1, <2>2, Zenon DEF x, bytes
<1>7. /\ peer.head \in Seq(Nat) /\ peer.payload \in Seq(Nat)
  BY <1>2, ResponsesSplit
<1>8. \/ pc' \in {"read", "failed"} /\ prefix' = prefix
      \/ pc' = "open" /\ HeaderEnd(bytes) # 0 /\ prefix' = LeftOver(bytes)
  BY <1>1 DEF ReadResponse, Fail
<1> HIDE DEF bytes, rest
<1>9. CASE pc' \in {"read", "failed"} /\ prefix' = prefix
  BY <1>1, <1>2, <1>4, <1>5, <1>6, <1>9 DEF StreamInv, PayloadIntact, Sent
<1>10. CASE pc' = "open" /\ HeaderEnd(bytes) # 0 /\ prefix' = LeftOver(bytes)
  <2>0. bytes \o rest = peer.head \o peer.payload
    BY <1>6 DEF Sent
  <2>1. HeaderEnd(bytes) = Len(peer.head) /\ Len(peer.head) <= Len(bytes)
    BY <1>2, <1>4, <1>5, <1>10, <2>0, HeadIsFound, Zenon
  <2>2. prefix' = SubSeq(bytes, Len(peer.head) + 1, Len(bytes))
    BY <1>10, <2>1 DEF LeftOver
  <2>3. prefix' \in Seq(Nat) /\ prefix' \o rest = peer.payload
    <3> DEFINE left == SubSeq(bytes, Len(peer.head) + 1, Len(bytes))
    <3>1. left \in Seq(Nat) /\ left \o rest = peer.payload
      <4>1. SameBytes(bytes, rest, peer.head, peer.payload)
        BY <2>0, <2>1 DEF SameBytes
      <4>2. Behind(bytes, rest, peer.head, peer.payload)
        BY <1>4, <1>5, <1>7, <4>1, AfterHead, Zenon
      <4> QED BY <4>2, Zenon DEF Behind
    <3> QED BY <2>2, <3>1, Zenon
  <2>4. got' \o prefix' \o conn' = peer'.payload
    <3>1. <<>> \o prefix' = prefix'
      BY <2>3, ConcatEmptySeq
    <3> QED BY <1>1, <1>2, <2>3, <3>1
  <2> QED BY <1>1, <1>2, <1>4, <1>5, <1>10, <2>3, <2>4 DEF StreamInv, PayloadIntact
<1> QED BY <1>8, <1>9, <1>10

(* PrefixStream::poll_read: the bytes returned come from the front of what  *)
(* is left.                                                                 *)
LEMMA PollKeeps ==
  ASSUME StreamInv, NEW cap \in ReadCaps, NEW n \in 1..BufLen, PollRead(cap, n)
  PROVE  StreamInv'
<1>1. /\ pc = "open" /\ pc' = "open" /\ peer' = peer /\ buf' = buf
  BY DEF PollRead
<1>2. /\ buf \in Seq(Nat) /\ conn \in Seq(Nat) /\ got \in Seq(Nat) /\ prefix \in Seq(Nat)
      /\ got \o prefix \o conn = peer.payload
  BY <1>1 DEF StreamInv, PayloadIntact
<1>3. n \in Nat /\ cap \in Nat /\ Len(prefix) \in Nat
  BY <1>2, WebTunnelConstants, LenProperties
<1>4. CASE prefix # <<>>
  <2> DEFINE k == Min({Len(prefix), cap})
             x == SubSeq(prefix, 1, k)
             y == SubSeq(prefix, k + 1, Len(prefix))
  <2>1. got' = got \o x /\ prefix' = y /\ conn' = conn
    BY <1>4 DEF PollRead
  <2>2. k \in Nat /\ k <= Len(prefix)
    <3>1. Len(prefix) \in Int /\ cap \in Int
      BY <1>3
    <3>2. k \in {Len(prefix), cap} /\ k <= Len(prefix)
      BY <3>1, MinOfTwo, Zenon
    <3> QED BY <1>3, <3>2
  <2> HIDE DEF k
  <2>3. x \in Seq(Nat) /\ y \in Seq(Nat) /\ x \o y = prefix
    BY <1>2, <2>2, CutInTwo
  <2> HIDE DEF x, y
  <2>4. got \o x \in Seq(Nat)
    BY <1>2, <2>3, ConcatProperties
  <2>5. (got \o x) \o y = got \o (x \o y)
    <3>1. x \in Seq(Nat) /\ y \in Seq(Nat) /\ got \in Seq(Nat)
      BY <1>2, <2>3
    <3>2. Grouped(got, x, y)
      BY <3>1, Regroup, Zenon
    <3> QED BY <3>2, Zenon DEF Grouped
  <2>6. got' \o prefix' = got \o prefix
    BY <2>1, <2>3, <2>5, Zenon
  <2>7. got' \o prefix' \o conn' = peer'.payload
    BY <1>1, <1>2, <2>1, <2>6, Zenon
  <2> QED BY <1>1, <1>2, <2>1, <2>3, <2>4, <2>7 DEF StreamInv, PayloadIntact
<1>5. CASE prefix = <<>>
  <2> DEFINE x == SubSeq(conn, 1, n)
             y == SubSeq(conn, n + 1, Len(conn))
  <2>1. n <= Len(conn) /\ got' = got \o x /\ prefix' = prefix /\ conn' = y
    BY <1>5 DEF PollRead
  <2>2. x \in Seq(Nat) /\ y \in Seq(Nat) /\ x \o y = conn
    BY <1>2, <1>3, <2>1, CutInTwo
  <2> HIDE DEF x, y
  <2>3. got \o x \in Seq(Nat)
    BY <1>2, <2>2, ConcatProperties
  <2>4. got \o <<>> = got /\ (got \o x) \o <<>> = got \o x
    BY <1>2, <2>3, ConcatEmptySeq, Zenon
  <2>5. (got \o x) \o y = got \o (x \o y)
    <3>1. x \in Seq(Nat) /\ y \in Seq(Nat) /\ got \in Seq(Nat)
      BY <1>2, <2>2
    <3>2. Grouped(got, x, y)
      BY <3>1, Regroup, Zenon
    <3> QED BY <3>2, Zenon DEF Grouped
  <2>6. got \o conn = peer.payload
    BY <1>2, <1>5, <2>4, Zenon
  <2>7. got' \o prefix' = got \o x
    BY <1>5, <2>1, <2>4, Zenon
  <2>8. got' \o prefix' \o conn' = peer'.payload
    BY <1>1, <2>1, <2>2, <2>5, <2>6, <2>7, Zenon
  <2> QED BY <1>1, <1>2, <2>1, <2>2, <2>3, <2>8 DEF StreamInv, PayloadIntact
<1> QED BY <1>4, <1>5

(* What a step does to the stream when it reads nothing. *)
LEMMA PlaceKeeps ==
  ASSUME StreamInv, UNCHANGED upgradeVars, peer' = peer, pc # "open",
         \/ pc' \in {"failed", pc}
         \/ pc \in {"start", "lookup", "dial"} /\ pc' \in {"lookup", "dial", "carrier"}
         \/ pc \in {"tls", "write"} /\ pc' \in {"write", "read"}
  PROVE  StreamInv'
<1>1. buf' = buf /\ conn' = conn /\ got' = got /\ prefix' = prefix
  BY DEF upgradeVars
<1>2. pc' # "open"
  OBVIOUS
<1> QED BY <1>1, <1>2 DEF StreamInv, PayloadIntact, Sent

LEMMA UpgradeKeeps ==
  ASSUME StreamInv, pc \in {"start", "dial", "carrier"}, Upgrade, UNCHANGED <<buf, prefix, got>>
  PROVE  StreamInv'
<1>1. /\ pc' \in {"tls", "write"} /\ peer' \in Responses
      /\ conn' = peer'.head \o peer'.payload
  BY DEF Upgrade
<1>2. buf = <<>> /\ got = <<>> /\ prefix = <<>>
  BY DEF StreamInv
<1>3. peer'.head \in Seq(Nat) /\ peer'.payload \in Seq(Nat)
  BY <1>1, ResponsesSplit
<1>4. conn' \in Seq(Nat)
  BY <1>1, <1>3, ConcatProperties
<1>5. buf' \o conn' = Sent'
  <2>1. <<>> \o conn' = conn'
    BY <1>4, ConcatEmptySeq
  <2> QED BY <1>1, <1>2, <2>1 DEF Sent
<1> QED BY <1>1, <1>2, <1>4, <1>5 DEF StreamInv, PayloadIntact

LEMMA LookupGoes ==
  ASSUME NEW who, NEW limit, LookupUntil(who, limit) PROVE pc' \in {"lookup", "failed"}
BY DEF LookupUntil, Fail

LEMMA PhaseGoes ==
  ASSUME NEW w, PhaseFailed(w) PROVE pc' \in {"lookup", "failed"}
BY LookupGoes DEF PhaseFailed, Fail

LEMMA DialGoes ==
  ASSUME NEW d, NEW i, DialFrom(d, i) PROVE pc' \in {"lookup", "dial", "failed"}
BY PhaseGoes DEF DialFrom

LEMMA StreamInductive == StreamInv /\ [WtNext]_WtVars => StreamInv'
<1> SUFFICES ASSUME StreamInv, [WtNext]_WtVars PROVE StreamInv'
  OBVIOUS
<1>1. CASE Start
  <2>1. pc = "start" /\ UNCHANGED <<buf, prefix, got>>
    BY <1>1 DEF Start
  <2>2. CASE Upgrade
    BY <2>1, <2>2, UpgradeKeeps
  <2>3. CASE ~Upgrade
    <3>1. peer' = peer /\ conn' = conn /\ UNCHANGED scan
      BY <1>1, <2>3 DEF Start, WaitFor
    <3>2. CASE OpenTcp
      <4>1. pc' \in {"lookup", "dial", "failed"}
        BY <3>2, DialGoes, LookupGoes DEF OpenTcp, Fail
      <4> QED BY <2>1, <3>1, <4>1, PlaceKeeps DEF upgradeVars
    <3>3. CASE ~OpenTcp
      <4>1. pc' \in {"failed", "carrier"}
        BY <1>1, <2>3, <3>3 DEF Start, Fail, WaitFor
      <4> QED BY <2>1, <3>1, <4>1, PlaceKeeps DEF upgradeVars
    <3> QED BY <3>2, <3>3
  <2> QED BY <2>2, <2>3
<1>2. CASE LookupFails
  BY <1>2, PhaseGoes, PlaceKeeps DEF LookupFails
<1>3. CASE DialFails
  <2>1. pc = "dial" /\ UNCHANGED upgradeVars /\ peer' = peer /\ DialFrom(dial, dial.idx + 1)
    BY <1>3 DEF DialFails
  <2>2. pc' \in {"lookup", "dial", "failed"}
    BY <2>1, DialGoes
  <2> QED BY <2>1, <2>2, PlaceKeeps
<1>4. CASE Connected
  BY <1>4, UpgradeKeeps DEF Connected
<1>5. CASE \E n \in 1..MaxAddrs : LookupAnswered(n)
  <2>1. PICK n \in 1..MaxAddrs : LookupAnswered(n)
    BY <1>5
  <2>2. /\ pc = "lookup" /\ UNCHANGED upgradeVars /\ peer' = peer
        /\ DialFrom(Dial(dial.from, dial.limit, n, 0, now), 1)
    BY <2>1 DEF LookupAnswered
  <2>3. pc' \in {"lookup", "dial", "failed"}
    BY <2>2, DialGoes
  <2> QED BY <2>2, <2>3, PlaceKeeps
<1>6. CASE TlsDone \/ RequestSent \/ CarrierFails \/ ResponseEnds
  BY <1>6, PlaceKeeps DEF TlsDone, RequestSent, CarrierFails, ResponseEnds, WaitFor, Fail
<1>7. CASE \E n \in 1..BufLen : ReadResponse(n)
  BY <1>7, ReadKeeps
<1>8. CASE \E cap \in ReadCaps, n \in 1..BufLen : PollRead(cap, n)
  BY <1>8, PollKeeps
<1>9. CASE Tick \/ Expire
  BY <1>9, PlaceKeeps DEF Tick, Expire, InProgress, Fail
<1>10. CASE UNCHANGED WtVars
  BY <1>10 DEF WtVars, StreamInv, PayloadIntact, Sent
<1> QED
  BY <1>1, <1>2, <1>3, <1>4, <1>5, <1>6, <1>7, <1>8, <1>9, <1>10 DEF WtNext

(* What the user reads, what PrefixStream keeps and what is on the carrier  *)
(* are together the payload, whatever the response, the buffers and the     *)
(* splitting of the reads (read_upgrade, PrefixStream::poll_read).          *)
THEOREM PayloadArrivesWhole == WtSpec => []PayloadIntact
<1>1. StreamInv => PayloadIntact
  BY DEF StreamInv
<1> QED BY <1>1, StreamInit, StreamInductive, PTL DEF WtSpec
=============================================================================
