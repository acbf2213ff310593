--------------------------- MODULE LoggingProofs ---------------------------
(* For any number of runs, threads, callsites and spans: the filter in      *)
(* force knows every callsite, and a run is refused only for another one.   *)
EXTENDS Logging, FiniteSetTheorems, SequenceTheorems, WellFoundedInduction, TLAPS

-----------------------------------------------------------------------------
(* The callsites *)

(* The run that holds the lock of LOGGING_STATE past OpenLog. *)
Locking(r) == run[r].pc \in {"build", "swap"}

(* What the lock protects.  While a run is between registering the known    *)
(* callsites and the swap, it is the newest filter that knows them all;     *)
(* while a thread registers one, it is the only one that may be missing.    *)
(* There is a filter exactly when our subscriber is the global default.     *)
Pcs == {"idle", "refused", "check", "look", "ours", "none", "foreign", "own", "build", "swap",
        "active", "dropping"}

StateType ==
  [lock : Runs \cup {Nobody}, guards : Nat, mode : Modes \cup {"none"}, subscriber : BOOLEAN]

RunTypes ==
  /\ run \in [Runs -> [pc : Pcs, mode : Modes \cup {"none"}]]
  /\ state \in StateType
  /\ host \in BOOLEAN

LockInv == RunTypes /\ \A r \in Runs : Locking(r) => state.lock = r

CallsiteInv ==
  /\ DOMAIN call = Threads
  /\ callsites \in [known : SUBSET Callsites, lock : Runs \cup Threads \cup {Nobody}]
  /\ registered \in Seq(SUBSET Callsites)
  /\ current \in 0..Len(registered)
  /\ (current = 0) <=> ~state.subscriber
  /\ current = 0 => callsites.known = {}
  /\ EveryCallsiteKnown
  /\ \A r \in Runs : run[r].pc = "swap" =>
       /\ callsites.lock = r /\ state.subscriber
       /\ registered # <<>> /\ callsites.known \subseteq registered[Len(registered)]
  /\ \A t \in Threads : call[t].op = "register" =>
       /\ callsites.lock = t /\ current # 0 /\ call[t].callsite \in Callsites
       /\ callsites.known \subseteq registered[current] \cup {call[t].callsite}

IInv == LockInv /\ CallsiteInv

LEMMA InitEstablishes == LogInit => IInv
<1> SUFFICES ASSUME LogInit PROVE IInv
  OBVIOUS
<1>1. run \in [Runs -> [pc : Pcs, mode : Modes \cup {"none"}]] /\ \A r \in Runs : ~Locking(r)
  BY DEF LogInit, Idle, Pcs, Locking
<1>2. state \in StateType /\ host \in BOOLEAN
  BY DEF LogInit, StateType
<1>3. CallsiteInv
  BY <1>1 DEF LogInit, CallsiteInv, EveryCallsiteKnown, NoCall, Locking
<1> QED BY <1>1, <1>2, <1>3 DEF IInv, LockInv, RunTypes

(* Where a run goes, and what stays of the others. *)
LEMMA GotoOne ==
  ASSUME RunTypes, NEW r \in Runs, NEW pc \in Pcs, Goto(r, pc)
  PROVE  /\ run' \in [Runs -> [pc : Pcs, mode : Modes \cup {"none"}]]
         /\ run'[r].pc = pc /\ run'[r].mode = run[r].mode
         /\ \A q \in Runs \ {r} : run'[q] = run[q]
  BY DEF RunTypes, Goto

(* A step of a run that leaves filters and callsites alone. *)
LEMMA RunAlone ==
  ASSUME IInv, NEW r \in Runs,
         Acquire(r) \/ CheckMode(r) \/ LookForOurs(r) \/ LookForForeign(r) \/ KeepForeign(r)
           \/ OpenLog(r) \/ ReleasePolicy(r) \/ ReleaseState(r)
  PROVE  IInv'
<1> USE LoggingConstants DEF IInv, LockInv, RunTypes, Pcs, Locking, At, Goto, Ends, Unlocked, Idle
<1>1. /\ LockInv'
      /\ state'.subscriber = state.subscriber
      /\ \A q \in Runs : run'[q].pc = "swap" => run[q].pc = "swap"
      /\ UNCHANGED <<call, callsites, current, registered>>
  <2> USE DEF layerVars, filterVars
  <2>1. CASE Acquire(r) BY <2>1 DEF Acquire
  <2>2. CASE CheckMode(r) BY <2>2 DEF CheckMode
  <2>3. CASE LookForOurs(r) BY <2>3 DEF LookForOurs
  <2>4. CASE LookForForeign(r) BY <2>4 DEF LookForForeign
  <2>5. CASE KeepForeign(r)
    <3>1. state' \in StateType /\ state'.lock = Nobody /\ state'.subscriber = state.subscriber
      BY <2>5 DEF KeepForeign, Counted, StateType
    <3> QED BY <2>5, <3>1 DEF KeepForeign
  <2>6. CASE OpenLog(r)
    <3>1. state' \in StateType /\ state'.subscriber = state.subscriber
      BY <2>6 DEF OpenLog, StateType
    <3>2. CASE Goto(r, "build") /\ state' = [state EXCEPT !.lock = r]
      <4>1. state'.lock = r /\ \A q \in Runs : Locking(q)' => q = r
        BY <2>6, <3>2 DEF OpenLog, StateType
      <4> QED BY <2>6, <3>1, <3>2, <4>1 DEF OpenLog
    <3>3. CASE Ends(r) /\ UNCHANGED state
      BY <2>6, <3>3 DEF OpenLog
    <3> QED BY <2>6, <3>2, <3>3 DEF OpenLog
  <2>7. CASE ReleasePolicy(r) BY <2>7 DEF ReleasePolicy
  <2>8. CASE ReleaseState(r)
    <3>1. state' \in StateType /\ state'.lock = Nobody /\ state'.subscriber = state.subscriber
      BY <2>8 DEF ReleaseState, StateType
    <3> QED BY <2>8, <3>1 DEF ReleaseState
  <2> QED BY <2>1, <2>2, <2>3, <2>4, <2>5, <2>6, <2>7, <2>8
<1>2. CallsiteInv'
  BY <1>1 DEF CallsiteInv, EveryCallsiteKnown
<1> QED BY <1>1, <1>2

LEMMA FirstFilter == ASSUME IInv, NEW r \in Runs, InstallFirst(r) PROVE IInv'
<1> USE LoggingConstants DEF IInv, LockInv, RunTypes, Pcs, Locking, At, Goto, InstallFirst, layerVars
<1>1. state' \in StateType /\ state'.lock = Nobody /\ state'.subscriber = ~host
  BY DEF Counted, StateType
<1>2. /\ LockInv'
      /\ \A q \in Runs : run[q].pc # "swap" /\ run'[q].pc # "swap"
  BY <1>1 DEF CallsiteInv
<1>3. CASE host
  BY <1>1, <1>2, <1>3 DEF CallsiteInv, EveryCallsiteKnown, filterVars
<1>4. CASE ~host
  <2>0. registered' = Append(registered, {}) /\ current' = Len(registered')
    BY <1>4
  <2>1. registered' \in Seq(SUBSET Callsites) /\ current' \in 0..Len(registered') /\ current' # 0
    BY <2>0 DEF CallsiteInv
  <2>2. callsites.known = {} /\ \A t \in Threads : call[t].op # "register"
    BY DEF CallsiteInv
  <2> QED BY <1>1, <1>2, <1>4, <2>1, <2>2 DEF CallsiteInv, EveryCallsiteKnown
<1> QED BY <1>3, <1>4

LEMMA NextFilter == ASSUME IInv, NEW r \in Runs, RegisterKnown(r) PROVE IInv'
<1>1. RunTypes /\ UNCHANGED <<state, host, current, call>> /\ state.subscriber
      /\ callsites.lock = Nobody /\ callsites' = [callsites EXCEPT !.lock = r]
      /\ registered' = Append(registered, callsites.known) /\ state.lock = r
  BY DEF IInv, LockInv, Locking, RegisterKnown, At, layerVars
<1>2. /\ run' \in [Runs -> [pc : Pcs, mode : Modes \cup {"none"}]]
      /\ run'[r].pc = "swap" /\ \A q \in Runs \ {r} : run'[q] = run[q]
  BY <1>1, GotoOne DEF RegisterKnown, Pcs
<1>3. LockInv'
  BY <1>1, <1>2 DEF IInv, LockInv, RunTypes, Locking
<1>4. /\ \A q \in Runs : run[q].pc # "swap"
      /\ \A t \in Threads : call[t].op # "register"
  BY <1>1, LoggingConstants DEF IInv, CallsiteInv
<1>5. /\ registered' \in Seq(SUBSET Callsites) /\ Len(registered') = Len(registered) + 1
      /\ registered'[Len(registered')] = callsites.known /\ registered' # <<>>
  BY <1>1 DEF IInv, CallsiteInv
<1>6. callsites' \in [known : SUBSET Callsites, lock : Runs \cup Threads \cup {Nobody}]
      /\ callsites'.known = callsites.known /\ callsites'.lock = r
  BY <1>1 DEF IInv, CallsiteInv
<1>7. current' \in 0..Len(registered') /\ current' # 0
  BY <1>1, <1>5 DEF IInv, CallsiteInv
<1>8. EveryCallsiteKnown'
  BY <1>6, LoggingConstants DEF EveryCallsiteKnown
<1>9. \A q \in Runs : run'[q].pc = "swap" => q = r
  BY <1>2, <1>4
<1> QED BY <1>1, <1>3, <1>4, <1>5, <1>6, <1>7, <1>8, <1>9 DEF IInv, CallsiteInv

LEMMA SwapFilter == ASSUME IInv, NEW r \in Runs, Swap(r) PROVE IInv'
<1> USE LoggingConstants DEF IInv, LockInv, RunTypes, Pcs, Locking, At, Goto, Swap, layerVars
<1>0. state' \in StateType /\ state'.lock = Nobody /\ state'.subscriber = state.subscriber
  BY DEF Counted, StateType
<1>1. LockInv' /\ \A q \in Runs \ {r} : run'[q].pc = "swap" => run[q].pc = "swap"
  BY <1>0
<1>2. /\ \A q \in Runs \ {r} : run[q].pc # "swap"
      /\ run'[r].pc # "swap"
      /\ \A t \in Threads : call[t].op # "register"
  BY DEF CallsiteInv
<1>3. /\ callsites' \in [known : SUBSET Callsites, lock : Runs \cup Threads \cup {Nobody}]
      /\ callsites'.known = callsites.known
  BY DEF CallsiteInv
<1> QED BY <1>0, <1>1, <1>2, <1>3 DEF CallsiteInv, EveryCallsiteKnown

LEMMA HostFirst == ASSUME IInv, HostInstalls PROVE IInv'
  BY DEF IInv, LockInv, RunTypes, Locking, HostInstalls, CallsiteInv, EveryCallsiteKnown,
         layerVars, filterVars

(* A step of a thread. *)
ThreadStep(t) ==
  \/ \E c \in Callsites : NoteCallsite(t, c)
  \/ RegisterCallsite(t) \/ Begin(t) \/ Enabled(t) \/ OnNewSpan(t)
  \/ OnEnter(t) \/ OnExit(t) \/ OnClose(t)

LEMMA ThreadLeavesRuns ==
  ASSUME NEW t \in Threads, ThreadStep(t)
  PROVE  UNCHANGED <<run, starts, safelog, state, host, current>>
  BY DEF ThreadStep, NoteCallsite, RegisterCallsite, Begin, Fetch, Enabled, OnNewSpan, OnEnter,
         OnExit, OnClose, Return, runVars, filterVars

LEMMA ThreadInLayer == ASSUME IInv, NEW t \in Threads, ThreadStep(t) PROVE IInv'
<1> USE LoggingConstants, ThreadLeavesRuns DEF IInv
<1>1. LockInv'
  BY DEF LockInv, RunTypes, Locking
<1>2. ASSUME NEW c \in Callsites, NoteCallsite(t, c) PROVE CallsiteInv'
  BY <1>2 DEF NoteCallsite, CallsiteInv, EveryCallsiteKnown, filterVars, NoCall
<1>3. ASSUME RegisterCallsite(t) PROVE CallsiteInv'
  BY <1>3 DEF RegisterCallsite, CallsiteInv, EveryCallsiteKnown, NoCall
<1>4. ASSUME UNCHANGED <<registered, callsites>>, DOMAIN call' = Threads,
             \A u \in Threads : call'[u].op = "register" => call'[u] = call[u]
      PROVE  CallsiteInv'
  BY <1>4 DEF CallsiteInv, EveryCallsiteKnown
<1>5. ASSUME Begin(t) PROVE CallsiteInv'
  <2>1. \E op \in {"new", "enter", "exit", "close", "enabled"} : \E s : Fetch(t, op, s)
    BY <1>5 DEF Begin
  <2> QED BY <1>4, <2>1 DEF Fetch, filterVars, CallsiteInv
<1>6. ASSUME NEW f, Return(t, f) PROVE CallsiteInv'
  BY <1>4, <1>6 DEF Return, NoCall, CallsiteInv
<1> QED BY <1>1, <1>2, <1>3, <1>5, <1>6 DEF ThreadStep, Enabled, OnNewSpan, OnEnter, OnExit, OnClose

LEMMA Inductive == IInv /\ [LogNext]_vars => IInv'
<1> SUFFICES ASSUME IInv, [LogNext]_vars PROVE IInv'
  OBVIOUS
<1>1. CASE UNCHANGED vars
  BY <1>1 DEF vars, runVars, layerVars, filterVars, IInv, LockInv, RunTypes, Locking, CallsiteInv,
              EveryCallsiteKnown
<1>2. CASE LogNext
  BY <1>2, RunAlone, FirstFilter, NextFilter, SwapFilter, HostFirst, ThreadInLayer
     DEF LogNext, ThreadStep
<1> QED BY <1>1, <1>2

(* Whenever nobody is inside the callsites lock, the filter in force knows  *)
(* every callsite met so far, however runs that install filters and threads *)
(* that meet callsites interleave (init_logging_recvr, register_callsite).  *)
THEOREM CallsitesKnown == LogSpec => []EveryCallsiteKnown
<1>1. IInv => EveryCallsiteKnown
  BY DEF IInv, CallsiteInv
<1> QED BY InitEstablishes, Inductive, <1>1, PTL DEF LogSpec

-----------------------------------------------------------------------------
(* The logging mode *)

Counting(r) == run[r].pc \in {"active", "dropping"}
Holding(r) == run[r].pc \notin {"idle", "refused", "dropping"}
CountedRuns == {r \in Runs : Counting(r)}

(* The guards that are held agree in their mode, and with LOGGING_STATE,    *)
(* which counts the runs that are logging or still dropping their guard:    *)
(* a run that has passed the check of the mode cannot be overtaken by one   *)
(* of the other mode, since both would hold a safelog guard.                *)
PolicyInv ==
  /\ RunTypes
  /\ safelog = {r \in Runs : Holding(r)}
  /\ \A q, r \in safelog : run[q].mode = run[r].mode
  /\ state.guards = Cardinality(CountedRuns)
  /\ \A q \in CountedRuns : run[q].mode = state.mode
  /\ \A q \in CountedRuns, r \in safelog : run[r].pc # "check" => run[r].mode = state.mode

LEMMA PolicyInit == LogInit => PolicyInv
<1> SUFFICES ASSUME LogInit PROVE PolicyInv
  OBVIOUS
<1>1. RunTypes
  BY InitEstablishes DEF IInv, LockInv
<1>2. CountedRuns = {} /\ safelog = {} /\ \A r \in Runs : ~Holding(r)
  BY DEF LogInit, CountedRuns, Counting, Holding, Idle
<1> QED BY <1>1, <1>2, FS_EmptySet DEF PolicyInv, LogInit

LEMMA CountedFinite == IsFiniteSet(CountedRuns) /\ Cardinality(CountedRuns) \in Nat
  BY LoggingConstants, FS_Subset, FS_CardinalityType DEF CountedRuns

(* A run goes on inside init_logging_recvr, past the check of the mode. *)
LEMMA GoesOn ==
  ASSUME PolicyInv, RunTypes', NEW r \in safelog, ~Counting(r), NEW pc \in Pcs, Goto(r, pc),
         pc \notin {"idle", "refused", "check", "active", "dropping"},
         UNCHANGED safelog, state'.guards = state.guards, state'.mode = state.mode,
         state.guards = 0 \/ state.mode = run[r].mode \/ run[r].pc # "check"
  PROVE  PolicyInv'
<1>1. r \in Runs /\ RunTypes
  BY DEF PolicyInv
<1>2. /\ run'[r].pc = pc /\ run'[r].mode = run[r].mode
      /\ \A q \in Runs \ {r} : run'[q] = run[q]
  BY <1>1, GotoOne
<1>3. CountedRuns' = CountedRuns /\ {q \in Runs : Holding(q)}' = {q \in Runs : Holding(q)}
  BY <1>1, <1>2 DEF CountedRuns, Counting, Holding, PolicyInv
<1>4. CountedRuns # {} => state.guards # 0
  BY CountedFinite, FS_EmptySet DEF PolicyInv
<1>5. \A q \in Runs : run'[q].mode = run[q].mode
  BY <1>1, <1>2
<1>6. \A q \in CountedRuns, s \in safelog : run'[s].pc # "check" => run'[s].mode = state.mode
  BY <1>2, <1>4, <1>5 DEF PolicyInv
<1>7. \A q, s \in safelog : run'[q].mode = run'[s].mode
  BY <1>5 DEF PolicyInv
<1>8. \A q \in CountedRuns : run'[q].mode = state.mode
  BY <1>5 DEF PolicyInv, CountedRuns
<1> QED BY <1>3, <1>6, <1>7, <1>8 DEF PolicyInv

(* A run is counted: its mode is that of the others that are. *)
LEMMA IsCounted ==
  ASSUME PolicyInv, RunTypes', NEW r \in safelog, ~Counting(r), run[r].pc # "check",
         Goto(r, "active"), UNCHANGED safelog,
         state'.guards = state.guards + 1, state'.mode = run[r].mode
  PROVE  PolicyInv'
<1>1. r \in Runs /\ RunTypes /\ r \notin CountedRuns
  BY DEF PolicyInv, CountedRuns
<1>2. /\ run'[r].pc = "active" /\ run'[r].mode = run[r].mode
      /\ \A q \in Runs \ {r} : run'[q] = run[q]
  BY <1>1, GotoOne DEF Pcs
<1>3. /\ CountedRuns' = CountedRuns \cup {r}
      /\ {q \in Runs : Holding(q)}' = {q \in Runs : Holding(q)}
  <2>1. \A q \in Runs : Counting(q)' <=> Counting(q) \/ q = r
    BY <1>2 DEF Counting
  <2>2. \A q \in Runs : Holding(q)' <=> Holding(q)
    BY <1>2 DEF Holding, PolicyInv
  <2> QED BY <1>1, <2>1, <2>2 DEF CountedRuns
<1>4. state'.guards = Cardinality(CountedRuns')
  <2>1. Cardinality(CountedRuns \cup {r}) = Cardinality(CountedRuns) + 1
    BY <1>1, CountedFinite, FS_AddElement
  <2> QED BY <1>3, <2>1 DEF PolicyInv
<1>5. \A q \in Runs : run'[q].mode = run[q].mode
  BY <1>1, <1>2
<1>6. \A q \in safelog : run'[q].mode = state'.mode
  BY <1>5 DEF PolicyInv
<1>7. \A q \in CountedRuns' : run'[q].mode = state'.mode
  <2>1. \A q \in CountedRuns : run[q].mode = run[r].mode
    BY DEF PolicyInv
  <2> QED BY <1>2, <1>3, <1>5, <2>1 DEF CountedRuns
<1> QED BY <1>3, <1>4, <1>6, <1>7 DEF PolicyInv

(* A run that was not counted gives its safelog guard back. *)
LEMMA GivesUp ==
  ASSUME PolicyInv, RunTypes', NEW r \in safelog, ~Counting(r),
         run'[r].pc \in {"idle", "refused"}, \A q \in Runs \ {r} : run'[q] = run[q],
         safelog' = safelog \ {r}, UNCHANGED state
  PROVE  PolicyInv'
<1>1. r \in Runs /\ r \notin CountedRuns
  BY DEF PolicyInv, CountedRuns
<1>2. CountedRuns' = CountedRuns /\ {q \in Runs : Holding(q)}' = {q \in Runs : Holding(q)} \ {r}
  BY <1>1 DEF CountedRuns, Counting, Holding
<1>3. \A q \in safelog' \cup CountedRuns : run'[q] = run[q]
  BY <1>1 DEF PolicyInv, CountedRuns
<1> QED BY <1>2, <1>3 DEF PolicyInv

LEMMA PolicyReleased == ASSUME PolicyInv, NEW r \in Runs, ReleasePolicy(r) PROVE PolicyInv'
<1>1. RunTypes' /\ RunTypes /\ UNCHANGED state /\ safelog' = safelog \ {r} /\ run[r].pc = "active"
  BY GotoOne DEF ReleasePolicy, RunTypes, PolicyInv, Pcs, At
<1>2. /\ run'[r].pc = "dropping" /\ run'[r].mode = run[r].mode
      /\ \A q \in Runs \ {r} : run'[q] = run[q]
  BY <1>1, GotoOne DEF ReleasePolicy, Pcs
<1>3. CountedRuns' = CountedRuns /\ {q \in Runs : Holding(q)}' = {q \in Runs : Holding(q)} \ {r}
  BY <1>1, <1>2 DEF CountedRuns, Counting, Holding
<1>4. /\ \A q \in safelog' : run'[q] = run[q]
      /\ \A q \in CountedRuns : run'[q].mode = run[q].mode
  BY <1>1, <1>2 DEF PolicyInv, CountedRuns
<1> QED BY <1>1, <1>3, <1>4 DEF PolicyInv

LEMMA StateReleased == ASSUME PolicyInv, NEW r \in Runs, ReleaseState(r) PROVE PolicyInv'
<1>1. RunTypes /\ run[r].pc = "dropping" /\ r \in CountedRuns /\ UNCHANGED <<safelog, host>>
  BY DEF ReleaseState, PolicyInv, At, CountedRuns, Counting
<1>2. /\ run' \in [Runs -> [pc : Pcs, mode : Modes \cup {"none"}]]
      /\ run'[r].pc = "idle" /\ \A q \in Runs \ {r} : run'[q] = run[q]
  BY <1>1 DEF ReleaseState, Ends, Idle, RunTypes, Pcs
<1>3. CountedRuns' = CountedRuns \ {r} /\ {q \in Runs : Holding(q)}' = {q \in Runs : Holding(q)}
  BY <1>1, <1>2 DEF CountedRuns, Counting, Holding
<1>4. Cardinality(CountedRuns') = Cardinality(CountedRuns) - 1 /\ Cardinality(CountedRuns) # 0
  BY <1>1, <1>3, CountedFinite, FS_RemoveElement, FS_EmptySet
<1>5. /\ state' \in StateType /\ state'.guards = Cardinality(CountedRuns')
      /\ state'.guards # 0 => state'.mode = state.mode
  BY <1>1, <1>4, CountedFinite DEF ReleaseState, PolicyInv, RunTypes, StateType
<1>6. CountedRuns' # {} => state'.guards # 0
  BY <1>3, <1>5, CountedFinite, FS_EmptySet, FS_RemoveElement
<1>7. \A q \in safelog' \cup CountedRuns' : run'[q] = run[q] /\ q \in safelog \cup CountedRuns
  BY <1>1, <1>2, <1>3 DEF PolicyInv, CountedRuns, Counting, Holding
<1>8. RunTypes'
  BY <1>1, <1>2, <1>5 DEF RunTypes
<1> QED BY <1>1, <1>3, <1>5, <1>6, <1>7, <1>8 DEF PolicyInv

LEMMA PolicyAcquired == ASSUME PolicyInv, NEW r \in Runs, Acquire(r) PROVE PolicyInv'
<1>1. RunTypes /\ UNCHANGED <<state, host>> /\ run[r].pc \in {"idle", "refused"}
  BY DEF Acquire, PolicyInv
<1>2. r \notin CountedRuns /\ r \notin safelog
  BY <1>1 DEF PolicyInv, CountedRuns, Counting, Holding
<1>3. PICK m \in Modes :
        \/ /\ run' = [run EXCEPT ![r] = [pc |-> "check", mode |-> m]]
           /\ \A q \in safelog : run[q].mode = m
           /\ safelog' = safelog \cup {r}
        \/ run' = [run EXCEPT ![r] = [pc |-> "refused", mode |-> m]] /\ safelog' = safelog
  BY DEF Acquire
<1>4. /\ run' \in [Runs -> [pc : Pcs, mode : Modes \cup {"none"}]]
      /\ \A q \in Runs \ {r} : run'[q] = run[q]
      /\ run'[r].mode = m /\ run'[r].pc = IF r \in safelog' THEN "check" ELSE "refused"
  BY <1>1, <1>2, <1>3 DEF RunTypes, Pcs
<1>5. CountedRuns' = CountedRuns /\ {q \in Runs : Holding(q)}' = safelog'
  BY <1>1, <1>2, <1>3, <1>4 DEF CountedRuns, Counting, Holding, PolicyInv
<1>6. \A q \in CountedRuns \cup safelog : run'[q] = run[q]
  BY <1>2, <1>4 DEF PolicyInv, CountedRuns
<1>7. \A q, s \in safelog' : run'[q].mode = run'[s].mode
  BY <1>2, <1>3, <1>4, <1>6 DEF PolicyInv
<1>8. \A q \in CountedRuns, s \in safelog' : run'[s].pc # "check" => run'[s].mode = state.mode
  BY <1>3, <1>4, <1>6 DEF PolicyInv
<1> QED BY <1>1, <1>4, <1>5, <1>6, <1>7, <1>8 DEF PolicyInv, RunTypes

LEMMA PolicyStep == ASSUME PolicyInv, IInv', [LogNext]_vars PROVE PolicyInv'
<1>0. RunTypes /\ RunTypes'
  BY DEF PolicyInv, IInv, LockInv
<1>1. ASSUME UNCHANGED <<run, safelog, state>> PROVE PolicyInv'
  BY <1>0, <1>1 DEF PolicyInv, CountedRuns, Counting, Holding
<1>2. ASSUME NEW r \in Runs, CheckMode(r) PROVE PolicyInv'
  <2>1. r \in safelog /\ ~Counting(r) /\ UNCHANGED state
    BY <1>2 DEF CheckMode, At, PolicyInv, Holding, Counting
  <2>2. CASE state.guards > 0 /\ state.mode # run[r].mode
    BY <1>0, <1>2, <2>1, <2>2, GivesUp, GotoOne DEF CheckMode, Pcs
  <2>3. CASE ~(state.guards > 0 /\ state.mode # run[r].mode)
    <3>1. Goto(r, "look") /\ UNCHANGED safelog
      BY <1>2, <2>3 DEF CheckMode
    <3>2. state.guards = 0 \/ state.mode = run[r].mode
      BY <1>0, <2>3 DEF RunTypes, StateType
    <3> QED BY <1>0, <2>1, <3>1, <3>2, GoesOn DEF Pcs
  <2> QED BY <2>2, <2>3
<1>3. ASSUME NEW r \in Runs, LookForOurs(r) \/ LookForForeign(r) \/ RegisterKnown(r)
      PROVE  PolicyInv'
  <2>1. r \in safelog /\ ~Counting(r) /\ run[r].pc # "check" /\ UNCHANGED <<state, safelog>>
    BY <1>3 DEF LookForOurs, LookForForeign, RegisterKnown, At, PolicyInv, Holding, Counting
  <2>2. \E pc \in {"ours", "none", "foreign", "own", "swap"} : Goto(r, pc)
    BY <1>3 DEF LookForOurs, LookForForeign, RegisterKnown
  <2> QED BY <1>0, <2>1, <2>2, GoesOn DEF Pcs
<1>4. ASSUME NEW r \in Runs, KeepForeign(r) \/ InstallFirst(r) \/ Swap(r) PROVE PolicyInv'
  <2>1. r \in safelog /\ ~Counting(r) /\ run[r].pc # "check" /\ UNCHANGED safelog
    BY <1>4 DEF KeepForeign, InstallFirst, Swap, At, PolicyInv, Holding, Counting
  <2>2. Goto(r, "active") /\ state'.guards = state.guards + 1 /\ state'.mode = run[r].mode
    BY <1>4 DEF KeepForeign, InstallFirst, Swap, Counted
  <2> QED BY <1>0, <2>1, <2>2, IsCounted
<1>5. ASSUME NEW r \in Runs, OpenLog(r) PROVE PolicyInv'
  <2>1. r \in safelog /\ ~Counting(r) /\ run[r].pc # "check"
    BY <1>5 DEF OpenLog, At, PolicyInv, Holding, Counting
  <2>2. CASE Goto(r, "build") /\ state' = [state EXCEPT !.lock = r] /\ UNCHANGED safelog
    <3>1. state'.guards = state.guards /\ state'.mode = state.mode
      BY <1>0, <2>2 DEF RunTypes, StateType
    <3> QED BY <1>0, <2>1, <2>2, <3>1, GoesOn DEF Pcs
  <2>3. CASE Ends(r) /\ safelog' = safelog \ {r} /\ UNCHANGED state
    BY <1>0, <2>1, <2>3, GivesUp DEF Ends, Idle, RunTypes
  <2> QED BY <1>5, <2>2, <2>3 DEF OpenLog
<1>6. ASSUME HostInstalls \/ UNCHANGED vars \/ \E t \in Threads : ThreadStep(t) PROVE PolicyInv'
  BY <1>1, <1>6, ThreadLeavesRuns DEF HostInstalls, vars, runVars
<1> QED BY <1>2, <1>3, <1>4, <1>5, <1>6, PolicyAcquired, PolicyReleased, StateReleased
       DEF LogNext, ThreadStep

(* The run that a refusal is owed to. *)
LEMMA Refusal ==
  ASSUME PolicyInv, [LogNext]_vars, NEW r \in Runs, run'[r].pc = "refused", run[r].pc # "refused"
  PROVE  \E q \in Runs \ {r} : /\ run[q].mode # run'[r].mode
                                /\ run[q].pc \notin {"idle", "refused"}
<1>0. RunTypes
  BY DEF PolicyInv
<1>1. CASE Acquire(r)
  <2>1. run[r].pc = "idle" /\ r \notin safelog
    BY <1>1 DEF Acquire, PolicyInv, Holding
  <2>2. PICK m \in Modes : run' = [run EXCEPT ![r] = [pc |-> "refused", mode |-> m]]
                           /\ \E q \in safelog : run[q].mode # m
    BY <1>0, <1>1 DEF Acquire, RunTypes
  <2>3. run'[r].mode = m
    BY <1>0, <2>2 DEF RunTypes
  <2> QED BY <2>1, <2>2, <2>3 DEF PolicyInv, Holding
<1>2. CASE CheckMode(r)
  <2>1. run[r].pc = "check" /\ state.guards > 0 /\ state.mode # run[r].mode
    BY <1>0, <1>2, GotoOne DEF CheckMode, At, Pcs
  <2>2. PICK q \in CountedRuns : TRUE
    BY <2>1, FS_EmptySet DEF PolicyInv
  <2>3. run'[r].mode = run[r].mode
    BY <1>0, <1>2, GotoOne DEF CheckMode, Pcs
  <2> QED BY <2>1, <2>2, <2>3 DEF PolicyInv, CountedRuns, Counting
<1>3. ASSUME ~Acquire(r), ~CheckMode(r) PROVE FALSE
  <2>2. ASSUME UNCHANGED run PROVE FALSE
    BY <2>2
  <2>3. ASSUME NEW pc, Goto(r, pc), pc # "refused" PROVE FALSE
    BY <1>0, <2>3 DEF RunTypes, Goto
  <2>4. ~Ends(r)
    BY <1>0 DEF RunTypes, Ends, Idle
  <2>5. ASSUME NEW s \in Runs \ {r}, NEW pc, Goto(s, pc) \/ Ends(s) PROVE FALSE
    BY <1>0, <2>5 DEF RunTypes, Goto, Ends
  <2>6. ASSUME NEW s \in Runs \ {r}, Acquire(s) PROVE FALSE
    BY <1>0, <2>6 DEF RunTypes, Acquire
  <2>7. ASSUME NEW s \in Runs,
               \/ LookForOurs(s) \/ LookForForeign(s) \/ KeepForeign(s) \/ OpenLog(s)
               \/ InstallFirst(s) \/ RegisterKnown(s) \/ Swap(s) \/ ReleasePolicy(s)
               \/ ReleaseState(s)
        PROVE  FALSE
    <3>1. Ends(s) \/ \E pc : Goto(s, pc) /\ pc # "refused"
      BY <2>7 DEF LookForOurs, LookForForeign, KeepForeign, OpenLog, InstallFirst, RegisterKnown,
                  Swap, ReleasePolicy, ReleaseState
    <3> QED BY <2>3, <2>4, <2>5, <3>1
  <2>8. ASSUME NEW s \in Runs \ {r}, CheckMode(s) PROVE FALSE
    BY <2>5, <2>8 DEF CheckMode
  <2>9. ASSUME HostInstalls \/ UNCHANGED vars \/ \E t \in Threads : ThreadStep(t) PROVE FALSE
    BY <2>2, <2>9, ThreadLeavesRuns DEF HostInstalls, vars, runVars
  <2> QED BY <1>3, <2>6, <2>7, <2>8, <2>9 DEF LogNext, ThreadStep
<1> QED BY <1>1, <1>2, <1>3

(* A run is turned away for its logging mode only because of a run of the   *)
(* other mode that has not ended, with any number of runs starting, failing *)
(* to open their log and dropping their guards (init_logging_recvr,         *)
(* LoggingGuard::drop).                                                     *)
THEOREM RefusalsHaveACause == LogSpec => RefusedForCause
<1>1. PolicyInv /\ IInv' /\ [LogNext]_vars => PolicyInv'
  BY PolicyStep
<1>2. PolicyInv /\ [LogNext]_vars =>
        [\A r \in Runs : (run'[r].pc = "refused" /\ run[r].pc # "refused") =>
           \E q \in Runs \ {r} : /\ run[q].mode # run'[r].mode
                                 /\ run[q].pc \notin {"idle", "refused"}]_vars
  BY Refusal
<1> QED BY InitEstablishes, Inductive, PolicyInit, <1>1, <1>2, PTL DEF LogSpec, RefusedForCause
-----------------------------------------------------------------------------
(* The levels of entered spans *)

FilterType == [cares : SUBSET Callsites, byId : SUBSET Spans, scope : [Threads -> Nat]]

(* The calls of ManagedLayer that work on a filter, and those about a span. *)
LayerOps == {"new", "enter", "exit", "close", "enabled"}

(* The positions of the spans that directives match. *)
Hits(spans, cares) == {i \in DOMAIN spans : CallsiteOf[spans[i]] \in cares}

LayerTypes ==
  /\ filters \in Seq(FilterType) /\ Len(filters) = Len(registered)
  /\ span \in [Spans -> {"unborn", "open", "closing", "closed"}]
  /\ active \in [Threads -> Seq(Spans)]
  /\ bound \in [Threads -> Nat]
  /\ \A t \in Threads : /\ bound[t] <= current
                        /\ call[t].op \in {"none", "register"} \cup LayerOps
                        /\ call[t].op \in {"new", "enter", "exit", "close"} => call[t].span \in Spans

(* A filter is newer than the one in force only while a run is about to     *)
(* swap it in.  Either way it has been told of every callsite that is ready *)
(* for its spans, and only those of ready callsites exist.                  *)
ReadyInv ==
  /\ (\A r \in Runs : run[r].pc # "swap") => Len(registered) = current
  /\ current # 0 => \A c \in Callsites : Ready(c) => \A n \in current..Len(registered) : c \in registered[n]
  /\ \A s \in Spans : span[s] # "unborn" => Ready(CallsiteOf[s])

(* What the call of a thread may rely on when it comes to its filter: the   *)
(* thread was never bound to a newer one, the spans it is in, or about to   *)
(* enter, are of callsites registered there, and are open; one that is      *)
(* being closed is not.                                                     *)
CallInv(t) ==
  /\ call[t].op \in LayerOps =>
       /\ call[t].filter \in 1..current /\ bound[t] <= call[t].filter
       /\ \A s \in Range(active[t]) : CallsiteOf[s] \in registered[call[t].filter]
  /\ call[t].op = "enter" => /\ span[call[t].span] = "open"
                             /\ CallsiteOf[call[t].span] \in registered[call[t].filter]
  /\ call[t].op = "exit" => call[t].span \in Range(active[t])
  /\ call[t].op = "close" => span[call[t].span] \in {"closing", "closed"}
  /\ \A s \in Range(active[t]) : span[s] = "open"

(* A filter knows only spans it matches.  It has no level for a thread that *)
(* was not bound to it yet; for one that is, a level for each of the spans  *)
(* it matches and the thread is in, all of which it knows.                  *)
Levels(n, t) ==
  /\ bound[t] < n => filters[n].scope[t] = 0
  /\ bound[t] = n =>
       /\ filters[n].scope[t] = Cardinality(Hits(active[t], filters[n].cares))
       /\ \A s \in Range(active[t]) : CallsiteOf[s] \in filters[n].cares => s \in filters[n].byId

LevelInv ==
  \A n \in DOMAIN filters : /\ \A s \in filters[n].byId : CallsiteOf[s] \in filters[n].cares
                            /\ \A t \in Threads : Levels(n, t)

ScopeInv == LayerTypes /\ ReadyInv /\ (\A t \in Threads : CallInv(t)) /\ LevelInv

LEMMA SpansOf ==
  ASSUME NEW q \in Seq(Spans)
  PROVE  (\A s \in Range(q) : s \in Spans) /\ (\A i \in DOMAIN q : q[i] \in Range(q))
<1>1. DOMAIN q = 1..Len(q) /\ \A i \in 1..Len(q) : q[i] \in Spans
  OBVIOUS
<1> QED BY <1>1, Zenon DEF Range

(* How many of a sequence's spans directives match, and how that changes    *)
(* when a span is entered or the last entry of one is removed.              *)
LEMMA HitsCount ==
  ASSUME NEW q \in Seq(Spans), NEW cares
  PROVE  IsFiniteSet(Hits(q, cares)) /\ Cardinality(Hits(q, cares)) \in Nat
<1>1. Len(q) \in Nat /\ DOMAIN q = 1..Len(q)
  OBVIOUS
<1>2. IsFiniteSet(1..Len(q))
  BY <1>1, FS_Interval
<1>3. Hits(q, cares) \in SUBSET (1..Len(q))
  BY <1>1 DEF Hits
<1> QED BY <1>2, <1>3, FS_Subset, FS_CardinalityType

LEMMA HitsAppend ==
  ASSUME NEW q \in Seq(Spans), NEW s \in Spans, NEW cares
  PROVE  /\ Append(q, s) \in Seq(Spans)
         /\ Range(Append(q, s)) = Range(q) \cup {s}
         /\ Cardinality(Hits(Append(q, s), cares))
              = Cardinality(Hits(q, cares)) + IF CallsiteOf[s] \in cares THEN 1 ELSE 0
<1>1. /\ Len(q) \in Nat /\ DOMAIN q = 1..Len(q)
      /\ Append(q, s) \in Seq(Spans) /\ DOMAIN Append(q, s) = 1..Len(q) + 1
      /\ Append(q, s)[Len(q) + 1] = s
      /\ \A i \in 1..Len(q) : Append(q, s)[i] = q[i]
  OBVIOUS
<1>2. Range(Append(q, s)) = Range(q) \cup {s}
  <2>1. \A i \in 1..Len(q) + 1 : i \in 1..Len(q) \/ i = Len(q) + 1
    BY <1>1
  <2>2. 1..Len(q) \subseteq 1..Len(q) + 1 /\ Len(q) + 1 \in 1..Len(q) + 1
    BY <1>1
  <2> HIDE <1>1
  <2> QED BY <1>1, <2>1, <2>2, Zenon DEF Range
<1>3. Len(q) + 1 \notin Hits(q, cares)
  BY <1>1 DEF Hits
<1>4. Hits(Append(q, s), cares)
        = Hits(q, cares) \cup (IF CallsiteOf[s] \in cares THEN {Len(q) + 1} ELSE {})
  BY <1>1 DEF Hits
<1>5. CASE CallsiteOf[s] \in cares
  BY <1>1, <1>2, <1>3, <1>4, <1>5, HitsCount, FS_AddElement
<1>6. CASE CallsiteOf[s] \notin cares
  BY <1>1, <1>2, <1>4, <1>6, HitsCount
<1> QED BY <1>5, <1>6

LEMMA LastEntry ==
  ASSUME NEW q \in Seq(Spans), NEW s \in Range(q)
  PROVE  \E i \in DOMAIN q : q[i] = s /\ \A j \in i + 1..Len(q) : q[j] # s
<1>1. Len(q) \in Nat /\ DOMAIN q = 1..Len(q)
  OBVIOUS
<1> DEFINE T == {k \in Nat : k < Len(q) /\ q[Len(q) - k] = s}
<1>2. PICK i0 \in DOMAIN q : q[i0] = s
  BY DEF Range
<1>3. Len(q) - i0 \in Nat /\ Len(q) - i0 < Len(q) /\ Len(q) - (Len(q) - i0) = i0
  BY <1>1
<1>4. Len(q) - i0 \in T
  BY <1>2, <1>3
<1>5. PICK m \in T : \A k \in T : ~(<<k, m>> \in OpToRel(<, Nat))
  <2>1. T \subseteq Nat /\ T # {}
    BY <1>4
  <2> HIDE DEF T
  <2> QED BY <2>1, NatLessThanWellFounded, WFMin
<1>6. \A k \in T : ~(k < m)
  <2>1. T \subseteq Nat
    OBVIOUS
  <2> HIDE DEF T
  <2> QED BY <1>5, <2>1 DEF OpToRel
<1>7. Len(q) - m \in DOMAIN q /\ q[Len(q) - m] = s
  BY <1>1
<1>8. ASSUME NEW j \in (Len(q) - m) + 1..Len(q), q[j] = s PROVE FALSE
  <2>1. Len(q) - j \in Nat /\ Len(q) - j < m /\ Len(q) - j < Len(q) /\ Len(q) - (Len(q) - j) = j
    BY <1>1
  <2> QED BY <1>6, <1>8, <2>1
<1> QED BY <1>7, <1>8

(* The sequence without its element at a position. *)
CutOut(q, at) == SubSeq(q, 1, at - 1) \o SubSeq(q, at + 1, Len(q))

LEMMA ElementRemoved ==
  ASSUME NEW q \in Seq(Spans), NEW at \in DOMAIN q
  PROVE  /\ CutOut(q, at) \in Seq(Spans) /\ Len(CutOut(q, at)) = Len(q) - 1
         /\ \A i \in 1..Len(q) - 1 : CutOut(q, at)[i] = IF i < at THEN q[i] ELSE q[i + 1]
<1>1. Len(q) \in Nat /\ at \in 1..Len(q)
  OBVIOUS
<1> DEFINE a == SubSeq(q, 1, at - 1)
           b == SubSeq(q, at + 1, Len(q))
<1>2. a \in Seq(Spans) /\ Len(a) = at - 1 /\ \A i \in 1..at - 1 : a[i] = q[i]
  BY <1>1, SubSeqProperties
<1>3. b \in Seq(Spans) /\ Len(b) = Len(q) - at /\ \A i \in 1..Len(q) - at : b[i] = q[i + at]
  BY <1>1, SubSeqProperties
<1> DEFINE c == a \o b
<1>4. /\ c \in Seq(Spans) /\ Len(c) = Len(a) + Len(b)
      /\ \A i \in 1..Len(a) + Len(b) : c[i] = IF i <= Len(a) THEN a[i] ELSE b[i - Len(a)]
  BY <1>2, <1>3, ConcatProperties
<1>5. CutOut(q, at) = c
  BY DEF CutOut
<1> HIDE DEF a, b, c
<1>6. /\ c \in Seq(Spans) /\ Len(c) = Len(q) - 1
      /\ \A i \in 1..Len(q) - 1 : c[i] = IF i <= at - 1 THEN a[i] ELSE b[i - (at - 1)]
  <2>1. Len(a) + Len(b) = Len(q) - 1
    BY <1>1, <1>2, <1>3
  <2> QED BY <1>2, <1>4, <2>1
<1>7. ASSUME NEW i \in 1..Len(q) - 1 PROVE c[i] = IF i < at THEN q[i] ELSE q[i + 1]
  <2>1. CASE i < at
    <3>1. i <= at - 1 /\ i \in 1..at - 1
      BY <1>1, <2>1
    <3> QED BY <1>2, <1>6, <2>1, <3>1
  <2>2. CASE ~(i < at)
    <3>1. ~(i <= at - 1) /\ i - (at - 1) \in 1..Len(q) - at /\ (i - (at - 1)) + at = i + 1
      BY <1>1, <2>2
    <3> QED BY <1>3, <1>6, <2>2, <3>1
  <2> QED BY <2>1, <2>2
<1> QED BY <1>5, <1>6, <1>7

LEMMA EntryRemoved ==
  ASSUME NEW q \in Seq(Spans), NEW s \in Range(q)
  PROVE  \E at \in DOMAIN q : q[at] = s /\ Without(q, s) = CutOut(q, at)
  BY LastEntry DEF Without, CutOut

LEMMA HitsWithout ==
  ASSUME NEW q \in Seq(Spans), NEW s \in Range(q), NEW cares
  PROVE  /\ Without(q, s) \in Seq(Spans) /\ Range(Without(q, s)) \subseteq Range(q)
         /\ Cardinality(Hits(Without(q, s), cares))
              = Cardinality(Hits(q, cares)) - IF CallsiteOf[s] \in cares THEN 1 ELSE 0
         /\ CallsiteOf[s] \in cares => Cardinality(Hits(q, cares)) > 0
<1>1. PICK at \in DOMAIN q : q[at] = s /\ Without(q, s) = CutOut(q, at)
  BY EntryRemoved
<1> DEFINE w == Without(q, s)
<1>2. /\ w \in Seq(Spans) /\ Len(w) = Len(q) - 1
      /\ \A i \in 1..Len(q) - 1 : w[i] = IF i < at THEN q[i] ELSE q[i + 1]
  BY <1>1, ElementRemoved
<1>3. Len(q) \in Nat /\ DOMAIN q = 1..Len(q) /\ at \in 1..Len(q) /\ DOMAIN w = 1..Len(q) - 1
  BY <1>2
<1> HIDE DEF w
<1>4. Range(w) \subseteq Range(q)
  <2>1. ASSUME NEW i \in DOMAIN w PROVE w[i] \in Range(q)
    <3>1. i \in DOMAIN q /\ (~(i < at) => i + 1 \in DOMAIN q)
      BY <1>3
    <3>2. w[i] = q[i] \/ (~(i < at) /\ w[i] = q[i + 1])
      BY <1>2, <1>3
    <3> QED BY <3>1, <3>2, Zenon DEF Range
  <2> QED BY <2>1, Zenon DEF Range
<1> DEFINE A == Hits(w, cares)
           B == Hits(q, cares) \ {at}
           f == [i \in A |-> IF i < at THEN i ELSE i + 1]
<1>5. \A i \in A : i \in 1..Len(q) - 1 /\ CallsiteOf[w[i]] \in cares
  BY <1>3 DEF Hits
<1>6. \A j \in B : j \in 1..Len(q) /\ j # at /\ CallsiteOf[q[j]] \in cares
  BY <1>3 DEF Hits
<1>7. \A i \in A : f[i] \in B
  <2> TAKE i \in A
  <2>1. f[i] = IF i < at THEN i ELSE i + 1
    OBVIOUS
  <2> HIDE DEF f
  <2>2. f[i] \in 1..Len(q) /\ f[i] # at
    BY <1>3, <1>5, <2>1
  <2>3. w[i] = q[f[i]]
    BY <1>2, <1>5, <2>1
  <2> QED BY <1>3, <1>5, <2>2, <2>3 DEF Hits
<1>8. \A i, k \in A : f[i] = f[k] => i = k
  BY <1>3, <1>5
<1>9. ASSUME NEW j \in B PROVE \E i \in A : f[i] = j
  <2> DEFINE i == IF j < at THEN j ELSE j - 1
  <2>1. i \in 1..Len(q) - 1 /\ (IF i < at THEN i ELSE i + 1) = j
    BY <1>3, <1>6
  <2>2. w[i] = q[j]
    BY <1>2, <2>1
  <2>3. i \in A
    BY <1>3, <1>6, <2>1, <2>2 DEF Hits
  <2> QED BY <2>1, <2>3
<1>10. ExistsBijection(A, B)
  <2>1. f \in [A -> B]
    BY <1>7
  <2> HIDE DEF A, B, f
  <2> QED BY <1>8, <1>9, <2>1 DEF ExistsBijection, Bijection, Injection, Surjection, IsInjective
<1>11. Cardinality(A) = Cardinality(B) /\ IsFiniteSet(B)
  BY <1>2, <1>10, HitsCount, FS_Bijection
<1>12. Cardinality(B) = IF at \in Hits(q, cares) THEN Cardinality(Hits(q, cares)) - 1
                        ELSE Cardinality(Hits(q, cares))
  BY HitsCount, FS_RemoveElement
<1>13. at \in Hits(q, cares) <=> CallsiteOf[s] \in cares
  BY <1>1 DEF Hits
<1>14. Cardinality(Hits(q, cares)) \in Nat /\ Cardinality(B) \in Nat
  BY <1>11, HitsCount, FS_CardinalityType
<1> HIDE DEF A, B
<1>15. w = Without(q, s)
  BY DEF w
<1>16. Cardinality(A) = Cardinality(Hits(q, cares)) - IF CallsiteOf[s] \in cares THEN 1 ELSE 0
  BY <1>11, <1>12, <1>13, <1>14
<1>17. CallsiteOf[s] \in cares => Cardinality(Hits(q, cares)) > 0
  BY <1>11, <1>12, <1>13, <1>14
<1> QED BY <1>2, <1>4, <1>15, <1>16, <1>17 DEF A

(* What a filter that a thread has been brought up to date with holds: the  *)
(* spans it matches of those the thread is in, with one level each.         *)
UpToDate(f, t, spans) ==
  /\ f \in FilterType
  /\ \A s \in f.byId : CallsiteOf[s] \in f.cares
  /\ f.scope[t] = Cardinality(Hits(spans, f.cares))
  /\ \A s \in Range(spans) : CallsiteOf[s] \in f.cares => s \in f.byId

(* One filter is the other but for what a thread does to its own levels and *)
(* for the spans known, of which it has lost none but the given ones.       *)
SameFor(f, g, t, lost) ==
  /\ g.cares = f.cares /\ f.byId \ lost \subseteq g.byId
  /\ \A u \in Threads \ {t} : g.scope[u] = f.scope[u]

LEMMA FilterFields ==
  ASSUME NEW f \in FilterType
  PROVE  /\ f.cares \in SUBSET Callsites /\ f.byId \in SUBSET Spans /\ f.scope \in [Threads -> Nat]
         /\ \A b \in SUBSET Spans : /\ [f EXCEPT !.byId = b] \in FilterType
                                    /\ [f EXCEPT !.byId = b].cares = f.cares
                                    /\ [f EXCEPT !.byId = b].byId = b
                                    /\ [f EXCEPT !.byId = b].scope = f.scope
         /\ \A t \in Threads : \A k \in Nat :
              /\ [f EXCEPT !.scope[t] = k] \in FilterType
              /\ [f EXCEPT !.scope[t] = k].cares = f.cares
              /\ [f EXCEPT !.scope[t] = k].byId = f.byId
              /\ [f EXCEPT !.scope[t] = k].scope = [f.scope EXCEPT ![t] = k]
  BY DEF FilterType

LEMMA Learnt ==
  ASSUME NEW f, NEW t \in Threads, NEW q \in Seq(Spans), UpToDate(f, t, q),
         NEW reg, NEW s \in Spans
  PROVE  LET g == Learn(f, reg, s) IN
           /\ UpToDate(g, t, q) /\ SameFor(f, g, t, {}) /\ g.scope = f.scope
           /\ CallsiteOf[s] \in reg \cap f.cares => s \in g.byId
<1> DEFINE g == Learn(f, reg, s)
<1>1. f \in FilterType
  BY DEF UpToDate
<1>2. CASE CallsiteOf[s] \in reg \cap f.cares
  <2>1. g = [f EXCEPT !.byId = f.byId \cup {s}]
    BY <1>2 DEF Learn
  <2>2. f.byId \cup {s} \in SUBSET Spans
    BY <1>1, FilterFields
  <2> HIDE DEF g
  <2>3. /\ g \in FilterType /\ g.cares = f.cares /\ g.byId = f.byId \cup {s} /\ g.scope = f.scope
    BY <1>1, <2>1, <2>2, FilterFields
  <2>4. /\ UpToDate(g, t, q) /\ SameFor(f, g, t, {}) /\ g.scope = f.scope
        /\ CallsiteOf[s] \in reg \cap f.cares => s \in g.byId
    BY <1>2, <2>3 DEF UpToDate, SameFor
  <2> QED BY <2>4 DEF g
<1>3. CASE ~(CallsiteOf[s] \in reg \cap f.cares)
  <2>1. g = f
    BY <1>3 DEF Learn
  <2> QED BY <1>3, <2>1 DEF SameFor
<1> QED BY <1>2, <1>3

LEMMA Pushed ==
  ASSUME NEW f, NEW t \in Threads, NEW q \in Seq(Spans), UpToDate(f, t, q),
         NEW s \in Spans, CallsiteOf[s] \in f.cares => s \in f.byId
  PROVE  UpToDate(Push(f, t, s), t, Append(q, s)) /\ SameFor(f, Push(f, t, s), t, {})
<1> DEFINE g == Push(f, t, s)
<1>1. f \in FilterType /\ (s \in f.byId <=> CallsiteOf[s] \in f.cares) /\ f.scope[t] \in Nat
  BY FilterFields DEF UpToDate
<1>2. Cardinality(Hits(Append(q, s), f.cares))
        = f.scope[t] + IF CallsiteOf[s] \in f.cares THEN 1 ELSE 0
  <2>1. f.scope[t] = Cardinality(Hits(q, f.cares))
    BY DEF UpToDate
  <2>2. Cardinality(Hits(Append(q, s), f.cares))
          = Cardinality(Hits(q, f.cares)) + IF CallsiteOf[s] \in f.cares THEN 1 ELSE 0
    BY HitsAppend
  <2> QED BY <2>1, <2>2
<1>3. Range(Append(q, s)) = Range(q) \cup {s}
  BY HitsAppend
<1>4. CASE s \in f.byId
  <2>1. g = [f EXCEPT !.scope[t] = f.scope[t] + 1] /\ f.scope[t] + 1 \in Nat
    BY <1>1, <1>4 DEF Push
  <2>2. /\ g \in FilterType /\ g.cares = f.cares /\ g.byId = f.byId
        /\ g.scope = [f.scope EXCEPT ![t] = f.scope[t] + 1]
    BY <1>1, <2>1, FilterFields
  <2>3. g.scope[t] = f.scope[t] + 1 /\ \A u \in Threads \ {t} : g.scope[u] = f.scope[u]
    BY <1>1, <2>2, FilterFields
  <2> HIDE DEF g
  <2>4. UpToDate(g, t, Append(q, s)) /\ SameFor(f, g, t, {})
    BY <1>1, <1>2, <1>3, <1>4, <2>2, <2>3 DEF UpToDate, SameFor
  <2> QED BY <2>4 DEF g
<1>5. CASE s \notin f.byId
  <2>1. g = f
    BY <1>5 DEF Push
  <2> HIDE DEF g
  <2>2. f.scope[t] = Cardinality(Hits(Append(q, s), f.cares))
    BY <1>1, <1>2, <1>5
  <2>3. \A r \in Range(Append(q, s)) : CallsiteOf[r] \in f.cares => r \in f.byId
    BY <1>1, <1>3, <1>5 DEF UpToDate
  <2>4. UpToDate(f, t, Append(q, s)) /\ SameFor(f, f, t, {})
    BY <2>2, <2>3 DEF UpToDate, SameFor
  <2> QED BY <2>1, <2>4 DEF g
<1> QED BY <1>4, <1>5

LEMMA Popped ==
  ASSUME NEW f, NEW t \in Threads, NEW q \in Seq(Spans), UpToDate(f, t, q), NEW s \in Range(q)
  PROVE  UpToDate(Pop(f, t, s), t, Without(q, s)) /\ SameFor(f, Pop(f, t, s), t, {})
<1> DEFINE g == Pop(f, t, s)
           w == Without(q, s)
<1>1. f \in FilterType /\ (s \in f.byId <=> CallsiteOf[s] \in f.cares) /\ f.scope[t] \in Nat
  BY FilterFields DEF UpToDate
<1>2. /\ Range(w) \subseteq Range(q)
      /\ Cardinality(Hits(w, f.cares)) = f.scope[t] - IF CallsiteOf[s] \in f.cares THEN 1 ELSE 0
      /\ CallsiteOf[s] \in f.cares => f.scope[t] > 0
  <2>1. f.scope[t] = Cardinality(Hits(q, f.cares))
    BY DEF UpToDate
  <2>2. /\ Range(w) \subseteq Range(q)
        /\ Cardinality(Hits(w, f.cares))
             = Cardinality(Hits(q, f.cares)) - IF CallsiteOf[s] \in f.cares THEN 1 ELSE 0
        /\ CallsiteOf[s] \in f.cares => Cardinality(Hits(q, f.cares)) > 0
    BY HitsWithout
  <2> HIDE DEF w
  <2> QED BY <2>1, <2>2
<1> HIDE DEF w
<1>3. CASE s \in f.byId
  <2>1. g = [f EXCEPT !.scope[t] = f.scope[t] - 1] /\ f.scope[t] - 1 \in Nat
    BY <1>1, <1>2, <1>3 DEF Pop
  <2>2. /\ g \in FilterType /\ g.cares = f.cares /\ g.byId = f.byId
        /\ g.scope = [f.scope EXCEPT ![t] = f.scope[t] - 1]
    BY <1>1, <2>1, FilterFields
  <2>3. g.scope[t] = f.scope[t] - 1 /\ \A u \in Threads \ {t} : g.scope[u] = f.scope[u]
    BY <1>1, <2>2, FilterFields
  <2> HIDE DEF g
  <2>4. UpToDate(g, t, w) /\ SameFor(f, g, t, {})
    BY <1>1, <1>2, <1>3, <2>2, <2>3 DEF UpToDate, SameFor
  <2> QED BY <2>4 DEF g, w
<1>4. CASE s \notin f.byId
  <2>1. g = f
    BY <1>4 DEF Pop
  <2> HIDE DEF g
  <2>2. f.scope[t] = Cardinality(Hits(w, f.cares))
    BY <1>1, <1>2, <1>4
  <2>3. \A r \in Range(w) : CallsiteOf[r] \in f.cares => r \in f.byId
    BY <1>2 DEF UpToDate
  <2>4. UpToDate(f, t, w) /\ SameFor(f, f, t, {})
    BY <2>2, <2>3 DEF UpToDate, SameFor
  <2> QED BY <2>1, <2>4 DEF g, w
<1> QED BY <1>3, <1>4

LEMMA Forgotten ==
  ASSUME NEW f, NEW t \in Threads, NEW q \in Seq(Spans), UpToDate(f, t, q), NEW s \in Spans \ Range(q)
  PROVE  UpToDate(Forget(f, s), t, q) /\ SameFor(f, Forget(f, s), t, {s})
<1> DEFINE g == Forget(f, s)
<1>1. f \in FilterType /\ f.byId \ {s} \in SUBSET Spans
  BY FilterFields DEF UpToDate
<1>2. g \in FilterType /\ g.cares = f.cares /\ g.byId = f.byId \ {s} /\ g.scope = f.scope
  BY <1>1, FilterFields DEF Forget
<1> QED BY <1>2 DEF UpToDate, SameFor

LEMMA Replayed ==
  ASSUME NEW f \in FilterType, NEW t \in Threads, NEW q \in Seq(Spans), NEW reg,
         f.scope[t] = 0, \A s \in f.byId : CallsiteOf[s] \in f.cares,
         \A s \in Range(q) : CallsiteOf[s] \in reg
  PROVE  UpToDate(Replay(f, reg, t, q), t, q) /\ SameFor(f, Replay(f, reg, t, q), t, {})
<1> DEFINE known == f.byId \cup {s \in Range(q) : CallsiteOf[s] \in reg \cap f.cares}
           k == Cardinality({i \in DOMAIN q : q[i] \in known})
           g == Replay(f, reg, t, q)
<1>1. \A i \in DOMAIN q : q[i] \in Range(q) /\ q[i] \in Spans
  BY SpansOf
<1>2. {i \in DOMAIN q : q[i] \in known} = Hits(q, f.cares)
  BY <1>1 DEF Hits
<1>3. k = Cardinality(Hits(q, f.cares)) /\ k \in Nat
  BY <1>2, HitsCount
<1>4. Range(q) \subseteq Spans
  BY SpansOf
<1>5. known \in SUBSET Spans /\ \A s \in known : CallsiteOf[s] \in f.cares
  BY <1>4, FilterFields
<1>6. \A s \in Range(q) : CallsiteOf[s] \in f.cares => s \in known
  OBVIOUS
<1>7. g = [f EXCEPT !.byId = known, !.scope[t] = @ + k]
  BY DEF Replay
<1>8. f.byId \subseteq known
  OBVIOUS
<1> HIDE DEF known, k, g
<1> DEFINE h == [f EXCEPT !.byId = known]
<1>9. h \in FilterType /\ h.cares = f.cares /\ h.byId = known /\ h.scope = f.scope
  BY <1>5, FilterFields
<1>10. g = [h EXCEPT !.scope[t] = k]
  <2>1. f.scope \in [Threads -> Nat] /\ f.scope[t] + k = k
    BY <1>3, FilterFields
  <2>2. [f EXCEPT !.byId = known, !.scope[t] = @ + k] = [h EXCEPT !.scope[t] = h.scope[t] + k]
    BY DEF FilterType
  <2> QED BY <1>7, <1>9, <2>1, <2>2
<1> HIDE DEF h
<1>11. /\ g \in FilterType /\ g.cares = f.cares /\ g.byId = known
       /\ g.scope = [f.scope EXCEPT ![t] = k]
  BY <1>3, <1>9, <1>10, FilterFields
<1>12. g.scope[t] = k /\ \A u \in Threads \ {t} : g.scope[u] = f.scope[u]
  BY <1>11, FilterFields
<1>13. UpToDate(g, t, q) /\ SameFor(f, g, t, {})
  BY <1>3, <1>5, <1>6, <1>8, <1>11, <1>12 DEF UpToDate, SameFor
<1> QED BY <1>13 DEF g

(* How the parts of the state that filters, threads and calls refer to fit  *)
(* together.                                                                *)
LEMMA Shapes ==
  ASSUME IInv, ScopeInv
  PROVE  /\ current \in Nat /\ Len(registered) \in Nat /\ current <= Len(registered)
         /\ registered \in Seq(SUBSET Callsites) /\ Len(filters) = Len(registered)
         /\ filters \in Seq(FilterType) /\ DOMAIN filters = 1..Len(filters)
         /\ \A n \in 1..Len(filters) : filters[n] \in FilterType
         /\ active \in [Threads -> Seq(Spans)] /\ bound \in [Threads -> Nat]
         /\ \A t \in Threads : bound[t] <= current
<1>1. registered \in Seq(SUBSET Callsites) /\ current \in 0..Len(registered)
  BY DEF IInv, CallsiteInv
<1>2. /\ filters \in Seq(FilterType) /\ Len(filters) = Len(registered)
      /\ active \in [Threads -> Seq(Spans)] /\ bound \in [Threads -> Nat]
      /\ \A t \in Threads : bound[t] <= current
  BY DEF ScopeInv, LayerTypes
<1>3. Len(registered) \in Nat /\ current \in Nat /\ current <= Len(registered)
  BY <1>1
<1>4. DOMAIN filters = 1..Len(filters) /\ \A n \in 1..Len(filters) : filters[n] \in FilterType
  BY <1>2
<1> QED BY <1>1, <1>2, <1>3, <1>4

LEMMA FilterOfCall ==
  ASSUME IInv, ScopeInv, NEW t \in Threads, call[t].op \in LayerOps
  PROVE  /\ call[t].filter \in 1..current /\ call[t].filter \in 1..Len(filters)
         /\ call[t].filter \in Nat /\ bound[t] <= call[t].filter /\ bound[t] \in Nat
         /\ \A s \in Range(active[t]) : CallsiteOf[s] \in registered[call[t].filter]
<1>1. /\ call[t].filter \in 1..current /\ bound[t] <= call[t].filter
      /\ \A s \in Range(active[t]) : CallsiteOf[s] \in registered[call[t].filter]
  BY DEF ScopeInv, CallInv
<1>2. bound[t] \in Nat
  BY Shapes
<1>3. call[t].filter \in 1..Len(filters) /\ call[t].filter \in Nat
  BY <1>1, Shapes
<1> QED BY <1>1, <1>2, <1>3

(* sync_filter: whether it was bound to the filter or is new to it, the     *)
(* thread finds the filter up to date with the spans it is in.              *)
LEMMA SyncedUp ==
  ASSUME IInv, ScopeInv, NEW t \in Threads, call[t].op \in LayerOps
  PROVE  /\ call[t].filter \in DOMAIN filters
         /\ UpToDate(Synced(t), t, active[t])
         /\ SameFor(filters[call[t].filter], Synced(t), t, {})
<1> DEFINE n == call[t].filter
           f == filters[n]
<1>1. /\ n \in 1..current /\ bound[t] <= n /\ bound[t] \in Nat
      /\ \A s \in Range(active[t]) : CallsiteOf[s] \in registered[n]
  BY FilterOfCall
<1>2. n \in DOMAIN filters /\ f \in FilterType /\ active[t] \in Seq(Spans)
  BY <1>1, FilterOfCall, Shapes
<1>3. Levels(n, t) /\ \A s \in f.byId : CallsiteOf[s] \in f.cares
  BY <1>2 DEF ScopeInv, LevelInv
<1>4. Synced(t) = IF bound[t] = n THEN f ELSE Replay(f, registered[n], t, active[t])
  BY DEF Synced, Sync
<1> HIDE DEF f, n
<1>5. CASE bound[t] = n
  BY <1>2, <1>3, <1>4, <1>5 DEF UpToDate, SameFor, Levels, n, f
<1>6. CASE bound[t] # n
  <2>1. f.scope[t] = 0
    <3>0. bound[t] \in Nat /\ n \in Nat /\ bound[t] <= n
      BY FilterOfCall DEF n
    <3>1. bound[t] < n
      BY <1>6, <3>0
    <3> QED BY <1>3, <3>1 DEF Levels, f
  <2>2. Synced(t) = Replay(f, registered[n], t, active[t])
    BY <1>4, <1>6
  <2>3. UpToDate(Replay(f, registered[n], t, active[t]), t, active[t])
        /\ SameFor(f, Replay(f, registered[n], t, active[t]), t, {})
    BY <1>1, <1>2, <1>3, <2>1, Replayed
  <2> QED BY <1>2, <2>2, <2>3 DEF n, f
<1> QED BY <1>5, <1>6

(* A call leaves its filter up to date with its thread: the others keep     *)
(* what they had of it.                                                     *)
LEMMA LevelsReturned ==
  ASSUME IInv, ScopeInv, NEW t \in Threads, call[t].op \in LayerOps,
         NEW g, NEW q \in Seq(Spans), NEW lost,
         Return(t, g), active' = [active EXCEPT ![t] = q],
         UpToDate(g, t, q), SameFor(filters[call[t].filter], g, t, lost),
         \A u \in Threads : Range(active[u]) \cap lost = {}
  PROVE  /\ LevelInv' /\ filters' \in Seq(FilterType) /\ Len(filters') = Len(filters)
         /\ active' \in [Threads -> Seq(Spans)] /\ bound' \in [Threads -> Nat]
<1> DEFINE n == call[t].filter
<1>1. /\ n \in 1..current /\ n \in Nat /\ bound[t] <= n /\ bound[t] \in Nat
      /\ filters \in Seq(FilterType) /\ n \in 1..Len(filters) /\ DOMAIN filters = 1..Len(filters)
      /\ active \in [Threads -> Seq(Spans)] /\ bound \in [Threads -> Nat]
  BY FilterOfCall, Shapes
<1>2. filters' = [filters EXCEPT ![n] = g] /\ bound' = [bound EXCEPT ![t] = n]
  BY DEF Return
<1>3. g \in FilterType
  BY DEF UpToDate
<1> HIDE DEF n
<1>4. /\ filters' \in Seq(FilterType) /\ Len(filters') = Len(filters) /\ DOMAIN filters' = 1..Len(filters)
      /\ filters'[n] = g /\ \A m \in 1..Len(filters) : m # n => filters'[m] = filters[m]
  BY <1>1, <1>2, <1>3
<1>5. /\ active' \in [Threads -> Seq(Spans)] /\ bound' \in [Threads -> Nat]
      /\ active'[t] = q /\ bound'[t] = n
      /\ \A u \in Threads \ {t} : active'[u] = active[u] /\ bound'[u] = bound[u]
  BY <1>1, <1>2
<1>6. ASSUME NEW m \in DOMAIN filters', NEW u \in Threads
      PROVE  Levels(m, u)'
  <2>0. bound[t] \in Nat /\ n \in Nat /\ bound[t] <= n
    BY FilterOfCall DEF n
  <2>1. m \in 1..Len(filters)
    BY <1>4, Zenon
  <2>7. m \in Nat
    BY <2>1
  <2>6. Levels(m, u)
    BY <1>1, <2>1 DEF ScopeInv, LevelInv
  <2>2. CASE u = t /\ m # n
    <3>0. bound'[u] = n /\ u = t
      BY <1>5, <2>2, Zenon
    <3>1. bound'[u] < m => bound[u] < m
      BY <2>0, <2>7, <3>0
    <3>2. bound'[u] # m /\ filters'[m] = filters[m]
      BY <1>4, <1>5, <2>1, <2>2
    <3> QED BY <2>6, <3>1, <3>2 DEF Levels
  <2>3. CASE u = t /\ m = n
    <3>1. filters'[m] = g /\ active'[u] = q /\ bound'[u] = m
      BY <1>4, <1>5, <2>3, Zenon
    <3>2. ~(bound'[u] < m)
      BY <2>7, <3>1
    <3> QED BY <2>3, <3>1, <3>2 DEF Levels, UpToDate
  <2>4. CASE u # t /\ m # n
    BY <1>4, <1>5, <2>1, <2>4, <2>6 DEF Levels
  <2>5. CASE u # t /\ m = n
    <3>1. SameFor(filters[n], g, t, lost)
      BY DEF n
    <3> QED BY <1>4, <1>5, <2>5, <2>6, <3>1 DEF Levels, SameFor
  <2> QED BY <2>2, <2>3, <2>4, <2>5
<1>7. ASSUME NEW m \in DOMAIN filters', NEW s \in filters'[m].byId
      PROVE  CallsiteOf[s] \in filters'[m].cares
  <2>1. CASE m = n
    BY <1>4, <1>7, <2>1 DEF UpToDate
  <2>2. CASE m # n
    BY <1>1, <1>4, <1>7, <2>2 DEF ScopeInv, LevelInv
  <2> QED BY <2>1, <2>2
<1> QED BY <1>4, <1>5, <1>6, <1>7 DEF LevelInv

LEMMA SameReady ==
  ASSUME UNCHANGED callsites,
         \A u \in Threads : (call[u].op = "register" \/ call'[u].op = "register") => call'[u] = call[u]
  PROVE  \A c : Ready(c)' <=> Ready(c)
  BY DEF Ready

LEMMA CallReturned ==
  ASSUME IInv, ScopeInv, NEW t \in Threads, call[t].op \in LayerOps,
         NEW g, NEW q \in Seq(Spans), NEW lost,
         Return(t, g), active' = [active EXCEPT ![t] = q],
         UpToDate(g, t, q), SameFor(filters[call[t].filter], g, t, lost),
         \A u \in Threads : Range(active[u]) \cap lost = {},
         \A s \in Range(q) : span[s] = "open",
         span' \in [Spans -> {"unborn", "open", "closing", "closed"}],
         \A s \in Spans : span'[s] = span[s] \/ (span[s] \in {"closing", "closed"} /\ span'[s] = "closed")
  PROVE  ScopeInv'
<1>1. /\ LevelInv' /\ filters' \in Seq(FilterType) /\ Len(filters') = Len(filters)
      /\ active' \in [Threads -> Seq(Spans)] /\ bound' \in [Threads -> Nat]
  BY LevelsReturned
<1>2. /\ UNCHANGED <<run, current, registered, callsites>> /\ DOMAIN call = Threads
      /\ bound' = [bound EXCEPT ![t] = call[t].filter]
      /\ call' = [call EXCEPT ![t] = NoCall]
  BY DEF Return, runVars, IInv, CallsiteInv
<1>3. LayerTypes /\ ReadyInv /\ \A u \in Threads : CallInv(u)
  BY DEF ScopeInv
<1>4. /\ call'[t] = NoCall /\ NoCall.op = "none" /\ bound'[t] = call[t].filter /\ active'[t] = q
      /\ \A u \in Threads \ {t} : call'[u] = call[u] /\ bound'[u] = bound[u] /\ active'[u] = active[u]
  BY <1>2, <1>3 DEF LayerTypes, NoCall
<1>5. call[t].filter <= current /\ call[t].op # "register"
  <2>1. call[t].filter \in 1..current /\ current \in Nat
    BY FilterOfCall, Shapes, Zenon
  <2>2. call[t].op # "register"
    BY DEF LayerOps
  <2> QED BY <2>1, <2>2
<1>6. LayerTypes'
  <2>1. ASSUME NEW u \in Threads
        PROVE  /\ bound'[u] <= current
               /\ call'[u].op \in {"none", "register"} \cup LayerOps
               /\ call'[u].op \in {"new", "enter", "exit", "close"} => call'[u].span \in Spans
    BY <1>3, <1>4, <1>5 DEF LayerTypes
  <2> QED BY <1>1, <1>2, <1>3, <2>1 DEF LayerTypes
<1>7. ReadyInv'
  <2>1. \A c : Ready(c)' <=> Ready(c)
    BY <1>2, <1>4, <1>5, SameReady
  <2>2. \A s \in Spans : span'[s] # "unborn" => span[s] # "unborn"
    OBVIOUS
  <2>3. (\A r \in Runs : run'[r].pc # "swap") => Len(registered') = current'
    BY <1>2, <1>3 DEF ReadyInv
  <2>4. current' # 0 => \A c \in Callsites : Ready(c)' => \A n \in current'..Len(registered') : c \in registered'[n]
    BY <1>2, <1>3, <2>1 DEF ReadyInv
  <2>5. \A s \in Spans : span'[s] # "unborn" => Ready(CallsiteOf[s])'
    BY <1>3, <2>1, <2>2 DEF ReadyInv
  <2> QED BY <2>3, <2>4, <2>5 DEF ReadyInv
<1>8. ASSUME NEW u \in Threads PROVE CallInv(u)'
  <2>1. CASE u = t
    <3>1. \A s \in Range(q) : s \in Spans
      BY SpansOf, Zenon
    <3>2. \A s \in Range(active'[t]) : span'[s] = "open"
      BY <1>4, <3>1
    <3> QED BY <1>4, <2>1, <3>2 DEF CallInv, LayerOps
  <2>2. CASE u # t
    <3>1. call'[u] = call[u] /\ bound'[u] = bound[u] /\ active'[u] = active[u] /\ CallInv(u)
      BY <1>3, <1>4, <2>2
    <3>2. \A s \in Range(active[u]) : s \in Spans
      <4>1. active[u] \in Seq(Spans)
        BY <1>3 DEF LayerTypes
      <4> QED BY <4>1, SpansOf, Zenon
    <3>3. call[u].op \in {"enter", "close"} => call[u].span \in Spans
      BY <1>3 DEF LayerTypes
    <3> QED BY <1>2, <3>1, <3>2, <3>3 DEF CallInv
  <2> QED BY <2>1, <2>2
<1> QED BY <1>1, <1>6, <1>7, <1>8 DEF ScopeInv

LEMMA SpansAlone ==
  ASSUME ScopeInv, UNCHANGED span
  PROVE  /\ span' \in [Spans -> {"unborn", "open", "closing", "closed"}]
         /\ \A s \in Spans : span'[s] = span[s]
  BY DEF ScopeInv, LayerTypes

LEMMA CallReturnedOpen ==
  ASSUME IInv, ScopeInv, NEW t \in Threads, call[t].op \in LayerOps,
         NEW g, NEW q \in Seq(Spans),
         Return(t, g), active' = [active EXCEPT ![t] = q], UNCHANGED span,
         UpToDate(g, t, q), SameFor(filters[call[t].filter], g, t, {}),
         \A s \in Range(q) : span[s] = "open"
  PROVE  ScopeInv'
<1>1. \A u \in Threads : Range(active[u]) \cap {} = {}
  OBVIOUS
<1>2. /\ span' \in [Spans -> {"unborn", "open", "closing", "closed"}]
      /\ \A s \in Spans : span'[s] = span[s] \/ (span[s] \in {"closing", "closed"} /\ span'[s] = "closed")
  BY SpansAlone
<1> QED BY <1>1, <1>2, CallReturned, Zenon

LEMMA ActiveAlone ==
  ASSUME ScopeInv, NEW t \in Threads, UNCHANGED active
  PROVE  /\ active[t] \in Seq(Spans) /\ active' = [active EXCEPT ![t] = active[t]]
         /\ \A s \in Range(active[t]) : span[s] = "open"
  BY DEF ScopeInv, LayerTypes, CallInv

LEMMA EnabledKeeps == ASSUME IInv, ScopeInv, NEW t \in Threads, Enabled(t) PROVE ScopeInv'
<1>1. call[t].op \in LayerOps /\ Return(t, Synced(t)) /\ UNCHANGED <<span, active>>
  BY DEF Enabled, LayerOps
<1>2. UpToDate(Synced(t), t, active[t]) /\ SameFor(filters[call[t].filter], Synced(t), t, {})
  BY <1>1, SyncedUp
<1> QED BY <1>1, <1>2, ActiveAlone, CallReturnedOpen, Zenon

LEMMA NewSpanKeeps == ASSUME IInv, ScopeInv, NEW t \in Threads, OnNewSpan(t) PROVE ScopeInv'
<1> DEFINE f == Synced(t)
           s == call[t].span
           g == Learn(f, registered[call[t].filter], s)
<1>1. call[t].op \in LayerOps /\ Return(t, g) /\ UNCHANGED <<span, active>> /\ s \in Spans
  BY DEF OnNewSpan, LayerOps, ScopeInv, LayerTypes
<1>2. UpToDate(f, t, active[t]) /\ SameFor(filters[call[t].filter], f, t, {})
  BY <1>1, SyncedUp
<1>3. active[t] \in Seq(Spans)
  BY <1>1, ActiveAlone
<1>4. UpToDate(g, t, active[t]) /\ SameFor(f, g, t, {})
  <2> HIDE DEF f, s
  <2> QED BY <1>1, <1>2, <1>3, Learnt
<1> HIDE DEF f, g, s
<1>5. SameFor(filters[call[t].filter], g, t, {})
  BY <1>2, <1>4 DEF SameFor
<1> QED BY <1>1, <1>4, <1>5, ActiveAlone, CallReturnedOpen, Zenon

LEMMA EnterKeeps == ASSUME IInv, ScopeInv, NEW t \in Threads, OnEnter(t) PROVE ScopeInv'
<1> DEFINE f == Synced(t)
           s == call[t].span
           g == Learn(f, registered[call[t].filter], s)
           h == Push(g, t, s)
<1>1. /\ call[t].op \in LayerOps /\ call[t].op = "enter" /\ Return(t, h) /\ UNCHANGED span
      /\ s \in Spans /\ active' = [active EXCEPT ![t] = Append(active[t], s)]
  BY DEF OnEnter, LayerOps, ScopeInv, LayerTypes
<1>2. UpToDate(f, t, active[t]) /\ SameFor(filters[call[t].filter], f, t, {})
  BY <1>1, SyncedUp
<1>3. /\ active[t] \in Seq(Spans) /\ CallsiteOf[s] \in registered[call[t].filter]
      /\ span[s] = "open" /\ \A r \in Range(active[t]) : span[r] = "open"
  BY <1>1 DEF ScopeInv, LayerTypes, CallInv
<1>4. /\ UpToDate(g, t, active[t]) /\ SameFor(f, g, t, {})
      /\ CallsiteOf[s] \in g.cares => s \in g.byId
  <2> HIDE DEF f, s
  <2>1. /\ UpToDate(g, t, active[t]) /\ SameFor(f, g, t, {})
        /\ CallsiteOf[s] \in registered[call[t].filter] \cap f.cares => s \in g.byId
    BY <1>1, <1>2, <1>3, Learnt
  <2> QED BY <1>3, <2>1 DEF SameFor
<1> HIDE DEF f, g, s
<1>5. UpToDate(h, t, Append(active[t], s)) /\ SameFor(g, h, t, {})
  BY <1>1, <1>3, <1>4, Pushed
<1> HIDE DEF h
<1>6. SameFor(filters[call[t].filter], h, t, {})
  BY <1>2, <1>4, <1>5 DEF SameFor
<1>7. Append(active[t], s) \in Seq(Spans) /\ \A r \in Range(Append(active[t], s)) : span[r] = "open"
  <2>1. /\ Append(active[t], s) \in Seq(Spans)
        /\ Range(Append(active[t], s)) = Range(active[t]) \cup {s}
    BY <1>1, <1>3, HitsAppend, Zenon
  <2> QED BY <1>3, <2>1, Zenon
<1> QED BY <1>1, <1>5, <1>6, <1>7, CallReturnedOpen, Zenon

LEMMA ExitKeeps == ASSUME IInv, ScopeInv, NEW t \in Threads, OnExit(t) PROVE ScopeInv'
<1> DEFINE f == Synced(t)
           s == call[t].span
           g == Pop(f, t, s)
           w == Without(active[t], s)
<1>1. /\ call[t].op \in LayerOps /\ call[t].op = "exit" /\ Return(t, g) /\ UNCHANGED span
      /\ active' = [active EXCEPT ![t] = w]
  BY DEF OnExit, LayerOps, ScopeInv, LayerTypes
<1>2. UpToDate(f, t, active[t]) /\ SameFor(filters[call[t].filter], f, t, {})
  BY <1>1, SyncedUp
<1>3. /\ active[t] \in Seq(Spans) /\ s \in Range(active[t])
      /\ \A r \in Range(active[t]) : span[r] = "open"
  BY <1>1 DEF ScopeInv, LayerTypes, CallInv
<1> HIDE DEF f, s
<1>4. UpToDate(g, t, w) /\ SameFor(f, g, t, {})
  BY <1>2, <1>3, Popped
<1>5. w \in Seq(Spans) /\ Range(w) \subseteq Range(active[t])
  BY <1>3, HitsWithout
<1> HIDE DEF g, w
<1>6. SameFor(filters[call[t].filter], g, t, {})
  BY <1>2, <1>4 DEF SameFor
<1>7. \A r \in Range(w) : span[r] = "open"
  BY <1>3, <1>5
<1> QED BY <1>1, <1>4, <1>5, <1>6, <1>7, CallReturnedOpen, Zenon

LEMMA CloseKeeps == ASSUME IInv, ScopeInv, NEW t \in Threads, OnClose(t) PROVE ScopeInv'
<1> DEFINE f == Synced(t)
           s == call[t].span
           g == Forget(f, s)
<1>1. /\ call[t].op \in LayerOps /\ call[t].op = "close" /\ Return(t, g) /\ UNCHANGED active
      /\ span' = [span EXCEPT ![s] = "closed"] /\ s \in Spans
  BY DEF OnClose, LayerOps, ScopeInv, LayerTypes
<1>2. UpToDate(f, t, active[t]) /\ SameFor(filters[call[t].filter], f, t, {})
  BY <1>1, SyncedUp
<1>3. /\ span[s] \in {"closing", "closed"}
      /\ \A u \in Threads : \A r \in Range(active[u]) : span[r] = "open"
  BY <1>1 DEF ScopeInv, CallInv
<1>4. active[t] \in Seq(Spans) /\ active' = [active EXCEPT ![t] = active[t]]
  BY <1>1, ActiveAlone
<1>5. span \in [Spans -> {"unborn", "open", "closing", "closed"}]
  BY DEF ScopeInv, LayerTypes
<1> HIDE DEF f, s
<1>6. \A u \in Threads : Range(active[u]) \cap {s} = {}
  BY <1>3
<1>7. UpToDate(g, t, active[t]) /\ SameFor(f, g, t, {s})
  BY <1>1, <1>2, <1>4, <1>6, Forgotten
<1> HIDE DEF g
<1>8. SameFor(filters[call[t].filter], g, t, {s})
  BY <1>2, <1>7 DEF SameFor
<1>9. /\ span' \in [Spans -> {"unborn", "open", "closing", "closed"}]
      /\ \A r \in Spans : span'[r] = span[r] \/ (span[r] \in {"closing", "closed"} /\ span'[r] = "closed")
  BY <1>1, <1>3, <1>5
<1> QED BY <1>1, <1>3, <1>4, <1>6, <1>7, <1>8, <1>9, CallReturned, Zenon

LEMMA BornRegistered ==
  ASSUME IInv, ScopeInv, current # 0, NEW s \in Spans, span[s] # "unborn"
  PROVE  CallsiteOf[s] \in registered[current]
<1>1. Ready(CallsiteOf[s])
  BY DEF ScopeInv, ReadyInv
<1>2. CallsiteOf[s] \in Callsites /\ current \in current..Len(registered)
  BY <1>1 DEF Ready, IInv, CallsiteInv
<1> QED BY <1>1, <1>2 DEF ScopeInv, ReadyInv

(* current_filter at the start of a call. *)
LEMMA Fetched ==
  ASSUME IInv, ScopeInv, NEW t \in Threads, NEW op \in LayerOps, NEW s, Fetch(t, op, s),
         op # "enabled" => s \in Spans,
         span' \in [Spans -> {"unborn", "open", "closing", "closed"}],
         \A r \in Spans : \/ span'[r] = span[r]
                          \/ span[r] = "unborn" /\ Ready(CallsiteOf[r])
                          \/ span[r] = "open" /\ ~InUse(r),
         op = "enter" => span[s] = "open" /\ span'[s] = "open",
         op = "exit" => s \in Range(active[t]),
         op = "close" => span'[s] = "closing"
  PROVE  ScopeInv'
<1> DEFINE new == [op |-> op, span |-> s, filter |-> current]
<1>1. /\ current # 0 /\ call[t] = NoCall /\ DOMAIN call = Threads /\ current \in Nat
      /\ call' = [call EXCEPT ![t] = new]
      /\ UNCHANGED <<run, active, bound, current, filters, registered, callsites>>
  <2>1. DOMAIN call = Threads /\ current \in Nat
    BY Shapes DEF IInv, CallsiteInv
  <2> QED BY <2>1 DEF Fetch, runVars, filterVars
<1>2. new.op = op /\ new.span = s /\ new.filter = current
  OBVIOUS
<1> HIDE DEF new
<1>3. call'[t] = new /\ NoCall.op = "none" /\ \A u \in Threads \ {t} : call'[u] = call[u]
  BY <1>1 DEF NoCall
<1>4. LayerTypes /\ ReadyInv /\ LevelInv /\ \A u \in Threads : CallInv(u)
  BY DEF ScopeInv
<1>5. LayerTypes'
  <2>1. ASSUME NEW u \in Threads
        PROVE  /\ bound'[u] <= current'
               /\ call'[u].op \in {"none", "register"} \cup LayerOps
               /\ call'[u].op \in {"new", "enter", "exit", "close"} => call'[u].span \in Spans
    <3>1. CASE u = t
      BY <1>1, <1>2, <1>3, <1>4, <3>1 DEF LayerTypes
    <3>2. CASE u # t
      BY <1>1, <1>3, <1>4, <3>2 DEF LayerTypes
    <3> QED BY <3>1, <3>2
  <2> QED BY <1>1, <1>4, <2>1 DEF LayerTypes
<1>6. ReadyInv'
  <2>1. op # "register"
    BY DEF LayerOps
  <2>2. \A c : Ready(c)' <=> Ready(c)
    BY <1>1, <1>2, <1>3, <2>1, SameReady
  <2>3. (\A r \in Runs : run'[r].pc # "swap") => Len(registered') = current'
    BY <1>1, <1>4 DEF ReadyInv
  <2>4. current' # 0 => \A c \in Callsites : Ready(c)' => \A n \in current'..Len(registered') : c \in registered'[n]
    BY <1>1, <1>4, <2>2 DEF ReadyInv
  <2>5. \A r \in Spans : span'[r] # "unborn" => Ready(CallsiteOf[r])'
    BY <1>4, <2>2 DEF ReadyInv
  <2> QED BY <2>3, <2>4, <2>5 DEF ReadyInv
<1>7. LevelInv'
  BY <1>1, <1>4 DEF LevelInv, Levels
<1>8. \A u \in Threads : \A r \in Range(active[u]) : r \in Spans /\ span[r] = "open" /\ span'[r] = "open"
  <2>1. \A u \in Threads : \A r \in Range(active[u]) : r \in Spans /\ span[r] = "open"
    <3>1. \A u \in Threads : active[u] \in Seq(Spans)
      BY <1>4 DEF LayerTypes
    <3>2. \A u \in Threads : \A r \in Range(active[u]) : span[r] = "open"
      BY <1>4 DEF CallInv
    <3> QED BY <3>1, <3>2, SpansOf, Zenon
  <2> QED BY <2>1 DEF InUse
<1>9. CallInv(t)'
  <2>1. /\ call'[t].filter \in 1..current' /\ bound'[t] <= call'[t].filter
        /\ \A r \in Range(active'[t]) : CallsiteOf[r] \in registered'[call'[t].filter]
    <3>1. \A r \in Range(active[t]) : CallsiteOf[r] \in registered[current]
      BY <1>1, <1>8, BornRegistered
    <3>2. current \in 1..current
      <4>1. current \in Nat /\ current # 0
        BY <1>1, Zenon
      <4> QED BY <4>1
    <3>3. bound[t] <= current
      BY Shapes, Zenon
    <3> QED BY <1>1, <1>2, <1>3, <3>1, <3>2, <3>3
  <2>2. op = "enter" => CallsiteOf[s] \in registered[current]
    BY <1>1, BornRegistered DEF LayerOps
  <2>3. \A r \in Range(active'[t]) : span'[r] = "open"
    BY <1>1, <1>8
  <2> QED BY <1>1, <1>2, <1>3, <2>1, <2>2, <2>3 DEF CallInv
<1>10. ASSUME NEW u \in Threads, u # t PROVE CallInv(u)'
  <2>1. CallInv(u) /\ call'[u] = call[u]
    BY <1>3, <1>4, <1>10
  <2>2. call[u].op = "enter" => span'[call[u].span] = "open"
    <3> SUFFICES ASSUME call[u].op = "enter" PROVE span'[call[u].span] = "open"
      OBVIOUS
    <3>1. call[u].span \in Spans /\ span[call[u].span] = "open"
      BY <1>4, <2>1 DEF LayerTypes, CallInv
    <3>2. InUse(call[u].span)
      BY DEF InUse
    <3> QED BY <3>1, <3>2
  <2>3. call[u].op = "close" => span'[call[u].span] \in {"closing", "closed"}
    BY <1>4, <2>1 DEF LayerTypes, CallInv
  <2> QED BY <1>1, <1>8, <2>1, <2>2, <2>3 DEF CallInv
<1> QED BY <1>5, <1>6, <1>7, <1>9, <1>10 DEF ScopeInv

LEMMA BeginKeeps == ASSUME IInv, ScopeInv, NEW t \in Threads, Begin(t) PROVE ScopeInv'
<1>0. span \in [Spans -> {"unborn", "open", "closing", "closed"}] /\ active[t] \in Seq(Spans)
  BY DEF ScopeInv, LayerTypes
<1>1. ASSUME NEW s \in Spans, span[s] = "unborn", Ready(CallsiteOf[s]),
             span' = [span EXCEPT ![s] = "open"], Fetch(t, "new", s)
      PROVE  ScopeInv'
  <2>1. \A r \in Spans : span'[r] = span[r] \/ (span[r] = "unborn" /\ Ready(CallsiteOf[r]))
    BY <1>0, <1>1
  <2>2. span' \in [Spans -> {"unborn", "open", "closing", "closed"}] /\ "new" \in LayerOps
    BY <1>0, <1>1 DEF LayerOps
  <2> QED BY <1>1, <2>1, <2>2, Fetched
<1>2. ASSUME NEW s \in Spans, span[s] = "open", Fetch(t, "enter", s), UNCHANGED span PROVE ScopeInv'
  <2>1. "enter" \in LayerOps
    BY DEF LayerOps
  <2> QED BY <1>0, <1>2, <2>1, Fetched
<1>3. ASSUME NEW s \in Range(active[t]), Fetch(t, "exit", s), UNCHANGED span PROVE ScopeInv'
  <2>1. "exit" \in LayerOps /\ s \in Spans
    BY <1>0 DEF LayerOps, Range
  <2> QED BY <1>0, <1>3, <2>1, Fetched
<1>4. ASSUME NEW s \in Spans, span[s] = "open", ~InUse(s),
             span' = [span EXCEPT ![s] = "closing"], Fetch(t, "close", s)
      PROVE  ScopeInv'
  <2>1. \A r \in Spans : span'[r] = span[r] \/ (span[r] = "open" /\ ~InUse(r))
    BY <1>0, <1>4
  <2>2. /\ span' \in [Spans -> {"unborn", "open", "closing", "closed"}] /\ "close" \in LayerOps
        /\ span'[s] = "closing"
    BY <1>0, <1>4 DEF LayerOps
  <2> QED BY <1>4, <2>1, <2>2, Fetched
<1>5. ASSUME Fetch(t, "enabled", ""), UNCHANGED span PROVE ScopeInv'
  <2>1. "enabled" \in LayerOps
    BY DEF LayerOps
  <2> QED BY <1>0, <1>5, <2>1, Fetched
<1> QED BY <1>1, <1>2, <1>3, <1>4, <1>5 DEF Begin

LEMMA NoteKeeps ==
  ASSUME IInv, ScopeInv, NEW t \in Threads, NEW c0 \in Callsites, NoteCallsite(t, c0)
  PROVE  ScopeInv'
<1> DEFINE new == [op |-> "register", callsite |-> c0]
<1>1. /\ call[t] = NoCall /\ DOMAIN call = Threads /\ c0 \notin callsites.known
      /\ callsites' = [known |-> callsites.known \cup {c0}, lock |-> t]
      /\ call' = [call EXCEPT ![t] = new]
      /\ UNCHANGED <<run, span, active, bound, current, filters, registered>>
  BY DEF NoteCallsite, IInv, CallsiteInv, runVars, filterVars
<1>2. new.op = "register" /\ new.callsite = c0
  OBVIOUS
<1> HIDE DEF new
<1>3. call'[t] = new /\ NoCall.op = "none" /\ \A u \in Threads \ {t} : call'[u] = call[u]
  BY <1>1 DEF NoCall
<1>4. LayerTypes /\ ReadyInv /\ LevelInv /\ \A u \in Threads : CallInv(u)
  BY DEF ScopeInv
<1>5. callsites'.known = callsites.known \cup {c0}
  BY <1>1
<1>6. \A c : Ready(c)' <=> Ready(c)
  BY <1>1, <1>2, <1>3, <1>5 DEF Ready
<1>7. LayerTypes'
  BY <1>1, <1>2, <1>3, <1>4 DEF LayerTypes
<1>8. ReadyInv'
  <2>1. (\A r \in Runs : run'[r].pc # "swap") => Len(registered') = current'
    BY <1>1, <1>4 DEF ReadyInv
  <2>2. current' # 0 => \A c \in Callsites : Ready(c)' => \A n \in current'..Len(registered') : c \in registered'[n]
    BY <1>1, <1>4, <1>6 DEF ReadyInv
  <2>3. \A s \in Spans : span'[s] # "unborn" => Ready(CallsiteOf[s])'
    BY <1>1, <1>4, <1>6 DEF ReadyInv
  <2> QED BY <2>1, <2>2, <2>3 DEF ReadyInv
<1>9. LevelInv'
  BY <1>1, <1>4 DEF LevelInv, Levels
<1>10. ASSUME NEW u \in Threads PROVE CallInv(u)'
  <2>1. CallInv(u)
    BY <1>4
  <2>2. CASE u = t
    BY <1>1, <1>2, <1>3, <2>1, <2>2 DEF CallInv, LayerOps
  <2>3. CASE u # t
    BY <1>1, <1>3, <2>1, <2>3 DEF CallInv
  <2> QED BY <2>2, <2>3
<1> QED BY <1>7, <1>8, <1>9, <1>10 DEF ScopeInv

LEMMA RegisterKeeps == ASSUME IInv, ScopeInv, NEW t \in Threads, RegisterCallsite(t) PROVE ScopeInv'
<1> DEFINE c0 == call[t].callsite
<1>1. /\ call[t].op = "register" /\ DOMAIN call = Threads /\ current # 0
      /\ current \in 1..Len(registered) /\ callsites.lock = t
      /\ registered \in Seq(SUBSET Callsites) /\ c0 \in Callsites
      /\ registered' = [registered EXCEPT ![current] = registered[current] \cup {c0}]
      /\ callsites' = [callsites EXCEPT !.lock = Nobody]
      /\ call' = [call EXCEPT ![t] = NoCall]
      /\ UNCHANGED <<run, span, active, bound, current, filters>>
  BY DEF RegisterCallsite, IInv, CallsiteInv, runVars
<1>2. call'[t] = NoCall /\ NoCall.op = "none" /\ \A u \in Threads \ {t} : call'[u] = call[u]
  BY <1>1 DEF NoCall
<1>3. LayerTypes /\ ReadyInv /\ LevelInv /\ \A u \in Threads : CallInv(u)
  BY DEF ScopeInv
<1>4. callsites'.known = callsites.known
  BY <1>1 DEF IInv, CallsiteInv
<1>5. Len(registered) = current
  <2>1. \A r \in Runs : run[r].pc # "swap"
    BY <1>1, LoggingConstants DEF IInv, CallsiteInv
  <2> QED BY <1>3, <2>1 DEF ReadyInv
<1>6. /\ Len(registered') = current /\ c0 \in registered'[current]
      /\ \A n \in 1..Len(registered) : registered[n] \subseteq registered'[n]
  BY <1>1, <1>5
<1>7. \A c : Ready(c)' <=> Ready(c) \/ (c = c0 /\ Ready(c)')
  BY <1>1, <1>2, <1>4 DEF Ready
<1>8. LayerTypes'
  BY <1>1, <1>2, <1>3, <1>5, <1>6 DEF LayerTypes
<1> HIDE DEF c0
<1>9. ReadyInv'
  <2>1. (\A r \in Runs : run'[r].pc # "swap") => Len(registered') = current'
    BY <1>1, <1>6
  <2>2. ASSUME NEW c \in Callsites, Ready(c)', NEW n \in current'..Len(registered')
        PROVE  c \in registered'[n]
    <3>1. n = current
      BY <1>1, <1>6
    <3>2. Ready(c) => c \in registered[current]
      BY <1>1, <1>3 DEF ReadyInv
    <3> QED BY <1>1, <1>6, <1>7, <2>2, <3>1, <3>2
  <2>3. \A s \in Spans : span'[s] # "unborn" => Ready(CallsiteOf[s])'
    BY <1>1, <1>3, <1>7 DEF ReadyInv
  <2> QED BY <2>1, <2>2, <2>3 DEF ReadyInv
<1>10. LevelInv'
  BY <1>1, <1>3 DEF LevelInv, Levels
<1>11. ASSUME NEW u \in Threads PROVE CallInv(u)'
  <2>1. CallInv(u)
    BY <1>3
  <2>2. CASE u = t
    BY <1>1, <1>2, <2>1, <2>2 DEF CallInv, LayerOps
  <2>3. CASE u # t
    <3>1. call[u].op \in LayerOps => call[u].filter \in 1..Len(registered)
      BY <1>1, <2>1 DEF CallInv
    <3>2. "enter" \in LayerOps
      BY DEF LayerOps
    <3> QED BY <1>1, <1>2, <1>6, <2>1, <2>3, <3>1, <3>2 DEF CallInv
  <2> QED BY <2>2, <2>3
<1> QED BY <1>8, <1>9, <1>10, <1>11 DEF ScopeInv

(* Steps that concern neither the layer nor its filters. *)
LEMMA ElsewhereKeeps ==
  ASSUME ScopeInv, UNCHANGED <<layerVars, filterVars, callsites>>,
         \A r \in Runs : run[r].pc = "swap" => run'[r].pc = "swap"
  PROVE  ScopeInv'
<1>1. UNCHANGED <<span, active, bound, call, current, filters, registered, callsites>>
  BY DEF layerVars, filterVars
<1>2. LayerTypes' /\ LevelInv' /\ \A t \in Threads : CallInv(t)'
  BY <1>1 DEF ScopeInv, LayerTypes, LevelInv, Levels, CallInv
<1>3. ReadyInv'
  BY <1>1 DEF ScopeInv, ReadyInv, Ready
<1> QED BY <1>2, <1>3 DEF ScopeInv

LEMMA NewFilterFields ==
  ASSUME NEW cares \in SUBSET Callsites
  PROVE  /\ NewFilter(cares) \in FilterType /\ NewFilter(cares).byId = {}
         /\ \A t \in Threads : NewFilter(cares).scope[t] = 0
  BY DEF NewFilter, FilterType

LEMMA AppendOne ==
  ASSUME NEW S, NEW q \in Seq(S), NEW e
  PROVE  Len(Append(q, e)) = Len(q) + 1 /\ \A n \in 1..Len(q) : Append(q, e)[n] = q[n]
  OBVIOUS

(* A filter is built: the threads' levels and calls are of the older ones.  *)
LEMMA FilterAdded ==
  ASSUME IInv, ScopeInv, NEW cares \in SUBSET Callsites, NEW reg,
         filters' = Append(filters, NewFilter(cares)), registered' = Append(registered, reg),
         UNCHANGED <<span, active, bound, call>>, current' >= current, current' \in Nat
  PROVE  LayerTypes' /\ LevelInv' /\ \A t \in Threads : CallInv(t)'
<1> DEFINE f == NewFilter(cares)
<1>1. f \in FilterType /\ f.byId = {} /\ \A t \in Threads : f.scope[t] = 0
  BY NewFilterFields
<1>2. LayerTypes /\ LevelInv /\ \A t \in Threads : CallInv(t)
  BY DEF ScopeInv
<1>3. current \in 0..Len(registered) /\ registered \in Seq(SUBSET Callsites)
  BY DEF IInv, CallsiteInv
<1> HIDE DEF f
<1>4. /\ filters' \in Seq(FilterType) /\ Len(filters') = Len(filters) + 1
      /\ filters'[Len(filters) + 1] = f /\ \A n \in 1..Len(filters) : filters'[n] = filters[n]
      /\ Len(filters) \in Nat /\ DOMAIN filters = 1..Len(filters) /\ DOMAIN filters' = 1..Len(filters) + 1
  <2>1. filters \in Seq(FilterType) /\ Len(filters) \in Nat /\ DOMAIN filters = 1..Len(filters)
    BY Shapes
  <2>2. filters' = Append(filters, f)
    BY DEF f
  <2> HIDE DEF FilterType
  <2>3. /\ filters' \in Seq(FilterType) /\ Len(filters') = Len(filters) + 1
        /\ filters'[Len(filters) + 1] = f /\ \A n \in 1..Len(filters) : filters'[n] = filters[n]
    BY <1>1, <2>1, <2>2, AppendProperties
  <2>4. DOMAIN filters' = 1..Len(filters')
    BY <2>3
  <2> QED BY <2>1, <2>3, <2>4
<1>5. Len(registered') = Len(registered) + 1 /\ \A n \in 1..Len(registered) : registered'[n] = registered[n]
  BY <1>3, AppendOne
<1>6. LayerTypes'
  <2>1. Len(filters') = Len(registered')
    BY <1>4, <1>5, Shapes
  <2>2. \A t \in Threads : bound'[t] <= current'
    BY Shapes
  <2> QED BY <1>2, <1>4, <2>1, <2>2 DEF LayerTypes
<1>7. LevelInv'
  <2>1. ASSUME NEW n \in DOMAIN filters', NEW t \in Threads PROVE Levels(n, t)'
    <3>1. bound'[t] = bound[t] /\ active'[t] = active[t] /\ bound[t] \in Nat /\ bound[t] < Len(filters) + 1
      BY Shapes
    <3>2. CASE n \in 1..Len(filters)
      BY <1>2, <1>4, <3>1, <3>2 DEF LevelInv, Levels
    <3>3. CASE n = Len(filters) + 1
      <4>0. filters'[n] = f
        BY <1>4, <3>3, Zenon
      <4>2. Len(filters) \in Nat
        BY <1>4, Zenon
      <4>1. filters'[n] = f /\ bound'[t] # n
        BY <3>1, <3>3, <4>0, <4>2
      <4> QED BY <1>1, <4>1 DEF Levels
    <3>4. n \in 1..Len(filters) \/ n = Len(filters) + 1
      BY <1>4
    <3> QED BY <3>2, <3>3, <3>4
  <2>2. ASSUME NEW n \in DOMAIN filters', NEW s \in filters'[n].byId
        PROVE  CallsiteOf[s] \in filters'[n].cares
    <3>1. n \in 1..Len(filters) \/ n = Len(filters) + 1
      BY <1>4
    <3>2. CASE n = Len(filters) + 1
      BY <1>1, <1>4, <2>2, <3>2, Zenon
    <3>3. CASE n \in 1..Len(filters)
      <4>1. filters'[n] = filters[n] /\ n \in DOMAIN filters
        BY <1>4, <3>3, Zenon
      <4> QED BY <1>2, <2>2, <4>1, Zenon DEF LevelInv
    <3> QED BY <3>1, <3>2, <3>3
  <2> QED BY <2>1, <2>2 DEF LevelInv
<1>8. ASSUME NEW t \in Threads PROVE CallInv(t)'
  <2>1. CallInv(t) /\ "enter" \in LayerOps
    BY <1>2 DEF LayerOps
  <2>2. call[t].op \in LayerOps => call[t].filter \in 1..Len(registered) /\ call[t].filter \in 1..current'
    <3> SUFFICES ASSUME call[t].op \in LayerOps
                 PROVE  call[t].filter \in 1..Len(registered) /\ call[t].filter \in 1..current'
      OBVIOUS
    <3>1. call[t].filter \in 1..current
      BY FilterOfCall
    <3>2. current \in Nat /\ current <= Len(registered) /\ Len(registered) \in Nat
      BY Shapes
    <3> QED BY <3>1, <3>2
  <2> QED BY <1>5, <2>1, <2>2 DEF CallInv
<1> QED BY <1>6, <1>7, <1>8

LEMMA InstallKeeps == ASSUME IInv, ScopeInv, NEW r \in Runs, InstallFirst(r) PROVE ScopeInv'
<1>1. /\ run[r].pc = "build" /\ ~state.subscriber /\ run' = [run EXCEPT ![r].pc = "active"]
      /\ UNCHANGED <<span, active, bound, call, callsites>>
  BY DEF InstallFirst, At, Goto, layerVars
<1>2. \A q \in Runs : run[q].pc # "swap"
  BY <1>1 DEF IInv, CallsiteInv
<1>3. current = 0 /\ Len(registered) = 0 /\ callsites.known = {} /\ registered \in Seq(SUBSET Callsites)
  BY <1>1, <1>2 DEF ScopeInv, ReadyInv, IInv, CallsiteInv
<1>4. CASE host
  <2>1. UNCHANGED <<layerVars, filterVars, callsites>>
    BY <1>4 DEF InstallFirst
  <2> QED BY <1>2, <2>1, ElsewhereKeeps
<1>5. CASE ~host
  <2>1. PICK cares \in SUBSET Callsites :
          /\ filters' = Append(filters, NewFilter(cares))
          /\ registered' = Append(registered, {}) /\ current' = Len(registered')
    BY <1>5 DEF InstallFirst
  <2>2. Len(registered') = 1 /\ current' = 1
    BY <1>3, <2>1
  <2>3. LayerTypes' /\ LevelInv' /\ \A t \in Threads : CallInv(t)'
    <3>1. current' >= current /\ current' \in Nat
      BY <1>3, <2>2
    <3> QED BY <1>1, <2>1, <3>1, FilterAdded, Zenon
  <2>4. \A c : ~Ready(c) /\ ~Ready(c)'
    BY <1>1, <1>3 DEF Ready
  <2>5. ReadyInv'
    BY <1>1, <2>2, <2>4 DEF ReadyInv, ScopeInv
  <2> QED BY <2>3, <2>5 DEF ScopeInv
<1> QED BY <1>4, <1>5

LEMMA RegisterKnownKeeps == ASSUME IInv, ScopeInv, NEW r \in Runs, RegisterKnown(r) PROVE ScopeInv'
<1>1. /\ run' = [run EXCEPT ![r].pc = "swap"] /\ run \in [Runs -> [pc : Pcs, mode : Modes \cup {"none"}]]
      /\ callsites' = [callsites EXCEPT !.lock = r]
      /\ registered' = Append(registered, callsites.known)
      /\ UNCHANGED <<span, active, bound, call, current>>
  BY DEF RegisterKnown, At, Goto, layerVars, IInv, LockInv, RunTypes
<1>2. PICK cares \in SUBSET Callsites : filters' = Append(filters, NewFilter(cares))
  BY DEF RegisterKnown
<1>3. current \in Nat /\ current <= Len(registered) /\ registered \in Seq(SUBSET Callsites)
      /\ callsites'.known = callsites.known
  BY <1>1 DEF IInv, CallsiteInv
<1>4. LayerTypes' /\ LevelInv' /\ \A t \in Threads : CallInv(t)'
  <2>1. current' >= current /\ current' \in Nat
    BY <1>1, <1>3
  <2> QED BY <1>1, <1>2, <2>1, FilterAdded, Zenon
<1>5. \A c : Ready(c)' <=> Ready(c)
  BY <1>1, <1>3 DEF Ready
<1>6. /\ Len(registered') = Len(registered) + 1 /\ registered'[Len(registered) + 1] = callsites.known
      /\ \A n \in 1..Len(registered) : registered'[n] = registered[n]
  <2> DEFINE known == callsites.known
  <2>1. registered' = Append(registered, known)
    BY <1>1
  <2> HIDE DEF known
  <2>2. /\ Len(registered') = Len(registered) + 1 /\ registered'[Len(registered) + 1] = known
        /\ \A n \in 1..Len(registered) : registered'[n] = registered[n]
    BY <1>3, <2>1
  <2> QED BY <2>2 DEF known
<1>7. ReadyInv'
  <2>1. run'[r].pc = "swap"
    BY <1>1
  <2>2. ASSUME current # 0, NEW c \in Callsites, Ready(c), NEW n \in current..Len(registered) + 1
        PROVE  c \in registered'[n]
    <3>1. CASE n \in current..Len(registered)
      <4>1. c \in registered[n] /\ n \in 1..Len(registered)
        BY <1>3, <2>2, <3>1 DEF ScopeInv, ReadyInv
      <4> QED BY <1>6, <4>1
    <3>2. CASE n = Len(registered) + 1
      BY <1>6, <2>2, <3>2 DEF Ready
    <3> QED BY <1>3, <3>1, <3>2
  <2>3. \A s \in Spans : span'[s] # "unborn" => Ready(CallsiteOf[s])'
    BY <1>1, <1>5 DEF ScopeInv, ReadyInv
  <2>4. current' # 0 => \A c \in Callsites : Ready(c)' => \A n \in current'..Len(registered') : c \in registered'[n]
    BY <1>1, <1>5, <1>6, <2>2
  <2> QED BY <2>1, <2>3, <2>4 DEF ReadyInv
<1> QED BY <1>4, <1>7 DEF ScopeInv

LEMMA SwapKeeps == ASSUME IInv, ScopeInv, NEW r \in Runs, Swap(r) PROVE ScopeInv'
<1>1. /\ current' = Len(registered) /\ UNCHANGED <<span, active, bound, call, filters, registered>>
      /\ callsites' = [callsites EXCEPT !.lock = IF @ = r THEN Nobody ELSE @]
      /\ run[r].pc = "swap"
  BY DEF Swap, layerVars, At
<1>2. /\ current \in 0..Len(registered) /\ current # 0 /\ Len(registered) \in Nat
      /\ callsites'.known = callsites.known
  BY <1>1 DEF IInv, CallsiteInv
<1>3. LayerTypes /\ ReadyInv /\ LevelInv /\ \A u \in Threads : CallInv(u)
  BY DEF ScopeInv
<1>4. LayerTypes'
  BY <1>1, <1>2, <1>3 DEF LayerTypes
<1>5. \A c : Ready(c)' <=> Ready(c)
  BY <1>1, <1>2 DEF Ready
<1>6. ReadyInv'
  <2>1. current' # 0 => \A c \in Callsites : Ready(c)' => \A n \in current'..Len(registered') : c \in registered'[n]
    BY <1>1, <1>2, <1>3, <1>5 DEF ReadyInv
  <2>2. \A s \in Spans : span'[s] # "unborn" => Ready(CallsiteOf[s])'
    BY <1>1, <1>3, <1>5 DEF ReadyInv
  <2> QED BY <1>1, <2>1, <2>2 DEF ReadyInv
<1>7. LevelInv'
  BY <1>1, <1>3 DEF LevelInv, Levels
<1>8. \A t \in Threads : CallInv(t)'
  BY <1>1, <1>2, <1>3 DEF CallInv
<1> QED BY <1>4, <1>6, <1>7, <1>8 DEF ScopeInv

LEMMA RunKeeps ==
  ASSUME IInv, ScopeInv, NEW r \in Runs,
         Acquire(r) \/ CheckMode(r) \/ LookForOurs(r) \/ LookForForeign(r) \/ KeepForeign(r)
           \/ OpenLog(r) \/ ReleasePolicy(r) \/ ReleaseState(r)
  PROVE  ScopeInv'
<1>1. UNCHANGED <<layerVars, filterVars, callsites>> /\ run[r].pc # "swap"
  BY DEF Acquire, CheckMode, LookForOurs, LookForForeign, KeepForeign, OpenLog, ReleasePolicy,
         ReleaseState, At
<1>2. \A q \in Runs : q # r => run'[q] = run[q]
  BY DEF Acquire, CheckMode, LookForOurs, LookForForeign, KeepForeign, OpenLog, ReleasePolicy,
         ReleaseState, Goto, Ends, IInv, LockInv, RunTypes
<1> QED BY <1>1, <1>2, ElsewhereKeeps

LEMMA ScopeInit == LogInit => ScopeInv
<1> SUFFICES ASSUME LogInit PROVE ScopeInv
  OBVIOUS
<1>1. /\ filters = <<>> /\ registered = <<>> /\ current = 0
      /\ \A t \in Threads : call[t] = NoCall /\ bound[t] = 0 /\ active[t] = <<>>
      /\ NoCall.op = "none" /\ \A s \in Spans : span[s] = "unborn"
  BY DEF LogInit, NoCall
<1>2. LayerTypes
  <2>1. filters \in Seq(FilterType) /\ Len(filters) = Len(registered)
    BY <1>1
  <2>2. span \in [Spans -> {"unborn", "open", "closing", "closed"}]
    BY DEF LogInit
  <2>3. active \in [Threads -> Seq(Spans)] /\ bound \in [Threads -> Nat]
    BY DEF LogInit
  <2>4. \A t \in Threads : /\ bound[t] <= current /\ call[t].op = "none"
    BY <1>1
  <2> QED BY <2>1, <2>2, <2>3, <2>4 DEF LayerTypes
<1>3. ReadyInv
  BY <1>1 DEF ReadyInv
<1>4. \A t \in Threads : CallInv(t)
  <2>1. \A t \in Threads : Range(active[t]) = {} /\ call[t].op = "none"
    BY <1>1 DEF Range
  <2> QED BY <2>1 DEF CallInv, LayerOps
<1>5. LevelInv
  BY <1>1 DEF LevelInv
<1> QED BY <1>2, <1>3, <1>4, <1>5 DEF ScopeInv

LEMMA ScopeStep == IInv /\ ScopeInv /\ [LogNext]_vars => ScopeInv'
<1> SUFFICES ASSUME IInv, ScopeInv, [LogNext]_vars PROVE ScopeInv'
  OBVIOUS
<1>1. CASE UNCHANGED vars
  BY <1>1, ElsewhereKeeps DEF vars, runVars
<1>2. CASE HostInstalls
  BY <1>2, ElsewhereKeeps DEF HostInstalls
<1>3. CASE LogNext /\ ~HostInstalls
  BY <1>3, RunKeeps, InstallKeeps, RegisterKnownKeeps, SwapKeeps, NoteKeeps, RegisterKeeps,
     BeginKeeps, EnabledKeeps, NewSpanKeeps, EnterKeeps, ExitKeeps, CloseKeeps
     DEF LogNext
<1> QED BY <1>1, <1>2, <1>3

(* Whenever a thread is bound to the filter in force, that filter's stack   *)
(* has one level for each entered span its directives match, for any number *)
(* of runs, threads and spans and however deep they are entered: a reload   *)
(* loses no level and leaves none behind (sync_filter, replay_span,         *)
(* on_enter, on_exit, init_logging_recvr).                                  *)
THEOREM LevelsFollowSpans == LogSpec => []ScopeFollowsSpans
<1>1. LogInit => IInv /\ ScopeInv
  BY InitEstablishes, ScopeInit
<1>2. IInv /\ ScopeInv /\ [LogNext]_vars => (IInv /\ ScopeInv)'
  BY Inductive, ScopeStep
<1>3. IInv /\ ScopeInv => ScopeFollowsSpans
  <2> SUFFICES ASSUME IInv, ScopeInv, NEW t \in Threads, bound[t] # 0, bound[t] = current
               PROVE  filters[current].scope[t]
                        = Cardinality({i \in DOMAIN active[t] :
                                         CallsiteOf[active[t][i]] \in filters[current].cares})
    BY DEF ScopeFollowsSpans
  <2>1. current \in DOMAIN filters
    BY Shapes
  <2>2. Levels(current, t)
    BY <2>1 DEF ScopeInv, LevelInv
  <2> QED BY <2>2 DEF Levels, Hits
<1> QED BY <1>1, <1>2, <1>3, PTL DEF LogSpec

=============================================================================
