------------------------------ MODULE Logging ------------------------------
(* Process-wide logging of lyrebird: init_logging_recvr and LoggingGuard    *)
(* (src/crates/lyrebird/src/lib.rs), which share one subscriber between     *)
(* successive and overlapping runs, and ManagedLayer (logging_layer.rs),    *)
(* which lets a run replace the filter while spans are entered.             *)
(*                                                                          *)
(* EnvFilter is external: per filter, the callsites registered with it, the *)
(* spans it knows (byId), and per thread a stack of levels, kept here by    *)
(* its height (scope).  A filter cares only for the callsites its           *)
(* directives match.  Sinks, formatting and field values are left out.      *)
EXTENDS Naturals, FiniteSets, Sequences, Functions

CONSTANTS
  Runs,        \* embedded runs of lyrebird in one process
  Threads,     \* threads that create, enter and leave spans
  Callsites,   \* span callsites
  Spans,       \* spans the threads may create
  CallsiteOf,  \* the callsite of each span
  Modes,       \* logging policies: safe and unsafe
  MaxStarts,   \* bound: runs started
  MaxDepth     \* bound: spans entered at once on a thread

VARIABLES
  run,         \* per run: where it stands in init_logging_recvr, its mode
  starts,      \* number of runs started (bound)
  safelog,     \* runs that hold a safelog guard
  state,       \* LOGGING_STATE: lock holder, active_guards, mode, subscriber
  host,        \* a subscriber of the host process is the global default
  current,     \* LogConfig in force: 0 before the subscriber is installed
  filters,     \* EnvFilter instances: cares, byId, scope
  registered,  \* the callsites registered with each of them
  callsites,   \* the callsites vector and the holder of its lock
  span,        \* per span: "unborn", "open", "closing", "closed"
  active,      \* ACTIVE_SPANS of each thread
  bound,       \* BOUND_FILTER of each thread
  call         \* the layer call each thread is in, and the filter it read

runVars == <<run, starts, safelog, state, host>>
layerVars == <<span, active, bound, call>>
filterVars == <<current, filters, registered>>
vars == <<runVars, layerVars, filterVars, callsites>>

Nobody == "nobody"
Filters == 1..MaxStarts
NoCall == [op |-> "none"]
Idle == [pc |-> "idle", mode |-> "none"]

ASSUME LoggingConstants ==
  /\ IsFiniteSet(Runs)
  /\ Runs \cap Threads = {} /\ Nobody \notin Runs \cup Threads

LogInit ==
  /\ run = [r \in Runs |-> Idle]
  /\ starts = 0 /\ safelog = {}
  /\ state = [lock |-> Nobody, guards |-> 0, mode |-> "none", subscriber |-> FALSE]
  /\ host = FALSE
  /\ current = 0
  /\ filters = <<>> /\ registered = <<>>
  /\ callsites = [known |-> {}, lock |-> Nobody]
  /\ span = [s \in Spans |-> "unborn"]
  /\ active = [t \in Threads |-> <<>>]
  /\ bound = [t \in Threads |-> 0]
  /\ call = [t \in Threads |-> NoCall]

-----------------------------------------------------------------------------
(* init_logging_recvr *)

At(r, pc) == run[r].pc = pc
Goto(r, pc) == run' = [run EXCEPT ![r].pc = pc]
Ends(r) == run' = [run EXCEPT ![r] = Idle]
Unlocked == state.lock = Nobody

(* safelog refuses a guard while one of the other policy is held. *)
Acquire(r) ==
  /\ run[r].pc \in {"idle", "refused"} /\ starts < MaxStarts
  /\ starts' = starts + 1
  /\ \E m \in Modes :
       IF \A q \in safelog : run[q].mode = m
         THEN /\ run' = [run EXCEPT ![r] = [pc |-> "check", mode |-> m]]
              /\ safelog' = safelog \cup {r}
         ELSE /\ run' = [run EXCEPT ![r] = [pc |-> "refused", mode |-> m]]
              /\ UNCHANGED safelog
  /\ UNCHANGED <<state, host, layerVars, filterVars, callsites>>

(* The first look at LOGGING_STATE: another policy is still in use. *)
CheckMode(r) ==
  /\ At(r, "check") /\ Unlocked
  /\ IF state.guards > 0 /\ state.mode # run[r].mode
       THEN Goto(r, "refused") /\ safelog' = safelog \ {r}
       ELSE Goto(r, "look") /\ UNCHANGED safelog
  /\ UNCHANGED <<starts, state, host, layerVars, filterVars, callsites>>

(* foreign_subscriber_installed, first half: our subscriber, under the lock. *)
LookForOurs(r) ==
  /\ At(r, "look") /\ Unlocked
  /\ Goto(r, IF state.subscriber THEN "ours" ELSE "none")
  /\ UNCHANGED <<starts, safelog, state, host, layerVars, filterVars, callsites>>

(* Second half: the global default, which another run may have installed in *)
(* between and which then counts as foreign.                                *)
LookForForeign(r) ==
  /\ run[r].pc \in {"ours", "none"}
  /\ Goto(r, IF host \/ (At(r, "none") /\ current # 0) THEN "foreign" ELSE "own")
  /\ UNCHANGED <<starts, safelog, state, host, layerVars, filterVars, callsites>>

Counted(r, subscriber) ==
  [lock |-> Nobody, guards |-> state.guards + 1, mode |-> run[r].mode, subscriber |-> subscriber]

(* A host's subscriber is kept; the run is only counted. *)
KeepForeign(r) ==
  /\ At(r, "foreign") /\ Unlocked
  /\ Goto(r, "active")
  /\ state' = Counted(r, state.subscriber)
  /\ UNCHANGED <<starts, safelog, host, layerVars, filterVars, callsites>>

(* Mutant: the run is counted before the log file is opened. *)
CountBeforeOpen(r) ==
  /\ At(r, "own") /\ Unlocked
  /\ \/ Goto(r, "build") /\ state' = [state EXCEPT !.lock = r] /\ UNCHANGED safelog
     \/ /\ Ends(r)
        /\ state' = Counted(r, state.subscriber)
        /\ safelog' = safelog \ {r}
  /\ UNCHANGED <<starts, host, layerVars, filterVars, callsites>>

(* The lock is taken for the rest of the call; the log file may not open.   *)
OpenLog(r) ==
  /\ At(r, "own") /\ Unlocked
  /\ \/ Goto(r, "build") /\ state' = [state EXCEPT !.lock = r] /\ UNCHANGED safelog
     \/ Ends(r) /\ safelog' = safelog \ {r} /\ UNCHANGED state
  /\ UNCHANGED <<starts, host, layerVars, filterVars, callsites>>

NewFilter(cares) == [cares |-> cares, byId |-> {}, scope |-> [t \in Threads |-> 0]]

(* First run: set_global_default, which fails when a host came first. *)
InstallFirst(r) ==
  /\ At(r, "build") /\ ~state.subscriber
  /\ Goto(r, "active")
  /\ state' = Counted(r, ~host)
  /\ IF host THEN UNCHANGED filterVars
     ELSE \E cares \in SUBSET Callsites :
            /\ filters' = Append(filters, NewFilter(cares))
            /\ registered' = Append(registered, {})
            /\ current' = Len(registered')
  /\ UNCHANGED <<starts, safelog, host, layerVars, callsites>>

(* Mutant: the callsites lock is released before the configuration swap. *)
RegisterUnlocked(r) ==
  /\ At(r, "build") /\ state.subscriber /\ callsites.lock = Nobody
  /\ Goto(r, "swap")
  /\ \E cares \in SUBSET Callsites :
       filters' = Append(filters, NewFilter(cares))
  /\ registered' = Append(registered, callsites.known)
  /\ UNCHANGED <<starts, safelog, state, host, layerVars, current, callsites>>

(* Later runs: the known callsites are registered with the new filter ...   *)
RegisterKnown(r) ==
  /\ At(r, "build") /\ state.subscriber /\ callsites.lock = Nobody
  /\ Goto(r, "swap")
  /\ callsites' = [callsites EXCEPT !.lock = r]
  /\ \E cares \in SUBSET Callsites :
       filters' = Append(filters, NewFilter(cares))
  /\ registered' = Append(registered, callsites.known)
  /\ UNCHANGED <<starts, safelog, state, host, layerVars, current>>

(* ... and it replaces the old one before the callsites lock is released.   *)
Swap(r) ==
  /\ At(r, "swap")
  /\ Goto(r, "active")
  /\ current' = Len(registered)
  /\ callsites' = [callsites EXCEPT !.lock = IF @ = r THEN Nobody ELSE @]
  /\ state' = Counted(r, state.subscriber)
  /\ UNCHANGED <<starts, safelog, host, layerVars, filters, registered>>

(* LoggingGuard::drop: the safelog guard goes first ... *)
ReleasePolicy(r) ==
  /\ At(r, "active")
  /\ Goto(r, "dropping")
  /\ safelog' = safelog \ {r}
  /\ UNCHANGED <<starts, state, host, layerVars, filterVars, callsites>>

(* ... then the count, and with the last run the mode. *)
ReleaseState(r) ==
  /\ At(r, "dropping") /\ Unlocked
  /\ Ends(r)
  /\ LET left == IF state.guards = 0 THEN 0 ELSE state.guards - 1 IN
       state' = [lock |-> Nobody, guards |-> left, subscriber |-> state.subscriber,
                 mode |-> IF left = 0 THEN "none" ELSE state.mode]
  /\ UNCHANGED <<starts, safelog, host, layerVars, filterVars, callsites>>

(* External: the host process installs its own subscriber, if it is first. *)
HostInstalls ==
  /\ ~host /\ current = 0
  /\ host' = TRUE
  /\ UNCHANGED <<run, starts, safelog, state, layerVars, filterVars, callsites>>

-----------------------------------------------------------------------------
(* EnvFilter (external), as the layer uses it *)

(* on_new_span: known to the filter when its callsite has a matcher there,  *)
(* which needs the callsite among those registered with it (reg).           *)
Learn(f, reg, s) ==
  IF CallsiteOf[s] \in reg \cap f.cares
    THEN [f EXCEPT !.byId = @ \cup {s}] ELSE f

Push(f, t, s) == IF s \in f.byId THEN [f EXCEPT !.scope[t] = @ + 1] ELSE f

Pop(f, t, s) ==
  IF s \in f.byId /\ f.scope[t] > 0 THEN [f EXCEPT !.scope[t] = @ - 1] ELSE f

Forget(f, s) == [f EXCEPT !.byId = @ \ {s}]

-----------------------------------------------------------------------------
(* ManagedLayer *)

(* register_callsite: recorded, then registered with the filter in force,   *)
(* all under the callsites lock.                                            *)
NoteCallsite(t, c) ==
  /\ current # 0 /\ call[t] = NoCall
  /\ callsites.lock = Nobody /\ c \notin callsites.known
  /\ callsites' = [known |-> callsites.known \cup {c}, lock |-> t]
  /\ call' = [call EXCEPT ![t] = [op |-> "register", callsite |-> c]]
  /\ UNCHANGED <<runVars, span, active, bound, filterVars>>

RegisterCallsite(t) ==
  /\ call[t].op = "register"
  /\ registered' = [registered EXCEPT ![current] = @ \cup {call[t].callsite}]
  /\ callsites' = [callsites EXCEPT !.lock = Nobody]
  /\ call' = [call EXCEPT ![t] = NoCall]
  /\ UNCHANGED <<runVars, span, active, bound, current, filters>>

(* Every other call begins with current_filter. *)
Fetch(t, op, s) ==
  /\ current # 0 /\ call[t] = NoCall
  /\ call' = [call EXCEPT ![t] = [op |-> op, span |-> s, filter |-> current]]
  /\ UNCHANGED <<runVars, active, bound, filterVars, callsites>>

InUse(s) == \E t \in Threads : \/ s \in Range(active[t])
                               \/ call[t].op \in {"new", "enter"} /\ call[t].span = s

(* A callsite is registered before a span of it is created. *)
Ready(c) == /\ c \in callsites.known
            /\ \A t \in Threads : call[t].op = "register" => call[t].callsite # c

Begin(t) ==
  \/ /\ \E s \in Spans : /\ span[s] = "unborn" /\ Ready(CallsiteOf[s])
                         /\ span' = [span EXCEPT ![s] = "open"]
                         /\ Fetch(t, "new", s)
  \/ /\ \E s \in Spans : /\ span[s] = "open" /\ Len(active[t]) < MaxDepth
                         /\ ~\E u \in Threads : call[u].op = "new" /\ call[u].span = s
                         /\ Fetch(t, "enter", s)
     /\ UNCHANGED span
  \/ (\E s \in Range(active[t]) : Fetch(t, "exit", s)) /\ UNCHANGED span
  \/ /\ \E s \in Spans : /\ span[s] = "open" /\ ~InUse(s)
                         /\ span' = [span EXCEPT ![s] = "closing"]
                         /\ Fetch(t, "close", s)
  \/ \* enabled, on_record: only the filter is brought up to date
     /\ bound[t] # current /\ Fetch(t, "enabled", "") /\ UNCHANGED span

(* The loop of sync_filter: each of the spans is replayed and entered.  The *)
(* filter then knows those it matches, and has a level for each it knows.   *)
Replay(f, reg, t, spans) ==
  LET known == f.byId \cup {s \in Range(spans) : CallsiteOf[s] \in reg \cap f.cares} IN
    [f EXCEPT !.byId = known,
              !.scope[t] = @ + Cardinality({i \in DOMAIN spans : spans[i] \in known})]

(* sync_filter: a thread new to the filter replays the spans it is in. *)
Sync(t, f) ==
  IF bound[t] = call[t].filter THEN f
  ELSE Replay(f, registered[call[t].filter], t, active[t])

(* The last occurrence of s is removed. *)
Without(seq, s) ==
  LET at == CHOOSE i \in DOMAIN seq :
              seq[i] = s /\ \A j \in i + 1..Len(seq) : seq[j] # s
  IN  SubSeq(seq, 1, at - 1) \o SubSeq(seq, at + 1, Len(seq))

Return(t, f) ==
  /\ filters' = [filters EXCEPT ![call[t].filter] = f]
  /\ bound' = [bound EXCEPT ![t] = call[t].filter]
  /\ call' = [call EXCEPT ![t] = NoCall]
  /\ UNCHANGED <<runVars, current, registered, callsites>>

Synced(t) == Sync(t, filters[call[t].filter])

Enabled(t) ==
  /\ call[t].op = "enabled"
  /\ Return(t, Synced(t))
  /\ UNCHANGED <<span, active>>

OnNewSpan(t) ==
  /\ call[t].op = "new"
  /\ Return(t, Learn(Synced(t), registered[call[t].filter], call[t].span))
  /\ UNCHANGED <<span, active>>

(* Mutant: the span is not replayed to the filter it is entered under. *)
EnterUnreplayed(t) ==
  /\ call[t].op = "enter"
  /\ Return(t, Push(Synced(t), t, call[t].span))
  /\ active' = [active EXCEPT ![t] = Append(@, call[t].span)]
  /\ UNCHANGED span

(* The span is replayed to the filter even if it was created under another. *)
OnEnter(t) ==
  /\ call[t].op = "enter"
  /\ LET s == call[t].span IN
       Return(t, Push(Learn(Synced(t), registered[call[t].filter], s), t, s))
  /\ active' = [active EXCEPT ![t] = Append(@, call[t].span)]
  /\ UNCHANGED span

OnExit(t) ==
  /\ call[t].op = "exit"
  /\ Return(t, Pop(Synced(t), t, call[t].span))
  /\ active' = [active EXCEPT ![t] = Without(@, call[t].span)]
  /\ UNCHANGED span

OnClose(t) ==
  /\ call[t].op = "close"
  /\ Return(t, Forget(Synced(t), call[t].span))
  /\ span' = [span EXCEPT ![call[t].span] = "closed"]
  /\ UNCHANGED active

LogNext ==
  \/ \E r \in Runs :
       \/ Acquire(r) \/ CheckMode(r) \/ LookForOurs(r) \/ LookForForeign(r)
       \/ KeepForeign(r) \/ OpenLog(r) \/ InstallFirst(r) \/ RegisterKnown(r)
       \/ Swap(r) \/ ReleasePolicy(r) \/ ReleaseState(r)
  \/ HostInstalls
  \/ \E t \in Threads :
       \/ \E c \in Callsites : NoteCallsite(t, c)
       \/ RegisterCallsite(t) \/ Begin(t) \/ Enabled(t) \/ OnNewSpan(t)
       \/ OnEnter(t) \/ OnExit(t) \/ OnClose(t)

LogSpec == LogInit /\ [][LogNext]_vars

-----------------------------------------------------------------------------
(* Between its layer calls, a thread that is bound to the filter in force   *)
(* has exactly one level on that filter's stack per entered span that the   *)
(* filter's directives match, whichever filters the spans were created and  *)
(* entered under: a reload (init_logging_recvr) neither loses the levels of *)
(* entered spans nor leaves one behind when they exit (sync_filter,         *)
(* replay_span, on_enter, on_exit).                                         *)
ScopeFollowsSpans ==
  \A t \in Threads :
    (call[t] = NoCall /\ bound[t] # 0 /\ bound[t] = current) =>
      LET f == filters[current] IN
        f.scope[t] = Cardinality({i \in DOMAIN active[t] :
                                    CallsiteOf[active[t][i]] \in f.cares})

(* Whenever nobody is inside the callsites lock, the filter in force has    *)
(* been told of every callsite the process has met, those met while a run   *)
(* was installing it included (register_callsite, init_logging_recvr).      *)
EveryCallsiteKnown ==
  (current # 0 /\ callsites.lock = Nobody) =>
    callsites.known \subseteq registered[current]

(* A run is turned away for its logging mode only while another run of the  *)
(* other mode still holds the policy or has not finished dropping it; no    *)
(* earlier run, ended or failed, leaves the mode behind.                    *)
RefusedForCause ==
  [][\A r \in Runs : (run'[r].pc = "refused" /\ run[r].pc # "refused") =>
       \E q \in Runs \ {r} : /\ run[q].mode # run'[r].mode
                             /\ run[q].pc \notin {"idle", "refused"}]_vars

=============================================================================
