------------------------------ MODULE Lifecycle ------------------------------
(***************************************************************************)
(* One run of the lyrebird client (crates/lyrebird/src/lifecycle.rs and    *)
(* the accept loop of crates/lyrebird/src/lib.rs): the driver that waits   *)
(* for a reason to stop and tears everything down, the accept loops, the   *)
(* connection tasks they spawn, and the RunOwner guard that cleans up when *)
(* the caller drops the run instead of driving it to completion.           *)
(*                                                                         *)
(* Each of these runs on its own worker thread; one action is the code     *)
(* between two points where another thread can be observed (an await, a    *)
(* lock, an atomic flag).                                                  *)
(***************************************************************************)
EXTENDS Integers, FiniteSets

CONSTANTS Listeners,   \* accept loops: one per transport that can be bound
          Tasks,       \* connection tasks; bounds how many are ever spawned
          MaxConns     \* MAX_CONCURRENT_CONNS

VARIABLES
    drv,        \* where the driver is (run_with_setup, drive, cancel_connections)
    exit,       \* ExitKind, once the driver's select loop has ended
    result,     \* what the run returned
    accept,     \* RunTasks.accept is cancelled
    conns,      \* RunTasks.conns is cancelled
    permits,    \* RunTasks.lifecycle: permits available
    lock,       \* RunTasks.connections: who holds the scheduler lock
    aborts,     \* RunTasks.aborts: tasks with a registered abort handle
    handleLock, \* who holds the mutex of aborts across a step
    task,       \* per connection task: its life in the JoinSet
    aborted,    \* tasks whose abort was requested
    lst,        \* per accept loop: its program counter
    spawning,   \* per accept loop: the task it is registering, or NoTask
    owner,      \* where RunOwner::drop is
    signal,     \* signals the live receivers hold
    stdin,      \* the parent closed our stdin
    dropped,    \* the caller dropped the run's future
    termSent    \* history: SIGTERM was delivered to the process

driverVars == <<drv, exit, result>>
tokenVars == <<accept, conns>>
poolVars == <<permits, lock, aborts, handleLock, task, aborted>>
loopVars == <<lst, spawning>>
envVars == <<signal, stdin, dropped, termSent>>
vars == <<driverVars, tokenVars, poolVars, loopVars, owner, envVars>>

NoTask == "no task"
Nobody == "nobody"

(* How the run ended: a kind, and the listener whose loss caused it.       *)
Ending(kind) == [kind |-> kind, cause |-> Nobody]
Free == "free"
Driver == "driver"

ASSUME LifecycleConstants ==
    /\ IsFiniteSet(Listeners) /\ Listeners \intersect {Free, Driver} = {}
    /\ IsFiniteSet(Tasks) /\ NoTask \notin Tasks
    /\ MaxConns \in Nat \ {0}

(* A task is in the JoinSet while it runs and until it is joined. *)
Running == {t \in Tasks : task[t] = "running"}
InJoinSet == {t \in Tasks : task[t] \in {"running", "finished"}}

(* An accept loop that has not ended, and one that has ended unjoined. *)
LoopPcs == {"accept", "retry", "permit", "check", "lock", "spawn", "insert",
            "flags", "reap"}
Ended == {"ok", "err", "panic"}
Unjoined == {l \in Listeners : lst[l] \in LoopPcs \union Ended}

(* A receiver for signals exists only while one of drive's selects waits:  *)
(* each select calls signal() anew and drops it when it ends.              *)
Receiving == drv \in {"select", "drain"}

-----------------------------------------------------------------------------
Init ==
    /\ drv = "setup" /\ exit = Ending("none") /\ result = Ending("none")
    /\ accept = FALSE /\ conns = FALSE
    /\ permits = MaxConns
    /\ lock = Free /\ aborts = {} /\ handleLock = Free
    /\ task = [t \in Tasks |-> "unused"] /\ aborted = {}
    /\ lst = [l \in Listeners |-> "off"]
    /\ spawning = [l \in Listeners |-> NoTask]
    /\ owner = "held"
    /\ signal = {} /\ stdin = FALSE /\ dropped = FALSE /\ termSent = FALSE

-----------------------------------------------------------------------------
(* run_with_setup: client_setup failed, or spawned the bound listeners.    *)
SetupFails ==
    /\ drv = "setup"
    /\ drv' = "returned" /\ result' = Ending("setup error") /\ owner' = "stop"
    /\ UNCHANGED <<exit, tokenVars, poolVars, loopVars, envVars>>

SetupDone(S) ==
    /\ drv = "setup"
    /\ drv' = "select"
    /\ lst' = [l \in Listeners |-> IF l \in S THEN "accept" ELSE "off"]
    /\ UNCHANGED <<exit, result, tokenVars, poolVars, spawning, owner, envVars>>

(* drive's select loop, one action per branch.                             *)
BreakSelect(e) ==
    /\ drv' = "stop" /\ exit' = e /\ signal' = {}
    /\ UNCHANGED <<result, tokenVars, poolVars, owner, stdin, dropped, termSent>>

SelectNoListener ==
    /\ drv = "select" /\ Unjoined = {}
    /\ BreakSelect(Ending("ProxyClosed"))
    /\ UNCHANGED loopVars

(* (A client's accept loop returns Ok only once accepting was cancelled,   *)
(* which is after this loop, so the arm for a listener that stopped is     *)
(* never taken.)                                                           *)

SelectListenerFailed(l) ==
    /\ drv = "select" /\ lst[l] \in {"err", "panic"}
    /\ lst' = [lst EXCEPT ![l] = "joined"]
    /\ BreakSelect([kind |-> "ListenerFailed", cause |-> l])
    /\ UNCHANGED spawning

SelectSignal ==
    /\ drv = "select"
    /\ \E s \in signal : BreakSelect(Ending(IF s = "term" THEN "Terminate" ELSE "Interrupt"))
    /\ UNCHANGED loopVars

SelectStdin ==
    /\ drv = "select" /\ stdin
    /\ BreakSelect(Ending("ParentClosedStdin"))
    /\ UNCHANGED loopVars

StopAccepting ==
    /\ drv = "stop"
    /\ accept' = TRUE /\ drv' = "joinAccept"
    /\ UNCHANGED <<exit, result, conns, poolVars, loopVars, owner, envVars>>

(* Mutant: a listener that fails in the teardown replaces the cause.       *)
LaterLossReplacesCause(l) ==
    /\ drv = "joinAccept" /\ lst[l] \in Ended
    /\ lst' = [lst EXCEPT ![l] = "joined"]
    /\ exit' = IF exit.kind = "ListenerFailed" /\ lst[l] # "ok" THEN [exit EXCEPT !.cause = l]
               ELSE exit
    /\ UNCHANGED <<drv, result, tokenVars, poolVars, spawning, owner, envVars>>

(* join_accept_loops: results that surface here are only logged.           *)
JoinAcceptLoop(l) ==
    /\ drv = "joinAccept" /\ lst[l] \in Ended
    /\ lst' = [lst EXCEPT ![l] = "joined"]
    /\ UNCHANGED <<driverVars, tokenVars, poolVars, spawning, owner, envVars>>

(* Mutant: the teardown does not wait for the accept loops.                *)
AcceptLoopsNotAwaited ==
    /\ drv = "joinAccept"
    /\ drv' = IF exit.kind \in {"Terminate", "ParentClosedStdin"} THEN "cancel" ELSE "drain"
    /\ UNCHANGED <<exit, result, tokenVars, poolVars, loopVars, owner, envVars>>

AcceptLoopsJoined ==
    /\ drv = "joinAccept" /\ Unjoined = {}
    /\ drv' = IF exit.kind \in {"Terminate", "ParentClosedStdin"} THEN "cancel" ELSE "drain"
    /\ UNCHANGED <<exit, result, tokenVars, poolVars, loopVars, owner, envVars>>

(* The graceful drain: wait_idle, against DRAIN_GRACE, a signal and stdin. *)
Drained ==
    /\ drv = "drain" /\ permits = MaxConns
    /\ drv' = "joinFinal" /\ signal' = {}
    /\ UNCHANGED <<exit, result, tokenVars, poolVars, loopVars, owner,
                   stdin, dropped, termSent>>

EndDrain ==
    /\ drv' = "cancel" /\ signal' = {}
    /\ UNCHANGED <<exit, result, tokenVars, poolVars, loopVars, owner,
                   stdin, dropped, termSent>>

DrainTimeout == drv = "drain" /\ EndDrain
DrainSignal == drv = "drain" /\ signal # {} /\ EndDrain
DrainStdin == drv = "drain" /\ stdin /\ EndDrain

(* cancel_connections: the token, FORCE_GRACE for the tasks to go idle,    *)
(* then abort_all under the scheduler lock.                                *)
CancelConns ==
    /\ drv = "cancel"
    /\ conns' = TRUE /\ drv' = "forceWait"
    /\ UNCHANGED <<exit, result, accept, poolVars, loopVars, owner, envVars>>

ForcedIdle ==
    /\ drv = "forceWait" /\ permits = MaxConns
    /\ drv' = "joinForced"
    /\ UNCHANGED <<exit, result, tokenVars, poolVars, loopVars, owner, envVars>>

ForceTimeout ==
    /\ drv = "forceWait"
    /\ drv' = "abortAll"
    /\ UNCHANGED <<exit, result, tokenVars, poolVars, loopVars, owner, envVars>>

AbortAll ==
    /\ drv = "abortAll" /\ lock = Free
    /\ aborted' = aborted \union Running
    /\ drv' = "joinForced"
    /\ UNCHANGED <<exit, result, tokenVars, permits, lock, aborts, handleLock, task,
                   loopVars, owner, envVars>>

(* join_connection_tasks holds the scheduler lock until the set is empty.  *)
Joining == drv \in {"joinForced", "joinFinal"}

JoinLock ==
    /\ Joining /\ lock = Free
    /\ lock' = Driver
    /\ UNCHANGED <<driverVars, tokenVars, permits, aborts, handleLock, task, aborted,
                   loopVars, owner, envVars>>

JoinTask(t) ==
    /\ Joining /\ lock = Driver /\ task[t] = "finished"
    /\ handleLock = Free
    /\ task' = [task EXCEPT ![t] = "joined"]
    /\ aborts' = aborts \ {t}
    /\ UNCHANGED <<driverVars, tokenVars, permits, lock, handleLock, aborted,
                   loopVars, owner, envVars>>

RunResult == IF exit.kind = "ListenerFailed"
             THEN [kind |-> "err", cause |-> exit.cause] ELSE Ending("ok")

JoinSetEmpty ==
    /\ Joining /\ lock = Driver /\ InJoinSet = {}
    /\ lock' = Free
    /\ IF drv = "joinForced"
       THEN drv' = "joinFinal" /\ UNCHANGED <<result, owner>>
       ELSE drv' = "returned" /\ result' = RunResult /\ owner' = "stop"
    /\ UNCHANGED <<exit, tokenVars, permits, aborts, handleLock, task, aborted,
                   loopVars, envVars>>

-----------------------------------------------------------------------------
(* client_accept_loop.  Goto moves one loop without touching anything else.*)
Goto(l, pc) ==
    /\ lst' = [lst EXCEPT ![l] = pc]
    /\ UNCHANGED <<driverVars, tokenVars, poolVars, spawning, owner, envVars>>

(* Tasks bounds how many connections arrive.                               *)
Unclaimed == {t \in Tasks : task[t] = "unused"}
Claiming == {l \in Listeners : lst[l] \in {"permit", "check", "lock", "spawn"}}

Accepts(l) ==
    /\ lst[l] = "accept" /\ Cardinality(Claiming) < Cardinality(Unclaimed)
    /\ Goto(l, "permit")
AcceptFailsTransiently(l) ==
    lst[l] = "accept" /\ Goto(l, IF accept THEN "ok" ELSE "retry")
AcceptFailsFatally(l) == lst[l] = "accept" /\ Goto(l, "err")
LoopPanics(l) == lst[l] = "accept" /\ Goto(l, "panic")
AcceptCancelled(l) == lst[l] \in {"accept", "retry"} /\ accept /\ Goto(l, "ok")
RetryTimer(l) == lst[l] = "retry" /\ ~dropped /\ Goto(l, "accept")

(* (The sleep of an aborted loop is not resumed; a retry select entered    *)
(* after cancellation ends at its first poll.)                             *)

(* connection_permit is biased: cancellation wins over a free permit.      *)
(* Mutant: cancellation is noticed only once a permit is free.             *)
PermitWaitNotCancelled(l) ==
    lst[l] = "permit" /\ accept /\ permits > 0 /\ Goto(l, "ok")

PermitCancelled(l) == lst[l] = "permit" /\ accept /\ Goto(l, "ok")

AcquirePermit(l) ==
    /\ lst[l] = "permit" /\ ~accept /\ permits > 0
    /\ permits' = permits - 1
    /\ lst' = [lst EXCEPT ![l] = "check"]
    /\ UNCHANGED <<driverVars, tokenVars, lock, aborts, handleLock, task, aborted,
                   spawning, owner, envVars>>

(* Mutant: the permit is lost when the second check finds a cancelled run. *)
RecheckLeaksPermit(l) ==
    /\ lst[l] = "check"
    /\ lst' = [lst EXCEPT ![l] = IF accept THEN "ok" ELSE "lock"]
    /\ UNCHANGED <<driverVars, tokenVars, poolVars, spawning, owner, envVars>>

RecheckCancelled(l) ==
    /\ lst[l] = "check"
    /\ IF accept
       THEN permits' = permits + 1 /\ lst' = [lst EXCEPT ![l] = "ok"]
       ELSE UNCHANGED permits /\ lst' = [lst EXCEPT ![l] = "lock"]
    /\ UNCHANGED <<driverVars, tokenVars, lock, aborts, handleLock, task, aborted,
                   spawning, owner, envVars>>

(* RunTasks::spawn_connection.  The permit moves into the task.            *)
LockScheduler(l) ==
    /\ lst[l] = "lock" /\ lock = Free
    /\ lock' = l
    /\ lst' = [lst EXCEPT ![l] = "spawn"]
    /\ UNCHANGED <<driverVars, tokenVars, permits, aborts, handleLock, task, aborted,
                   spawning, owner, envVars>>

SpawnTask(l, t) ==
    /\ lst[l] = "spawn" /\ task[t] = "unused"
    /\ task' = [task EXCEPT ![t] = "running"]
    /\ spawning' = [spawning EXCEPT ![l] = t]
    /\ lst' = [lst EXCEPT ![l] = "insert"]
    /\ UNCHANGED <<driverVars, tokenVars, permits, lock, aborts, handleLock, aborted,
                   owner, envVars>>

InsertHandle(l) ==
    /\ lst[l] = "insert" /\ handleLock = Free
    /\ handleLock' = l
    /\ aborts' = aborts \union {spawning[l]}
    /\ lst' = [lst EXCEPT ![l] = "flags"]
    /\ UNCHANGED <<driverVars, tokenVars, permits, lock, task, aborted,
                   spawning, owner, envVars>>

(* Mutant: a task registered after cancellation is not aborted.            *)
NoAbortAfterInsert(l) ==
    /\ lst[l] = "flags"
    /\ handleLock' = Free
    /\ spawning' = [spawning EXCEPT ![l] = NoTask]
    /\ lst' = [lst EXCEPT ![l] = "reap"]
    /\ UNCHANGED <<driverVars, tokenVars, permits, lock, aborts, task, aborted, owner, envVars>>

AbortIfCancelled(l) ==
    /\ lst[l] = "flags"
    /\ aborted' = IF accept \/ conns THEN aborted \union {spawning[l]} ELSE aborted
    /\ handleLock' = Free
    /\ spawning' = [spawning EXCEPT ![l] = NoTask]
    /\ lst' = [lst EXCEPT ![l] = "reap"]
    /\ UNCHANGED <<driverVars, tokenVars, permits, lock, aborts, task, owner, envVars>>

(* try_join_next_with_id until nothing is finished, then the lock goes.    *)
Reap(l) ==
    /\ lst[l] = "reap" /\ handleLock = Free
    /\ task' = [t \in Tasks |-> IF task[t] = "finished" THEN "joined" ELSE task[t]]
    /\ aborts' = {t \in aborts : task[t] # "finished"}
    /\ lock' = Free
    /\ lst' = [lst EXCEPT ![l] = "accept"]
    /\ UNCHANGED <<driverVars, tokenVars, permits, handleLock, aborted, spawning,
                   owner, envVars>>

(* Dropping drive drops its JoinSet of accept loops, which aborts them: a  *)
(* loop ends at the next point where it waits, returning a permit it holds.*)
LoopDropped(l) ==
    /\ dropped /\ lst[l] \in {"accept", "retry", "permit", "lock"} \union Ended
    /\ permits' = IF lst[l] = "lock" THEN permits + 1 ELSE permits
    /\ lst' = [lst EXCEPT ![l] = "joined"]
    /\ UNCHANGED <<driverVars, tokenVars, lock, aborts, handleLock, task, aborted,
                   spawning, owner, envVars>>

-----------------------------------------------------------------------------
(* A connection task.  It ends when its tunnel does, or at the next point  *)
(* where it waits once it was cancelled or aborted; its permit goes back.  *)
EndTask(t) ==
    /\ task[t] = "running"
    /\ task' = [task EXCEPT ![t] = "finished"]
    /\ permits' = permits + 1
    /\ UNCHANGED <<driverVars, tokenVars, lock, aborts, handleLock, aborted,
                   loopVars, owner, envVars>>

TunnelEnds(t) == EndTask(t)
TaskStops(t) == (conns \/ t \in aborted) /\ EndTask(t)

-----------------------------------------------------------------------------
(* RunOwner::drop, on return or when the future is dropped.                *)
(* Mutant: the owner leaves the tasks alone.                               *)
OwnerDoesNothing ==
    /\ owner = "stop"
    /\ owner' = "done"
    /\ UNCHANGED <<driverVars, tokenVars, poolVars, loopVars, envVars>>

OwnerStops ==
    /\ owner = "stop"
    /\ accept' = TRUE /\ owner' = "cancel"
    /\ UNCHANGED <<driverVars, conns, poolVars, loopVars, envVars>>

OwnerCancels ==
    /\ owner = "cancel"
    /\ conns' = TRUE /\ owner' = "abort"
    /\ UNCHANGED <<driverVars, accept, poolVars, loopVars, envVars>>

OwnerAborts ==
    /\ owner = "abort" /\ handleLock = Free
    /\ aborted' = aborted \union (aborts \intersect Running)
    /\ owner' = "trylock"
    /\ UNCHANGED <<driverVars, tokenVars, permits, lock, aborts, handleLock, task,
                   loopVars, envVars>>

OwnerTriesLock ==
    /\ owner = "trylock"
    /\ aborted' = IF lock = Free THEN aborted \union Running ELSE aborted
    /\ owner' = "done"
    /\ UNCHANGED <<driverVars, tokenVars, permits, lock, aborts, handleLock, task,
                   loopVars, envVars>>

-----------------------------------------------------------------------------
(* The environment.  A signal reaches only a receiver that already exists. *)
SignalArrives(s) ==
    /\ s \notin signal /\ drv \notin {"setup", "returned", "dropped"}
    /\ signal' = IF Receiving THEN signal \union {s} ELSE signal
    /\ termSent' = (termSent \/ s = "term")
    /\ UNCHANGED <<driverVars, tokenVars, poolVars, loopVars, owner, stdin, dropped>>

(* wait_fd_close returns: a read of stdin found its end, or failed, which  *)
(* drive takes for the same.                                               *)
ParentClosesStdin ==
    /\ ~stdin /\ stdin' = TRUE
    /\ UNCHANGED <<driverVars, tokenVars, poolVars, loopVars, owner, signal,
                   dropped, termSent>>

CallerDropsRun ==
    /\ drv \notin {"returned", "dropped"}
    /\ drv' = "dropped" /\ dropped' = TRUE /\ owner' = "stop"
    /\ lock' = IF lock = Driver THEN Free ELSE lock
    /\ UNCHANGED <<exit, result, tokenVars, permits, aborts, handleLock, task, aborted,
                   loopVars, signal, stdin, termSent>>

-----------------------------------------------------------------------------
DriverStep ==
    \/ \E S \in SUBSET Listeners : SetupDone(S)
    \/ SelectNoListener
    \/ \E l \in Listeners : SelectListenerFailed(l)
    \/ SelectSignal
    \/ SelectStdin
    \/ StopAccepting
    \/ \E l \in Listeners : JoinAcceptLoop(l)
    \/ AcceptLoopsJoined
    \/ Drained
    \/ DrainTimeout
    \/ DrainSignal
    \/ DrainStdin
    \/ CancelConns
    \/ ForcedIdle
    \/ ForceTimeout
    \/ AbortAll
    \/ JoinLock
    \/ \E t \in Tasks : JoinTask(t)
    \/ JoinSetEmpty

LoopStep(l) ==
    \/ AcceptCancelled(l)
    \/ RetryTimer(l)
    \/ PermitCancelled(l)
    \/ AcquirePermit(l)
    \/ RecheckCancelled(l)
    \/ LockScheduler(l)
    \/ \E t \in Tasks : SpawnTask(l, t)
    \/ InsertHandle(l)
    \/ AbortIfCancelled(l)
    \/ Reap(l)
    \/ LoopDropped(l)

OwnerStep == OwnerStops \/ OwnerCancels \/ OwnerAborts \/ OwnerTriesLock

Environment ==
    \/ SetupFails
    \/ \E l \in Listeners : Accepts(l)
    \/ \E l \in Listeners : AcceptFailsTransiently(l)
    \/ \E l \in Listeners : AcceptFailsFatally(l)
    \/ \E l \in Listeners : LoopPanics(l)
    \/ \E t \in Tasks : TunnelEnds(t)
    \/ \E s \in {"int", "term"} : SignalArrives(s)
    \/ ParentClosesStdin
    \/ CallerDropsRun

Next ==
    \/ DriverStep
    \/ \E l \in Listeners : LoopStep(l)
    \/ \E t \in Tasks : TaskStops(t)
    \/ OwnerStep
    \/ Environment

(* Workers run every task that can run, and tokio's timers fire; peers,    *)
(* signals, the parent and the caller need do nothing.                     *)
Fairness ==
    /\ WF_vars(DriverStep)
    /\ \A l \in Listeners : WF_vars(LoopStep(l))
    /\ \A t \in Tasks : WF_vars(TaskStops(t))
    /\ WF_vars(OwnerStep)

Spec == Init /\ [][Next]_vars
FairSpec == Spec /\ Fairness

-----------------------------------------------------------------------------
ExitKinds == {"none", "ProxyClosed", "Interrupt", "Terminate", "ParentClosedStdin",
              "ListenerFailed"}

(* run() "does not return while any of them is still alive": when drive    *)
(* returns, every accept loop and connection task was joined, no abort     *)
(* handle is left, and every permit is back (drive's debug_assert).        *)
NothingOutlivesRun ==
    drv = "returned" =>
        /\ Unjoined = {} /\ InJoinSet = {} /\ aborts = {}
        /\ permits = MaxConns

(* The permits out are exactly those of running tasks and of accept loops  *)
(* between taking one and handing it to a task: none leaks on a cancelled, *)
(* aborted or dropped path, none comes back twice.  This is what lets      *)
(* wait_idle stand for "no connection is in flight".                       *)
PermitsAccountForWork ==
    permits + Cardinality(Running)
            + Cardinality({l \in Listeners : lst[l] \in {"check", "lock", "spawn"}})
        = MaxConns

(* After RunOwner::drop every connection task still running was told to    *)
(* abort, or is about to be by the accept loop that is registering it,     *)
(* however the drop interleaves with spawn_connection.                     *)
DropReachesEveryTask ==
    owner = "done" =>
        \A t \in Running :
            t \in aborted \/ \E l \in Listeners : spawning[l] = t /\ lst[l] \in {"insert", "flags"}

(* "terminate: in-flight connections are cancelled immediately": a run     *)
(* that waits for connections in the graceful drain has seen every SIGTERM *)
(* delivered to it.  It has not: each select of drive makes its receivers  *)
(* anew, and between the two selects there is none.                        *)
TerminateIsImmediate ==
    drv = "drain" /\ Running # {} /\ termSent => "term" \in signal

(* Once the driver has a reason to stop, the run ends, whatever peers and  *)
(* tunnels do: unless the caller drops it first, it returns.               *)
ShutdownCompletes ==
    (drv \notin {"setup", "select"}) ~> (drv \in {"returned", "dropped"})

(* A listener is lost while drive selects; nothing else ends the run.      *)
Lost(l) == drv = "select" /\ lst[l] \in {"err", "panic"}
NotAsked == signal = {} /\ ~stdin /\ ~dropped

(* A lost transport is reported: when an accept loop fails or panics while *)
(* drive selects and nothing else asks the run to stop, run() returns Err. *)
(* The Err carries "the original cause": it is that listener's, unless     *)
(* drive still selects when another is lost too; what others return during *)
(* the teardown does not replace it.                                       *)
ListenerLossIsReported ==
    []NotAsked =>
        \A l \in Listeners :
            /\ Lost(l) ~> (result.kind = "err")
            /\ Lost(l) ~> \/ result.kind = "err" /\ result.cause = l
                          \/ \E k \in Listeners \ {l} : Lost(k)

(* Dropping the run stops every tunnel: all tasks and accept loops end.    *)
DropStopsEverything ==
    dropped ~> (Running = {} /\ \A l \in Listeners : lst[l] \notin LoopPcs)
=============================================================================
