-------------------------- MODULE LifecycleProofs --------------------------
(* For any number of listeners, connections and permits: no permit is lost  *)
(* or made up, nothing outlives a run that returned, and dropping a run     *)
(* reaches every connection task.                                           *)
EXTENDS Lifecycle, FiniteSetTheorems, TLAPS

Holding == {l \in Listeners : lst[l] \in {"check", "lock", "spawn"}}
Critical == {"spawn", "insert", "flags", "reap"}
Registering == {"insert", "flags"}
Pcs == LoopPcs \cup Ended \cup {"off", "joined"}

Types ==
  /\ lst \in [Listeners -> Pcs]
  /\ spawning \in [Listeners -> Tasks \cup {NoTask}]
  /\ task \in [Tasks -> {"unused", "running", "finished", "joined"}]
  /\ permits \in Int
  /\ lock \in Listeners \cup {Free, Driver}
  /\ handleLock \in Listeners \cup {Free}
  /\ accept \in BOOLEAN /\ conns \in BOOLEAN

(* Who is inside a lock, and what the scheduler lock protects: a task that  *)
(* is being registered is not joined meanwhile, every running task has its  *)
(* abort handle or is about to get it, and handles are those of tasks that  *)
(* have not been joined.                                                    *)
LockInv ==
  /\ \A l \in Listeners : lst[l] \in Critical <=> lock = l
  /\ \A l \in Listeners : lst[l] = "flags" <=> handleLock = l
  /\ \A l \in Listeners : lst[l] \in Registering => spawning[l] \in InJoinSet
  /\ \A t \in Running : t \in aborts \/ \E l \in Listeners : spawning[l] = t /\ lst[l] = "insert"
  /\ aborts \subseteq InJoinSet

(* Where the driver stands tells what is left of the run. *)
AfterAccept == {"cancel", "drain", "forceWait", "abortAll", "joinForced", "joinFinal", "returned"}

PhaseInv ==
  /\ drv = "setup" => /\ \A l \in Listeners : lst[l] = "off"
                      /\ \A t \in Tasks : task[t] = "unused"
  /\ drv \in AfterAccept => Unjoined = {}
  /\ drv = "returned" => InJoinSet = {}

(* RunOwner::drop has set the first flag before it takes the abort handles, *)
(* so a task that it misses there is aborted by the loop that registers it. *)
Reached ==
  \A t \in Running : \/ t \in aborted
                     \/ \E l \in Listeners : spawning[l] = t /\ lst[l] \in Registering

OwnerInv ==
  /\ owner \in {"cancel", "abort", "trylock", "done"} => accept
  /\ owner \in {"trylock", "done"} => Reached

IInv == Types /\ LockInv /\ PhaseInv /\ OwnerInv /\ PermitsAccountForWork

LEMMA Finite ==
  /\ IsFiniteSet(Running) /\ Cardinality(Running) \in Nat
  /\ IsFiniteSet(Holding) /\ Cardinality(Holding) \in Nat
<1>1. IsFiniteSet(Running) /\ IsFiniteSet(Holding)
  BY LifecycleConstants, FS_Subset DEF Running, Holding
<1> QED BY <1>1, FS_CardinalityType

LEMMA InitEstablishes == Init => IInv
<1> SUFFICES ASSUME Init PROVE IInv
  OBVIOUS
<1>1. Running = {} /\ Holding = {} /\ InJoinSet = {} /\ aborts = {}
  BY DEF Init, Running, Holding, InJoinSet
<1>2. Types
  <2>1. lst \in [Listeners -> Pcs] /\ spawning \in [Listeners -> Tasks \cup {NoTask}]
    BY DEF Init, Pcs
  <2>2. task \in [Tasks -> {"unused", "running", "finished", "joined"}]
    BY DEF Init
  <2>3. permits \in Int /\ lock \in Listeners \cup {Free, Driver} /\ handleLock \in Listeners \cup {Free}
    BY LifecycleConstants DEF Init
  <2>4. accept \in BOOLEAN /\ conns \in BOOLEAN
    BY Zenon DEF Init
  <2> QED BY <2>1, <2>2, <2>3, <2>4 DEF Types
<1>3. LockInv
  BY <1>1, LifecycleConstants DEF Init, LockInv, Critical, Registering, Free
<1>4. PhaseInv /\ OwnerInv
  BY DEF Init, PhaseInv, OwnerInv, AfterAccept
<1>5. PermitsAccountForWork
  BY <1>1, FS_EmptySet, LifecycleConstants DEF PermitsAccountForWork, Holding, Init
<1> QED BY <1>2, <1>3, <1>4, <1>5 DEF IInv

(* Steps of the driver, the owner and the environment that leave the pool   *)
(* and the accept loops alone, but for requests to abort.                   *)
poolRest == <<permits, lock, aborts, handleLock, task, loopVars>>

LEMMA Elsewhere ==
  ASSUME IInv, UNCHANGED poolRest, accept' \in BOOLEAN, conns' \in BOOLEAN,
         PhaseInv', OwnerInv'
  PROVE  IInv'
  BY DEF IInv, Types, LockInv, PermitsAccountForWork, poolRest, loopVars, InJoinSet, Running

LEMMA DriverElsewhere ==
  ASSUME IInv, UNCHANGED poolRest, UNCHANGED owner, accept => accept', accept' \in BOOLEAN,
         conns' \in BOOLEAN, aborted \subseteq aborted', PhaseInv'
  PROVE  IInv'
<1>1. OwnerInv'
  BY DEF IInv, OwnerInv, Reached, Running, poolRest, loopVars
<1> QED BY <1>1, Elsewhere DEF IInv, Types

(* A loop that has not been joined means that the driver has not got past   *)
(* join_accept_loops.                                                       *)
Early == drv \notin AfterAccept \cup {"setup"}

LEMMA LoopMeansEarly ==
  ASSUME IInv, NEW l \in Listeners, lst[l] \in LoopPcs \cup Ended
  PROVE  Early
  BY DEF IInv, PhaseInv, Early, Unjoined, LoopPcs, Ended

(* Only the place of one loop changes, outside the locks and with no permit.*)
Plain == {"accept", "retry", "permit", "ok", "err", "panic", "joined"}

LEMMA PlainMove ==
  ASSUME IInv, NEW l \in Listeners, NEW pc \in Plain, lst[l] \in Plain, lst[l] # "joined",
         lst' = [lst EXCEPT ![l] = pc],
         UNCHANGED <<permits, lock, aborts, handleLock, task, spawning, accept, conns, aborted, owner>>,
         drv' = drv \/ Early'
  PROVE  IInv'
<1>1. Early'
  BY LoopMeansEarly DEF Plain, LoopPcs, Ended, Early
<1>2. /\ lst' \in [Listeners -> Pcs]
      /\ \A k \in Listeners : \A A : A \cap Plain = {} => (lst'[k] \in A <=> lst[k] \in A)
  BY DEF IInv, Types, Pcs, Plain, LoopPcs, Ended
<1>3. Critical \cap Plain = {} /\ Registering \cap Plain = {}
      /\ {"flags"} \cap Plain = {} /\ {"insert"} \cap Plain = {} /\ {"check", "lock", "spawn"} \cap Plain = {}
  BY DEF Critical, Registering, Plain
<1>4. Types'
  BY <1>2 DEF IInv, Types
<1>5. \A k \in Listeners :
        /\ lst'[k] \in Critical <=> lst[k] \in Critical
        /\ lst'[k] \in Registering <=> lst[k] \in Registering
        /\ lst'[k] = "flags" <=> lst[k] = "flags"
        /\ lst'[k] = "insert" <=> lst[k] = "insert"
        /\ lst'[k] \in {"check", "lock", "spawn"} <=> lst[k] \in {"check", "lock", "spawn"}
  BY <1>2, <1>3
<1>6. LockInv'
  BY <1>5 DEF IInv, LockInv, InJoinSet, Running
<1>7. OwnerInv'
  BY <1>5 DEF IInv, OwnerInv, Reached, Running
<1>8. Holding' = Holding /\ Running' = Running
  BY <1>5 DEF Holding, Running
<1>9. PermitsAccountForWork'
  BY <1>8 DEF IInv, PermitsAccountForWork, Holding
<1>10. PhaseInv'
  BY <1>1 DEF Early, PhaseInv, AfterAccept
<1> QED BY <1>4, <1>6, <1>7, <1>9, <1>10 DEF IInv

-----------------------------------------------------------------------------
(* The accept loops *)

LEMMA LoopPlainStep ==
  ASSUME IInv, NEW l \in Listeners,
         \/ Accepts(l) \/ AcceptFailsTransiently(l) \/ AcceptFailsFatally(l) \/ LoopPanics(l)
         \/ AcceptCancelled(l) \/ RetryTimer(l) \/ PermitCancelled(l)
         \/ JoinAcceptLoop(l) \/ SelectListenerFailed(l)
         \/ LoopDropped(l) /\ lst[l] # "lock"
  PROVE  IInv'
<1>1. lst[l] \in Plain /\ lst[l] # "joined"
  BY DEF Accepts, AcceptFailsTransiently, AcceptFailsFatally, LoopPanics, AcceptCancelled,
         RetryTimer, PermitCancelled, JoinAcceptLoop, SelectListenerFailed, LoopDropped, Plain, Ended
<1>2. \E pc \in Plain : lst' = [lst EXCEPT ![l] = pc]
  BY DEF Accepts, AcceptFailsTransiently, AcceptFailsFatally, LoopPanics, AcceptCancelled, RetryTimer,
         PermitCancelled, JoinAcceptLoop, SelectListenerFailed, LoopDropped, Goto, Plain
<1>3. UNCHANGED <<permits, lock, aborts, handleLock, task, spawning, accept, conns, aborted, owner>>
  BY DEF Accepts, AcceptFailsTransiently, AcceptFailsFatally, LoopPanics, AcceptCancelled, RetryTimer,
         PermitCancelled, JoinAcceptLoop, SelectListenerFailed, LoopDropped, Goto, BreakSelect,
         poolVars, tokenVars
<1>4. drv' = drv \/ Early'
  BY DEF Accepts, AcceptFailsTransiently, AcceptFailsFatally, LoopPanics, AcceptCancelled, RetryTimer,
         PermitCancelled, JoinAcceptLoop, SelectListenerFailed, LoopDropped, Goto, BreakSelect,
         driverVars, Early, AfterAccept
<1> QED BY <1>1, <1>2, <1>3, <1>4, PlainMove

LEMMA PermitTaken == ASSUME IInv, NEW l \in Listeners, AcquirePermit(l) PROVE IInv'
<1>1. /\ lst[l] = "permit" /\ lst' = [lst EXCEPT ![l] = "check"] /\ permits' = permits - 1
      /\ UNCHANGED <<drv, accept, conns, lock, aborts, handleLock, task, aborted, spawning, owner>>
  BY DEF AcquirePermit, driverVars, tokenVars
<1>2. Types' /\ Types
  BY <1>1 DEF IInv, Types, Pcs, LoopPcs
<1>3. LockInv'
  BY <1>1, <1>2 DEF IInv, LockInv, Types, Critical, Registering, InJoinSet, Running
<1>4. PhaseInv'
  BY <1>1, LoopMeansEarly DEF Early, PhaseInv, AfterAccept, LoopPcs
<1>5. OwnerInv'
  BY <1>1, <1>2 DEF IInv, OwnerInv, Reached, Running, Registering, Types
<1>6. Holding' = Holding \cup {l} /\ l \notin Holding /\ Running' = Running
  BY <1>1, <1>2 DEF Holding, Types, Running
<1>7. Cardinality(Holding') = Cardinality(Holding) + 1
  BY <1>6, Finite, FS_AddElement
<1>8. PermitsAccountForWork'
  BY <1>1, <1>2, <1>6, <1>7, Finite, LifecycleConstants DEF IInv, PermitsAccountForWork, Holding, Types
<1> QED BY <1>2, <1>3, <1>4, <1>5, <1>8 DEF IInv

(* The second check, and a loop that is dropped while it waits for the lock.*)
LEMMA PermitReturned ==
  ASSUME IInv, NEW l \in Listeners, NEW pc \in {"ok", "joined"}, lst[l] \in {"check", "lock"},
         lst' = [lst EXCEPT ![l] = pc], permits' = permits + 1,
         UNCHANGED <<drv, accept, conns, lock, aborts, handleLock, task, aborted, spawning, owner>>
  PROVE  IInv'
<1>1. Types' /\ Types
  BY DEF IInv, Types, Pcs, Ended
<1>2. LockInv'
  BY <1>1 DEF IInv, LockInv, Types, Critical, Registering, InJoinSet, Running
<1>3. PhaseInv'
  BY LoopMeansEarly DEF Early, PhaseInv, AfterAccept, LoopPcs
<1>4. OwnerInv'
  BY <1>1 DEF IInv, OwnerInv, Reached, Running, Registering, Types
<1>5. Holding' = Holding \ {l} /\ l \in Holding /\ Running' = Running
  BY <1>1 DEF Holding, Types, Running
<1>6. Cardinality(Holding') = Cardinality(Holding) - 1
  BY <1>5, Finite, FS_RemoveElement
<1>7. PermitsAccountForWork'
  BY <1>1, <1>5, <1>6, Finite, LifecycleConstants DEF IInv, PermitsAccountForWork, Holding, Types
<1> QED BY <1>1, <1>2, <1>3, <1>4, <1>7 DEF IInv

LEMMA Rechecked == ASSUME IInv, NEW l \in Listeners, RecheckCancelled(l) PROVE IInv'
<1>1. lst[l] = "check"
      /\ UNCHANGED <<drv, accept, conns, lock, aborts, handleLock, task, aborted, spawning, owner>>
  BY DEF RecheckCancelled, driverVars, tokenVars
<1>2. CASE accept
  BY <1>1, <1>2, PermitReturned DEF RecheckCancelled
<1>3. CASE ~accept
  <2>1. lst' = [lst EXCEPT ![l] = "lock"] /\ UNCHANGED permits
    BY <1>3 DEF RecheckCancelled
  <2>2. Types' /\ Types
    BY <1>1, <2>1 DEF IInv, Types, Pcs, LoopPcs
  <2>3. LockInv'
    BY <1>1, <2>1, <2>2 DEF IInv, LockInv, Types, Critical, Registering, InJoinSet, Running
  <2>4. PhaseInv'
    BY <1>1, LoopMeansEarly DEF Early, PhaseInv, AfterAccept, LoopPcs
  <2>5. OwnerInv'
    BY <1>1, <2>1, <2>2 DEF IInv, OwnerInv, Reached, Running, Registering, Types
  <2>6. Holding' = Holding /\ Running' = Running
    BY <1>1, <2>1, <2>2 DEF Holding, Types, Running
  <2>7. PermitsAccountForWork'
    BY <2>1, <2>6 DEF IInv, PermitsAccountForWork, Holding
  <2> QED BY <2>2, <2>3, <2>4, <2>5, <2>7 DEF IInv
<1> QED BY <1>2, <1>3

LEMMA DroppedAtLock ==
  ASSUME IInv, NEW l \in Listeners, LoopDropped(l), lst[l] = "lock" PROVE IInv'
  BY PermitReturned DEF LoopDropped, driverVars, tokenVars

LEMMA Locked == ASSUME IInv, NEW l \in Listeners, LockScheduler(l) PROVE IInv'
<1>1. /\ lst[l] = "lock" /\ lock = Free /\ lock' = l /\ lst' = [lst EXCEPT ![l] = "spawn"]
      /\ UNCHANGED <<drv, accept, conns, permits, aborts, handleLock, task, aborted, spawning, owner>>
  BY DEF LockScheduler, driverVars, tokenVars
<1>2. Types' /\ Types
  BY <1>1 DEF IInv, Types, Pcs, LoopPcs
<1>3. \A k \in Listeners : lst[k] \notin Critical
  BY <1>1, LifecycleConstants DEF IInv, LockInv
<1>4. LockInv'
  BY <1>1, <1>2, <1>3 DEF IInv, LockInv, Types, Critical, Registering, InJoinSet, Running
<1>5. PhaseInv'
  BY <1>1, LoopMeansEarly DEF Early, PhaseInv, AfterAccept, LoopPcs
<1>6. OwnerInv'
  BY <1>1, <1>2 DEF IInv, OwnerInv, Reached, Running, Registering, Types
<1>7. Holding' = Holding /\ Running' = Running
  BY <1>1, <1>2 DEF Holding, Types, Running
<1>8. PermitsAccountForWork'
  BY <1>1, <1>7 DEF IInv, PermitsAccountForWork, Holding
<1> QED BY <1>2, <1>4, <1>5, <1>6, <1>8 DEF IInv

LEMMA Spawned == ASSUME IInv, NEW l \in Listeners, NEW t \in Tasks, SpawnTask(l, t) PROVE IInv'
<1>1. /\ lst[l] = "spawn" /\ lst' = [lst EXCEPT ![l] = "insert"]
      /\ task[t] = "unused" /\ task' = [task EXCEPT ![t] = "running"]
      /\ spawning' = [spawning EXCEPT ![l] = t]
      /\ UNCHANGED <<drv, accept, conns, permits, aborts, lock, handleLock, aborted, owner>>
  BY DEF SpawnTask, driverVars, tokenVars
<1>2. Types' /\ Types
  BY <1>1 DEF IInv, Types, Pcs, LoopPcs
<1>3. Running' = Running \cup {t} /\ InJoinSet' = InJoinSet \cup {t} /\ t \notin Running
  BY <1>1, <1>2 DEF Running, InJoinSet, Types
<1>4. \A k \in Listeners \ {l} : lst[k] \notin Registering /\ lst'[k] = lst[k] /\ spawning'[k] = spawning[k]
  BY <1>1, <1>2 DEF IInv, LockInv, Types, Critical, Registering
<1>5. lst'[l] = "insert" /\ spawning'[l] = t
  BY <1>1, <1>2 DEF Types
<1>6. LockInv'
  BY <1>1, <1>2, <1>3, <1>4, <1>5 DEF IInv, LockInv, Critical, Registering
<1>7. PhaseInv'
  BY <1>1, LoopMeansEarly DEF Early, PhaseInv, AfterAccept, LoopPcs
<1>8. OwnerInv'
  BY <1>1, <1>3, <1>4, <1>5 DEF IInv, OwnerInv, Reached, Registering
<1>9. Holding' = Holding \ {l} /\ l \in Holding
  BY <1>1, <1>2 DEF Holding, Types
<1>10. Cardinality(Holding') = Cardinality(Holding) - 1 /\ Cardinality(Running') = Cardinality(Running) + 1
  BY <1>3, <1>9, Finite, FS_AddElement, FS_RemoveElement
<1>11. PermitsAccountForWork'
  BY <1>1, <1>2, <1>10, Finite, LifecycleConstants DEF IInv, PermitsAccountForWork, Holding, Types
<1> QED BY <1>2, <1>6, <1>7, <1>8, <1>11 DEF IInv

LEMMA Inserted == ASSUME IInv, NEW l \in Listeners, InsertHandle(l) PROVE IInv'
<1>1. /\ lst[l] = "insert" /\ lst' = [lst EXCEPT ![l] = "flags"]
      /\ handleLock = Free /\ handleLock' = l /\ aborts' = aborts \cup {spawning[l]}
      /\ UNCHANGED <<drv, accept, conns, permits, lock, task, aborted, spawning, owner>>
  BY DEF InsertHandle, driverVars, tokenVars
<1>2. Types' /\ Types
  BY <1>1 DEF IInv, Types, Pcs, LoopPcs
<1>3. Running' = Running /\ InJoinSet' = InJoinSet /\ spawning[l] \in InJoinSet
  BY <1>1 DEF Running, InJoinSet, IInv, LockInv, Registering
<1>4. \A k \in Listeners \ {l} : lst'[k] = lst[k] /\ lst[k] # "flags"
  BY <1>1, <1>2, LifecycleConstants DEF IInv, LockInv, Types
<1>5. lst'[l] = "flags"
  BY <1>1, <1>2 DEF Types
<1>6. LockInv'
  <2>1. \A k \in Listeners : lst'[k] \in Critical <=> lock' = k
    BY <1>1, <1>4, <1>5 DEF IInv, LockInv, Critical
  <2>2. \A k \in Listeners : lst'[k] = "flags" <=> handleLock' = k
    BY <1>1, <1>4, <1>5
  <2>3. \A k \in Listeners : lst'[k] \in Registering => spawning'[k] \in InJoinSet'
    BY <1>1, <1>3, <1>4 DEF IInv, LockInv
  <2>4. \A t \in Running' : t \in aborts' \/ \E k \in Listeners : spawning'[k] = t /\ lst'[k] = "insert"
    BY <1>1, <1>3, <1>4 DEF IInv, LockInv
  <2>5. aborts' \subseteq InJoinSet'
    BY <1>1, <1>3 DEF IInv, LockInv
  <2> QED BY <2>1, <2>2, <2>3, <2>4, <2>5 DEF LockInv
<1>7. PhaseInv'
  BY <1>1, LoopMeansEarly DEF Early, PhaseInv, AfterAccept, LoopPcs
<1>8. OwnerInv'
  BY <1>1, <1>3, <1>4, <1>5 DEF IInv, OwnerInv, Reached, Registering
<1>9. Holding' = Holding
  BY <1>1, <1>4, <1>5 DEF Holding
<1>10. PermitsAccountForWork'
  BY <1>1, <1>3, <1>9 DEF IInv, PermitsAccountForWork, Holding
<1> QED BY <1>2, <1>6, <1>7, <1>8, <1>10 DEF IInv

LEMMA Flagged == ASSUME IInv, NEW l \in Listeners, AbortIfCancelled(l) PROVE IInv'
<1>1. /\ lst[l] = "flags" /\ lst' = [lst EXCEPT ![l] = "reap"] /\ handleLock' = Free
      /\ aborted' = IF accept \/ conns THEN aborted \cup {spawning[l]} ELSE aborted
      /\ spawning' = [spawning EXCEPT ![l] = NoTask]
      /\ UNCHANGED <<drv, accept, conns, permits, lock, task, aborts, owner>>
  BY DEF AbortIfCancelled, driverVars, tokenVars
<1>2. Types' /\ Types
  BY <1>1 DEF IInv, Types, Pcs, LoopPcs
<1>3. Running' = Running /\ InJoinSet' = InJoinSet
  BY <1>1 DEF Running, InJoinSet
<1>4. \A k \in Listeners \ {l} : lst'[k] = lst[k] /\ lst[k] # "flags" /\ spawning'[k] = spawning[k]
  BY <1>1, <1>2 DEF IInv, LockInv, Types
<1>5. lst'[l] = "reap"
  BY <1>1, <1>2 DEF Types
<1>6. LockInv'
  <2>1. \A k \in Listeners : lst'[k] \in Critical <=> lock' = k
    BY <1>1, <1>4, <1>5 DEF IInv, LockInv, Critical
  <2>2. \A k \in Listeners : lst'[k] = "flags" <=> handleLock' = k
    BY <1>1, <1>4, <1>5, LifecycleConstants
  <2>3. \A k \in Listeners : lst'[k] \in Registering => spawning'[k] \in InJoinSet'
    BY <1>3, <1>4, <1>5 DEF IInv, LockInv, Registering
  <2>4. \A t \in Running' : t \in aborts' \/ \E k \in Listeners : spawning'[k] = t /\ lst'[k] = "insert"
    BY <1>1, <1>3, <1>4 DEF IInv, LockInv
  <2>5. aborts' \subseteq InJoinSet'
    BY <1>1, <1>3 DEF IInv, LockInv
  <2> QED BY <2>1, <2>2, <2>3, <2>4, <2>5 DEF LockInv
<1>7. PhaseInv'
  BY <1>1, LoopMeansEarly DEF Early, PhaseInv, AfterAccept, LoopPcs
<1>8. OwnerInv'
  BY <1>1, <1>3, <1>4, <1>5 DEF IInv, OwnerInv, Reached, Registering
<1>9. Holding' = Holding
  BY <1>1, <1>4, <1>5 DEF Holding
<1>10. PermitsAccountForWork'
  BY <1>1, <1>3, <1>9 DEF IInv, PermitsAccountForWork, Holding
<1> QED BY <1>2, <1>6, <1>7, <1>8, <1>10 DEF IInv

LEMMA Reaped == ASSUME IInv, NEW l \in Listeners, Reap(l) PROVE IInv'
<1>1. /\ lst[l] = "reap" /\ lst' = [lst EXCEPT ![l] = "accept"] /\ lock' = Free
      /\ task' = [t \in Tasks |-> IF task[t] = "finished" THEN "joined" ELSE task[t]]
      /\ aborts' = {t \in aborts : task[t] # "finished"}
      /\ UNCHANGED <<drv, accept, conns, permits, handleLock, aborted, spawning, owner>>
  BY DEF Reap, driverVars, tokenVars
<1>2. Types' /\ Types
  BY <1>1 DEF IInv, Types, Pcs, LoopPcs
<1>3. Running' = Running /\ aborts' \subseteq InJoinSet' /\ \A t \in Running : t \in aborts => t \in aborts'
  BY <1>1, <1>2 DEF Running, InJoinSet, Types, IInv, LockInv
<1>4. \A k \in Listeners \ {l} : lst'[k] = lst[k] /\ lst[k] \notin Critical
  BY <1>1, <1>2 DEF IInv, LockInv, Types, Critical
<1>5. lst'[l] = "accept"
  BY <1>1, <1>2 DEF Types
<1>6. LockInv'
  BY <1>1, <1>3, <1>4, <1>5, LifecycleConstants DEF IInv, LockInv, Critical, Registering
<1>7. PhaseInv'
  BY <1>1, LoopMeansEarly DEF Early, PhaseInv, AfterAccept, LoopPcs
<1>8. OwnerInv'
  BY <1>1, <1>3, <1>4, <1>5 DEF IInv, OwnerInv, Reached, Registering
<1>9. Holding' = Holding
  BY <1>1, <1>4, <1>5 DEF Holding
<1>10. PermitsAccountForWork'
  BY <1>1, <1>3, <1>9 DEF IInv, PermitsAccountForWork, Holding
<1> QED BY <1>2, <1>6, <1>7, <1>8, <1>10 DEF IInv

(* A connection task ends: its permit comes back. *)
LEMMA TaskEnded == ASSUME IInv, NEW t \in Tasks, EndTask(t) PROVE IInv'
<1>1. /\ task[t] = "running" /\ task' = [task EXCEPT ![t] = "finished"] /\ permits' = permits + 1
      /\ UNCHANGED <<drv, accept, conns, lock, aborts, handleLock, aborted, lst, spawning, owner>>
  BY DEF EndTask, driverVars, tokenVars, loopVars
<1>2. Types' /\ Types
  BY <1>1 DEF IInv, Types
<1>3. Running' = Running \ {t} /\ InJoinSet' = InJoinSet /\ t \in Running /\ t \in InJoinSet
  BY <1>1, <1>2 DEF Running, InJoinSet, Types
<1>4. LockInv'
  BY <1>1, <1>3 DEF IInv, LockInv
<1>5. PhaseInv'
  BY <1>1, <1>3 DEF IInv, PhaseInv, Unjoined, InJoinSet
<1>6. OwnerInv'
  BY <1>1, <1>3 DEF IInv, OwnerInv, Reached
<1>7. Cardinality(Running') = Cardinality(Running) - 1
  BY <1>3, Finite, FS_RemoveElement
<1>8. PermitsAccountForWork'
  BY <1>1, <1>2, <1>7, Finite DEF IInv, PermitsAccountForWork, Holding, Types
<1> QED BY <1>2, <1>4, <1>5, <1>6, <1>8 DEF IInv

LEMMA SchedulerTaken == ASSUME IInv, JoinLock PROVE IInv'
<1>1. /\ lock = Free /\ lock' = Driver
      /\ UNCHANGED <<drv, accept, conns, permits, aborts, handleLock, task, aborted, lst, spawning, owner>>
  BY DEF JoinLock, driverVars, tokenVars, loopVars
<1>2. Types'
  BY <1>1 DEF IInv, Types
<1>3. Running' = Running /\ InJoinSet' = InJoinSet
  BY <1>1 DEF Running, InJoinSet
<1>4. LockInv'
  BY <1>1, <1>3, LifecycleConstants DEF IInv, LockInv
<1>5. PhaseInv' /\ OwnerInv'
  BY <1>1, <1>3 DEF IInv, PhaseInv, Unjoined, OwnerInv, Reached
<1>6. PermitsAccountForWork'
  BY <1>1, <1>3 DEF IInv, PermitsAccountForWork
<1> QED BY <1>2, <1>4, <1>5, <1>6 DEF IInv

LEMMA TaskJoined == ASSUME IInv, NEW t \in Tasks, JoinTask(t) PROVE IInv'
<1>1. /\ task[t] = "finished" /\ task' = [task EXCEPT ![t] = "joined"]
      /\ lock = Driver /\ aborts' = aborts \ {t} /\ drv # "setup"
      /\ UNCHANGED <<drv, accept, conns, permits, lock, handleLock, aborted, lst, spawning, owner>>
  BY DEF JoinTask, Joining, driverVars, tokenVars, loopVars
<1>2. Types' /\ Types
  BY <1>1 DEF IInv, Types
<1>3. Running' = Running /\ InJoinSet' = InJoinSet \ {t} /\ t \notin Running
  BY <1>1, <1>2 DEF Running, InJoinSet, Types
<1>4. \A l \in Listeners : lst[l] \notin Registering
  BY <1>1, LifecycleConstants DEF IInv, LockInv, Critical, Registering
<1>5. LockInv'
  BY <1>1, <1>3, <1>4 DEF IInv, LockInv
<1>6. PhaseInv' /\ OwnerInv'
  BY <1>1, <1>3 DEF IInv, PhaseInv, Unjoined, OwnerInv, Reached
<1>7. PermitsAccountForWork'
  BY <1>1, <1>3 DEF IInv, PermitsAccountForWork
<1> QED BY <1>2, <1>5, <1>6, <1>7 DEF IInv

LEMMA JoinedAll == ASSUME IInv, JoinSetEmpty PROVE IInv'
<1>1. /\ drv \in {"joinForced", "joinFinal"} /\ lock = Driver /\ lock' = Free /\ InJoinSet = {}
      /\ drv' \in {"joinFinal", "returned"} /\ owner' \in {owner, "stop"}
      /\ UNCHANGED <<accept, conns, permits, aborts, handleLock, task, aborted, lst, spawning>>
  BY DEF JoinSetEmpty, Joining, tokenVars, loopVars
<1>2. Types'
  BY <1>1 DEF IInv, Types
<1>3. Running' = Running /\ InJoinSet' = InJoinSet /\ Unjoined' = Unjoined
  BY <1>1 DEF Running, InJoinSet, Unjoined
<1>4. LockInv'
  BY <1>1, <1>3, LifecycleConstants DEF IInv, LockInv
<1>5. PhaseInv'
  BY <1>1, <1>3 DEF IInv, PhaseInv, AfterAccept
<1>6. OwnerInv'
  BY <1>1, <1>3 DEF IInv, OwnerInv, Reached
<1>7. PermitsAccountForWork'
  BY <1>1, <1>3 DEF IInv, PermitsAccountForWork
<1> QED BY <1>2, <1>4, <1>5, <1>6, <1>7 DEF IInv

LEMMA RunDropped == ASSUME IInv, CallerDropsRun PROVE IInv'
<1>1. /\ drv' = "dropped" /\ owner' = "stop" /\ lock' = IF lock = Driver THEN Free ELSE lock
      /\ UNCHANGED <<accept, conns, permits, aborts, handleLock, task, aborted, lst, spawning>>
  BY DEF CallerDropsRun, tokenVars, loopVars
<1>2. Types'
  BY <1>1 DEF IInv, Types
<1>3. Running' = Running /\ InJoinSet' = InJoinSet
  BY <1>1 DEF Running, InJoinSet
<1>4. \A l \in Listeners : lock' = l <=> lock = l
  BY <1>1, LifecycleConstants
<1>5. LockInv'
  BY <1>1, <1>3, <1>4 DEF IInv, LockInv
<1>6. PhaseInv' /\ OwnerInv'
  BY <1>1 DEF PhaseInv, OwnerInv, AfterAccept
<1>7. PermitsAccountForWork'
  BY <1>1, <1>3 DEF IInv, PermitsAccountForWork
<1> QED BY <1>2, <1>5, <1>6, <1>7 DEF IInv

LEMMA Started == ASSUME IInv, NEW S \in SUBSET Listeners, SetupDone(S) PROVE IInv'
<1>1. /\ drv = "setup" /\ drv' = "select"
      /\ lst' = [l \in Listeners |-> IF l \in S THEN "accept" ELSE "off"]
      /\ UNCHANGED <<accept, conns, permits, lock, aborts, handleLock, task, aborted, spawning, owner>>
  BY DEF SetupDone, tokenVars, poolVars
<1>2. Types' /\ \A l \in Listeners : lst'[l] \in {"accept", "off"} /\ lst[l] = "off"
  BY <1>1 DEF IInv, Types, Pcs, LoopPcs, PhaseInv
<1>3. Running' = {} /\ Running = {} /\ InJoinSet' = InJoinSet /\ Holding' = Holding
  BY <1>1, <1>2 DEF IInv, PhaseInv, Running, InJoinSet, Holding
<1>4. LockInv'
  BY <1>1, <1>2, <1>3 DEF IInv, LockInv, Critical, Registering
<1>5. PhaseInv' /\ OwnerInv'
  BY <1>1, <1>3 DEF IInv, PhaseInv, OwnerInv, Reached, AfterAccept
<1>6. PermitsAccountForWork'
  BY <1>1, <1>3 DEF IInv, PermitsAccountForWork, Holding
<1> QED BY <1>2, <1>4, <1>5, <1>6 DEF IInv

(* The driver's other steps: only its own place, a flag or an abort request *)
(* changes.                                                                 *)
DriverMove ==
  \/ SelectNoListener \/ SelectSignal \/ SelectStdin \/ StopAccepting \/ AcceptLoopsJoined
  \/ Drained \/ DrainTimeout \/ DrainSignal \/ DrainStdin
  \/ CancelConns \/ ForcedIdle \/ ForceTimeout \/ AbortAll

LEMMA DriverMoved == ASSUME IInv, DriverMove PROVE IInv'
<1>1. /\ UNCHANGED poolRest /\ UNCHANGED owner
      /\ aborted \subseteq aborted'
  BY DEF DriverMove, SelectNoListener, SelectSignal, SelectStdin, BreakSelect, StopAccepting,
         AcceptLoopsJoined, Drained, DrainTimeout, DrainSignal, DrainStdin, EndDrain, CancelConns,
         ForcedIdle, ForceTimeout, AbortAll, poolRest, poolVars, loopVars
<1>2. accept' \in {accept, TRUE} /\ conns' \in {conns, TRUE}
  BY DEF DriverMove, SelectNoListener, SelectSignal, SelectStdin, BreakSelect, StopAccepting,
         AcceptLoopsJoined, Drained, DrainTimeout, DrainSignal, DrainStdin, EndDrain, CancelConns,
         ForcedIdle, ForceTimeout, AbortAll, tokenVars
<1>3. accept \in BOOLEAN /\ conns \in BOOLEAN
  BY DEF IInv, Types
<1>4. (accept => accept') /\ accept' \in BOOLEAN /\ conns' \in BOOLEAN
  BY <1>2, <1>3
<1>5. \/ drv' \in {"stop", "joinAccept"}
      \/ Unjoined = {} /\ drv' \in {"cancel", "drain"}
      \/ drv \in AfterAccept /\ drv' \in AfterAccept \ {"returned"}
  BY DEF DriverMove, SelectNoListener, SelectSignal, SelectStdin, BreakSelect, StopAccepting,
         AcceptLoopsJoined, Drained, DrainTimeout, DrainSignal, DrainStdin, EndDrain, CancelConns,
         ForcedIdle, ForceTimeout, AbortAll, AfterAccept
<1>6. Unjoined' = Unjoined
  BY <1>1 DEF Unjoined, poolRest, loopVars
<1>7. PhaseInv'
  BY <1>5, <1>6 DEF IInv, PhaseInv, AfterAccept
<1> QED BY <1>1, <1>4, <1>7, DriverElsewhere

(* Client setup fails before anything was started. *)
LEMMA SetupFailed == ASSUME IInv, SetupFails PROVE IInv'
<1>1. /\ drv = "setup" /\ drv' = "returned" /\ owner' = "stop"
      /\ UNCHANGED <<accept, conns, permits, lock, aborts, handleLock, task, lst, spawning>>
  BY DEF SetupFails, tokenVars, poolVars, loopVars
<1>2. InJoinSet' = {} /\ Unjoined' = {}
  BY <1>1 DEF IInv, PhaseInv, InJoinSet, Unjoined, LoopPcs, Ended
<1>3. PhaseInv' /\ OwnerInv'
  BY <1>1, <1>2 DEF PhaseInv, OwnerInv
<1> QED BY <1>1, <1>3, Elsewhere DEF IInv, Types, poolRest, loopVars

(* RunOwner::drop.  When it takes the abort handles no loop is between      *)
(* adding one and looking at the flags, so each running task has its handle *)
(* there or is still to be registered, under a flag that is set.            *)
LEMMA OwnerMoved == ASSUME IInv, OwnerStep PROVE IInv'
<1>1. UNCHANGED poolRest /\ UNCHANGED drv /\ aborted \subseteq aborted'
  BY DEF OwnerStep, OwnerStops, OwnerCancels, OwnerAborts, OwnerTriesLock, driverVars, poolVars,
         loopVars, poolRest
<1>2. accept' \in {accept, TRUE} /\ conns' \in {conns, TRUE}
  BY DEF OwnerStep, OwnerStops, OwnerCancels, OwnerAborts, OwnerTriesLock, tokenVars
<1>3. accept \in BOOLEAN /\ conns \in BOOLEAN
  BY DEF IInv, Types
<1>4. (accept => accept') /\ accept' \in BOOLEAN /\ conns' \in BOOLEAN
  BY <1>2, <1>3
<1>5. PhaseInv'
  BY <1>1 DEF IInv, PhaseInv, poolRest, loopVars, Unjoined, InJoinSet
<1>6. accept'
  BY <1>4 DEF OwnerStep, OwnerStops, OwnerCancels, OwnerAborts, OwnerTriesLock, IInv, OwnerInv
<1>7. Running' = Running /\ lst' = lst /\ spawning' = spawning
  BY <1>1 DEF Running, poolRest, loopVars
<1>8. ASSUME owner' \in {"trylock", "done"} PROVE Reached'
  <2>1. CASE OwnerAborts
    BY <2>1, <1>7 DEF OwnerAborts, IInv, LockInv, Reached, Registering
  <2>2. CASE OwnerTriesLock
    BY <2>2, <1>1, <1>7 DEF OwnerTriesLock, IInv, OwnerInv, Reached
  <2>3. ~OwnerStops /\ ~OwnerCancels
    BY <1>8 DEF OwnerStops, OwnerCancels
  <2> QED BY <2>1, <2>2, <2>3 DEF OwnerStep
<1>9. OwnerInv'
  BY <1>6, <1>8 DEF OwnerInv
<1> QED BY <1>1, <1>4, <1>5, <1>9, Elsewhere

(* A signal arrives, the parent closes stdin, or nothing changes. *)
LEMMA Outside ==
  ASSUME IInv, UNCHANGED <<driverVars, tokenVars, poolVars, loopVars, owner>> PROVE IInv'
<1>1. UNCHANGED poolRest /\ UNCHANGED <<drv, accept, conns, aborted, owner>>
  BY DEF driverVars, tokenVars, poolVars, loopVars, poolRest
<1>2. PhaseInv'
  BY <1>1 DEF IInv, PhaseInv, poolRest, loopVars, Unjoined, InJoinSet
<1> QED BY <1>1, <1>2, DriverElsewhere DEF IInv, Types

LEMMA LoopStepKeeps == ASSUME IInv, NEW l \in Listeners, LoopStep(l) PROVE IInv'
<1>1. CASE LoopDropped(l)
  BY <1>1, DroppedAtLock, LoopPlainStep
<1>2. CASE \E t \in Tasks : SpawnTask(l, t)
  BY <1>2, Spawned
<1>3. CASE ~LoopDropped(l) /\ ~\E t \in Tasks : SpawnTask(l, t)
  BY <1>3, LoopPlainStep, PermitTaken, Rechecked, Locked, Inserted, Flagged, Reaped DEF LoopStep
<1> QED BY <1>1, <1>2, <1>3

LEMMA DriverStepKeeps == ASSUME IInv, DriverStep PROVE IInv'
<1>1. CASE DriverMove
  BY <1>1, DriverMoved
<1>2. CASE \E S \in SUBSET Listeners : SetupDone(S)
  BY <1>2, Started
<1>3. CASE \E l \in Listeners : SelectListenerFailed(l) \/ JoinAcceptLoop(l)
  BY <1>3, LoopPlainStep
<1>4. CASE JoinLock \/ JoinSetEmpty
  BY <1>4, SchedulerTaken, JoinedAll
<1>5. CASE \E t \in Tasks : JoinTask(t)
  BY <1>5, TaskJoined
<1> QED BY <1>1, <1>2, <1>3, <1>4, <1>5 DEF DriverStep, DriverMove

LEMMA EnvironmentKeeps == ASSUME IInv, Environment PROVE IInv'
<1>1. CASE SetupFails \/ CallerDropsRun
  BY <1>1, SetupFailed, RunDropped
<1>2. CASE \E l \in Listeners : Accepts(l) \/ AcceptFailsTransiently(l) \/ AcceptFailsFatally(l) \/ LoopPanics(l)
  BY <1>2, LoopPlainStep
<1>3. CASE \E t \in Tasks : TunnelEnds(t)
  BY <1>3, TaskEnded DEF TunnelEnds
<1>4. CASE (\E s \in {"int", "term"} : SignalArrives(s)) \/ ParentClosesStdin
  BY <1>4, Outside DEF SignalArrives, ParentClosesStdin
<1> QED BY <1>1, <1>2, <1>3, <1>4 DEF Environment

LEMMA Inductive == IInv /\ [Next]_vars => IInv'
<1> SUFFICES ASSUME IInv, [Next]_vars PROVE IInv'
  OBVIOUS
<1>1. CASE UNCHANGED vars
  BY <1>1, Outside DEF vars
<1>2. CASE \E t \in Tasks : TaskStops(t)
  BY <1>2, TaskEnded DEF TaskStops
<1> QED BY <1>1, <1>2, DriverStepKeeps, LoopStepKeeps, OwnerMoved, EnvironmentKeeps DEF Next

(* connection_permit and spawn_connection: for any number of loops, tasks   *)
(* and permits, the permits out are those of running tasks and of loops     *)
(* between taking one and handing it over; none is lost or returned twice.  *)
THEOREM PermitsAreExact == Spec => []PermitsAccountForWork
<1>1. IInv => PermitsAccountForWork
  BY DEF IInv
<1> QED BY <1>1, InitEstablishes, Inductive, PTL DEF Spec

(* RunOwner::drop: once it is over, every running connection task was told  *)
(* to abort or is about to be, however the drop interleaves with the        *)
(* accept loops that register tasks.                                        *)
THEOREM DropReaches == Spec => []DropReachesEveryTask
<1>1. IInv => DropReachesEveryTask
  BY DEF IInv, OwnerInv, Reached, Registering, DropReachesEveryTask
<1> QED BY <1>1, InitEstablishes, Inductive, PTL DEF Spec

(* run_with_setup: when it returns, every accept loop and connection task   *)
(* was joined, no abort handle is left and every permit is back.            *)
THEOREM ReturnMeansDone == Spec => []NothingOutlivesRun
<1>1. ASSUME IInv, drv = "returned" PROVE Unjoined = {} /\ InJoinSet = {} /\ aborts = {} /\ permits = MaxConns
  <2>1. Unjoined = {} /\ InJoinSet = {}
    BY <1>1 DEF IInv, PhaseInv, AfterAccept
  <2>2. aborts = {}
    BY <1>1, <2>1 DEF IInv, LockInv
  <2>3. Running = {} /\ Holding = {}
    BY <2>1 DEF Running, InJoinSet, Unjoined, Holding, LoopPcs
  <2>4. permits = MaxConns
    BY <1>1, <2>3, FS_EmptySet DEF IInv, PermitsAccountForWork, Holding, Types
  <2> QED BY <2>1, <2>2, <2>4
<1>2. IInv => NothingOutlivesRun
  BY <1>1 DEF NothingOutlivesRun
<1> QED BY <1>2, InitEstablishes, Inductive, PTL DEF Spec
=============================================================================
