----------------------------- MODULE ServerState -----------------------------
(***************************************************************************)
(* A bridge's configuration and its state file (crates/obfs4/src/server.rs,*)
(* atomic_write_json of lib.rs).  Several ServerBuilders, in one or more   *)
(* processes, share one state directory; setters invalidate the cached     *)
(* effective configuration, try_build resolves it against the file and     *)
(* writes it back.  Each builder is used by one caller at a time.          *)
(*                                                                         *)
(* A configuration is a function of its four fields.  A value is Off (the  *)
(* default), Chosen (what a setter is given) or a random one, a number     *)
(* drawn from a counter.  disk holds what a crash may leave of the file.   *)
(***************************************************************************)
EXTENDS Integers, FiniteSets

CONSTANTS Builders, MaxRandom, MaxSet, MaxForeign   \* the last three are bounds

ASSUME StateConstants == MaxRandom \in Nat /\ MaxSet \in Nat /\ MaxForeign \in Nat

Fields == {"key", "id", "iat", "seed"}
Off == 0
Chosen == 1
Absent == [f \in {} |-> Off]
Garbage == [f \in {"garbage"} |-> Off]     \* no valid server state
NoCache == [cfg |-> Absent]

VARIABLES file,     \* the state file as readers see it
          disk,     \* the contents it may have after a crash
          random,   \* random values drawn so far
          bld,      \* the builders
          cache,    \* effective_configuration of each
          call,     \* try_build in progress: its place and its configuration
          told,     \* the last try_build said that the file was changed
          sets, foreign,   \* setter calls and foreign writes so far
          given,    \* configurations handed out since the last setter
          others,   \* the file was written by others since the cache was filled
          acked     \* what the last build to return wrote, if still in place

ghosts == <<given, others, acked>>
fileVars == <<file, disk, foreign>>

Idle == [pc |-> "idle"]
Contents == [Fields -> Nat]

(* ServerBuilder::default.                                                 *)
Default(n) == [own |-> [f \in Fields |-> IF f \in {"key", "id"} THEN n ELSE Off],
               ov |-> {}, path |-> "none", persist |-> TRUE, err |-> FALSE]

StInit ==
    /\ file \in {Absent, [f \in Fields |-> 2]} /\ disk = {file}
    /\ random = 2 + Cardinality(Builders)
    /\ bld \in {g \in [Builders -> {Default(n) : n \in 3..random}] :
                  \A b, c \in Builders : g[b] = g[c] => b = c}
    /\ cache = [b \in Builders |-> NoCache] /\ call = [b \in Builders |-> Idle]
    /\ told = [b \in Builders |-> FALSE] /\ sets = 0 /\ foreign = 0
    /\ given = [b \in Builders |-> {}] /\ others = [b \in Builders |-> FALSE]
    /\ acked = Absent

-----------------------------------------------------------------------------
(* Setters.                                                                *)
(* invalidate_effective_configuration, called by all of them.              *)
Set(b, r) ==
    /\ call[b] = Idle /\ sets < MaxSet /\ sets' = sets + 1
    /\ bld' = [bld EXCEPT ![b] = r]
    /\ cache' = [cache EXCEPT ![b] = NoCache]
    /\ given' = [given EXCEPT ![b] = {}] /\ told' = [told EXCEPT ![b] = FALSE]
    /\ UNCHANGED <<call, random, others, acked>> /\ UNCHANGED fileVars

With(r, f) == [r EXCEPT !.own[f] = Chosen, !.ov = @ \union {f}]

(* try_node_keys; node_keys keeps the error of a pair that does not match. *)
NodeKeys(b) == Set(b, [With(bld[b], "key") EXCEPT !.err = FALSE])
BadNodeKeys(b) == Set(b, [bld[b] EXCEPT !.err = TRUE])
NodeId(b) == Set(b, With(bld[b], "id"))
IatMode(b) == Set(b, With(bld[b], "iat"))
StatefilePath(b) == Set(b, [bld[b] EXCEPT !.path = "dir", !.persist = TRUE])

(* ptrs::ServerBuilder::options with arguments for the fields in A; what   *)
(* is missing (iat-mode aside) comes from the state file, whose public key *)
(* must match the private key.  Otherwise nothing changes.                 *)
Options(b, A) ==
    LET r == bld[b]
        fromFile == A \union {"iat"} # Fields
        own == [f \in Fields |-> IF f \in A THEN Chosen ELSE IF fromFile THEN file[f] ELSE Off]
    IN  /\ fromFile => /\ r.path # "none" /\ file \in Contents
                       /\ "key" \in A => file["key"] = Chosen
        /\ Set(b, [r EXCEPT !.own = own, !.err = FALSE,
                            !.ov = {"key", "iat", "seed"} \union (A \intersect {"id"})])

(* try_statefile_path of the directory or of the file itself.              *)
Import(b, path) ==
    /\ call[b] = Idle /\ sets < MaxSet /\ sets' = sets + 1
    /\ IF file \in Contents
       THEN /\ bld' = [bld EXCEPT ![b] = [@ EXCEPT !.own = file, !.path = path,
                                                  !.err = FALSE, !.persist = (path = "dir")]]
            /\ cache' = [cache EXCEPT ![b] = [cfg |-> file, persist |-> FALSE, obs |-> Absent]]
       ELSE bld' = bld /\ cache' = [cache EXCEPT ![b] = NoCache]
    /\ given' = [given EXCEPT ![b] = {}] /\ told' = [told EXCEPT ![b] = FALSE]
    /\ UNCHANGED <<call, random, others, acked>> /\ UNCHANGED fileVars

-----------------------------------------------------------------------------
(* effective_configuration, under the builder's lock.                      *)
(* resolve_effective_configuration: a field comes from its setter, or else *)
(* from the state file, or else is the builder's own.  n is the seed drawn *)
(* if there is none.                                                       *)
Resolved(r, n) ==
    LET own == IF r.path # "none" /\ file # Absent
               THEN [f \in Fields |-> IF f \in r.ov THEN r.own[f] ELSE file[f]]
               ELSE r.own
    IN  [cfg |-> IF own["seed"] = Off THEN [own EXCEPT !["seed"] = n] ELSE own,
         persist |-> r.persist /\ r.path # "none" /\ (file = Absent \/ r.ov # {}),
         obs |-> file]

Resolvable(r) ==
    ~(r.path # "none" /\ file = Garbage /\ r.ov # Fields)

(* The cached configuration, or a new one, which is cached.                *)
Effective(b) == IF cache[b] # NoCache THEN cache[b] ELSE Resolved(bld[b], random + 1)

FillCache(b) ==
    /\ ~bld[b].err
    /\ cache[b] = NoCache => Resolvable(bld[b]) /\ random < MaxRandom
    /\ cache' = [cache EXCEPT ![b] = Effective(b)]
    /\ IF cache[b] # NoCache THEN UNCHANGED <<random, others>>
       ELSE random' = random + 1 /\ others' = [others EXCEPT ![b] = FALSE]

HandOut(b, cfg) == given' = [given EXCEPT ![b] = @ \union {cfg}]

(* try_client_params.                                                      *)
ClientParams(b) ==
    /\ call[b] = Idle /\ FillCache(b) /\ HandOut(b, Effective(b).cfg)
    /\ UNCHANGED <<bld, call, told, sets, acked>> /\ UNCHANGED fileVars

(* try_build, until it reads the file again.                               *)
TryBuild(b) ==
    /\ call[b] = Idle /\ FillCache(b)
    /\ IF Effective(b).persist
       THEN /\ call' = [call EXCEPT ![b] = [pc |-> "validate", eff |-> Effective(b)]]
            /\ UNCHANGED given
       ELSE HandOut(b, Effective(b).cfg) /\ UNCHANGED call
    /\ UNCHANGED <<bld, told, sets, acked>> /\ UNCHANGED fileVars

Return(b, changed) == call' = [call EXCEPT ![b] = Idle] /\ told' = [told EXCEPT ![b] = changed]
Goto(b, pc) == call' = [call EXCEPT ![b] = [pc |-> pc, eff |-> @.eff]] /\ UNCHANGED told

(* ensure_statefile_unchanged.                                             *)
Validate(b) ==
    /\ call[b] # Idle /\ call[b].pc = "validate"
    /\ IF file = call[b].eff.obs THEN Goto(b, "write") ELSE Return(b, TRUE)
    /\ UNCHANGED <<bld, cache, random, sets>> /\ UNCHANGED fileVars /\ UNCHANGED ghosts

(* The file cannot be read; or atomic_write_json: an error before the      *)
(* rename ...                                                              *)
NotPublished(b) ==
    /\ call[b] # Idle /\ call[b].pc \in {"validate", "write"} /\ Return(b, FALSE)
    /\ UNCHANGED <<bld, cache, random, sets>> /\ UNCHANGED fileVars /\ UNCHANGED ghosts

WrittenBy(B) == others' = [b \in Builders |-> others[b] \/ b \notin B]

(* ... the rename, which a crash may undo until the directory is synced ...*)
Persist(b) ==
    /\ call[b] # Idle /\ call[b].pc = "write" /\ Goto(b, "sync")
    /\ file' = call[b].eff.cfg /\ disk' = disk \union {file'}
    /\ WrittenBy({b}) /\ acked' = Absent
    /\ UNCHANGED <<bld, cache, random, sets, foreign, given>>

Remember(b, e) == cache' = [cache EXCEPT ![b] = e]

(* Mutant: the directory is not synced.                                    *)
NoSync(b) ==
    /\ call[b] # Idle /\ call[b].pc = "sync" /\ Return(b, FALSE)
    /\ UNCHANGED disk
    /\ Remember(b, [cfg |-> call[b].eff.cfg, persist |-> FALSE, obs |-> Absent])
    /\ HandOut(b, call[b].eff.cfg)
    /\ acked' = IF file = call[b].eff.cfg THEN file ELSE acked
    /\ UNCHANGED <<bld, random, sets, file, foreign, others>>

(* ... sync_parent_directory, and the build is done ...                    *)
SyncParent(b) ==
    /\ call[b] # Idle /\ call[b].pc = "sync" /\ Return(b, FALSE)
    /\ disk' = {file}
    /\ Remember(b, [cfg |-> call[b].eff.cfg, persist |-> FALSE, obs |-> Absent])
    /\ HandOut(b, call[b].eff.cfg)
    /\ acked' = IF file = call[b].eff.cfg THEN file ELSE acked
    /\ UNCHANGED <<bld, random, sets, file, foreign, others>>

(* Mutants: after a failed sync the old observation is kept; the           *)
(* configuration is forgotten.                                             *)
KeepObservation(b) ==
    /\ call[b] # Idle /\ call[b].pc = "sync" /\ Return(b, FALSE)
    /\ UNCHANGED <<cache, bld, random, sets>> /\ UNCHANGED fileVars /\ UNCHANGED ghosts
ForgetConfiguration(b) ==
    /\ call[b] # Idle /\ call[b].pc = "sync" /\ Return(b, FALSE)
    /\ Remember(b, NoCache)
    /\ UNCHANGED <<bld, random, sets>> /\ UNCHANGED fileVars /\ UNCHANGED ghosts

(* ... or PublishedButNotDurable: the builder adopts what it wrote.        *)
NotDurable(b) ==
    /\ call[b] # Idle /\ call[b].pc = "sync" /\ Return(b, FALSE)
    /\ Remember(b, [cfg |-> call[b].eff.cfg, persist |-> call[b].eff.persist,
                   obs |-> call[b].eff.cfg])
    /\ UNCHANGED <<bld, random, sets>> /\ UNCHANGED fileVars /\ UNCHANGED ghosts

-----------------------------------------------------------------------------
(* Somebody else replaces the file.                                        *)
Foreign(c) ==
    /\ foreign < MaxForeign /\ foreign' = foreign + 1
    /\ file' = c /\ disk' = disk \union {c}
    /\ WrittenBy({}) /\ acked' = Absent
    /\ UNCHANGED <<bld, cache, call, told, random, sets, given>>

(* The machine goes down; all builders start anew.                         *)
Crash ==
    /\ random + Cardinality(Builders) <= MaxRandom
    /\ file' \in disk /\ disk' = {file'}
    /\ random' = random + Cardinality(Builders)
    /\ bld' \in {g \in [Builders -> {Default(n) : n \in random + 1..random'}] :
                   \A b, c \in Builders : g[b] = g[c] => b = c}
    /\ cache' = [b \in Builders |-> NoCache] /\ call' = [b \in Builders |-> Idle]
    /\ told' = [b \in Builders |-> FALSE]
    /\ given' = [b \in Builders |-> {}] /\ others' = [b \in Builders |-> FALSE]
    /\ UNCHANGED <<sets, foreign, acked>>

StNext ==
    \/ \E b \in Builders :
         \/ NodeKeys(b) \/ BadNodeKeys(b) \/ NodeId(b) \/ IatMode(b) \/ StatefilePath(b)
         \/ \E A \in {{}, {"iat"}, {"key", "seed"}, {"key", "id", "seed"}} : Options(b, A)
         \/ \E path \in {"dir", "file"} : Import(b, path)
         \/ ClientParams(b) \/ TryBuild(b) \/ Validate(b) \/ NotPublished(b)
         \/ Persist(b) \/ SyncParent(b) \/ NotDurable(b)
    \/ \E c \in {Absent, Garbage, [f \in Fields |-> 2]} : Foreign(c)
    \/ Crash

StVars == <<file, disk, random, bld, cache, call, told, sets, foreign, given, others, acked>>
StSpec == StInit /\ [][StNext]_StVars

-----------------------------------------------------------------------------
(* A build that returned after writing its state has made it durable: as   *)
(* long as nobody replaces the file, every crash leaves exactly it.        *)
BuiltStateSurvives ==
    acked # Absent => disk = {acked}

(* Between two setter calls a builder hands out one configuration: client  *)
(* parameters already published stay valid through failed writes, failed   *)
(* syncs and retries.                                                      *)
OneConfiguration ==
    \A b \in Builders : Cardinality(given[b]) <= 1

(* A builder is told that its file was changed only if somebody else wrote *)
(* it: it does not mistake its own write for a foreign one.                *)
ChangeIsForeign ==
    \A b \in Builders : told[b] => others[b]
=============================================================================
