------------------------- MODULE ServerStateProofs -------------------------
(* For any number of builders, setter calls, foreign writes and crashes:    *)
(* what a build wrote is durable, a builder hands out one configuration, and *)
(* it is told of a changed file only when somebody else changed it.         *)
EXTENDS ServerState, FiniteSetTheorems, TLAPS

Shapes ==
  /\ cache = [b \in Builders |-> cache[b]] /\ call = [b \in Builders |-> call[b]]
  /\ given = [b \in Builders |-> given[b]]
  /\ told \in [Builders -> BOOLEAN] /\ others \in [Builders -> BOOLEAN]

(* A call in progress works on the cached configuration. *)
CallInv(b) ==
  call[b] # Idle => /\ call[b].pc \in {"validate", "write", "sync"}
                    /\ call[b].eff = cache[b] /\ cache[b] # NoCache /\ cache[b].persist

(* Unless others wrote the file, it is what a configuration that is still   *)
(* to be written was resolved against, or once renamed, that configuration. *)
FileInv(b) ==
  cache[b] # NoCache /\ cache[b].persist /\ ~others[b] =>
    file = IF call[b] # Idle /\ call[b].pc = "sync" THEN cache[b].cfg ELSE cache[b].obs

GivenInv(b) ==
  /\ cache[b] = NoCache => given[b] = {} /\ ~told[b]
  /\ given[b] \subseteq {cache[b].cfg}

DiskInv == file \in disk /\ BuiltStateSurvives

IInv ==
  /\ Shapes /\ DiskInv
  /\ \A b \in Builders : CallInv(b) /\ FileInv(b) /\ GivenInv(b) /\ (told[b] => others[b])

LEMMA InitEstablishes == StInit => IInv
<1> SUFFICES ASSUME StInit PROVE IInv
  OBVIOUS
<1>1. Shapes
  BY DEF StInit, Shapes
<1>2. DiskInv
  BY DEF StInit, DiskInv, BuiltStateSurvives
<1>3. \A b \in Builders : CallInv(b) /\ FileInv(b) /\ GivenInv(b) /\ (told[b] => others[b])
  BY DEF StInit, CallInv, FileInv, GivenInv
<1> QED BY <1>1, <1>2, <1>3 DEF IInv

(* What one builder does to itself leaves the others alone. *)
LEMMA OneBuilder ==
  ASSUME IInv, NEW b \in Builders, NEW e, NEW k, NEW g, NEW t \in BOOLEAN, NEW o \in BOOLEAN,
         cache' = [cache EXCEPT ![b] = e], call' = [call EXCEPT ![b] = k],
         given' = [given EXCEPT ![b] = g], told' = [told EXCEPT ![b] = t],
         others' = [others EXCEPT ![b] = o], UNCHANGED file, DiskInv',
         CallInv(b)', FileInv(b)', GivenInv(b)', t => o
  PROVE  IInv'
<1>1. Shapes'
  BY DEF IInv, Shapes
<1>2. \A c \in Builders \ {b} : /\ cache'[c] = cache[c] /\ call'[c] = call[c] /\ given'[c] = given[c]
                                /\ told'[c] = told[c] /\ others'[c] = others[c]
  BY DEF IInv, Shapes
<1>3. \A c \in Builders \ {b} : CallInv(c)' /\ FileInv(c)' /\ GivenInv(c)' /\ (told'[c] => others'[c])
  BY <1>2 DEF IInv, CallInv, FileInv, GivenInv
<1>4. told'[b] = t /\ others'[b] = o
  BY DEF IInv, Shapes
<1> QED BY <1>1, <1>3, <1>4 DEF IInv

LEMMA WasSet == ASSUME IInv, NEW b \in Builders, NEW r, Set(b, r) PROVE IInv'
<1>1. /\ call[b] = Idle /\ cache' = [cache EXCEPT ![b] = NoCache]
      /\ given' = [given EXCEPT ![b] = {}] /\ told' = [told EXCEPT ![b] = FALSE]
      /\ UNCHANGED <<call, others, acked, file, disk>>
  BY DEF Set, fileVars
<1>2. call' = [call EXCEPT ![b] = call[b]] /\ others' = [others EXCEPT ![b] = others[b]]
  BY <1>1 DEF IInv, Shapes
<1>3. cache'[b] = NoCache /\ given'[b] = {} /\ told'[b] = FALSE /\ call'[b] = Idle
  BY <1>1 DEF IInv, Shapes
<1>4. CallInv(b)' /\ FileInv(b)' /\ GivenInv(b)'
  BY <1>3 DEF CallInv, FileInv, GivenInv
<1>5. DiskInv'
  BY <1>1 DEF IInv, DiskInv, BuiltStateSurvives
<1>6. others[b] \in BOOLEAN
  BY DEF IInv, Shapes
<1> QED BY <1>1, <1>2, <1>4, <1>5, <1>6, OneBuilder

LEMMA Imported == ASSUME IInv, NEW b \in Builders, NEW path, Import(b, path) PROVE IInv'
<1>1. /\ call[b] = Idle /\ given' = [given EXCEPT ![b] = {}] /\ told' = [told EXCEPT ![b] = FALSE]
      /\ UNCHANGED <<call, others, acked, file, disk>>
  BY DEF Import, fileVars
<1>2. PICK e : cache' = [cache EXCEPT ![b] = e] /\ (e = NoCache \/ e.persist = FALSE)
  <2>1. CASE file \in Contents
    <3> DEFINE e == [cfg |-> file, persist |-> FALSE, obs |-> Absent]
    <3>1. cache' = [cache EXCEPT ![b] = e]
      BY <2>1 DEF Import
    <3>2. e.persist = FALSE
      OBVIOUS
    <3> QED BY <3>1, <3>2
  <2>2. CASE file \notin Contents
    BY <2>2 DEF Import
  <2> QED BY <2>1, <2>2
<1>3. call' = [call EXCEPT ![b] = call[b]] /\ others' = [others EXCEPT ![b] = others[b]]
  BY <1>1 DEF IInv, Shapes
<1>4. cache'[b] = e /\ given'[b] = {} /\ told'[b] = FALSE /\ call'[b] = Idle
  BY <1>1, <1>2 DEF IInv, Shapes
<1>5. CallInv(b)' /\ FileInv(b)' /\ GivenInv(b)'
  BY <1>2, <1>4 DEF CallInv, FileInv, GivenInv
<1>6. DiskInv'
  BY <1>1 DEF IInv, DiskInv, BuiltStateSurvives
<1>7. others[b] \in BOOLEAN
  BY DEF IInv, Shapes
<1> QED BY <1>1, <1>2, <1>3, <1>5, <1>6, <1>7, OneBuilder

(* The configuration taken from the cache or resolved into it. *)
LEMMA ResolvedIsCached ==
  ASSUME NEW r, NEW n PROVE Resolved(r, n) # NoCache /\ Resolved(r, n).obs = file
<1>1. "obs" \in DOMAIN Resolved(r, n) /\ "obs" \notin DOMAIN NoCache
  BY DEF Resolved, NoCache
<1>2. Resolved(r, n).obs = file
  BY DEF Resolved
<1> QED BY <1>1, <1>2

LEMMA Filled ==
  ASSUME IInv, NEW b \in Builders, FillCache(b), call[b] = Idle
  PROVE  \E o \in BOOLEAN :
           /\ others' = [others EXCEPT ![b] = o] /\ cache' = [cache EXCEPT ![b] = Effective(b)]
           /\ Effective(b) # NoCache /\ given[b] \subseteq {Effective(b).cfg} /\ (told[b] => o)
           /\ Effective(b).persist /\ ~o => file = Effective(b).obs
<1>1. cache' = [cache EXCEPT ![b] = Effective(b)]
  BY DEF FillCache
<1>2. CASE cache[b] # NoCache
  <2>1. Effective(b) = cache[b] /\ others' = others
    BY <1>2 DEF Effective, FillCache
  <2>2. others' = [others EXCEPT ![b] = others[b]] /\ others[b] \in BOOLEAN
    BY <2>1 DEF IInv, Shapes
  <2>3. given[b] \subseteq {Effective(b).cfg} /\ (told[b] => others[b])
    BY <2>1 DEF IInv, GivenInv
  <2>4. Effective(b).persist /\ ~others[b] => file = Effective(b).obs
    BY <1>2, <2>1 DEF IInv, FileInv
  <2> QED BY <1>1, <1>2, <2>1, <2>2, <2>3, <2>4
<1>3. CASE cache[b] = NoCache
  <2>1. Effective(b) = Resolved(bld[b], random + 1) /\ others' = [others EXCEPT ![b] = FALSE]
    BY <1>3 DEF Effective, FillCache
  <2>2. given[b] = {} /\ ~told[b]
    BY <1>3 DEF IInv, GivenInv
  <2>3. Effective(b) # NoCache /\ Effective(b).obs = file
    BY <2>1, ResolvedIsCached
  <2> QED BY <1>1, <2>1, <2>2, <2>3
<1> QED BY <1>2, <1>3

LEMMA ParamsGiven == ASSUME IInv, NEW b \in Builders, ClientParams(b) PROVE IInv'
<1>1. /\ call[b] = Idle /\ FillCache(b)
      /\ given' = [given EXCEPT ![b] = given[b] \cup {Effective(b).cfg}]
      /\ UNCHANGED <<call, told, acked, file, disk>>
  BY DEF ClientParams, HandOut, fileVars
<1>2. PICK o \in BOOLEAN :
           /\ others' = [others EXCEPT ![b] = o] /\ cache' = [cache EXCEPT ![b] = Effective(b)]
           /\ Effective(b) # NoCache /\ given[b] \subseteq {Effective(b).cfg} /\ (told[b] => o)
           /\ Effective(b).persist /\ ~o => file = Effective(b).obs
  BY <1>1, Filled
<1>3. call' = [call EXCEPT ![b] = call[b]] /\ told' = [told EXCEPT ![b] = told[b]]
  BY <1>1 DEF IInv, Shapes
<1>4. /\ cache'[b] = Effective(b) /\ given'[b] = given[b] \cup {Effective(b).cfg}
      /\ call'[b] = Idle /\ others'[b] = o /\ told[b] \in BOOLEAN
  BY <1>1, <1>2 DEF IInv, Shapes
<1>5. CallInv(b)'
  BY <1>4 DEF CallInv
<1>6. FileInv(b)'
  BY <1>1, <1>2, <1>4 DEF FileInv
<1>7. GivenInv(b)'
  BY <1>2, <1>4 DEF GivenInv
<1>8. DiskInv'
  BY <1>1 DEF IInv, DiskInv, BuiltStateSurvives
<1> QED BY <1>1, <1>2, <1>3, <1>4, <1>5, <1>6, <1>7, <1>8, OneBuilder

LEMMA BuildBegun == ASSUME IInv, NEW b \in Builders, TryBuild(b) PROVE IInv'
<1>1. call[b] = Idle /\ FillCache(b) /\ UNCHANGED <<told, acked, file, disk>>
  BY DEF TryBuild, fileVars
<1>2. PICK o \in BOOLEAN :
           /\ others' = [others EXCEPT ![b] = o] /\ cache' = [cache EXCEPT ![b] = Effective(b)]
           /\ Effective(b) # NoCache /\ given[b] \subseteq {Effective(b).cfg} /\ (told[b] => o)
           /\ Effective(b).persist /\ ~o => file = Effective(b).obs
  BY <1>1, Filled
<1>3. told' = [told EXCEPT ![b] = told[b]] /\ told[b] \in BOOLEAN
  BY <1>1 DEF IInv, Shapes
<1>4. cache'[b] = Effective(b) /\ others'[b] = o
  BY <1>1, <1>2 DEF IInv, Shapes
<1>5. DiskInv'
  BY <1>1 DEF IInv, DiskInv, BuiltStateSurvives
<1>6. CASE Effective(b).persist
  <2> DEFINE k == [pc |-> "validate", eff |-> Effective(b)]
  <2>1. call' = [call EXCEPT ![b] = k] /\ given' = given
    BY <1>6 DEF TryBuild
  <2>2. given' = [given EXCEPT ![b] = given[b]] /\ call'[b] = k /\ given'[b] = given[b]
    BY <2>1 DEF IInv, Shapes
  <2>3. k.pc = "validate" /\ k.eff = Effective(b)
    OBVIOUS
  <2> HIDE DEF k
  <2>4. CallInv(b)' /\ FileInv(b)' /\ GivenInv(b)'
    BY <1>1, <1>2, <1>4, <1>6, <2>2, <2>3 DEF CallInv, FileInv, GivenInv
  <2> QED BY <1>1, <1>2, <1>3, <1>5, <2>1, <2>2, <2>4, OneBuilder
<1>7. CASE ~Effective(b).persist
  <2>1. call' = call /\ given' = [given EXCEPT ![b] = given[b] \cup {Effective(b).cfg}]
    BY <1>7 DEF TryBuild, HandOut
  <2>2. /\ call' = [call EXCEPT ![b] = call[b]] /\ call'[b] = Idle
        /\ given'[b] = given[b] \cup {Effective(b).cfg}
    BY <1>1, <2>1 DEF IInv, Shapes
  <2>3. CallInv(b)' /\ FileInv(b)' /\ GivenInv(b)'
    BY <1>1, <1>2, <1>4, <1>7, <2>2 DEF CallInv, FileInv, GivenInv
  <2> QED BY <1>1, <1>2, <1>3, <1>5, <2>1, <2>2, <2>3, OneBuilder
<1> QED BY <1>6, <1>7

(* A step of a call that leaves the cache and the file alone. *)
LEMMA CallMoves ==
  ASSUME IInv, NEW b \in Builders, NEW k, NEW t \in BOOLEAN,
         call[b] # Idle, call[b].pc \in {"validate", "write"},
         call' = [call EXCEPT ![b] = k], told' = [told EXCEPT ![b] = t], t => others[b],
         k = Idle \/ (k.pc = "write" /\ k.eff = call[b].eff),
         UNCHANGED <<cache, given, others, acked, file, disk>>
  PROVE  IInv'
<1>1. /\ cache' = [cache EXCEPT ![b] = cache[b]] /\ given' = [given EXCEPT ![b] = given[b]]
      /\ others' = [others EXCEPT ![b] = others[b]] /\ others[b] \in BOOLEAN
      /\ call'[b] = k /\ told'[b] = t
  BY DEF IInv, Shapes
<1>2. CallInv(b)' /\ FileInv(b)' /\ GivenInv(b)'
  <2>1. call[b].eff = cache[b] /\ cache[b] # NoCache /\ cache[b].persist
    BY DEF IInv, CallInv
  <2>2. CallInv(b)'
    BY <1>1, <2>1 DEF CallInv
  <2>3. FileInv(b)'
    BY <1>1 DEF IInv, FileInv
  <2>4. GivenInv(b)'
    BY <2>1 DEF IInv, GivenInv
  <2> QED BY <2>2, <2>3, <2>4
<1>3. DiskInv'
  BY DEF IInv, DiskInv, BuiltStateSurvives
<1>4. Shapes'
  BY DEF IInv, Shapes
<1>5. \A c \in Builders \ {b} : call'[c] = call[c] /\ told'[c] = told[c]
  BY DEF IInv, Shapes
<1>6. \A c \in Builders \ {b} : CallInv(c)' /\ FileInv(c)' /\ GivenInv(c)' /\ (told'[c] => others'[c])
  BY <1>5 DEF IInv, CallInv, FileInv, GivenInv
<1>7. told'[b] => others'[b]
  BY <1>1
<1> QED BY <1>2, <1>3, <1>4, <1>6, <1>7 DEF IInv

LEMMA Validated == ASSUME IInv, NEW b \in Builders, Validate(b) PROVE IInv'
<1>1. call[b] # Idle /\ call[b].pc = "validate" /\ UNCHANGED <<cache, given, others, acked, file, disk>>
  BY DEF Validate, fileVars, ghosts
<1>2. CASE file = call[b].eff.obs
  <2> DEFINE k == [pc |-> "write", eff |-> call[b].eff]
  <2>1. call' = [call EXCEPT ![b] = k] /\ told' = told
    BY <1>2 DEF Validate, Goto
  <2>2. told' = [told EXCEPT ![b] = told[b]] /\ told[b] \in BOOLEAN /\ (told[b] => others[b])
    BY <2>1 DEF IInv, Shapes
  <2>3. k.pc = "write" /\ k.eff = call[b].eff
    OBVIOUS
  <2> HIDE DEF k
  <2> QED BY <1>1, <2>1, <2>2, <2>3, CallMoves
<1>3. CASE file # call[b].eff.obs
  <2>1. call' = [call EXCEPT ![b] = Idle] /\ told' = [told EXCEPT ![b] = TRUE]
    BY <1>3 DEF Validate, Return
  <2>2. others[b]
    BY <1>1, <1>3 DEF IInv, CallInv, FileInv
  <2> QED BY <1>1, <2>1, <2>2, CallMoves
<1> QED BY <1>2, <1>3

LEMMA Unpublished == ASSUME IInv, NEW b \in Builders, NotPublished(b) PROVE IInv'
  BY CallMoves DEF NotPublished, Return, fileVars, ghosts

(* The rename: for every other builder the file was changed by others. *)
LEMMA Renamed == ASSUME IInv, NEW b \in Builders, Persist(b) PROVE IInv'
<1> DEFINE k == [pc |-> "sync", eff |-> call[b].eff]
<1>1. /\ call[b] # Idle /\ call[b].pc = "write" /\ call' = [call EXCEPT ![b] = k]
      /\ file' = call[b].eff.cfg /\ disk' = disk \cup {file'} /\ acked' = Absent
      /\ others' = [c \in Builders |-> others[c] \/ c \notin {b}]
      /\ UNCHANGED <<cache, given, told>>
  BY DEF Persist, Goto, WrittenBy
<1>2. k.pc = "sync" /\ k.eff = call[b].eff /\ k # Idle
  BY DEF Idle
<1> HIDE DEF k
<1>3. Shapes'
  BY <1>1 DEF IInv, Shapes
<1>4. DiskInv'
  BY <1>1 DEF DiskInv, BuiltStateSurvives
<1>5. \A c \in Builders \ {b} : others'[c] /\ call'[c] = call[c]
  <2>1. \A c \in Builders \ {b} : call'[c] = call[c]
    BY <1>1 DEF IInv, Shapes
  <2>2. \A c \in Builders \ {b} : others'[c]
    BY <1>1, Zenon
  <2> QED BY <2>1, <2>2
<1>6. call'[b] = k /\ (others'[b] <=> others[b])
  <2>1. call'[b] = k
    BY <1>1 DEF IInv, Shapes
  <2>2. others'[b] <=> others[b]
    BY <1>1, Zenon
  <2> QED BY <2>1, <2>2
<1>7. CallInv(b)' /\ FileInv(b)' /\ GivenInv(b)' /\ (told'[b] => others'[b])
  <2>1. call[b].eff = cache[b] /\ cache[b] # NoCache /\ cache[b].persist
    BY <1>1 DEF IInv, CallInv
  <2>2. CallInv(b)'
    BY <1>1, <1>2, <1>6, <2>1 DEF CallInv
  <2>3. FileInv(b)'
    BY <1>1, <1>2, <1>6, <2>1 DEF FileInv
  <2>4. GivenInv(b)'
    BY <1>1 DEF IInv, GivenInv
  <2>5. told'[b] => others'[b]
    BY <1>1, <1>6 DEF IInv
  <2> QED BY <2>2, <2>3, <2>4, <2>5
<1>8. \A c \in Builders \ {b} : CallInv(c)' /\ FileInv(c)' /\ GivenInv(c)' /\ (told'[c] => others'[c])
  BY <1>1, <1>5 DEF IInv, CallInv, FileInv, GivenInv
<1> QED BY <1>3, <1>4, <1>7, <1>8 DEF IInv

LEMMA Synced == ASSUME IInv, NEW b \in Builders, SyncParent(b) PROVE IInv'
<1> DEFINE e == [cfg |-> call[b].eff.cfg, persist |-> FALSE, obs |-> Absent]
<1>1. /\ call[b] # Idle /\ call[b].pc = "sync" /\ call' = [call EXCEPT ![b] = Idle]
      /\ told' = [told EXCEPT ![b] = FALSE] /\ cache' = [cache EXCEPT ![b] = e]
      /\ given' = [given EXCEPT ![b] = given[b] \cup {call[b].eff.cfg}]
      /\ disk' = {file} /\ acked' = (IF file = call[b].eff.cfg THEN file ELSE acked)
      /\ UNCHANGED <<file, others>>
  BY DEF SyncParent, Return, Remember, HandOut
<1>2. e.cfg = call[b].eff.cfg /\ e.persist = FALSE /\ e # NoCache
  <2>1. "obs" \in DOMAIN e /\ "obs" \notin DOMAIN NoCache
    BY DEF NoCache
  <2> QED BY <2>1
<1> HIDE DEF e
<1>3. /\ others' = [others EXCEPT ![b] = others[b]] /\ others[b] \in BOOLEAN
      /\ cache'[b] = e /\ call'[b] = Idle /\ given'[b] = given[b] \cup {call[b].eff.cfg}
  BY <1>1 DEF IInv, Shapes
<1>4. CallInv(b)' /\ FileInv(b)'
  BY <1>2, <1>3 DEF CallInv, FileInv
<1>5. GivenInv(b)'
  BY <1>1, <1>2, <1>3 DEF IInv, CallInv, GivenInv
<1>6. DiskInv'
  BY <1>1 DEF IInv, DiskInv, BuiltStateSurvives
<1> QED BY <1>1, <1>3, <1>4, <1>5, <1>6, OneBuilder

LEMMA Undurable == ASSUME IInv, NEW b \in Builders, NotDurable(b) PROVE IInv'
<1> DEFINE e == [cfg |-> call[b].eff.cfg, persist |-> call[b].eff.persist, obs |-> call[b].eff.cfg]
<1>1. /\ call[b] # Idle /\ call[b].pc = "sync" /\ call' = [call EXCEPT ![b] = Idle]
      /\ told' = [told EXCEPT ![b] = FALSE] /\ cache' = [cache EXCEPT ![b] = e]
      /\ UNCHANGED <<file, disk, given, others, acked>>
  BY DEF NotDurable, Return, Remember, fileVars, ghosts
<1>2. e.cfg = call[b].eff.cfg /\ e.obs = call[b].eff.cfg /\ e # NoCache
  <2>1. "obs" \in DOMAIN e /\ "obs" \notin DOMAIN NoCache
    BY DEF NoCache
  <2> QED BY <2>1
<1> HIDE DEF e
<1>3. /\ others' = [others EXCEPT ![b] = others[b]] /\ others[b] \in BOOLEAN
      /\ given' = [given EXCEPT ![b] = given[b]]
      /\ cache'[b] = e /\ call'[b] = Idle /\ given'[b] = given[b]
  BY <1>1 DEF IInv, Shapes
<1>4. call[b].eff = cache[b] /\ cache[b] # NoCache /\ cache[b].persist
  BY <1>1 DEF IInv, CallInv
<1>5. CallInv(b)' /\ FileInv(b)'
  BY <1>1, <1>2, <1>3, <1>4 DEF IInv, CallInv, FileInv
<1>6. GivenInv(b)'
  BY <1>2, <1>3, <1>4 DEF IInv, GivenInv
<1>7. DiskInv'
  BY <1>1 DEF IInv, DiskInv, BuiltStateSurvives
<1> QED BY <1>1, <1>3, <1>5, <1>6, <1>7, OneBuilder

LEMMA Replaced == ASSUME IInv, NEW c, Foreign(c) PROVE IInv'
<1>1. /\ file' = c /\ disk' = disk \cup {c} /\ acked' = Absent
      /\ others' = [b \in Builders |-> others[b] \/ b \notin {}]
      /\ UNCHANGED <<cache, call, given, told>>
  BY DEF Foreign, WrittenBy
<1>2. Shapes'
  BY <1>1 DEF IInv, Shapes
<1>3. DiskInv'
  BY <1>1 DEF DiskInv, BuiltStateSurvives
<1>4. \A b \in Builders : others'[b]
  BY <1>1, Zenon
<1>5. \A b \in Builders : CallInv(b)' /\ FileInv(b)' /\ GivenInv(b)'
  BY <1>1, <1>4 DEF IInv, CallInv, FileInv, GivenInv
<1> QED BY <1>2, <1>3, <1>4, <1>5 DEF IInv

(* A crash leaves one of the contents on disk, and fresh builders. *)
LEMMA Crashed == ASSUME IInv, Crash PROVE IInv'
<1>1. /\ file' \in disk /\ disk' = {file'} /\ acked' = acked
      /\ cache' = [b \in Builders |-> NoCache] /\ call' = [b \in Builders |-> Idle]
      /\ told' = [b \in Builders |-> FALSE] /\ given' = [b \in Builders |-> {}]
      /\ others' = [b \in Builders |-> FALSE]
  BY DEF Crash
<1>2. Shapes'
  BY <1>1 DEF Shapes
<1>3. DiskInv'
  BY <1>1 DEF IInv, DiskInv, BuiltStateSurvives
<1>4. \A b \in Builders : CallInv(b)' /\ FileInv(b)' /\ GivenInv(b)' /\ (told'[b] => others'[b])
  BY <1>1 DEF CallInv, FileInv, GivenInv
<1> QED BY <1>2, <1>3, <1>4 DEF IInv

LEMMA Inductive == IInv /\ [StNext]_StVars => IInv'
<1> SUFFICES ASSUME IInv, [StNext]_StVars PROVE IInv'
  OBVIOUS
<1>1. CASE UNCHANGED StVars
  BY <1>1 DEF StVars, IInv, Shapes, DiskInv, BuiltStateSurvives, CallInv, FileInv, GivenInv
<1>2. ASSUME NEW b \in Builders,
             NodeKeys(b) \/ BadNodeKeys(b) \/ NodeId(b) \/ IatMode(b) \/ StatefilePath(b)
      PROVE  IInv'
  BY <1>2, WasSet DEF NodeKeys, BadNodeKeys, NodeId, IatMode, StatefilePath
<1>3. ASSUME NEW b \in Builders, NEW A, Options(b, A) PROVE IInv'
  BY <1>3, WasSet DEF Options
<1>4. CASE \E b \in Builders : \E path \in {"dir", "file"} : Import(b, path)
  BY <1>4, Imported
<1>5. CASE \E b \in Builders : ClientParams(b) \/ TryBuild(b) \/ Validate(b) \/ NotPublished(b)
  BY <1>5, ParamsGiven, BuildBegun, Validated, Unpublished
<1>6. CASE \E b \in Builders : Persist(b) \/ SyncParent(b) \/ NotDurable(b)
  BY <1>6, Renamed, Synced, Undurable
<1>7. CASE (\E c \in {Absent, Garbage, [f \in Fields |-> 2]} : Foreign(c)) \/ Crash
  BY <1>7, Replaced, Crashed
<1> QED BY <1>1, <1>2, <1>3, <1>4, <1>5, <1>6, <1>7, Zenon DEF StNext

(* atomic_write_json: what a build that returned had written is the only    *)
(* thing a crash can leave, until somebody replaces the file; for any       *)
(* number of builders, writes and crashes.                                  *)
THEOREM BuiltIsDurable == StSpec => []BuiltStateSurvives
<1>1. IInv => BuiltStateSurvives
  BY DEF IInv, DiskInv
<1> QED BY <1>1, InitEstablishes, Inductive, PTL DEF StSpec

(* effective_configuration: between two setter calls a builder hands out    *)
(* one configuration, whatever its writes run into.                         *)
THEOREM GivenOnce == StSpec => []OneConfiguration
<1>1. ASSUME IInv, NEW b \in Builders PROVE Cardinality(given[b]) <= 1
  <2>1. given[b] = {} \/ given[b] = {cache[b].cfg}
    BY <1>1 DEF IInv, GivenInv
  <2>2. CASE given[b] = {}
    <3>1. Cardinality(given[b]) = 0
      BY <2>2, FS_EmptySet, Zenon
    <3> QED BY <3>1
  <2>3. CASE given[b] = {cache[b].cfg}
    <3>1. Cardinality(given[b]) = 1
      BY <2>3, FS_Singleton, Zenon
    <3> QED BY <3>1
  <2> QED BY <2>1, <2>2, <2>3
<1>2. IInv => OneConfiguration
  BY <1>1 DEF OneConfiguration
<1> QED BY <1>2, InitEstablishes, Inductive, PTL DEF StSpec

(* ensure_statefile_unchanged: a builder is told that its file was changed  *)
(* only if another builder or program wrote it since it was read.           *)
THEOREM ToldOfOthers == StSpec => []ChangeIsForeign
<1>1. IInv => ChangeIsForeign
  BY DEF IInv, ChangeIsForeign
<1> QED BY <1>1, InitEstablishes, Inductive, PTL DEF StSpec
=============================================================================
