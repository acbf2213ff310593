----------------------------- MODULE ClientProofs -----------------------------
(***************************************************************************)
(* Proofs about the client: its configuration and state file, for any      *)
(* number of builders, setter calls and foreign writes; and the managed    *)
(* transport that runs it, for any environment the parent may set, any     *)
(* list of methods, and any connections and requests.                      *)
(*                                                                         *)
(* The two specifications share no variable.                               *)
(***************************************************************************)
EXTENDS ClientState, ManagedClient, FiniteSetTheorems, TLAPS

-----------------------------------------------------------------------------
(***************************************************************************)
(* The configuration and the state file.                                   *)
(***************************************************************************)
Vals == {Zero, BySetter, ByArgs, InFile, InBridgeFile}
Configs == [Fields -> Vals]

FileOK(c) ==
    \/ c = Absent
    \/ c = Garbage
    \/ /\ c = [kind |-> "json", cfg |-> c.cfg, private |-> c.private]
       /\ c.private \in BOOLEAN
       /\ Fields \subseteq DOMAIN c.cfg => \A f \in Fields : c.cfg[f] \in Vals

IsBuilder(r) ==
    /\ r = [own |-> r.own, ov |-> r.ov, path |-> r.path,
            readonly |-> r.readonly, persist |-> r.persist]
    /\ r.own \in Configs /\ r.ov \subseteq Fields
    /\ r.readonly \in BOOLEAN /\ r.persist \in BOOLEAN

(* A build keeps what was set and has the rest from one reading of the     *)
(* file; unless another has written since, it knows whether the file is a  *)
(* bridge's, and the file is what it wrote.                                *)
Working(k, r, now) ==
    /\ k = [pc |-> k.pc, bld |-> k.bld, from |-> k.from, stale |-> k.stale]
    /\ k.pc \in {"read", "decide", "write", "sync"} /\ k.stale \in BOOLEAN
    /\ IsBuilder(k.bld)
    /\ k.bld.ov = r.ov /\ \A f \in r.ov : k.bld.own[f] = r.own[f]
    /\ \/ k.from = {}
       \/ \E s \in k.from : \A f \in Fields \ r.ov : k.bld.own[f] = s[f]
    /\ k.pc = "write" => ~k.bld.readonly
    /\ k.pc \in {"decide", "write"} /\ k.bld.path # "dirAsFile" /\ now.kind = "json" /\ now.private
          => k.bld.readonly \/ k.stale
    /\ k.pc = "sync" => k.stale \/ now = Saved(k.bld.own)

CallOK(k, r, now) == k = Idle \/ Working(k, r, now)

ClientOK(c) ==
    \/ c = NoClient
    \/ /\ c = [cfg |-> c.cfg, asked |-> c.asked, ov |-> c.ov, from |-> c.from, error |-> c.error]
       /\ \/ c.error = TRUE
          \/ /\ \A f \in c.ov : c.cfg[f] = c.asked[f]
             /\ \/ c.from = {}
                \/ \E s \in c.from : \A f \in Fields \ c.ov : c.cfg[f] = s[f]

(* What has been acknowledged is all there is on disk.                     *)
FilesOK ==
    /\ FileOK(file) /\ \A d \in disk : FileOK(d)
    /\ acked # None => acked \in Configs /\ file = Saved(acked) /\ disk = {file}

CsInv ==
    /\ FilesOK
    /\ bld = [b \in Builders |-> bld[b]] /\ call = [b \in Builders |-> call[b]]
    /\ client = [b \in Builders |-> client[b]]
    /\ \A b \in Builders : IsBuilder(bld[b]) /\ CallOK(call[b], bld[b], file) /\ ClientOK(client[b])

-----------------------------------------------------------------------------
(* Records with some fields replaced.                                      *)
LEMMA BuilderWith ==
  ASSUME NEW q, q = [own |-> q.own, ov |-> q.ov, path |-> q.path,
                     readonly |-> q.readonly, persist |-> q.persist], NEW own, NEW ov,
         NEW n, n = [q EXCEPT !.own = own, !.ov = ov]
  PROVE  /\ n = [own |-> own, ov |-> ov, path |-> q.path, readonly |-> q.readonly, persist |-> q.persist]
         /\ n.own = own /\ n.ov = ov /\ n.path = q.path /\ n.readonly = q.readonly /\ n.persist = q.persist
<1> DEFINE a == [q EXCEPT !.own = own]
           b == [a EXCEPT !.ov = ov]
<1>0. n = b
  OBVIOUS
<1>1. /\ a = [own |-> own, ov |-> q.ov, path |-> q.path, readonly |-> q.readonly, persist |-> q.persist]
      /\ a.own = own /\ a.ov = q.ov /\ a.path = q.path /\ a.readonly = q.readonly /\ a.persist = q.persist
  OBVIOUS
<1> HIDE DEF a
<1>2. /\ b = [own |-> own, ov |-> ov, path |-> q.path, readonly |-> q.readonly, persist |-> q.persist]
      /\ b.own = own /\ b.ov = ov /\ b.path = q.path /\ b.readonly = q.readonly /\ b.persist = q.persist
  BY <1>1
<1> HIDE DEF b
<1> QED BY <1>0, <1>2

LEMMA BuilderAt ==
  ASSUME NEW q, q = [own |-> q.own, ov |-> q.ov, path |-> q.path,
                     readonly |-> q.readonly, persist |-> q.persist], NEW path, NEW ro, NEW per,
         NEW n, n = [q EXCEPT !.path = path, !.readonly = ro, !.persist = per]
  PROVE  /\ n = [own |-> q.own, ov |-> q.ov, path |-> path, readonly |-> ro, persist |-> per]
         /\ n.own = q.own /\ n.ov = q.ov /\ n.path = path /\ n.readonly = ro /\ n.persist = per
<1> DEFINE a == [q EXCEPT !.path = path]
           b == [a EXCEPT !.readonly = ro]
           c == [b EXCEPT !.persist = per]
<1>0. n = c
  OBVIOUS
<1>1. /\ a = [own |-> q.own, ov |-> q.ov, path |-> path, readonly |-> q.readonly, persist |-> q.persist]
      /\ a.own = q.own /\ a.ov = q.ov /\ a.path = path /\ a.readonly = q.readonly /\ a.persist = q.persist
  OBVIOUS
<1> HIDE DEF a
<1>2. /\ b = [own |-> q.own, ov |-> q.ov, path |-> path, readonly |-> ro, persist |-> q.persist]
      /\ b.own = q.own /\ b.ov = q.ov /\ b.path = path /\ b.readonly = ro /\ b.persist = q.persist
  BY <1>1
<1> HIDE DEF b
<1>3. /\ c = [own |-> q.own, ov |-> q.ov, path |-> path, readonly |-> ro, persist |-> per]
      /\ c.own = q.own /\ c.ov = q.ov /\ c.path = path /\ c.readonly = ro /\ c.persist = per
  BY <1>2
<1> HIDE DEF c
<1> QED BY <1>0, <1>3

LEMMA BuilderMoved ==
  ASSUME NEW q, q = [own |-> q.own, ov |-> q.ov, path |-> q.path,
                     readonly |-> q.readonly, persist |-> q.persist], NEW path,
         NEW n, n = [q EXCEPT !.path = path]
  PROVE  /\ n = [own |-> q.own, ov |-> q.ov, path |-> path, readonly |-> q.readonly, persist |-> q.persist]
         /\ n.own = q.own /\ n.ov = q.ov /\ n.path = path /\ n.readonly = q.readonly /\ n.persist = q.persist
OBVIOUS

LEMMA BuilderBound ==
  ASSUME NEW q, q = [own |-> q.own, ov |-> q.ov, path |-> q.path,
                     readonly |-> q.readonly, persist |-> q.persist], NEW ro,
         NEW n, n = [q EXCEPT !.readonly = ro]
  PROVE  /\ n = [own |-> q.own, ov |-> q.ov, path |-> q.path, readonly |-> ro, persist |-> q.persist]
         /\ n.own = q.own /\ n.ov = q.ov /\ n.path = q.path /\ n.readonly = ro /\ n.persist = q.persist
OBVIOUS

LEMMA CallMarked ==
  ASSUME NEW k, k = [pc |-> k.pc, bld |-> k.bld, from |-> k.from, stale |-> k.stale], NEW stale,
         NEW n, n = [k EXCEPT !.stale = stale]
  PROVE  /\ n = [pc |-> k.pc, bld |-> k.bld, from |-> k.from, stale |-> stale]
         /\ n.pc = k.pc /\ n.bld = k.bld /\ n.from = k.from /\ n.stale = stale
OBVIOUS

LEMMA CallAt ==
  ASSUME NEW k, k = [pc |-> k.pc, bld |-> k.bld, from |-> k.from, stale |-> k.stale], NEW pc,
         NEW n, n = [k EXCEPT !.pc = pc]
  PROVE  /\ n = [pc |-> pc, bld |-> k.bld, from |-> k.from, stale |-> k.stale]
         /\ n.pc = pc /\ n.bld = k.bld /\ n.from = k.from /\ n.stale = k.stale
OBVIOUS

LEMMA CallWrote ==
  ASSUME NEW k, k = [pc |-> k.pc, bld |-> k.bld, from |-> k.from, stale |-> k.stale], NEW pc, NEW stale,
         NEW n, n = [k EXCEPT !.pc = pc, !.stale = stale]
  PROVE  /\ n = [pc |-> pc, bld |-> k.bld, from |-> k.from, stale |-> stale]
         /\ n.pc = pc /\ n.bld = k.bld /\ n.from = k.from /\ n.stale = stale
<1> DEFINE a == [k EXCEPT !.pc = pc]
           b == [a EXCEPT !.stale = stale]
<1>0. n = b
  OBVIOUS
<1>1. /\ a = [pc |-> pc, bld |-> k.bld, from |-> k.from, stale |-> k.stale]
      /\ a.pc = pc /\ a.bld = k.bld /\ a.from = k.from /\ a.stale = k.stale
  OBVIOUS
<1> HIDE DEF a
<1>2. /\ b = [pc |-> pc, bld |-> k.bld, from |-> k.from, stale |-> stale]
      /\ b.pc = pc /\ b.bld = k.bld /\ b.from = k.from /\ b.stale = stale
  BY <1>1
<1> HIDE DEF b
<1> QED BY <1>0, <1>2

LEMMA CallLearnt ==
  ASSUME NEW k, k = [pc |-> k.pc, bld |-> k.bld, from |-> k.from, stale |-> k.stale], NEW pc, NEW r, NEW stale,
         NEW n, n = [k EXCEPT !.pc = pc, !.bld = r, !.stale = stale]
  PROVE  /\ n = [pc |-> pc, bld |-> r, from |-> k.from, stale |-> stale]
         /\ n.pc = pc /\ n.bld = r /\ n.from = k.from /\ n.stale = stale
<1> DEFINE a == [k EXCEPT !.pc = pc]
           b == [a EXCEPT !.bld = r]
           c == [b EXCEPT !.stale = stale]
<1>0. n = c
  OBVIOUS
<1>1. /\ a = [pc |-> pc, bld |-> k.bld, from |-> k.from, stale |-> k.stale]
      /\ a.pc = pc /\ a.bld = k.bld /\ a.from = k.from /\ a.stale = k.stale
  OBVIOUS
<1> HIDE DEF a
<1>2. /\ b = [pc |-> pc, bld |-> r, from |-> k.from, stale |-> k.stale]
      /\ b.pc = pc /\ b.bld = r /\ b.from = k.from /\ b.stale = k.stale
  BY <1>1
<1> HIDE DEF b
<1>3. /\ c = [pc |-> pc, bld |-> r, from |-> k.from, stale |-> stale]
      /\ c.pc = pc /\ c.bld = r /\ c.from = k.from /\ c.stale = stale
  BY <1>2
<1> HIDE DEF c
<1> QED BY <1>0, <1>3

LEMMA CallLoaded ==
  ASSUME NEW k, k = [pc |-> k.pc, bld |-> k.bld, from |-> k.from, stale |-> k.stale], NEW pc, NEW r, NEW from, NEW stale,
         NEW n, n = [k EXCEPT !.pc = pc, !.bld = r, !.from = from, !.stale = stale]
  PROVE  /\ n = [pc |-> pc, bld |-> r, from |-> from, stale |-> stale]
         /\ n.pc = pc /\ n.bld = r /\ n.from = from /\ n.stale = stale
<1> DEFINE a == [k EXCEPT !.pc = pc]
           b == [a EXCEPT !.bld = r]
           c == [b EXCEPT !.from = from]
           d == [c EXCEPT !.stale = stale]
<1>0. n = d
  OBVIOUS
<1>1. /\ a = [pc |-> pc, bld |-> k.bld, from |-> k.from, stale |-> k.stale]
      /\ a.pc = pc /\ a.bld = k.bld /\ a.from = k.from /\ a.stale = k.stale
  OBVIOUS
<1> HIDE DEF a
<1>2. /\ b = [pc |-> pc, bld |-> r, from |-> k.from, stale |-> k.stale]
      /\ b.pc = pc /\ b.bld = r /\ b.from = k.from /\ b.stale = k.stale
  BY <1>1
<1> HIDE DEF b
<1>3. /\ c = [pc |-> pc, bld |-> r, from |-> from, stale |-> k.stale]
      /\ c.pc = pc /\ c.bld = r /\ c.from = from /\ c.stale = k.stale
  BY <1>2
<1> HIDE DEF c
<1>4. /\ d = [pc |-> pc, bld |-> r, from |-> from, stale |-> stale]
      /\ d.pc = pc /\ d.bld = r /\ d.from = from /\ d.stale = stale
  BY <1>3
<1> HIDE DEF d
<1> QED BY <1>0, <1>4

LEMMA ParamsType == \A v \in Vals : Params(v) \in Configs
BY DEF Params, Configs

LEMMA SavedOK == ASSUME NEW g \in Configs PROVE FileOK(Saved(g)) /\ Loadable(Saved(g))
<1>1. /\ Saved(g) = [kind |-> "json", cfg |-> g, private |-> FALSE]
      /\ Saved(g).cfg = g /\ Saved(g).private = FALSE /\ Saved(g).kind = "json"
  BY DEF Saved
<1>2. Fields \subseteq DOMAIN g /\ \A f \in Fields : g[f] \in Vals
  BY DEF Configs
<1> QED BY <1>1, <1>2 DEF FileOK, Loadable

LEMMA ForeignOK ==
  ASSUME NEW c \in {Absent, Garbage, Partial, Saved(Params(InFile)), BridgeFile}
  PROVE  FileOK(c)
<1>1. CASE c = Saved(Params(InFile))
  BY <1>1, SavedOK, ParamsType DEF Vals
<1>2. CASE c = BridgeFile
  <2>1. /\ c = [kind |-> "json", cfg |-> c.cfg, private |-> c.private]
        /\ c.private = TRUE /\ c.cfg = Params(InBridgeFile)
    BY <1>2 DEF BridgeFile
  <2>2. \A f \in Fields : Params(InBridgeFile)[f] \in Vals
    BY DEF Params, Vals
  <2> QED BY <2>1, <2>2 DEF FileOK
<1>3. CASE c = Partial
  <2>1. /\ c = [kind |-> "json", cfg |-> c.cfg, private |-> c.private]
        /\ c.private = FALSE /\ DOMAIN c.cfg = {"iat"}
    BY <1>3 DEF Partial, Saved
  <2>2. ~(Fields \subseteq {"iat"})
    BY DEF Fields
  <2> QED BY <2>1, <2>2 DEF FileOK
<1> QED BY <1>1, <1>2, <1>3 DEF FileOK

LEMMA DefaultOK == IsBuilder(Default)
<1>1. Default = [own |-> Params(Zero), ov |-> {}, path |-> "none", readonly |-> FALSE, persist |-> FALSE]
  BY DEF Default
<1>2. Params(Zero) \in Configs
  BY ParamsType DEF Vals
<1> QED BY <1>1, <1>2 DEF IsBuilder

(* load_statefile: a complete builder, with what was set before and the    *)
(* rest from the file.                                                     *)
LEMMA LoadOK ==
  ASSUME NEW r, NEW c, IsBuilder(r), FileOK(c), Loadable(c)
  PROVE  LET n == LoadStatefile(r, c) IN
         /\ IsBuilder(n) /\ n.ov = r.ov /\ n.path = r.path /\ n.persist = r.persist
         /\ n.readonly = c.private
         /\ \A f \in r.ov : n.own[f] = r.own[f]
         /\ \A f \in Fields \ r.ov : n.own[f] = c.cfg[f]
<1> DEFINE own == [f \in Fields |-> IF f \in r.ov THEN r.own[f] ELSE c.cfg[f]]
           n == LoadStatefile(r, c)
<1>1. c.kind = "json" /\ c.private \in BOOLEAN /\ \A f \in Fields : c.cfg[f] \in Vals
  BY DEF FileOK, Loadable, Absent, Garbage
<1>2. own \in Configs
  BY <1>1 DEF IsBuilder, Configs
<1>3. /\ \A f \in r.ov : own[f] = r.own[f]
      /\ \A f \in Fields \ r.ov : own[f] = c.cfg[f]
  BY DEF IsBuilder
<1>4. n = [r EXCEPT !.own = own, !.readonly = c.private]
  BY DEF LoadStatefile
<1> HIDE DEF own, n
<1>5. n = [own |-> own, ov |-> r.ov, path |-> r.path, readonly |-> c.private, persist |-> r.persist]
  BY <1>4 DEF IsBuilder
<1>6. /\ n.own = own /\ n.ov = r.ov /\ n.path = r.path /\ n.readonly = c.private
      /\ n.persist = r.persist
  BY <1>5
<1>7. IsBuilder(n)
  BY <1>1, <1>2, <1>5, <1>6 DEF IsBuilder
<1> QED BY <1>3, <1>6, <1>7 DEF n

LEMMA ApplyArgsOK == ASSUME NEW r, IsBuilder(r) PROVE IsBuilder(ApplyArgs(r))
<1> DEFINE n == ApplyArgs(r)
           own == Params(ByArgs)
<1>0. n = [r EXCEPT !.own = own, !.ov = Fields]
  BY DEF ApplyArgs
<1>2. own \in Configs
  BY ParamsType DEF Vals
<1> HIDE DEF n, own
<1>1. n = [own |-> own, ov |-> Fields, path |-> r.path, readonly |-> r.readonly,
           persist |-> r.persist]
  BY <1>0 DEF IsBuilder
<1>3. n.own \in Configs /\ n.ov = Fields /\ n.readonly = r.readonly /\ n.persist = r.persist
  BY <1>1, <1>2
<1>4. IsBuilder(n)
  BY <1>1, <1>3 DEF IsBuilder
<1> QED BY <1>4 DEF n

-----------------------------------------------------------------------------
(* A step of one builder that leaves the file alone.                       *)
LEMMA OneBuilder ==
  ASSUME CsInv, NEW b \in Builders, NEW r, NEW k, NEW c,
         IsBuilder(r), CallOK(k, r, file), ClientOK(c),
         bld' = [bld EXCEPT ![b] = r], call' = [call EXCEPT ![b] = k],
         client' = [client EXCEPT ![b] = c], file' = file, FilesOK'
  PROVE  CsInv'
<1>1. /\ bld' = [x \in Builders |-> bld'[x]] /\ call' = [x \in Builders |-> call'[x]]
      /\ client' = [x \in Builders |-> client'[x]]
  BY DEF CsInv
<1>2. ASSUME NEW x \in Builders
      PROVE  IsBuilder(bld'[x]) /\ CallOK(call'[x], bld'[x], file') /\ ClientOK(client'[x])
  <2>1. CASE x = b
    <3>1. bld'[x] = r /\ call'[x] = k /\ client'[x] = c
      BY <2>1 DEF CsInv
    <3> QED BY <3>1
  <2>2. CASE x # b
    <3>1. bld'[x] = bld[x] /\ call'[x] = call[x] /\ client'[x] = client[x]
      BY <2>2 DEF CsInv
    <3> QED BY <3>1 DEF CsInv
  <2> QED BY <2>1, <2>2
<1> QED BY <1>1, <1>2 DEF CsInv

(* The file is replaced: every build but that of b holds a stale one.      *)
LEMMA StaleOK ==
  ASSUME NEW k, NEW r, NEW old, NEW now, CallOK(k, r, old)
  PROVE  CallOK(IF k # Idle THEN [k EXCEPT !.stale = TRUE] ELSE k, r, now)
<1>1. CASE k = Idle
  BY <1>1 DEF CallOK
<1>2. CASE k # Idle
  <2> DEFINE n == [k EXCEPT !.stale = TRUE]
  <2>1. Working(k, r, old)
    BY <1>2 DEF CallOK
  <2>2. n = [k EXCEPT !.stale = TRUE]
    OBVIOUS
  <2> HIDE DEF n
  <2>3. /\ n = [pc |-> n.pc, bld |-> n.bld, from |-> n.from, stale |-> n.stale]
        /\ n.pc = k.pc /\ n.bld = k.bld /\ n.from = k.from /\ n.stale = TRUE
    BY <2>1, <2>2, CallMarked DEF Working
  <2>5. n.stale /\ n.stale \in BOOLEAN
    BY <2>3, Zenon
  <2>6. n.pc = k.pc /\ n.bld = k.bld /\ n.from = k.from
    BY <2>3
  <2>7. n = [pc |-> n.pc, bld |-> n.bld, from |-> n.from, stale |-> n.stale]
    BY <2>3
  <2>4. Working(n, r, now)
    BY <2>1, <2>5, <2>6, <2>7 DEF Working
  <2> QED BY <1>2, <2>4 DEF CallOK, n
<1> QED BY <1>1, <1>2

LEMMA FileReplaced ==
  ASSUME CsInv, FilesOK', bld' = bld, call' = Stale(call, {}),
         \/ client' = client
         \/ \E b \in Builders : client' = [client EXCEPT ![b] = NoClient]
  PROVE  CsInv'
<1>1. /\ call' = [x \in Builders |-> call'[x]] /\ client' = [x \in Builders |-> client'[x]]
      /\ \A x \in Builders : client'[x] = client[x] \/ client'[x] = NoClient
  BY DEF CsInv, Stale
<1>2. \A x \in Builders : call'[x] = IF call[x] # Idle THEN [call[x] EXCEPT !.stale = TRUE] ELSE call[x]
  BY DEF Stale
<1>3. \A x \in Builders : CallOK(call[x], bld[x], file)
  BY DEF CsInv
<1>4. ASSUME NEW x \in Builders PROVE CallOK(call'[x], bld[x], file')
  <2> DEFINE n == IF call[x] # Idle THEN [call[x] EXCEPT !.stale = TRUE] ELSE call[x]
  <2>1. CallOK(n, bld[x], file')
    BY <1>3, StaleOK
  <2>2. call'[x] = n
    BY <1>2
  <2> HIDE DEF n
  <2> QED BY <2>1, <2>2
<1>5. \A x \in Builders : ClientOK(client'[x]) /\ IsBuilder(bld[x])
  BY <1>1 DEF CsInv, ClientOK
<1> QED BY <1>1, <1>4, <1>5 DEF CsInv

(* The setters.                                                            *)
LEMMA SetKeeps ==
  ASSUME CsInv, NEW b \in Builders, NEW r, IsBuilder(r), Set(b, r)
  PROVE  CsInv'
<1>1. /\ call[b] = Idle /\ bld' = [bld EXCEPT ![b] = r] /\ client' = [client EXCEPT ![b] = NoClient]
      /\ call' = call /\ file' = file /\ disk' = disk /\ acked' = acked
  BY DEF Set
<1>2. call' = [call EXCEPT ![b] = Idle]
  BY <1>1 DEF CsInv
<1>3. FilesOK'
  BY <1>1 DEF CsInv, FilesOK
<1>4. CallOK(Idle, r, file) /\ ClientOK(NoClient)
  BY DEF CallOK, ClientOK
<1> QED BY <1>1, <1>2, <1>3, <1>4, OneBuilder

LEMMA SettersKeep ==
  ASSUME CsInv, NEW b \in Builders,
         \/ \E f \in Fields : With(b, f)
         \/ \E path \in {"file", "dir", "dirAsFile"} : WithStatefile(b, path)
         \/ FromStatefile(b) \/ FromParams(b) \/ Options(b) \/ NoOptions(b)
  PROVE  CsInv'
<1> DEFINE q == bld[b]
<1>1. IsBuilder(q) /\ FileOK(file)
  BY DEF CsInv, FilesOK
<1>2. ASSUME NEW f \in Fields, With(b, f) PROVE CsInv'
  <2> DEFINE own == [q.own EXCEPT ![f] = BySetter]
             ov == q.ov \union {f}
             r == [q EXCEPT !.own = own, !.ov = ov]
  <2>1. own \in Configs /\ ov \subseteq Fields
    BY <1>1 DEF IsBuilder, Configs, Vals
  <2>2. [bld[b] EXCEPT !.own[f] = BySetter, !.ov = @ \union {f}] = r
    BY <1>1 DEF IsBuilder
  <2>3. Set(b, r) /\ r = [q EXCEPT !.own = own, !.ov = ov]
    BY <1>2, <2>2 DEF With
  <2> HIDE DEF own, ov, q, r
  <2>4. /\ r = [own |-> r.own, ov |-> r.ov, path |-> r.path, readonly |-> r.readonly,
                persist |-> r.persist]
        /\ r.own = own /\ r.ov = ov /\ r.readonly = q.readonly /\ r.persist = q.persist
    BY <1>1, <2>3, BuilderWith DEF IsBuilder
  <2>6. IsBuilder(r)
    BY <1>1, <2>1, <2>4 DEF IsBuilder
  <2> QED BY <2>3, <2>6, SetKeeps
<1>3. ASSUME NEW path, WithStatefile(b, path) PROVE CsInv'
  <2> DEFINE no == FALSE
             yes == TRUE
             r == [q EXCEPT !.path = path, !.readonly = no, !.persist = yes]
  <2>1. /\ Set(b, r) /\ no \in BOOLEAN /\ yes \in BOOLEAN
        /\ r = [q EXCEPT !.path = path, !.readonly = no, !.persist = yes]
    BY <1>3 DEF WithStatefile
  <2> HIDE DEF no, yes, q, r
  <2>2. /\ r = [own |-> r.own, ov |-> r.ov, path |-> r.path, readonly |-> r.readonly,
                persist |-> r.persist]
        /\ r.own = q.own /\ r.ov = q.ov /\ r.readonly = no /\ r.persist = yes
    BY <1>1, <2>1, BuilderAt DEF IsBuilder
  <2>4. IsBuilder(r)
    BY <1>1, <2>1, <2>2 DEF IsBuilder
  <2> QED BY <2>1, <2>4, SetKeeps
<1>4. ASSUME FromStatefile(b) PROVE CsInv'
  <2> DEFINE d == [Default EXCEPT !.path = "file"]
  <2>3. Loadable(file) /\ Set(b, LoadStatefile(d, file))
    BY <1>4 DEF FromStatefile
  <2>4. d = [Default EXCEPT !.path = "file"]
    OBVIOUS
  <2> HIDE DEF d
  <2>5. IsBuilder(d)
    <3> DEFINE e == Default
    <3>1. IsBuilder(e) /\ d = [e EXCEPT !.path = "file"]
      BY <2>4, DefaultOK
    <3> HIDE DEF e
    <3>2. /\ d = [own |-> d.own, ov |-> d.ov, path |-> d.path, readonly |-> d.readonly,
                  persist |-> d.persist]
          /\ d.own = e.own /\ d.ov = e.ov /\ d.readonly = e.readonly /\ d.persist = e.persist
      BY <3>1, BuilderMoved DEF IsBuilder
    <3> QED BY <3>1, <3>2 DEF IsBuilder
  <2>6. IsBuilder(LoadStatefile(d, file))
    BY <1>1, <2>3, <2>5, LoadOK
  <2> QED BY <2>3, <2>6, SetKeeps
<1>5. ASSUME FromParams(b) PROVE CsInv'
  BY <1>5, DefaultOK, ApplyArgsOK, SetKeeps DEF FromParams
<1>6. ASSUME Options(b) PROVE CsInv'
  BY <1>1, <1>6, ApplyArgsOK, SetKeeps DEF Options
<1>7. ASSUME NoOptions(b) PROVE CsInv'
  <2>1. Loadable(file) /\ Set(b, LoadStatefile(q, file))
    BY <1>7 DEF NoOptions
  <2>2. IsBuilder(LoadStatefile(q, file))
    BY <1>1, <2>1, LoadOK
  <2> QED BY <2>1, <2>2, SetKeeps
<1> QED BY <1>2, <1>3, <1>4, <1>5, <1>6, <1>7

-----------------------------------------------------------------------------
(* A step of a build that leaves builder and file alone.                   *)
LEMMA CallStep ==
  ASSUME CsInv, NEW b \in Builders, NEW k, NEW c, CallOK(k, bld[b], file), ClientOK(c),
         call' = [call EXCEPT ![b] = k], client' = [client EXCEPT ![b] = c],
         bld' = bld, file' = file, FilesOK'
  PROVE  CsInv'
<1>1. IsBuilder(bld[b]) /\ bld' = [bld EXCEPT ![b] = bld[b]]
  BY DEF CsInv
<1> QED BY <1>1, OneBuilder

LEMMA ReturnKeeps ==
  ASSUME CsInv, NEW b \in Builders, NEW c, ClientOK(c), Return(b, c), bld' = bld, file' = file, FilesOK'
  PROVE  CsInv'
<1>1. CallOK(Idle, bld[b], file)
  BY DEF CallOK
<1> QED BY <1>1, CallStep DEF Return

LEMMA ClientFields ==
  ASSUME NEW c, NEW cfg, NEW asked, NEW ov, NEW from, NEW error,
         c = [cfg |-> cfg, asked |-> asked, ov |-> ov, from |-> from, error |-> error]
  PROVE  /\ c = [cfg |-> c.cfg, asked |-> c.asked, ov |-> c.ov, from |-> c.from, error |-> c.error]
         /\ c.cfg = cfg /\ c.asked = asked /\ c.ov = ov /\ c.from = from /\ c.error = error
OBVIOUS

LEMMA FailKeeps ==
  ASSUME CsInv, NEW b \in Builders, Fail(b), bld' = bld, file' = file, FilesOK'
  PROVE  CsInv'
<1> DEFINE c == Built(bld[b], bld[b], {})
           t == TRUE
           e == [c EXCEPT !.error = t]
<1>0. c = [cfg |-> bld[b].own, asked |-> bld[b].own, ov |-> bld[b].ov, from |-> {}, error |-> FALSE]
  BY DEF Built
<1>2. Return(b, NoClient) \/ Return(b, e)
  BY DEF Fail
<1>3. t = TRUE
  OBVIOUS
<1> HIDE DEF c, t
<1>1. c = [cfg |-> c.cfg, asked |-> c.asked, ov |-> c.ov, from |-> c.from, error |-> c.error]
  BY <1>0, ClientFields
<1>4. e = [cfg |-> c.cfg, asked |-> c.asked, ov |-> c.ov, from |-> c.from, error |-> t]
  BY <1>1
<1> HIDE DEF e
<1>5. /\ e = [cfg |-> e.cfg, asked |-> e.asked, ov |-> e.ov, from |-> e.from, error |-> e.error]
      /\ e.error = t
  BY <1>4
<1>6. ClientOK(e) /\ ClientOK(NoClient)
  BY <1>3, <1>5 DEF ClientOK
<1> QED BY <1>2, <1>6, ReturnKeeps

(* The client of a build is what was asked for.                            *)
LEMMA BuiltOK ==
  ASSUME NEW k, NEW a, NEW now, Working(k, a, now)
  PROVE  ClientOK(Built(a, k.bld, k.from))
<1> DEFINE c == Built(a, k.bld, k.from)
<1>0. c = [cfg |-> k.bld.own, asked |-> a.own, ov |-> a.ov, from |-> k.from, error |-> FALSE]
  BY DEF Built
<1> HIDE DEF c
<1>1. /\ c = [cfg |-> c.cfg, asked |-> c.asked, ov |-> c.ov, from |-> c.from, error |-> c.error]
      /\ c.cfg = k.bld.own /\ c.asked = a.own /\ c.ov = a.ov /\ c.from = k.from
  BY <1>0, ClientFields
<1>2. ClientOK(c)
  BY <1>1 DEF ClientOK, Working
<1> QED BY <1>2 DEF c

LEMMA TryBuildKeeps == ASSUME CsInv, NEW b \in Builders, TryBuild(b) PROVE CsInv'
<1> DEFINE r == bld[b]
<1>1. IsBuilder(r)
  BY DEF CsInv
<1>2. bld' = bld /\ file' = file /\ FilesOK'
  BY DEF TryBuild, CsInv, FilesOK
<1>3. CASE r.path = "none"
  <2> DEFINE c == Built(r, r, {})
  <2>1. Return(b, c)
    BY <1>3 DEF TryBuild
  <2>4. c = [cfg |-> r.own, asked |-> r.own, ov |-> r.ov, from |-> {}, error |-> FALSE]
    BY DEF Built
  <2> HIDE DEF c
  <2>2. /\ c = [cfg |-> c.cfg, asked |-> c.asked, ov |-> c.ov, from |-> c.from, error |-> c.error]
        /\ c.cfg = c.asked /\ c.from = {}
    BY <2>4, ClientFields
  <2>3. ClientOK(c)
    BY <2>2 DEF ClientOK
  <2> QED BY <1>2, <2>1, <2>3, ReturnKeeps
<1>4. CASE Fail(b)
  BY <1>2, <1>4, FailKeeps
<1>5. CASE r.path # "none" /\ ~Fail(b)
  <2> DEFINE pc == IF Exists(r) THEN "read" ELSE "decide"
             no == FALSE
             k == [pc |-> pc, bld |-> r, from |-> {}, stale |-> no]
  <2>1. call' = [call EXCEPT ![b] = k] /\ client' = [client EXCEPT ![b] = NoClient]
    BY <1>5 DEF TryBuild
  <2>2. pc \in {"read", "decide"} /\ (pc = "decide" => file = Absent) /\ no \in BOOLEAN
    BY DEF Exists
  <2> HIDE DEF pc, no, r
  <2>3. /\ k = [pc |-> k.pc, bld |-> k.bld, from |-> k.from, stale |-> k.stale]
        /\ k.pc = pc /\ k.bld = r /\ k.from = {} /\ k.stale = no
    OBVIOUS
  <2>4. Absent.kind # "json"
    BY DEF Absent
  <2> HIDE DEF k
  <2>5. Working(k, r, file)
    BY <1>1, <2>2, <2>3, <2>4 DEF Working
  <2>6. CallOK(k, bld[b], file) /\ ClientOK(NoClient)
    BY <2>5 DEF CallOK, ClientOK, r
  <2> QED BY <1>2, <2>1, <2>6, CallStep
<1> QED BY <1>3, <1>4, <1>5

LEMMA InCallWorks ==
  ASSUME CsInv, NEW b \in Builders, NEW pc, InCall(b, pc)
  PROVE  Working(call[b], bld[b], file) /\ call[b].pc = pc
  BY DEF CsInv, CallOK, InCall

(* A build goes on to pc.                                                  *)
LEMMA GotoOK ==
  ASSUME NEW k, NEW a, NEW now, Working(k, a, now), NEW pc,
         \/ pc = "decide" /\ k.bld.path = "dirAsFile"
         \/ pc = "write" /\ k.pc = "decide" /\ ~k.bld.readonly
  PROVE  Working([k EXCEPT !.pc = pc], a, now)
<1> DEFINE n == [k EXCEPT !.pc = pc]
<1>1. n = [k EXCEPT !.pc = pc]
  OBVIOUS
<1> HIDE DEF n
<1>2. /\ n = [pc |-> n.pc, bld |-> n.bld, from |-> n.from, stale |-> n.stale]
      /\ n.pc = pc /\ n.bld = k.bld /\ n.from = k.from /\ n.stale = k.stale
  BY <1>1, CallAt DEF Working
<1>3. Working(n, a, now)
  BY <1>2 DEF Working
<1> QED BY <1>3 DEF n

LEMMA GotoKeeps ==
  ASSUME CsInv, NEW b \in Builders, NEW pc, Working([call[b] EXCEPT !.pc = pc], bld[b], file),
         Goto(b, pc), bld' = bld, file' = file, FilesOK'
  PROVE  CsInv'
<1> DEFINE n == [call[b] EXCEPT !.pc = pc]
<1>1. call' = [call EXCEPT ![b] = n] /\ client' = [client EXCEPT ![b] = client[b]]
  BY DEF Goto, CsInv
<1>2. CallOK(n, bld[b], file) /\ ClientOK(client[b])
  BY DEF CallOK, CsInv
<1> HIDE DEF n
<1> QED BY <1>1, <1>2, CallStep

(* A call that has just read the file.                                     *)
LEMMA ReadOK ==
  ASSUME NEW k, NEW a, NEW now, Working(k, a, now), now.private \in BOOLEAN, NEW n,
         n = [pc |-> n.pc, bld |-> n.bld, from |-> n.from, stale |-> n.stale],
         n.pc = "decide", n.stale \in BOOLEAN, IsBuilder(n.bld), n.bld.ov = k.bld.ov,
         n.bld.readonly = now.private, \A f \in a.ov : n.bld.own[f] = k.bld.own[f],
         \/ n.from = {}
         \/ \E s \in n.from : \A f \in Fields \ a.ov : n.bld.own[f] = s[f]
  PROVE  Working(n, a, now)
<1>1. /\ k.bld.ov = a.ov /\ \A f \in a.ov : k.bld.own[f] = a.own[f]
  BY DEF Working
<1>2. now.private => n.bld.readonly
  OBVIOUS
<1> QED BY <1>1, <1>2 DEF Working

LEMMA ReadFileKeeps == ASSUME CsInv, NEW b \in Builders, ReadFile(b) PROVE CsInv'
<1> DEFINE k == call[b]
           r == k.bld
           a == bld[b]
<1>1. bld' = bld /\ file' = file /\ FilesOK'
  BY DEF ReadFile, CsInv, FilesOK
<1>2. Working(k, a, file) /\ k.pc = "read"
  BY InCallWorks DEF ReadFile
<1>3. IsBuilder(r) /\ r.ov = a.ov /\ FileOK(file)
  BY <1>2 DEF Working, CsInv, FilesOK
<1>4. k = [pc |-> k.pc, bld |-> k.bld, from |-> k.from, stale |-> k.stale]
  BY <1>2 DEF Working
<1>5. CASE r.ov = Fields /\ r.path = "dirAsFile"
  <2>1. Goto(b, "decide")
    BY <1>5 DEF ReadFile
  <2>2. Working([call[b] EXCEPT !.pc = "decide"], bld[b], file)
    BY <1>2, <1>5, GotoOK
  <2> QED BY <1>1, <2>1, <2>2, GotoKeeps
<1>6. CASE ~(r.ov = Fields /\ r.path = "dirAsFile") /\ r.ov = Fields /\ file.kind = "json"
  <2> DEFINE ro == file.private
             m == [r EXCEPT !.readonly = ro]
             pc == "decide"
             no == FALSE
             n == [k EXCEPT !.pc = pc, !.bld = m, !.stale = no]
  <2>1. /\ call' = [call EXCEPT ![b] = [k EXCEPT !.pc = "decide", !.bld.readonly = file.private,
                                                 !.stale = FALSE]]
        /\ client' = client
    BY <1>6 DEF ReadFile
  <2>2. [k EXCEPT !.pc = "decide", !.bld.readonly = file.private, !.stale = FALSE] = n
    BY <1>4
  <2>3. /\ call' = [call EXCEPT ![b] = n] /\ client' = [client EXCEPT ![b] = client[b]]
        /\ n = [k EXCEPT !.pc = pc, !.bld = m, !.stale = no] /\ m = [r EXCEPT !.readonly = ro]
        /\ no \in BOOLEAN /\ pc = "decide" /\ ro = file.private
    BY <2>1, <2>2 DEF CsInv
  <2>4. ro \in BOOLEAN
    BY <1>3, <1>6 DEF FileOK, Absent, Garbage
  <2> HIDE DEF n, m, pc, no, ro
  <2>5. /\ m = [own |-> m.own, ov |-> m.ov, path |-> m.path, readonly |-> m.readonly,
                persist |-> m.persist]
        /\ m.own = r.own /\ m.ov = r.ov /\ m.readonly = ro /\ m.persist = r.persist
    BY <1>3, <2>3, BuilderBound DEF IsBuilder
  <2>6. IsBuilder(m)
    BY <1>3, <2>4, <2>5 DEF IsBuilder
  <2>7. /\ n = [pc |-> n.pc, bld |-> n.bld, from |-> n.from, stale |-> n.stale]
        /\ n.pc = pc /\ n.bld = m /\ n.from = k.from /\ n.stale = no
    BY <1>4, <2>3, CallLearnt
  <2>8. \/ n.from = {}
        \/ \E s \in n.from : \A f \in Fields \ a.ov : n.bld.own[f] = s[f]
    BY <1>2, <2>5, <2>7 DEF Working
  <2>9. Working(n, a, file)
    BY <1>2, <1>3, <2>3, <2>4, <2>5, <2>6, <2>7, <2>8, ReadOK
  <2>10. CallOK(n, bld[b], file) /\ ClientOK(client[b])
    BY <2>9 DEF CallOK, CsInv
  <2> QED BY <1>1, <2>3, <2>10, CallStep
<1>7. CASE ~(r.ov = Fields) /\ Loadable(file)
  <2> DEFINE m == LoadStatefile(r, file)
             from == {file.cfg}
             pc == "decide"
             no == FALSE
             n == [k EXCEPT !.pc = pc, !.bld = m, !.from = from, !.stale = no]
  <2>1. call' = [call EXCEPT ![b] = n] /\ client' = client
    BY <1>7 DEF ReadFile
  <2>2. /\ IsBuilder(m) /\ m.ov = r.ov /\ m.readonly = file.private
        /\ \A f \in r.ov : m.own[f] = r.own[f]
        /\ \A f \in Fields \ r.ov : m.own[f] = file.cfg[f]
    BY <1>3, <1>7, LoadOK
  <2>3. /\ n = [k EXCEPT !.pc = pc, !.bld = m, !.from = from, !.stale = no]
        /\ no \in BOOLEAN /\ pc = "decide" /\ from = {file.cfg} /\ file.private \in BOOLEAN
    BY <1>3, <1>7 DEF FileOK, Loadable, Absent, Garbage
  <2>4. client' = [client EXCEPT ![b] = client[b]]
    BY <2>1 DEF CsInv
  <2> HIDE DEF n, m, pc, no, from
  <2>5. /\ n = [pc |-> n.pc, bld |-> n.bld, from |-> n.from, stale |-> n.stale]
        /\ n.pc = pc /\ n.bld = m /\ n.from = from /\ n.stale = no
    BY <1>4, <2>3, CallLoaded
  <2>6. \E s \in n.from : \A f \in Fields \ a.ov : n.bld.own[f] = s[f]
    BY <1>3, <2>2, <2>3, <2>5
  <2>7. Working(n, a, file)
    BY <1>2, <1>3, <2>2, <2>3, <2>5, <2>6, ReadOK
  <2>8. CallOK(n, bld[b], file) /\ ClientOK(client[b])
    BY <2>7 DEF CallOK, CsInv
  <2> QED BY <1>1, <2>1, <2>4, <2>8, CallStep
<1>8. CASE Fail(b)
  BY <1>1, <1>8, FailKeeps
<1> QED BY <1>5, <1>6, <1>7, <1>8 DEF ReadFile

LEMMA DecideKeeps == ASSUME CsInv, NEW b \in Builders, Decide(b) PROVE CsInv'
<1> DEFINE k == call[b]
<1>1. bld' = bld /\ file' = file /\ FilesOK'
  BY DEF Decide, CsInv, FilesOK
<1>2. Working(k, bld[b], file) /\ k.pc = "decide"
  BY InCallWorks DEF Decide
<1>3. CASE k.bld.persist /\ ~k.bld.readonly
  <2>1. Goto(b, "write")
    BY <1>3 DEF Decide
  <2>2. Working([call[b] EXCEPT !.pc = "write"], bld[b], file)
    BY <1>2, <1>3, GotoOK
  <2> QED BY <1>1, <2>1, <2>2, GotoKeeps
<1>4. CASE ~(k.bld.persist /\ ~k.bld.readonly)
  <2>1. Return(b, Built(bld[b], k.bld, k.from))
    BY <1>4 DEF Decide
  <2>2. ClientOK(Built(bld[b], k.bld, k.from))
    BY <1>2, BuiltOK
  <2> QED BY <1>1, <2>1, <2>2, ReturnKeeps
<1> QED BY <1>3, <1>4

LEMMA FailuresKeep ==
  ASSUME CsInv, NEW b \in Builders, WriteFails(b) \/ SyncFails(b) PROVE CsInv'
<1>1. Fail(b) /\ bld' = bld /\ file' = file /\ FilesOK'
  BY DEF WriteFails, SyncFails, CsInv, FilesOK
<1> QED BY <1>1, FailKeeps

LEMMA WriteKeeps == ASSUME CsInv, NEW b \in Builders, Write(b) PROVE CsInv'
<1> DEFINE k == call[b]
           pc == "sync"
           no == FALSE
           n == [k EXCEPT !.pc = pc, !.stale = no]
           own == k.bld.own
<1>1. Working(k, bld[b], file)
  BY InCallWorks DEF Write
<1>2. own \in Configs
  BY <1>1 DEF Working, IsBuilder
<1>3. /\ file' = Saved(own) /\ disk' = disk \union {file'} /\ acked' = None
      /\ bld' = bld /\ client' = client
  BY DEF Write
<1>4. FilesOK'
  BY <1>2, <1>3, SavedOK DEF CsInv, FilesOK
<1>5. /\ n = [k EXCEPT !.pc = pc, !.stale = no] /\ pc = "sync" /\ no = FALSE /\ no \in BOOLEAN
  OBVIOUS
<1>6. /\ call' = [x \in Builders |-> call'[x]] /\ call'[b] = n
      /\ \A x \in Builders \ {b} :
            call'[x] = IF call[x] # Idle THEN [call[x] EXCEPT !.stale = TRUE] ELSE call[x]
  <2> DEFINE mid == [call EXCEPT ![b].pc = "sync", ![b].stale = FALSE]
  <2>1. mid[b] = n /\ \A x \in Builders \ {b} : mid[x] = call[x]
    BY DEF CsInv
  <2>2. call' = Stale(mid, {b})
    BY DEF Write
  <2> HIDE DEF mid, n
  <2> QED BY <2>1, <2>2 DEF Stale
<1> HIDE DEF n, pc, no
<1>7. /\ n = [pc |-> n.pc, bld |-> n.bld, from |-> n.from, stale |-> n.stale]
      /\ n.pc = pc /\ n.bld = k.bld /\ n.from = k.from /\ n.stale = no
  BY <1>1, <1>5, CallWrote DEF Working
<1>8. Working(n, bld[b], file')
  BY <1>1, <1>3, <1>5, <1>7 DEF Working
<1>9. ASSUME NEW x \in Builders
      PROVE  IsBuilder(bld'[x]) /\ CallOK(call'[x], bld'[x], file') /\ ClientOK(client'[x])
  <2>1. IsBuilder(bld[x]) /\ CallOK(call[x], bld[x], file) /\ ClientOK(client[x])
    BY DEF CsInv
  <2>2. CASE x = b
    BY <1>3, <1>6, <1>8, <2>1, <2>2 DEF CallOK
  <2>3. CASE x # b
    <3> DEFINE m == IF call[x] # Idle THEN [call[x] EXCEPT !.stale = TRUE] ELSE call[x]
    <3>1. CallOK(m, bld[x], file') /\ call'[x] = m
      BY <1>6, <2>1, <2>3, StaleOK
    <3> HIDE DEF m
    <3> QED BY <1>3, <2>1, <3>1
  <2> QED BY <2>2, <2>3
<1>10. bld' = [x \in Builders |-> bld'[x]] /\ client' = [x \in Builders |-> client'[x]]
  BY <1>3 DEF CsInv
<1> QED BY <1>4, <1>6, <1>9, <1>10 DEF CsInv

LEMMA SyncKeeps == ASSUME CsInv, NEW b \in Builders, Sync(b) PROVE CsInv'
<1> DEFINE k == call[b]
<1>1. Working(k, bld[b], file) /\ k.pc = "sync"
  BY InCallWorks DEF Sync
<1>2. /\ bld' = bld /\ file' = file /\ disk' = {file}
      /\ acked' = IF k.stale THEN acked ELSE k.bld.own
      /\ Return(b, Built(bld[b], k.bld, k.from))
  BY DEF Sync
<1>3. FilesOK'
  <2>1. FileOK(file) /\ (acked # None => acked \in Configs /\ file = Saved(acked))
    BY DEF CsInv, FilesOK
  <2>2. CASE k.stale
    BY <1>2, <2>1, <2>2 DEF FilesOK
  <2>3. CASE ~k.stale
    <3>1. file = Saved(k.bld.own) /\ k.bld.own \in Configs
      BY <1>1, <2>3 DEF Working, IsBuilder
    <3> QED BY <1>2, <2>1, <2>3, <3>1 DEF FilesOK
  <2> QED BY <2>2, <2>3
<1>4. ClientOK(Built(bld[b], k.bld, k.from))
  BY <1>1, BuiltOK
<1> QED BY <1>2, <1>3, <1>4, ReturnKeeps

LEMMA WriteStatefileKeeps == ASSUME CsInv, NEW b \in Builders, WriteStatefile(b) PROVE CsInv'
<1>1. /\ file' = Saved(bld[b].own) /\ disk' \in {{file'}, disk \union {file'}} /\ acked' = None
      /\ call' = Stale(call, {}) /\ client' = [client EXCEPT ![b] = NoClient] /\ bld' = bld
  BY DEF WriteStatefile
<1>2. bld[b].own \in Configs
  BY DEF CsInv, IsBuilder
<1>3. FilesOK'
  BY <1>1, <1>2, SavedOK DEF CsInv, FilesOK
<1> QED BY <1>1, <1>3, FileReplaced

LEMMA ForeignKeeps ==
  ASSUME CsInv, NEW c \in {Absent, Garbage, Partial, Saved(Params(InFile)), BridgeFile}, Foreign(c)
  PROVE  CsInv'
<1>1. file' = c /\ disk' = disk \union {c} /\ acked' = None /\ call' = Stale(call, {})
      /\ UNCHANGED <<bld, client>>
  BY DEF Foreign
<1>2. FilesOK'
  BY <1>1, ForeignOK DEF CsInv, FilesOK
<1> QED BY <1>1, <1>2, FileReplaced

LEMMA ArgsKeep == ASSUME CsInv, NEW b \in Builders, GetArgs(b) \/ GetBadArgs(b) PROVE CsInv'
<1>1. /\ bld' = bld /\ file' = file /\ FilesOK' /\ call' = [call EXCEPT ![b] = call[b]]
      /\ CallOK(call[b], bld[b], file)
  BY DEF GetArgs, GetBadArgs, CsInv, FilesOK
<1>2. CASE GetArgs(b)
  <2> DEFINE p == ApplyArgs(Default)
             c == Built(p, p, {})
  <2>1. client' = [client EXCEPT ![b] = c]
    BY <1>2 DEF GetArgs
  <2>2. c = [cfg |-> p.own, asked |-> p.own, ov |-> p.ov, from |-> {}, error |-> FALSE]
    BY DEF Built
  <2> HIDE DEF c, p
  <2>3. /\ c = [cfg |-> c.cfg, asked |-> c.asked, ov |-> c.ov, from |-> c.from, error |-> c.error]
        /\ c.cfg = c.asked /\ c.from = {}
    BY <2>2, ClientFields
  <2>4. ClientOK(c)
    BY <2>3 DEF ClientOK
  <2> QED BY <1>1, <2>1, <2>4, CallStep
<1>3. CASE GetBadArgs(b)
  <2> DEFINE c == client[b]
             t == TRUE
             e == [c EXCEPT !.error = t]
  <2>1. client' = [client EXCEPT ![b] = e] /\ c # NoClient /\ t = TRUE
    BY <1>3 DEF GetBadArgs, CsInv
  <2>2. c = [cfg |-> c.cfg, asked |-> c.asked, ov |-> c.ov, from |-> c.from, error |-> c.error]
    BY <2>1 DEF CsInv, ClientOK
  <2> HIDE DEF c, t
  <2>3. e = [cfg |-> c.cfg, asked |-> c.asked, ov |-> c.ov, from |-> c.from, error |-> t]
    BY <2>2
  <2> HIDE DEF e
  <2>4. /\ e = [cfg |-> e.cfg, asked |-> e.asked, ov |-> e.ov, from |-> e.from, error |-> e.error]
        /\ e.error = t
    BY <2>3
  <2>5. ClientOK(e)
    BY <2>1, <2>4 DEF ClientOK
  <2> QED BY <1>1, <2>1, <2>5, CallStep
<1> QED BY <1>2, <1>3

LEMMA CrashKeeps == ASSUME CsInv, Crash PROVE CsInv'
<1>1. /\ file' \in disk /\ disk' = {file'} /\ acked' = acked
      /\ bld' = [b \in Builders |-> Default]
      /\ call' = [b \in Builders |-> Idle] /\ client' = [b \in Builders |-> NoClient]
  BY DEF Crash
<1>2. FilesOK'
  BY <1>1 DEF CsInv, FilesOK
<1>3. IsBuilder(Default) /\ CallOK(Idle, Default, file') /\ ClientOK(NoClient)
  BY DefaultOK DEF CallOK, ClientOK
<1> QED BY <1>1, <1>2, <1>3 DEF CsInv

LEMMA CsInitHolds == ASSUME CsInit PROVE CsInv
<1>1. /\ file \in {Absent, Saved(Params(InFile)), BridgeFile} /\ disk = {file} /\ acked = None
      /\ bld = [b \in Builders |-> Default]
      /\ call = [b \in Builders |-> Idle] /\ client = [b \in Builders |-> NoClient]
  BY DEF CsInit
<1>2. FilesOK
  BY <1>1, ForeignOK DEF FilesOK
<1>3. IsBuilder(Default) /\ CallOK(Idle, Default, file) /\ ClientOK(NoClient)
  BY DefaultOK DEF CallOK, ClientOK
<1> QED BY <1>1, <1>2, <1>3 DEF CsInv

LEMMA CsStep == ASSUME CsInv, [CsNext]_csVars PROVE CsInv'
<1>1. CASE UNCHANGED csVars
  BY <1>1 DEF csVars, CsInv, FilesOK
<1> QED BY <1>1, SettersKeep, TryBuildKeeps, ReadFileKeeps, DecideKeeps, FailuresKeep, WriteKeeps,
           SyncKeeps, WriteStatefileKeeps, ForeignKeeps, ArgsKeep, CrashKeeps DEF CsNext

LEMMA CsInvariance == CsSpec => []CsInv
<1> QED BY CsInitHolds, CsStep, PTL DEF CsSpec

-----------------------------------------------------------------------------
(* A build that has returned Ok from writing survives every crash, however *)
(* its write was interleaved with those of others: what is on disk is what *)
(* it wrote, complete, until somebody replaces the file.                   *)
THEOREM SavedRestored == CsSpec => []SavedClientRestored
<1>1. CsInv => SavedClientRestored
  <2> SUFFICES ASSUME CsInv, acked # None, NEW d \in disk
               PROVE  Loadable(d) /\ LoadStatefile([Default EXCEPT !.path = "file"], d).own = acked
    BY DEF SavedClientRestored
  <2>1. acked \in Configs /\ d = Saved(acked)
    BY DEF CsInv, FilesOK
  <2>2. Loadable(d) /\ d.cfg = acked
    BY <2>1, SavedOK DEF Saved
  <2> DEFINE e == [Default EXCEPT !.path = "file"]
             own == [f \in Fields |-> IF f \in e.ov THEN e.own[f] ELSE d.cfg[f]]
  <2>3. e.ov = {} /\ "own" \in DOMAIN e
    BY DEF Default
  <2>4. LoadStatefile(e, d).own = own
    BY <2>3 DEF LoadStatefile, Default
  <2> HIDE DEF e
  <2>5. own = [f \in Fields |-> acked[f]]
    BY <2>2, <2>3
  <2>6. own = acked
    BY <2>1, <2>5 DEF Configs
  <2> QED BY <2>2, <2>4, <2>6 DEF e
<1> QED BY <1>1, CsInvariance, PTL

(* A client has what was set of it and the rest from one version of the    *)
(* file, whoever replaces the file while try_build is under way.           *)
THEOREM ClientsAsConfigured == CsSpec => []BuiltAsConfigured
<1>1. CsInv => BuiltAsConfigured
  BY DEF CsInv, ClientOK, BuiltAsConfigured
<1> QED BY <1>1, CsInvariance, PTL

(* Only write_statefile_target takes a build from write to sync.           *)
LEMMA OnlyWriteSyncs ==
  ASSUME CsInv, CsNext, NEW b \in Builders, InCall(b, "write"), call'[b].pc = "sync"
  PROVE  Write(b)
<1> DEFINE k == call[b]
<1>1. Working(k, bld[b], file) /\ k.pc = "write" /\ k # Idle /\ Idle.pc # "sync"
  BY InCallWorks DEF InCall, Idle
<1>2. call'[b] # call[b]
  BY <1>1
<1>3. ASSUME NEW x \in Builders,
             \/ \E f \in Fields : With(x, f)
             \/ \E path \in {"file", "dir", "dirAsFile"} : WithStatefile(x, path)
             \/ FromStatefile(x) \/ FromParams(x) \/ Options(x) \/ NoOptions(x)
             \/ GetArgs(x) \/ GetBadArgs(x)
      PROVE  FALSE
  BY <1>2, <1>3 DEF With, WithStatefile, FromStatefile, FromParams, Options, NoOptions, Set,
                    GetArgs, GetBadArgs
<1>4. ASSUME NEW x \in Builders, NEW n, call' = [call EXCEPT ![x] = n] PROVE x = b /\ call'[b] = n
  BY <1>2, <1>4 DEF CsInv
<1>5. ASSUME NEW x \in Builders, Fail(x) PROVE FALSE
  <2>1. call' = [call EXCEPT ![x] = Idle]
    BY <1>5 DEF Fail, Return
  <2> QED BY <1>1, <1>4, <2>1
<1>6. ASSUME NEW x \in Builders, TryBuild(x) \/ ReadFile(x) \/ Decide(x) \/ Sync(x) PROVE FALSE
  <2>1. Fail(x) \/ \E n : call' = [call EXCEPT ![x] = n]
    BY <1>6 DEF TryBuild, ReadFile, Decide, Sync, Return, Goto
  <2>2. x = b
    BY <1>4, <1>5, <2>1
  <2> QED BY <1>1, <1>6, <2>2 DEF TryBuild, ReadFile, Decide, Sync, InCall
<1>7. ASSUME NEW x \in Builders, WriteFails(x) \/ SyncFails(x) PROVE FALSE
  BY <1>5, <1>7 DEF WriteFails, SyncFails
<1>8. [k EXCEPT !.stale = TRUE].pc = "write"
  BY <1>1 DEF Working
<1>9. ASSUME call'[b] = [k EXCEPT !.stale = TRUE] PROVE FALSE
  BY <1>8, <1>9
<1>10. ASSUME call' = Stale(call, {}) PROVE FALSE
  <2>1. call'[b] = [k EXCEPT !.stale = TRUE]
    BY <1>1, <1>10 DEF Stale
  <2> QED BY <1>9, <2>1
<1>11. ASSUME NEW x \in Builders, Write(x) PROVE x = b
  <2> SUFFICES ASSUME x # b PROVE FALSE
    OBVIOUS
  <2> DEFINE mid == [call EXCEPT ![x].pc = "sync", ![x].stale = FALSE]
  <2>1. mid[b] = k /\ call' = Stale(mid, {x})
    BY <1>11 DEF Write, CsInv
  <2> HIDE DEF mid
  <2>2. call'[b] = [k EXCEPT !.stale = TRUE]
    BY <1>1, <2>1 DEF Stale
  <2> QED BY <1>9, <2>2
<1>12. ASSUME NEW x \in Builders, WriteStatefile(x) PROVE FALSE
  BY <1>10, <1>12 DEF WriteStatefile
<1>13. ASSUME NEW c, Foreign(c) PROVE FALSE
  BY <1>10, <1>13 DEF Foreign
<1>14. ASSUME Crash PROVE FALSE
  BY <1>1, <1>14 DEF Crash
<1> QED BY <1>3, <1>6, <1>7, <1>11, <1>12, <1>13, <1>14 DEF CsNext

(* try_build replaces a bridge's state file only if it was put there after *)
(* the build had looked: with a builder loaded from it, with one that is   *)
(* complete, and for a path that did not exist.                            *)
THEOREM BridgeKept == CsSpec => BridgeFileKept
<1>1. CsInv /\ [CsNext]_csVars =>
        [\A b \in Builders :
            InCall(b, "write") /\ call'[b].pc = "sync" /\ file.kind = "json" /\ file.private
                => call[b].stale]_csVars
  <2> SUFFICES ASSUME CsInv, CsNext, NEW b \in Builders, InCall(b, "write"), call'[b].pc = "sync",
                      file.kind = "json", file.private
               PROVE  call[b].stale
    OBVIOUS
  <2>1. Write(b)
    BY OnlyWriteSyncs
  <2>2. call[b].bld.path # "dirAsFile"
    BY <2>1 DEF Write
  <2>3. Working(call[b], bld[b], file) /\ call[b].pc = "write"
    BY InCallWorks
  <2> QED BY <2>2, <2>3 DEF Working
<1> QED BY <1>1, CsInvariance, PTL DEF CsSpec, BridgeFileKept

-----------------------------------------------------------------------------
(***************************************************************************)
(* The managed transport.                                                  *)
(***************************************************************************)
LEMMA Listed ==
    ASSUME NEW S, NEW s \in Seq(S)
    PROVE  /\ Len(s) \in Nat /\ DOMAIN s = 1..Len(s) /\ s \in [1..Len(s) -> S]
           /\ \A i \in 1..Len(s) : s[i] \in S
OBVIOUS

LEMMA Appended ==
    ASSUME NEW S, NEW s \in Seq(S), NEW e \in S
    PROVE  /\ Append(s, e) \in Seq(S) /\ Len(Append(s, e)) = Len(s) + 1
           /\ \A i \in 1..Len(s) : Append(s, e)[i] = s[i]
           /\ Append(s, e)[Len(s) + 1] = e
OBVIOUS

(* The line client_setup prints for the i-th method of its list.           *)
LineOf(i) ==
    IF env.methods[i] \in ClientMethods THEN Line("CMETHOD", env.methods[i], i)
    ELSE Line("CMETHOD-ERROR", env.methods[i], 0)

(* What client_setup prints when it goes well.                             *)
Lines ==
    {Version, MethodsDone} \union {Line("CMETHOD", m, p) : m \in STRING, p \in Nat}
                          \union {Line("CMETHOD-ERROR", m, 0) : m \in STRING}

(* After the first n methods: what has been printed ...                    *)
LinesUpTo(n) ==
    /\ lines \in Seq(Lines)
    /\ Len(lines) >= n + 1 /\ lines[1] = Version
    /\ \A i \in 1..n : lines[i + 1] = LineOf(i)

(* ... and what has been bound: the transports of ours among them, each    *)
(* once and in order.                                                      *)
BoundUpTo(n) ==
    /\ bound \in Seq([method : ClientMethods, port : 1..n])
    /\ \A k \in 1..Len(bound) : env.methods[bound[k].port] = bound[k].method
    /\ \A k, l \in 1..Len(bound) : k < l => bound[k].port < bound[l].port
    /\ \A i \in 1..n : env.methods[i] \in ClientMethods
                          => \E k \in 1..Len(bound) : bound[k].port = i

(* The setup, phase by phase.                                              *)
SetupInv ==
    /\ env \in Envs
    /\ phase \in {"start", "client", "server", "up", "failed"}
    /\ phase = "start" => at = 0 /\ lines = <<>> /\ bound = <<>>
    /\ phase = "server" => env.role = "server" /\ lines = <<>>
    /\ phase = "failed" => bound = <<>> /\ \A i \in DOMAIN lines : lines[i] # MethodsDone
    /\ phase # "up" => serving = {}
    /\ phase \in {"client", "up"} /\ env.role = "client" =>
         /\ ~env.proxy /\ at \in 0..Len(env.methods)
         /\ LinesUpTo(at) /\ BoundUpTo(at)
    /\ phase = "client" => env.role = "client" /\ Len(lines) = at + 1
    /\ phase = "up" /\ env.role = "client" =>
         /\ at = Len(env.methods) /\ Len(lines) = at + 2 /\ lines[at + 2] = MethodsDone
         /\ serving = {bound[i].port : i \in DOMAIN bound}

(* A task, as client_handle_connection's locals.                           *)
Task(pc, method, cfg, req, key, dialled, tunnel, told) ==
    [pc |-> pc, method |-> method, cfg |-> cfg, req |-> req,
     key |-> key, dialled |-> dialled, tunnel |-> tunnel, told |-> told]

IsTask(r) ==
    r = Task(r.pc, r.method, r.cfg, r.req, r.key, r.dialled, r.tunnel, r.told)

(* The task has been configured by its own request.                        *)
Asked(r) ==
    /\ r.req \in Requests
    /\ OptionsOk(r.method, r.req.args)
    /\ r.cfg = Configured(r.method, r.req.args)

(* What a task has done by the time it is at its pc.                       *)
TaskOK(r) ==
    /\ IsTask(r)
    /\ r.pc \in {"socks", "connect", "dial", "handshake", "reply", "relay"}
    /\ r.method \in ClientMethods
    /\ r.pc # "socks" => Asked(r)
    /\ r.pc \notin {"socks", "connect"} /\ r.method = "obfs4" => r.key /\ r.req.target # "domain"
    /\ r.pc \in {"handshake", "reply", "relay"} =>
         r.dialled = IF r.method = "obfs4" THEN r.req.target ELSE r.cfg.host
    /\ r.pc # "relay" => ~r.told
    /\ r.pc \in {"reply", "relay"} => r.tunnel

(* Only a listener that was announced and is served hands connections over.*)
Handed(r) ==
    /\ phase = "up" /\ env.role = "client"
    /\ \E i \in DOMAIN bound : bound[i].method = r.method

TasksInv ==
    /\ conn = [c \in Conns |-> conn[c]]
    /\ \A c \in Conns : \/ conn[c] = Unused
                        \/ conn[c] = Ended
                        \/ TaskOK(conn[c]) /\ Handed(conn[c])

-----------------------------------------------------------------------------
(* The setup.                                                              *)

LEMMA MethodsTyped ==
    ASSUME env \in Envs, env.role = "client"
    PROVE  /\ env.methods \in Seq(STRING) /\ Len(env.methods) \in Nat
           /\ \A i \in 1..Len(env.methods) : env.methods[i] \in STRING
BY PtSetupConstants, Listed

LEMMA LinesDiffer ==
    /\ Version.what # "CMETHODS DONE" /\ MethodsDone.what = "CMETHODS DONE"
    /\ \A m, p : Line("CMETHOD", m, p).what # "CMETHODS DONE"
    /\ \A m, p : Line("CMETHOD-ERROR", m, p).what # "CMETHODS DONE"
BY DEF Version, MethodsDone, Line

LEMMA LineOfType ==
    ASSUME NEW i \in Nat, env.methods[i] \in STRING
    PROVE  LineOf(i) \in Lines /\ LineOf(i) # MethodsDone
<1>1. LineOf(i) \in Lines
  BY DEF LineOf, Lines
<1>2. LineOf(i).what # MethodsDone.what
  BY LinesDiffer, Zenon DEF LineOf
<1> QED BY <1>1, <1>2

(* CMETHODS DONE comes last: it is not among the lines of a setup that has *)
(* not come up.                                                            *)
LEMMA NotDoneYet ==
    ASSUME SetupInv, phase # "up"
    PROVE  \A i \in DOMAIN lines : lines[i] # MethodsDone
<1>1. CASE phase = "client"
  <2>1. /\ env.role = "client" /\ env \in Envs
        /\ at \in 0..Len(env.methods) /\ LinesUpTo(at) /\ Len(lines) = at + 1
    BY <1>1 DEF SetupInv
  <2>2. DOMAIN lines = 1..(at + 1)
    BY <2>1, Listed DEF LinesUpTo
  <2> SUFFICES ASSUME NEW i \in 1..(at + 1)
               PROVE  lines[i] # MethodsDone
    BY <2>2
  <2>3. CASE i = 1
    BY <2>1, <2>3, LinesDiffer DEF LinesUpTo
  <2>4. CASE i # 1
    <3>1. Len(env.methods) \in Nat
      BY <2>1, MethodsTyped
    <3>2. PICK j \in 1..at : i = j + 1
      BY <2>1, <2>4, <3>1
    <3>3. env.methods[j] \in STRING /\ j \in Nat
      BY <2>1, <3>1, <3>2, MethodsTyped
    <3>4. lines[i] = LineOf(j)
      BY <2>1, <3>2 DEF LinesUpTo
    <3> QED BY <3>3, <3>4, LineOfType
  <2> QED BY <2>3, <2>4
<1>2. CASE phase # "client"
  BY <1>2 DEF SetupInv
<1> QED BY <1>1, <1>2

LEMMA FailureKeepsInv ==
    ASSUME SetupInv, phase # "up", SetupFails, \A i \in DOMAIN lines' : lines'[i] # MethodsDone
    PROVE  SetupInv'
BY DEF SetupInv, SetupFails

LEMMA ClientBeginsInv ==
    ASSUME SetupInv, ClientBegins
    PROVE  SetupInv'
<1>1. phase = "start" /\ env.role = "client" /\ env \in Envs /\ at = 0 /\ bound = <<>> /\ serving = {}
  BY DEF ClientBegins, SetupInv
<1>2. Version # ProxyError /\ ProxyError # MethodsDone /\ Version # MethodsDone
  BY DEF Version, ProxyError, MethodsDone, Line
<1>3. CASE lines' = <<Version, ProxyError>> /\ SetupFails
  BY <1>1, <1>2, <1>3, FailureKeepsInv
<1>4. CASE lines' = <<Version>> /\ SetupFails
  BY <1>1, <1>2, <1>4, FailureKeepsInv
<1>5. CASE /\ ~env.proxy /\ lines' = <<Version>> /\ phase' = "client"
           /\ UNCHANGED <<env, at, bound, serving>>
  <2>1. Len(env.methods) \in Nat
    BY <1>1, MethodsTyped
  <2>2. lines' \in Seq(Lines) /\ Len(lines') = 1 /\ lines'[1] = Version
    BY <1>5 DEF Lines
  <2>3. LinesUpTo(at)'
    BY <1>1, <1>5, <2>2 DEF LinesUpTo
  <2>4. BoundUpTo(at)'
    BY <1>1, <1>5 DEF BoundUpTo
  <2> QED BY <1>1, <1>5, <2>1, <2>2, <2>3, <2>4 DEF SetupInv
<1> QED BY <1>3, <1>4, <1>5 DEF ClientBegins

(* The end of a turn of the loop over the methods.                         *)
LEMMA MethodDoneInv ==
    ASSUME SetupInv, phase = "client", at < Len(env.methods),
           UNCHANGED <<env, phase, serving>>, at' = at + 1,
           NEW line, line = LineOf(at + 1), lines' = Append(lines, line),
           BoundUpTo(at)'
    PROVE  SetupInv'
<1>1. /\ env.role = "client" /\ env \in Envs /\ at \in 0..Len(env.methods)
      /\ LinesUpTo(at) /\ Len(lines) = at + 1 /\ ~env.proxy /\ serving = {}
  BY DEF SetupInv
<1>2. /\ Len(env.methods) \in Nat /\ at \in Nat /\ at' \in 0..Len(env.methods)
      /\ env.methods[at + 1] \in STRING
  BY <1>1, MethodsTyped
<1>3. line \in Lines
  BY <1>2, LineOfType
<1>4. /\ lines' \in Seq(Lines) /\ Len(lines') = at + 2
      /\ \A i \in 1..(at + 1) : lines'[i] = lines[i]
      /\ lines'[at + 2] = line
  BY <1>1, <1>2, <1>3, Appended DEF LinesUpTo
<1>5. LinesUpTo(at)'
  <2>1. lines'[1] = Version
    BY <1>1, <1>2, <1>4 DEF LinesUpTo
  <2>2. ASSUME NEW i \in 1..(at + 1)
        PROVE  lines'[i + 1] = LineOf(i)'
    <3>1. LineOf(i)' = LineOf(i)
      BY DEF LineOf
    <3>2. CASE i = at + 1
      BY <1>2, <1>4, <3>1, <3>2
    <3>3. CASE i # at + 1
      <4>1. i \in 1..at /\ i + 1 \in 1..(at + 1)
        BY <1>2, <3>3
      <4> QED BY <1>1, <1>4, <3>1, <4>1 DEF LinesUpTo
    <3> QED BY <3>2, <3>3
  <2> QED BY <1>2, <1>4, <2>1, <2>2 DEF LinesUpTo
<1> QED BY <1>1, <1>2, <1>4, <1>5 DEF SetupInv

LEMMA BindMethodInv ==
    ASSUME SetupInv, BindMethod
    PROVE  SetupInv'
<1> DEFINE b == [method |-> Method, port |-> at + 1]
<1>1. /\ phase = "client" /\ at < Len(env.methods) /\ Method \in ClientMethods
      /\ at' = at + 1 /\ bound' = Append(bound, b)
      /\ lines' = Append(lines, Line("CMETHOD", Method, at + 1))
      /\ UNCHANGED <<env, phase, serving>>
  BY DEF BindMethod
<1>2. /\ env.role = "client" /\ env \in Envs /\ at \in 0..Len(env.methods) /\ BoundUpTo(at)
  BY <1>1 DEF SetupInv
<1>3. Len(env.methods) \in Nat /\ at \in Nat /\ Method = env.methods[at + 1]
  BY <1>2, MethodsTyped DEF Method
<1>4. LineOf(at + 1) = Line("CMETHOD", Method, at + 1)
  BY <1>1, <1>3 DEF LineOf
<1> DEFINE B == [method : ClientMethods, port : 1..(at + 1)]
           n == Len(bound)
<1>5. b \in B /\ b.port = at + 1 /\ b.method = env.methods[at + 1]
  BY <1>1, <1>3
<1>6. bound \in Seq(B) /\ n \in Nat /\ \A k \in 1..n : bound[k].port \in 1..at
  <2> DEFINE A == [method : ClientMethods, port : 1..at]
  <2>1. bound \in Seq(A) /\ A \subseteq B
    BY <1>2, <1>3 DEF BoundUpTo
  <2>2. \A a \in A : a.port \in 1..at
    OBVIOUS
  <2> HIDE DEF A, B
  <2>3. n \in Nat /\ \A k \in 1..n : bound[k] \in A
    BY <2>1, Listed
  <2>4. bound \in Seq(B)
    BY <2>1
  <2> QED BY <2>2, <2>3, <2>4
<1> HIDE DEF b, B
<1>7. /\ bound' \in Seq(B) /\ Len(bound') = n + 1
      /\ \A k \in 1..n : bound'[k] = bound[k]
      /\ bound'[n + 1] = b
  BY <1>1, <1>5, <1>6, Appended
<1> HIDE DEF n
<1>8. \A k \in 1..(n + 1) : env.methods[bound'[k].port] = bound'[k].method
  <2>1. \A k \in 1..n : env.methods[bound[k].port] = bound[k].method
    BY <1>2 DEF BoundUpTo, n
  <2> SUFFICES ASSUME NEW k \in 1..(n + 1)
               PROVE  env.methods[bound'[k].port] = bound'[k].method
    OBVIOUS
  <2>2. CASE k = n + 1
    BY <1>5, <1>7, <2>2
  <2>3. CASE k # n + 1
    <3>1. k \in 1..n
      BY <1>6, <2>3
    <3> QED BY <1>7, <2>1, <3>1
  <2> QED BY <2>2, <2>3
<1>9. \A k, l \in 1..(n + 1) : k < l => bound'[k].port < bound'[l].port
  <2>1. \A k, l \in 1..n : k < l => bound[k].port < bound[l].port
    BY <1>2 DEF BoundUpTo, n
  <2> SUFFICES ASSUME NEW k \in 1..(n + 1), NEW l \in 1..(n + 1), k < l
               PROVE  bound'[k].port < bound'[l].port
    OBVIOUS
  <2>2. k \in 1..n /\ bound'[k].port = bound[k].port /\ bound[k].port \in 1..at
    BY <1>6, <1>7
  <2>3. CASE l = n + 1
    BY <1>3, <1>5, <1>7, <2>2, <2>3
  <2>4. CASE l # n + 1
    <3>1. l \in 1..n
      BY <1>6, <2>4
    <3> QED BY <1>7, <2>1, <2>2, <3>1
  <2> QED BY <2>3, <2>4
<1>10. \A i \in 1..(at + 1) : env.methods[i] \in ClientMethods
                                 => \E k \in 1..(n + 1) : bound'[k].port = i
  <2> SUFFICES ASSUME NEW i \in 1..(at + 1), env.methods[i] \in ClientMethods
               PROVE  \E k \in 1..(n + 1) : bound'[k].port = i
    OBVIOUS
  <2>1. CASE i = at + 1
    BY <1>5, <1>6, <1>7, <2>1
  <2>2. CASE i # at + 1
    <3>1. i \in 1..at
      BY <1>3, <2>2
    <3>2. PICK k \in 1..n : bound[k].port = i
      BY <1>2, <3>1 DEF BoundUpTo, n
    <3>3. k \in 1..(n + 1) /\ bound'[k].port = i
      BY <1>6, <1>7, <3>2
    <3> QED BY <3>3
  <2> QED BY <2>1, <2>2
<1>11. BoundUpTo(at)'
  BY <1>1, <1>7, <1>8, <1>9, <1>10 DEF BoundUpTo, B
<1> QED BY <1>1, <1>4, <1>11, MethodDoneInv

LEMMA UnknownMethodInv ==
    ASSUME SetupInv, UnknownMethod
    PROVE  SetupInv'
<1>1. /\ phase = "client" /\ at < Len(env.methods) /\ Method \notin ClientMethods
      /\ at' = at + 1 /\ lines' = Append(lines, Line("CMETHOD-ERROR", Method, 0))
      /\ UNCHANGED <<env, phase, bound, serving>>
  BY DEF UnknownMethod
<1>2. /\ env.role = "client" /\ env \in Envs /\ at \in 0..Len(env.methods) /\ BoundUpTo(at)
  BY <1>1 DEF SetupInv
<1>3. Len(env.methods) \in Nat /\ at \in Nat /\ Method = env.methods[at + 1]
  BY <1>2, MethodsTyped DEF Method
<1>4. LineOf(at + 1) = Line("CMETHOD-ERROR", Method, 0)
  BY <1>1, <1>3 DEF LineOf
<1>5. BoundUpTo(at)'
  <2> DEFINE A == [method : ClientMethods, port : 1..at]
             B == [method : ClientMethods, port : 1..(at + 1)]
  <2>1. A \subseteq B /\ bound \in Seq(A)
    BY <1>2, <1>3 DEF BoundUpTo
  <2>2. bound \in Seq(B)
    <3> HIDE DEF A, B
    <3> QED BY <2>1
  <2>3. \A i \in 1..(at + 1) : env.methods[i] \in ClientMethods => i \in 1..at
    BY <1>1, <1>3
  <2> QED BY <1>1, <1>2, <2>2, <2>3 DEF BoundUpTo
<1> QED BY <1>1, <1>4, <1>5, MethodDoneInv

LEMMA ClientUpInv ==
    ASSUME SetupInv, ClientUp
    PROVE  SetupInv'
<1>1. /\ phase = "client" /\ at = Len(env.methods) /\ lines' = Append(lines, MethodsDone)
      /\ serving' = {bound[i].port : i \in DOMAIN bound} /\ phase' = "up"
      /\ UNCHANGED <<env, at, bound>>
  BY DEF ClientUp
<1>2. /\ env.role = "client" /\ env \in Envs /\ at \in 0..Len(env.methods) /\ ~env.proxy
      /\ LinesUpTo(at) /\ BoundUpTo(at) /\ Len(lines) = at + 1
  BY <1>1 DEF SetupInv
<1>3. at \in Nat /\ MethodsDone \in Lines
  BY <1>1, <1>2, MethodsTyped DEF Lines
<1>4. /\ lines' \in Seq(Lines) /\ Len(lines') = at + 2 /\ lines'[at + 2] = MethodsDone
      /\ \A i \in 1..(at + 1) : lines'[i] = lines[i]
  BY <1>1, <1>2, <1>3, Appended DEF LinesUpTo
<1>5. LinesUpTo(at)'
  <2>1. lines'[1] = Version
    BY <1>2, <1>3, <1>4 DEF LinesUpTo
  <2>2. ASSUME NEW i \in 1..at
        PROVE  lines'[i + 1] = LineOf(i)'
    <3>1. LineOf(i)' = LineOf(i)
      BY <1>1 DEF LineOf
    <3>2. i + 1 \in 1..(at + 1)
      BY <1>3
    <3> QED BY <1>2, <1>4, <3>1, <3>2 DEF LinesUpTo
  <2> QED BY <1>1, <1>3, <1>4, <2>1, <2>2 DEF LinesUpTo
<1>6. BoundUpTo(at)'
  BY <1>1, <1>2 DEF BoundUpTo
<1> QED BY <1>1, <1>2, <1>4, <1>5, <1>6 DEF SetupInv

LEMMA SetupStep ==
    ASSUME SetupInv, SetupNext
    PROVE  SetupInv'
<1>1. CASE WrongStart \/ BindFails
  <2>1. phase # "up" /\ SetupFails /\ lines' = lines
    BY <1>1 DEF WrongStart, BindFails
  <2> QED BY <2>1, NotDoneYet, FailureKeepsInv
<1>2. CASE ServerBegins
  <2>1. phase = "start" /\ env.role = "server" /\ lines' = lines
    BY <1>2 DEF ServerBegins
  <2>2. CASE SetupFails
    BY <2>1, <2>2, NotDoneYet, FailureKeepsInv
  <2>3. CASE phase' = "server" /\ UNCHANGED <<env, at, bound, serving>>
    BY <2>1, <2>3 DEF SetupInv
  <2> QED BY <1>2, <2>2, <2>3 DEF ServerBegins
<1>3. CASE BindServer
  <2>1. phase = "server" /\ env.role = "server" /\ lines' = lines
    BY <1>3 DEF BindServer, SetupInv
  <2>2. CASE SetupFails
    BY <2>1, <2>2, NotDoneYet, FailureKeepsInv
  <2>3. CASE ~SetupFails
    <3>1. UNCHANGED <<env, phase, serving>>
      BY <1>3, <2>3 DEF BindServer
    <3> QED BY <2>1, <3>1 DEF SetupInv
  <2> QED BY <2>2, <2>3
<1>4. CASE ServerUp
  BY <1>4 DEF ServerUp, SetupInv
<1> QED
  BY <1>1, <1>2, <1>3, <1>4, ClientBeginsInv, BindMethodInv, UnknownMethodInv, ClientUpInv
     DEF SetupNext

-----------------------------------------------------------------------------
(* The connections.                                                        *)

LEMMA Outside ==
    /\ Unused.pc = "unused" /\ Ended.pc = "ended"
BY DEF Unused, Ended

(* options and build keep what the request said.                           *)
LEMMA ConfiguredKeeps ==
    ASSUME NEW method \in ClientMethods, NEW a, OptionsOk(method, a)
    PROVE  /\ a.kind = method /\ Configured(method, a).kind = method
           /\ method = "obfs4" => Configured(method, a).cert = a.cert
           /\ method # "obfs4" /\ a.addr = "none" => Configured(method, a).host = a.url
           /\ method # "obfs4" /\ a.addr # "none" => Configured(method, a).host = a.addr
<1>1. CASE method = "obfs4"
  BY <1>1 DEF OptionsOk, Configured
<1>2. CASE method # "obfs4"
  BY <1>2 DEF OptionsOk, Configured, Prepared, ClientMethods
<1> QED BY <1>1, <1>2

(* A step of one task that hands it on, or ends it, keeps the invariant.   *)
LEMMA TaskStep ==
    ASSUME TasksInv, NEW c \in Conns, UNCHANGED setupVars, NEW r, To(c, r),
           r = Ended \/ (TaskOK(r) /\ Handed(r))
    PROVE  TasksInv'
<1>1. conn' = [conn EXCEPT ![c] = r] /\ conn = [d \in Conns |-> conn[d]]
  BY DEF To, TasksInv
<1>2. conn' = [d \in Conns |-> conn'[d]] /\ conn'[c] = r
      /\ \A d \in Conns : d # c => conn'[d] = conn[d]
  BY <1>1
<1>3. \A d \in Conns : Handed(conn[d]) => (d # c => Handed(conn[d])')
  BY <1>2 DEF Handed, setupVars
<1>4. \A d \in Conns : TaskOK(conn[d]) => (d # c => TaskOK(conn'[d]))
  BY <1>2
<1>5. ASSUME NEW d \in Conns
      PROVE  \/ conn'[d] = Unused
             \/ conn'[d] = Ended
             \/ TaskOK(conn'[d]) /\ Handed(conn[d])'
  <2>1. CASE d = c
    <3>1. Handed(r) => Handed(conn[c])'
      BY <1>2 DEF Handed, setupVars
    <3> QED BY <1>2, <2>1, <3>1
  <2>2. CASE d # c
    BY <1>2, <1>3, <1>4, <2>2 DEF TasksInv
  <2> QED BY <2>1, <2>2
<1> QED BY <1>2, <1>5 DEF TasksInv

(* The fields of a task ...                                                *)
LEMMA TaskFields ==
    ASSUME NEW pc, NEW method, NEW cfg, NEW req, NEW key, NEW dialled, NEW tunnel, NEW told,
           NEW n, n = Task(pc, method, cfg, req, key, dialled, tunnel, told)
    PROVE  /\ IsTask(n)
           /\ n.pc = pc /\ n.method = method /\ n.cfg = cfg /\ n.req = req
           /\ n.key = key /\ n.dialled = dialled /\ n.tunnel = tunnel /\ n.told = told
BY DEF IsTask, Task

(* ... and what each assignment to them makes of it.                       *)
LEMMA TaskAt ==
    ASSUME NEW r, IsTask(r), NEW pc, NEW n, n = [r EXCEPT !.pc = pc]
    PROVE  n = Task(pc, r.method, r.cfg, r.req, r.key, r.dialled, r.tunnel, r.told)
BY DEF IsTask, Task

LEMMA TaskKeyed ==
    ASSUME NEW r, IsTask(r), NEW key, NEW n, n = [r EXCEPT !.key = key]
    PROVE  n = Task(r.pc, r.method, r.cfg, r.req, key, r.dialled, r.tunnel, r.told)
BY DEF IsTask, Task

LEMMA TaskDialled ==
    ASSUME NEW r, IsTask(r), NEW dialled, NEW n, n = [r EXCEPT !.dialled = dialled]
    PROVE  n = Task(r.pc, r.method, r.cfg, r.req, r.key, dialled, r.tunnel, r.told)
BY DEF IsTask, Task

LEMMA TaskTunnel ==
    ASSUME NEW r, IsTask(r), NEW tunnel, NEW n, n = [r EXCEPT !.tunnel = tunnel]
    PROVE  n = Task(r.pc, r.method, r.cfg, r.req, r.key, r.dialled, tunnel, r.told)
BY DEF IsTask, Task

LEMMA TaskTold ==
    ASSUME NEW r, IsTask(r), NEW told, NEW n, n = [r EXCEPT !.told = told]
    PROVE  n = Task(r.pc, r.method, r.cfg, r.req, r.key, r.dialled, r.tunnel, told)
BY DEF IsTask, Task

LEMMA TaskAsking ==
    ASSUME NEW r, IsTask(r), NEW req, NEW n, n = [r EXCEPT !.req = req]
    PROVE  n = Task(r.pc, r.method, r.cfg, req, r.key, r.dialled, r.tunnel, r.told)
BY DEF IsTask, Task

LEMMA TaskConfigured ==
    ASSUME NEW r, IsTask(r), NEW cfg, NEW n, n = [r EXCEPT !.cfg = cfg]
    PROVE  n = Task(r.pc, r.method, cfg, r.req, r.key, r.dialled, r.tunnel, r.told)
BY DEF IsTask, Task

LEMMA SocksRequestOK ==
    ASSUME NEW r, TaskOK(r), r.pc = "socks", NEW q \in Requests, OptionsOk(r.method, q.args),
           NEW n, n = [r EXCEPT !.pc = "connect", !.req = q,
                                !.cfg = Configured(r.method, q.args)]
    PROVE  TaskOK(n) /\ n.method = r.method
<1> DEFINE pc == "connect"
           cfg == Configured(r.method, q.args)
           a == [r EXCEPT !.pc = pc]
           b == [a EXCEPT !.req = q]
           d == [b EXCEPT !.cfg = cfg]
<1>1. n = d
  OBVIOUS
<1>2. IsTask(r) /\ ~r.told /\ r.method \in ClientMethods
  BY DEF TaskOK
<1>3. pc \in {"socks", "connect", "dial", "handshake", "reply", "relay"}
      /\ pc \in {"socks", "connect"} /\ pc \notin {"handshake", "reply", "relay"}
  OBVIOUS
<1>4. a = Task(pc, r.method, r.cfg, r.req, r.key, r.dialled, r.tunnel, r.told)
  <2> HIDE DEF pc
  <2> QED BY <1>2, TaskAt
<1> HIDE DEF pc, a, cfg
<1>5. IsTask(a) /\ a.pc = pc /\ a.method = r.method /\ a.told = r.told
  BY <1>4, TaskFields
<1>6. b = Task(pc, a.method, a.cfg, q, a.key, a.dialled, a.tunnel, a.told)
  BY <1>5, TaskAsking
<1> HIDE DEF b
<1>7. IsTask(b) /\ b.pc = pc /\ b.method = r.method /\ b.told = r.told /\ b.req = q
  BY <1>5, <1>6, TaskFields
<1>8. d = Task(pc, b.method, cfg, q, b.key, b.dialled, b.tunnel, b.told)
  BY <1>7, TaskConfigured
<1>9. /\ IsTask(d) /\ d.pc = pc /\ d.method = r.method /\ d.cfg = cfg /\ d.req = q
      /\ d.told = r.told
  BY <1>7, <1>8, TaskFields
<1>10. Asked(d)
  BY <1>9 DEF Asked, cfg
<1> HIDE DEF d
<1>11. TaskOK(d)
  BY <1>2, <1>3, <1>9, <1>10 DEF TaskOK
<1> QED BY <1>1, <1>9, <1>11

(* The configuration is that of the task's own method.                     *)
LEMMA KindIsMethod ==
    ASSUME NEW r, TaskOK(r), r.pc # "socks"
    PROVE  r.cfg.kind = r.method
BY ConfiguredKeeps DEF TaskOK, Asked

LEMMA KeygenOK ==
    ASSUME NEW r, TaskOK(r), r.pc = "connect", ResolvesTarget(r.req.target),
           NEW n, n = [r EXCEPT !.pc = "dial", !.key = TRUE]
    PROVE  TaskOK(n) /\ n.method = r.method
<1> DEFINE pc == "dial"
           yes == TRUE
           a == [r EXCEPT !.pc = pc]
           b == [a EXCEPT !.key = yes]
<1>1. n = b
  OBVIOUS
<1>2. IsTask(r) /\ ~r.told /\ r.method \in ClientMethods /\ Asked(r) /\ r.req.target # "domain"
  BY DEF TaskOK, ResolvesTarget
<1>3. pc \in {"socks", "connect", "dial", "handshake", "reply", "relay"}
      /\ pc \notin {"handshake", "reply", "relay"} /\ yes
  OBVIOUS
<1> HIDE DEF pc, yes
<1>4. a = Task(pc, r.method, r.cfg, r.req, r.key, r.dialled, r.tunnel, r.told)
  BY <1>2, TaskAt
<1> HIDE DEF a
<1>5. /\ IsTask(a) /\ a.pc = pc /\ a.method = r.method /\ a.cfg = r.cfg /\ a.req = r.req
      /\ a.told = r.told
  BY <1>4, TaskFields
<1>6. b = Task(pc, a.method, a.cfg, a.req, yes, a.dialled, a.tunnel, a.told)
  BY <1>5, TaskKeyed
<1> HIDE DEF b
<1>7. /\ IsTask(b) /\ b.pc = pc /\ b.method = r.method /\ b.cfg = r.cfg /\ b.req = r.req
      /\ b.told = r.told /\ b.key = yes
  BY <1>5, <1>6, TaskFields
<1>8. Asked(b)
  BY <1>2, <1>7 DEF Asked
<1>9. TaskOK(b)
  BY <1>2, <1>3, <1>7, <1>8 DEF TaskOK
<1> QED BY <1>1, <1>7, <1>9

LEMMA ConnectUrlOK ==
    ASSUME NEW r, TaskOK(r), r.pc = "connect", r.cfg.kind = "webtunnel",
           NEW n, n = [r EXCEPT !.pc = "dial"]
    PROVE  TaskOK(n) /\ n.method = r.method
<1> DEFINE pc == "dial"
           a == [r EXCEPT !.pc = pc]
<1>1. n = a
  OBVIOUS
<1>2. IsTask(r) /\ ~r.told /\ r.method \in ClientMethods /\ Asked(r) /\ r.method # "obfs4"
  BY KindIsMethod DEF TaskOK
<1>3. pc \in {"socks", "connect", "dial", "handshake", "reply", "relay"}
      /\ pc \notin {"handshake", "reply", "relay"}
  OBVIOUS
<1> HIDE DEF pc
<1>4. a = Task(pc, r.method, r.cfg, r.req, r.key, r.dialled, r.tunnel, r.told)
  BY <1>2, TaskAt
<1> HIDE DEF a
<1>5. /\ IsTask(a) /\ a.pc = pc /\ a.method = r.method /\ a.cfg = r.cfg /\ a.req = r.req
      /\ a.told = r.told
  BY <1>4, TaskFields
<1>6. Asked(a)
  BY <1>2, <1>5 DEF Asked
<1>7. TaskOK(a)
  BY <1>2, <1>3, <1>5, <1>6 DEF TaskOK
<1> QED BY <1>1, <1>5, <1>7

LEMMA DialOK ==
    ASSUME NEW r, TaskOK(r), r.pc = "dial",
           NEW n, n = [r EXCEPT !.pc = "handshake",
                          !.dialled = IF r.cfg.kind = "obfs4" THEN r.req.target ELSE r.cfg.host]
    PROVE  TaskOK(n) /\ n.method = r.method
<1> DEFINE pc == "handshake"
           to == IF r.cfg.kind = "obfs4" THEN r.req.target ELSE r.cfg.host
           a == [r EXCEPT !.pc = pc]
           b == [a EXCEPT !.dialled = to]
<1>1. n = b
  OBVIOUS
<1>2. /\ IsTask(r) /\ ~r.told /\ r.method \in ClientMethods /\ Asked(r)
      /\ r.method = "obfs4" => r.key /\ r.req.target # "domain"
  BY DEF TaskOK
<1>3. to = IF r.method = "obfs4" THEN r.req.target ELSE r.cfg.host
  BY KindIsMethod
<1>4. pc \in {"socks", "connect", "dial", "handshake", "reply", "relay"}
      /\ pc \notin {"reply", "relay"}
  OBVIOUS
<1> HIDE DEF pc, to
<1>5. a = Task(pc, r.method, r.cfg, r.req, r.key, r.dialled, r.tunnel, r.told)
  BY <1>2, TaskAt
<1> HIDE DEF a
<1>6. /\ IsTask(a) /\ a.pc = pc /\ a.method = r.method /\ a.cfg = r.cfg /\ a.req = r.req
      /\ a.told = r.told /\ a.key = r.key
  BY <1>5, TaskFields
<1>7. b = Task(pc, a.method, a.cfg, a.req, a.key, to, a.tunnel, a.told)
  BY <1>6, TaskDialled
<1> HIDE DEF b
<1>8. /\ IsTask(b) /\ b.pc = pc /\ b.method = r.method /\ b.cfg = r.cfg /\ b.req = r.req
      /\ b.told = r.told /\ b.key = r.key /\ b.dialled = to
  BY <1>6, <1>7, TaskFields
<1>9. Asked(b)
  BY <1>2, <1>8 DEF Asked
<1>10. b.dialled = IF b.method = "obfs4" THEN b.req.target ELSE b.cfg.host
  BY <1>3, <1>8
<1>11. TaskOK(b)
  BY <1>2, <1>4, <1>8, <1>9, <1>10 DEF TaskOK
<1> QED BY <1>1, <1>8, <1>11

LEMMA HandshakeDoneOK ==
    ASSUME NEW r, TaskOK(r), r.pc = "handshake",
           NEW n, n = [r EXCEPT !.pc = "reply", !.tunnel = TRUE]
    PROVE  TaskOK(n) /\ n.method = r.method
<1> DEFINE pc == "reply"
           yes == TRUE
           a == [r EXCEPT !.pc = pc]
           b == [a EXCEPT !.tunnel = yes]
<1>1. n = b
  OBVIOUS
<1>2. /\ IsTask(r) /\ ~r.told /\ r.method \in ClientMethods /\ Asked(r)
      /\ r.method = "obfs4" => r.key /\ r.req.target # "domain"
      /\ r.dialled = IF r.method = "obfs4" THEN r.req.target ELSE r.cfg.host
  BY DEF TaskOK
<1>3. pc \in {"socks", "connect", "dial", "handshake", "reply", "relay"} /\ yes
  OBVIOUS
<1> HIDE DEF pc, yes
<1>4. a = Task(pc, r.method, r.cfg, r.req, r.key, r.dialled, r.tunnel, r.told)
  BY <1>2, TaskAt
<1> HIDE DEF a
<1>5. /\ IsTask(a) /\ a.pc = pc /\ a.method = r.method /\ a.cfg = r.cfg /\ a.req = r.req
      /\ a.told = r.told /\ a.key = r.key /\ a.dialled = r.dialled
  BY <1>4, TaskFields
<1>6. b = Task(pc, a.method, a.cfg, a.req, a.key, a.dialled, yes, a.told)
  BY <1>5, TaskTunnel
<1> HIDE DEF b
<1>7. /\ IsTask(b) /\ b.pc = pc /\ b.method = r.method /\ b.cfg = r.cfg /\ b.req = r.req
      /\ b.told = r.told /\ b.key = r.key /\ b.dialled = r.dialled /\ b.tunnel = yes
  BY <1>5, <1>6, TaskFields
<1>8. Asked(b)
  BY <1>2, <1>7 DEF Asked
<1>9. TaskOK(b)
  BY <1>2, <1>3, <1>7, <1>8 DEF TaskOK
<1> QED BY <1>1, <1>7, <1>9

LEMMA ReplyOK ==
    ASSUME NEW r, TaskOK(r), r.pc = "reply",
           NEW n, n = [r EXCEPT !.pc = "relay", !.told = TRUE]
    PROVE  TaskOK(n) /\ n.method = r.method
<1> DEFINE pc == "relay"
           yes == TRUE
           a == [r EXCEPT !.pc = pc]
           b == [a EXCEPT !.told = yes]
<1>1. n = b
  OBVIOUS
<1>2. /\ IsTask(r) /\ r.tunnel /\ r.method \in ClientMethods /\ Asked(r)
      /\ r.method = "obfs4" => r.key /\ r.req.target # "domain"
      /\ r.dialled = IF r.method = "obfs4" THEN r.req.target ELSE r.cfg.host
  BY DEF TaskOK
<1>3. pc \in {"socks", "connect", "dial", "handshake", "reply", "relay"} /\ pc = "relay"
  OBVIOUS
<1> HIDE DEF pc, yes
<1>4. a = Task(pc, r.method, r.cfg, r.req, r.key, r.dialled, r.tunnel, r.told)
  BY <1>2, TaskAt
<1> HIDE DEF a
<1>5. /\ IsTask(a) /\ a.pc = pc /\ a.method = r.method /\ a.cfg = r.cfg /\ a.req = r.req
      /\ a.tunnel = r.tunnel /\ a.key = r.key /\ a.dialled = r.dialled
  BY <1>4, TaskFields
<1>6. b = Task(pc, a.method, a.cfg, a.req, a.key, a.dialled, a.tunnel, yes)
  BY <1>5, TaskTold
<1> HIDE DEF b
<1>7. /\ IsTask(b) /\ b.pc = pc /\ b.method = r.method /\ b.cfg = r.cfg /\ b.req = r.req
      /\ b.tunnel = r.tunnel /\ b.key = r.key /\ b.dialled = r.dialled
  BY <1>5, <1>6, TaskFields
<1>8. Asked(b)
  BY <1>2, <1>7 DEF Asked
<1>9. TaskOK(b)
  BY <1>2, <1>3, <1>7, <1>8 DEF TaskOK
<1> QED BY <1>1, <1>7, <1>9

LEMMA AcceptOK ==
    ASSUME NEW method \in ClientMethods
    PROVE  TaskOK(Fresh(method)) /\ Fresh(method).method = method
<1> DEFINE pc == "socks"
           n == Task(pc, method, NoConfig, NoRequest, FALSE, NoHost, FALSE, FALSE)
<1>1. n = Fresh(method)
  BY DEF Task, Fresh
<1>2. IsTask(n) /\ n.pc = pc /\ n.method = method /\ ~n.told
  BY DEF IsTask, Task
<1> HIDE DEF n
<1>3. TaskOK(n)
  BY <1>2 DEF TaskOK
<1> QED BY <1>1, <1>2, <1>3

(* Every step of a task, from whatever it waits for.                       *)
LEMMA ConnStep ==
    ASSUME TasksInv, NEW c \in Conns, ConnNext(c), UNCHANGED setupVars
    PROVE  TasksInv'
<1>1. CASE End(c)
  BY <1>1, TaskStep DEF End
<1>2. CASE ~End(c)
  <2> DEFINE r == conn[c]
  <2>1. r.pc \notin {"unused", "ended"}
    BY <1>2 DEF ConnNext, SocksRequest, SocksFails, Keygen, ConnectUrl, Dial, HandshakeDone,
                ConnectFails, Reply, ReplyFails, RelayEnds, Cancelled, At
  <2>2. TaskOK(r) /\ Handed(r)
    BY <2>1, Outside DEF TasksInv
  <2>3. SUFFICES ASSUME NEW n, To(c, n), TaskOK(n) /\ n.method = r.method
                 PROVE  TasksInv'
    <3>1. CASE \E q \in Requests : SocksRequest(c, q)
      <4>1. PICK q \in Requests : SocksRequest(c, q)
        BY <3>1
      <4> DEFINE n == [r EXCEPT !.pc = "connect", !.req = q,
                                !.cfg = Configured(r.method, q.args)]
      <4>2. r.pc = "socks" /\ OptionsOk(r.method, q.args) /\ To(c, n)
        BY <1>2, <4>1 DEF SocksRequest, At
      <4>3. TaskOK(n) /\ n.method = r.method
        BY <2>2, <4>2, SocksRequestOK
      <4> HIDE DEF n
      <4> QED BY <2>3, <4>2, <4>3
    <3>2. CASE Keygen(c)
      <4> DEFINE n == [r EXCEPT !.pc = "dial", !.key = TRUE]
      <4>1. r.pc = "connect" /\ ResolvesTarget(r.req.target) /\ To(c, n)
        BY <1>2, <3>2 DEF Keygen, At
      <4>2. TaskOK(n) /\ n.method = r.method
        BY <2>2, <4>1, KeygenOK
      <4> HIDE DEF n
      <4> QED BY <2>3, <4>1, <4>2
    <3>3. CASE ConnectUrl(c)
      <4> DEFINE n == [r EXCEPT !.pc = "dial"]
      <4>1. r.pc = "connect" /\ r.cfg.kind = "webtunnel" /\ To(c, n)
        BY <3>3 DEF ConnectUrl, At
      <4>2. TaskOK(n) /\ n.method = r.method
        BY <2>2, <4>1, ConnectUrlOK
      <4> HIDE DEF n
      <4> QED BY <2>3, <4>1, <4>2
    <3>4. CASE Dial(c)
      <4> DEFINE n == [r EXCEPT !.pc = "handshake",
                          !.dialled = IF r.cfg.kind = "obfs4" THEN r.req.target ELSE r.cfg.host]
      <4>1. r.pc = "dial" /\ To(c, n)
        BY <3>4 DEF Dial, At
      <4>2. TaskOK(n) /\ n.method = r.method
        BY <2>2, <4>1, DialOK
      <4> HIDE DEF n
      <4> QED BY <2>3, <4>1, <4>2
    <3>5. CASE HandshakeDone(c)
      <4> DEFINE n == [r EXCEPT !.pc = "reply", !.tunnel = TRUE]
      <4>1. r.pc = "handshake" /\ To(c, n)
        BY <3>5 DEF HandshakeDone, At
      <4>2. TaskOK(n) /\ n.method = r.method
        BY <2>2, <4>1, HandshakeDoneOK
      <4> HIDE DEF n
      <4> QED BY <2>3, <4>1, <4>2
    <3>6. CASE Reply(c)
      <4> DEFINE n == [r EXCEPT !.pc = "relay", !.told = TRUE]
      <4>1. r.pc = "reply" /\ To(c, n)
        BY <3>6 DEF Reply, At
      <4>2. TaskOK(n) /\ n.method = r.method
        BY <2>2, <4>1, ReplyOK
      <4> HIDE DEF n
      <4> QED BY <2>3, <4>1, <4>2
    <3> QED BY <1>2, <3>1, <3>2, <3>3, <3>4, <3>5, <3>6
            DEF ConnNext, SocksFails, ConnectFails, ReplyFails, RelayEnds, Cancelled
  <2>4. Handed(n)
    BY <2>2, <2>3 DEF Handed
  <2> QED BY <2>3, <2>4, TaskStep
<1> QED BY <1>1, <1>2

LEMMA SetupUnchanged ==
    ASSUME SetupInv, UNCHANGED setupVars
    PROVE  SetupInv'
<1>1. UNCHANGED <<env, phase, at, lines, bound, serving>>
  BY DEF setupVars
<1>2. LinesUpTo(at) => LinesUpTo(at)'
  BY <1>1 DEF LinesUpTo, LineOf
<1>3. BoundUpTo(at) => BoundUpTo(at)'
  BY <1>1 DEF BoundUpTo
<1> QED BY <1>1, <1>2, <1>3 DEF SetupInv

ManagedInv == SetupInv /\ TasksInv

LEMMA ManagedInitInv == ManagedInit => ManagedInv
<1> SUFFICES ASSUME ManagedInit PROVE ManagedInv
  OBVIOUS
<1>1. SetupInv
  BY DEF ManagedInit, SetupInit, SetupInv
<1>2. TasksInv
  BY DEF ManagedInit, ConnInit, TasksInv
<1> QED BY <1>1, <1>2 DEF ManagedInv

LEMMA ManagedStep == ManagedInv /\ [ManagedNext]_managedVars => ManagedInv'
<1> SUFFICES ASSUME ManagedInv, [ManagedNext]_managedVars PROVE ManagedInv'
  OBVIOUS
<1> USE DEF ManagedInv
<1>1. CASE SetupNext /\ UNCHANGED conn
  <2>1. SetupInv'
    BY <1>1, SetupStep
  <2>2. phase # "up"
    BY <1>1 DEF SetupNext, WrongStart, ClientBegins, BindMethod, UnknownMethod, ClientUp,
                ServerBegins, BindServer, ServerUp, BindFails
  <2>3. TasksInv'
    BY <1>1, <2>2 DEF TasksInv, Handed
  <2> QED BY <2>1, <2>3
<1>2. CASE \E c \in Conns : ParentConnects(c)
  <2>1. PICK c \in Conns : ParentConnects(c)
    BY <1>2
  <2>2. PICK i \in DOMAIN bound : bound[i].port \in serving /\ Accept(c, bound[i].method)
    BY <2>1 DEF ParentConnects
  <2>3. env.role = "client" /\ UNCHANGED setupVars
    BY <2>1 DEF ParentConnects
  <2>4. phase = "up" /\ BoundUpTo(at)
    BY <2>2, <2>3 DEF SetupInv
  <2>5. bound[i].method \in ClientMethods
    <3> DEFINE B == [method : ClientMethods, port : 1..at]
    <3>1. bound \in Seq(B) /\ \A b \in B : b.method \in ClientMethods
      BY <2>4 DEF BoundUpTo
    <3> HIDE DEF B
    <3> QED BY <2>2, <3>1, Listed
  <2> DEFINE r == Fresh(bound[i].method)
  <2>6. TaskOK(r) /\ r.method = bound[i].method /\ To(c, r)
    BY <2>2, <2>5, AcceptOK DEF Accept
  <2> HIDE DEF r
  <2>7. Handed(r)
    BY <2>2, <2>3, <2>4, <2>6 DEF Handed
  <2>8. TasksInv'
    BY <2>3, <2>6, <2>7, TaskStep
  <2>9. SetupInv'
    BY <2>3, SetupUnchanged
  <2> QED BY <2>8, <2>9
<1>3. CASE \E c \in Conns : ConnNext(c) /\ UNCHANGED setupVars
  <2>1. TasksInv'
    BY <1>3, ConnStep
  <2>2. SetupInv'
    BY <1>3, SetupUnchanged
  <2> QED BY <2>1, <2>2
<1>4. CASE UNCHANGED managedVars
  <2>1. SetupInv'
    BY <1>4, SetupUnchanged DEF managedVars
  <2>2. TasksInv'
    BY <1>4 DEF managedVars, setupVars, TasksInv, Handed
  <2> QED BY <2>1, <2>2
<1> QED BY <1>1, <1>2, <1>3, <1>4 DEF ManagedNext

(* The inductive invariant: what each phase of the setup has printed and   *)
(* bound, and what each task has done when it is at its pc.                *)
THEOREM ManagedInvariance == ManagedSpec => []ManagedInv
BY ManagedInitInv, ManagedStep, PTL DEF ManagedSpec

-----------------------------------------------------------------------------
(* The ports of the listeners are pairwise different.                      *)
LEMMA PortsCounted ==
    ASSUME NEW n \in Nat, BoundUpTo(n)
    PROVE  Cardinality({bound[i].port : i \in DOMAIN bound}) = Len(bound)
<1> DEFINE D == 1..Len(bound)
           P == {bound[i].port : i \in DOMAIN bound}
           f == [i \in D |-> bound[i].port]
<1>1. Len(bound) \in Nat /\ DOMAIN bound = D
  BY Listed DEF BoundUpTo
<1>2. \A i \in D : bound[i].port \in Nat
  <2> DEFINE B == [method : ClientMethods, port : 1..n]
  <2>1. bound \in Seq(B) /\ \A b \in B : b.port \in Nat
    BY DEF BoundUpTo
  <2> HIDE DEF B
  <2> QED BY <1>1, <2>1, Listed
<1>3. \A i, j \in D : f[i] = f[j] => i = j
  <2> SUFFICES ASSUME NEW i \in D, NEW j \in D, bound[i].port = bound[j].port
               PROVE  i = j
    OBVIOUS
  <2>1. ~(i < j) /\ ~(j < i)
    BY <1>2 DEF BoundUpTo
  <2> QED BY <1>1, <2>1
<1>4. f \in Bijection(D, P)
  <2>1. f \in [D -> P]
    BY <1>1
  <2>2. \A p \in P : \E i \in D : f[i] = p
    BY <1>1
  <2> QED BY <1>3, <2>1, <2>2, Zenon DEF Bijection, Injection, IsInjective, Surjection
<1>5. ExistsBijection(1..Len(bound), P)
  BY <1>4 DEF ExistsBijection
<1> QED BY <1>1, <1>5, FS_CountingElements

LEMMA AnnouncedFollows == ManagedInv => AnnouncedIsServed
<1> SUFFICES ASSUME SetupInv PROVE AnnouncedIsServed
  BY DEF ManagedInv
<1>1. phase # "up" => serving = {} /\ ~\E i \in DOMAIN lines : lines[i] = MethodsDone
  BY NotDoneYet DEF SetupInv
<1>2. phase = "failed" => bound = <<>>
  BY DEF SetupInv
<1>3. ASSUME phase = "up", env.role = "client"
      PROVE  /\ Len(lines) = Len(env.methods) + 2
             /\ \A i \in DOMAIN env.methods : lines[i + 1].method = env.methods[i]
             /\ serving = Announced /\ Cardinality(serving) = Len(bound)
             /\ \A i \in DOMAIN bound : Line("CMETHOD", bound[i].method, bound[i].port) \in Range(lines)
  <2> DEFINE n == Len(env.methods)
  <2>1. /\ n \in Nat /\ DOMAIN env.methods = 1..n /\ LinesUpTo(n) /\ BoundUpTo(n)
        /\ Len(lines) = n + 2 /\ lines[n + 2] = MethodsDone
        /\ serving = {bound[i].port : i \in DOMAIN bound}
    BY <1>3, MethodsTyped, Listed DEF SetupInv
  <2>2. DOMAIN lines = 1..(n + 2)
    BY <2>1, Listed DEF LinesUpTo
  <2>3. \A m, p : /\ Line("CMETHOD", m, p).what = "CMETHOD"
                  /\ Line("CMETHOD", m, p).method = m /\ Line("CMETHOD", m, p).port = p
    BY DEF Line
  <2>4. \A m : /\ Line("CMETHOD-ERROR", m, 0).what # "CMETHOD"
               /\ Line("CMETHOD-ERROR", m, 0).method = m
    BY DEF Line
  <2>5. Version.what # "CMETHOD" /\ MethodsDone.what # "CMETHOD"
    BY DEF Version, MethodsDone, Line
  <2> HIDE DEF n
  <2>6. \A i \in 1..n : lines[i + 1] = LineOf(i)
    BY <2>1 DEF LinesUpTo
  <2>7. \A i \in 1..n : lines[i + 1].method = env.methods[i]
    <3> TAKE i \in 1..n
    <3>1. LineOf(i).method = env.methods[i]
      BY DEF LineOf, Line
    <3> QED BY <2>6, <3>1
  <2>8. \A k \in DOMAIN bound : /\ bound[k].port \in 1..n /\ bound[k].method \in ClientMethods
                                /\ env.methods[bound[k].port] = bound[k].method
    <3> DEFINE B == [method : ClientMethods, port : 1..n]
    <3>1. bound \in Seq(B) /\ \A b \in B : b.method \in ClientMethods /\ b.port \in 1..n
      BY <2>1 DEF BoundUpTo
    <3> HIDE DEF B
    <3>2. DOMAIN bound = 1..Len(bound) /\ \A k \in 1..Len(bound) : bound[k] \in B
      BY <3>1, Listed
    <3> QED BY <2>1, <3>1, <3>2 DEF BoundUpTo
  <2>9. ASSUME NEW k \in DOMAIN bound
        PROVE  \E i \in DOMAIN lines : lines[i] = Line("CMETHOD", bound[k].method, bound[k].port)
    <3> DEFINE p == bound[k].port
    <3>1. p \in 1..n /\ env.methods[p] = bound[k].method /\ env.methods[p] \in ClientMethods
      BY <2>8
    <3>2. lines[p + 1] = Line("CMETHOD", bound[k].method, p)
      BY <2>6, <3>1 DEF LineOf
    <3>3. p + 1 \in DOMAIN lines
      BY <2>1, <2>2, <3>1
    <3> QED BY <3>2, <3>3
  <2>10. \A i \in DOMAIN bound : Line("CMETHOD", bound[i].method, bound[i].port) \in Range(lines)
    BY <2>9 DEF Range
  <2>11. ASSUME NEW i \in DOMAIN lines, lines[i].what = "CMETHOD"
         PROVE  lines[i].port \in serving
    <3>1. i \in 1..(n + 2) /\ i # 1 /\ i # n + 2
      <4>1. lines[1] = Version
        BY <2>1 DEF LinesUpTo
      <4> QED BY <2>1, <2>2, <2>5, <2>11, <4>1
    <3>2. PICK j \in 1..n : i = j + 1
      <4>1. i - 1 \in 1..n /\ i = (i - 1) + 1
        BY <2>1, <3>1
      <4> QED BY <4>1
    <3>3. lines[i] = LineOf(j)
      BY <2>6, <3>2
    <3>4. env.methods[j] \in ClientMethods
      <4>1. CASE env.methods[j] \notin ClientMethods
        <5>1. lines[i] = Line("CMETHOD-ERROR", env.methods[j], 0)
          BY <3>3, <4>1 DEF LineOf
        <5> QED BY <2>4, <2>11, <5>1
      <4> QED BY <4>1
    <3>5. lines[i].port = j
      BY <2>3, <3>3, <3>4, Zenon DEF LineOf
    <3>6. PICK k \in 1..Len(bound) : bound[k].port = j
      BY <2>1, <3>2, <3>4 DEF BoundUpTo
    <3>7. k \in DOMAIN bound
      BY <2>1, <3>6, Listed DEF BoundUpTo
    <3> QED BY <2>1, <3>5, <3>6, <3>7
  <2>12. serving = Announced
    <3>1. Announced \subseteq serving
      BY <2>11 DEF Announced
    <3>2. ASSUME NEW k \in DOMAIN bound
          PROVE  bound[k].port \in Announced
      <4>1. PICK i \in DOMAIN lines : lines[i] = Line("CMETHOD", bound[k].method, bound[k].port)
        BY <2>9
      <4>2. lines[i].what = "CMETHOD" /\ lines[i].port = bound[k].port
        BY <2>3, <4>1
      <4> QED BY <4>2 DEF Announced
    <3> QED BY <2>1, <3>1, <3>2
  <2>13. Cardinality(serving) = Len(bound)
    BY <2>1, PortsCounted
  <2> QED BY <2>1, <2>7, <2>10, <2>12, <2>13 DEF n
<1> QED BY <1>1, <1>2, <1>3 DEF AnnouncedIsServed

(* client_setup announces what it serves: nothing is served before CMETHODS*)
(* DONE, then every method has its one line, in order, the ports announced *)
(* are those served, and a setup that fails leaves nothing behind.         *)
THEOREM SetupAnnounces == ManagedSpec => []AnnouncedIsServed
BY ManagedInvariance, AnnouncedFollows, PTL

(* Every dial goes where the connection's own request says, after its key  *)
(* is drawn, and there is none when the parent asks for a proxy:           *)
(* managed_connect has no other source for what it dials.                  *)
THEOREM DialsFollowRequests == ManagedSpec => []DialsAsAsked
<1>1. ManagedInv => DialsAsAsked
  <2> SUFFICES ASSUME ManagedInv, NEW c \in Dialled, NEW q, q = conn[c].req
               PROVE  /\ ~env.proxy
                      /\ q \in Requests /\ q.args.kind = conn[c].method
                      /\ IF conn[c].method = "obfs4"
                         THEN /\ conn[c].dialled = q.target /\ q.target # "domain"
                              /\ conn[c].cfg.cert = q.args.cert /\ conn[c].key
                         ELSE conn[c].dialled = IF q.args.addr = "none" THEN q.args.url
                                                ELSE q.args.addr
    BY DEF DialsAsAsked
  <2> DEFINE r == conn[c]
  <2>1. c \in Conns /\ r.pc \in {"handshake", "reply", "relay"}
    BY DEF Dialled
  <2>2. TaskOK(r) /\ Handed(r)
    BY <2>1, Outside DEF ManagedInv, TasksInv
  <2>3. ~env.proxy
    BY <2>2 DEF ManagedInv, SetupInv, Handed
  <2> HIDE DEF r
  <2>4. /\ r.method \in ClientMethods /\ Asked(r)
        /\ r.method = "obfs4" => r.key /\ r.req.target # "domain"
        /\ r.dialled = IF r.method = "obfs4" THEN r.req.target ELSE r.cfg.host
    BY <2>1, <2>2 DEF TaskOK
  <2>5. /\ q \in Requests /\ q = r.req /\ OptionsOk(r.method, q.args)
        /\ r.cfg = Configured(r.method, q.args)
    BY <2>4 DEF Asked, r
  <2>6. /\ q.args.kind = r.method
        /\ r.method = "obfs4" => r.cfg.cert = q.args.cert
        /\ r.method # "obfs4" /\ q.args.addr = "none" => r.cfg.host = q.args.url
        /\ r.method # "obfs4" /\ q.args.addr # "none" => r.cfg.host = q.args.addr
    BY <2>4, <2>5, ConfiguredKeeps
  <2>7. CASE r.method = "obfs4"
    BY <2>3, <2>4, <2>5, <2>6, <2>7 DEF r
  <2>8. CASE r.method # "obfs4"
    BY <2>3, <2>4, <2>5, <2>6, <2>8 DEF r
  <2> QED BY <2>7, <2>8
<1> QED BY <1>1, ManagedInvariance, PTL

(* The SOCKS reply is written only after managed_connect has returned a    *)
(* tunnel, and only on a listener that was announced before CMETHODS DONE. *)
THEOREM RepliesMeanTunnels == ManagedSpec => []ReplyMeansTunnel
<1>1. ManagedInv => ReplyMeansTunnel
  <2> SUFFICES ASSUME ManagedInv, NEW c \in Conns, conn[c].pc \notin {"unused", "ended"}
               PROVE  /\ conn[c].told => conn[c].tunnel
                      /\ \E i \in DOMAIN lines : /\ lines[i].what = "CMETHOD"
                                                 /\ lines[i].method = conn[c].method
                      /\ MethodsDone \in Range(lines)
    BY DEF ReplyMeansTunnel
  <2>1. TaskOK(conn[c]) /\ Handed(conn[c])
    BY Outside DEF ManagedInv, TasksInv
  <2>2. conn[c].told => conn[c].tunnel
    BY <2>1 DEF TaskOK
  <2>3. PICK k \in DOMAIN bound : bound[k].method = conn[c].method
    BY <2>1 DEF Handed
  <2>4. Line("CMETHOD", bound[k].method, bound[k].port) \in Range(lines)
    BY <2>1, AnnouncedFollows DEF AnnouncedIsServed, Handed
  <2>5. PICK i \in DOMAIN lines : lines[i] = Line("CMETHOD", bound[k].method, bound[k].port)
    BY <2>4 DEF Range
  <2>6. lines[i].what = "CMETHOD" /\ lines[i].method = conn[c].method
    BY <2>3, <2>5 DEF Line
  <2>7. MethodsDone \in Range(lines)
    <3>1. /\ at \in 0..Len(env.methods) /\ Len(lines) = at + 2 /\ lines[at + 2] = MethodsDone
          /\ lines \in Seq(Lines) /\ env \in Envs /\ env.role = "client"
      BY <2>1 DEF Handed, ManagedInv, SetupInv, LinesUpTo
    <3>2. at + 2 \in DOMAIN lines
      BY <3>1, MethodsTyped, Listed
    <3> QED BY <3>1, <3>2 DEF Range
  <2> QED BY <2>2, <2>6, <2>7
<1> QED BY <1>1, ManagedInvariance, PTL

===============================================================================
