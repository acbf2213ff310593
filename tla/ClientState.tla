----------------------------- MODULE ClientState -----------------------------
(***************************************************************************)
(* An obfs4 client's configuration and its state file (crates/obfs4/src/   *)
(* client.rs, pt.rs; atomic_write_json of lib.rs).  Setters, arguments and *)
(* a state file all contribute parameters; try_build puts them together    *)
(* and may write them back.  The file is shared with other programs: with  *)
(* other clients, and with a bridge whose state may be imported.           *)
(*                                                                         *)
(* Parameters are functions on Fields.  A file is absent, no JSON, or has  *)
(* some of the fields and, if a bridge wrote it, the private key.          *)
(***************************************************************************)
EXTENDS Integers, FiniteSets

CONSTANTS Builders, MaxSet, MaxForeign     \* the last two are bounds

ASSUME ClientStateConstants == MaxSet \in Nat /\ MaxForeign \in Nat

Fields == {"pubkey", "id", "iat"}
Zero == 0         \* the default of every field
BySetter == 1
ByArgs == 2
InFile == 3       \* what the files of others hold
InBridgeFile == 4

None == [f \in {} |-> Zero]
Params(v) == [f \in Fields |-> v]

Absent == [kind |-> "absent"]
Garbage == [kind |-> "garbage"]
Saved(cfg) == [kind |-> "json", cfg |-> cfg, private |-> FALSE]
BridgeFile == [kind |-> "json", cfg |-> Params(InBridgeFile), private |-> TRUE]
Partial == Saved([f \in {"iat"} |-> InFile])

VARIABLES file,    \* the state file as readers see it
          disk,    \* what a crash may leave of it
          bld,     \* the builders
          call,    \* try_build in progress
          client,  \* the client each has built last
          sets, foreign,   \* setter calls and foreign writes so far
          acked    \* parameters of the last build that returned from writing

csVars == <<file, disk, bld, call, client, sets, foreign, acked>>

Idle == [pc |-> "idle"]
NoClient == [cfg |-> None]

(* ClientBuilder::default.                                                 *)
Default == [own |-> Params(Zero), ov |-> {}, path |-> "none",
            readonly |-> FALSE, persist |-> FALSE]

CsInit ==
    /\ file \in {Absent, Saved(Params(InFile)), BridgeFile} /\ disk = {file}
    /\ bld = [b \in Builders |-> Default]
    /\ call = [b \in Builders |-> Idle] /\ client = [b \in Builders |-> NoClient]
    /\ sets = 0 /\ foreign = 0 /\ acked = None

-----------------------------------------------------------------------------
(* apply_args needs the certificate and the mode; the file is the source   *)
(* of the arguments here.                                                  *)
Loadable(c) == c.kind = "json" /\ Fields \subseteq DOMAIN c.cfg

(* Mutant: the file wins over what was set.                                *)
FileWins(r, c) == [r EXCEPT !.own = c.cfg, !.readonly = c.private]

(* load_statefile: what was not set explicitly comes from the file.        *)
LoadStatefile(r, c) ==
    [r EXCEPT !.own = [f \in Fields |-> IF f \in r.ov THEN r.own[f] ELSE c.cfg[f]],
              !.readonly = c.private]

(* The client that was built before goes its own way.                      *)
Set(b, r) ==
    /\ call[b] = Idle /\ sets < MaxSet /\ sets' = sets + 1
    /\ bld' = [bld EXCEPT ![b] = r]
    /\ client' = [client EXCEPT ![b] = NoClient]
    /\ UNCHANGED <<file, disk, call, foreign, acked>>

(* with_node_pubkey, with_node_id, with_iat_mode.                          *)
With(b, f) == Set(b, [bld[b] EXCEPT !.own[f] = BySetter, !.ov = @ \union {f}])

(* with_statefile_path of the file, or of the directory it is in, and      *)
(* with_statefile_directory (statefile_location).                          *)
WithStatefile(b, path) ==
    Set(b, [bld[b] EXCEPT !.path = path, !.readonly = FALSE, !.persist = TRUE])

(* from_statefile, which makes a new builder.                              *)
FromStatefile(b) ==
    /\ Loadable(file)
    /\ Set(b, LoadStatefile([Default EXCEPT !.path = "file"], file))

(* apply_args, also by from_params, which makes a new builder.             *)
ApplyArgs(r) == [r EXCEPT !.own = Params(ByArgs), !.ov = Fields]
FromParams(b) == Set(b, ApplyArgs(Default))

(* ptrs::ClientBuilder::options: no arguments stand for the state file.    *)
Options(b) == Set(b, ApplyArgs(bld[b]))
NoOptions(b) ==
    /\ bld[b].path # "none" /\ Loadable(file)
    /\ Set(b, LoadStatefile(bld[b], file))

-----------------------------------------------------------------------------
(* What was asked for of a client, what it got, and from which file.       *)
Built(asked, r, from) ==
    [cfg |-> r.own, asked |-> asked.own, ov |-> asked.ov, from |-> from, error |-> FALSE]

(* try_build works on a clone of the builder; build turns its error into   *)
(* one that the client reports at its first handshake.                     *)
Return(b, c) ==
    /\ call' = [call EXCEPT ![b] = Idle]
    /\ client' = [client EXCEPT ![b] = c]

Fail(b) ==
    \/ Return(b, NoClient)
    \/ Return(b, [Built(bld[b], bld[b], {}) EXCEPT !.error = TRUE])

(* Whether the path exists: the directory always does.                     *)
Exists(r) == r.path = "dirAsFile" \/ file # Absent

TryBuild(b) ==
    LET r == bld[b] IN
    /\ call[b] = Idle
    /\ IF r.path = "none" THEN Return(b, Built(r, r, {}))
       ELSE IF r.ov # Fields /\ ~Exists(r) /\ ~({"pubkey", "id"} \subseteq r.ov)
       THEN Fail(b)
       ELSE /\ call' = [call EXCEPT ![b] =
                  [pc |-> IF Exists(r) THEN "read" ELSE "decide",
                   bld |-> r, from |-> {}, stale |-> FALSE]]
            /\ client' = [client EXCEPT ![b] = NoClient]
    /\ UNCHANGED <<file, disk, bld, sets, foreign, acked>>

InCall(b, pc) == call[b] # Idle /\ call[b].pc = pc
Goto(b, pc) == call' = [call EXCEPT ![b].pc = pc] /\ UNCHANGED client

(* Mutant: a complete configuration does not look at the file.             *)
ReadIfNeeded(b) ==
    LET r == call[b].bld IN
    /\ InCall(b, "read")
    /\ IF r.ov = Fields THEN Goto(b, "decide")
       ELSE IF Loadable(file)
       THEN /\ call' = [call EXCEPT ![b] = [@ EXCEPT !.pc = "decide",
                           !.bld = LoadStatefile(r, file), !.from = {file.cfg}, !.stale = FALSE]]
            /\ UNCHANGED client
       ELSE Fail(b)
    /\ UNCHANGED <<file, disk, bld, sets, foreign, acked>>

(* The file is read: for its parameters, or, when everything is set, to    *)
(* learn whether it is a bridge's.  A directory is not read for that.      *)
ReadFile(b) ==
    LET r == call[b].bld IN
    /\ InCall(b, "read")
    /\ IF r.ov = Fields /\ r.path = "dirAsFile" THEN Goto(b, "decide")
       ELSE IF r.ov = Fields /\ file.kind = "json"
       THEN /\ call' = [call EXCEPT ![b] = [@ EXCEPT !.pc = "decide",
                           !.bld.readonly = file.private, !.stale = FALSE]]
            /\ UNCHANGED client
       ELSE IF r.ov # Fields /\ Loadable(file)
       THEN /\ call' = [call EXCEPT ![b] = [@ EXCEPT !.pc = "decide",
                           !.bld = LoadStatefile(r, file), !.from = {file.cfg}, !.stale = FALSE]]
            /\ UNCHANGED client
       ELSE Fail(b)
    /\ UNCHANGED <<file, disk, bld, sets, foreign, acked>>

(* Persist, unless the file is read-only.                                  *)
Decide(b) ==
    LET r == call[b].bld IN
    /\ InCall(b, "decide")
    /\ IF r.persist /\ ~r.readonly THEN Goto(b, "write")
       ELSE Return(b, Built(bld[b], r, call[b].from))
    /\ UNCHANGED <<file, disk, bld, sets, foreign, acked>>

(* Others have the file in their hands, too.                               *)
Stale(c, B) == [b \in Builders |-> IF c[b] # Idle /\ b \notin B THEN [c[b] EXCEPT !.stale = TRUE]
                                   ELSE c[b]]

(* Mutant: what is written is the builder, not the clone that was loaded.  *)
WriteUnresolved(b) ==
    /\ InCall(b, "write") /\ call[b].bld.path # "dirAsFile"
    /\ call' = Stale([call EXCEPT ![b].pc = "sync", ![b].stale = FALSE], {b}) /\ UNCHANGED client
    /\ file' = Saved(bld[b].own) /\ disk' = disk \union {file'}
    /\ acked' = None
    /\ UNCHANGED <<bld, sets, foreign>>

(* write_statefile_target: an error, which is sure where the target is a   *)
(* directory; or the rename ...                                            *)
WriteFails(b) ==
    /\ InCall(b, "write")
    /\ Fail(b)
    /\ UNCHANGED <<file, disk, bld, sets, foreign, acked>>

Write(b) ==
    /\ InCall(b, "write") /\ call[b].bld.path # "dirAsFile"
    /\ call' = Stale([call EXCEPT ![b].pc = "sync", ![b].stale = FALSE], {b}) /\ UNCHANGED client
    /\ file' = Saved(call[b].bld.own) /\ disk' = disk \union {file'}
    /\ acked' = None
    /\ UNCHANGED <<bld, sets, foreign>>

(* ... and the directory synced, or not (PublishedButNotDurable).          *)
Sync(b) ==
    /\ InCall(b, "sync")
    /\ disk' = {file}
    /\ acked' = IF call[b].stale THEN acked ELSE call[b].bld.own
    /\ Return(b, Built(bld[b], call[b].bld, call[b].from))
    /\ UNCHANGED <<file, bld, sets, foreign>>

SyncFails(b) ==
    /\ InCall(b, "sync")
    /\ Fail(b)
    /\ UNCHANGED <<file, disk, bld, sets, foreign, acked>>

(* ClientBuilder::write_statefile writes whatever is there, synced or not. *)
WriteStatefile(b) ==
    /\ call[b] = Idle /\ sets < MaxSet /\ sets' = sets + 1
    /\ file' = Saved(bld[b].own) /\ disk' \in {{file'}, disk \union {file'}}
    /\ call' = Stale(call, {}) /\ acked' = None
    /\ client' = [client EXCEPT ![b] = NoClient] /\ UNCHANGED <<bld, foreign>>

(* Client::try_get_args replaces the parameters and lifts the error of an  *)
(* earlier configuration; get_args keeps the error of bad arguments.       *)
GetArgs(b) ==
    /\ client[b] # NoClient /\ sets < MaxSet /\ sets' = sets + 1
    /\ client' = [client EXCEPT ![b] = Built(ApplyArgs(Default), ApplyArgs(Default), {})]
    /\ UNCHANGED <<file, disk, bld, call, foreign, acked>>

GetBadArgs(b) ==
    /\ client[b] # NoClient /\ sets < MaxSet /\ sets' = sets + 1
    /\ client' = [client EXCEPT ![b].error = TRUE]
    /\ UNCHANGED <<file, disk, bld, call, foreign, acked>>

-----------------------------------------------------------------------------
(* Another program replaces or removes the file.                           *)
Foreign(c) ==
    /\ foreign < MaxForeign /\ foreign' = foreign + 1
    /\ file' = c /\ disk' = disk \union {c}
    /\ call' = Stale(call, {}) /\ acked' = None
    /\ UNCHANGED <<bld, client, sets>>

Crash ==
    /\ file' \in disk /\ disk' = {file'}
    /\ bld' = [b \in Builders |-> Default]
    /\ call' = [b \in Builders |-> Idle] /\ client' = [b \in Builders |-> NoClient]
    /\ UNCHANGED <<sets, foreign, acked>>

CsNext ==
    \/ \E b \in Builders :
         \/ \E f \in Fields : With(b, f)
         \/ \E path \in {"file", "dir", "dirAsFile"} : WithStatefile(b, path)
         \/ FromStatefile(b) \/ FromParams(b) \/ Options(b) \/ NoOptions(b)
         \/ TryBuild(b) \/ ReadFile(b) \/ Decide(b) \/ WriteFails(b) \/ Write(b) \/ Sync(b) \/ SyncFails(b)
         \/ WriteStatefile(b) \/ GetArgs(b) \/ GetBadArgs(b)
    \/ \E c \in {Absent, Garbage, Partial, Saved(Params(InFile)), BridgeFile} : Foreign(c)
    \/ Crash

CsSpec == CsInit /\ [][CsNext]_csVars

-----------------------------------------------------------------------------
(* "A server obfs4_state.json may be imported for its public parameters;   *)
(* it is treated as read-only by client persistence": try_build replaces a *)
(* bridge's file, and with it the bridge's private key, only if the file   *)
(* was put there after the build had looked.                               *)
BridgeFileKept ==
    [][\A b \in Builders :
          InCall(b, "write") /\ call'[b].pc = "sync" /\ file.kind = "json" /\ file.private
              => call[b].stale]_csVars

(* A build that has returned from writing survives: whatever crash follows *)
(* leaves its parameters, complete, as long as nobody replaces the file,   *)
(* and a client built from the path alone is the same client.              *)
SavedClientRestored ==
    acked # None =>
        \A d \in disk : /\ Loadable(d)
                        /\ LoadStatefile([Default EXCEPT !.path = "file"], d).own = acked

(* A client without an error has every parameter that was set explicitly,  *)
(* and takes all the others from one state file, never from two versions   *)
(* of it, although the file is read when the builder is made and again     *)
(* when it builds.                                                         *)
BuiltAsConfigured ==
    \A b \in Builders : client[b] # NoClient /\ ~client[b].error =>
        LET c == client[b] IN
        /\ \A f \in c.ov : c.cfg[f] = c.asked[f]
        /\ c.from # {} => \E s \in c.from : \A f \in Fields \ c.ov : c.cfg[f] = s[f]
=============================================================================
