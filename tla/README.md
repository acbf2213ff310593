# Verification of ptrs-gesher

TLA+ models of the parts of this repository whose correctness depends on
interleavings, partial I/O, timeouts or bounded resources; TLC configurations
that check them on small instances; and TLAPS proofs of the properties that
matter most. `PROJECT.json` maps every definition to the lines it models.

## The system

`lyrebird` is a Tor pluggable transport client: Tor starts it, reads the
addresses of its local listeners from its standard output and connects to them
with SOCKS. For each connection it opens an obfs4 or WebTunnel tunnel to a
bridge and copies bytes. The obfs4 crate also has the bridge's side.

| Part | State | Operations | What is hard |
|---|---|---|---|
| run lifecycle (`lyrebird/src/lifecycle.rs`) | cancellation tokens, join set, abort handles, connection permits, exit kind | setup, select, stop accepting, join loops, drain, cancel, abort, join, drop | spawns racing with teardown; a dropped future; lost signals |
| accept loops (`lyrebird/src/lib.rs`) | one loop per listener | accept, retry, permit, spawn, reap | cancellation at every await |
| replay filter (`obfs4/src/common/replay_filter.rs`) | set and queue of digests, latest time | test and set | times read before the lock; expiry and eviction at the limit |
| obfs4 handshake (`obfs4/src/sessions.rs`, `handshake/`) | partial messages, epoch hours | read, parse, check MAC, test replay, reply, give up | clocks that disagree; messages in pieces; replays in parallel |
| tunnel, write half (`obfs4/src/proto.rs`, `framing/codecs.rs`) | write buffer, nonces, burst target, delay, stored error | poll_write, poll_flush, poll_shutdown | short, pending, interrupted and failing writes in the middle of a call |
| tunnel, read half (same files) | read buffer, nonce, expected length, residual | O4Stream::new, poll_read | over-read handshake, split frames, end of stream, damage |
| bridge state (`obfs4/src/server.rs`, `lib.rs`) | state file, cached configuration | resolve, write atomically | crashes, a file changed under way |
| WebTunnel (`webtunnel/src/`) | deadline, address list, response buffer | resolve, connect, TLS, upgrade | one deadline shared by many attempts; bytes after the response |
| PT setup (`lyrebird/src/lib.rs`, `server.rs`, `core/src/helpers.rs`) | environment, bound listeners, lines on standard output | check, bind, announce, serve | failure after the first announcement |
| client connections (`lyrebird/src/lib.rs`, the two `establish`) | SOCKS request, options, dial | negotiate, dial, shake hands, reply | peers that stay silent; what may be dialled; when to report success |
| client state (`obfs4/src/client.rs`, `pt.rs`) | builder, state file | set, import, build, write back | a file shared with other programs; crashes |
| logging (`lyrebird/src/lib.rs`, `logging_layer.rs`) | one subscriber for all runs of a process, its filter, spans per thread | start, replace the filter, end; create, enter, leave, close spans | a filter replaced while spans are entered; runs that overlap |
| conversions (`core/src/args.rs`, `bridge-line/`, `obfs4/src/common/probdist.rs`, `framing/handshake.rs`) | none | parse, print, draw | escaping and cutting; ambiguous tokens; boundary cases of a table |

The lifecycle owns the connections; a connection performs a handshake, which on
the bridge asks the replay filter, and then is a tunnel. `Handshake` therefore
extends `ReplayFilter`, and `O4Tunnel` extends `O4Writer`; the lifecycle needs
of a connection only that it may end. `ManagedClient` puts the setup and the
connections together: a connection arrives on a listener that the setup serves.

## Modules

* **`ReplayFilter`**: `filter`, `fifo` and `latest_time` are the fields of
  `InnerReplayFilter`; `call` holds the time and digest of a caller between
  `Capture` (the clock is read) and `LockedTest` (the whole of `test_and_set`
  under the lock). `log` and `answer` record what was inserted and answered.
* **`Handshake`** adds both ends of each connection: `hello` is what each MAC
  was stamped with, `conn` the two program counters and the pieces received.
  Keys, marks and MACs are abstract: a MAC matches if the hour does.
* **`HandshakeProofs`**: the theorems of the replay filter and of the handshake.
* **`Lifecycle`**: `drv` is the place in `drive`, `lst` in each accept loop,
  `owner` in `RunOwner::drop`; `accept` and `conns` are the two cancellation
  tokens, `task`, `aborts`, `permits`, `lock` the connection pool. Every await
  is a place between two actions.
* **`LifecycleProofs`**: its theorems.
* **`O4Writer`**: `enc` are the frames encoded so far (the index is the nonce),
  `wbuf` Framed's buffer, `sched`, `delay`, `closing` the fields of
  `IatCarrier`, `wr` the call in progress. Ciphertext is a sequence of units,
  so that a partial write can split a frame anywhere. A call may be parked,
  polled again or abandoned for another one.
* **`O4Tunnel`** adds the client's read half: the units read past the
  handshake reply, `Framed`'s flags, the decoder's counter and length, the
  residual. Units can be damaged and the connection cut.
* **`ByteStream`**: what a tunnel promises; `O4Tunnel!IsByteStream` is the
  refinement.
* **`O4WireProofs`**, **`O4TunnelProofs`**: lemmas about frames on their way, and
  the theorems of `O4Writer` and `O4Tunnel`.
* **`ServerState`**: `bld` holds the settings of each `ServerBuilder`, with the
  set `ov` of its overridden fields; `cache` is `effective_configuration`,
  `call` a `try_build` between its reads and writes of the file; `file` is what
  readers see and `disk` what a crash may leave, which differ from the rename
  until the directory is synced. `given`, `others` and `acked` record what was
  handed out, who wrote, and what a finished build may rely on.
* **`ServerStateProofs`**: its theorems.
* **`WebTunnel`**: `pc` is the await at which a handshake stands, `timer` the
  timeout around that await, `dial` the resolver asked or the address list and
  the place in it; `buf` and `scan` are the buffer and `HeaderBoundary` of
  `read_upgrade`, `prefix` that of `PrefixStream`, `conn` what is unread on the
  carrier. Bytes are line feed, carriage return, text, and numbered payload.
  `asked` and `over` record queries and abandoned address lists.
* **`WebTunnelProofs`**: its theorems.
* **`PtSetup`**: `env` is what the code reads from `TOR_PT_*`, `phase` and `at`
  the place in `setup_listeners`, `client_setup` and `server_setup`, `lines` what
  was printed, `bound` the listeners and `serving` the ports with an accept
  loop.
* **`Connection`**: `conn` is one task of `client_handle_connection`: where it
  waits, the request it was sent, the options its arguments were turned into, the
  address it dialled, whether the tunnel is up and the parent was told. Every await under a timeout
  has a step in which it fails.
* **`ManagedClient`**: the two together, and their properties.
* **`ClientState`**: `bld` holds each `ClientBuilder` (`own` values, set `ov` of
  overridden fields, kind of path), `call` a `try_build` between its read, write
  and sync, `file` and `disk` as in `ServerState`, `acked` what the last build
  that returned may rely on.
* **`ClientProofs`**: the theorems of `ManagedClient` and `ClientState`.
* **`Logging`**: `run` is the place of each run in `init_logging_recvr` or in the
  drop of its guard, `state` the `LoggingState` behind its mutex, `filters` the
  `EnvFilter`s made so far and `current` the one in force, `callsites` the list
  of known ones with its lock, `active` and `bound` the two thread-locals of
  `ManagedLayer`, `call` the layer call a thread is in. A call reads the filter
  once and uses it later, so a reload may come between the two. `Replay` is what
  the loop of `sync_filter` amounts to.
* **`LoggingProofs`**: its theorems.
* **`Args`**, **`BridgeLine`**, **`AliasTable`**: conversions as operators on
  sequences: escaping and the parsers of `args.rs`, the tokens of a bridge line,
  and the alias tables with exact weights.
* **`HelloWire`**: both hellos as sequences of bytes, read in pieces; marks, MACs
  and keys are symbols, and padding may look like the start of a mark.

`MC*` modules only add symmetry sets and the sets of inputs; `MCLogging` also
compares `Replay` with the loop it stands for. The inputs are the peer's
responses (`MCWebTunnel`), environments and requests (`MCManagedClient`), and in
`MCCodecs` the jobs for the conversions, with the parent's side of
`TOR_PT_SERVER_TRANSPORT_OPTIONS`.

## Runs

| Run | Shows |
|---|---|
| `replay_filter` | replays within the time to live are caught unless as many as the capacity were inserted since; nothing else is reported |
| `handshake` | a hello is accepted once; an honest client is refused only because its clock is off by more than the window, it was slow or its hello was seen; a hello in pieces is not taken for its own replay; the reply it accepts verifies |
| `lifecycle` | no task outlives `run`; permits account for tasks; a dropped run reaches every task and stops it; shutdown completes; a lost listener makes `run` fail, with the cause of a listener lost before the teardown |
| `lifecycle_signals` | expected violation, see below |
| `writer` | bytes reported as written are encoded once; buffer and bursts are bounded, in all IAT modes; flush and shutdown return |
| `tunnel` | the tunnel is an ordered byte stream; flushed bytes arrive without further traffic |
| `server_state` | a state that `try_build` returned survives a crash; between two setters a builder hands out one configuration, through failed writes, failed syncs and retries; a builder does not take its own write for somebody else's |
| `webtunnel` | the system resolver keeps its reserve; an address is left untried only if the earlier ones used the time at a bounded share each; a handshake ends whatever the peer does; a response is recognised however it is split, and the bytes after it come first and complete |
| `codecs` | arguments survive escaping, the split over a SOCKS login and each of the parsers; an accepted bridge line survives being printed; a value is drawn in proportion to its weight; both hellos are found at any split, and nothing behind the reply is lost |
| `client_state` | what a build saved is restored after a crash; a client has the values set explicitly, and for the others those of the arguments or of the file; a bridge's file is not overwritten, unless it came after the build had looked |
| `managed_client` | listeners are served only after `CMETHODS DONE`, all that were announced and no others; dials go where the request of that connection says, never around a proxy; success is reported only with a tunnel; a negotiation ends whatever the peers do |
| `logging` | each thread's level stack in the filter in force follows the spans it is in; every callsite met is registered with the filter in force; a run is refused only while another one with the other mode holds the policy or is being counted |

Bounds. The filter has capacity 2 (1 in `handshake`) with three digests, and the
clock runs past the time to live, so both expiry and eviction happen. The
handshake has three connections, two hellos, a skewed clock and messages in two
pieces. The lifecycle has two listeners and two connections for one permit, so
that a loop waits for a permit while the other's task runs. The writer has frames
of 2+2 units over a connection that holds 2, so every frame is split, few enough
nonces that they run out, a boundary of half a frame, and writes of up to two
frames. The tunnel runs with IAT
off (the modes only change when units leave, not which) and a connection large
enough that the reply, the seed and a payload frame are read at once; the reader
takes one byte at a time, so that the residual is used. The server state has two
builders on one directory, three setter calls, one foreign write, and random
values for one crash or for a seed per resolution: enough for a write by the
other builder, a failed sync and its retry, or an override after an import.
WebTunnel has timeouts from zero to more than four attempts, up to three
addresses, and a task polled up to one unit late; its response buffer has 8
bytes, and there are headers that fill it, exceed it by one, begin with an empty
line or are cut off. The client state has two builders, three setter calls and
two foreign writes, so that a file can change before the read and again before
the write. The conversions take all texts of up to five characters over the
separators, all lines of up to three tokens and those with an ambiguous
transport name up to six, all weights from 0 to 4 in tables of up to four
entries; a login field holds three characters, so that escapes are cut. The
managed client has two connections, method lists with unknown and repeated
names, and requests for both transports on either listener. Logging has two runs
at a time, two threads with two levels of spans, and two spans of two callsites,
of which a filter may care for either, both or none.

Deadlock is not checked: all of these systems may stop, after shutdown, a
stored error or the bounds on inputs.

Fairness. `lifecycle`: the driver, each loop, each cancelled task and the
owner's drop go on while they can (tokio polls what was woken). Connections
need not end by themselves, and neither signals nor accepts need happen.
`writer`: a woken task is polled, timers elapse, the peer reads.
`tunnel`: the reader polls; nothing is assumed of the writer.
`webtunnel`: the clock runs and a task whose timer fired is polled; nothing is
assumed of resolvers and peers. The clock stops `MaxDelay` after a timer that
nobody has served yet: this is the assumption that polls are not arbitrarily
late, and the bounds on time are stated with that delay added.
`managed_client`: timeouts fire and steps that wait for nobody are taken;
neither the parent nor the bridge has to do anything.

## A disagreement with the documentation

`lyrebird/src/lib.rs:458-461` says that on a terminate signal connections are
cancelled at once. Each `select!` of `drive` asks for a new signal receiver
(`lifecycle.rs:105`, `128`), which does not see signals delivered before it was
made. After the first exit cause, a SIGTERM that arrives while the accept loops
are being joined is lost, and the drain lasts until its budget ends
(`lifecycle_signals`).

## Proofs

All for arbitrary constants under the modules' `ASSUME`s, which TLC evaluates
with the runs. Most say what the code's types say. Two are about inputs: the
methods of a client environment are a sequence (`PtSetupConstants`), and a
response of the peer is divided where its header ends (`ResponsesSplit`). No run
checks the inductive invariants; TLC was asked about each of them on the runs'
instances before it was proved.

* `HandshakeProofs`, the filter. The properties of the run are not inductive:
  they need that the queue is the tail of the log of insertions, that the log is
  in the order of its clamped times, that what left the queue left it for age or
  capacity, and that captured times are in the past (`IInv`). One lemma per
  action shows `IInv` preserved; each property then follows from it.
  `FilterConsistent` adds what `garbage_collect` relies on when it stops at the
  first entry that is young enough: the queue is in the order of its times.
* `HandshakeProofs`, the handshake. `HsInv` ties the state of a connection to its
  pending call of the filter and to the hour its hello was stamped with.
  Every step of the handshake is a step of the filter or leaves it alone
  (`FilterStep`), so the filter's `IInv` holds of it; `AcceptedOnce` combines
  `ReplayWindow` with the three-hour window and the assumption that the time to
  live (30 hours in the code) exceeds it. `HonestRefusals` and `RepliesVerify`
  need `FairInv`: what each place of a connection implies of its cause and of the
  hour echoed, that every digest in the log belongs to a connection that got as
  far as the test, and that a connection refused as a replay has another one with
  its hello. A MAC that fails under all three hours is then turned into a bound on
  skew and delay by the arithmetic of hours (`HourBounds`).
* `ClientProofs`, the state file. `CsInv`: an acknowledged configuration is what the file
  holds and all that a crash may leave; a call between read and write has its
  explicit values and, for the rest, those of one file it has read; and unless it
  is marked stale, a call about to write has seen the file that is there, which
  is no bridge's.
* `ClientProofs`, the managed transport. `SetupInv` says for each phase which lines have been
  printed and which listeners bound, as a function of the methods looked at so
  far; `AnnouncedIsServed` needs it because the announcement and the listener of a
  method come long before `CMETHODS DONE`. `TasksInv` says what a connection has
  done by the time it is at its place, that a listener handed it over, and that
  its options are those of its own request.
* `LifecycleProofs`. `PermitsAccountForWork` is inductive once the types are
  known and counting is done with the finite-set theorems. `DropReachesEveryTask`
  and `NothingOutlivesRun` need three more facts (`IInv`): who is inside the two
  locks, and that a running task has its abort handle or is between its spawn
  and its registration (`LockInv`); that past `join_accept_loops` no accept loop
  is left, and past the last join no task (`PhaseInv`); that `RunOwner::drop`
  has set the accept flag before it takes the abort handles, so that a task it
  misses there is aborted by the loop that registers it (`OwnerInv`).
* `O4TunnelProofs`, the write half. `BufferBounded` needs `Backpressure`: a frame is sent only
  into a buffer below the boundary, and a call that has taken a prefix finds the
  buffer at most a segment above it, so that its padding, which `PadCosts` bounds
  by a segment and two headers, still fits. `BurstsAreSpaced` needs `Spacing`:
  what has left since the last delay and what is scheduled are a segment
  together, and a burst is scheduled only after a delay. Both for every segment
  length, boundary, connection and set of lengths. `BytesInOrder` needs
  `PrefixInv`: only a write that is under way has taken a prefix that it has not
  reported yet. The payloads are compared position by position (`InOrder`), so
  that no concatenation of arbitrarily many frames has to be reasoned about.
* `O4TunnelProofs`, the tunnel. `TunnelIsByteStream` is the refinement: under the
  mapping of `O4Tunnel`, every step is one of `ByteStream` or changes nothing of
  it. It rests on `TunnelInv`, whose parts are proved preserved in
  `O4WireProofs`. `GotInv`: what the reader has had, delivered or residual, are the
  first bytes in order, and the frames before the decoder's place hold exactly
  these. `WholeInv`: as long as nothing is cut or damaged there is an offset for
  each frame (`Laid`), such that what the decoder has taken, its buffer, the
  connection and the write buffer are, one behind the other, the units at their
  places (`OnItsWay`); the offsets are quantified, so that no sum over frames is
  needed. `BufInv`, `FramesPlain`, `StageInv` and `CloseInv` tie the buffers,
  frames, the stages of `poll_read` and the shutdown to these. From `WholeInv`
  follows that the end of an unbroken stream is seen only after all of it
  (`EndIsLast`); from `GotInv`, that damage and loss shorten the stream and never
  change it. One step of the decoder takes one frame, so a `poll_read` that takes
  several is several steps, and no induction is needed.
* `ServerStateProofs`. `BuiltStateSurvives`, `OneConfiguration` and
  `ChangeIsForeign` rest on `IInv`: what readers see is among what a crash may
  leave; a call in progress works on the cached configuration (`CallInv`);
  unless others wrote it, the file is what that configuration was resolved
  against, or after the rename that configuration (`FileInv`); and what a
  builder handed out is what it caches (`GivenInv`).
* `WebTunnelProofs`. `EveryAddressGetsItsTurn` needs where the clock stands
  (`ClockInv`): at most the scheduler's delay behind the timer of the attempt,
  which lies within the limit and within the shares of the addresses tried so
  far. `FallbackAsksSystem` needs that the deadline of the first resolver leaves
  the reserve (`ReserveType`). `PayloadArrivesWhole` needs `StreamInv`: until the
  stream is handed out, buffer and carrier together are what the peer sends.
  `HeaderEndIsLeast` and `EndsOfPrefix` show that where the header ends does not
  depend on how much has arrived behind it, which is why any split is right.
* `LoggingProofs`. `EveryCallsiteKnown` needs what is true inside the two locks
  (`IInv`): while a run stands between registering the known callsites and the
  swap, it holds both locks and the newest filter knows them all; while a thread
  registers a callsite, that one is the only one the filter in force may miss.
  `RefusedForCause` needs `PolicyInv`: the safelog guards that are held agree in
  their mode, the count in `LOGGING_STATE` is the number of runs that log or are
  dropping their guard, and a run past the check of the mode agrees with them.
  The lemmas there follow the kinds of step a run takes (goes on, is counted,
  gives up, releases). `LevelsFollowSpans` needs `ScopeInv`: every filter from the
  one in force on has been told of the callsites of all spans there are
  (`ReadyInv`); a thread in a call was never bound to a newer filter than the one
  it works on, and the spans it is in are open and of callsites registered there
  (`CallInv`); a filter has no level for a thread that was not bound to it yet, and
  for one that is, a level for each span it matches, all of which it knows
  (`LevelInv`). That a filter knows them is what makes `on_exit` take off the level
  that `on_enter` put on.

Only model-checked: all liveness (`ShutdownCompletes` and the like), which is out
of the prover's reach; the conversions, whose operators are recursive or folds
over their input and would need induction over data; and `HelloWire`, which is
checked at every split of small hellos.

## Limits

* Handshake: every hello is made by a client with a key of its own, so the
  failures of the key exchange after the MAC (a key that does not contribute) do
  not occur.
* Tunnel: the nonce of a frame is its place in `enc`, so that no nonce is used
  twice is part of the representation and not a result; what is checked is what
  happens when they run out. The length field is one unit; damaged or out of
  step, it reads as any length. The reader may go on after an error, and stops at
  the first end of the stream it is given.
* In paranoid mode padding may overshoot its target, which gives the target up
  and draws a new length. With a length distribution of an unlucky single value
  this could go on; in the model the nonces end it, so `FlushReturns` says
  nothing about how long it takes.
* A tunnel that is dropped without shutdown loses what it has not flushed; the
  tunnel model does not contain that.
* A `ServerBuilder` is used by one caller at a time. Reading the state file is
  one step, although the code first asks whether it exists. The sync of the
  directory is the Unix one (`sync_parent_directory` documents that there is
  none on Windows). Creating the directory, and writing, syncing and renaming the
  temporary file, are one step that succeeds or fails as a whole. `build()`, which wraps an error of `try_build` into a server
  that refuses connections, is not modelled.
* Of WebTunnel, TLS, the DNS library and `httparse` are external; a literal
  address, a name, a valid or an invalid URL are cases of the configuration.
  Writes go straight through to the carrier and are left out.
* Setup: `validate_proxy_url` is not modelled, because `client_setup` refuses
  every proxy before it is parsed. `VERSION` is printed before the offered
  versions are looked at. The experimental server is modelled up to its
  listeners; its connection handler is `unimplemented!()` and its listeners serve
  nothing.
* Connection: a host name that spells an address is the same case as the address
  (`resolve_target_addr` parses it; its comment, `lib.rs:401`, says that domains
  always fail). `connect_to_or` uses the extended ORPort only when no ORPort is
  set (its comment, `helpers.rs:398`, reads the other way round); nothing calls
  it yet. A dial or handshake that fails and one whose time is up are the same
  step, so that the two share one budget is not told apart from a budget each. The
  copying after the reply is one step that may
  end at any time.
* Client state: reading is one step, and so are writing the temporary file and
  renaming it; `write_statefile` is one step with its sync. Nothing in the client builder detects a
  write by another program between its read and its own write, so
  `BridgeFileKept` makes an exception for a file that appeared in between.
* Logging: a subscriber of the host is the global one, not one scoped to a
  thread. Field values are left out, and with them the race between `on_record`
  and the replay of a span. A span is created only after the registration of its
  callsite has returned, as `tracing` does it. Two first runs that start together
  may take each other's subscriber for one of the host; the model has this, and
  the later run then has no filter of its own.
* Conversions: weights are exact, so rounding, the left-over entries it causes, and
  weights that are all zero, are left out. An argument whose key begins with `ARGS:` does not survive
  `parse_smethod_args`, which strips that prefix; such keys are not among the
  inputs.
* Curve arithmetic, key derivation and the DRBG are not modelled: they are
  computations without interleavings. The passthrough transport hands its stream
  on unchanged, and the facade crate only re-exports. Of the stdin watch, its
  result and its place in the shutdown are modelled, not its handling of
  descriptors on each platform.
