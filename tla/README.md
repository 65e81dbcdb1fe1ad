# Elements: a TLA+ model of the engine

Elements evaluates node graphs over 3D fields on the GPU and shows the result
in Blender. An engine process (`elementsd`) keeps a graph loaded, simulates it
frame by frame, and hands frames to the Blender add-on through a memory-mapped
file. This directory models the parts of that system whose correctness depends
on the order of steps: what happens between a failure and the next request,
between two accesses of shared memory, between one frame and another that was
simulated long before.

Contents: [the system](#the-system) · [modules](#modules) ·
[runs](#runs) · [fairness](#fairness) · [proofs](#proofs) ·
[disagreements](#where-code-and-documentation-disagree) ·
[abstractions](#abstractions) · [plan](#plan)

To check it all, in this directory:

    for m in Timeline FrameChannel ChannelFile Session GraphOrder GraphEval \
             AddOn Solver GpuErrors Document Bake VdbTree
    do tlc -config MC$m.cfg MC$m; done

    for m in Timeline FrameChannel Session GraphOrder Solver Growth Document VdbTree
    do tlapm ${m}Proofs.tla; done

## The system

Paths are relative to `src/`; `core`, `ipc`, `ember`, `io` are the crates
`crates/elements-*/src`.

| Component | State it keeps | Operations | Talks to | What makes it correct |
|---|---|---|---|---|
| **Timeline** `core/graph/timeline.rs`, `state.rs` | per-node state, the frame it is entering (`cursor`), an LRU cache of snapshots with its byte count, the protected snapshot, `caching` | `goto`, `reset`, `discard`, `take_warning` | evaluates the graph, borrows the pool | any frame, in any order, is the one forward playback gives; the cache stays within the budget; nothing is simulated twice without need |
| **Frame channel** `ipc/channel.rs`, `addon/.../client.py` | a file: header, sequence number, two buffers | `create`, `publish`; `open`, `read_latest` | engine writes, any process reads, no lock | no reader is given a mixture of frames; a read always returns; a read is never older than its call |
| **Daemon session** `elementsd/daemon.rs`, `main.rs` | graph, timeline, writer, pool, `greeted` | `Hello`, `LoadGraph`, `Render`, `Shutdown` | one client at a time, lock-step | replies are true; a failed command changes nothing; memory is given back when it runs out; a device lost before the read-back is named as such |
| **Control protocol** `ipc/protocol.rs`, `transport.rs` | bytes read so far | `write_message`, `read_message`, bind/accept | socket or named pipe | a bound on what is buffered; no message is read from the middle of another |
| **Blender add-on** `addon/blender_elements` | process, client, reader, live flag, `_last_seq` | start, stop, render, draw handler | spawns and commands the engine, runs the CLI | teardown works from every state; live mode stops on errors that recur; no engine is orphaned |
| **Graph evaluator** `core/graph/mod.rs`, `node.rs` | produced values and their remaining uses, per evaluation | `topological_order`, `eval_frame`, `input`, `take_input` | nodes, pool, state store | sources run first; a value is moved only on its last use; textures return to the pool |
| **GPU layer** `core/gpu` | free textures, open error scopes, stray errors, a batch being recorded | `acquire`, `release`, `clear`, `scoped`, `wait`, `submit` | device | a texture has one owner; an error is reported for what caused it; a lost device outranks everything |
| **Core nodes, emitters, colliders, unions** `core/nodes`, `ember/unions.rs`, `shape_emitter.rs` | a sum over time (`accumulate`) | `eval` | GPU kernels, the pool | what a node takes it gives back, whichever call fails |
| **Solver** `ember/solver.rs`, `cfl.rs`, `kernels` | six to eleven state slots, the textures a substep retires, a batch being recorded | `eval`: take state, inputs, substeps, outputs, put state | pool, GPU | no texture is reused while recorded work uses it, none is read before it is written, a failed step leaves no state, the CFL number is kept |
| **Documents** `core/graph/document.rs`, `registry.rs` | the graph being built | `from_json`, `validate_for`, `into_graph` | daemon, command line | what is loaded is what the file says, well typed, and above no limit of the device |
| **Command line** `elements-cli` | output directory | `bake`, `render-preview`, `dump-npy` | documents, timeline, file writers | a bake that succeeds is complete; one that fails leaves no half file among whole ones |
| **Files** `io` | none | VDB, NPY, PNG writers | | each voxel comes back at its place; the offsets of a file of several grids are right |

How they interact: the add-on starts the daemon, waits for `ready`, and sends
one command at a time. `LoadGraph` builds a graph, reallocates the channel file
in place when the resolution changes, and replaces the timeline. `Render` runs
`Timeline::goto`, reads the field back, publishes it, and answers with the
sequence number; the add-on then reads the file. Everything in the daemon runs
on one thread. Concurrency is between the daemon and readers of the file, and
between both and the GPU device, which can fail any operation and be lost at
any time.

On Blender's side everything runs on one thread too, but the engine it talks to
may die or hang between a request and its answer, and another Blender may be
given the same channel file.

The hard behaviours, each with its line and the properties that watch it, are
listed under `hazards` in `PROJECT.json`: evaluations and restores that fail
part-way, state of another resolution met after scrubbing, eviction at a full
cache, counters at their limit, the seqlock's races, reallocation under a
mapping, a device lost between two steps of a render, values read by several
nodes of which one takes them, graphs whose cycles the search can reach from
more than one side, textures retired while recorded work still reads them, an
error raised between two calls, teardown of an engine that has died, and a
command that fails in the middle of writing a file.

## Modules

`Playback` <- `Timeline` <- `MCTimeline`, `TimelineProofs`;
`FrameRegister` <- `FrameChannel` <- `MCFrameChannel`, `FrameChannelProofs`;
`ChannelFile` <- `MCChannelFile`, `FrameChannelProofs`;
`Session` <- `MCSession`, `SessionProofs`;
`GraphOrder` <- `MCGraphOrder`, `GraphOrderProofs`;
`GraphEval` <- `MCGraphEval`, `GraphOrderProofs`;
`Kernels` <- `Multigrid`, and with `Substeps` <- `Solver` <- `MCSolver`,
`SolverProofs` <- `GrowthProofs`; `GpuErrors` <- `MCGpuErrors`, `SessionProofs`;
`Document` <- `MCDocument`, `DocumentProofs`, and <- `Bake` <- `MCBake`,
`DocumentProofs`;
`AddOn` <- `MCAddOn`, `SessionProofs`; `VdbTree` <- `MCVdbTree`, `VdbTreeProofs`.

A proof module with several components in it extends them all, so that those
after the first give state and actions names of their own: `FileNext`,
`EvalNext`, `BakeNext`, `GpuNext`, `AddOnNext`.

The layers meet at named facts. `GraphEval` numbers nodes by their place in the
evaluation order and assumes of it what `GraphOrder` proves (sources first, each
node once, everything needed). `Timeline` treats one evaluation as a step that
succeeds or fails part-way; `GraphEval` has the inside of that step, and
`Solver` the inside of its longest node. What makes one of them fail, and what
the failure is called, is `GpuErrors`. `Session` treats `goto` and `publish` as
steps; `Timeline` and `FrameChannel` have theirs. `FrameChannel` is one file
while nobody resizes it; `ChannelFile` is the file being made, and made again.
`AddOn` has the engine as something that answers, refuses, dies or hangs, and
`Session` is why the answers are true. `Bake` extends `Document`, so each
command starts with the real steps of loading; `Timeline::goto` is a step in it,
and the inside of a file it writes is `VdbTree`.

A definition whose comment begins with "Faulty variant of" is not part of any
specification: it is that definition as a plausible bug would have it, and
`mutants` in `PROJECT.json` names the property that catches it.

### Timeline and Playback

`Timeline` has one variable per field of the struct (`state`, `cursor`,
`cache`, `cacheBytes`, `protected`, `caching`, `warning`, `steps`), and `pc`,
`call`, `error`, `result` for a `goto` in progress. `clock` and `last_used`
only order the entries, so they are the relation `older`.

| Code | Actions |
|---|---|
| `goto`: clamping, the stateless branch, the one retry | `Goto`, `EvalStateless`, `Retry` |
| `advance`: clearing after an error | `GiveUp`, and `AbandonState` in `Retry` (its `clear` and cursor reset are subsumed by `reset`) |
| `advance_inner`: where to start | `KeepHeld`, `Restore`, `RestoreFails`, `StartOver` |
| `step`: snapshot, then evaluate | `TakeSnapshot`, `SnapshotFails`, `SkipSnapshot`, `EvalSucceeds`, `EvalFails`, `ShapeMismatch` |
| `insert` | `DisableCaching`, `Evict` (one per victim), `DropSnapshot`, `StoreSnapshot` |
| `reset`, `discard`, `take_warning` | `Reset`, `Discard`, `TakeWarning` |

A node's state is the sequence of frames whose evaluation produced it and the
resolution they ran at. Two states with the same history are bit-identical, and
nothing else is said about fields. `EvalFails` is general: evaluation stops at
any node, the nodes before it have put their new state back, and the node
itself may have lost the state it took. `ShapeMismatch` is `take_state` finding
another resolution.

`Playback` is what the doc comment of `Timeline` promises: a request is
answered with the output forward playback gives, or with an error; history has
no part in it. `ImplementsPlayback` is the refinement, with `request` the call
in progress and `reply` its result.

### FrameChannel and FrameRegister

The sequence number is atomic; a buffer is copied word by word, in any order,
by `CopyIn` and `CopyOut`. Publish k writes k in every word. `BeginPublish`,
`CopyIn`, `StoreSeq` are `publish`; `BeginRead`, `Sample`, `CopyOut`,
`Resample`, `Compare` are `read_latest`, with its three tries.

The constant `LoadsInOrder` chooses the outcomes of the data race the module
docs of `channel.rs` describe. TRUE: each thread's accesses take effect in
program order, as on x86. FALSE: the loads of the copy may be satisfied after
the acquire load that follows them. Stores stay in order in both, since the
release store orders them.

`FrameRegister` is the promise: a read returns, whole, a frame that was the
latest at some moment of the read, and gives up only if the writer published at
least once per try. What is read under number 0 is left open there, and is the
subject of disagreement 2 below.

### Session

One step per handler, except `render`, which is `GotoSucceeds` or `GotoFails`,
then `ReadBack` or `ReadBackFails`, then `Publish`, so that the device can be
lost between them. `LoadOnThisChannel`, `LoadOnNewChannel`, `CreateFails` and
`RejectDocument` are the outcomes of `load`; `Recover` is `recover`. `serve`'s
loop is `Connect`, `Send`, `Disconnect`, and the reply that every handler
gives. `acked` is a history variable: the document the client last saw
confirmed.

A GPU failure has any of three kinds (`GpuKinds`), whatever has become of the
device: that is what `gpu_kind` and `map_node_error` make of a `GpuError`, which
may be a lost device (a failed poll), or a `Validation` on a device long gone (a
map that fails, as in `ReduceTarget::read`). `GotoFails` answers it as it is;
only `ReadBackFails` asks the device first (`AskDevice`).

`CreateFailures` says where `FrameWriter::create` can fail. `"open"` is
everything up to opening the file. `"set_len"` is after the file has been
truncated.

### GraphOrder

`topological_order` and `evaluation_order`, at the granularity of one turn of a
loop. `sources` and `targets` are the graph; `stack` holds the code's
`(node, sources_done)` pairs.

| Code | Actions |
|---|---|
| `for &node in &ids` | `Start`; `Ordered` when no node is left |
| a pair with the flag unset | `Enter`, `Revisit`, or `FindCycle` when the node is in progress |
| the loop over `sources_of(node)` | `PushSource`, `PassSource`, `FindCycle`, `EndScan` |
| a pair with the flag set | `Leave` |
| marking what is needed, then filtering the order | `Need`, `Marked`, `Select`, `Selected` |

### GraphEval

`eval_frame` and `run`, with what nodes do through `EvalCtx` and what the pool
does for them, down to the GPU calls that can fail. `holds` says which place
owns each texture: the pool, the map of produced values, the running node's
inputs, outputs and kept state, the state store, the caller, or `Lost`, for a
texture that was dropped and not released.

| Code | Actions |
|---|---|
| `eval_frame`: counting uses; draining on error; handing over | `Begin`, `Abort`, `Deliver`, `LacksResult` |
| `run`: a fresh context for the next node | `EnterNode`, in `Begin` and `Publish` |
| `take_state`, the zero state of a first frame | `TakeState`, `TakeStateFails` |
| `take_input` | `TakeInput` (moved), `CopyInput`, `CopyInputFails`, `MissingInput` |
| a node's own checks and work | `IncompletePair`, `Compute`, `ComputeFails` |
| its outputs | `MakeOutput`, `AcquireOutputFails`, `CopyOutputFails`, `FillFails`, `Made` |
| `run` after a node: `consume`, filing and releasing | `Publish` |
| `Evaluated::release_to`, `StateStore::clear` | `ReleaseEvaluated`, `ClearState` |

Nine node kinds stand for the registered ones. They differ in what they take,
borrow, keep, and drop on failure: `constant`, `accumulate`, `output`,
`collider`, `collider_union`, `emitter`, `emitter_union`, `solver`, and
`pick_second`, the kind `elements-core/tests/fan_out.rs` registers to borrow an
input with `EvalCtx::input`, which every node may do and no shipped kind does
yet. `Err(got, gone)` is every error return of a node: `got` is what the failed
call had acquired, `gone` what the code drops. A field made only if it is wanted
(an emitter's fuel, a union's) is `OnDemand`.

### ChannelFile

`len`, `header`, `number` (the header's `seq`) and `words` are the file; a header is stored and loaded
one field at a time, and a word remembers the file and the publish that wrote
it. An access past the end of the file is a `fault` (the bus error of a
mapping made when the file was longer).

| Code | Actions |
|---|---|
| `FrameWriter::create`: open with `truncate`, `set_len`, the header's stores | `Truncate`, `SetLen`, `StoreField` |
| `publish` | `BeginFrame`, `CopyWordIn`, `StoreNumber` |
| `FrameReader::open`: map, load the header, validate | `Open`, `LoadForOpen`, `Validate` |
| `read_latest`: header again, geometry, samples, copy | `ReadLatest`, `LoadForCheck`, `CompareGeometry`, `SampleNumber`, `CopyWordOut`, `SampleAgain` |

The constant `Racing` says who the readers are. FALSE: a client that sends
`LoadGraph` and uses the file only after the answer, as the add-on does; only
the first making of a file overlaps an open. TRUE: any process, at any time.

### AddOn

`process`, `client` and `reader` are `ops._state`; `op` is the call Blender has
made and `place` where it has got to. A request and its reply are two steps, so an
engine can die or hang between them. An engine is the number of its start.

`channel` is the file's header, with who stored its number; `own` and `other`
are the counts of the two writers that may hold the file, the add-on's engine
and another Blender's. Each stores its own count when it publishes, and each
`create` (`LoadAnswered`, `Reallocated`) makes the file anew and begins at 0, so
one number can stand for several frames. `read_seq` is what `read_latest`
returned and `last_seq` is `_last_seq`, both with the writer, which the code does
not know; `volume` says whether what is shown is the frame rendered last.

| Code | Actions |
|---|---|
| `shutdown_engine` | `CloseReader`, `SayGoodbye`, `GoodbyeAnswered`, `Reap` |
| `ELEMENTS_OT_start_engine`, `start_engine` | `StartEngine`, `SpawnFails`, `Spawn`, `Ready`, `NotReady`, `Hello`, `HelloAnswered`, `SendLoad`, `LoadAnswered`, `OpenReader` |
| stop, enable and disable, the Live button | `Stop`, `Disable`, `Enable`, `ToggleLive` |
| `render_frame`, `_on_draw` | `RenderFrame`, `OnDraw`, `Render`, `RenderAnswered`, `Read`, `Reopen`, `Skip`, `Push` |
| what the add-on does not control | `Die`, `Hang`; `Reallocated` and `PublishedByOther` (another Blender given the same channel) |

`EndWith` is where an operator returns or lets an exception escape, and where
the draw handler swallows it and turns Live off. An `ElementsError` and an
`OSError` are told apart, since the code's `suppress` is.

### Document

The reading of a file, check by check, in the code's order: the first fault met
refuses it, by name. `FromJson` is `from_json` (version, names, fps, domain),
`ValidateFor` the buffer limits, `AddNode` one turn of the loop with
`registry.build`, `CheckOutput`, `Connect` one edge, `SetOutput`, `CheckExtra`
one extra output, `SetExtras`, and `Accept` the daemon's own comparison with the
texture limit, which the command line does not make. Node ids and sockets are
any numbers, as in the file.

### GpuErrors

A call is a sequence of steps (`Steps`), and a step inside `scoped` runs its
closure (`RunScoped`: any set of errors) and then pops the scopes and takes the
stray slot (`Resolve`, `TakeStray`). `RaiseStray` is the uncaptured-error
handler, `Lose` the device-lost callback, `Wait` is `poll` and the result its
map callback has brought by then.
`GetOrCreate` is the pipeline cache, `Reuse`, `Allocate`, `Release`, `Clear` the
pool, `Use` a submission or a read-back. `owed` and `broken` are history
variables: errors raised and not yet reported, things made under an error.

### Kernels, Multigrid, Substeps and Solver

A frame of the solver is a fixed sequence of operations for a given mode (its
parameters and connected sockets), so it is written as a program: `Kernels`
and `Multigrid` say of every dispatch which fields it reads and writes, `Solver`
assembles them in the order the host records them (`FirstState`, `Enter`,
`Substep`, `Leave`, `Cleanup`), and runs the result one instruction at a time,
any of which may fail where the code can. A name is bound to a texture; the pool
hands out the texture returned last, so a texture given back too early is at
once somebody else's.

| Code | Actions |
|---|---|
| `eval`, `take_state` | `Refuse`, `StartZeroed`, `TakeState`, `StateShape` |
| `pool.acquire`, inputs, the slots of a reduction | `AcquireField`, `TakeInput`, `NewSlots` |
| `DispatchBatch::add`, `flush`, `submit`, a dispatch on its own | `Record`, `FlushBatch`, `SubmitBatch`, `RunOne` |
| `Substep::retire`, replacing a field, `release` | `RetireFields`, `ReplaceField`, `ReleaseFields` |
| `measure` and `plan_substeps` | `MeasureSpeed` (`Substeps`) |
| `put_state` | `Put` |
| every error return, then `abandon` and what `eval` gives back | `Fail`, then `RetireLocals`, `Wait`, `Discard` |

An instruction names the locals that its failure drops and those it gives back
at once; the others are retired, as in the code's error arms.

### Bake

`StartCommand` draws a kind and an output directory that earlier commands have
written to; `LoadStep` is `Document`'s `Load`. `Loaded` checks the expanded
names, `MakeDirectory` comes after, then for each frame `Evaluate`,
`ReadResult`, `ReleaseResult`, `ReadExtra`, `EndReading`, and
`Prepare`, `Create`, `WriteGrid` (or `WriteSlice`), `EndFile`, with `Remove` for
a file of several grids that could not be finished. Each has its failure.
`Interrupt` ends the process between any two steps.

A file is who wrote it and the grids complete in it. `Zipped` is the code's
`zip` of names and grids, cut to the shorter. What a frame is owed (`Due`) is
said without it, from the document's outputs and the types of their sockets.
`unremovable` is a history variable: `remove_file` itself has failed.

### VdbTree

`Check` is what is refused before there is a file: no grids, a field too large,
a name given twice, values for another resolution (the last two are choices,
since names and lengths are the caller's).
`AddVoxel` is one turn of `build_tree`'s loop, with the offset functions of
`tree.rs`; `Describe`, `WriteTopology`, `WriteData` are `write_float_grids` with
its patched positions. `Open` to `EndData` are the reader in the vendored
`vdb-rs`, which the tests use; it knows only the file. A position counts items
(a mask, a leaf, a header) rather than bytes.

## Runs

| Run | States | Question |
|---|---|---|
| `timeline` | 53,518 | is every answer exact, the cache sound, and does `goto` return? |
| `frame_channel` | 5,593 | is the channel an atomic register where loads are in order? |
| `channel_file` | 803,401 | is a client that waits for its load safe when the file is made again? |
| `session` | 7,064 | are replies true, and does failure change nothing? |
| `graph_order` | 192,015 | is every small graph ordered rightly, or its cycle named? |
| `graph_eval` | 49,910 | is every value there when read, and back in the pool after? |
| `solver` | 1,175,925 | is a texture ever used by two at once, lost, or read unwritten? |
| `gpu_errors` | 1,973,856 | is every error reported, once, and for what caused it? |
| `document` | 34,836 | is a loaded graph the file's, well typed, and above no limit? |
| `bake` | 82,330 | is a bake that succeeds complete, and one that fails clean? |
| `add_on` | 274,236 | is an engine ever lost sight of, and does every call return? |
| `vdb` | 6,051 | does every voxel come back at its place? |

Several properties are conjunctions of named parts; each part is a definition of
its own, with its own comment, next to the property, and can be checked alone.

**timeline.** Frames 0..4, start frame 1, so that 0 is clamped and 4 stands
for `u32::MAX`, past which the cursor is `None`. Two stateful nodes, because a
failure between them leaves one advanced and one not. Three resolutions whose
snapshots take 2, 4 and 6 bytes against a budget of 5: two small snapshots fit,
a large one fits alone, a small one does not fit beside a large one (so
`DropSnapshot` occurs when the large one is protected), and a huge one never
fits. Four frames are enough for a snapshot before, at, and beyond the held
frame with eviction in between. There is no bound on the number of calls: the
state space is finite because `steps` restarts with each call.

- `StatesAreExact`: what is held (`HeldStateIsExact`) and cached
  (`CacheIsExact`) is what forward playback has, and `StateShape` never reaches
  the caller (`RetryFindsNoStaleState`).
- `CacheAccounting`: `cache_bytes` is the sum of what is held and within the
  budget, so its unsigned subtraction never wraps.
- `ProtectedSurvivesEviction`, `NoFrameIsRecomputed`: what a step may never do.
- `GotoReturns`, `ImplementsPlayback`: an answer comes, and it is the right one.

**frame_channel.** Frames of two words (one cannot be torn), five publishes:
two to alternate the buffers, one more for each further try that is lapped, so
a reader can be lapped at all three tries and read again. One reader:
readers do not write, so none can influence another, and the proofs cover any
set of readers. `MaxSeq` bounds the publishes; the code's number is 64 bits
wide and never wraps in practice.

**channel_file.** Resolutions 1x2 and 2x1, which have one size and different
extents, and 1x1, which shrinks the file. Three files, three frames in each, and
two tries per read instead of three, since one retry is what tells a retry from
none.

- `FrameIsWhole`: what a read returns is one publish of one file, of the size
  the reader believes in.
- `RemadeFileIsSafe`: an old reader never touches memory past the end
  (`NeverFaults`) and is told to reopen (`StaleReaderIsTold`), also when the
  size has not changed.
- `CompleteFileOpens`: an open that overlaps the first making of a file is
  refused only while it is being made.

**session.** Four documents: two of one resolution (the channel is kept), one
of another (it is reallocated), one that is refused; both a stateful and a
stateless graph. Frames before the start, at it, at the span limit, and past
it. Three frames per channel (`MaxSeq`, in `Send`). `CreateFailures` is
`{"open"}`; see disagreement 3 for the other case, after which the process is
dead and no property means anything. `RepliesAreTrue` joins that a `Frame`
reply is true of the file and the request (`FrameReplyIsExact`) and that session
and client agree between commands (`SessionMatchesReplies`).
`OutOfMemoryFreesMemory` needs the timeline emptied before the pool.
`LostDeviceIsReported` is about a frame lost with its device in the read-back,
and about the timeline letting go of a device reported lost, by either arm; an
error of `goto` is as disagreement 15 says. `CommandIsAnswered` says nothing of
how long `goto` takes, which is one step here.

**graph_order.** Every graph of three nodes with up to two inputs each (loops
and double edges included), any output, with or without one extra output. Three
nodes are enough for a tail into a cycle of two, a diamond without its fourth
corner (a node pushed twice before it is entered), and a node no target needs.

- `PlanIsSound`: the order runs sources first while it grows, repeats nothing,
  and what is kept of it is exactly what the targets depend on.
- `CyclesAreReported`: every cycle is found, needed or not, and the node the
  error names is on it.
- `Terminates`: the search ends on every graph.

**graph_eval.** Thirteen graphs, one for each way values are shared: a fan-out
with a borrow, both inputs from one socket, state that is also exported, state
acquired after a release, unions of colliders and of emitters with some inputs
unconnected and one node feeding several of them, fuel that is wanted and fuel
that is not, a solver with and without its velocity wanted, a missing input,
half of a pair, and an extra output behind the result. Each evaluates any number
of frames, with `MaxFailures` = 2 failures among them: one to lose something,
another in the evaluation that recovers.

- `UsesAreExact`: the use count is the number of uses left at every moment, so a
  value is there for every reader and for no longer.
- `CopyIsNeeded`: nothing is copied that could be moved.
- `NothingStranded`: every texture ever created is in exactly one place
  (`OneOwner`, `AllOwned`); between evaluations that place is the pool or the
  store, and a texture is lost only to a GPU failure or a sum without an input.
- `RecyclesEverything`: a graph that has run once with full state creates no
  texture again.
- `EveryFrameReturns`: an evaluation ends.

**solver.** Six modes which between them take every branch of the program: three
pressure solves, with and without fire, surface, collider, wind, vorticity,
MacCormack and mass conservation, and a set of sockets the node refuses. Two
frames of up to two substeps, since a texture's next owner may be in the next
substep or the next frame, with one failure at any instruction of either.
Speeds 1, 3 and 5 against a CFL number of 1 or 2 give plans below, at and above
`max_substeps`, and above the count's saturation (`MaxCount`, for `u32::MAX`).

- `EveryTextureHasItsPlace`: each texture made is in one place, and between
  frames nothing of a step is left over.
- `ReadsAreWritten`: no dispatch reads what nobody has written since the texture
  left the pool.
- `WorkKeepsItsFields`: what submitted work uses has no other owner by then.
- `SlotsHoldAFinishedStep`, `NoGrowth`, `SubstepsKeepCfl`.

**gpu_errors.** Two keys and two sources, so that a key can be asked for with
another source; two textures, so that one can fail while another is held. Any
errors, in and between calls; the number of calls is not bounded.

- `KeptThingsAreSound`: nothing made under an error is in the cache or the pool,
  and a pipeline is of the source asked for.
- `ReportsAreExact`: an error is never hidden (`NothingIsHidden`) and never
  reported twice (`ReportedOnce`).

**document.** Every pair of nodes of three kinds, faulty ones included, with up
to two edges and two outputs; every resolution from 0x0x0 to 6x6x6 against a
texture limit of 4 and a buffer of 256 bytes with rows of 16, so that each limit
is met exactly, passed, and passed only by the padding.

- `LoadedGraphIsSound`: the graph is well typed at each moment of a load and
  complete at its end.
- `LoadedSizesAreWithinLimits`: the staging buffer of the result fits
  (`LoadedCanBeReadBack`), and of the documents the daemon accepts only those
  with a zero axis fail at a texture, faces included (`OnlyZeroAxesFailLater`).
  Zero axes and the staging buffer of a face are disagreements 16 and 13.

**bake.** Two commands over one directory, so the second meets what the first
left; frames 0..2 with start frame 1, so that a range reaches below it; six
documents, with no outputs, a vector among them, names that clash once
expanded, names that clash at once, and a field too large for a tree.

- `BakedFilesAreRight`: a bake that succeeded has written every frame itself, with
  each grid the document asks for (`SuccessIsComplete`); and in a bake's file,
  finished or not, is nothing that is not due there, and nothing twice
  (`GridsAreNamed`). An output lost or doubled between the names and the grids,
  which `zip` would hide and a `debug_assert` sees in tests only, breaks one or
  the other.
- `EndsCleanly`: one that did not succeed stops at one frame (`EndsInOnePlace`),
  holds no value (`ValuesReturn`), and if refused has touched nothing
  (`ClashIsRefusedFirst`). With named outputs, an error leaves no partial file
  unless `remove_file` fails (`NoPartialFile`). A bake of the result alone, and
  an interrupt, may leave one, at the frame where the loop stopped.

**add_on.** Two engines, so that one can be replaced; two frames of each, and of
another Blender's engine after each of its loads; two resolutions; `CanHang` TRUE.

- `HandlesAreTrue`: no engine runs that the add-on has lost sight of, and
  process, client and reader agree.
- `OnlyOtherWritersSkip`: a redraw that reports no error shows the frame just
  rendered, unless one of the two numbers it compared was stored by another
  writer: an engine replaced since, or another Blender's.
- `OperatorReturns`: every call ends, unless an engine hangs.

**vdb.** Leaves of 2 voxels, internal nodes of 4 and a root child of 8 stand for
8, 128 and 4096: every resolution up to 5 along an axis crosses two of the
boundaries, some reach the root child's edge, two pass it; an axis may be 0.
Files of no, one and two grids. `FileIsTheField` has three parts that matter:
voxels never share a place, the reader meets what it expects at every position,
and reads each grid back with each value at its coordinates.

Deadlock is checked in `timeline`, `frame_channel`, `session`, `graph_eval`,
`gpu_errors`, `document` and `add_on`. `graph_order` and `vdb` are algorithms
that end; `solver`, `bake` and `channel_file` stop at the bounds on frames,
commands and files.

## Fairness

- `Timeline`: `WF_vars(Work)`. `goto` runs on its caller's thread, and each GPU
  call in it returns with a result or an error (`GpuContext::wait` polls until
  the work is done). Nothing is assumed of the caller.
- `FrameChannel`: weak fairness of each reader's own steps, since a reader
  inside `read_latest` is a running thread. None for the writer, which may stop
  half-way through a frame.
- `GraphOrder`: `WF_vars(Next)`, and `GraphEval`: `WF_evalVars(Evaluate)`. Both are
  loops on one thread; GPU calls return. When to evaluate again is the caller's
  business and not assumed.
- `Session`: `WF_vars(Handle)`. The daemon has one thread, and no handler waits
  for the client. Nothing is assumed of clients or of the device.
- `AddOn`: `WF_addOnVars(Continue)`. Blender's thread runs, and a read from an engine
  that has died returns. Nothing is assumed of engines: `OperatorReturns` asks
  nothing of a call whose engine hangs, because the code has no timeout there.

The other modules state safety only: `ChannelFile`'s progress is
`FrameChannel`'s, and the rest are straight-line programs, each of whose steps
ends.

## Proofs

TLAPS checks each theorem for every value of the constants, under the modules'
`ASSUME`s, which state types and the bounds the code's own constants have.

**TimelineProofs.** `Inductive` is `TypeOK`, `HeldStateIsExact`, `CacheIsExact`
and three facts that make them inductive: a call's frame is clamped; while
stepping, the cursor is at or before the frame called for (so `EvalSucceeds`
advances it by one and the history grows by exactly that frame); and after a
retry everything held and cached has the call's resolution (so no second
mismatch). Each action has a lemma (`RestoreStep`, `EvictStep`, ...),
`StepInductive` combines them. `EvaluationAdvances` is the heart: evaluating
frame f in the state that enters f gives the state that enters f + 1. From
`Inductive` follow `StatesAlwaysExact` with its parts (`HeldStateCorrect`,
`CacheCorrect`, `RetrySuffices`), `ProtectionHolds` (an action property) and
`PlaybackRefinement`.

`AccountIsExact` speaks of a sum over the cached frames. `Sums` describes the
partial sums of any assignment of bytes to frames; that they exist, are unique,
and change by exactly the entry that `Evict` or `StoreSnapshot` changes is shown
by taking the least frame where it would fail. The invariant adds that a
snapshot about to be inserted is not cached yet (`InsertsAfresh`), so that no
entry is counted twice. `HitsAreUsed` needs that while a frame is stepped, no
snapshot lies between it and the frame asked for (`Nearest`).

**FrameChannelProofs.** The theorems about `FrameChannel` have the premise
`LoadsInOrder`; disagreement 1 shows that it cannot be dropped. The invariant says that the
buffer readers are directed to holds the latest frame in every word, that the
other holds a prefix of the next one, and that a reader whose first sample is
still current has copied only words of that frame. From it follow
`ChannelTypeCorrect`, `NoTornFrameReturned` and `RegisterRefinement`.

Those about `ChannelFile` have the premise `~Racing`, a client that waits for
the answer to its load; disagreements 11 and 12 show what it rules out. They
hold for any extents, any number of files, frames and tries. `FileInductive`
says what there is of the file at each step of its making (`FileSoFar`), that
the latest frame is whole in one buffer and the next is a prefix in the other
(`WordsSoFar`), that each field a reader has loaded is the file's or, while it
is being made, still zero (`LoadedSoFar`), and so that what the reader believes
a buffer to be is the file's buffer or nothing (`CopiedSoFar`). From it follow
`ReadsOneFrame`, `RemakingIsSafe` and the action property `OpenSucceeds`.

**SessionProofs.** `Inductive` adds to the properties that session and client
agree on the document in the middle of a render too, that the evaluated frame
is of the pending request, and that the writer's dims and number are the
file's whenever the file is usable. From it follow `RepliesAlwaysTrue` with
`FrameRepliesAreExact` and `SessionsMatchReplies`, and `OutOfMemoryRecovers`.
They hold for every `CreateFailures`, the fatal one included: the dead process
answers nothing. `LostDevicesAreReported` needs that nothing but the read-back
replies at its point of a render, that its arm asks the device, and that every
step that answers with a lost device has passed `recover`.

**GraphOrderProofs.** For any number of nodes and any edges. `CyclesAreFound`
and `CulpritIsOnCycle` speak of reachability, which is a least fixed point and
not a recursion (`Upstream`), so that two facts suffice about it: it is closed
under sources (`FeedersClosed`), and it is inside any closed set. The invariant
has three layers. Marks, order and stack agree (`DoneIsOrdered`,
`InProgressIsReady`, `ReadyOnce`, `EnteringIsLast`). Every looked-at source of a
ready entry is done or above it (`Covered`); when the entry is on top, all of
its sources are done, which gives `Respects(order)` at `Leave`. Everything above
a ready entry feeds it (`Chain`); so a source found in progress closes a real
cycle, which gives `CulpritIsOnCycle` at `FindCycle`. A finished order that
respects its sources and holds every node excludes cycles: the nodes up to a
position are closed under sources, so no node is upstream of itself.
`SelectionInvariant` says that what is found stays between the targets and
their upstream, and closed once nothing is pending, which gives `PlanExact`.
`PlanAlwaysSound` and `CyclesAlwaysReported` gather them. `NoneMetInProgress`,
which no run checks, says that the arm for popping a node in progress is dead.

`GraphEval` is proved for any set of graphs that run sources first, of any
number of nodes of the nine kinds, any extra outputs and any number of
evaluations and failures. Its invariant `EvalInductive` has three groups.
`remaining` is the number of uses still to come (`RemainingIsExact`), so a value
is there for each of them (`UsedIsThere`) and gone after the last
(`NothingKeptInVain`); the induction is on the node at work, since `Publish`
takes off the count just the uses that were the node's own. What a node
has taken, made and will put away is where its phase says
(`TakenIsInHand`, `WantedIsMade`, `ElsewhereIsEmpty`, `NothingInTheWay`), so no
step overwrites a texture. And every step either draws textures that only the
pool holds or nobody yet (`Numbered`), or sends what is at each place to one
other: `Moving` turns that into `OneOwner`, `Keeping` into `AllOwned`. From it follow
`UsesStayExact`, `NothingIsStranded` and the action property `CopiesAreNeeded`.

`RecyclesEverything` compares an evaluation with an earlier one, so its invariant
`Recycling` speaks of neither: what is in use at a point of a frame (of each
shape, by values with uses left, by the node at work, and by stored state) is a
function of the graph and the point (`Due`), whether the frame is the first or
the tenth, as long as every store is full. A full-state frame that completes has
passed every point, so at least that many textures exist (`Room`), and while
nothing is lost they stay (`RoomStays`). If a shape were missing from the pool
when a step acquires it, all textures of the shape would be in use, one fewer
than the point after it needs, and there is room for that (`PoolServes`).
There is a lemma for each action; the conclusion is `EverythingIsRecycled`.

**SessionProofs, of AddOn.** `NoOrphans` and `HandlesAgree` are not inductive:
what the handles may be depends on how far a call has come. `HandlesByPlace`
says, for each `place`, which of the three are there (from "spawn" on none is,
until the ready line; in a teardown only those not yet dropped), `LastStarted`
that the recorded process is the last one started, `NumbersByAge` that a number
seen that is the engine's own is no later than its count. The steps fall into
`UserCalls`, `TearingDown`, `StartingUp` and `ShowingAFrame`. From it follow
`HandlesAlwaysTrue` with its parts, and `OnlyAnotherWriterSkips`, which needs
that a redraw ends in one of a few steps (`RedrawEnds`). `DrawLoopIsSafe`: no
exception reaches Blender's draw loop.

**DocumentProofs.** A check in the middle of a load is still true at the end
only because later steps change other parts. `Progress` says how much of the
document the graph has at each stage, `Checked` which checks have been passed.
From them follow `LoadedGraphAlwaysSound` (typed, ownable outputs, nothing
dropped) and `LoadedSizesAlwaysWithinLimits`, with its parts `StagingAlwaysFits`
and `TexturesAlwaysFit`. The first part is arithmetic: `RowsArePadded` (the
smallest multiple of the alignment), `LastRowIsLast`, `RowsFit`, for every limit
and alignment; the second that an extent and its face are between 1 and the
limit unless the extent is 0.

`Bake` is proved on top of it, for any documents, names, ranges and number of
commands over one directory. `BakeInductive` says of each frame before the
loop's that its file is whole, this command's and right (`FilesSoFar`,
`RightFile`), of the loop's own how far it has got (`ThisFile`), of the values
which are still held (`HeldIsLeft`), and that the grids gathered so far stand in
the order of their names (`GridsSoFar`, `Match`). The names are built one output
at a time: `NamesUpTo` is that function, and the lemmas on it say that each
output gets its name, with an axis added for each component of a vector. That
the two lists zipped together have the same length and order is the point
(`ZippedShape`): the grids read from the first k values are the names of the
first k outputs in turn, by induction on k as a least counterexample, since both
go by the type of the same socket. What a file is owed is said output by output,
so it is compared with the zip the same way (`DueUpTo`), and names that differ
make the grids differ. From it follow `BakesAreRight` and `CommandsEndCleanly`.

**SessionProofs, of GpuErrors.** `GpuInductive` is the invariant, and `Accounted` its heart: what is owed is in the
scopes or no more severe than the stray error, so that emptying both with one
report neither hides nor repeats anything. `MakingIsNotKept` says that the object
of the call in progress is not yet in the cache or the pool. From them follow
`KeptThingsAlwaysSound`, `ReportsAlwaysExact` and `ErrorsStayWithTheirCall`.

**SolverProofs.** `CeilingIsLeast` and `PlanIsLeast` are facts of the plan for
every speed; `Planned` says that while substeps run, the plan is the one of the
speed measured and what is left is at most its count. `CflAlwaysKept` holds in
every mode and for every cap below the saturation point.

Who owns a texture, and what it holds, is proved for any set of modes, with any
number of sweeps and iterations, and failures anywhere. The difficulty is that
the program is data: a mode's sequence of instructions, hundreds long and as
long as the parameters ask. So the proof first reads the program. A `View` is what one point of it counts on: names
in scope, those written, those with their last kernel behind them, and whether
work may be recorded or in flight. `Goes` is what an instruction needs of the
view before it and leaves in the view after it (a dispatch reads only what is
written; a field is released only when nothing is recorded; a failure frees only
what no submission uses), and `Runs` takes a stage from one view to another.
`RunsThen`, `RunsWhen` and `RunsFlatten` join stages as the code does (one after
another, under a flag, in a loop), so each stage is proved by itself, and
`FirstStateRuns`, `EnterRuns`, `SubstepRuns` and `LeaveRuns` are the four parts of
a frame. Then the machine: `OwnInv` says that the textures made are split between
pool, retired, scope, slots and dropped (`Parted`), that names are bound one to
one (`GoodNames`), and that in a part the state holds what is known there
(`OnTrack`); for each kind of instruction a lemma (`GainsStays` to `PutStays`)
says that what holds before it takes the state to what holds after. A failure
leaves no name that the cleanup does not collect (`FailOwns`, `RetireLocalsOwns`).
`OwnershipIsKept` is the invariant; `TexturesHaveOnePlace`,
`NothingUnwrittenIsRead`, `WorkOwnsItsFields` and `KeptStepsAreFinished` follow.
The assumption on a mode (`SolverAssumption`) is its type in the code: the enum
of pressure solvers, unsigned counts, flags, and a positive CFL number. That a
substep of wood without fire or collider would read what is not there shows
where `Refuse` is needed: `SubstepRuns` is proved for modes that are not
`Incomplete`.

**GrowthProofs.** That a settled solver makes no texture (`NothingGrows`) is a
count over whole frames, and nothing in a state records it: a frame may fail at
any instruction, and which textures are free depends on all that went before.
What can be counted is how many textures of each shape are away from the pool at
each point.

- Every name keeps one shape. The fields of a step, and those that take their
  place, have theirs whatever the mode (`ShapeFor`); `ProgramShaped` reads this off
  each stage of the program, and `ShapedNext` that the machine's names and slots
  keep to it (`AreShaped`).
- So the count at a point follows from the one before it and the instruction
  between them (`Drawn`): one more for what is acquired, less what is released, and
  after a submission exactly what names still hold. `Need` is that count along a
  part, started from the view the part is entered with. Retired textures stay away
  until the submission, so it is the mode, not the history, that decides it.
  `Counted` says that the machine is on this count in every part (`NextPoint`).
- `RoomSoFar`: at each point the frame has passed there were as many textures as
  the point needs. Only a failure drops textures (`RoomStays`), so a frame that
  completes leaves enough for every point of the next in its mode
  (`RoomSettled`). Another frame, in another mode or with other speeds, may take some,
  but returns them: what is away at a point is its mode's need again.
- `PoolServes`: where the point after an instruction needs no more than there are,
  the pool has what the instruction takes, and nothing is made.

`GrowthInv` is the conjunction, on top of `OwnInv`. The course of a part is
chosen among those that the program allows (`Course`, a `CHOOSE` over
functions), which TLC cannot evaluate. Its parts were first checked by TLC over
the modes of `MCSolver` with a count that follows single textures through each
part in place of `Need`.

**VdbTreeProofs.** For any edges of which each divides the next
(`VdbTreeAssumption`; the code's are 8, 128 and 4096), any resolutions and any
number of grids. Four facts about the operators come first.

- A voxel's place is its coordinates in three bases. `Divided` and
  `QuotientBelow` take an index apart again, and `PlaceIsFoundAgain` composes
  them: the reader's offsets give back the coordinates the writer used. That two
  voxels share no place (`VoxelsNeverShareAPlace`) and that each is read back
  where it was both follow.
- A mask is read in ascending order (`Ascending`), defined by how many members
  are smaller. `AscendingEnumerates` says that this visits each member once and
  in order; that every rank is taken is the pigeonhole principle.
- What is written for a list of nodes is a concatenation, by a recursive function
  on how many have been written. What it comes to for a list is what it comes to for
  the head and then for the tail. Each such fact is shown by taking the least
  number at which it fails (`LeastElement`, `Reached`).
- Grids are laid end to end: `Laid` says where each begins, `Segment` that the
  file between two positions is what one grid's topology or data comes to.

`Inductive` follows the stages. While building, the tree so far is that of the
voxels before the next one (`BuiltSoFar`); once built it stays the field's
(`TreesAreTheField`); while writing, the grids before this one are in the file, and
of this one as much as its stage says, its descriptor not yet patched
(`WrittenSoFar`); while reading, the reader's position is where the writer was
when it wrote the nodes the reader still has to visit, and the leaves it has are
those of the nodes before them (`ReadSoFar`, with `ReadTopology` and `ReadData`
for the two passes). These are needed because `FileIsTheField` speaks of the
field only at the end, when nothing remains to be written or visited.
TLC checked `Inductive` over the whole run `vdb` before it was proved. There is
a lemma for each action; `InductiveIsTheField` draws the conclusion, and
`FileReadsBackTheField` and `ReaderNeverMalformed` are the theorems.

Only model-checked: liveness (`GotoReturns`, `ReadReturns`, `CommandIsAnswered`,
`Terminates`, `EveryFrameReturns`, `OperatorReturns`), since fairness is beyond
the prover. Every other property that a run checks, invariant, action property or
refinement, is stated by a theorem. The prover cannot instantiate the library's induction rules, and where a
proof here needs such a fact (the sum in `Timeline`, the names in `Bake`, the
stages and lists of textures in `Solver`, the concatenations in `VdbTree`) it
takes the least counterexample by `WFMin` instead.

## Where code and documentation disagree

Each can be seen by TLC: the property named is defined in the module and left
out of its configuration, so that the runs above all pass. To reproduce one,
make the change in brackets in a copy of the `.cfg`.

1. **Torn reads on weakly ordered machines.** `ipc/channel.rs:23-24` says the
   recheck "always detects and discards any torn read". The second sample is an
   acquire load, which does not hold back the plain loads before it. Where it is
   satisfied first (ARM, and Apple Silicon is a named target), the writer can
   publish once and start overwriting the buffer being copied while both samples
   agree. [`MCFrameChannel`: `LoadsInOrder = FALSE`, `NoTornFrame`]
2. **The first frame.** `channel.rs:374` promises "sequence 0 and zeros if
   nothing has been published yet". Under number 0 readers copy buffer 0, the
   one the first publish fills; a read inside that publish returns part of it.
   [`MCFrameChannel`: `INVARIANT ZerosBeforeTheFirstFrame`]
3. **A reallocation that fails half-way.** `daemon.rs:3-4` says "a failure
   becomes a `Response::Error` and the session stays alive". `create` truncates
   the file before it sizes it. If sizing fails, the reply is an error, but the
   old writer stays with a mapping past the end of the file; the next render
   publishes through it and the process receives SIGBUS.
   [`MCSession`: `CreateFailures = {"open", "set_len"}`,
   `INVARIANT HandlersAreTotal`]
4. **Textures of a failed node.** `core/graph/mod.rs:350-352` says every field
   produced along the way is back in the pool when `eval_frame` returns,
   "whether evaluation succeeds or fails". What a failing node has acquired and
   holds in a local is dropped by `?`, not released (`constant_field.rs:28-30`,
   `accumulate.rs:48`, the faces of a staggered field in `pool.rs:120-134`, and
   others). The memory is freed by the drop; the pool just forgets it. It takes
   no GPU failure: a sum whose input was never connected takes or creates its
   state (`accumulate.rs:34-48`), fails on the input, and drops the sum, on every
   evaluation. [`MCGraphEval`: `INVARIANT ReturnsEverything`; for the sum also
   `Graphs <- MCUnfed`, `MaxFailures = 0`]
5. **A result nobody can have.** `core/graph/node.rs:235` says the result socket
   "is wanted even though no node reads it". `remaining` counts extra outputs but
   not the result, so if an extra output depends on the result, its consumer
   takes it on what looks like the last use, and `run` ends in `UnknownNode`
   after every node succeeded. [`MCGraphEval`: `INVARIANT ResultIsKept`]
6. **A Stop that does not stop.** `ops.py:33` says of `shutdown_engine` "Safe to
   call repeatedly". It suppresses `ElementsError` (`ops.py:38`), but sending to
   a dead engine is an `OSError`: the exception leaves before the client is
   forgotten, and every later Start, Stop or disable fails at the same place.
   [`MCAddOn`: `INVARIANT StopLeavesNothing`]
7. **A redraw that does not update.** `props.py:31`: "Update the viewport volume
   on every redraw". `_last_seq` outlives the numbering it comes from
   (`handlers.py:179`): `create` begins at 0 again (`channel.rs:172`, `:200`). A
   new engine's frame with the number last shown is skipped, and so is a frame
   rendered while the file is under another Blender's number.
   [`MCAddOn`: `PROPERTY EveryRedrawUpdates`]
8. **An engine that hangs.** A bake gets a timeout so that "a hung/pathological
   graph does not block Blender's UI thread indefinitely" (`handlers.py:99-100`).
   The engine may be handed the same graph, on the same thread, and `recv` has no
   timeout (`client.py:107`).
   [`MCAddOn`: `OperatorReturns` without its last disjunct]
9. **Scratch fields of conjugate gradients.** `batch.rs:85-86` says that what a
   flushed submission uses "must not go back to a pool until the batch's last
   submission". `mgpcg.rs:175` releases its five scratch fields right after a
   flush. Commands on one queue run in order, so the texture's next owner is safe;
   the rule is not kept. [`MCSolver`: `INVARIANT FlushedWorkKeepsItsFields`]
10. **Allocations that were none.** `pool.rs:28` describes the counter as the
    textures ever allocated; it is advanced before the creation that may fail
    (`pool.rs:61`). [`MCGpuErrors`: `INVARIANT AllocationsCountTextures`]
11. **A reader during reallocation.** `channel.rs:379-380` says the header is
    safe to read after the file has shrunk, and `channel.rs:26` that no incorrect
    data is ever returned. `create` truncates first (`channel.rs:172`), so for a
    moment every mapping is past the end, and the geometry is compared once,
    before the copy (`channel.rs:392`). [`MCChannelFile`: `Racing = TRUE`,
    `INVARIANT NeverFaults`, or `FrameIsWhole`]
12. **A header that is not one.** The cross-check of `open` (`channel.rs:328`) is
    to tell a file left mid-write by a crash (`channel.rs:312`); before the
    extents are stored, all three numbers are 0 and it passes.
    [`MCChannelFile`: `INVARIANT AcceptedHeaderIsComplete`]
13. **Outputs that cannot be read back.** `document.rs:156-157` has
    `validate_for` refuse what would fail in `Field::read_back`; it measures the
    domain (`document.rs:176`), and a face of a vector output is larger.
    [`MCDocument`: `INVARIANT OutputsCanBeReadBack`]
14. **A preview that is not whole.** `cli/main.rs:42` writes "one slice as a
    PNG". `io/preview.rs:56-65` leaves the writer's buffer to be flushed by its
    drop, which ignores errors. [`MCBake`: `INVARIANT PreviewIsWhole`]
15. **A lost device that is called something else.** `daemon.rs:316` tests that
    "device lost maps to device lost, not a generic gpu error", and `ops.py:169`
    has the contract "device_lost means the GPU device is gone". Only the
    read-back's arm asks the device (`daemon.rs:242`). `goto`'s maps the error as
    it is (`daemon.rs:229-232`, `:299`), and the failed map of a reduction on a
    lost device is a `Validation` (`gpu/reduce.rs:106-112`): the add-on keeps the
    engine. [`MCSession`: `PROPERTY LossIsNeverTransient`]
16. **Axes of zero.** `daemon.rs:143-146` has the daemon refuse dims that would be
    `Loaded` and "only fail later, on every render". The comparison is with the
    upper limit alone (`daemon.rs:152`); `from_json`, `validate_for` and the
    channel's `create` accept an axis of 0, and `create_texture` refuses it.
    [`MCDocument`: `INVARIANT NoSizeFailsLater`]

Read off the code and not modelled: a response longer than 64 KiB leaves the
Python client one reply behind (`client.py:111` keeps the connection;
`protocol.rs:28` says to close it).

## Abstractions

- Field contents, kernels, and texture identity are absent: a state is its
  history, a frame its number. That a kernel computes the same result from the
  same inputs is assumed. In `Solver` a texture has an identity and the name of
  the kernel that wrote it last.
- In `Timeline` the resolution stands for all that can make stored state unfit.
  `Solver` has the modes, which add and remove slots and raise the same
  `StateShape`.
- `fps` and `dt` are functions of the frame number and do not appear.
- In `Session`, a `GpuContext` that cannot be created ends the connection
  before any command, and is not an action. `publish` cannot refuse its slice
  (`LengthMismatch`), because the writer's dims are the graph's at every render
  (`SessionMatchesReplies`). Of `create`'s failures after truncation only that
  of `set_len` is modelled; on a failed mapping the file has its new length.
  Memory is counted as "some" or "none": in the pool, in the timeline.
- In `GraphEval` a value is the set of its textures and a texture its shape and
  a generation number; there is one resolution. The solver's velocity stands for
  all the slots it keeps; on failure they go the same way. Scratch textures that
  are acquired and released inside one call leave `holds` as it was and are left
  out there; the solver's are in `Solver`.
- In `ChannelFile` a page is a word, so that each access past the end faults; in
  the code only those past the last page do. Accesses take effect in order
  (`FrameChannel` has the other case).
- In `Solver` the hierarchy has three levels, so that one is neither finest nor
  coarsest. Speeds are whole numbers of cells; the code divides in `f64`.
- In `Document` a constructor's own checks of its parameters are one flag, a
  name a sequence of parts, and JSON that does not parse another flag.
- In `Bake` a file is the grids complete in it; in `VdbTree` a position counts
  items, and metadata and transform are one.
- In `AddOn` a reply's payload is its kind; wording and panel layout are absent.

Not modelled, and why:

- the framing of bytes into messages (`protocol.rs`, `transport.rs`,
  `client.py`'s buffer): the control plane's exchange of messages is in `Session`
  and `AddOn`;
- the arithmetic of kernels and shaders, keyframes and transforms, shapes and
  mesh voxelisation: floating point over whole grids, which TLC cannot evaluate
  and the tests compare with references;
- metrics, benchmarks and their reports: nothing depends on them;
- adapter selection and the limits asked of the device: one call each, at start;
- the bytes of PNG and NPY files, and the vendored `vdb-rs` beyond its traversal.

## Plan

Done: each module named above, in the order of the runs' importance to the
answer an artist sees: `Timeline`, `FrameChannel`, `Session`, `GraphOrder`,
`GraphEval`, `AddOn`, `ChannelFile`, `Solver` with `GpuErrors`, `Document`,
`Bake`, `VdbTree`; and the invariants of each, proved.
Left, in order:

1. **Framing** of the control stream byte by byte, with both ends dying in
   mid-message.
