------------------------------ MODULE Timeline ------------------------------
(***************************************************************************)
(* elements-core's Timeline: it owns the state that a stateful graph       *)
(* carries from frame to frame, steps it forward, and keeps a bounded      *)
(* cache of snapshots so that a frame can be produced out of order.        *)
(*                                                                         *)
(* A node's state is abstracted to the frames whose evaluation produced    *)
(* it, in order, and the resolution they ran at: two states are            *)
(* bit-identical exactly when these agree.  goto is a sequence of steps,   *)
(* each of which may fail on the GPU; its caller may change the frame, the *)
(* resolution and the graph from call to call.                             *)
(***************************************************************************)
EXTENDS Integers, Sequences, FiniteSets

CONSTANTS
    Start,          \* config.start_frame
    MaxFrame,       \* u32::MAX, scaled down
    Dims,           \* the resolutions a caller may ask for
    NoDims,         \* the resolution of a vacant slot
    NodeCount,      \* the stateful nodes, numbered in evaluation order
    Budget,         \* config.cache_budget_bytes
    LayoutBytes,    \* GPU bytes of a state, by the resolution in each slot
    NoFrame,        \* None, for the cursor and the protected snapshot
    Nothing         \* no snapshot, no call, no result

Frames == 0..MaxFrame

\* goto's arguments, and its locals: the clamped frame, the graph it was
\* given, and whether it has already started over.
Requests == [frame : Frames, dims : Dims, stateful : BOOLEAN]
Calls == [frame : Frames, dims : Dims, stateful : BOOLEAN, retried : BOOLEAN]

Nodes == 1..NodeCount

Layouts == [Nodes -> Dims \cup {NoDims}]

Slots == [dims : Dims \cup {NoDims}, past : Seq(Frames)]

States == [Nodes -> Slots]

ASSUME TimelineAssumption ==
    /\ MaxFrame \in Nat /\ Start \in Frames
    /\ NodeCount \in Nat /\ NodeCount > 0
    /\ NoDims \notin Dims
    /\ Budget \in Nat
    /\ LayoutBytes \in [Layouts -> Nat]
    /\ NoFrame \notin Int
    /\ Nothing \notin Requests \cup Calls /\ Nothing \notin States

VARIABLES
    state,          \* StateStore: what each stateful node keeps
    cursor,         \* the frame the held state is entering, or NoFrame
    cache,          \* the snapshot of the state entering each frame, or Nothing
    older,          \* <<f, g>>: snapshot f was last used before snapshot g
    cacheBytes,     \* cache_bytes
    protected,      \* the snapshot last restored, or NoFrame
    caching,        \* FALSE once a snapshot has proved larger than the budget
    warning,        \* a warning is waiting for the user
    steps,          \* growth of steps_run() since the call began
    pc,             \* where goto has got to
    call,           \* the arguments of goto, or Nothing
    error,          \* why the attempt failed
    result          \* what the last goto returned, or Nothing

store == <<cache, older, cacheBytes, protected, caching, warning>>
vars == <<state, cursor, store, steps, pc, call, error, result>>

Clamped(f) == IF f < Start THEN Start ELSE f

(***************************************************************************)
(* Per-node state.                                                         *)
(***************************************************************************)
Vacant == [dims |-> NoDims, past |-> <<>>]

EmptyState == [n \in Nodes |-> Vacant]

\* Faulty variant of Fits: the shape of a slot is not checked.
FitsUnchecked(slot, dims) == TRUE

\* EvalCtx::take_state hands a slot out if it is vacant or has the requested
\* resolution, and fails with StateShape otherwise.
Fits(slot, dims) == slot.dims \in {NoDims, dims}

\* What a stateful node puts back after evaluating frame.  A vacant slot is
\* taken as zeros of the requested resolution.
Advanced(slot, dims, frame) ==
    [dims |-> IF slot.dims = NoDims THEN dims ELSE slot.dims,
     past |-> Append(slot.past, frame)]

\* The store when evaluation stops at node k: the nodes before k have put
\* their new state back; k's is untouched, or lost if k had taken it.
StoppedAt(k, lost, frame) ==
    [n \in Nodes |-> IF n < k THEN Advanced(state[n], call.dims, frame)
                     ELSE IF n = k /\ lost THEN Vacant
                     ELSE state[n]]

Bytes(s) == LayoutBytes[[n \in Nodes |-> s[n].dims]]

(***************************************************************************)
(* The cache.                                                              *)
(***************************************************************************)
Cached == {f \in Frames : cache[f] # Nothing}

Forget(f) == {p \in older : f \notin {p[1], p[2]}}

\* older once snapshot f has become the most recently used of all.
Touched(f) == Forget(f) \cup ((Cached \ {f}) \X {f})

\* Faulty variant of CachedUpTo: the first of the range instead of the last.
FirstCachedUpTo(f) ==
    {c \in Cached : c <= f /\ \A d \in Cached : c <= d}

\* The largest cached frame not after f, as a set of at most one.
CachedUpTo(f) ==
    {c \in Cached : c <= f /\ \A d \in Cached : d <= f => d <= c}

\* Faulty variant of Evictable: the protected snapshot is fair game.
EvictableAll == Cached

Evictable == Cached \ {protected}

\* Faulty variants of RemoveEntry: the victim is only looked up; its bytes
\* stay on the account.
RemoveNothing(f) == UNCHANGED <<cache, older, cacheBytes>>

RemoveEntryUnaccounted(f) ==
    /\ cache' = [cache EXCEPT ![f] = Nothing]
    /\ older' = Forget(f)
    /\ UNCHANGED cacheBytes

RemoveEntry(f) ==
    /\ cache' = [cache EXCEPT ![f] = Nothing]
    /\ older' = Forget(f)
    /\ cacheBytes' = cacheBytes - Bytes(cache[f])

(***************************************************************************)
(* The call in progress.                                                   *)
(***************************************************************************)
\* goto's loop steps the frame at the cursor while it is before the requested
\* one, and steps the requested one last.
Behind == cursor # NoFrame /\ cursor < call.frame
StepFrame == IF Behind THEN cursor ELSE call.frame

\* Faulty variant of HeldUpTo: a state past the frame counts as well.
HeldAnywhere(f) == cursor # NoFrame

HeldUpTo(f) == cursor # NoFrame /\ cursor <= f

\* Faulty variant of FrameAfter: a plain addition.
FrameAfterUnchecked(f) == f + 1

\* frame.checked_add(1): past u32::MAX the held state matches no frame.
FrameAfter(f) == IF f = MaxFrame THEN NoFrame ELSE f + 1

Return(r) ==
    /\ result' = r
    /\ call' = Nothing
    /\ pc' = "idle"
    /\ error' = "none"

Fail(why) ==
    /\ error' = why
    /\ pc' = "failed"
    /\ UNCHANGED <<store, cursor, steps, call, result>>

Success(value) == [ok |-> TRUE, value |-> value]
Failure == [ok |-> FALSE, value |-> Nothing]

Results == [ok : BOOLEAN, value : States \cup {Nothing}]

TypeOK ==
    /\ state \in States
    /\ cursor \in Frames \cup {NoFrame}
    /\ cache \in [Frames -> States \cup {Nothing}]
    /\ older \in SUBSET (Frames \X Frames)
    /\ cacheBytes \in Int
    /\ protected \in Frames \cup {NoFrame}
    /\ caching \in BOOLEAN
    /\ warning \in BOOLEAN
    /\ steps \in Nat
    /\ pc \in {"idle", "direct", "seek", "step", "insert", "eval", "failed"}
    /\ call \in Calls \cup {Nothing}
    /\ call = Nothing <=> pc = "idle"
    /\ error \in {"none", "gpu", "shape"}
    /\ result \in Results \cup {Nothing}

Init ==
    /\ state = EmptyState
    /\ cursor = NoFrame
    /\ cache = [f \in Frames |-> Nothing]
    /\ older = {}
    /\ cacheBytes = 0
    /\ protected = NoFrame
    /\ caching = TRUE
    /\ warning = FALSE
    /\ steps = 0
    /\ pc = "idle"
    /\ call = Nothing
    /\ error = "none"
    /\ result = Nothing

-----------------------------------------------------------------------------
(***************************************************************************)
(* goto                                                                    *)
(***************************************************************************)
Goto(r) ==
    /\ pc = "idle"
    /\ call' = [frame |-> Clamped(r.frame), dims |-> r.dims,
                stateful |-> r.stateful, retried |-> FALSE]
    /\ pc' = IF r.stateful THEN "seek" ELSE "direct"
    /\ steps' = 0
    /\ result' = Nothing
    /\ UNCHANGED <<state, cursor, store, error>>

\* A graph without stateful nodes is evaluated on the spot, and counted
\* whether or not the evaluation succeeds.
EvalStateless ==
    /\ pc = "direct"
    /\ steps' = steps + 1
    /\ \/ Return(Success(EmptyState))
       \/ Return(Failure)
    /\ UNCHANGED <<state, cursor, store>>

(***************************************************************************)
(* advance_inner: choose the state to start from.                          *)
(***************************************************************************)
\* The held state is at the frame, or at least as close as any snapshot.
KeepHeld ==
    /\ pc = "seek"
    /\ \/ cursor = call.frame
       \/ /\ HeldUpTo(call.frame)
          /\ caching => \A c \in CachedUpTo(call.frame) : cursor >= c
    /\ pc' = "step"
    /\ UNCHANGED <<state, cursor, store, steps, call, error, result>>

\* A snapshot is closer than the held state.
Restorable(c) ==
    /\ pc = "seek"
    /\ cursor # call.frame
    /\ caching
    /\ c \in CachedUpTo(call.frame)
    /\ ~(HeldUpTo(call.frame) /\ cursor >= c)

Restore ==
    \E c \in Frames :
        /\ Restorable(c)
        /\ older' = Touched(c)
        /\ state' = cache[c]
        /\ cursor' = c
        /\ protected' = c
        /\ pc' = "step"
        /\ UNCHANGED <<cache, cacheBytes, caching, warning, steps, call, error, result>>

\* Copying a slot fails: the slots before it are restored, the rest vacant.
RestoreFails ==
    \E c \in Frames, k \in Nodes :
        /\ Restorable(c)
        /\ older' = Touched(c)
        /\ state' = [n \in Nodes |-> IF n < k THEN cache[c][n] ELSE Vacant]
        /\ error' = "gpu"
        /\ pc' = "failed"
        /\ UNCHANGED <<cache, cacheBytes, protected, caching, warning,
                       cursor, steps, call, result>>

\* There is nothing to start from but the start frame.
StartOver ==
    /\ pc = "seek"
    /\ ~HeldUpTo(call.frame)
    /\ caching => CachedUpTo(call.frame) = {}
    /\ state' = EmptyState
    /\ cursor' = Start
    /\ pc' = "step"
    /\ UNCHANGED <<store, steps, call, error, result>>

(***************************************************************************)
(* step: snapshot the state entering the frame, then evaluate the frame.   *)
(***************************************************************************)
NeedsSnapshot == caching /\ cache[StepFrame] = Nothing

TakeSnapshot ==
    /\ pc = "step"
    /\ NeedsSnapshot
    /\ pc' = "insert"
    /\ UNCHANGED <<state, cursor, store, steps, call, error, result>>

SnapshotFails ==
    /\ pc = "step"
    /\ NeedsSnapshot
    /\ Fail("gpu")
    /\ UNCHANGED state

SkipSnapshot ==
    /\ pc = "step"
    /\ ~NeedsSnapshot
    /\ pc' = "eval"
    /\ UNCHANGED <<state, cursor, store, steps, call, error, result>>

\* insert: one snapshot is larger than the whole budget, so caching ends.
DisableCaching ==
    /\ pc = "insert"
    /\ Bytes(state) > Budget
    /\ caching' = FALSE
    /\ warning' = TRUE
    /\ cache' = [f \in Frames |-> Nothing]
    /\ older' = {}
    /\ cacheBytes' = 0
    /\ pc' = "eval"
    /\ UNCHANGED <<protected, state, cursor, steps, call, error, result>>

TooFull == Bytes(state) <= Budget /\ cacheBytes + Bytes(state) > Budget

\* insert: make room by dropping the least recently used snapshot.
Evict ==
    /\ pc = "insert"
    /\ TooFull
    /\ \E v \in Evictable :
        /\ \A f \in Evictable \ {v} : <<v, f>> \in older
        /\ RemoveEntry(v)
    /\ UNCHANGED <<protected, caching, warning, state, cursor, steps, pc, call, error, result>>

\* insert: the new snapshot does not fit beside the protected one.
DropSnapshot ==
    /\ pc = "insert"
    /\ TooFull
    /\ Evictable = {}
    /\ pc' = "eval"
    /\ UNCHANGED <<state, cursor, store, steps, call, error, result>>

StoreSnapshot ==
    /\ pc = "insert"
    /\ Bytes(state) <= Budget
    /\ ~TooFull
    /\ cache' = [cache EXCEPT ![StepFrame] = state]
    /\ older' = Touched(StepFrame)
    /\ cacheBytes' = cacheBytes + Bytes(state)
    /\ pc' = "eval"
    /\ UNCHANGED <<protected, caching, warning, state, cursor, steps, call, error, result>>

AllFit(k) == \A n \in Nodes : n < k => Fits(state[n], call.dims)

\* Every node ran.  The requested frame is returned; an earlier one is
\* released, and the loop goes on from the frame after it.
EvalSucceeds ==
    /\ pc = "eval"
    /\ AllFit(NodeCount + 1)
    /\ state' = StoppedAt(NodeCount + 1, FALSE, StepFrame)
    /\ cursor' = FrameAfter(StepFrame)
    /\ steps' = steps + 1
    /\ IF Behind
         THEN pc' = "step" /\ UNCHANGED <<call, error, result>>
         ELSE Return(Success(state'))
    /\ UNCHANGED store

\* Evaluation fails at node k, or past the last stateful node.
EvalFails ==
    /\ pc = "eval"
    /\ \E k \in 1..(NodeCount + 1), lost \in BOOLEAN :
        /\ AllFit(k)
        /\ state' = StoppedAt(k, lost, StepFrame)
    /\ Fail("gpu")

\* Node k finds state of another resolution; take_state has released it.
ShapeMismatch ==
    /\ pc = "eval"
    /\ \E k \in Nodes :
        /\ AllFit(k)
        /\ ~Fits(state[k], call.dims)
        /\ state' = StoppedAt(k, TRUE, StepFrame)
    /\ Fail("shape")

(***************************************************************************)
(* advance's error branch, and goto's.                                     *)
(***************************************************************************)
\* Faulty variant of AbandonState: the store is emptied, but the cursor still
\* names the frame it was entering.
AbandonStateOnly == state' = EmptyState /\ UNCHANGED cursor

\* A failed evaluation may have taken state out without putting it back.
AbandonState == state' = EmptyState /\ cursor' = NoFrame

\* Faulty variant of ForgetEverything: the snapshots are kept.
ForgetHeldState ==
    /\ AbandonState
    /\ protected' = NoFrame
    /\ UNCHANGED <<warning, cache, older, cacheBytes>>

ForgetEverything ==
    /\ AbandonState
    /\ cache' = [f \in Frames |-> Nothing]
    /\ older' = {}
    /\ cacheBytes' = 0
    /\ protected' = NoFrame
    /\ UNCHANGED warning

MayRetry == error = "shape" /\ ~call.retried

\* The stored state no longer fits the domain: reset and start over, once.
Retry ==
    /\ pc = "failed"
    /\ MayRetry
    /\ ForgetEverything
    /\ caching' = TRUE
    /\ call' = [call EXCEPT !.retried = TRUE]
    /\ error' = "none"
    /\ pc' = "seek"
    /\ UNCHANGED <<steps, result>>

GiveUp ==
    /\ pc = "failed"
    /\ ~MayRetry
    /\ AbandonState
    /\ Return(Failure)
    /\ UNCHANGED <<store, steps>>

(***************************************************************************)
(* The caller's other operations, between calls of goto.                   *)
(***************************************************************************)
Reset ==
    /\ pc = "idle"
    /\ ForgetEverything
    /\ caching' = TRUE
    /\ UNCHANGED <<steps, pc, call, error, result>>

Discard ==
    /\ pc = "idle"
    /\ ForgetEverything
    /\ UNCHANGED <<caching, steps, pc, call, error, result>>

TakeWarning ==
    /\ pc = "idle"
    /\ warning
    /\ warning' = FALSE
    /\ UNCHANGED <<state, cursor, cache, older, cacheBytes, protected, caching,
                   steps, pc, call, error, result>>

-----------------------------------------------------------------------------
\* The steps of a goto in progress; the calls a caller may make.
Work ==
    \/ EvalStateless
    \/ KeepHeld \/ Restore \/ RestoreFails \/ StartOver
    \/ TakeSnapshot \/ SnapshotFails \/ SkipSnapshot
    \/ DisableCaching \/ Evict \/ DropSnapshot \/ StoreSnapshot
    \/ EvalSucceeds \/ EvalFails \/ ShapeMismatch
    \/ Retry \/ GiveUp

Next ==
    \/ Work
    \/ \E r \in Requests : Goto(r)
    \/ Reset
    \/ Discard
    \/ TakeWarning

\* goto runs on the caller's thread and every GPU call in it returns, so a
\* call in progress keeps taking steps.
Spec == Init /\ [][Next]_vars /\ WF_vars(Work)

-----------------------------------------------------------------------------
(***************************************************************************)
(* Correctness.                                                            *)
(***************************************************************************)
\* The frames forward playback has evaluated when it enters frame f.
PlayedUpTo(f) == [i \in 1..(f - Start) |-> Start + i - 1]

\* The state forward playback holds entering frame f, at one resolution.
Entering(f, dims) ==
    IF f = Start THEN EmptyState
    ELSE [n \in Nodes |-> [dims |-> dims, past |-> PlayedUpTo(f)]]

EntersAtSomeDims(s, f) == \E d \in Dims : s = Entering(f, d)

\* Whenever a usable state is held, it is the state forward playback enters
\* the cursor's frame with, whatever was scrubbed, evicted, resized or failed
\* on the way ("the frame the held state is entering").
HeldStateIsExact ==
    cursor # NoFrame /\ pc # "failed" =>
        /\ cursor >= Start
        /\ EntersAtSomeDims(state, cursor)

\* "A cached snapshot for frame N is the state entering N": at one resolution,
\* though not necessarily the one now being asked for.
CacheIsExact ==
    \A f \in Cached : f >= Start /\ EntersAtSomeDims(cache[f], f)

\* goto's "start over, once" is enough: after a reset, no state of another
\* resolution is left to be found, so StateShape never reaches the caller.
RetryFindsNoStaleState ==
    ~(pc = "failed" /\ error = "shape" /\ call.retried)

\* Every state that a node can be given is exact: the one held, those cached,
\* and the one a retry starts from.
StatesAreExact ==
    TypeOK /\ HeldStateIsExact /\ CacheIsExact /\ RetryFindsNoStaleState

\* The sum of w over the frames.
Total(w) ==
    LET before[f \in 0..(MaxFrame + 1)] ==
            IF f = 0 THEN 0 ELSE before[f - 1] + w[f - 1]
    IN  before[MaxFrame + 1]

SnapshotBytes == [f \in Frames |-> IF cache[f] = Nothing THEN 0 ELSE Bytes(cache[f])]

\* The bytes accounted for are those of the snapshots held, and within the
\* budget, so cache_bytes never underflows; a disabled cache holds nothing.
CacheAccounting ==
    /\ cacheBytes = Total(SnapshotBytes)
    /\ cacheBytes <= Budget
    /\ ~caching => Cached = {}

\* The snapshot last restored is dropped only with the whole cache: eviction
\* never takes it, whatever the budget and the order of use.
ProtectedSurvivesEviction ==
    [][ (protected \in Cached /\ protected' = protected)
            => (protected \in Cached' \/ Cached' = {}) ]_vars

\* goto never evaluates a frame while a snapshot nearer to the requested frame
\* is cached, and never exchanges the held state for an earlier one: "a cache
\* hit therefore costs one step".
NoFrameIsRecomputed ==
    [][ /\ (pc = "eval" /\ steps' = steps + 1)
              => ~\E f \in Cached : StepFrame < f /\ f <= call.frame
        /\ (pc = "seek" /\ HeldUpTo(call.frame) /\ cursor' # cursor)
              => cursor' > cursor ]_vars

\* Every goto returns, at whatever point it fails and however often the
\* resolution has changed.
GotoReturns == pc # "idle" ~> pc = "idle"

(***************************************************************************)
(* The promise: any frame, bit-identical to forward playback.              *)
(***************************************************************************)
Output ==
    [r \in Requests |->
        IF r.stateful THEN Entering(Clamped(r.frame) + 1, r.dims) ELSE EmptyState]

Abstract ==
    INSTANCE Playback WITH
        Requests <- Requests,
        Output <- Output,
        Nothing <- Nothing,
        request <- IF pc = "idle" THEN Nothing
                   ELSE [frame |-> call.frame, dims |-> call.dims,
                         stateful |-> call.stateful],
        reply <- result

\* Timeline::goto implements the abstract playback: a call is answered only
\* with the output forward playback gives for that frame, resolution and
\* graph, or with an error.  (That it is answered is GotoReturns.)
ImplementsPlayback == Abstract!Spec
=============================================================================
