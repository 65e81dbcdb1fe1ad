--------------------------- MODULE TimelineProofs ---------------------------
(***************************************************************************)
(* Proofs about Timeline, for every number of frames, nodes and            *)
(* resolutions, every cache budget and every size of a state.              *)
(*                                                                         *)
(* The argument: a usable store is always the state that forward playback  *)
(* holds entering the cursor's frame, at a single resolution, and so is    *)
(* every snapshot.  That is not inductive by itself.  While a frame is     *)
(* being stepped the cursor is at that frame, which ties the snapshot's    *)
(* key and the evaluated frame to the state; and once goto has started     *)
(* over, every state left is at the resolution of the call.                *)
(***************************************************************************)
EXTENDS Timeline, TLAPS, WellFoundedInduction

\* A frame is being stepped, so the state entering it is held.
Stepping == pc \in {"step", "insert", "eval"}

CallIsClamped ==
    call # Nothing =>
        /\ call.frame >= Start
        /\ call.stateful <=> pc # "direct"

CursorIsStepped ==
    Stepping => cursor # NoFrame /\ cursor <= call.frame

\* After a reset within a call, only the call's own resolution is left.
RetriedIsUniform ==
    call # Nothing /\ call.retried =>
        /\ \A f \in Cached : cache[f] = Entering(f, call.dims)
        /\ pc # "failed" /\ cursor # NoFrame => state = Entering(cursor, call.dims)
        /\ pc = "failed" => error = "gpu"

Inductive ==
    /\ TypeOK
    /\ CallIsClamped
    /\ CursorIsStepped
    /\ HeldStateIsExact
    /\ CacheIsExact
    /\ RetriedIsUniform

-----------------------------------------------------------------------------
(***************************************************************************)
(* Forward playback.                                                       *)
(***************************************************************************)
\* Evaluating frame f extends the frames played before f to those before f+1.
LEMMA PlayedAppend ==
    ASSUME NEW f \in Frames, f >= Start
    PROVE  Append(PlayedUpTo(f), f) = PlayedUpTo(f + 1)
  BY TimelineAssumption DEF PlayedUpTo, Frames

LEMMA PlayedType ==
    ASSUME NEW f \in Int, f >= Start, f <= MaxFrame + 1
    PROVE  PlayedUpTo(f) \in Seq(Frames)
  BY TimelineAssumption DEF PlayedUpTo, Frames

LEMMA EnteringType ==
    ASSUME NEW f \in Int, f >= Start, f <= MaxFrame + 1, NEW d \in Dims
    PROVE  Entering(f, d) \in States
  BY PlayedType, TimelineAssumption
  DEF Entering, States, Slots, EmptyState, Vacant

LEMMA ResultType ==
    /\ \A v \in States : Success(v) \in Results
    /\ Failure \in Results
  BY DEF Results, Success, Failure

\* If every slot fits the requested resolution, evaluating frame f takes the
\* state entering f to the state entering f+1, at that resolution.
LEMMA EvaluationAdvances ==
    ASSUME NEW f \in Frames, f >= Start,
           NEW held \in Dims, NEW dims \in Dims,
           \A n \in Nodes : Fits(Entering(f, held)[n], dims)
    PROVE  [n \in Nodes |-> Advanced(Entering(f, held)[n], dims, f)]
               = Entering(f + 1, dims)
<1>1. f + 1 # Start
  BY TimelineAssumption DEF Frames
<1>2. Append(PlayedUpTo(f), f) = PlayedUpTo(f + 1)
  BY PlayedAppend
<1>3. CASE f = Start
  <2>1. PlayedUpTo(f) = <<>>
    BY <1>3, TimelineAssumption DEF PlayedUpTo, Frames
  <2>2. \A n \in Nodes : Entering(f, held)[n] = Vacant
    BY <1>3 DEF Entering, EmptyState
  <2>3. \A n \in Nodes : Advanced(Entering(f, held)[n], dims, f)
                            = [dims |-> dims, past |-> PlayedUpTo(f + 1)]
    BY <1>2, <2>1, <2>2 DEF Advanced, Vacant
  <2> QED
    BY <1>1, <2>3 DEF Entering
<1>4. CASE f # Start
  <2>1. \A n \in Nodes : Entering(f, held)[n] = [dims |-> held, past |-> PlayedUpTo(f)]
    BY <1>4 DEF Entering
  <2>2. \A n \in Nodes : held = dims
    BY <2>1, TimelineAssumption DEF Fits
  <2>3. ASSUME NEW n \in Nodes
        PROVE  Advanced(Entering(f, held)[n], dims, f)
                   = [dims |-> dims, past |-> PlayedUpTo(f + 1)]
    <3>1. Entering(f, held)[n].dims = dims /\ dims # NoDims
      BY <2>1, <2>2, TimelineAssumption
    <3>2. Entering(f, held)[n].past = PlayedUpTo(f)
      BY <2>1
    <3> QED
      BY <1>2, <3>1, <3>2 DEF Advanced
  <2> QED
    BY <1>1, <2>3 DEF Entering
<1> QED
  BY <1>3, <1>4

-----------------------------------------------------------------------------
(***************************************************************************)
(* Each action preserves the invariant.                                    *)
(***************************************************************************)
LEMMA GotoStep ==
    ASSUME Inductive, NEW r \in Requests, Goto(r)
    PROVE  Inductive'
<1> USE TimelineAssumption
<1>1. /\ call' \in Calls
      /\ call'.frame >= Start
      /\ call'.stateful = r.stateful
      /\ call'.retried = FALSE
  BY DEF Goto, Clamped, Calls, Requests, Frames
<1>2. TypeOK'
  BY <1>1 DEF Inductive, TypeOK, Goto, store, Requests
<1>3. CallIsClamped' /\ CursorIsStepped' /\ RetriedIsUniform'
  BY <1>1 DEF CallIsClamped, CursorIsStepped, RetriedIsUniform, Goto, Stepping, Requests
<1>4. HeldStateIsExact' /\ CacheIsExact'
  BY DEF Inductive, HeldStateIsExact, CacheIsExact, Cached, EntersAtSomeDims, Goto, store, TypeOK
<1> QED
  BY <1>2, <1>3, <1>4 DEF Inductive

LEMMA EvalStatelessStep ==
    ASSUME Inductive, EvalStateless
    PROVE  Inductive'
<1> USE TimelineAssumption
<1>1. EmptyState \in States
  BY DEF EmptyState, States, Slots, Vacant
<1>2. TypeOK'
  BY <1>1, ResultType DEF Inductive, TypeOK, EvalStateless, Return, store
<1>3. CallIsClamped' /\ CursorIsStepped' /\ RetriedIsUniform'
  BY DEF CallIsClamped, CursorIsStepped, RetriedIsUniform, EvalStateless, Return, Stepping
<1>4. HeldStateIsExact' /\ CacheIsExact'
  BY DEF Inductive, HeldStateIsExact, CacheIsExact, Cached, EntersAtSomeDims,
         EvalStateless, Return, store
<1> QED
  BY <1>2, <1>3, <1>4 DEF Inductive

LEMMA KeepHeldStep ==
    ASSUME Inductive, KeepHeld
    PROVE  Inductive'
<1> USE TimelineAssumption
<1>1. cursor # NoFrame /\ cursor <= call.frame /\ call \in Calls
  BY DEF Inductive, TypeOK, KeepHeld, HeldUpTo, Calls, Frames
<1>2. TypeOK'
  BY DEF Inductive, TypeOK, KeepHeld, store
<1>3. CallIsClamped' /\ CursorIsStepped' /\ RetriedIsUniform'
  BY <1>1 DEF Inductive, CallIsClamped, CursorIsStepped, RetriedIsUniform, KeepHeld,
              Stepping, store, Cached
<1>4. HeldStateIsExact' /\ CacheIsExact'
  BY DEF Inductive, HeldStateIsExact, CacheIsExact, Cached, EntersAtSomeDims, KeepHeld, store
<1> QED
  BY <1>2, <1>3, <1>4 DEF Inductive

\* Moving on within a step, when nothing but pc changes.
LEMMA MoveOn ==
    ASSUME Inductive, Stepping, pc' \in {"insert", "eval"},
           UNCHANGED <<state, cursor, store, steps, call, error, result>>
    PROVE  Inductive'
<1> USE TimelineAssumption
<1>1. TypeOK'
  BY DEF Inductive, TypeOK, store, Stepping
<1>2. CallIsClamped' /\ CursorIsStepped' /\ RetriedIsUniform'
  BY DEF Inductive, TypeOK, CallIsClamped, CursorIsStepped, RetriedIsUniform,
         Stepping, store, Cached
<1>3. HeldStateIsExact' /\ CacheIsExact'
  BY DEF Inductive, HeldStateIsExact, CacheIsExact, Cached, EntersAtSomeDims, Stepping, store
<1> QED
  BY <1>1, <1>2, <1>3 DEF Inductive

\* A step that fails for a reason other than StateShape, or fails with
\* StateShape before goto has started over, leaves any state behind.
LEMMA FailureStep ==
    ASSUME Inductive, Stepping, NEW why \in {"gpu", "shape"}, Fail(why),
           state' \in States,
           why = "shape" => ~call.retried
    PROVE  Inductive'
<1> USE TimelineAssumption
<1>1. TypeOK'
  BY DEF Inductive, TypeOK, store, Stepping, Fail
<1>2. CallIsClamped' /\ CursorIsStepped' /\ RetriedIsUniform'
  BY DEF Inductive, TypeOK, CallIsClamped, CursorIsStepped, RetriedIsUniform,
         Stepping, store, Cached, Fail
<1>3. HeldStateIsExact' /\ CacheIsExact'
  BY DEF Inductive, HeldStateIsExact, CacheIsExact, Cached, EntersAtSomeDims, Fail, store
<1> QED
  BY <1>1, <1>2, <1>3 DEF Inductive

LEMMA StoppedAtType ==
    ASSUME Inductive, Stepping,
           NEW k \in 1..(NodeCount + 1), NEW lost \in BOOLEAN
    PROVE  StoppedAt(k, lost, StepFrame) \in States
<1>1. call \in Calls /\ state \in States /\ StepFrame \in Frames
  BY DEF Inductive, TypeOK, Stepping, StepFrame, Behind, Calls
<1>2. Vacant \in Slots
  BY DEF Vacant, Slots
<1>3. \A n \in Nodes : Advanced(state[n], call.dims, StepFrame) \in Slots
  BY <1>1 DEF Advanced, Slots, States, Calls
<1> QED
  BY <1>1, <1>2, <1>3 DEF StoppedAt, States

LEMMA EmptyStateType == EmptyState \in States
  BY DEF EmptyState, States, Slots, Vacant

LEMMA RestoreStep ==
    ASSUME Inductive, Restore
    PROVE  Inductive'
<1> USE TimelineAssumption
<1>1. PICK c \in Frames :
        /\ Restorable(c)
        /\ older' = Touched(c)
        /\ state' = cache[c]
        /\ cursor' = c
        /\ protected' = c
        /\ pc' = "step"
        /\ UNCHANGED <<cache, cacheBytes, caching, warning, steps, call, error, result>>
  BY DEF Restore
<1>2. c \in Cached /\ c <= call.frame /\ pc = "seek"
  BY <1>1 DEF Restorable, CachedUpTo
<1>3. cache[c] \in States
  BY <1>2 DEF Inductive, TypeOK, Cached
<1>4. c >= Start /\ EntersAtSomeDims(cache[c], c)
  BY <1>2 DEF Inductive, CacheIsExact
<1>5. older' \in SUBSET (Frames \X Frames)
  BY <1>1 DEF Touched, Forget, Cached, Inductive, TypeOK
<1>6. TypeOK'
  BY <1>1, <1>2, <1>3, <1>5 DEF Inductive, TypeOK
<1>7. CallIsClamped' /\ CursorIsStepped'
  BY <1>1, <1>2 DEF Inductive, CallIsClamped, CursorIsStepped, Frames
<1>9. call # Nothing /\ call.retried => cache[c] = Entering(c, call.dims)
  BY <1>2 DEF Inductive, RetriedIsUniform
<1>10. RetriedIsUniform'
  BY <1>1, <1>2, <1>9 DEF Inductive, RetriedIsUniform, Cached
<1>8. HeldStateIsExact' /\ CacheIsExact'
  BY <1>1, <1>4 DEF Inductive, HeldStateIsExact, CacheIsExact, Cached, EntersAtSomeDims
<1> QED
  BY <1>6, <1>7, <1>8, <1>10 DEF Inductive

LEMMA RestoreFailsStep ==
    ASSUME Inductive, RestoreFails
    PROVE  Inductive'
<1> USE TimelineAssumption
<1>1. PICK c \in Frames, k \in Nodes :
        /\ Restorable(c)
        /\ older' = Touched(c)
        /\ state' = [n \in Nodes |-> IF n < k THEN cache[c][n] ELSE Vacant]
        /\ error' = "gpu"
        /\ pc' = "failed"
        /\ UNCHANGED <<cache, cacheBytes, protected, caching, warning,
                       cursor, steps, call, result>>
  BY DEF RestoreFails
<1>2. c \in Cached /\ pc = "seek"
  BY <1>1 DEF Restorable, CachedUpTo
<1>3. cache[c] \in States
  BY <1>2 DEF Inductive, TypeOK, Cached
<1>4. state' \in States
  BY <1>1, <1>3 DEF States, Slots, Vacant
<1>5. older' \in SUBSET (Frames \X Frames)
  BY <1>1 DEF Touched, Forget, Cached, Inductive, TypeOK
<1>6. TypeOK'
  BY <1>1, <1>2, <1>4, <1>5 DEF Inductive, TypeOK
<1>7. CallIsClamped' /\ CursorIsStepped' /\ RetriedIsUniform'
  BY <1>1, <1>2 DEF Inductive, TypeOK, CallIsClamped, CursorIsStepped, RetriedIsUniform,
              Stepping, Cached
<1>8. HeldStateIsExact' /\ CacheIsExact'
  BY <1>1 DEF Inductive, HeldStateIsExact, CacheIsExact, Cached, EntersAtSomeDims
<1> QED
  BY <1>6, <1>7, <1>8 DEF Inductive

LEMMA StartOverStep ==
    ASSUME Inductive, StartOver
    PROVE  Inductive'
<1> USE TimelineAssumption
<1>1. call \in Calls /\ call.frame >= Start
  BY DEF Inductive, TypeOK, CallIsClamped, StartOver
<1>2. \A d \in Dims : EmptyState = Entering(Start, d)
  BY DEF Entering
<1>3. TypeOK'
  BY EmptyStateType, <1>1 DEF Inductive, TypeOK, StartOver, store
<1>4. CallIsClamped' /\ CursorIsStepped' /\ RetriedIsUniform'
  BY <1>1, <1>2 DEF Inductive, TypeOK, CallIsClamped, CursorIsStepped, RetriedIsUniform,
              Stepping, StartOver, store, Cached, Calls, Frames
<1>5. HeldStateIsExact' /\ CacheIsExact'
  BY <1>1, <1>2 DEF Inductive, HeldStateIsExact, CacheIsExact, Cached, EntersAtSomeDims,
              StartOver, store, Calls, Frames
<1> QED
  BY <1>3, <1>4, <1>5 DEF Inductive

LEMMA DisableCachingStep ==
    ASSUME Inductive, DisableCaching
    PROVE  Inductive'
<1> USE TimelineAssumption
<1>1. Cached' = {}
  BY DEF DisableCaching, Cached
<1>2. TypeOK'
  <2>1. cache' \in [Frames -> States \cup {Nothing}]
    BY DEF DisableCaching
  <2>2. older' \in SUBSET (Frames \X Frames)
    BY DEF DisableCaching
  <2>3. caching' \in BOOLEAN /\ warning' \in BOOLEAN
    BY DEF DisableCaching
  <2>4. /\ pc = "insert" /\ pc' = "eval" /\ cacheBytes' = 0
        /\ UNCHANGED <<protected, state, cursor, steps, call, error, result>>
    BY DEF DisableCaching
  <2> QED
    BY <2>1, <2>2, <2>3, <2>4 DEF Inductive, TypeOK
<1>3. CallIsClamped' /\ CursorIsStepped' /\ RetriedIsUniform'
  BY <1>1 DEF Inductive, TypeOK, CallIsClamped, CursorIsStepped, RetriedIsUniform,
              Stepping, DisableCaching
<1>4. HeldStateIsExact' /\ CacheIsExact'
  BY <1>1 DEF Inductive, HeldStateIsExact, CacheIsExact, EntersAtSomeDims, DisableCaching
<1> QED
  BY <1>2, <1>3, <1>4 DEF Inductive

LEMMA EvictStep ==
    ASSUME Inductive, Evict
    PROVE  Inductive'
<1> USE TimelineAssumption
<1>1. PICK v \in Evictable : RemoveEntry(v)
  BY DEF Evict
<1>2. v \in Frames /\ cache[v] \in States
  BY DEF Evictable, Cached, Inductive, TypeOK
<1>3. Bytes(cache[v]) \in Nat
  BY <1>2 DEF Bytes, Layouts, States, Slots
<1>4. \A f \in Cached' : f \in Cached /\ cache'[f] = cache[f]
  <2>1. cache \in [Frames -> States \cup {Nothing}]
    BY DEF Inductive, TypeOK
  <2>2. cache' = [cache EXCEPT ![v] = Nothing]
    BY <1>1 DEF RemoveEntry
  <2> QED
    BY <1>2, <2>1, <2>2 DEF Cached
<1>5. TypeOK'
  <2>1. older' \in SUBSET (Frames \X Frames)
    BY <1>1 DEF RemoveEntry, Forget, Inductive, TypeOK
  <2>2. cache' \in [Frames -> States \cup {Nothing}]
    BY <1>1 DEF RemoveEntry, Inductive, TypeOK
  <2>3. cacheBytes' \in Int
    BY <1>1, <1>3 DEF RemoveEntry, Inductive, TypeOK
  <2> QED
    BY <2>1, <2>2, <2>3 DEF Inductive, TypeOK, Evict
<1>6. CallIsClamped' /\ CursorIsStepped'
  BY DEF Inductive, CallIsClamped, CursorIsStepped, Stepping, Evict
<1>7. RetriedIsUniform'
  BY <1>4 DEF Inductive, RetriedIsUniform, Evict
<1>8. HeldStateIsExact' /\ CacheIsExact'
  BY <1>4 DEF Inductive, HeldStateIsExact, CacheIsExact, EntersAtSomeDims, Evict
<1> QED
  BY <1>5, <1>6, <1>7, <1>8 DEF Inductive

\* The snapshot is filed under the frame that the state is entering.
LEMMA StoreSnapshotStep ==
    ASSUME Inductive, StoreSnapshot
    PROVE  Inductive'
<1> USE TimelineAssumption
<1>1. /\ StepFrame = cursor /\ cursor # NoFrame
      /\ StepFrame \in Frames /\ StepFrame >= Start
      /\ EntersAtSomeDims(state, StepFrame)
      /\ call \in Calls
  <2>1. call \in Calls /\ cursor # NoFrame /\ cursor <= call.frame
    BY DEF Inductive, TypeOK, StoreSnapshot, CursorIsStepped, Stepping
  <2>2. StepFrame = cursor
    BY <2>1 DEF StepFrame, Behind, Inductive, TypeOK, Calls, Frames
  <2> QED
    BY <2>1, <2>2 DEF Inductive, TypeOK, HeldStateIsExact, StoreSnapshot
<1>2. Bytes(state) \in Nat
  BY DEF Bytes, Layouts, States, Slots, Inductive, TypeOK
<1>3. \A f \in Cached' :
          \/ f = StepFrame /\ cache'[f] = state
          \/ f \in Cached /\ cache'[f] = cache[f]
  <2>1. cache \in [Frames -> States \cup {Nothing}]
    BY DEF Inductive, TypeOK
  <2>2. cache' = [cache EXCEPT ![StepFrame] = state]
    BY DEF StoreSnapshot
  <2>3. \A f \in Frames : cache'[f] = IF f = StepFrame THEN state ELSE cache[f]
    BY <1>1, <2>1, <2>2
  <2> QED
    BY <2>3 DEF Cached
<1>4. Touched(StepFrame) \in SUBSET (Frames \X Frames)
  BY <1>1 DEF Touched, Forget, Cached, Inductive, TypeOK
<1>5. TypeOK'
  BY <1>1, <1>2, <1>4 DEF Inductive, TypeOK, StoreSnapshot
<1>6. CallIsClamped' /\ CursorIsStepped'
  BY <1>1 DEF Inductive, CallIsClamped, CursorIsStepped, Stepping, StoreSnapshot
<1>7. call.retried => state = Entering(StepFrame, call.dims)
  BY <1>1 DEF Inductive, RetriedIsUniform, StoreSnapshot, TypeOK
<1>8. RetriedIsUniform'
  BY <1>1, <1>3, <1>7 DEF Inductive, RetriedIsUniform, StoreSnapshot
<1>9. HeldStateIsExact' /\ CacheIsExact'
  BY <1>1, <1>3 DEF Inductive, HeldStateIsExact, CacheIsExact, EntersAtSomeDims, StoreSnapshot
<1> QED
  BY <1>5, <1>6, <1>8, <1>9 DEF Inductive

LEMMA EvalSucceedsStep ==
    ASSUME Inductive, EvalSucceeds
    PROVE  /\ Inductive'
           /\ StepFrame \in Frames /\ StepFrame >= Start
           /\ call \in Calls
           /\ state' = Entering(StepFrame + 1, call.dims)
<1> USE TimelineAssumption
<1>1. /\ call \in Calls /\ call # Nothing
      /\ cursor # NoFrame /\ cursor <= call.frame
      /\ call.frame >= Start
      /\ pc = "eval" /\ call.stateful
  BY DEF Inductive, TypeOK, EvalSucceeds, CursorIsStepped, Stepping, CallIsClamped
<1>2. StepFrame = cursor /\ StepFrame \in Frames /\ StepFrame >= Start
  BY <1>1 DEF StepFrame, Behind, Inductive, TypeOK, HeldStateIsExact, Calls, Frames
<1>3. PICK held \in Dims : state = Entering(StepFrame, held)
  BY <1>1, <1>2 DEF Inductive, HeldStateIsExact, EntersAtSomeDims
<1>4. call.dims \in Dims /\ call.frame \in Frames
  BY <1>1 DEF Calls
<1>5. \A n \in Nodes : Fits(Entering(StepFrame, held)[n], call.dims)
  BY <1>3 DEF EvalSucceeds, AllFit, Nodes
<1>6. state' = Entering(StepFrame + 1, call.dims)
  <2>1. StoppedAt(NodeCount + 1, FALSE, StepFrame)
          = [n \in Nodes |-> Advanced(state[n], call.dims, StepFrame)]
    BY DEF StoppedAt, Nodes
  <2>2. [n \in Nodes |-> Advanced(Entering(StepFrame, held)[n], call.dims, StepFrame)]
          = Entering(StepFrame + 1, call.dims)
    BY <1>2, <1>4, <1>5, EvaluationAdvances
  <2>3. state' = StoppedAt(NodeCount + 1, FALSE, StepFrame)
    BY DEF EvalSucceeds
  <2> QED
    BY <1>3, <2>1, <2>2, <2>3
<1>7. state' \in States
  BY <1>2, <1>4, <1>6, EnteringType DEF Frames
<1>8. EntersAtSomeDims(state', StepFrame + 1)
  BY <1>4, <1>6 DEF EntersAtSomeDims
<1>9. \/ StepFrame = MaxFrame /\ cursor' = NoFrame
      \/ StepFrame # MaxFrame /\ cursor' = StepFrame + 1 /\ cursor' \in Frames
  BY <1>2 DEF EvalSucceeds, FrameAfter, Frames
<1>10. UNCHANGED <<cache, older, cacheBytes, protected, caching, warning>> /\ steps' \in Nat
  BY DEF EvalSucceeds, store, Inductive, TypeOK
<1>11. \/ /\ Behind /\ pc' = "step" /\ UNCHANGED <<call, error, result>>
       \/ /\ ~Behind /\ pc' = "idle" /\ call' = Nothing /\ error' = "none"
          /\ result' = Success(state')
  BY DEF EvalSucceeds, Return
<1>12. TypeOK'
  <2>1. result' \in Results \cup {Nothing}
    BY <1>7, <1>11, ResultType DEF Inductive, TypeOK
  <2> QED
    BY <1>1, <1>7, <1>9, <1>10, <1>11, <2>1 DEF Inductive, TypeOK
<1>13. CallIsClamped'
  BY <1>1, <1>11 DEF CallIsClamped
<1>14. CursorIsStepped'
  BY <1>1, <1>2, <1>4, <1>9, <1>11 DEF CursorIsStepped, Stepping, Behind, Frames
<1>15. RetriedIsUniform'
  BY <1>1, <1>6, <1>9, <1>10, <1>11 DEF Inductive, RetriedIsUniform, Cached
<1>16. HeldStateIsExact' /\ CacheIsExact'
  BY <1>2, <1>8, <1>9, <1>10
  DEF Inductive, HeldStateIsExact, CacheIsExact, Cached, EntersAtSomeDims, Frames
<1> QED
  BY <1>1, <1>2, <1>6, <1>12, <1>13, <1>14, <1>15, <1>16 DEF Inductive

LEMMA EvalFailsStep ==
    ASSUME Inductive, EvalFails
    PROVE  Inductive'
<1>1. Stepping /\ Fail("gpu")
  BY DEF EvalFails, Stepping
<1>2. state' \in States
  BY <1>1, StoppedAtType DEF EvalFails
<1> QED
  BY <1>1, <1>2, FailureStep

\* Once goto has started over, every slot fits, so StateShape cannot recur.
LEMMA ShapeMismatchStep ==
    ASSUME Inductive, ShapeMismatch
    PROVE  Inductive'
<1> USE TimelineAssumption
<1>1. Stepping /\ Fail("shape") /\ pc = "eval"
  BY DEF ShapeMismatch, Stepping
<1>3. PICK k \in Nodes : /\ ~Fits(state[k], call.dims)
                         /\ state' = StoppedAt(k, TRUE, StepFrame)
  BY DEF ShapeMismatch
<1>2. state' \in States
  <2>1. k \in 1..(NodeCount + 1)
    BY DEF Nodes
  <2> QED
    BY <1>1, <1>3, <2>1, StoppedAtType
<1>4. ~call.retried
  <2> SUFFICES ASSUME call.retried PROVE FALSE
    OBVIOUS
  <2>1. cursor # NoFrame /\ call # Nothing
    BY <1>1 DEF Inductive, TypeOK, CursorIsStepped
  <2>2. state = Entering(cursor, call.dims)
    BY <1>1, <2>1 DEF Inductive, RetriedIsUniform
  <2>3. Fits(state[k], call.dims)
    BY <2>2 DEF Entering, EmptyState, Vacant, Fits
  <2> QED
    BY <1>3, <2>3
<1> QED
  BY <1>1, <1>2, <1>4, FailureStep

LEMMA ForgetStep ==
    ASSUME Inductive, ForgetEverything,
           caching' \in BOOLEAN,
           UNCHANGED <<steps, pc, call, error, result>> /\ pc = "idle"
    PROVE  Inductive'
<1> USE TimelineAssumption
<1>1. Cached' = {}
  BY DEF ForgetEverything, Cached
<1>2. TypeOK'
  <2>1. cache' \in [Frames -> States \cup {Nothing}]
    BY DEF ForgetEverything
  <2>2. older' \in SUBSET (Frames \X Frames)
    BY DEF ForgetEverything
  <2> QED
    BY <2>1, <2>2, EmptyStateType DEF Inductive, TypeOK, ForgetEverything, AbandonState
<1>3. CallIsClamped' /\ CursorIsStepped' /\ RetriedIsUniform'
  BY <1>1 DEF Inductive, TypeOK, CallIsClamped, CursorIsStepped, RetriedIsUniform,
              Stepping
<1>4. HeldStateIsExact' /\ CacheIsExact'
  BY <1>1 DEF HeldStateIsExact, CacheIsExact, ForgetEverything, AbandonState
<1> QED
  BY <1>2, <1>3, <1>4 DEF Inductive

LEMMA RetryStep ==
    ASSUME Inductive, Retry
    PROVE  Inductive'
<1> USE TimelineAssumption
<1>1. Cached' = {} /\ cursor' = NoFrame
  BY DEF Retry, ForgetEverything, AbandonState, Cached
<1>2. call \in Calls /\ call # Nothing
  BY DEF Inductive, TypeOK, Retry
<1>3. call' \in Calls /\ call'.frame = call.frame /\ call'.stateful = call.stateful
  BY <1>2 DEF Retry, Calls
<1>4. TypeOK'
  <2>1. cache' \in [Frames -> States \cup {Nothing}]
    BY DEF Retry, ForgetEverything
  <2>2. older' \in SUBSET (Frames \X Frames)
    BY DEF Retry, ForgetEverything
  <2>3. caching' \in BOOLEAN /\ warning' \in BOOLEAN
    BY DEF Retry, ForgetEverything, Inductive, TypeOK
  <2>4. /\ pc = "failed" /\ pc' = "seek" /\ error' = "none" /\ cacheBytes' = 0
        /\ protected' = NoFrame /\ state' = EmptyState /\ UNCHANGED <<steps, result>>
    BY DEF Retry, ForgetEverything, AbandonState
  <2> QED
    BY <1>1, <1>3, <2>1, <2>2, <2>3, <2>4, EmptyStateType DEF Inductive, TypeOK
<1>5. CallIsClamped'
  BY <1>2, <1>3 DEF Inductive, CallIsClamped, Retry
<1>6. CursorIsStepped' /\ RetriedIsUniform'
  BY <1>1 DEF CursorIsStepped, RetriedIsUniform, Stepping, Retry
<1>7. HeldStateIsExact' /\ CacheIsExact'
  BY <1>1 DEF HeldStateIsExact, CacheIsExact
<1> QED
  BY <1>4, <1>5, <1>6, <1>7 DEF Inductive

LEMMA GiveUpStep ==
    ASSUME Inductive, GiveUp
    PROVE  Inductive'
<1> USE TimelineAssumption
<1>1. TypeOK'
  BY EmptyStateType, ResultType DEF Inductive, TypeOK, GiveUp, AbandonState, Return, store
<1>2. CallIsClamped' /\ CursorIsStepped' /\ RetriedIsUniform'
  BY DEF CallIsClamped, CursorIsStepped, RetriedIsUniform, Stepping, GiveUp, Return
<1>3. HeldStateIsExact' /\ CacheIsExact'
  BY DEF Inductive, HeldStateIsExact, CacheIsExact, Cached, EntersAtSomeDims,
         GiveUp, AbandonState, store
<1> QED
  BY <1>1, <1>2, <1>3 DEF Inductive

LEMMA TakeWarningStep ==
    ASSUME Inductive, TakeWarning
    PROVE  Inductive'
<1>1. TypeOK'
  BY DEF Inductive, TypeOK, TakeWarning
<1>2. CallIsClamped' /\ CursorIsStepped' /\ RetriedIsUniform'
  BY DEF Inductive, CallIsClamped, CursorIsStepped, RetriedIsUniform, Stepping, Cached,
         TakeWarning
<1>3. HeldStateIsExact' /\ CacheIsExact'
  BY DEF Inductive, HeldStateIsExact, CacheIsExact, Cached, EntersAtSomeDims, TakeWarning
<1> QED
  BY <1>1, <1>2, <1>3 DEF Inductive

LEMMA StutterStep ==
    ASSUME Inductive, UNCHANGED vars
    PROVE  Inductive'
<1>1. TypeOK'
  BY DEF Inductive, TypeOK, vars, store
<1>2. CallIsClamped' /\ CursorIsStepped' /\ RetriedIsUniform'
  BY DEF Inductive, CallIsClamped, CursorIsStepped, RetriedIsUniform, Stepping, Cached,
         vars, store
<1>3. HeldStateIsExact' /\ CacheIsExact'
  BY DEF Inductive, HeldStateIsExact, CacheIsExact, Cached, EntersAtSomeDims, vars, store
<1> QED
  BY <1>1, <1>2, <1>3 DEF Inductive

-----------------------------------------------------------------------------
LEMMA InitInductive == Init => Inductive
<1> SUFFICES ASSUME Init PROVE Inductive
  OBVIOUS
<1> USE TimelineAssumption
<1>1. Cached = {}
  BY DEF Init, Cached
<1>2. TypeOK
  <2>1. cache \in [Frames -> States \cup {Nothing}]
    BY DEF Init
  <2>2. older \in SUBSET (Frames \X Frames)
    BY DEF Init
  <2>3. caching \in BOOLEAN /\ warning \in BOOLEAN
    BY DEF Init
  <2>4. /\ state = EmptyState /\ cursor = NoFrame /\ cacheBytes = 0
        /\ protected = NoFrame /\ steps = 0 /\ pc = "idle"
        /\ call = Nothing /\ error = "none" /\ result = Nothing
    BY DEF Init
  <2> QED
    BY EmptyStateType, <2>1, <2>2, <2>3, <2>4 DEF TypeOK
<1>3. CallIsClamped /\ CursorIsStepped /\ RetriedIsUniform
  BY <1>1 DEF Init, CallIsClamped, CursorIsStepped, RetriedIsUniform, Stepping
<1>4. HeldStateIsExact /\ CacheIsExact
  BY <1>1 DEF Init, HeldStateIsExact, CacheIsExact
<1> QED
  BY <1>2, <1>3, <1>4 DEF Inductive

LEMMA StepInductive == Inductive /\ [Next]_vars => Inductive'
<1> SUFFICES ASSUME Inductive, [Next]_vars PROVE Inductive'
  OBVIOUS
<1>1. CASE EvalStateless
  BY <1>1, EvalStatelessStep
<1>2. CASE KeepHeld
  BY <1>2, KeepHeldStep
<1>3. CASE Restore
  BY <1>3, RestoreStep
<1>4. CASE RestoreFails
  BY <1>4, RestoreFailsStep
<1>5. CASE StartOver
  BY <1>5, StartOverStep
<1>6. CASE TakeSnapshot \/ SkipSnapshot \/ DropSnapshot
  BY <1>6, MoveOn DEF TakeSnapshot, SkipSnapshot, DropSnapshot, Stepping
<1>7. CASE SnapshotFails
  BY <1>7, FailureStep DEF SnapshotFails, Stepping, Inductive, TypeOK
<1>8. CASE DisableCaching
  BY <1>8, DisableCachingStep
<1>9. CASE Evict
  BY <1>9, EvictStep
<1>10. CASE StoreSnapshot
  BY <1>10, StoreSnapshotStep
<1>11. CASE EvalSucceeds
  BY <1>11, EvalSucceedsStep
<1>12. CASE EvalFails
  BY <1>12, EvalFailsStep
<1>13. CASE ShapeMismatch
  BY <1>13, ShapeMismatchStep
<1>14. CASE Retry
  BY <1>14, RetryStep
<1>15. CASE GiveUp
  BY <1>15, GiveUpStep
<1>16. CASE \E r \in Requests : Goto(r)
  BY <1>16, GotoStep
<1>17. CASE Reset
  <2>1. ForgetEverything /\ caching' \in BOOLEAN
    BY <1>17 DEF Reset
  <2> QED
    BY <1>17, <2>1, ForgetStep DEF Reset
<1>18. CASE Discard
  <2>1. ForgetEverything /\ caching' \in BOOLEAN
    BY <1>18 DEF Discard, Inductive, TypeOK
  <2> QED
    BY <1>18, <2>1, ForgetStep DEF Discard
<1>19. CASE TakeWarning
  BY <1>19, TakeWarningStep
<1>20. CASE UNCHANGED vars
  BY <1>20, StutterStep
<1> QED
  BY <1>1, <1>2, <1>3, <1>4, <1>5, <1>6, <1>7, <1>8, <1>9, <1>10, <1>11, <1>12,
     <1>13, <1>14, <1>15, <1>16, <1>17, <1>18, <1>19, <1>20
  DEF Next, Work

\* The inductive invariant holds of every reachable state.
THEOREM Invariance == Spec => []Inductive
  BY InitInductive, StepInductive, PTL DEF Spec

\* Every variable keeps its type, for any frames, nodes, sizes and budget.
THEOREM TypeCorrect == Spec => []TypeOK
  BY Invariance, PTL DEF Inductive

\* The held state is the one forward playback enters the cursor's frame with.
THEOREM HeldStateCorrect == Spec => []HeldStateIsExact
  BY Invariance, PTL DEF Inductive

\* Each snapshot is the state forward playback enters its frame with.
THEOREM CacheCorrect == Spec => []CacheIsExact
  BY Invariance, PTL DEF Inductive

\* Starting over once is enough: StateShape never reaches the caller.
THEOREM RetrySuffices == Spec => []RetryFindsNoStaleState
<1>1. Inductive => RetryFindsNoStaleState
  BY DEF Inductive, TypeOK, RetriedIsUniform, RetryFindsNoStaleState
<1> QED
  BY <1>1, Invariance, PTL

\* Eviction never takes the protected snapshot.
THEOREM ProtectionHolds == Spec => ProtectedSurvivesEviction
<1>1. ASSUME Inductive, [Next]_vars, protected \in Cached, protected' = protected
      PROVE  protected \in Cached' \/ Cached' = {}
  <2> USE TimelineAssumption
  <2>1. CASE UNCHANGED cache
    BY <1>1, <2>1 DEF Cached
  <2>2. CASE DisableCaching \/ ForgetEverything
    BY <2>2 DEF DisableCaching, ForgetEverything, Cached
  <2>3. CASE Evict
    <3>1. PICK v \in Evictable : RemoveEntry(v)
      BY <2>3 DEF Evict
    <3>2. v # protected
      BY DEF Evictable
    <3>3. cache \in [Frames -> States \cup {Nothing}]
      BY <1>1 DEF Inductive, TypeOK
    <3> QED
      BY <1>1, <3>1, <3>2, <3>3 DEF RemoveEntry, Cached
  <2>4. CASE StoreSnapshot
    <3>1. cache \in [Frames -> States \cup {Nothing}]
      BY <1>1 DEF Inductive, TypeOK
    <3>2. cache' = [cache EXCEPT ![StepFrame] = state] /\ state # Nothing
      BY <1>1, <2>4 DEF StoreSnapshot, Inductive, TypeOK
    <3> QED
      BY <1>1, <3>1, <3>2 DEF Cached
  <2> QED
    BY <1>1, <2>1, <2>2, <2>3, <2>4
    DEF Next, Work, vars, store, Goto, EvalStateless, KeepHeld, Restore, RestoreFails,
        StartOver, TakeSnapshot, SnapshotFails, SkipSnapshot, DropSnapshot, EvalSucceeds,
        EvalFails, ShapeMismatch, Fail, Retry, GiveUp, Reset, Discard, TakeWarning
<1> QED
  BY <1>1, Invariance, PTL DEF Spec, ProtectedSurvivesEviction

-----------------------------------------------------------------------------
(***************************************************************************)
(* The account of the cache.                                               *)
(***************************************************************************)
Less == {p \in Nat \X Nat : p[1] < p[2]}

\* What induction over the numbers rests on here.
LEMMA LeastElement ==
    ASSUME NEW S \in SUBSET Nat, S # {}
    PROVE  \E m \in S : \A n \in S : m <= n
<1>1. IsWellFoundedOn(Less, Nat)
  BY NatLessThanWellFounded DEF OpToRel, Less
<1>2. PICK m \in S : \A n \in S : ~ (<<n, m>> \in Less)
  BY <1>1, WFMin
<1>3. \A n \in S : ~ (n < m)
  BY <1>2 DEF Less
<1> QED
  BY <1>3

LEMMA GreatestElement ==
    ASSUME NEW b \in Nat, NEW S \in SUBSET (0..b), S # {}
    PROVE  \E m \in S : \A n \in S : n <= m
<1> DEFINE R == {k \in Nat : b - k \in S}
<1>1. \A n \in S : b - n \in R
  OBVIOUS
<1>2. R \in SUBSET Nat /\ R # {}
  BY <1>1
<1>3. PICK k \in R : \A n \in R : k <= n
  BY <1>2, LeastElement
<1>4. b - k \in S /\ k \in Nat
  OBVIOUS
<1>5. \A n \in S : n <= b - k
  BY <1>1, <1>3, <1>4
<1> QED
  BY <1>4, <1>5

\* u sums w before each frame up to n.
Sums(u, w, n) ==
    /\ u \in [0..n -> Int]
    /\ u[0] = 0
    /\ \A k \in 1..n : u[k] = u[k - 1] + w[k - 1]

LEMMA SumsExtend ==
    ASSUME NEW w \in [Frames -> Int], NEW m \in 1..(MaxFrame + 1), NEW u, Sums(u, w, m - 1)
    PROVE  \E v : Sums(v, w, m)
<1> DEFINE v == [k \in 0..m |-> IF k = m THEN u[m - 1] + w[m - 1] ELSE u[k]]
<1>1. m - 1 \in Frames /\ m \in Nat
  BY TimelineAssumption DEF Frames
<1>2. u[m - 1] + w[m - 1] \in Int
  BY <1>1 DEF Sums
<1>3. v \in [0..m -> Int]
  BY <1>1, <1>2 DEF Sums
<1>4. v[0] = 0
  BY <1>1 DEF Sums
<1>5. ASSUME NEW k \in 1..m
      PROVE  v[k] = v[k - 1] + w[k - 1]
  <2>1. k \in 0..m /\ k - 1 \in 0..m /\ k - 1 # m /\ v[k - 1] = u[k - 1]
    BY <1>1
  <2>2. CASE k = m
    BY <2>1, <2>2
  <2>3. CASE k # m
    <3>1. k \in 1..(m - 1) /\ v[k] = u[k]
      BY <1>1, <2>1, <2>3
    <3> QED
      BY <2>1, <3>1 DEF Sums
  <2> QED
    BY <2>2, <2>3
<1> HIDE DEF v
<1> QED
  BY <1>3, <1>4, <1>5 DEF Sums

LEMMA SumsExist ==
    ASSUME NEW w \in [Frames -> Int]
    PROVE  \A n \in 0..(MaxFrame + 1) : \E u : Sums(u, w, n)
<1> DEFINE Bad == {n \in 0..(MaxFrame + 1) : ~ \E u : Sums(u, w, n)}
<1> SUFFICES ASSUME Bad # {} PROVE FALSE
  OBVIOUS
<1>1. Bad \in SUBSET Nat
  BY TimelineAssumption
<1>2. PICK m \in Bad : \A k \in Bad : m <= k
  BY <1>1, LeastElement
<1>3. Sums([k \in 0..0 |-> 0], w, 0)
  BY DEF Sums
<1>4. m # 0
  BY <1>3
<1>5. m \in 1..(MaxFrame + 1) /\ m - 1 \in 0..(MaxFrame + 1)
  BY <1>4, TimelineAssumption
<1>6. m - 1 \notin Bad
  BY <1>2, <1>5
<1>7. \E v : Sums(v, w, m)
  BY <1>5, <1>6, SumsExtend
<1> QED
  BY <1>7

\* Two functions that obey the same recurrence agree.
LEMMA SumsUnique ==
    ASSUME NEW w \in [Frames -> Int], NEW u, Sums(u, w, MaxFrame + 1),
           NEW v, v[0] = 0, \A k \in 1..(MaxFrame + 1) : v[k] = v[k - 1] + w[k - 1]
    PROVE  \A k \in 0..(MaxFrame + 1) : v[k] = u[k]
<1> DEFINE Bad == {n \in 0..(MaxFrame + 1) : v[n] # u[n]}
<1> SUFFICES ASSUME Bad # {} PROVE FALSE
  OBVIOUS
<1>1. Bad \in SUBSET Nat
  BY TimelineAssumption
<1>2. PICK m \in Bad : \A k \in Bad : m <= k
  BY <1>1, LeastElement
<1>3. m # 0
  BY DEF Sums
<1>4. m \in 1..(MaxFrame + 1) /\ m - 1 \in 0..(MaxFrame + 1)
  BY <1>3, TimelineAssumption
<1>5. v[m - 1] = u[m - 1]
  BY <1>2, <1>4
<1> QED
  BY <1>4, <1>5 DEF Sums

\* The recursive function in Total is the one that sums w.
LEMMA TotalIsSum ==
    ASSUME NEW w \in [Frames -> Int], NEW u, Sums(u, w, MaxFrame + 1)
    PROVE  Total(w) = u[MaxFrame + 1]
<1> DEFINE P(v) == v = [k \in 0..(MaxFrame + 1) |->
                           IF k = 0 THEN 0 ELSE v[k - 1] + w[k - 1]]
           c == CHOOSE v : P(v)
<1>1. u = [k \in 0..(MaxFrame + 1) |-> u[k]]
  BY DEF Sums
<1>2. \A k \in 0..(MaxFrame + 1) : u[k] = IF k = 0 THEN 0 ELSE u[k - 1] + w[k - 1]
  BY TimelineAssumption DEF Sums
<1>3. P(u)
  BY <1>1, <1>2
<1>4. P(c)
  BY <1>3, Zenon
<1>5. Total(w) = c[MaxFrame + 1]
  BY DEF Total
<1> HIDE DEF c
<1>6. c[0] = 0 /\ \A k \in 1..(MaxFrame + 1) : c[k] = c[k - 1] + w[k - 1]
  BY <1>4, TimelineAssumption
<1> QED
  BY <1>5, <1>6, SumsUnique, TimelineAssumption

LEMMA TotalOfZeros == Total([f \in Frames |-> 0]) = 0
<1> DEFINE w == [f \in Frames |-> 0]
           u == [k \in 0..(MaxFrame + 1) |-> 0]
<1>1. w \in [Frames -> Int]
  OBVIOUS
<1>2. Sums(u, w, MaxFrame + 1)
  BY TimelineAssumption DEF Sums, Frames
<1> HIDE DEF w
<1>3. Total(w) = u[MaxFrame + 1]
  BY <1>1, <1>2, TotalIsSum
<1> QED
  BY <1>3, TimelineAssumption DEF w

\* Changing one term changes the sum by as much.
LEMMA TotalUpdate ==
    ASSUME NEW w \in [Frames -> Int], NEW f \in Frames, NEW d \in Int
    PROVE  Total([w EXCEPT ![f] = d]) = Total(w) - w[f] + d
<1> DEFINE w2 == [w EXCEPT ![f] = d]
<1>1. w2 \in [Frames -> Int] /\ w2[f] = d /\ \A g \in Frames : g # f => w2[g] = w[g]
  OBVIOUS
<1>2. PICK u : Sums(u, w, MaxFrame + 1)
  BY SumsExist, TimelineAssumption
<1> DEFINE v == [k \in 0..(MaxFrame + 1) |-> IF k > f THEN u[k] - w[f] + d ELSE u[k]]
<1>3. u \in [0..(MaxFrame + 1) -> Int] /\ w[f] \in Int /\ f \in 0..MaxFrame
  BY <1>2 DEF Sums, Frames
<1> HIDE DEF w2
<1>4. v \in [0..(MaxFrame + 1) -> Int] /\ v[0] = 0
  BY <1>2, <1>3, TimelineAssumption DEF Sums
<1>5. ASSUME NEW k \in 1..(MaxFrame + 1)
      PROVE  v[k] = v[k - 1] + w2[k - 1]
  <2>1. /\ k \in 0..(MaxFrame + 1) /\ k - 1 \in 0..(MaxFrame + 1) /\ k - 1 \in Frames
        /\ u[k] \in Int /\ u[k - 1] \in Int /\ w[k - 1] \in Int
    BY <1>3, TimelineAssumption DEF Frames
  <2>2. u[k] = u[k - 1] + w[k - 1]
    BY <1>2 DEF Sums
  <2>3. CASE k - 1 = f
    BY <1>1, <1>3, <2>1, <2>2, <2>3
  <2>4. CASE k - 1 # f
    <3>1. w2[k - 1] = w[k - 1] /\ (k > f <=> k - 1 > f)
      BY <1>1, <1>3, <2>1, <2>4
    <3> QED
      BY <1>3, <2>1, <2>2, <3>1
  <2> QED
    BY <2>3, <2>4
<1>6. Sums(v, w2, MaxFrame + 1)
  <2> HIDE DEF v
  <2> QED
    BY <1>4, <1>5 DEF Sums
<1>7. Total(w2) = v[MaxFrame + 1] /\ Total(w) = u[MaxFrame + 1]
  BY <1>1, <1>2, <1>6, TotalIsSum
<1>8. v[MaxFrame + 1] = u[MaxFrame + 1] - w[f] + d
  BY <1>3, TimelineAssumption
<1> QED
  BY <1>7, <1>8 DEF w2

\* While a snapshot is being inserted, the cache is in use and has none for
\* the frame: the new one replaces nothing.
InsertsAfresh == pc = "insert" => caching /\ cache[StepFrame] = Nothing

Accounts == CacheAccounting /\ InsertsAfresh

LEMMA BytesNat ==
    ASSUME NEW s \in States
    PROVE  Bytes(s) \in Nat
  BY TimelineAssumption DEF Bytes, Layouts, States, Slots

LEMMA SnapshotBytesType ==
    ASSUME Inductive
    PROVE  SnapshotBytes \in [Frames -> Int]
  BY BytesNat DEF SnapshotBytes, Inductive, TypeOK

\* An emptied cache accounts for nothing.
LEMMA EmptyAccount ==
    ASSUME Inductive, cache' = [f \in Frames |-> Nothing], cacheBytes' = 0,
           pc' # "insert"
    PROVE  Accounts'
<1>1. SnapshotBytes' = [f \in Frames |-> 0]
  BY DEF SnapshotBytes
<1>2. Cached' = {}
  BY DEF Cached
<1> QED
  BY <1>1, <1>2, TotalOfZeros, TimelineAssumption
  DEF Accounts, CacheAccounting, InsertsAfresh

\* A step that leaves the cache alone leaves the account alone.
LEMMA SameAccount ==
    ASSUME Inductive, Accounts, UNCHANGED <<cache, cacheBytes, caching>>,
           pc' = "insert" => caching /\ cache[StepFrame'] = Nothing
    PROVE  Accounts'
<1>1. SnapshotBytes' = SnapshotBytes /\ Cached' = Cached
  BY DEF SnapshotBytes, Cached
<1> QED
  BY <1>1 DEF Accounts, CacheAccounting, InsertsAfresh

LEMMA EvictAccount ==
    ASSUME Inductive, Accounts, Evict
    PROVE  Accounts'
<1> USE TimelineAssumption
<1>1. PICK v \in Evictable : RemoveEntry(v)
  BY DEF Evict
<1>2. v \in Frames /\ cache[v] # Nothing /\ cache[v] \in States
  BY DEF Evictable, Cached, Inductive, TypeOK
<1>3. cache \in [Frames -> States \cup {Nothing}] /\ cacheBytes \in Int
  BY DEF Inductive, TypeOK
<1>4. cache' = [cache EXCEPT ![v] = Nothing] /\ cacheBytes' = cacheBytes - Bytes(cache[v])
  BY <1>1 DEF RemoveEntry
<1>5. Bytes(cache[v]) \in Nat /\ SnapshotBytes[v] = Bytes(cache[v])
  BY <1>2, BytesNat DEF SnapshotBytes
<1>6. SnapshotBytes' = [SnapshotBytes EXCEPT ![v] = 0]
  BY <1>2, <1>3, <1>4 DEF SnapshotBytes
<1>7. Total(SnapshotBytes') = Total(SnapshotBytes) - SnapshotBytes[v] + 0
  <2>1. SnapshotBytes \in [Frames -> Int]
    BY SnapshotBytesType
  <2>2. \A d \in Int : Total([SnapshotBytes EXCEPT ![v] = d])
                          = Total(SnapshotBytes) - SnapshotBytes[v] + d
    BY <1>2, <2>1, TotalUpdate
  <2>3. 0 \in Int
    OBVIOUS
  <2> QED
    BY <1>6, <2>2, <2>3, Zenon
<1>8. cacheBytes' = Total(SnapshotBytes)'
  BY <1>3, <1>4, <1>5, <1>7 DEF Accounts, CacheAccounting
<1>9. cacheBytes' <= Budget
  BY <1>3, <1>4, <1>5 DEF Accounts, CacheAccounting
<1>10. UNCHANGED <<caching, pc, call, cursor>> /\ pc = "insert"
  BY DEF Evict
<1>11. caching /\ cache'[StepFrame'] = Nothing
  <2>1. StepFrame' = StepFrame
    BY <1>10 DEF StepFrame, Behind
  <2>2. caching /\ cache[StepFrame] = Nothing
    BY <1>10 DEF Accounts, InsertsAfresh
  <2> QED
    BY <1>2, <1>3, <1>4, <2>1, <2>2
<1> QED
  BY <1>8, <1>9, <1>10, <1>11 DEF Accounts, CacheAccounting, InsertsAfresh

LEMMA StoreAccount ==
    ASSUME Inductive, Accounts, StoreSnapshot
    PROVE  Accounts'
<1> USE TimelineAssumption
<1>1. /\ caching /\ cache[StepFrame] = Nothing
      /\ cacheBytes = Total(SnapshotBytes)
      /\ cacheBytes \in Int
  BY DEF Accounts, InsertsAfresh, CacheAccounting, StoreSnapshot, Inductive, TypeOK
<1>2. StepFrame \in Frames
  BY DEF StepFrame, Behind, Inductive, TypeOK, StoreSnapshot, Calls
<1>3. Bytes(state) \in Nat /\ state # Nothing /\ state \in States
  BY BytesNat DEF Inductive, TypeOK
<1>4. /\ cache' = [cache EXCEPT ![StepFrame] = state]
      /\ cacheBytes' = cacheBytes + Bytes(state)
      /\ pc' = "eval" /\ caching' = caching
      /\ cacheBytes + Bytes(state) <= Budget
  BY <1>1, <1>3 DEF StoreSnapshot, TooFull
<1>5. cache \in [Frames -> States \cup {Nothing}]
  BY DEF Inductive, TypeOK
<1>6. SnapshotBytes' = [SnapshotBytes EXCEPT ![StepFrame] = Bytes(state)]
  BY <1>2, <1>3, <1>4, <1>5 DEF SnapshotBytes
<1>7. SnapshotBytes[StepFrame] = 0
  BY <1>1, <1>2 DEF SnapshotBytes
<1>8. Total(SnapshotBytes') = Total(SnapshotBytes) - SnapshotBytes[StepFrame] + Bytes(state)
  <2>1. SnapshotBytes \in [Frames -> Int] /\ Bytes(state) \in Int
    BY <1>3, SnapshotBytesType
  <2>2. Total([SnapshotBytes EXCEPT ![StepFrame] = Bytes(state)])
          = Total(SnapshotBytes) - SnapshotBytes[StepFrame] + Bytes(state)
    BY <1>2, <2>1, TotalUpdate
  <2> QED
    BY <1>6, <2>2
<1>9. cacheBytes' = Total(SnapshotBytes)'
  BY <1>1, <1>3, <1>4, <1>7, <1>8
<1> QED
  BY <1>1, <1>4, <1>9 DEF Accounts, CacheAccounting, InsertsAfresh

LEMMA StepAccounts == Inductive /\ Accounts /\ [Next]_vars => Accounts'
<1> SUFFICES ASSUME Inductive, Accounts, [Next]_vars PROVE Accounts'
  OBVIOUS
<1>1. CASE Evict
  BY <1>1, EvictAccount
<1>2. CASE StoreSnapshot
  BY <1>2, StoreAccount
<1>3. CASE DisableCaching
  BY <1>3, EmptyAccount DEF DisableCaching
<1>4. CASE Retry
  BY <1>4, EmptyAccount DEF Retry, ForgetEverything
<1>5. CASE Reset \/ Discard
  BY <1>5, EmptyAccount DEF Reset, Discard, ForgetEverything
<1>6. CASE TakeSnapshot
  <2>1. StepFrame' = StepFrame
    BY <1>6 DEF TakeSnapshot, StepFrame, Behind
  <2> QED
    BY <1>6, <2>1, SameAccount DEF TakeSnapshot, NeedsSnapshot, store
<1>7. CASE UNCHANGED vars
  <2>1. StepFrame' = StepFrame
    BY <1>7 DEF vars, StepFrame, Behind
  <2> QED
    BY <1>7, <2>1, SameAccount DEF vars, store, Accounts, InsertsAfresh
<1>8. CASE \/ EvalStateless \/ KeepHeld \/ Restore \/ RestoreFails \/ StartOver
           \/ SnapshotFails \/ SkipSnapshot \/ DropSnapshot \/ EvalSucceeds \/ EvalFails
           \/ ShapeMismatch \/ GiveUp \/ TakeWarning \/ (\E r \in Requests : Goto(r))
  <2>1. UNCHANGED <<cache, cacheBytes, caching>> /\ pc' # "insert"
    BY <1>8 DEF EvalStateless, KeepHeld, Restore, RestoreFails, StartOver, SnapshotFails,
         SkipSnapshot, DropSnapshot, EvalSucceeds, EvalFails, ShapeMismatch, Fail, GiveUp,
         Return, TakeWarning, Goto, store
  <2> QED
    BY <2>1, SameAccount
<1> QED
  BY <1>1, <1>2, <1>3, <1>4, <1>5, <1>6, <1>7, <1>8 DEF Next, Work

\* cache_bytes is the sum over the snapshots held, at most the budget, and a
\* disabled cache is empty, whatever was stored, evicted and forgotten.
THEOREM AccountIsExact == Spec => []CacheAccounting
<1>1. Init => Accounts
  <2> SUFFICES ASSUME Init PROVE Accounts
    OBVIOUS
  <2>1. SnapshotBytes = [f \in Frames |-> 0]
    BY DEF Init, SnapshotBytes
  <2> QED
    BY <2>1, TotalOfZeros, TimelineAssumption
    DEF Init, Accounts, CacheAccounting, InsertsAfresh
<1>2. Accounts => CacheAccounting
  BY DEF Accounts
<1> QED
  BY <1>1, <1>2, StepAccounts, Invariance, PTL DEF Spec

-----------------------------------------------------------------------------
(***************************************************************************)
(* The cache spares what it can.                                           *)
(***************************************************************************)
\* While a frame is stepped, no snapshot lies between it and the frame asked
\* for.
Nearest == Stepping => \A f \in Cached : f <= call.frame => f <= cursor

LEMMA CachedUpToExists ==
    ASSUME NEW b \in Frames, NEW f \in Cached, f <= b
    PROVE  \E c \in CachedUpTo(b) : f <= c
<1> DEFINE S == {c \in Cached : c <= b}
<1>1. S \in SUBSET (0..MaxFrame) /\ S # {} /\ f \in S
  BY DEF Cached, Frames
<1>2. PICK c \in S : \A d \in S : d <= c
  BY <1>1, GreatestElement, TimelineAssumption
<1>3. c \in CachedUpTo(b)
  BY <1>2 DEF CachedUpTo
<1> QED
  BY <1>1, <1>2, <1>3

LEMMA SeekNearest ==
    ASSUME Inductive, Accounts, KeepHeld \/ Restore \/ StartOver
    PROVE  Nearest'
<1> USE TimelineAssumption
<1>1. pc = "seek" /\ call \in Calls /\ call' = call /\ Cached' = Cached /\ Cached \subseteq Frames
  BY DEF KeepHeld, Restore, Restorable, StartOver, store, Inductive, TypeOK, Cached
<1>2. call.frame \in Frames
  BY <1>1 DEF Calls
<1> SUFFICES ASSUME NEW f \in Cached, f <= call.frame
             PROVE  f <= cursor'
  BY <1>1 DEF Nearest
<1>3. PICK c \in CachedUpTo(call.frame) : f <= c
  BY <1>2, CachedUpToExists
<1>4. c \in Frames /\ f \in Frames /\ c <= call.frame
  BY <1>3, <1>1 DEF CachedUpTo
<1>5. caching
  BY DEF Accounts, CacheAccounting
<1>6. CASE KeepHeld
  <2>1. cursor' = cursor /\ (cursor = call.frame \/ (cursor \in Frames /\ cursor >= c))
    BY <1>5, <1>6, <1>3 DEF KeepHeld, HeldUpTo, Inductive, TypeOK
  <2> QED
    BY <1>2, <1>3, <1>4, <2>1 DEF Frames
<1>7. CASE Restore
  <2>1. PICK d \in Frames : Restorable(d) /\ cursor' = d
    BY <1>7 DEF Restore
  <2>2. \A e \in Cached : e <= call.frame => e <= d
    BY <2>1 DEF Restorable, CachedUpTo
  <2> QED
    BY <2>1, <2>2
<1>8. CASE StartOver
  BY <1>3, <1>5, <1>8 DEF StartOver
<1> QED
  BY <1>6, <1>7, <1>8

LEMMA StepNearest == Inductive /\ Accounts /\ Nearest /\ [Next]_vars => Nearest'
<1> SUFFICES ASSUME Inductive, Accounts, Nearest, [Next]_vars PROVE Nearest'
  OBVIOUS
<1> USE TimelineAssumption
<1>1. CASE KeepHeld \/ Restore \/ StartOver
  BY <1>1, SeekNearest
<1>2. CASE TakeSnapshot \/ SkipSnapshot \/ DropSnapshot \/ UNCHANGED vars
  <2>1. UNCHANGED <<cache, call, cursor>> /\ (Stepping' => Stepping)
    BY <1>2 DEF TakeSnapshot, SkipSnapshot, DropSnapshot, store, vars, Stepping
  <2> QED
    BY <2>1 DEF Nearest, Cached
<1>3. CASE DisableCaching
  BY <1>3 DEF DisableCaching, Nearest, Cached
<1>4. CASE Evict
  <2>1. PICK v \in Evictable : RemoveEntry(v)
    BY <1>4 DEF Evict
  <2>2. Cached' \subseteq Cached
    BY <2>1 DEF RemoveEntry, Cached, Inductive, TypeOK
  <2> QED
    BY <1>4, <2>2 DEF Evict, Nearest, Stepping
<1>5. CASE StoreSnapshot
  <2>1. call \in Calls /\ cursor \in Frames /\ cursor <= call.frame
    BY <1>5 DEF Inductive, TypeOK, StoreSnapshot, CursorIsStepped, Stepping
  <2>2. StepFrame = cursor
    BY <2>1 DEF StepFrame, Behind, Calls, Frames
  <2>3. Cached' \subseteq Cached \cup {cursor}
    BY <1>5, <2>2 DEF StoreSnapshot, Cached, Inductive, TypeOK
  <2> QED
    BY <1>5, <2>1, <2>3 DEF StoreSnapshot, Nearest, Stepping, Frames
<1>6. CASE EvalSucceeds
  <2>1. /\ call \in Calls /\ cursor \in Frames
        /\ Cached' = Cached /\ Cached \subseteq Frames
        /\ \A f \in Cached : f <= call.frame => f <= cursor
    BY <1>6 DEF Inductive, TypeOK, EvalSucceeds, CursorIsStepped, Stepping, Nearest,
         Cached, store
  <2>2. CASE Behind
    <3>1. cursor # MaxFrame /\ StepFrame = cursor /\ call' = call
      BY <1>6, <2>1, <2>2 DEF Behind, StepFrame, Frames, Calls, EvalSucceeds
    <3>2. cursor' = cursor + 1
      BY <1>6, <3>1 DEF EvalSucceeds, FrameAfter
    <3> QED
      BY <2>1, <3>1, <3>2 DEF Nearest, Frames
  <2>3. CASE ~Behind
    BY <1>6, <2>3 DEF EvalSucceeds, Return, Nearest, Stepping
  <2> QED
    BY <2>2, <2>3
<1>7. CASE \/ EvalStateless \/ RestoreFails \/ SnapshotFails \/ EvalFails \/ ShapeMismatch
           \/ Retry \/ GiveUp \/ Reset \/ Discard \/ TakeWarning
           \/ (\E r \in Requests : Goto(r))
  <2>1. ~Stepping'
    BY <1>7 DEF EvalStateless, RestoreFails, SnapshotFails, EvalFails, ShapeMismatch, Fail,
         Retry, GiveUp, Return, Reset, Discard, TakeWarning, Goto, Stepping
  <2> QED
    BY <2>1 DEF Nearest
<1> QED
  BY <1>1, <1>2, <1>3, <1>4, <1>5, <1>6, <1>7 DEF Next, Work

\* Only the evaluation counts a step, and only seeking chooses a state.
LEMMA StepSpares ==
    ASSUME Inductive, Accounts, Nearest, [Next]_vars
    PROVE  /\ pc = "eval" /\ steps' = steps + 1
                  => ~\E f \in Cached : StepFrame < f /\ f <= call.frame
           /\ pc = "seek" /\ HeldUpTo(call.frame) /\ cursor' # cursor
                  => cursor' > cursor
<1> USE TimelineAssumption
<1>1. ASSUME pc = "eval" PROVE ~\E f \in Cached : StepFrame < f /\ f <= call.frame
  <2>1. call \in Calls /\ cursor \in Frames /\ cursor <= call.frame
    BY <1>1 DEF Inductive, TypeOK, CursorIsStepped, Stepping
  <2>2. StepFrame = cursor
    BY <2>1 DEF StepFrame, Behind, Calls, Frames
  <2> QED
    BY <1>1, <2>1, <2>2 DEF Nearest, Stepping, Cached, Frames
<1>2. ASSUME pc = "seek", HeldUpTo(call.frame), cursor' # cursor
      PROVE  cursor' > cursor
  <2>1. CASE Restore
    BY <1>2, <2>1 DEF Restore, Restorable, HeldUpTo, Inductive, TypeOK, Frames
  <2>2. CASE KeepHeld \/ RestoreFails \/ StartOver \/ UNCHANGED vars
    BY <1>2, <2>2 DEF KeepHeld, RestoreFails, StartOver, vars
  <2> QED
    BY <1>2, <2>1, <2>2
    DEF Next, Work, EvalStateless, TakeSnapshot, SnapshotFails, SkipSnapshot, DisableCaching,
        Evict, DropSnapshot, StoreSnapshot, EvalSucceeds, EvalFails, ShapeMismatch, Retry,
        GiveUp, Goto, Reset, Discard, TakeWarning
<1> QED
  BY <1>1, <1>2

\* A cache hit costs one step: no frame is evaluated that a snapshot, or the
\* state in hand, would have spared.
THEOREM HitsAreUsed == Spec => NoFrameIsRecomputed
<1>1. Init => Accounts /\ Nearest
  <2> SUFFICES ASSUME Init PROVE Accounts /\ Nearest
    OBVIOUS
  <2>1. SnapshotBytes = [f \in Frames |-> 0]
    BY DEF Init, SnapshotBytes
  <2> QED
    BY <2>1, TotalOfZeros, TimelineAssumption
    DEF Init, Accounts, CacheAccounting, InsertsAfresh, Nearest, Stepping
<1>2. Inductive /\ Accounts /\ Nearest /\ [Next]_vars =>
        /\ pc = "eval" /\ steps' = steps + 1
                  => ~\E f \in Cached : StepFrame < f /\ f <= call.frame
        /\ pc = "seek" /\ HeldUpTo(call.frame) /\ cursor' # cursor
                  => cursor' > cursor
  BY StepSpares
<1> QED
  BY <1>1, <1>2, StepAccounts, StepNearest, Invariance, PTL DEF Spec, NoFrameIsRecomputed

-----------------------------------------------------------------------------
(***************************************************************************)
(* The timeline implements forward playback: goto asks, a returned frame   *)
(* is delivered, an error is refused, and every other step is invisible.   *)
(***************************************************************************)
\* The request the abstract specification sees.
Asked ==
    IF pc = "idle" THEN Nothing
    ELSE [frame |-> call.frame, dims |-> call.dims, stateful |-> call.stateful]

LEMMA AskedIsRequest ==
    ASSUME Inductive, pc # "idle"
    PROVE  /\ Asked \in Requests /\ Asked # Nothing
           /\ Output[Asked] = IF call.stateful THEN Entering(call.frame + 1, call.dims)
                              ELSE EmptyState
<1> USE TimelineAssumption
<1>1. call \in Calls /\ call.frame >= Start
  BY DEF Inductive, TypeOK, CallIsClamped
<1>2. Asked = [frame |-> call.frame, dims |-> call.dims, stateful |-> call.stateful]
  BY DEF Asked
<1>3. Asked \in Requests
  BY <1>1, <1>2 DEF Requests, Calls
<1>4. Clamped(Asked.frame) = call.frame
  BY <1>1, <1>2 DEF Clamped, Calls, Frames
<1> QED
  BY <1>2, <1>3, <1>4 DEF Output

LEMMA GotoAsks ==
    ASSUME Inductive, NEW r \in Requests, Goto(r)
    PROVE  Abstract!Next
<1> USE TimelineAssumption
<1>1. Asked = Nothing /\ result' = Nothing /\ pc' # "idle"
  BY DEF Asked, Goto
<1>2. Inductive'
  BY GotoStep
<1>3. Asked' = [frame |-> call'.frame, dims |-> call'.dims, stateful |-> call'.stateful]
  BY <1>1 DEF Asked
<1>4. call' \in Calls
  BY <1>1, <1>2 DEF Inductive, TypeOK
<1>5. Asked' \in Requests
  BY <1>3, <1>4 DEF Requests, Calls
<1>6. Abstract!Ask(Asked')
  BY <1>1 DEF Abstract!Ask, Asked
<1> QED
  BY <1>5, <1>6 DEF Abstract!Next

LEMMA ReturnReplies ==
    ASSUME Inductive, pc # "idle", NEW r,
           Return(r),
           r = Failure \/ r = Success(Output[Asked])
    PROVE  Abstract!Next
<1>1. Asked # Nothing /\ Asked' = Nothing /\ result' = r
  BY AskedIsRequest DEF Return, Asked
<1>2. CASE r = Failure
  BY <1>1, <1>2 DEF Abstract!Next, Abstract!Refuse, Abstract!Failure, Failure, Asked
<1>3. CASE r = Success(Output[Asked])
  BY <1>1, <1>3 DEF Abstract!Next, Abstract!Deliver, Abstract!Success, Success, Asked
<1> QED
  BY <1>2, <1>3

\* A step that neither begins nor ends a call changes nothing of what the
\* caller sees.
LEMMA InvisibleStep ==
    ASSUME pc = "idle" <=> pc' = "idle", UNCHANGED result,
           pc = "idle" \/
               (/\ call'.frame = call.frame
                /\ call'.dims = call.dims
                /\ call'.stateful = call.stateful)
    PROVE  UNCHANGED Abstract!vars
  BY DEF Abstract!vars

LEMMA StepRefines ==
    Inductive /\ [Next]_vars => [Abstract!Next]_(Abstract!vars)
<1> SUFFICES ASSUME Inductive, [Next]_vars
             PROVE  Abstract!Next \/ UNCHANGED Abstract!vars
  OBVIOUS
<1>1. CASE \E r \in Requests : Goto(r)
  BY <1>1, GotoAsks
<1>2. CASE EvalStateless
  <2>1. pc # "idle" /\ ~call.stateful
    BY <1>2 DEF EvalStateless, Inductive, TypeOK, CallIsClamped
  <2>2. Output[Asked] = EmptyState
    BY <2>1, AskedIsRequest
  <2> QED
    BY <1>2, <2>1, <2>2, ReturnReplies DEF EvalStateless
<1>3. CASE GiveUp
  BY <1>3, ReturnReplies DEF GiveUp
<1>4. CASE EvalSucceeds /\ ~Behind
  <2>1. pc # "idle" /\ call.stateful
    BY <1>4 DEF EvalSucceeds, Inductive, TypeOK, CallIsClamped
  <2>2. StepFrame = call.frame
    BY <1>4 DEF StepFrame
  <2>3. state' = Output[Asked]
    BY <1>4, <2>1, <2>2, AskedIsRequest, EvalSucceedsStep
  <2> QED
    BY <1>4, <2>1, <2>3, ReturnReplies DEF EvalSucceeds
<1>5. CASE EvalSucceeds /\ Behind
  <2>1. pc # "idle" /\ pc' # "idle" /\ UNCHANGED <<call, result>>
    BY <1>5 DEF EvalSucceeds
  <2> QED
    BY <2>1, InvisibleStep
<1>6. CASE Retry
  <2>1. pc # "idle" /\ pc' # "idle" /\ UNCHANGED result
    BY <1>6 DEF Retry
  <2>2. call \in Calls
    BY <2>1 DEF Inductive, TypeOK
  <2>3. /\ call'.frame = call.frame
        /\ call'.dims = call.dims
        /\ call'.stateful = call.stateful
    BY <1>6, <2>2 DEF Retry, Calls
  <2> QED
    BY <2>1, <2>3, InvisibleStep
<1>7. CASE Reset \/ Discard \/ TakeWarning \/ UNCHANGED vars
  <2>1. UNCHANGED <<pc, call, result>>
    BY <1>7 DEF Reset, Discard, TakeWarning, vars
  <2> QED
    BY <2>1, InvisibleStep
<1>8. CASE KeepHeld \/ Restore \/ RestoreFails \/ StartOver \/ TakeSnapshot
           \/ SnapshotFails \/ SkipSnapshot \/ DisableCaching \/ Evict \/ DropSnapshot
           \/ StoreSnapshot \/ EvalFails \/ ShapeMismatch
  <2>1. pc # "idle" /\ pc' # "idle" /\ UNCHANGED <<call, result>>
    BY <1>8 DEF KeepHeld, Restore, RestoreFails, Restorable, StartOver, TakeSnapshot,
         SnapshotFails, SkipSnapshot, DisableCaching, Evict, DropSnapshot, StoreSnapshot,
         EvalFails, ShapeMismatch, Fail
  <2> QED
    BY <2>1, InvisibleStep
<1> QED
  BY <1>1, <1>2, <1>3, <1>4, <1>5, <1>6, <1>7, <1>8 DEF Next, Work

\* Whatever was scrubbed, resized, evicted or failed before, a call is answered
\* with exactly what forward playback gives for its frame, or with an error.
THEOREM PlaybackRefinement == Spec => ImplementsPlayback
<1>1. Init => Abstract!Init
  BY DEF Init, Abstract!Init
<1> QED
  BY <1>1, StepRefines, Invariance, PTL DEF Spec, ImplementsPlayback, Abstract!Spec

\* All of it together: whatever was scrubbed, evicted, resized or failed, each
\* state that a node can be given is the one forward playback would give it.
THEOREM StatesAlwaysExact == Spec => []StatesAreExact
  BY TypeCorrect, HeldStateCorrect, CacheCorrect, RetrySuffices, PTL DEF StatesAreExact
=============================================================================
