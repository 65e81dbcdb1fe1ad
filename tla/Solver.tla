------------------------------- MODULE Solver -------------------------------
(***************************************************************************)
(* The solver node (solver.rs): the textures it takes, the order in which  *)
(* its stages use them, and what becomes of them when a step fails.        *)
(*                                                                         *)
(* A frame is a program: sequences of instructions, given by the mode, run *)
(* one at a time.  Any of them that reaches the GPU may fail.  Textures    *)
(* come from a pool that hands the last one returned out first, while work *)
(* recorded earlier may not have run yet; the program is right when no     *)
(* dispatch can be overtaken by a later owner of a texture it uses.        *)
(***************************************************************************)
EXTENDS Multigrid, Substeps

CONSTANTS
    Modes,          \* the solver's parameters and connected sockets
    Speeds,         \* what a frame may measure, in cells per frame
    MaxFrames,      \* bound on the frames of a behaviour
    MaxFailures     \* bound on its failures

ASSUME SolverAssumption ==
    /\ Modes # {} /\ Speeds \subseteq Nat
    /\ \A m \in Modes :
           /\ m.cfl \in Nat \ {0}
           /\ m.pressure \in {"gauss_seidel", "multigrid", "mgpcg"}
           /\ m.iterations \in Nat /\ m.sweeps \in Nat
           /\ {m.fire, m.surface, m.collider, m.emission, m.wind, m.vorticity,
               m.maccormack, m.conserve, m.closed} \subseteq BOOLEAN

VARIABLES
    mode,           \* the mode of the current or the last frame
    seg, pc,        \* the program counter
    speed, plan,    \* step_frame's locals, while the substeps run
    left,           \* the substeps left
    bound,          \* the texture of each name in scope
    free,           \* FieldPool.free: a stack of textures for each shape
    retired,        \* Substep.retired
    content,        \* what last wrote each texture, "none" since it was acquired
    recorded,       \* textures used by dispatches not yet submitted
    flushed,        \* textures used by this batch's earlier submissions
    store,          \* the node's state slots
    made,           \* textures created, for each shape
    dropped,        \* textures given up instead of returned
    settled,        \* {the mode of the last frame}, when it completed
    frame, failures

vars == <<mode, seg, pc, speed, plan, left, bound, free, retired, content, recorded, flushed,
          store, made, dropped, settled, frame, failures>>
textures == <<bound, free, retired, content, store, made, dropped>>
batch == <<recorded, flushed>>
steps == <<speed, plan, left>>

PoolShapes == Range(Axes) \union Range(Shapes)
Slots == MassSlots \union PcgSlots \union Range(SolidCount) \union {"sum"}

-----------------------------------------------------------------------------
(* The program of a frame *)

StateNames(m) ==
    Velocity \union {"density", "temperature", "pressure"}
      \union (IF m.fire THEN {"fuel", "react"} ELSE {})
      \union (IF m.surface THEN {"burned"} ELSE {})

\* An operation that can fail and keeps nothing.
Check == <<Instruction("check", {}, "none", {}, {})>>

ZeroedVelocity ==
    LET face(a) == AcquireZeroed(Faces[a], Axes[a])
    IN  face(1) \o Dropping(face(2), {"vx"}) \o Dropping(face(3), {"vx", "vy"})

Zeroed ==
    ZeroedVelocity \o AcquireZeroed("density", "cells")
      \o AcquireZeroed("temperature", "cells") \o AcquireZeroed("pressure", "cells")

AddFire == AcquireZeroed("fuel", "cells") \o AcquireZeroed("react", "cells")
AddSurface == AcquireZeroed("burned", "cells")

FirstState(m) == Zeroed \o When(m.fire, AddFire) \o When(m.surface, AddSurface)

\* The inputs' textures are written upstream and given to the node.
Input(name, shape) == <<Instruction("input", {name}, shape, {}, {name})>>
InputFaces(names) == FlattenSeq([a \in 1..3 |-> Input(names[a], Axes[a])])

Inputs(m) ==
    Input("src_density", "cells") \o Input("src_temperature", "cells")
      \o When(m.emission, Input("weight", "cells") \o InputFaces(Target))
      \o When(m.collider, Input("sdf", "cells") \o InputFaces(Moving))
      \o When(m.fire, Input("src_fuel", "cells"))
      \o When(m.surface, Input("load", "cells"))

InputNames ==
    {"src_density", "src_temperature", "weight", "sdf", "src_fuel", "load"}
      \union Range(Target) \union Range(Moving)

Solidify ==
    Acquire("mask", "cells")
      \o <<Instruction("run", {}, "solidify", {"sdf"}, {"mask"})>>

Measure == <<Instruction("measure", {}, "none", Velocity, {})>>

Enter(m) == Check \o Inputs(m) \o When(m.collider, Solidify) \o Measure

-----------------------------------------------------------------------------
(* A substep *)

\* Both scratch fields wait in retired from the start; here they are named
\* until their last use.
SurfaceStage(m) ==
    Acquire("emitted", "cells") \o Freeing(Acquire("rate", "cells"), {"emitted"})
      \o SurfaceBurn(m) \o SurfaceGather(m) \o EmitFuel("rate")
      \o Retire({"emitted", "rate"})

FireStage(m) == EmitFuel("src_fuel") \o When(m.surface, SurfaceStage(m)) \o Burn

ConfineVorticity(m) ==
    FlattenSeq([i \in 1..4 |->
                  Acquire(<<"omega0", "omega1", "omega2", "omega3">>[i], "cells")])
      \o Curl(m) \o Confine(m) \o Retire(Omega)

MacCormack(m, src, shape, dst) ==
    Acquire("fwd", shape) \o Acquire("bwd", shape)
      \o AdvectKernel(m, "forward", src, src, "fwd")
      \o AdvectKernel(m, "backward", src, "fwd", "bwd")
      \o MacCormackKernel(m, src, dst)
      \o Retire({"fwd", "bwd"})

AdvectGrid(m, src, shape, dst) ==
    Acquire(dst, shape)
      \o IF m.maccormack THEN MacCormack(m, src, shape, dst)
                         ELSE AdvectKernel(m, "semi_lagrangian", src, src, dst)

AdvectVelocity(m) ==
    FlattenSeq([a \in 1..3 |-> AdvectGrid(m, Faces[a], Axes[a], Axes[a])])
      \o FlattenSeq([a \in 1..3 |-> Replace(Faces[a], Axes[a])])

PreProjection(m) ==
    Emit("density", "src_density") \o Emit("temperature", "src_temperature")
      \o When(m.fire, FireStage(m))
      \o When(m.emission, BlendVelocity(m))
      \o Buoyancy(m)
      \o When(m.wind, Wind(m))
      \o When(m.vorticity, ConfineVorticity(m))
      \o AdvectVelocity(m)

RecordProjection(m) ==
    Divergence
      \o (CASE m.pressure = "gauss_seidel" -> SolvePressure(m)
            [] m.pressure = "multigrid" ->
                 Hierarchy(m) \o VCycles(m, "pressure", "div", m.iterations)
                   \o Retire(HierarchyNames)
            [] m.pressure = "mgpcg" ->
                 Hierarchy(m) \o Mgpcg(m) \o Retire(HierarchyNames))
      \o SubtractGradient(m)

Project(m) == Acquire("div", "cells") \o RecordProjection(m) \o Retire({"div"})

AdvectScalar(m, src) ==
    When(m.conserve,
         NewTarget(MassSlots) \o Acquire("scratch", "cells")
           \o MeasureBefore(m, src) \o Retire({"scratch"}))
      \o AdvectGrid(m, src, "cells", "dst")
      \o When(m.conserve, CorrectAfter("dst"))
      \o Replace(src, "dst")

AdvectScalars(m) ==
    AdvectScalar(m, "density") \o AdvectScalar(m, "temperature")
      \o When(m.fire, AdvectScalar(m, "fuel") \o AdvectScalar(m, "react"))

Submit == <<Instruction("submit", {}, "none", {}, {})>>

Substep(m) == Check \o PreProjection(m) \o Project(m) \o AdvectScalars(m) \o Submit

-----------------------------------------------------------------------------
(* The rest of the frame *)

OutFaces == <<"out2x", "out2y", "out2z">>
OutputNames == {"out0", "out1", "out3", "out4", "out5"} \union Range(OutFaces)

DuplicateVelocity == FlattenSeq([a \in 1..3 |-> Duplicate(OutFaces[a], Axes[a], Faces[a])])

FlameOutput(m) ==
    IF m.fire THEN Acquire("out3", "cells")
                     \o <<[Flame("out3")[1] EXCEPT !.op = "run"]>>
              ELSE AcquireZeroed("out3", "cells")

CharOutput(m) ==
    IF m.surface THEN Acquire("out4", "cells")
                        \o <<[SurfaceChar("out4")[1] EXCEPT !.op = "run"]>>
                 ELSE AcquireZeroed("out4", "cells")

FuelOutput(m) ==
    IF m.fire THEN Duplicate("out5", "cells", "fuel") ELSE AcquireZeroed("out5", "cells")

CopyOutputs(m) ==
    When(0 \in m.wanted, Duplicate("out0", "cells", "density"))
      \o When(1 \in m.wanted, Duplicate("out1", "cells", "temperature"))
      \o When(2 \in m.wanted, DuplicateVelocity)
      \o When(3 \in m.wanted, FlameOutput(m))
      \o When(4 \in m.wanted, CharOutput(m))
      \o When(5 \in m.wanted, FuelOutput(m))

PutState(m) == <<Instruction("put", StateNames(m), "none", {}, {})>>

\* The outputs go to the evaluator, which returns them once they are read.
Leave(m) ==
    Release({"mask"}) \o CopyOutputs(m) \o Release(InputNames) \o PutState(m)
      \o Release(OutputNames)

-----------------------------------------------------------------------------
(* After a failure: the failing stage's fields that are neither dropped nor
   freed are retired, the substep is abandoned, and step, run and eval give
   back the mask, the outputs, the inputs and the state in turn. *)

Owned(m) == StateNames(m) \union InputNames \union OutputNames \union {"mask"}

\* Faulty variant of Abandon: it does not wait for the GPU.
AbandonAtOnce == <<Instruction("discard", {}, "none", {}, {})>>

\* Work already flushed may still read retired fields.
Abandon ==
    <<Instruction("wait", {}, "none", {}, {}), Instruction("discard", {}, "none", {}, {})>>

\* Faulty variant of Cleanup: eval puts the state of a failed step back.
CleanupPutsBack(m) ==
    <<Instruction("retire_locals", Owned(m), "none", {}, {})>> \o Abandon
      \o Release({"mask"}) \o Release(OutputNames) \o Release(InputNames)
      \o PutState(m)

Cleanup(m) ==
    <<Instruction("retire_locals", Owned(m), "none", {}, {})>> \o Abandon
      \o Release({"mask"}) \o Release(OutputNames) \o Release(InputNames)
      \o Release(StateNames(m))

Program == [m \in Modes |->
    [zeroed |-> FirstState(m), enter |-> Enter(m), substep |-> Substep(m),
     leave |-> Leave(m), cleanup |-> Cleanup(m)]]

\* The part that follows each; after "enter" it is MeasureSpeed that goes on.
After == [zeroed |-> "enter", substep |-> "leave", leave |-> "idle", cleanup |-> "idle"]

-----------------------------------------------------------------------------
(* The machine that runs the program *)

EmptyBinding == <<>>        \* the function with no argument

Running == seg # "idle"
Current == Program[mode][seg][pc]
Doing(op) == Running /\ Current.op = op

In(names) == names \intersect DOMAIN bound
TexturesOf(names) == {bound[n] : n \in In(names)}
Listed(set) == FoldSet(LAMBDA t, list : Append(list, t), <<>>, set)
Without(names) == [n \in DOMAIN bound \ names |-> bound[n]]
Naming(b, name, texture) == [n \in DOMAIN b \union {name} |-> IF n = name THEN texture ELSE b[n]]
Written(set, by) == [t \in DOMAIN content \union set |-> IF t \in set THEN by ELSE content[t]]

\* FieldPool.release, for each of a sequence of textures.
Returned(list) ==
    LET upTo[i \in 0..Len(list)] ==
            IF i = 0 THEN free
            ELSE [upTo[i - 1] EXCEPT ![list[i][1]] = Append(@, list[i])]
    IN  upTo[Len(list)]

NoSteps == speed' = 0 /\ plan' = NoPlan /\ left' = 0

\* The next instruction, of this part of the program or of the next.
Advance ==
    IF pc < Len(Program[mode][seg])
    THEN pc' = pc + 1 /\ UNCHANGED <<seg, steps>>
    ELSE /\ pc' = 1 /\ seg \in DOMAIN After
         /\ IF seg = "substep" /\ left > 1
            THEN left' = left - 1 /\ UNCHANGED <<seg, speed, plan>>
            ELSE seg' = After[seg] /\ NoSteps

Continue == Advance /\ UNCHANGED <<mode, frame, failures>>

\* Take a texture of this shape: the last one returned, or a new one, whose
\* contents nobody may rely on.
Take(name, shape, holds) ==
    LET reused == free[shape] # <<>>
        texture == IF reused THEN Last(free[shape]) ELSE <<shape, made[shape] + 1>>
    IN  /\ free' = IF reused THEN [free EXCEPT ![shape] = Front(@)] ELSE free
        /\ made' = IF reused THEN made ELSE [made EXCEPT ![shape] = @ + 1]
        /\ bound' = Naming(bound, name, texture)
        /\ content' = Written({texture}, holds)
        /\ UNCHANGED <<retired, store, dropped>>

AcquireField ==
    /\ Doing("acquire")
    /\ \E name \in Current.names : Take(name, Current.kernel, "none")
    /\ Continue
    /\ UNCHANGED <<batch, settled>>

TakeInput ==
    /\ Doing("input")
    /\ \E name \in Current.names : Take(name, Current.kernel, "upstream")
    /\ Continue
    /\ UNCHANGED <<batch, settled>>

NewSlots ==
    /\ Doing("target")
    /\ bound' = [n \in DOMAIN bound \union Current.names |->
                   IF n \in Current.names THEN <<"slot", n>> ELSE bound[n]]
    /\ content' = Written({<<"slot", s>> : s \in Current.names}, "none")
    /\ Continue
    /\ UNCHANGED <<free, retired, store, made, dropped, batch, settled>>

\* A dispatch takes effect in the order of recording, once it is submitted.
Record ==
    /\ Doing("record")
    /\ recorded' = recorded \union TexturesOf(Current.reads \union Current.writes)
    /\ content' = Written(TexturesOf(Current.writes), Current.kernel)
    /\ Continue
    /\ UNCHANGED <<bound, free, retired, store, made, dropped, flushed, settled>>

\* A batch of one dispatch, submitted at once.
RunOne ==
    /\ Doing("run")
    /\ content' = Written(TexturesOf(Current.writes), Current.kernel)
    /\ Continue
    /\ UNCHANGED <<bound, free, retired, store, made, dropped, batch, settled>>

FlushBatch ==
    /\ Doing("flush")
    /\ flushed' = flushed \union recorded
    /\ recorded' = {}
    /\ Continue
    /\ UNCHANGED <<textures, settled>>

\* Faulty variant of SubmitBatch: the retired fields are dropped, not returned.
SubmitBatchDropping ==
    /\ Doing("submit")
    /\ recorded' = {} /\ flushed' = {}
    /\ dropped' = dropped \union Range(retired) /\ retired' = <<>>
    /\ bound' = Without(Slots)
    /\ Continue
    /\ UNCHANGED <<free, content, store, made, settled>>

\* The last submission: what was retired may now go back to the pool, even
\* if the submission reports an error.
SubmitBatch ==
    /\ Doing("submit")
    /\ recorded' = {} /\ flushed' = {}
    /\ free' = Returned(retired) /\ retired' = <<>>
    /\ bound' = Without(Slots)
    /\ Continue
    /\ UNCHANGED <<content, store, made, dropped, settled>>

RetireFields ==
    /\ Doing("retire")
    /\ retired' = retired \o Listed(TexturesOf(Current.names))
    /\ bound' = Without(Current.names)
    /\ Continue
    /\ UNCHANGED <<free, content, store, made, dropped, batch, settled>>

ReplaceField ==
    /\ Doing("replace")
    /\ \E name \in Current.names :
         /\ retired' = Append(retired, bound[name])
         /\ bound' = Naming(Without({Current.kernel}), name, bound[Current.kernel])
    /\ Continue
    /\ UNCHANGED <<free, content, store, made, dropped, batch, settled>>

ReleaseFields ==
    /\ Doing("release")
    /\ free' = Returned(Listed(TexturesOf(Current.names)))
    /\ bound' = Without(Current.names)
    /\ settled' = IF seg = "leave" /\ pc = Len(Program[mode][seg]) THEN {mode} ELSE settled
    /\ Continue
    /\ UNCHANGED <<retired, content, store, made, dropped, batch>>

Checked ==
    /\ Doing("check")
    /\ Continue
    /\ UNCHANGED <<textures, batch, settled>>

\* The one measurement of a frame settles how many substeps it takes.
MeasureSpeed ==
    /\ Doing("measure")
    /\ speed' \in Speeds
    /\ plan' = PlanSubsteps(speed', mode.cfl)
    /\ left' = plan'.count
    /\ seg' = "substep" /\ pc' = 1
    /\ UNCHANGED <<mode, frame, failures, textures, batch, settled>>

Put ==
    /\ Doing("put")
    /\ store' = [n \in In(Current.names) |-> bound[n]]
    /\ bound' = Without(Current.names)
    /\ Continue
    /\ UNCHANGED <<free, retired, content, made, dropped, batch, settled>>

\* Faulty variant of RetireLocals: an error arm returns without retiring.
RetireLocalsNot ==
    /\ Doing("retire_locals")
    /\ bound' = Without(Slots)
    /\ Continue
    /\ UNCHANGED <<free, retired, content, store, made, dropped, batch, settled>>

RetireLocals ==
    /\ Doing("retire_locals")
    /\ LET locals == DOMAIN bound \ (Current.names \union Slots)
       IN  /\ retired' = retired \o Listed(TexturesOf(locals))
           /\ bound' = Without(locals \union Slots)
    /\ Continue
    /\ UNCHANGED <<free, content, store, made, dropped, batch, settled>>

Wait ==
    /\ Doing("wait")
    /\ flushed' = {}
    /\ Continue
    /\ UNCHANGED <<recorded, textures, settled>>

Discard ==
    /\ Doing("discard")
    /\ recorded' = {}
    /\ free' = Returned(retired) /\ retired' = <<>>
    /\ Continue
    /\ UNCHANGED <<bound, content, store, made, dropped, flushed, settled>>

-----------------------------------------------------------------------------
(* Failures *)

\* A texture in the pool is handed out without asking the GPU; an empty
\* batch submits nothing.
MayFail ==
    \/ Current.op = "acquire" /\ free[Current.kernel] = <<>>
    \/ Current.op \in {"check", "target", "record", "run", "measure"}
    \/ Current.op \in {"flush", "submit"} /\ recorded # {}

\* A flush that fails still counts as a submission, for the queue may be
\* running it.
Fail ==
    /\ Running /\ MayFail /\ failures < MaxFailures
    /\ LET submits == Current.op \in {"flush", "submit"}
           last == Current.op = "submit"
           lost == In(Current.drop)
           given == In(Current.free)
           back == Listed(TexturesOf(given))
       IN  /\ dropped' = dropped \union TexturesOf(lost)
           /\ bound' = Without(lost \union given)
           /\ free' = Returned(IF last THEN back \o retired ELSE back)
           /\ retired' = IF last THEN <<>> ELSE retired
           /\ recorded' = IF submits THEN {} ELSE recorded
           /\ flushed' = IF last THEN {} ELSE IF submits THEN flushed \union recorded
                         ELSE flushed
    /\ seg' = "cleanup" /\ pc' = 1 /\ NoSteps
    /\ failures' = failures + 1
    /\ settled' = {}
    /\ UNCHANGED <<mode, content, store, made, frame>>

-----------------------------------------------------------------------------
(* The start of a frame: eval and take_state *)

\* The wood's emission is gas fuel, and its band is found through the mask.
Incomplete(m) == m.surface /\ ~(m.fire /\ m.collider)

Begin(m) ==
    /\ ~Running /\ frame < MaxFrames
    /\ ~Incomplete(m)
    /\ frame' = frame + 1
    /\ mode' = m
    /\ pc' = 1

\* Nothing has been taken yet.
Refuse(m) ==
    /\ ~Running /\ frame < MaxFrames
    /\ Incomplete(m)
    /\ frame' = frame + 1
    /\ UNCHANGED <<mode, seg, pc, steps, textures, batch, settled, failures>>

StartZeroed(m) ==
    /\ Begin(m)
    /\ store = EmptyBinding
    /\ seg' = "zeroed"
    /\ UNCHANGED <<steps, textures, batch, settled, failures>>

TakeState(m) ==
    /\ Begin(m)
    /\ DOMAIN store = StateNames(m)
    /\ bound' = store /\ store' = EmptyBinding
    /\ seg' = "enter"
    /\ UNCHANGED <<steps, free, retired, content, made, dropped, batch, settled, failures>>

\* Faulty variant of StateShape: only the slots that are expected go back.
StateShapePartly(m) ==
    /\ Begin(m)
    /\ store # EmptyBinding /\ DOMAIN store # StateNames(m)
    /\ free' = Returned(Listed({store[n] : n \in DOMAIN store \intersect StateNames(m)}))
    /\ store' = EmptyBinding
    /\ settled' = {}
    /\ UNCHANGED <<seg, steps, bound, retired, content, made, dropped, batch, failures>>

\* A state left by another mode is given back whole.
StateShape(m) ==
    /\ Begin(m)
    /\ store # EmptyBinding /\ DOMAIN store # StateNames(m)
    /\ free' = Returned(Listed(Range(store)))
    /\ store' = EmptyBinding
    /\ settled' = {}
    /\ UNCHANGED <<seg, steps, bound, retired, content, made, dropped, batch, failures>>

Init ==
    /\ mode = CHOOSE m \in Modes : TRUE
    /\ seg = "idle" /\ pc = 1
    /\ speed = 0 /\ plan = NoPlan /\ left = 0
    /\ bound = EmptyBinding /\ store = EmptyBinding
    /\ free = [s \in PoolShapes |-> <<>>]
    /\ retired = <<>>
    /\ content = EmptyBinding
    /\ recorded = {} /\ flushed = {}
    /\ made = [s \in PoolShapes |-> 0]
    /\ dropped = {}
    /\ settled = {}
    /\ frame = 0 /\ failures = 0

Next ==
    \/ \E m \in Modes : Refuse(m) \/ StartZeroed(m) \/ TakeState(m) \/ StateShape(m)
    \/ AcquireField \/ TakeInput \/ NewSlots
    \/ Record \/ RunOne \/ FlushBatch \/ SubmitBatch
    \/ RetireFields \/ ReplaceField \/ ReleaseFields
    \/ Checked \/ MeasureSpeed \/ Put
    \/ RetireLocals \/ Wait \/ Discard
    \/ Fail

Spec == Init /\ [][Next]_vars

-----------------------------------------------------------------------------
(* Properties *)

Pooled == UNION {Range(free[s]) : s \in PoolShapes}
Bound == {bound[n] : n \in DOMAIN bound \ Slots}
Existing == UNION {{s} \X (1..made[s]) : s \in PoolShapes}

\* No field is lost on the way: each texture made is in the pool, retired, in
\* scope, in a slot or among the few a failing call drops, and in one of
\* these places only; while no operation fails none is dropped; and nothing
\* of a step outlives it: between frames no name is in scope, nothing is
\* retired, recorded or in flight.
\* (retired, release_to, into_fields and the error arms of every stage)
EveryTextureHasItsPlace ==
    LET count == Cardinality(Pooled) + Len(retired) + Cardinality(DOMAIN bound \ Slots)
                   + Cardinality(DOMAIN store) + Cardinality(dropped)
    IN  /\ count = Cardinality(Existing)
        /\ Pooled \union Range(retired) \union Bound \union Range(store) \union dropped = Existing
        /\ failures = 0 => dropped = {}
        /\ ~Running => /\ bound = EmptyBinding /\ retired = <<>>
                       /\ recorded = {} /\ flushed = {}

\* No dispatch reads a texture nobody has written since it was taken from the
\* pool, whose contents are whatever its last owner left there; nor a slot of
\* a reduction before the reduction.  ("Callers must fully write a field
\* before reading it.")
ReadsAreWritten ==
    Running /\ Current.op \in {"record", "run", "measure"} =>
        \A n \in Current.reads : n \in DOMAIN bound /\ content[bound[n]] # "none"

\* A texture that submitted work uses is not somebody else's by then.  What is
\* submitted uses none that has gone back to the pool (Substep: "A field a
\* stage replaces cannot go back to the pool until the batch has run"), and
\* what earlier submissions of the batch may still be using stays out of it
\* too (flush: "must not go back to a pool until the batch's last
\* submission"; abandon waits), except for the scratch of conjugate gradients.
WorkKeepsItsFields ==
    /\ Running /\ Current.op \in {"flush", "submit"} => recorded \intersect Pooled = {}
    /\ mode.pressure # "mgpcg" => flushed \intersect Pooled = {}

\* The same without the exception, as batch.rs states it.  mgpcg breaks it.
FlushedWorkKeepsItsFields == flushed \intersect Pooled = {}

\* A step the slots keep is a finished one: a velocity whose three faces are
\* projected, scalars carried by it and, with conserve_mass, corrected; and
\* a step that failed leaves no slot at all.
SlotsHoldAFinishedStep ==
    store # EmptyBinding =>
        /\ DOMAIN store = StateNames(mode)
        /\ \A n \in Velocity : content[store[n]] = "subtract_gradient"
        /\ \A n \in {"density", "temperature", "fuel", "react"} \intersect DOMAIN store :
             content[store[n]] = IF mode.conserve THEN "mass_scale"
                                 ELSE IF mode.maccormack THEN "maccormack"
                                 ELSE "semi_lagrangian"

\* Once a frame has completed, the next one in the same mode makes no
\* texture: everything it needs comes back from the pool.  ("Recycles 3D
\* textures so per-frame evaluation does not reallocate.")
NoGrowth == [][settled = {mode'} => made' = made]_vars

\* While the substeps of a frame run: there are as many as the CFL number
\* needs for the speed measured and no more, unless even all of max_substeps
\* are too few, which is when, and only when, the frame is counted as clamped.
\* Saturating the count hides no excess, however large a finite speed is, as
\* long as max_substeps is below what it saturates at.
SubstepsKeepCfl ==
    seg = "substep" =>
        /\ left \in 1..plan.count
        /\ plan.clamped <=> speed > MaxSubsteps * mode.cfl
        /\ ~plan.clamped =>
               /\ speed <= plan.count * mode.cfl
               /\ plan.count > 1 => speed > (plan.count - 1) * mode.cfl
=============================================================================
