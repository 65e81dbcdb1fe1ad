------------------------------ MODULE Kernels ------------------------------
(***************************************************************************)
(* What the solver's kernels read and write.                               *)
(*                                                                         *)
(* A stage of the solver is a sequence of instructions: acquire a field    *)
(* from the pool, record a dispatch into the batch, flush the batch, and   *)
(* so on.  Fields are known by the names the code gives them; Solver.tla   *)
(* binds a name to a texture.  Every instruction says what becomes of the  *)
(* stage's own fields when it fails: those in "drop" are dropped, texture  *)
(* and all, and those in "free" go straight back to the pool; the others   *)
(* are retired.                                                            *)
(*                                                                         *)
(* A velocity is its three faces.  m is the mode the solver runs in: its   *)
(* parameters and which of its sockets are connected.                      *)
(***************************************************************************)
EXTENDS Naturals, Sequences, FiniteSets, SequencesExt

Faces == <<"vx", "vy", "vz">>          \* the velocity being stepped
Target == <<"tx", "ty", "tz">>         \* an emitter's target velocity
Moving == <<"cx", "cy", "cz">>         \* the collider's velocity
Velocity == Range(Faces)

Axes == <<"x", "y", "z">>              \* a face's shape; a pool keeps textures
                                       \* by their shape

-----------------------------------------------------------------------------
(* Instructions *)

Instruction(op, names, kernel, reads, writes) ==
    [op |-> op, names |-> names, kernel |-> kernel, reads |-> reads,
     writes |-> writes, drop |-> {}, free |-> {}]

\* For these two, kernel is the shape acquired and the name of the new field.
Acquire(name, shape) == <<Instruction("acquire", {name}, shape, {}, {})>>
Replace(name, by) == <<Instruction("replace", {name}, by, {}, {})>>

\* pool.acquire_zeroed: a field whose filling fails is dropped.
AcquireZeroed(name, shape) ==
    Acquire(name, shape) \o
    <<[Instruction("run", {}, "constant", {}, {name}) EXCEPT !.drop = {name}]>>

\* pool.duplicate: a copy that fails is dropped.
Duplicate(name, shape, of) ==
    Acquire(name, shape) \o
    <<[Instruction("run", {}, "copy", {of}, {name}) EXCEPT !.drop = {name}]>>

Dispatch(kernel, reads, writes) ==
    <<Instruction("record", {}, kernel, reads, writes)>>

Flush == <<Instruction("flush", {}, "none", {}, {})>>
NewTarget(slots) == <<Instruction("target", slots, "none", {}, {})>>
Retire(names) == <<Instruction("retire", names, "none", {}, {})>>
Release(names) == <<Instruction("release", names, "none", {}, {})>>

Dropping(stage, names) ==
    [i \in DOMAIN stage |-> [stage[i] EXCEPT !.drop = @ \union names]]
Freeing(stage, names) ==
    [i \in DOMAIN stage |-> [stage[i] EXCEPT !.free = @ \union names]]

When(condition, stage) == IF condition THEN stage ELSE <<>>

-----------------------------------------------------------------------------
(* The collider's views: a kernel without one binds a placeholder *)

Mask(m) == IF m.collider THEN {"mask"} ELSE {}
Obstacle(m, axis) == IF m.collider THEN {Moving[axis]} ELSE {}

-----------------------------------------------------------------------------
(* Sources and forces: forces.rs, fire.rs, surface.rs *)

Emit(dst, src) == Dispatch("emit", {dst, src}, {dst})

EmitFuel(src) == Dispatch("emit_fuel", {"fuel", "react", src}, {"fuel", "react"})

SurfaceBurn(m) ==
    Dispatch("surface_burn", {"load", "temperature", "burned"} \union Mask(m),
             {"burned", "emitted"})

SurfaceGather(m) ==
    Dispatch("surface_gather", {"emitted"} \union Mask(m), {"rate"})

SurfaceChar(dst) == Dispatch("surface_char", {"burned", "load"}, {dst})

Burn ==
    LET gas == {"fuel", "react", "density", "temperature"}
    IN  Dispatch("burn", gas, gas)

Flame(dst) == Dispatch("flame", {"react"}, {dst})

BlendVelocity(m) ==
    FlattenSeq([axis \in 1..3 |->
        Dispatch("blend_velocity",
                 {Faces[axis], "weight", Target[axis]} \union Mask(m), {Faces[axis]})])

Buoyancy(m) ==
    Dispatch("buoyancy", {"vz", "density", "temperature"} \union Mask(m), {"vz"})

Wind(m) ==
    FlattenSeq([axis \in 1..3 |->
        Dispatch("wind", {Faces[axis]} \union Mask(m), {Faces[axis]})])

-----------------------------------------------------------------------------
(* Vorticity: vorticity.rs *)

Omega == {"omega0", "omega1", "omega2", "omega3"}

Curl(m) == Dispatch("curl", Velocity \union Mask(m), Omega)

Confine(m) ==
    FlattenSeq([axis \in 1..3 |->
        Dispatch("confine",
                 {Faces[axis]} \union Omega \union Mask(m)
                   \union (IF m.fire THEN {"fuel"} ELSE {}),
                 {Faces[axis]})])

-----------------------------------------------------------------------------
(* Advection: advect.rs.  axis is 0 for a scalar, which no collider moves. *)

AxisOf(src) == IF src \in Velocity THEN CHOOSE a \in 1..3 : Faces[a] = src ELSE 0
Views(m, src) ==
    Mask(m) \union (IF AxisOf(src) = 0 THEN {} ELSE Obstacle(m, AxisOf(src)))

AdvectKernel(m, pass, src, along, dst) ==
    Dispatch(pass, Velocity \union {along} \union Views(m, src), {dst})

MacCormackKernel(m, src, dst) ==
    Dispatch("maccormack", Velocity \union {src, "fwd", "bwd"} \union Views(m, src),
             {dst})

-----------------------------------------------------------------------------
(* Mass conservation: conserve.rs.  The slots of a target are names too. *)

MassSlots == {"M0", "OUT", "M1", "NEG"}

Reduce(name, slot) == Dispatch("reduce", {name}, {slot})

MeasureBefore(m, field) ==
    Reduce(field, "M0")
      \o Dispatch("boundary_flux", Velocity \union {field} \union Mask(m), {"scratch"})
      \o Reduce("scratch", "OUT")
      \o Dispatch("negative_part", {field}, {"scratch"})
      \o Reduce("scratch", "NEG")

CorrectAfter(field) ==
    Reduce(field, "M1")
      \o Dispatch("mass_scale", {field} \union MassSlots, {field})

-----------------------------------------------------------------------------
(* The pressure solve on one grid: project.rs *)

Divergence == Dispatch("divergence", Velocity, {"div"})

\* One sweep of the red-black smoother is two dispatches.
Smooth(p, rhs, views, sweeps, reverse) ==
    FlattenSeq([i \in 1..sweeps |->
        LET red == Dispatch("red", {p, rhs} \union views, {p})
            black == Dispatch("black", {p, rhs} \union views, {p})
        IN  IF reverse THEN black \o red ELSE red \o black])

\* A long loop is split into chunks, with a flush between two of them.
Pressure(m) ==
    FlattenSeq([i \in 1..m.iterations |->
        When(i > 1 /\ (i - 1) % m.perSubmit = 0, Flush)
          \o Smooth("pressure", "div", Mask(m), 1, FALSE)])

RemoveMean ==
    Reduce("pressure", "sum") \o Dispatch("subtract_mean", {"pressure", "sum"}, {"pressure"})

SolvePressure(m) ==
    Pressure(m) \o When(m.closed, NewTarget({"sum"}) \o RemoveMean)

SubtractGradient(m) ==
    FlattenSeq([axis \in 1..3 |->
        Dispatch("subtract_gradient",
                 {Faces[axis], "pressure"} \union Mask(m) \union Obstacle(m, axis),
                 {Faces[axis]})])
=============================================================================
