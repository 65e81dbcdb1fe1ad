----------------------------- MODULE Multigrid -----------------------------
(***************************************************************************)
(* The pressure solves of kernels/multigrid.rs and kernels/mgpcg.rs as     *)
(* sequences of instructions: the hierarchy of grids, the V-cycle and      *)
(* conjugate gradients preconditioned with it.  The hierarchy here has     *)
(* three levels, so that there is a finest one, which solves for the       *)
(* caller's fields, a coarsest one, which has no level to hand on to, and  *)
(* one in between.  Level l of the code, counted from 0, is l + 1 here.    *)
(***************************************************************************)
EXTENDS Kernels

Depth == 3
Shapes == <<"cells", "half", "quarter">>

\* Each level's own fields; the finest level uses the caller's p and div.
Rhs == <<"none", "rhs1", "rhs2">>
E == <<"none", "e1", "e2">>
Tmp == <<"tmp0", "tmp1", "none">>
CoarseMask == <<"mask", "mask1", "mask2">>
Norm == <<"norm0", "norm1", "none">>
Phi == <<"none", "phi1", "phi2">>
SolidCount == <<"solids1", "solids2", "solids3">>

HierarchyNames ==
    (Range(Rhs) \union Range(E) \union Range(Tmp) \union Range(Norm) \union Range(Phi)
       \union Range(CoarseMask)) \ {"none", "mask"}

MaskAt(m, l) == IF m.collider THEN {CoarseMask[l]} ELSE {}
NormAt(m, l) == IF m.collider THEN {Norm[l]} ELSE {}
PhiAt(m, l) == IF m.collider /\ l > 1 THEN {Phi[l]} ELSE {}

-----------------------------------------------------------------------------
(* Hierarchy::new *)

RestrictMask(l) == Dispatch("restrict_mask", {CoarseMask[l - 1]}, {CoarseMask[l]})

\* Level 1 reads the fine mask, a later level the fractions of the one above.
RestrictFraction(l) ==
    Dispatch("restrict_fraction", {IF l = 2 THEN "mask" ELSE Phi[l - 1]}, {Phi[l]})

ProlongNorm(m, l) ==
    Dispatch("prolong_norm", MaskAt(m, l) \union MaskAt(m, l + 1), {Norm[l]})

Level(m, l) ==
    When(l > 1, Acquire(Rhs[l], Shapes[l]) \o Acquire(E[l], Shapes[l]))
      \o When(l < Depth, Acquire(Tmp[l], Shapes[l]))
      \o When(l > 1 /\ m.collider, Acquire(CoarseMask[l], Shapes[l]) \o RestrictMask(l))
      \o When(l < Depth /\ m.collider, Acquire(Norm[l], Shapes[l]))
      \o When(l > 1 /\ m.collider, Acquire(Phi[l], Shapes[l]) \o RestrictFraction(l))
      \o When(m.collider, Reduce(CoarseMask[l], SolidCount[l]))

\* The levels go with their fields when one of them cannot be built.
Hierarchy(m) ==
    Dropping(NewTarget(Range(SolidCount))
               \o FlattenSeq([l \in 1..Depth |-> Level(m, l)])
               \o NewTarget({"sum"})
               \o When(m.collider, FlattenSeq([l \in 1..(Depth - 1) |-> ProlongNorm(m, l)])),
             HierarchyNames)

-----------------------------------------------------------------------------
(* One V-cycle solving for x with b as the right-hand side *)

X(x, l) == IF l = 1 THEN x ELSE E[l]
B(b, l) == IF l = 1 THEN b ELSE Rhs[l]

SmootherAt(m, x, b, l, sweeps, reverse) ==
    Smooth(X(x, l), B(b, l), MaskAt(m, l) \union PhiAt(m, l), sweeps, reverse)

\* r = div - h L(p): what the solve has still to remove.
Residual(m, x, b, out, l) ==
    Dispatch("residual", {x, b} \union MaskAt(m, l) \union PhiAt(m, l), {out})

\* A coarse correction starts from zero.
RestrictResidual(m, l) ==
    Dispatch("restrict",
             {Tmp[l]} \union MaskAt(m, l) \union MaskAt(m, l + 1) \union NormAt(m, l),
             {Rhs[l + 1], E[l + 1]})

Prolong(m, x, l) ==
    Dispatch("prolong",
             {X(x, l), E[l + 1]} \union MaskAt(m, l) \union MaskAt(m, l + 1) \union NormAt(m, l),
             {X(x, l)})

\* The mean over the fluid cells, in a closed domain.
FluidMean(m, field, l) ==
    Reduce(field, "sum")
      \o Dispatch("subtract_fluid_mean",
                  {field, "sum"} \union MaskAt(m, l)
                    \union (IF m.collider THEN {SolidCount[l]} ELSE {}),
                  {field})

Down(m, x, b, l) ==
    SmootherAt(m, x, b, l, m.sweeps, FALSE)
      \o Residual(m, X(x, l), B(b, l), Tmp[l], l)
      \o RestrictResidual(m, l)
      \o When(m.closed, FluidMean(m, Rhs[l + 1], l + 1))

Coarsest(m, x, b) ==
    SmootherAt(m, x, b, Depth, 1, FALSE) \o SmootherAt(m, x, b, Depth, 1, TRUE)

Up(m, x, b, l) ==
    Prolong(m, x, l) \o SmootherAt(m, x, b, l, m.sweeps, TRUE)

Cycle(m, x, b) ==
    FlattenSeq([l \in 1..(Depth - 1) |-> Down(m, x, b, l)])
      \o Coarsest(m, x, b)
      \o FlattenSeq([i \in 1..(Depth - 1) |-> Up(m, x, b, Depth - i)])

\* VCycle.record: a flush between two cycles, and the mean once they are done.
VCycles(m, x, b, cycles) ==
    FlattenSeq([i \in 1..cycles |-> When(i > 1, Flush) \o Cycle(m, x, b)])
      \o When(m.closed, FluidMean(m, x, 1))

-----------------------------------------------------------------------------
(* Conjugate gradients, whose scalars live in slots on the GPU *)

\* z is named "zr", for the letter names the faces of an axis.
PcgNames == <<"r", "zr", "d", "q", "product">>
PcgSlots == {"RZ_A", "DQ", "RZ_B"}

\* Faulty variant of Rz: the two slots of <r, z> change places.
RzSwapped(i) == IF i % 2 = 0 THEN "RZ_B" ELSE "RZ_A"

\* <r, z> of iteration i, counted from 0, is in one slot and the new one
\* goes to the other.
Rz(i) == IF i % 2 = 0 THEN "RZ_A" ELSE "RZ_B"
RzNew(i) == IF i % 2 = 0 THEN "RZ_B" ELSE "RZ_A"

ZeroField(field) == Dispatch("zero", {}, {field})
CopyField(from, to) == Dispatch("copy", {from}, {to})

Dot(a, b, slot) == Dispatch("multiply", {a, b}, {"product"}) \o Reduce("product", slot)

AxpyPR(i) ==
    Dispatch("axpy_p_r", {"d", "q", "pressure", "r", Rz(i), "DQ"}, {"pressure", "r"})
UpdateD(i) == Dispatch("update_d", {"zr", "d", Rz(i), RzNew(i)}, {"d"})

ApplyM(m) == ZeroField("zr") \o VCycles(m, "zr", "r", 1)
RemoveRMean(m) == When(m.closed, FluidMean(m, "r", 1))

Iteration(m, i) ==
    When(i > 0, Flush)
      \o ZeroField("product") \o Residual(m, "d", "product", "q", 1)
      \o Dot("d", "q", "DQ")
      \o AxpyPR(i)
      \o RemoveRMean(m)
      \o When(i + 1 < m.iterations,
              ApplyM(m) \o Dot("r", "zr", RzNew(i)) \o UpdateD(i))

RecordPcg(m) ==
    NewTarget(PcgSlots)
      \o Residual(m, "pressure", "div", "r", 1)
      \o RemoveRMean(m) \o ApplyM(m) \o CopyField("zr", "d") \o Dot("r", "zr", "RZ_A")
      \o FlattenSeq([i \in 1..m.iterations |-> Iteration(m, i - 1)])
      \o When(m.closed, FluidMean(m, "pressure", 1))

\* Faulty variant of Mgpcg: the scratch is returned ahead of the last flush.
MgpcgUnflushed(m) ==
    When(m.iterations > 0,
         Dropping(FlattenSeq([i \in 1..5 |-> Acquire(PcgNames[i], "cells")]), Range(PcgNames))
           \o Freeing(RecordPcg(m), Range(PcgNames))
           \o Release(Range(PcgNames)) \o Flush)

\* Its fields go back to the pool once its last dispatch has been flushed,
\* ahead of the batch's submission, and also when it fails.
Mgpcg(m) ==
    When(m.iterations > 0,
         Dropping(FlattenSeq([i \in 1..5 |-> Acquire(PcgNames[i], "cells")]), Range(PcgNames))
           \o Freeing(RecordPcg(m) \o Flush, Range(PcgNames))
           \o Release(Range(PcgNames)))

=============================================================================
