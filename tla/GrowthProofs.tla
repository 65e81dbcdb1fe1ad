---------------------------- MODULE GrowthProofs ----------------------------
(***************************************************************************)
(* Proof that a settled solver makes no texture, in any set of modes and   *)
(* with any failures.  It rests on the invariant of SolverProofs.          *)
(*                                                                         *)
(* Every name keeps one shape (ProgramShaped, ShapedNext), so that how     *)
(* many textures of each shape are away from the pool at a point of a      *)
(* frame can be counted along the program (Need): it depends on the mode   *)
(* alone.  A frame that completes has been at all its points, and there    *)
(* were textures enough at each; none of them is dropped, so there are     *)
(* enough for the next frame in the same mode (GrowthInv, NothingGrows).   *)
(***************************************************************************)
EXTENDS SolverProofs

-----------------------------------------------------------------------------
(***************************************************************************)
(* The shapes of the names.                                                *)
(***************************************************************************)
\* The names of a step, those of the fields that take their place, and the shape each
\* always has.
AxisNames(a) == {Faces[a], Target[a], Moving[a], Axes[a], OutFaces[a]}
CellNames ==
    {"density", "temperature", "pressure", "fuel", "react", "burned", "src_density",
     "src_temperature", "weight", "sdf", "mask", "src_fuel", "load", "dst",
     "r", "zr", "d", "q", "product", "out0", "out1", "out3", "out4", "out5"}
Named == AxisNames(1) \union AxisNames(2) \union AxisNames(3) \union CellNames

ShapeFor(n) ==
    IF n \in AxisNames(1) THEN Axes[1]
    ELSE IF n \in AxisNames(2) THEN Axes[2]
    ELSE IF n \in AxisNames(3) THEN Axes[3] ELSE "cells"

\* An instruction gives each of these names a texture of its shape.
Shaped(i) ==
    /\ IsInstruction(i)
    /\ i.op \in {"acquire", "input"} =>
           \A n \in i.names \intersect Named : i.kernel = ShapeFor(n)
    /\ i.op = "replace" =>
           \A n \in i.names \intersect Named :
               i.kernel \in Named /\ ShapeFor(i.kernel) = ShapeFor(n)
    /\ i.op = "release" => i.names \subseteq Named
    /\ i.op \notin {"submit", "measure"}

ShapedStage(p) == IsStage(p) /\ \A k \in 1..Len(p) : Shaped(p[k])

\* The names of the three axes, spelled out.
LEMMA NamesAre ==
    /\ AxisNames(1) = {"vx", "tx", "cx", "x", "out2x"}
    /\ AxisNames(2) = {"vy", "ty", "cy", "y", "out2y"}
    /\ AxisNames(3) = {"vz", "tz", "cz", "z", "out2z"}
    /\ Axes[1] = "x" /\ Axes[2] = "y" /\ Axes[3] = "z"
    /\ Faces[1] = "vx" /\ Faces[2] = "vy" /\ Faces[3] = "vz"
    /\ Target[1] = "tx" /\ Target[2] = "ty" /\ Target[3] = "tz"
    /\ Moving[1] = "cx" /\ Moving[2] = "cy" /\ Moving[3] = "cz"
    /\ OutFaces[1] = "out2x" /\ OutFaces[2] = "out2y" /\ OutFaces[3] = "out2z"
<1>1. /\ Axes[1] = "x" /\ Axes[2] = "y" /\ Axes[3] = "z"
      /\ Faces[1] = "vx" /\ Faces[2] = "vy" /\ Faces[3] = "vz"
      /\ Target[1] = "tx" /\ Target[2] = "ty" /\ Target[3] = "tz"
      /\ Moving[1] = "cx" /\ Moving[2] = "cy" /\ Moving[3] = "cz"
      /\ OutFaces[1] = "out2x" /\ OutFaces[2] = "out2y" /\ OutFaces[3] = "out2z"
  BY DEF Axes, Faces, Target, Moving, OutFaces
<1> QED
  BY <1>1 DEF AxisNames

\* The empty stage, and one of a single instruction.
LEMMA NothingShaped == ShapedStage(<<>>)
  BY DEF ShapedStage, IsStage

LEMMA OneShaped ==
    ASSUME NEW i, Shaped(i)
    PROVE  ShapedStage(<<i>>)
<1> DEFINE p == <<i>>
<1>1. Len(p) = 1 /\ p[1] = i /\ IsStage(p)
  BY DEF IsStage
<1> HIDE DEF p
<1>2. ShapedStage(p)
  BY <1>1 DEF ShapedStage
<1> QED
  BY <1>2 DEF p

\* Stages one after another, taken when a flag is set, or repeated.
LEMMA JoinShaped ==
    ASSUME NEW p, NEW r, ShapedStage(p), ShapedStage(r)
    PROVE  ShapedStage(p \o r)
<1>1. /\ IsStage(p \o r) /\ Len(p \o r) = Len(p) + Len(r) /\ Len(p) \in Nat /\ Len(r) \in Nat
      /\ \A k \in 1..Len(p) : (p \o r)[k] = p[k]
      /\ \A k \in 1..(Len(p) + Len(r)) : k > Len(p) => (p \o r)[k] = r[k - Len(p)]
  BY StageJoin, StageFacts DEF ShapedStage
<1>2. ASSUME NEW k \in 1..(Len(p) + Len(r))
      PROVE  Shaped((p \o r)[k])
  <2>1. CASE k \in 1..Len(p)
    BY <1>1, <2>1 DEF ShapedStage
  <2>2. CASE k \notin 1..Len(p)
    <3>1. k > Len(p) /\ k - Len(p) \in 1..Len(r)
      BY <1>1, <2>2
    <3> QED
      BY <1>1, <3>1 DEF ShapedStage
  <2> QED
    BY <2>1, <2>2
<1> QED
  BY <1>1, <1>2 DEF ShapedStage

LEMMA WhenShaped ==
    ASSUME NEW c, NEW p, c => ShapedStage(p)
    PROVE  ShapedStage(When(c, p))
<1>1. CASE c
  BY <1>1 DEF When
<1>2. CASE ~c
  BY <1>2, NothingShaped DEF When
<1> QED
  BY <1>1, <1>2

LEMMA FlattenShaped ==
    ASSUME NEW n \in Nat, NEW P, P = [a \in 1..n |-> P[a]],
           \A a \in 1..n : ShapedStage(P[a])
    PROVE  ShapedStage(FlattenSeq(P))
<1>0. Len(P) = n
  OBVIOUS
<1>1. CASE n = 0
  <2>1. FlattenSeq(P) = <<>>
    BY <1>0, <1>1 DEF FlattenSeq
  <2> QED
    BY <2>1, NothingShaped
<1>2. CASE n # 0
  <2> DEFINE g == CHOOSE h : Flat(h, P, n)
  <2>1. Flat(g, P, n)
    BY FlatExists
  <2>2. FlattenSeq(P) = g[n]
    BY <1>0, <1>2, Zenon DEF FlattenSeq, Flat
  <2> HIDE DEF g
  <2>3. \A i \in 1..n : g[i] = IF i = 1 THEN P[i] ELSE g[i - 1] \o P[i]
    <3>1. g = [i \in 1..n |-> IF i = 1 THEN P[i] ELSE g[i - 1] \o P[i]]
      BY <2>1 DEF Flat
    <3> QED
      BY <3>1, Zenon
  <2> DEFINE Bad == {k \in 1..n : ~ShapedStage(g[k])}
  <2>4. Bad = {}
    <3> SUFFICES ASSUME Bad # {}
                 PROVE  FALSE
      OBVIOUS
    <3>1. PICK k \in Bad : \A j \in Bad : k <= j
      <4>1. Bad \in SUBSET Nat
        OBVIOUS
      <4> HIDE DEF Bad
      <4> QED
        BY <4>1, LeastElement
    <3>2. k \in 1..n /\ ShapedStage(P[k])
      OBVIOUS
    <3>3. CASE k = 1
      <4>1. g[k] = P[k]
        BY <2>3, <3>2, <3>3
      <4> QED
        BY <3>1, <3>2, <4>1
    <3>4. CASE k # 1
      <4>1. k - 1 \in 1..n /\ k - 1 \notin Bad
        BY <3>1, <3>4
      <4>2. ShapedStage(g[k - 1]) /\ g[k] = g[k - 1] \o P[k]
        BY <2>3, <3>2, <3>4, <4>1
      <4>3. ShapedStage(g[k])
        BY <3>2, <4>2, JoinShaped
      <4> QED
        BY <3>1, <4>3
    <3> QED
      BY <3>3, <3>4
  <2> QED
    BY <1>2, <2>2, <2>4
<1> QED
  BY <1>1, <1>2

\* What becomes of a stage's fields when it fails changes no shape.
LEMMA AlikeShaped ==
    ASSUME NEW p, ShapedStage(p), NEW q, q = [k \in DOMAIN p |-> q[k]],
           \A k \in DOMAIN p : Alike(p[k], q[k])
    PROVE  ShapedStage(q)
<1> DEFINE c == Len(p)
<1>1. c \in Nat /\ DOMAIN p = 1..c
  BY StageFacts DEF ShapedStage
<1> HIDE DEF c
<1>2. q = [k \in 1..c |-> q[k]]
  BY <1>1
<1>3. Len(q) = c
  BY <1>1, <1>2
<1>4. IsStage(q)
  <2> DEFINE T == {q[k] : k \in 1..c}
  <2>1. \A k \in 1..c : q[k] \in T
    OBVIOUS
  <2> HIDE DEF T
  <2>2. [k \in 1..c |-> q[k]] \in Seq(T)
    BY <1>1, <2>1
  <2> QED
    BY <1>2, <1>3, <2>2 DEF T, IsStage
<1>5. ASSUME NEW k \in 1..c
      PROVE  Shaped(q[k])
  <2>1. Alike(p[k], q[k]) /\ Shaped(p[k])
    BY <1>1 DEF ShapedStage, c
  <2> QED
    BY <2>1 DEF Alike, Shaped
<1> QED
  BY <1>3, <1>4, <1>5 DEF ShapedStage

\* The stages whose fields a failure drops or returns.
LEMMA DroppingShaped ==
    ASSUME NEW p, ShapedStage(p), NEW names
    PROVE  ShapedStage(Dropping(p, names)) /\ ShapedStage(Freeing(p, names))
<1>1. DOMAIN p = 1..Len(p) /\ \A k \in DOMAIN p : IsInstruction(p[k])
  BY StageFacts DEF ShapedStage, Shaped
<1> DEFINE q == [k \in DOMAIN p |-> [p[k] EXCEPT !.drop = @ \union names]]
           r == [k \in DOMAIN p |-> [p[k] EXCEPT !.free = @ \union names]]
<1>2. ASSUME NEW k \in DOMAIN p
      PROVE  Alike(p[k], q[k]) /\ Alike(p[k], r[k])
  <2>1. IsInstruction(p[k])
    BY <1>1
  <2>2. q[k] = [p[k] EXCEPT !.drop = p[k].drop \union names]
    OBVIOUS
  <2>3. Alike(p[k], q[k])
    BY <2>1, <2>2 DEF IsInstruction, Alike
  <2>4. r[k] = [p[k] EXCEPT !.free = p[k].free \union names]
    OBVIOUS
  <2>5. Alike(p[k], r[k])
    BY <2>1, <2>4 DEF IsInstruction, Alike
  <2> QED
    BY <2>3, <2>5
<1>3. q = [k \in DOMAIN p |-> q[k]] /\ r = [k \in DOMAIN p |-> r[k]]
  OBVIOUS
<1> HIDE DEF q, r
<1>4. ShapedStage(q) /\ ShapedStage(r)
  BY <1>2, <1>3, AlikeShaped
<1> QED
  BY <1>4 DEF q, r, Dropping, Freeing

-----------------------------------------------------------------------------
(* Every stage of the program gives the names their shapes. *)
LEMMA QuietShaped ==
    ASSUME NEW op, op \notin {"acquire", "input", "replace", "release", "submit", "measure"},
           NEW names, NEW kernel, NEW reads, NEW writes
    PROVE  /\ ShapedStage(<<Instruction(op, names, kernel, reads, writes)>>)
           /\ \A dropped_ :
                 ShapedStage(<<[Instruction(op, names, kernel, reads, writes) EXCEPT !.drop = dropped_]>>)
<1> DEFINE i == Instruction(op, names, kernel, reads, writes)
<1>1. i.op = op /\ IsInstruction(i)
  BY DEF Instruction, IsInstruction
<1>2. \A d : [i EXCEPT !.drop = d].op = op /\ IsInstruction([i EXCEPT !.drop = d])
  BY DEF Instruction, IsInstruction
<1> HIDE DEF i
<1>3. ShapedStage(<<i>>)
  BY <1>1, OneShaped DEF Shaped
<1>4. ASSUME NEW d
      PROVE  ShapedStage(<<[i EXCEPT !.drop = d]>>)
  <2>1. Shaped([i EXCEPT !.drop = d])
    BY <1>2 DEF Shaped
  <2> QED
    BY <2>1, OneShaped
<1> QED
  BY <1>3, <1>4 DEF i

\* The stages that take no texture.
LEMMA StepsShaped ==
    /\ \A kernel, reads, writes : ShapedStage(Dispatch(kernel, reads, writes))
    /\ \A names : /\ ShapedStage(NewTarget(names)) /\ ShapedStage(Retire(names))
                  /\ names \subseteq Named => ShapedStage(Release(names))
    /\ ShapedStage(Flush) /\ ShapedStage(Check)
    /\ \A m : ShapedStage(PutState(m))
    /\ \A name, slot : ShapedStage(Reduce(name, slot))
<1>1. \A kernel, reads, writes : ShapedStage(Dispatch(kernel, reads, writes))
  BY QuietShaped DEF Dispatch
<1>2. ASSUME NEW names, names \subseteq Named
      PROVE  ShapedStage(Release(names))
  <2> DEFINE i == Instruction("release", names, "none", {}, {})
  <2>1. i.op = "release" /\ i.names = names /\ IsInstruction(i)
    BY DEF Instruction, IsInstruction
  <2> HIDE DEF i
  <2>2. ShapedStage(<<i>>)
    BY <1>2, <2>1, OneShaped DEF Shaped
  <2> QED
    BY <2>2 DEF i, Release
<1> QED
  BY <1>1, <1>2, QuietShaped DEF NewTarget, Retire, Flush, Check, PutState, Reduce

\* A field taken under its name, or under a name that has no shape of its own.
LEMMA AcquireShaped ==
    ASSUME NEW n, NEW shape, n \in Named => shape = ShapeFor(n)
    PROVE  ShapedStage(Acquire(n, shape)) /\ ShapedStage(Input(n, shape))
<1> DEFINE i == Instruction("acquire", {n}, shape, {}, {})
           j == Instruction("input", {n}, shape, {}, {n})
<1>1. /\ i.op = "acquire" /\ i.names = {n} /\ i.kernel = shape /\ IsInstruction(i)
      /\ j.op = "input" /\ j.names = {n} /\ j.kernel = shape /\ IsInstruction(j)
  BY DEF Instruction, IsInstruction
<1> HIDE DEF i, j
<1>2. ShapedStage(<<i>>) /\ ShapedStage(<<j>>)
  BY <1>1, OneShaped DEF Shaped
<1> QED
  BY <1>2 DEF i, j, Acquire, Input

LEMMA AcquireOtherShaped ==
    ASSUME NEW n, n \notin Named, NEW shape
    PROVE  ShapedStage(Acquire(n, shape))
  BY AcquireShaped

\* A field takes the place of another of its shape.
LEMMA ReplaceShaped ==
    ASSUME NEW n \in Named, NEW k \in Named, ShapeFor(k) = ShapeFor(n)
    PROVE  ShapedStage(Replace(n, k))
<1> DEFINE i == Instruction("replace", {n}, k, {}, {})
<1>1. i.op = "replace" /\ i.names = {n} /\ i.kernel = k /\ IsInstruction(i)
  BY DEF Instruction, IsInstruction
<1> HIDE DEF i
<1>2. ShapedStage(<<i>>)
  BY <1>1, OneShaped DEF Shaped
<1> QED
  BY <1>2 DEF i, Replace

\* A field taken and cleared, or taken and filled from another.
LEMMA ZeroedShaped ==
    ASSUME NEW n, NEW shape, n \in Named => shape = ShapeFor(n)
    PROVE  /\ ShapedStage(AcquireZeroed(n, shape))
           /\ \A of : ShapedStage(Duplicate(n, shape, of))
<1>1. ShapedStage(Acquire(n, shape))
  BY AcquireShaped
<1> DEFINE a == <<[Instruction("run", {}, "constant", {}, {n}) EXCEPT !.drop = {n}]>>
           b(of) == <<[Instruction("run", {}, "copy", {of}, {n}) EXCEPT !.drop = {n}]>>
<1>2. ShapedStage(a) /\ \A of : ShapedStage(b(of))
  BY QuietShaped
<1> HIDE DEF a, b
<1>3. ShapedStage(Acquire(n, shape) \o a) /\ \A of : ShapedStage(Acquire(n, shape) \o b(of))
  BY <1>1, <1>2, JoinShaped
<1> QED
  BY <1>3 DEF a, b, AcquireZeroed, Duplicate

\* The names of the cells and of the faces have the shapes they are for.
LEMMA CellsShaped ==
    /\ \A n \in CellNames : n \in Named /\ ShapeFor(n) = "cells"
    /\ \A a \in 1..3 :
           /\ {Faces[a], Target[a], Moving[a], Axes[a], OutFaces[a]} \subseteq Named
           /\ ShapeFor(Faces[a]) = Axes[a] /\ ShapeFor(Target[a]) = Axes[a]
           /\ ShapeFor(Moving[a]) = Axes[a] /\ ShapeFor(Axes[a]) = Axes[a]
           /\ ShapeFor(OutFaces[a]) = Axes[a]
<1>1. \A n \in CellNames : n \in Named /\ ShapeFor(n) = "cells"
  BY NamesAre DEF CellNames, Named, ShapeFor
<1>2. ASSUME NEW a \in 1..3
      PROVE  /\ {Faces[a], Target[a], Moving[a], Axes[a], OutFaces[a]} \subseteq Named
             /\ ShapeFor(Faces[a]) = Axes[a] /\ ShapeFor(Target[a]) = Axes[a]
             /\ ShapeFor(Moving[a]) = Axes[a] /\ ShapeFor(Axes[a]) = Axes[a]
           /\ ShapeFor(OutFaces[a]) = Axes[a]
  <2>1. a = 1 \/ a = 2 \/ a = 3
    OBVIOUS
  <2>2. CASE a = 1
    BY <2>2, NamesAre DEF Named, ShapeFor
  <2>3. CASE a = 2
    BY <2>3, NamesAre DEF Named, ShapeFor
  <2>4. CASE a = 3
    BY <2>4, NamesAre DEF Named, ShapeFor
  <2> QED
    BY <2>1, <2>2, <2>3, <2>4
<1> QED
  BY <1>1, <1>2

\* A field of the cells, whatever its name.
LEMMA OfCellsShaped ==
    ASSUME NEW n, n \notin AxisNames(1) \union AxisNames(2) \union AxisNames(3)
    PROVE  /\ ShapedStage(Acquire(n, "cells")) /\ ShapedStage(Input(n, "cells"))
           /\ ShapedStage(AcquireZeroed(n, "cells"))
           /\ \A of : ShapedStage(Duplicate(n, "cells", of))
<1>1. n \in Named => "cells" = ShapeFor(n)
  BY DEF Named, ShapeFor
<1> QED
  BY <1>1, AcquireShaped, ZeroedShaped

\* Fields whose names are none of these.
LEMMA OthersAre ==
    /\ {"emitted", "rate", "fwd", "bwd", "scratch", "div"} \intersect Named = {}
    /\ (Omega \union LevelNames) \intersect Named = {}
    /\ Slots \intersect Named = {}
<1>1. /\ {"emitted", "rate", "fwd", "bwd", "scratch", "div"} \intersect Named = {}
      /\ (Omega \union LevelNames) \intersect Named = {}
  BY NamesAre DEF Named, CellNames, Omega, LevelNames
<1>2. Slots = {"M0", "OUT", "M1", "NEG", "RZ_A", "DQ", "RZ_B", "solids1", "solids2", "solids3", "sum"}
  BY Apart
<1>3. Slots \intersect Named = {}
  BY <1>2, NamesAre DEF Named, CellNames
<1> QED
  BY <1>1, <1>3

\* The same for each of three axes.
LEMMA AxesShaped ==
    ASSUME NEW P, P = [a \in 1..3 |-> P[a]], \A a \in 1..3 : ShapedStage(P[a])
    PROVE  ShapedStage(FlattenSeq(P))
  BY FlattenShaped

\* What a release gives back, and what a step has in scope, are such names.
LEMMA GivenAreNamed ==
    /\ {"mask"} \subseteq Named /\ InputNames \subseteq Named /\ OutputNames \subseteq Named
    /\ Range(PcgNames) \subseteq Named
    /\ \A m : StateNames(m) \subseteq Named /\ Given(m) \subseteq Named
<1>1. Named = {"vx", "tx", "cx", "x", "out2x", "vy", "ty", "cy", "y", "out2y",
                "vz", "tz", "cz", "z", "out2z"} \union CellNames
  BY NamesAre DEF Named
<1>2. {"mask"} \subseteq Named /\ InputNames \subseteq Named
  BY <1>1, Sequences_ DEF InputNames, CellNames
<1>3. OutputNames \subseteq Named /\ Range(PcgNames) \subseteq Named
  BY <1>1, Sequences_ DEF OutputNames, CellNames
<1>4. ASSUME NEW m
      PROVE  StateNames(m) \subseteq Named /\ Given(m) \subseteq Named
  <2>1. StateNames(m) \subseteq
          {"vx", "vy", "vz", "density", "temperature", "pressure", "fuel", "react", "burned"}
    BY Sequences_ DEF StateNames
  <2>2. Given(m) \subseteq
          {"src_density", "src_temperature", "weight", "tx", "ty", "tz", "sdf", "mask", "cx",
           "cy", "cz", "src_fuel", "load"}
    BY Sequences_ DEF Given
  <2> QED
    BY <1>1, <2>1, <2>2 DEF CellNames
<1> QED
  BY <1>2, <1>3, <1>4

\* The parts of a frame that surround its substeps.
LEMMA FirstStateShaped ==
    ASSUME NEW m
    PROVE  ShapedStage(FirstState(m))
<1> DEFINE face(a) == AcquireZeroed(Faces[a], Axes[a])
<1>1. ASSUME NEW a \in 1..3
      PROVE  ShapedStage(face(a))
  BY CellsShaped, ZeroedShaped
<1>2. \A n \in CellNames : ShapedStage(AcquireZeroed(n, "cells"))
  BY CellsShaped, ZeroedShaped
<1>3. ShapedStage(face(1)) /\ ShapedStage(face(2)) /\ ShapedStage(face(3))
  BY <1>1
<1> HIDE DEF face
<1>4. ShapedStage(face(1) \o Dropping(face(2), {"vx"}) \o Dropping(face(3), {"vx", "vy"}))
  BY <1>3, JoinShaped, DroppingShaped
<1>5. ShapedStage(ZeroedVelocity)
  BY <1>4 DEF ZeroedVelocity, face
<1>6. ShapedStage(AcquireZeroed("density", "cells")) /\ ShapedStage(AcquireZeroed("temperature", "cells"))
      /\ ShapedStage(AcquireZeroed("pressure", "cells")) /\ ShapedStage(AcquireZeroed("fuel", "cells"))
      /\ ShapedStage(AcquireZeroed("react", "cells")) /\ ShapedStage(AcquireZeroed("burned", "cells"))
  BY <1>2 DEF CellNames
<1>7. ShapedStage(Zeroed) /\ ShapedStage(AddFire) /\ ShapedStage(AddSurface)
  BY <1>5, <1>6, JoinShaped DEF Zeroed, AddFire, AddSurface
<1> QED
  BY <1>7, JoinShaped, WhenShaped DEF FirstState

LEMMA EnterShaped ==
    ASSUME NEW m
    PROVE  ShapedStage(Check \o Inputs(m) \o When(m.collider, Solidify))
<1>1. ASSUME NEW names, \A a \in 1..3 : names[a] \in Named /\ ShapeFor(names[a]) = Axes[a]
      PROVE  ShapedStage(InputFaces(names))
  <2> DEFINE P == [a \in 1..3 |-> Input(names[a], Axes[a])]
  <2>1. \A a \in 1..3 : ShapedStage(P[a])
    BY <1>1, AcquireShaped
  <2>2. P = [a \in 1..3 |-> P[a]]
    OBVIOUS
  <2> HIDE DEF P
  <2>3. ShapedStage(FlattenSeq(P))
    BY <2>1, <2>2, AxesShaped
  <2> QED
    BY <2>3 DEF P, InputFaces
<1>2. ShapedStage(InputFaces(Target)) /\ ShapedStage(InputFaces(Moving))
  BY <1>1, CellsShaped
<1>3. \A n \in CellNames : ShapedStage(Input(n, "cells")) /\ ShapedStage(Acquire(n, "cells"))
  BY CellsShaped, AcquireShaped
<1>4. /\ ShapedStage(Input("src_density", "cells")) /\ ShapedStage(Input("src_temperature", "cells"))
      /\ ShapedStage(Input("weight", "cells")) /\ ShapedStage(Input("sdf", "cells"))
      /\ ShapedStage(Input("src_fuel", "cells")) /\ ShapedStage(Input("load", "cells"))
      /\ ShapedStage(Acquire("mask", "cells"))
  BY <1>3 DEF CellNames
<1>5. ShapedStage(Solidify)
  BY <1>4, QuietShaped, JoinShaped DEF Solidify
<1>6. ShapedStage(Input("weight", "cells") \o InputFaces(Target))
      /\ ShapedStage(Input("sdf", "cells") \o InputFaces(Moving))
  BY <1>2, <1>4, JoinShaped
<1>7. /\ ShapedStage(Input("src_density", "cells") \o Input("src_temperature", "cells"))
      /\ ShapedStage(When(m.emission, Input("weight", "cells") \o InputFaces(Target)))
      /\ ShapedStage(When(m.collider, Input("sdf", "cells") \o InputFaces(Moving)))
      /\ ShapedStage(When(m.fire, Input("src_fuel", "cells")))
      /\ ShapedStage(When(m.surface, Input("load", "cells")))
      /\ ShapedStage(When(m.collider, Solidify))
  BY <1>4, <1>5, <1>6, JoinShaped, WhenShaped
<1>8. ShapedStage(Inputs(m))
  BY <1>7, JoinShaped DEF Inputs
<1> QED
  BY <1>7, <1>8, StepsShaped, JoinShaped

\* A substep up to the projection, and after it.
LEMMA PreProjectionShaped ==
    ASSUME NEW m
    PROVE  ShapedStage(PreProjection(m))
<1>1. /\ \A dst, src : ShapedStage(Emit(dst, src))
      /\ \A src : ShapedStage(EmitFuel(src))
      /\ ShapedStage(SurfaceBurn(m)) /\ ShapedStage(SurfaceGather(m)) /\ ShapedStage(Burn)
      /\ ShapedStage(Buoyancy(m)) /\ ShapedStage(Curl(m))
  BY StepsShaped DEF Emit, EmitFuel, SurfaceBurn, SurfaceGather, Burn, Buoyancy, Curl
<1>2. ShapedStage(BlendVelocity(m)) /\ ShapedStage(Wind(m)) /\ ShapedStage(Confine(m))
  <2> DEFINE P == [a \in 1..3 |->
                 Dispatch("blend_velocity", {Faces[a], "weight", Target[a]} \union Mask(m), {Faces[a]})]
             Q == [a \in 1..3 |-> Dispatch("wind", {Faces[a]} \union Mask(m), {Faces[a]})]
             R == [a \in 1..3 |->
                 Dispatch("confine",
                          {Faces[a]} \union Omega \union Mask(m)
                            \union (IF m.fire THEN {"fuel"} ELSE {}),
                          {Faces[a]})]
  <2>1. /\ \A a \in 1..3 : ShapedStage(P[a]) /\ ShapedStage(Q[a]) /\ ShapedStage(R[a])
        /\ P = [a \in 1..3 |-> P[a]] /\ Q = [a \in 1..3 |-> Q[a]] /\ R = [a \in 1..3 |-> R[a]]
    BY StepsShaped
  <2> HIDE DEF P, Q, R
  <2>2. ShapedStage(FlattenSeq(P)) /\ ShapedStage(FlattenSeq(Q)) /\ ShapedStage(FlattenSeq(R))
    BY <2>1, AxesShaped
  <2> QED
    BY <2>2 DEF P, Q, R, BlendVelocity, Wind, Confine
<1>3. \A n \in Scratch \ {"x", "y", "z"} : ShapedStage(Acquire(n, "cells"))
  <2>1. \A n \in Scratch \ {"x", "y", "z"} : n \notin AxisNames(1) \union AxisNames(2) \union AxisNames(3)
    BY NamesAre DEF Scratch, Omega, LevelNames
  <2> QED
    BY <2>1, OfCellsShaped
<1>4. ShapedStage(SurfaceStage(m))
  <2>1. {"emitted", "rate"} \subseteq Scratch \ {"x", "y", "z"}
    BY DEF Scratch
  <2>2. ShapedStage(Acquire("emitted", "cells")) /\ ShapedStage(Freeing(Acquire("rate", "cells"), {"emitted"}))
    BY <1>3, <2>1, DroppingShaped
  <2> QED
    BY <1>1, <2>2, StepsShaped, JoinShaped DEF SurfaceStage
<1>5. ShapedStage(FireStage(m))
  BY <1>1, <1>4, JoinShaped, WhenShaped DEF FireStage
<1>6. ShapedStage(ConfineVorticity(m))
  <2> DEFINE names == <<"omega0", "omega1", "omega2", "omega3">>
             P == [i \in 1..4 |-> Acquire(names[i], "cells")]
  <2>1. ASSUME NEW i \in 1..4
        PROVE  ShapedStage(P[i])
    <3>1. names[i] \in Scratch \ {"x", "y", "z"}
      <4>1. i = 1 \/ i = 2 \/ i = 3 \/ i = 4
        OBVIOUS
      <4> QED
        BY <4>1 DEF Scratch, Omega
    <3> QED
      BY <1>3, <3>1
  <2>2. P = [i \in 1..4 |-> P[i]] /\ 4 \in Nat
    OBVIOUS
  <2> HIDE DEF P
  <2>3. ShapedStage(FlattenSeq(P))
    BY <2>1, <2>2, FlattenShaped
  <2> QED
    BY <1>1, <1>2, <2>3, StepsShaped, JoinShaped DEF P, ConfineVorticity
<1>7. ASSUME NEW src, NEW shape, NEW dst, dst \in Named => shape = ShapeFor(dst)
      PROVE  ShapedStage(AdvectGrid(m, src, shape, dst))
  <2>1. /\ ShapedStage(Acquire(dst, shape)) /\ ShapedStage(Acquire("fwd", shape))
        /\ ShapedStage(Acquire("bwd", shape))
    BY <1>7, OthersAre, AcquireShaped, AcquireOtherShaped
  <2>2. /\ \A pass, s, along, d : ShapedStage(AdvectKernel(m, pass, s, along, d))
        /\ ShapedStage(MacCormackKernel(m, src, dst))
    BY StepsShaped DEF AdvectKernel, MacCormackKernel
  <2>3. ShapedStage(MacCormack(m, src, shape, dst))
    BY <2>1, <2>2, StepsShaped, JoinShaped DEF MacCormack
  <2> QED
    BY <2>1, <2>2, <2>3, JoinShaped DEF AdvectGrid
<1>8. ShapedStage(AdvectVelocity(m))
  <2> DEFINE P == [a \in 1..3 |-> AdvectGrid(m, Faces[a], Axes[a], Axes[a])]
             Q == [a \in 1..3 |-> Replace(Faces[a], Axes[a])]
  <2>1. \A a \in 1..3 : ShapedStage(P[a]) /\ ShapedStage(Q[a])
    BY <1>7, CellsShaped, ReplaceShaped
  <2>2. P = [a \in 1..3 |-> P[a]] /\ Q = [a \in 1..3 |-> Q[a]]
    OBVIOUS
  <2> HIDE DEF P, Q
  <2>3. ShapedStage(FlattenSeq(P) \o FlattenSeq(Q))
    BY <2>1, <2>2, AxesShaped, JoinShaped
  <2> QED
    BY <2>3 DEF P, Q, AdvectVelocity
<1>9. /\ ShapedStage(When(m.fire, FireStage(m))) /\ ShapedStage(When(m.emission, BlendVelocity(m)))
      /\ ShapedStage(When(m.wind, Wind(m))) /\ ShapedStage(When(m.vorticity, ConfineVorticity(m)))
  BY <1>2, <1>5, <1>6, WhenShaped
<1>10. ShapedStage(Emit("density", "src_density") \o Emit("temperature", "src_temperature"))
  BY <1>1, JoinShaped
<1> QED
  BY <1>1, <1>8, <1>9, <1>10, JoinShaped DEF PreProjection

LEMMA AdvectScalarsShaped ==
    ASSUME NEW m
    PROVE  ShapedStage(AdvectScalars(m))
<1>1. ASSUME NEW src \in {"density", "temperature", "fuel", "react"}
      PROVE  ShapedStage(AdvectScalar(m, src))
  <2>1. src \in CellNames /\ "dst" \in CellNames
    BY DEF CellNames
  <2>2. ShapedStage(Replace(src, "dst")) /\ ShapedStage(Acquire("dst", "cells"))
    BY <2>1, CellsShaped, ReplaceShaped, AcquireShaped
  <2>3. /\ ShapedStage(Acquire("fwd", "cells")) /\ ShapedStage(Acquire("bwd", "cells"))
        /\ ShapedStage(Acquire("scratch", "cells"))
    BY OthersAre, AcquireOtherShaped
  <2>4. /\ \A pass, s, along, d : ShapedStage(AdvectKernel(m, pass, s, along, d))
        /\ ShapedStage(MacCormackKernel(m, src, "dst"))
    BY StepsShaped DEF AdvectKernel, MacCormackKernel
  <2>5. ShapedStage(MacCormack(m, src, "cells", "dst"))
    BY <2>3, <2>4, StepsShaped, JoinShaped DEF MacCormack
  <2>6. ShapedStage(AdvectGrid(m, src, "cells", "dst"))
    BY <2>2, <2>4, <2>5, JoinShaped DEF AdvectGrid
  <2>7. ShapedStage(MeasureBefore(m, src)) /\ ShapedStage(CorrectAfter("dst"))
    BY StepsShaped, JoinShaped DEF MeasureBefore, CorrectAfter
  <2>8. ShapedStage(NewTarget(MassSlots) \o Acquire("scratch", "cells")
                      \o MeasureBefore(m, src) \o Retire({"scratch"}))
    BY <2>3, <2>7, StepsShaped, JoinShaped
  <2> QED
    BY <2>2, <2>6, <2>7, <2>8, JoinShaped, WhenShaped DEF AdvectScalar
<1>2. /\ ShapedStage(AdvectScalar(m, "density")) /\ ShapedStage(AdvectScalar(m, "temperature"))
      /\ ShapedStage(AdvectScalar(m, "fuel")) /\ ShapedStage(AdvectScalar(m, "react"))
  BY <1>1
<1> QED
  BY <1>2, JoinShaped, WhenShaped DEF AdvectScalars

\* Copying the fields out.
LEMMA LeaveShaped ==
    ASSUME NEW m
    PROVE  ShapedStage(Leave(m))
<1> DEFINE whole == {"out0", "out1", "out3", "out4", "out5"}
<1>1. ASSUME NEW n \in whole
      PROVE  /\ ShapedStage(Acquire(n, "cells")) /\ ShapedStage(AcquireZeroed(n, "cells"))
             /\ \A of : ShapedStage(Duplicate(n, "cells", of))
  <2>1. n \notin AxisNames(1) \union AxisNames(2) \union AxisNames(3)
    BY NamesAre
  <2> QED
    BY <2>1, OfCellsShaped
<1>2. /\ \A of : ShapedStage(Duplicate("out0", "cells", of)) /\ ShapedStage(Duplicate("out1", "cells", of))
                 /\ ShapedStage(Duplicate("out5", "cells", of))
      /\ ShapedStage(Acquire("out3", "cells")) /\ ShapedStage(AcquireZeroed("out3", "cells"))
      /\ ShapedStage(Acquire("out4", "cells")) /\ ShapedStage(AcquireZeroed("out4", "cells"))
      /\ ShapedStage(AcquireZeroed("out5", "cells"))
  BY <1>1
<1>3. ShapedStage(DuplicateVelocity)
  <2> DEFINE P == [a \in 1..3 |-> Duplicate(OutFaces[a], Axes[a], Faces[a])]
  <2>1. ASSUME NEW a \in 1..3
        PROVE  ShapedStage(P[a])
    BY CellsShaped, ZeroedShaped
  <2>2. P = [a \in 1..3 |-> P[a]]
    OBVIOUS
  <2> HIDE DEF P
  <2>3. ShapedStage(FlattenSeq(P))
    BY <2>1, <2>2, AxesShaped
  <2> QED
    BY <2>3 DEF P, DuplicateVelocity
<1>4. ShapedStage(<<[Flame("out3")[1] EXCEPT !.op = "run"]>>)
      /\ ShapedStage(<<[SurfaceChar("out4")[1] EXCEPT !.op = "run"]>>)
  <2>1. ASSUME NEW kernel, NEW reads, NEW writes
        PROVE  ShapedStage(<<[Dispatch(kernel, reads, writes)[1] EXCEPT !.op = "run"]>>)
    <3> DEFINE i == Instruction("record", {}, kernel, reads, writes)
               j == [i EXCEPT !.op = "run"]
    <3>1. j.op = "run" /\ IsInstruction(j)
      BY DEF Instruction, IsInstruction
    <3>2. Dispatch(kernel, reads, writes)[1] = i
      BY DEF Dispatch
    <3> HIDE DEF i
    <3>3. Shaped(j)
      BY <3>1 DEF Shaped
    <3> QED
      BY <3>2, <3>3, OneShaped
  <2> QED
    BY <2>1 DEF Flame, SurfaceChar
<1>5. ShapedStage(FlameOutput(m)) /\ ShapedStage(CharOutput(m)) /\ ShapedStage(FuelOutput(m))
  BY <1>2, <1>4, JoinShaped DEF FlameOutput, CharOutput, FuelOutput
<1>6. /\ ShapedStage(When(0 \in m.wanted, Duplicate("out0", "cells", "density")))
      /\ ShapedStage(When(1 \in m.wanted, Duplicate("out1", "cells", "temperature")))
      /\ ShapedStage(When(2 \in m.wanted, DuplicateVelocity))
      /\ ShapedStage(When(3 \in m.wanted, FlameOutput(m)))
      /\ ShapedStage(When(4 \in m.wanted, CharOutput(m)))
      /\ ShapedStage(When(5 \in m.wanted, FuelOutput(m)))
  BY <1>2, <1>3, <1>5, WhenShaped
<1>7. ShapedStage(CopyOutputs(m))
  BY <1>6, JoinShaped DEF CopyOutputs
<1>8. /\ ShapedStage(Release({"mask"})) /\ ShapedStage(Release(InputNames))
      /\ ShapedStage(Release(OutputNames)) /\ ShapedStage(PutState(m))
  BY StepsShaped, GivenAreNamed
<1> QED
  BY <1>7, <1>8, JoinShaped DEF Leave

\* The pressure solve: a sweep, the relaxation, and the multigrid stages.
LEMMA SmoothShaped ==
    ASSUME NEW p, NEW rhs, NEW views, NEW sweeps \in Nat, NEW reverse
    PROVE  ShapedStage(Smooth(p, rhs, views, sweeps, reverse))
<1> DEFINE red == Dispatch("red", {p, rhs} \union views, {p})
           black == Dispatch("black", {p, rhs} \union views, {p})
           P == [i \in 1..sweeps |-> IF reverse THEN black \o red ELSE red \o black]
<1>1. ShapedStage(red) /\ ShapedStage(black)
  BY StepsShaped
<1> HIDE DEF red, black
<1>2. ShapedStage(black \o red) /\ ShapedStage(red \o black)
  BY <1>1, JoinShaped
<1>3. (\A i \in 1..sweeps : ShapedStage(P[i])) /\ P = [i \in 1..sweeps |-> P[i]]
  BY <1>2
<1> HIDE DEF P
<1>4. ShapedStage(FlattenSeq(P))
  BY <1>3, FlattenShaped
<1> QED
  BY <1>4 DEF P, red, black, Smooth

LEMMA SolvePressureShaped ==
    ASSUME NEW m \in Modes
    PROVE  ShapedStage(SolvePressure(m))
<1> DEFINE P == [i \in 1..m.iterations |->
                   When(i > 1 /\ (i - 1) % m.perSubmit = 0, Flush)
                     \o Smooth("pressure", "div", Mask(m), 1, FALSE)]
<1>1. m.iterations \in Nat
  BY SolverAssumption
<1>2. ShapedStage(Smooth("pressure", "div", Mask(m), 1, FALSE))
  BY SmoothShaped
<1>3. \A c : ShapedStage(When(c, Flush))
  BY StepsShaped, WhenShaped
<1>4. (\A i \in 1..m.iterations : ShapedStage(P[i])) /\ P = [i \in 1..m.iterations |-> P[i]]
  BY <1>2, <1>3, JoinShaped
<1> HIDE DEF P
<1>5. ShapedStage(FlattenSeq(P))
  BY <1>1, <1>4, FlattenShaped
<1>6. ShapedStage(Pressure(m))
  BY <1>5 DEF P, Pressure
<1>7. ShapedStage(NewTarget({"sum"}) \o RemoveMean)
  BY StepsShaped, JoinShaped DEF RemoveMean
<1> QED
  BY <1>6, <1>7, JoinShaped, WhenShaped DEF SolvePressure

LEMMA FluidMeanShaped ==
    ASSUME NEW m, NEW field, NEW l
    PROVE  ShapedStage(FluidMean(m, field, l))
  BY StepsShaped, JoinShaped DEF FluidMean

LEMMA VCyclesShaped ==
    ASSUME NEW m \in Modes, NEW x, NEW b, NEW cycles \in Nat
    PROVE  ShapedStage(VCycles(m, x, b, cycles))
<1>1. m.sweeps \in Nat /\ Depth - 1 = 2 /\ Depth - 1 \in Nat /\ 1 \in Nat
  BY SolverAssumption DEF Depth
<1>2. \A y, c, l, reverse : /\ ShapedStage(SmootherAt(m, y, c, l, m.sweeps, reverse))
                            /\ ShapedStage(SmootherAt(m, y, c, l, 1, reverse))
  BY <1>1, SmoothShaped DEF SmootherAt
<1>3. ASSUME NEW l
      PROVE  ShapedStage(Down(m, x, b, l)) /\ ShapedStage(Up(m, x, b, l))
  <2>1. /\ ShapedStage(Residual(m, X(x, l), B(b, l), Tmp[l], l))
        /\ ShapedStage(RestrictResidual(m, l)) /\ ShapedStage(Prolong(m, x, l))
    BY StepsShaped DEF Residual, RestrictResidual, Prolong
  <2>2. ShapedStage(When(m.closed, FluidMean(m, Rhs[l + 1], l + 1)))
    BY FluidMeanShaped, WhenShaped
  <2>3. ShapedStage(Down(m, x, b, l))
    BY <1>2, <2>1, <2>2, JoinShaped DEF Down
  <2> QED
    BY <1>2, <2>1, <2>3, JoinShaped DEF Up
<1>4. ShapedStage(Coarsest(m, x, b))
  BY <1>2, JoinShaped DEF Coarsest
<1>5. ShapedStage(Cycle(m, x, b))
  <2> DEFINE n == Depth - 1
             P == [l \in 1..n |-> Down(m, x, b, l)]
             Q == [i \in 1..n |-> Up(m, x, b, Depth - i)]
  <2>1. /\ \A l \in 1..n : ShapedStage(P[l]) /\ ShapedStage(Q[l])
        /\ P = [l \in 1..n |-> P[l]] /\ Q = [l \in 1..n |-> Q[l]] /\ n \in Nat
    BY <1>1, <1>3
  <2> HIDE DEF P, Q, n
  <2>2. ShapedStage(FlattenSeq(P)) /\ ShapedStage(FlattenSeq(Q))
    BY <2>1, FlattenShaped
  <2> QED
    BY <1>4, <2>2, JoinShaped DEF P, Q, n, Cycle
<1> DEFINE R == [i \in 1..cycles |-> When(i > 1, Flush) \o Cycle(m, x, b)]
<1>6. \A c : ShapedStage(When(c, Flush))
  BY StepsShaped, WhenShaped
<1>7. (\A i \in 1..cycles : ShapedStage(R[i])) /\ R = [i \in 1..cycles |-> R[i]]
  BY <1>5, <1>6, JoinShaped
<1> HIDE DEF R
<1>8. ShapedStage(FlattenSeq(R))
  BY <1>7, FlattenShaped
<1>9. ShapedStage(When(m.closed, FluidMean(m, x, 1)))
  BY FluidMeanShaped, WhenShaped
<1> QED
  BY <1>8, <1>9, JoinShaped DEF R, VCycles

LEMMA HierarchyShaped ==
    ASSUME NEW m
    PROVE  ShapedStage(Hierarchy(m))
<1>1. Depth = 3 /\ Depth \in Nat /\ Depth - 1 \in Nat
  BY DEF Depth
<1>2. ASSUME NEW l \in 1..Depth
      PROVE  ShapedStage(Level(m, l))
  <2>1. /\ l > 1 => {Rhs[l], E[l], CoarseMask[l], Phi[l]} \subseteq LevelNames
        /\ l < Depth => {Tmp[l], Norm[l]} \subseteq LevelNames
    <3>1. l = 1 \/ l = 2 \/ l = 3
      BY <1>1
    <3>2. CASE l = 1
      BY <1>1, <3>2 DEF Tmp, Norm, LevelNames
    <3>3. CASE l = 2
      BY <1>1, <3>3 DEF Rhs, E, CoarseMask, Phi, Tmp, Norm, LevelNames
    <3>4. CASE l = 3
      BY <1>1, <3>4 DEF Rhs, E, CoarseMask, Phi, LevelNames
    <3> QED
      BY <3>1, <3>2, <3>3, <3>4
  <2>2. \A n \in LevelNames : ShapedStage(Acquire(n, Shapes[l]))
    BY OthersAre, AcquireOtherShaped
  <2>3. ShapedStage(RestrictMask(l)) /\ ShapedStage(RestrictFraction(l))
        /\ ShapedStage(Reduce(CoarseMask[l], SolidCount[l]))
    BY StepsShaped DEF RestrictMask, RestrictFraction
  <2>4. /\ l > 1 => ShapedStage(Acquire(Rhs[l], Shapes[l]) \o Acquire(E[l], Shapes[l]))
        /\ l < Depth => ShapedStage(Acquire(Tmp[l], Shapes[l])) /\ ShapedStage(Acquire(Norm[l], Shapes[l]))
        /\ l > 1 => ShapedStage(Acquire(CoarseMask[l], Shapes[l]) \o RestrictMask(l))
        /\ l > 1 => ShapedStage(Acquire(Phi[l], Shapes[l]) \o RestrictFraction(l))
    BY <2>1, <2>2, <2>3, JoinShaped
  <2>5. /\ ShapedStage(When(l > 1, Acquire(Rhs[l], Shapes[l]) \o Acquire(E[l], Shapes[l])))
        /\ ShapedStage(When(l < Depth, Acquire(Tmp[l], Shapes[l])))
        /\ ShapedStage(When(l > 1 /\ m.collider, Acquire(CoarseMask[l], Shapes[l]) \o RestrictMask(l)))
        /\ ShapedStage(When(l < Depth /\ m.collider, Acquire(Norm[l], Shapes[l])))
        /\ ShapedStage(When(l > 1 /\ m.collider, Acquire(Phi[l], Shapes[l]) \o RestrictFraction(l)))
        /\ ShapedStage(When(m.collider, Reduce(CoarseMask[l], SolidCount[l])))
    BY <2>3, <2>4, WhenShaped
  <2> QED
    BY <2>5, JoinShaped DEF Level
<1> DEFINE n == Depth - 1
           P == [l \in 1..Depth |-> Level(m, l)]
           Q == [l \in 1..n |-> ProlongNorm(m, l)]
<1>3. \A l : ShapedStage(ProlongNorm(m, l))
  BY StepsShaped DEF ProlongNorm
<1>4. /\ \A l \in 1..Depth : ShapedStage(P[l])
      /\ \A l \in 1..n : ShapedStage(Q[l])
      /\ P = [l \in 1..Depth |-> P[l]] /\ Q = [l \in 1..n |-> Q[l]] /\ n \in Nat
  BY <1>1, <1>2, <1>3
<1> HIDE DEF P, Q, n
<1>5. ShapedStage(FlattenSeq(P)) /\ ShapedStage(FlattenSeq(Q))
  BY <1>1, <1>4, FlattenShaped
<1>6. ShapedStage(When(m.collider, FlattenSeq(Q)))
  BY <1>5, WhenShaped
<1>7. ShapedStage(NewTarget(Range(SolidCount)) \o FlattenSeq(P) \o NewTarget({"sum"})
                    \o When(m.collider, FlattenSeq(Q)))
  BY <1>5, <1>6, StepsShaped, JoinShaped
<1> QED
  BY <1>7, DroppingShaped DEF P, Q, n, Hierarchy

LEMMA MgpcgShaped ==
    ASSUME NEW m \in Modes
    PROVE  ShapedStage(Mgpcg(m))
<1>1. m.iterations \in Nat /\ 1 \in Nat /\ 5 \in Nat
  BY SolverAssumption
<1>2. /\ \A field : ShapedStage(ZeroField(field))
      /\ \A from, to : ShapedStage(CopyField(from, to))
      /\ \A i : ShapedStage(AxpyPR(i)) /\ ShapedStage(UpdateD(i))
      /\ \A x, b, out, l : ShapedStage(Residual(m, x, b, out, l))
  BY StepsShaped DEF ZeroField, CopyField, AxpyPR, UpdateD, Residual
<1>3. \A a, b, slot : ShapedStage(Dot(a, b, slot))
  BY StepsShaped, JoinShaped DEF Dot
<1>4. ShapedStage(ApplyM(m))
  BY <1>1, <1>2, VCyclesShaped, JoinShaped DEF ApplyM
<1>5. ShapedStage(RemoveRMean(m)) /\ ShapedStage(When(m.closed, FluidMean(m, "pressure", 1)))
  BY FluidMeanShaped, WhenShaped DEF RemoveRMean
<1>6. ASSUME NEW i
      PROVE  ShapedStage(Iteration(m, i))
  <2>1. ShapedStage(When(i > 0, Flush))
    BY StepsShaped, WhenShaped
  <2>2. ShapedStage(ApplyM(m) \o Dot("r", "zr", RzNew(i)) \o UpdateD(i))
    BY <1>2, <1>3, <1>4, JoinShaped
  <2>3. ShapedStage(When(i + 1 < m.iterations,
                        ApplyM(m) \o Dot("r", "zr", RzNew(i)) \o UpdateD(i)))
    BY <2>2, WhenShaped
  <2>4. ShapedStage(When(i > 0, Flush) \o ZeroField("product") \o Residual(m, "d", "product", "q", 1)
                      \o Dot("d", "q", "DQ") \o AxpyPR(i) \o RemoveRMean(m))
    BY <1>2, <1>3, <1>5, <2>1, JoinShaped
  <2> QED
    BY <2>3, <2>4, JoinShaped DEF Iteration
<1> DEFINE P == [i \in 1..m.iterations |-> Iteration(m, i - 1)]
<1>7. (\A i \in 1..m.iterations : ShapedStage(P[i])) /\ P = [i \in 1..m.iterations |-> P[i]]
  BY <1>6
<1> HIDE DEF P
<1>8. ShapedStage(FlattenSeq(P))
  BY <1>1, <1>7, FlattenShaped
<1>9. ShapedStage(RecordPcg(m))
  <2>1. ShapedStage(NewTarget(PcgSlots) \o Residual(m, "pressure", "div", "r", 1)
                      \o RemoveRMean(m) \o ApplyM(m) \o CopyField("zr", "d") \o Dot("r", "zr", "RZ_A"))
    BY <1>2, <1>3, <1>4, <1>5, StepsShaped, JoinShaped
  <2> QED
    BY <1>5, <1>8, <2>1, JoinShaped DEF P, RecordPcg
<1> DEFINE Q == [i \in 1..5 |-> Acquire(PcgNames[i], "cells")]
<1>10. ASSUME NEW i \in 1..5
       PROVE  ShapedStage(Q[i])
  <2>1. PcgNames[i] \in CellNames
    <3>1. i = 1 \/ i = 2 \/ i = 3 \/ i = 4 \/ i = 5
      OBVIOUS
    <3> QED
      BY <3>1 DEF PcgNames, CellNames
  <2> QED
    BY <2>1, CellsShaped, AcquireShaped
<1>11. Q = [i \in 1..5 |-> Q[i]]
  OBVIOUS
<1> HIDE DEF Q
<1>12. ShapedStage(Dropping(FlattenSeq(Q), Range(PcgNames)))
  BY <1>1, <1>10, <1>11, FlattenShaped, DroppingShaped
<1>13. ShapedStage(Freeing(RecordPcg(m) \o Flush, Range(PcgNames)))
  BY <1>9, StepsShaped, JoinShaped, DroppingShaped
<1>14. ShapedStage(Release(Range(PcgNames)))
  BY StepsShaped, GivenAreNamed
<1>15. ShapedStage(Dropping(FlattenSeq(Q), Range(PcgNames))
                     \o Freeing(RecordPcg(m) \o Flush, Range(PcgNames))
                     \o Release(Range(PcgNames)))
  BY <1>12, <1>13, <1>14, JoinShaped
<1> QED
  BY <1>15, WhenShaped DEF Q, Mgpcg

LEMMA ProjectShaped ==
    ASSUME NEW m \in Modes
    PROVE  ShapedStage(Project(m))
<1>1. m.iterations \in Nat /\ m.pressure \in {"gauss_seidel", "multigrid", "mgpcg"}
  BY SolverAssumption
<1>2. ShapedStage(Divergence) /\ ShapedStage(Acquire("div", "cells")) /\ ShapedStage(Retire({"div"}))
      /\ ShapedStage(Retire(HierarchyNames))
  BY StepsShaped, OthersAre, AcquireOtherShaped DEF Divergence
<1>3. ShapedStage(SubtractGradient(m))
  <2> DEFINE P == [axis \in 1..3 |->
                Dispatch("subtract_gradient",
                 {Faces[axis], "pressure"} \union Mask(m) \union Obstacle(m, axis),
                 {Faces[axis]})]
  <2>1. (\A a \in 1..3 : ShapedStage(P[a])) /\ P = [a \in 1..3 |-> P[a]]
    BY StepsShaped
  <2> HIDE DEF P
  <2>2. ShapedStage(FlattenSeq(P))
    BY <2>1, AxesShaped
  <2> QED
    BY <2>2 DEF P, SubtractGradient
<1>4. /\ ShapedStage(SolvePressure(m))
      /\ ShapedStage(Hierarchy(m) \o VCycles(m, "pressure", "div", m.iterations) \o Retire(HierarchyNames))
      /\ ShapedStage(Hierarchy(m) \o Mgpcg(m) \o Retire(HierarchyNames))
  BY <1>1, <1>2, SolvePressureShaped, HierarchyShaped, VCyclesShaped, MgpcgShaped, JoinShaped
<1>5. ASSUME NEW solve, ShapedStage(solve)
      PROVE  ShapedStage(Divergence \o solve \o SubtractGradient(m))
  BY <1>2, <1>3, <1>5, JoinShaped
<1>6. ShapedStage(RecordProjection(m))
  <2>1. CASE m.pressure = "gauss_seidel"
    BY <1>4, <1>5, <2>1 DEF RecordProjection
  <2>2. CASE m.pressure = "multigrid"
    BY <1>4, <1>5, <2>2 DEF RecordProjection
  <2>3. CASE m.pressure = "mgpcg"
    BY <1>4, <1>5, <2>3 DEF RecordProjection
  <2> QED
    BY <1>1, <2>1, <2>2, <2>3
<1> QED
  BY <1>2, <1>6, JoinShaped DEF Project

\* All the instructions of r but the last, which is an op.
ShapedBefore(r, op) ==
    \A k \in 1..Len(r) : Shaped(r[k]) \/ (k = Len(r) /\ r[k].op = op)

\* The instruction that follows a stage.
LEMMA EndsStage ==
    ASSUME NEW p, NEW q, IsStage(p), IsStage(q), Len(q) = 1
    PROVE  (p \o q)[Len(p) + 1] = q[1]
<1>1. \A k \in 1..Len(q) : (p \o q)[Len(p) + k] = q[k]
  BY StageJoin
<1>2. 1 \in 1..Len(q)
  OBVIOUS
<1> QED
  BY <1>1, <1>2

\* A stage with one instruction after it.
LEMMA OneMoreShaped ==
    ASSUME NEW p, ShapedStage(p), NEW q, Len(q) = 1, IsStage(q)
    PROVE  ShapedBefore(p \o q, q[1].op)
<1> DEFINE n == Len(p)
           r == p \o q
<1>2. IsStage(p) /\ n \in Nat
  BY StageFacts DEF ShapedStage
<1>3. /\ Len(r) = n + 1
      /\ \A j \in 1..n : r[j] = p[j]
      /\ r[n + 1] = q[1]
  <2>1. Len(p \o q) = Len(p) + Len(q)
    BY <1>2, StageJoin
  <2>2. \A j \in 1..Len(p) : (p \o q)[j] = p[j]
    BY <1>2, StageJoin
  <2>3. (p \o q)[Len(p) + 1] = q[1]
    BY EndsStage
  <2> QED
    BY <1>2, <2>1, <2>2, <2>3
<1>4. \A k \in 1..(n + 1) : k = n + 1 \/ k \in 1..n
  BY <1>2
<1> HIDE DEF r
<1>5. ShapedBefore(r, q[1].op)
  BY <1>3, <1>4 DEF ShapedStage, ShapedBefore
<1> QED
  BY <1>5 DEF r

\* A stage of one instruction.
LEMMA OneIs ==
    ASSUME NEW op, NEW names, NEW kernel, NEW reads, NEW writes, NEW q,
           q = <<Instruction(op, names, kernel, reads, writes)>>
    PROVE  Len(q) = 1 /\ IsStage(q) /\ q[1].op = op
<1> DEFINE i == Instruction(op, names, kernel, reads, writes)
           o == <<i>>
<1>1. i.op = op
  BY DEF Instruction
<1> HIDE DEF i
<1>2. Len(o) = 1 /\ IsStage(o) /\ o[1] = i
  BY DEF IsStage
<1> HIDE DEF o
<1>3. Len(o) = 1 /\ IsStage(o) /\ o[1].op = op
  BY <1>1, <1>2
<1>4. q = o
  BY DEF o, i
<1> QED
  BY <1>3, <1>4

\* The program of a frame, but for the submission that ends a substep and the
\* measurement before the first.
LEMMA ProgramShaped ==
    ASSUME NEW m \in Modes, NEW s \in Parts, NEW k \in 1..Len(Program[m][s])
    PROVE  \/ Shaped(Program[m][s][k])
           \/ /\ s = "substep" /\ k = Len(Program[m][s])
              /\ Program[m][s][k].op = "submit"
           \/ /\ s = "enter" /\ k = Len(Program[m][s])
              /\ Program[m][s][k].op = "measure"
<1>1. CASE s = "zeroed"
  BY <1>1, FirstStateShaped DEF Program, ShapedStage
<1>2. CASE s = "enter"
  <2> DEFINE p == Check \o Inputs(m) \o When(m.collider, Solidify)
             q == Measure
             r == p \o q
  <2>1. ShapedStage(p) /\ Program[m][s] = r
    BY <1>2, EnterShaped DEF Program, Enter
  <2>2. Len(q) = 1 /\ IsStage(q) /\ q[1].op = "measure"
    BY OneIs DEF Measure
  <2> HIDE DEF p, q
  <2>3. ShapedBefore(r, "measure")
    BY <2>1, <2>2, OneMoreShaped
  <2> HIDE DEF r
  <2> QED
    BY <1>2, <2>1, <2>3 DEF ShapedBefore
<1>3. CASE s = "leave"
  BY <1>3, LeaveShaped DEF Program, ShapedStage
<1>4. CASE s = "substep"
  <2> DEFINE p == Check \o PreProjection(m) \o Project(m) \o AdvectScalars(m)
             q == Submit
             r == p \o q
  <2>1. ShapedStage(p) /\ Program[m][s] = r
    <3>1. ShapedStage(p)
      BY StepsShaped, PreProjectionShaped, ProjectShaped, AdvectScalarsShaped, JoinShaped
    <3> QED
      BY <1>4, <3>1 DEF Program, Substep
  <2>2. Len(q) = 1 /\ IsStage(q) /\ q[1].op = "submit"
    BY OneIs DEF Submit
  <2> HIDE DEF p, q
  <2>3. ShapedBefore(r, "submit")
    BY <2>1, <2>2, OneMoreShaped
  <2> HIDE DEF r
  <2> QED
    BY <1>4, <2>1, <2>3 DEF ShapedBefore
<1> QED
  BY <1>1, <1>2, <1>3, <1>4 DEF Parts

-----------------------------------------------------------------------------
(***************************************************************************)
(* How many textures a point of the program needs.                         *)
(***************************************************************************)
\* What the program knows at each point of a part: one choice for all frames.
Course(m, s) == CHOOSE f : Knows(m, s, f) /\ Covers(EntryOf(m, s), f[0])

\* The names in S of fields of a shape.
Tally(S, x) == Cardinality({n \in S : ShapeFor(n) = x})

\* The textures of each shape that are away from the pool after i, where c are
\* before it and v is known there.
Drawn(i, v, c) ==
    [x \in PoolShapes |->
        IF i.op \in {"acquire", "input"} THEN IF i.kernel = x THEN c[x] + 1 ELSE c[x]
        ELSE IF i.op = "release" THEN c[x] - Tally(i.names \intersect v.scope, x)
        ELSE IF i.op = "submit" THEN Tally(v.scope \ Slots, x)
        ELSE c[x]]

\* Those in scope where a part begins.
AtFirst(m, s) == [x \in PoolShapes |-> Tally(EntryOf(m, s).scope, x)]

\* g counts them at the first n points of a part.
Ledger(m, s, g, n) ==
    g = [k \in 0..n |-> IF k = 0 THEN AtFirst(m, s)
                        ELSE Drawn(Program[m][s][k], Course(m, s)[k - 1], g[k - 1])]

\* The textures of each shape a frame has in use at each point of a part.
\* It depends on the mode alone.
Need(m, s) == CHOOSE g : Ledger(m, s, g, Len(Program[m][s]))

\* There is such a count for every part.
LEMMA LedgerExtends ==
    ASSUME NEW m, NEW s, NEW k \in Nat \ {0}, NEW g, Ledger(m, s, g, k - 1)
    PROVE  \E h : Ledger(m, s, h, k)
<1> DEFINE From(c, i) == Drawn(Program[m][s][i], Course(m, s)[i - 1], c)
           last == From(g[k - 1], k)
           h == [i \in 0..k |-> IF i = k THEN last ELSE g[i]]
<1> HIDE DEF last, From
<1>1. h[k] = last /\ \A i \in 0..(k - 1) : h[i] = g[i]
  OBVIOUS
<1>2. \A i \in 0..(k - 1) : g[i] = IF i = 0 THEN AtFirst(m, s) ELSE From(g[i - 1], i)
  <2>1. g = [i \in 0..(k - 1) |-> IF i = 0 THEN AtFirst(m, s) ELSE From(g[i - 1], i)]
    BY DEF Ledger, From
  <2> QED
    BY <2>1, Zenon
<1>3. ASSUME NEW i \in 0..k
      PROVE  h[i] = IF i = 0 THEN AtFirst(m, s) ELSE From(h[i - 1], i)
  <2>1. CASE i = k
    <3>1. k - 1 \in 0..(k - 1) /\ h[k - 1] = g[k - 1]
      BY <1>1
    <3>2. h[k] = From(h[k - 1], k)
      BY <1>1, <3>1 DEF last
    <3> HIDE DEF h
    <3> QED
      BY <2>1, <3>2
  <2>2. CASE i # k
    <3>1. i \in 0..(k - 1) /\ (i # 0 => i - 1 \in 0..(k - 1))
      BY <2>2
    <3>2. h[i] = g[i] /\ (i # 0 => h[i - 1] = g[i - 1])
      BY <1>1, <3>1
    <3> HIDE DEF h
    <3> QED
      BY <1>2, <3>1, <3>2
  <2> QED
    BY <2>1, <2>2
<1>4. h = [i \in 0..k |-> h[i]]
  OBVIOUS
<1> HIDE DEF h
<1>5. h = [i \in 0..k |-> IF i = 0 THEN AtFirst(m, s) ELSE From(h[i - 1], i)]
  BY <1>3, <1>4
<1> QED
  BY <1>5 DEF Ledger, From

LEMMA LedgerExists ==
    ASSUME NEW m, NEW s, NEW n \in Nat
    PROVE  \E g : Ledger(m, s, g, n)
<1> DEFINE Bad == {k \in Nat : ~ \E g : Ledger(m, s, g, k)}
<1> SUFFICES ASSUME Bad # {}
             PROVE  FALSE
  OBVIOUS
<1>1. PICK k \in Bad : \A j \in Bad : k <= j
  <2>1. Bad \in SUBSET Nat
    OBVIOUS
  <2> HIDE DEF Bad
  <2> QED
    BY <2>1, LeastElement
<1>2. k # 0
  <2> DEFINE g == [i \in 0..0 |-> AtFirst(m, s)]
  <2>1. g = [i \in 0..0 |-> IF i = 0 THEN AtFirst(m, s)
                            ELSE Drawn(Program[m][s][i], Course(m, s)[i - 1], g[i - 1])]
    <3>1. \A i \in 0..0 : i = 0
      OBVIOUS
    <3> QED
      BY <3>1
  <2> HIDE DEF g
  <2>2. Ledger(m, s, g, 0)
    BY <2>1 DEF Ledger
  <2> QED
    BY <2>2
<1>3. k - 1 \in Nat /\ k - 1 \notin Bad
  BY <1>1, <1>2
<1>4. PICK g : Ledger(m, s, g, k - 1)
  BY <1>3
<1>5. \E h : Ledger(m, s, h, k)
  BY <1>1, <1>2, <1>4, LedgerExtends
<1> QED
  BY <1>1, <1>5

\* What is needed first, and after each instruction.
LEMMA NeedIs ==
    ASSUME NEW m \in Modes, ~Incomplete(m), NEW s \in Parts
    PROVE  /\ Need(m, s)[0] = AtFirst(m, s)
           /\ \A k \in 1..Len(Program[m][s]) :
                 Need(m, s)[k] = Drawn(Program[m][s][k], Course(m, s)[k - 1], Need(m, s)[k - 1])
<1> DEFINE n == Len(Program[m][s])
           g == Need(m, s)
<1>1. n \in Nat
  BY PartIsKnown
<1>2. Ledger(m, s, g, n)
  BY <1>1, LedgerExists DEF Need
<1> HIDE DEF g, n
<1>3. g = [k \in 0..n |-> IF k = 0 THEN AtFirst(m, s)
                        ELSE Drawn(Program[m][s][k], Course(m, s)[k - 1], g[k - 1])]
  BY <1>2 DEF Ledger
<1>4. \A k \in 0..n : g[k] = IF k = 0 THEN AtFirst(m, s)
                        ELSE Drawn(Program[m][s][k], Course(m, s)[k - 1], g[k - 1])
  BY <1>3, Zenon
<1>5. 0 \in 0..n /\ \A k \in 1..n : k \in 0..n /\ k # 0
  BY <1>1
<1>6. g[0] = AtFirst(m, s)
  BY <1>4, <1>5
<1>7. \A k \in 1..n : g[k] = Drawn(Program[m][s][k], Course(m, s)[k - 1], g[k - 1])
  BY <1>4, <1>5
<1> QED
  BY <1>6, <1>7 DEF g, n

\* The course chosen is one the program allows.
LEMMA CourseIs ==
    ASSUME NEW m \in Modes, ~Incomplete(m), NEW s \in Parts
    PROVE  Knows(m, s, Course(m, s)) /\ Covers(EntryOf(m, s), Course(m, s)[0])
  BY PartIsKnown DEF Course

-----------------------------------------------------------------------------
(* The textures away from the pool *)
Away == (MadeOf(made) \ dropped) \ InPool(free)
AwayOf(x) == {t \in Away : t[1] = x}
Outstanding(x) == Cardinality(AwayOf(x))
Alive(x) == {t \in MadeOf(made) \ dropped : t[1] = x}

\* There are as many of each shape as a point of the program needs.
Room(m, s, k) == \A x \in PoolShapes : Need(m, s)[k][x] \in 0..Cardinality(Alive(x))

\* A name's texture has the name's shape.
OfTheirShape(b) == \A n \in DOMAIN b \intersect Named : b[n][1] = ShapeFor(n)

\* The textures away are those retired, named or stored.  When the pool has none
\* of a shape, all of that shape are away.
LEMMA AwayIs ==
    ASSUME Own
    PROVE  /\ Away = Range(retired) \union HeldBy(bound) \union HeldBy(store)
           /\ \A x : /\ AwayOf(x) \subseteq Alive(x)
                     /\ IsFiniteSet(AwayOf(x)) /\ IsFiniteSet(Alive(x))
                     /\ Outstanding(x) \in Nat /\ Cardinality(Alive(x)) \in Nat
                     /\ Outstanding(x) <= Cardinality(Alive(x))
           /\ \A x \in PoolShapes : free[x] = <<>> => AwayOf(x) = Alive(x)
<1>1. Away = Range(retired) \union HeldBy(bound) \union HeldBy(store)
  BY DEF Away, Own, Parted
<1>2. ASSUME NEW x
      PROVE  /\ AwayOf(x) \subseteq Alive(x)
             /\ IsFiniteSet(AwayOf(x)) /\ IsFiniteSet(Alive(x))
             /\ Outstanding(x) \in Nat /\ Cardinality(Alive(x)) \in Nat
             /\ Outstanding(x) <= Cardinality(Alive(x))
  <2>1. AwayOf(x) \subseteq Alive(x)
    BY DEF AwayOf, Alive, Away
  <2>2. Alive(x) \in SUBSET MadeOf(made) /\ AwayOf(x) \in SUBSET MadeOf(made)
    BY DEF AwayOf, Alive, Away
  <2>3. IsFiniteSet(AwayOf(x)) /\ IsFiniteSet(Alive(x))
    BY <2>2, OwnIsFinite
  <2>4. Cardinality(AwayOf(x)) <= Cardinality(Alive(x))
    BY <2>1, <2>3, FS_Subset
  <2> QED
    BY <2>1, <2>3, <2>4, FS_CardinalityType DEF Outstanding
<1>3. ASSUME NEW x \in PoolShapes, free[x] = <<>>
      PROVE  AwayOf(x) = Alive(x)
  <2>1. ASSUME NEW t \in InPool(free)
        PROVE  t[1] # x
    <3>1. PICK s \in PoolShapes : t \in Range(free[s])
      BY <2>1, InPoolIs
    <3>2. t[1] = s
      BY <3>1, ShapeOf DEF Own
    <3>3. Range(<<>>) = {}
      BY DEF Range
    <3> QED
      BY <1>3, <3>1, <3>2, <3>3
  <2> QED
    BY <2>1 DEF AwayOf, Alive, Away
<1> QED
  BY <1>1, <1>2, <1>3

\* As many textures as names of that shape.
LEMMA TallyIs ==
    ASSUME NEW b, NEW c, GoodNames(b, c), OfTheirShape(b), IsFiniteSet(HeldBy(b)),
           NEW S, S \subseteq DOMAIN b \ Slots, S \subseteq Named, NEW x
    PROVE  Tally(S, x) = Cardinality({t \in {b[n] : n \in S} : t[1] = x})
<1> DEFINE N == {n \in S : ShapeFor(n) = x}
           T == {t \in {b[n] : n \in S} : t[1] = x}
<1>1. \A n \in S : b[n][1] = ShapeFor(n)
  BY DEF OfTheirShape
<1>2. T = {b[n] : n \in N}
  BY <1>1
<1>3. T \subseteq HeldBy(b)
  BY DEF HeldBy
<1>4. IsFiniteSet(T)
  BY <1>3, FS_Subset
<1>5. \A n, k \in N : b[n] = b[k] => n = k
  BY DEF GoodNames
<1> HIDE DEF N, T
<1>6. Cardinality(N) = Cardinality(T)
  BY <1>2, <1>4, <1>5, AsMany
<1> QED
  BY <1>6 DEF N, T, Tally

-----------------------------------------------------------------------------
(* What a step does to them *)
\* The names in scope, and those of the slots, hold textures of their shapes.
AreShaped == OfTheirShape(bound) /\ OfTheirShape(store)

\* Nothing goes to the pool or comes from it.
LEMMA QuietDraws ==
    ASSUME made' = made, dropped' = dropped, InPool(free)' = InPool(free), NEW x
    PROVE  Outstanding(x)' = Outstanding(x)
  BY DEF Outstanding, AwayOf, Away

\* Taking a texture takes one that was not away.
LEMMA TakesOne ==
    ASSUME Own, NEW name, NEW shape \in PoolShapes, NEW holds, Take(name, shape, holds)
    PROVE  /\ free[shape] # <<>> => made' = made
           /\ dropped' = dropped
           /\ \E t : /\ bound' = Naming(bound, name, t) /\ t[1] = shape
                    /\ t \notin Away /\ Away' = Away \union {t}
<1> DEFINE t == IF free[shape] # <<>> THEN Last(free[shape]) ELSE <<shape, made[shape] + 1>>
<1>1. bound' = Naming(bound, name, t) /\ dropped' = dropped
  BY DEF Take
<1>2. /\ t \notin Away /\ t[1] = shape /\ Away' = Away \union {t}
      /\ free[shape] # <<>> => made' = made
  <2>1. CASE free[shape] # <<>>
    <3>1. t = Last(free[shape]) /\ free' = [free EXCEPT ![shape] = Front(@)] /\ made' = made
      BY <2>1 DEF Take
    <3> HIDE DEF t
    <3>2. t \in InPool(free)
      BY <2>1, <3>1, TakesLast DEF Own
    <3>5. InPool(free') = InPool(free) \ {t}
      BY <2>1, <3>1, TakesLast DEF Own
    <3>3. t[1] = shape
      <4>1. OneEach(free[shape])
        BY DEF Own, GoodPool
      <4>2. t \in Range(free[shape])
        BY <2>1, <3>1, <4>1, OneLess
      <4> QED
        BY <4>2, ShapeOf DEF Own
    <3>4. t \in MadeOf(made) \ dropped
      BY <3>2 DEF Own, Parted
    <3> QED
      BY <1>1, <3>1, <3>2, <3>3, <3>4, <3>5 DEF Away
  <2>2. CASE free[shape] = <<>>
    <3>1. t = <<shape, made[shape] + 1>> /\ free' = free /\ made' = [made EXCEPT ![shape] = @ + 1]
      BY <2>2 DEF Take
    <3> HIDE DEF t
    <3>2. t \notin MadeOf(made)
      BY <3>1, MakesOne DEF Own
    <3>3. MadeOf(made') = MadeOf(made) \union {t}
      <4> DEFINE more == made'
      <4>1. /\ more[shape] = made[shape] + 1 /\ made[shape] \in Nat
            /\ \A r \in PoolShapes \ {shape} : more[r] = made[r]
        BY <3>1 DEF Own
      <4> HIDE DEF more
      <4>2. \A r \in PoolShapes : \A k :
              k \in 1..more[r] <=> k \in 1..made[r] \/ (r = shape /\ k = made[shape] + 1)
        BY <4>1
      <4>3. \A u : u \in MadeOf(more) <=> u = <<u[1], u[2]>> /\ u[1] \in PoolShapes /\ u[2] \in 1..more[u[1]]
        BY MadeIs
      <4>4. \A u : u \in MadeOf(made) <=> u = <<u[1], u[2]>> /\ u[1] \in PoolShapes /\ u[2] \in 1..made[u[1]]
        BY MadeIs
      <4>5. ASSUME NEW u
            PROVE  u \in MadeOf(more) <=> u \in MadeOf(made) \/ u = t
        BY <3>1, <4>2, <4>3, <4>4
      <4> QED
        BY <4>5 DEF more
    <3>4. t \notin dropped /\ t \notin InPool(free)
      BY <3>2, PartsAreMade
    <3> QED
      BY <1>1, <2>2, <3>1, <3>2, <3>3, <3>4 DEF Away
  <2> QED
    BY <2>1, <2>2
<1> HIDE DEF t
<1> QED
  BY <1>1, <1>2

\* One more of its shape is away.
LEMMA TakeDraws ==
    ASSUME Own, NEW name, NEW shape \in PoolShapes, NEW holds, Take(name, shape, holds), NEW x
    PROVE  Outstanding(x)' = IF shape = x THEN Outstanding(x) + 1 ELSE Outstanding(x)
<1>1. PICK t : t[1] = shape /\ t \notin Away /\ Away' = Away \union {t}
  BY TakesOne
<1> DEFINE before == AwayOf(x)
           after == AwayOf(x)'
<1>2. after = IF shape = x THEN before \union {t} ELSE before
  BY <1>1 DEF AwayOf
<1>3. t \notin before /\ IsFiniteSet(before)
  BY <1>1, AwayIs DEF AwayOf
<1> HIDE DEF before, after
<1>4. Cardinality(after) = IF shape = x THEN Cardinality(before) + 1 ELSE Cardinality(before)
  BY <1>2, <1>3, FS_AddElement
<1> QED
  BY <1>4 DEF before, after, Outstanding

\* What is released is away no more.
LEMMA ReleaseDraws ==
    ASSUME Own, AreShaped, NEW names, names \intersect Slots = {}, names \subseteq Named,
           free' = Returned(Listed(TexturesOf(names))), bound' = Without(names),
           content' = content, retired' = retired, made' = made, store' = store, dropped' = dropped,
           NEW S, S = names \intersect DOMAIN bound, NEW x
    PROVE  Outstanding(x)' = Outstanding(x) - Tally(S, x)
<1> DEFINE T == {t \in {bound[n] : n \in S} : t[1] = x}
           before == AwayOf(x)
           after == AwayOf(x)'
<1>1. InPool(free)' = InPool(free) \union TexturesOf(names)
  BY Releasing
<1>2. TexturesOf(names) = {bound[n] : n \in S}
  BY DEF TexturesOf, In
<1>3. TexturesOf(names) \subseteq HeldBy(bound)
  BY Leaving
<1>4. TexturesOf(names) \subseteq Away
  BY <1>3, AwayIs
<1>5. T \subseteq before /\ after = before \ T
  BY <1>1, <1>2, <1>4 DEF AwayOf, Away
<1>6. IsFiniteSet(before)
  BY AwayIs
<1>7. Tally(S, x) = Cardinality(T)
  <2>1. GoodNames(bound, content) /\ OfTheirShape(bound)
    BY DEF Own, AreShaped
  <2>2. IsFiniteSet(HeldBy(bound))
    BY PartsAreMade, OwnIsFinite
  <2>3. S \subseteq DOMAIN bound \ Slots /\ S \subseteq Named
    OBVIOUS
  <2> QED
    BY <2>1, <2>2, <2>3, TallyIs
<1> HIDE DEF T, before, after
<1>8. Cardinality(before) = Cardinality(after) + Cardinality(T)
  <2>1. IsFiniteSet(T) /\ IsFiniteSet(after) /\ after \union T = before /\ after \intersect T = {}
    BY <1>5, <1>6, FS_Subset
  <2> QED
    BY <2>1, AddUp
<1>9. Cardinality(before) \in Nat /\ Cardinality(after) \in Nat /\ Cardinality(T) \in Nat
  <2>1. IsFiniteSet(T) /\ IsFiniteSet(after)
    BY <1>5, <1>6, FS_Subset
  <2> QED
    BY <1>6, <2>1, FS_CardinalityType
<1>10. Cardinality(after) = Cardinality(before) - Cardinality(T)
  BY <1>8, <1>9
<1> QED
  BY <1>7, <1>10 DEF before, after, Outstanding

\* When nothing is retired and no slot is taken, what is away is what names hold.
LEMMA NamesDraw ==
    ASSUME Own, AreShaped, retired = <<>>, store = EmptyBinding,
           NEW S, S = DOMAIN bound \ Slots, S \subseteq Named, NEW x
    PROVE  Outstanding(x) = Tally(S, x)
<1>1. Range(<<>>) = {}
  BY DEF Range
<1>2. Away = HeldBy(bound)
  BY <1>1, AwayIs, NoNames
<1>3. HeldBy(bound) = {bound[n] : n \in S}
  BY DEF HeldBy
<1>4. IsFiniteSet(HeldBy(bound)) /\ GoodNames(bound, content) /\ OfTheirShape(bound)
  BY PartsAreMade, OwnIsFinite DEF Own, AreShaped
<1>5. Tally(S, x) = Cardinality({t \in {bound[n] : n \in S} : t[1] = x})
  BY <1>4, TallyIs
<1> QED
  BY <1>2, <1>3, <1>5 DEF Outstanding, AwayOf

\* A submission gives back what is retired: what names hold stays away.
LEMMA SubmitDraws ==
    ASSUME Own, AreShaped, store = EmptyBinding, SubmitBatch,
           NEW S, S = DOMAIN bound \ Slots, S \subseteq Named, NEW x
    PROVE  Outstanding(x)' = Tally(S, x)
<1>1. /\ free' = Returned(retired) /\ dropped' = dropped /\ made' = made
  BY DEF SubmitBatch
<1>2. OneEach(retired) /\ Range(retired) \intersect InPool(free) = {}
  BY DEF Own, Parted
<1>3. InPool(free') = InPool(free) \union Range(retired)
  BY <1>1, <1>2, Returning
<1>4. Away = Range(retired) \union HeldBy(bound)
  BY AwayIs, NoNames
<1>5. Range(retired) \intersect HeldBy(bound) = {}
  BY DEF Own, Parted
<1>6. Away' = HeldBy(bound)
  BY <1>1, <1>3, <1>4, <1>5 DEF Away
<1>7. HeldBy(bound) = {bound[n] : n \in S}
  BY DEF HeldBy
<1>8. IsFiniteSet(HeldBy(bound)) /\ GoodNames(bound, content) /\ OfTheirShape(bound)
  BY PartsAreMade, OwnIsFinite DEF Own, AreShaped
<1>9. Tally(S, x) = Cardinality({t \in {bound[n] : n \in S} : t[1] = x})
  BY <1>8, TallyIs
<1> QED
  BY <1>6, <1>7, <1>9 DEF Outstanding, AwayOf

-----------------------------------------------------------------------------
\* A step of a part draws what the program says.
LEMMA DrawsFields ==
    ASSUME NEW v, NEW w, NEW m, Stays(m, v), Goes(m, FALSE, Current, v, w), AcquireField \/ TakeInput,
           NEW x \in PoolShapes, NEW c, c[x] = Outstanding(x)
    PROVE  Outstanding(x)' = Drawn(Current, v, c)[x]
<1>1. Current.op \in {"acquire", "input"} /\ Gains(Current, v, w)
  BY GoesBy DEF AcquireField, TakeInput, Doing
<1>2. PICK name, holds : Take(name, Current.kernel, holds)
  BY DEF AcquireField, TakeInput
<1>3. Current.kernel \in PoolShapes /\ Own
  BY <1>1 DEF Gains, Stays
<1>4. Outstanding(x)' = IF Current.kernel = x THEN Outstanding(x) + 1 ELSE Outstanding(x)
  BY <1>2, <1>3, TakeDraws
<1> QED
  BY <1>1, <1>4 DEF Drawn

\* So does a release,
LEMMA DrawsReleased ==
    ASSUME NEW v, NEW w, NEW m, Stays(m, v), Goes(m, FALSE, Current, v, w), ReleaseFields, AreShaped,
           Shaped(Current), NEW x \in PoolShapes, NEW c, c[x] = Outstanding(x)
    PROVE  Outstanding(x)' = Drawn(Current, v, c)[x]
<1> DEFINE names == Current.names
           S == names \intersect DOMAIN bound
<1>1. Current.op = "release" /\ names \intersect Slots = {} /\ names \subseteq Named
  BY GoesBy DEF ReleaseFields, Doing, Loses, Shaped
<1>2. /\ free' = Returned(Listed(TexturesOf(names))) /\ bound' = Without(names)
      /\ content' = content /\ retired' = retired /\ made' = made /\ store' = store
      /\ dropped' = dropped
  BY DEF ReleaseFields
<1> HIDE DEF names, S
<1>3. Own
  BY DEF Stays
<1>4. Outstanding(x)' = Outstanding(x) - Tally(S, x)
  BY <1>1, <1>2, <1>3, ReleaseDraws DEF S
<1>5. S = names \intersect v.scope
  BY <1>1 DEF S, Stays, Holds, Forgets
<1> QED
  BY <1>1, <1>4, <1>5 DEF Drawn, names

\* and a submission,
LEMMA DrawsSubmitted ==
    ASSUME NEW v, NEW w, NEW m, Stays(m, v), Goes(m, FALSE, Current, v, w), SubmitBatch, AreShaped,
           w.scope \subseteq Named, NEW x \in PoolShapes, NEW c
    PROVE  Outstanding(x)' = Drawn(Current, v, c)[x]
<1> DEFINE S == DOMAIN bound \ Slots
<1>1. Current.op = "submit" /\ w.scope = v.scope \ Slots /\ store = EmptyBinding
  <2>1. Current.op = "submit"
    BY DEF SubmitBatch, Doing
  <2>2. Submits(Current, v, w)
    BY <2>1, GoesBy
  <2>3. w.scope = v.scope \ Slots /\ ~v.kept
    BY <2>1, <2>2 DEF Submits
  <2>4. store = EmptyBinding
    BY <2>3 DEF Stays, Holds
  <2> QED
    BY <2>1, <2>3, <2>4
<1>2. S = v.scope \ Slots /\ S \subseteq Named /\ Own
  BY <1>1 DEF Stays, Holds, Forgets
<1>3. Outstanding(x)' = Tally(S, x)
  BY <1>1, <1>2, SubmitDraws
<1> QED
  BY <1>1, <1>2, <1>3 DEF Drawn

\* and the others draw nothing.
LEMMA DrawsNothing ==
    ASSUME NEW v, NEW c, NEW x \in PoolShapes, c[x] = Outstanding(x),
           \/ NewSlots \/ Record \/ RunOne \/ FlushBatch \/ RetireFields \/ ReplaceField
           \/ Checked \/ Put
    PROVE  Outstanding(x)' = Drawn(Current, v, c)[x]
<1>1. Current.op \notin {"acquire", "input", "release", "submit"}
  BY DEF NewSlots, Record, RunOne, FlushBatch, RetireFields, ReplaceField, Checked, Put, Doing
<1>2. free' = free /\ made' = made /\ dropped' = dropped
  BY DEF NewSlots, Record, RunOne, FlushBatch, RetireFields, ReplaceField, Checked, Put, textures
<1>3. Outstanding(x)' = Outstanding(x)
  BY <1>2, QuietDraws
<1> QED
  BY <1>1, <1>3 DEF Drawn

-----------------------------------------------------------------------------
(* The names keep their shapes *)
\* Nothing is named.
LEMMA NoneShaped == OfTheirShape(EmptyBinding)
  BY NoNames DEF OfTheirShape

\* A field is named.
LEMMA ShapedByTaking ==
    ASSUME NEW v, NEW w, NEW m, Stays(m, v), Goes(m, FALSE, Current, v, w), AcquireField \/ TakeInput,
           AreShaped, Shaped(Current)
    PROVE  AreShaped'
<1>1. Current.op \in {"acquire", "input"} /\ Gains(Current, v, w)
  BY GoesBy DEF AcquireField, TakeInput, Doing
<1>2. PICK name, holds : name \in Current.names /\ Take(name, Current.kernel, holds)
  BY DEF AcquireField, TakeInput
<1>3. Current.kernel \in PoolShapes /\ Own
  BY <1>1 DEF Gains, Stays
<1>4. PICK t : bound' = Naming(bound, name, t) /\ t[1] = Current.kernel
  BY <1>2, <1>3, TakesOne
<1>5. name \in Named => Current.kernel = ShapeFor(name)
  BY <1>1, <1>2 DEF Shaped
<1>6. store' = store
  BY <1>2 DEF Take
<1>7. DOMAIN bound' = DOMAIN bound \union {name} /\ bound'[name] = t
      /\ \A n \in DOMAIN bound : n # name => bound'[n] = bound[n]
  BY <1>4 DEF Naming
<1> QED
  BY <1>4, <1>5, <1>6, <1>7 DEF AreShaped, OfTheirShape

\* A field takes another's place.
LEMMA ShapedByReplacing ==
    ASSUME NEW v, NEW w, NEW m, Stays(m, v), Goes(m, FALSE, Current, v, w), ReplaceField,
           AreShaped, Shaped(Current)
    PROVE  AreShaped'
<1> DEFINE k == Current.kernel
<1>1. Current.op = "replace" /\ Replaces(m, Current, v, w)
  BY GoesBy DEF ReplaceField, Doing
<1>2. PICK name \in Current.names : bound' = Naming(Without({k}), name, bound[k]) /\ store' = store
  BY DEF ReplaceField
<1>3. k \in v.scope /\ Forgets(DOMAIN bound, v.scope)
  BY <1>1 DEF Replaces, Stays, Holds
<1>4. k \in DOMAIN bound
  BY <1>3 DEF Forgets
<1>5. name \in Named => k \in Named /\ ShapeFor(k) = ShapeFor(name)
  BY <1>1, <1>2 DEF Shaped
<1> HIDE DEF k
<1>6. /\ DOMAIN bound' \subseteq DOMAIN bound \union {name} /\ bound'[name] = bound[k]
      /\ \A n \in DOMAIN bound' : n # name => bound'[n] = bound[n]
  BY <1>2 DEF Naming, Without
<1> QED
  BY <1>2, <1>4, <1>5, <1>6 DEF AreShaped, OfTheirShape

\* The readback slots are no fields of a step.
LEMMA ShapedByNewSlots ==
    ASSUME NEW v, NEW w, NEW m, Stays(m, v), Goes(m, FALSE, Current, v, w), NewSlots, AreShaped
    PROVE  AreShaped'
<1>1. Current.names \subseteq Slots
  BY GoesBy DEF NewSlots, Doing, Targets
<1>2. /\ DOMAIN bound' = DOMAIN bound \union Current.names /\ store' = store
      /\ \A n \in DOMAIN bound : n \notin Current.names => bound'[n] = bound[n]
  BY DEF NewSlots
<1>3. Slots \intersect Named = {}
  BY OthersAre
<1> QED
  BY <1>1, <1>2, <1>3 DEF AreShaped, OfTheirShape

\* Names go out of scope.
LEMMA ShapedByLess ==
    ASSUME AreShaped, NEW S, bound' = Without(S), store' = store
    PROVE  AreShaped'
<1>1. DOMAIN bound' \subseteq DOMAIN bound /\ \A n \in DOMAIN bound' : bound'[n] = bound[n]
  BY DEF Without
<1> QED
  BY <1>1 DEF AreShaped, OfTheirShape

\* The step's names become those of the slots.
LEMMA ShapedByPutting ==
    ASSUME AreShaped, Put
    PROVE  AreShaped'
<1>1. /\ DOMAIN bound' \subseteq DOMAIN bound /\ \A n \in DOMAIN bound' : bound'[n] = bound[n]
      /\ DOMAIN store' \subseteq DOMAIN bound /\ \A n \in DOMAIN store' : store'[n] = bound[n]
  BY DEF Put, Without, In
<1> QED
  BY <1>1 DEF AreShaped, OfTheirShape

\* Every operation of a part, and every operation, keeps the shapes.
LEMMA ShapedInPart ==
    ASSUME OwnInv, AreShaped, seg \in Parts,
           \/ AcquireField \/ TakeInput \/ NewSlots \/ Record \/ RunOne \/ FlushBatch
           \/ SubmitBatch \/ RetireFields \/ ReplaceField \/ ReleaseFields \/ Checked \/ Put
    PROVE  AreShaped'
<1>1. PICK f, k : /\ mode \in Modes /\ k \in 1..Len(Program[mode][seg]) /\ pc = k
                  /\ Knows(mode, seg, f) /\ Stays(mode, f[k - 1])
                  /\ Goes(mode, FALSE, Current, f[k - 1], f[k])
  BY InPart
<1>2. Shaped(Current) \/ Current.op \in {"submit", "measure"}
  BY <1>1, ProgramShaped DEF Current
<1>3. CASE AcquireField \/ TakeInput
  <2>1. Shaped(Current)
    BY <1>2, <1>3 DEF AcquireField, TakeInput, Doing
  <2> QED
    BY <1>1, <1>3, <2>1, ShapedByTaking
<1>4. CASE ReplaceField
  <2>1. Shaped(Current)
    BY <1>2, <1>4 DEF ReplaceField, Doing
  <2> QED
    BY <1>1, <1>4, <2>1, ShapedByReplacing
<1>5. CASE NewSlots
  BY <1>1, <1>5, ShapedByNewSlots
<1>6. CASE SubmitBatch \/ RetireFields \/ ReleaseFields
  BY <1>6, ShapedByLess DEF SubmitBatch, RetireFields, ReleaseFields
<1>7. CASE Record \/ RunOne \/ FlushBatch \/ Checked
  <2>1. bound' = bound /\ store' = store
    BY <1>7 DEF Record, RunOne, FlushBatch, Checked, textures
  <2> QED
    BY <2>1 DEF AreShaped, OfTheirShape
<1> QED
  BY <1>3, <1>4, <1>5, <1>6, <1>7, ShapedByPutting

LEMMA ShapedNext ==
    ASSUME OwnInv, AreShaped, [Next]_vars
    PROVE  AreShaped'
<1>1. CASE \E m \in Modes : Refuse(m) \/ StartZeroed(m) \/ TakeState(m) \/ StateShape(m)
  <2>1. \/ bound' = bound /\ store' = store
        \/ bound' = store /\ store' = EmptyBinding
        \/ bound' = bound /\ store' = EmptyBinding
    BY <1>1 DEF Refuse, StartZeroed, TakeState, StateShape, textures
  <2>2. AreShaped' <=> OfTheirShape(bound') /\ OfTheirShape(store')
    BY DEF AreShaped, OfTheirShape
  <2> QED
    BY <2>1, <2>2, NoneShaped DEF AreShaped
<1>2. CASE \/ AcquireField \/ TakeInput \/ NewSlots \/ Record \/ RunOne \/ FlushBatch
           \/ SubmitBatch \/ RetireFields \/ ReplaceField \/ Checked \/ Put
  <2>1. seg \in Parts
    <3>1. Running
      BY <1>2 DEF AcquireField, TakeInput, NewSlots, Record, RunOne, FlushBatch, SubmitBatch,
                  RetireFields, ReplaceField, Checked, Put, Doing
    <3> QED
      BY <1>2, <3>1, OnlyCleanup DEF OwnInv, Where, Running
  <2> QED
    BY <1>2, <2>1, ShapedInPart
<1>3. CASE ReleaseFields \/ RetireLocals \/ Fail
  <2>1. store' = store /\ \E S : bound' = Without(S)
    BY <1>3 DEF ReleaseFields, RetireLocals, Fail
  <2> QED
    BY <2>1, ShapedByLess
<1>4. CASE MeasureSpeed \/ Wait \/ Discard \/ UNCHANGED vars
  <2>1. bound' = bound /\ store' = store
    BY <1>4 DEF MeasureSpeed, Wait, Discard, textures, vars
  <2> QED
    BY <2>1 DEF AreShaped, OfTheirShape
<1> QED
  BY <1>1, <1>2, <1>3, <1>4 DEF Next

-----------------------------------------------------------------------------
(***************************************************************************)
(* The invariant.                                                          *)
(***************************************************************************)
\* The textures away are those point k of a part needs.
Tallied(m, s, k) == \A x \in PoolShapes : Outstanding(x) = Need(m, s)[k][x]

\* The machine, in a part, is at a point of the program's course.
Counted ==
    seg \in Parts => Holds(mode, Course(mode, seg)[pc - 1]) /\ Tallied(mode, seg, pc - 1)

\* The parts of a frame that goes on from the one before, in order.
Rank == [enter |-> 1, substep |-> 2, leave |-> 3]
\* The points of a part: before each instruction, and at its end.
Points(m, s) == 0..Len(Program[m][s])

\* There is room at the points a frame has passed.
RoomSoFar ==
    seg \in DOMAIN Rank =>
        \A s \in DOMAIN Rank : \A k \in Points(mode, s) :
            Rank[s] < Rank[seg] \/ (s = seg /\ k < pc) => Room(mode, s, k)

\* There is room at every point of a frame in mode m.
RoomForAll(m) == \A s \in DOMAIN Rank : \A k \in Points(m, s) : Room(m, s, k)

\* There is in the mode of the frame that has completed last.
RoomSettled == \A m \in settled : RoomForAll(m)

\* A frame that goes on from a settled one finds its slots full.
SettledIs ==
    settled # {} => seg \notin {"zeroed", "cleanup"} /\ (seg = "idle" => store # EmptyBinding)

\* All of it.
GrowthInv == OwnInv /\ AreShaped /\ Counted /\ RoomSoFar /\ RoomSettled /\ SettledIs

-----------------------------------------------------------------------------
(* At a point *)
\* What a point needs, when that is what is away, there is; and a part that is
\* entered with its fields in scope has away what it needs at first.
RoomFound ==
    Own => \A m, s, k : Tallied(m, s, k) => Room(m, s, k)

EntryFound ==
    Own /\ AreShaped =>
        \A m : \A s \in Parts : Holds(m, EntryOf(m, s)) =>
            \A x \in PoolShapes : Outstanding(x) = AtFirst(m, s)[x]

LEMMA RoomIs == RoomFound
<1> SUFFICES ASSUME Own, NEW m, NEW s, NEW k, Tallied(m, s, k), NEW x \in PoolShapes
             PROVE  Need(m, s)[k][x] \in 0..Cardinality(Alive(x))
  BY DEF RoomFound, Room
<1>1. /\ Outstanding(x) \in Nat /\ Cardinality(Alive(x)) \in Nat
      /\ Outstanding(x) <= Cardinality(Alive(x))
  BY AwayIs
<1>2. Outstanding(x) = Need(m, s)[k][x]
  BY DEF Tallied
<1> QED
  BY <1>1, <1>2

LEMMA EntryIs == EntryFound
<1> SUFFICES ASSUME Own, AreShaped, NEW m, NEW s \in Parts, Holds(m, EntryOf(m, s)),
                    NEW x \in PoolShapes
             PROVE  Outstanding(x) = AtFirst(m, s)[x]
  BY DEF EntryFound
<1> DEFINE v == EntryOf(m, s)
           S == DOMAIN bound \ Slots
<1>1. /\ v.scope \subseteq StateNames(m) \union Given(m)
      /\ v.open = FALSE /\ v.flown = FALSE /\ v.kept = FALSE
  BY DEF EntryOf, Parts, Stepping, View
<1>2. Holds(m, v)
  OBVIOUS
<1> HIDE DEF v
<1>3. /\ retired = <<>> /\ DOMAIN bound \intersect Slots = {} /\ store = EmptyBinding
      /\ Forgets(DOMAIN bound, v.scope)
  BY <1>1, <1>2 DEF Holds, Busy
<1>4. S = v.scope /\ S \subseteq Named
  BY <1>1, <1>3, GivenAreNamed DEF Forgets
<1>5. Outstanding(x) = Tally(S, x)
  BY <1>3, <1>4, NamesDraw
<1> QED
  BY <1>4, <1>5 DEF AtFirst, v

\* The same after a step.
LEMMA FoundThen == RoomFound' /\ EntryFound'
<1>1. RoomFound /\ EntryFound
  BY RoomIs, EntryIs
<1> QED
  BY <1>1, PTL

\* Room once found remains.
LEMMA RoomStays ==
    ASSUME Own, Own', dropped' = dropped, MadeOf(made) \subseteq MadeOf(made'),
           NEW m, NEW s, NEW k, Room(m, s, k)
    PROVE  Room(m, s, k)'
<1> SUFFICES ASSUME NEW x \in PoolShapes
             PROVE  Need(m, s)[k][x] \in 0..Cardinality(Alive(x)')
  BY DEF Room
<1> DEFINE before == Alive(x)
           after == Alive(x)'
<1>1. before \subseteq after
  BY DEF Alive
<1>2. IsFiniteSet(after)
  <2>1. IsFiniteSet(MadeOf(made')) /\ after \subseteq MadeOf(made')
    BY MadeAreFinite DEF Own, Alive
  <2> QED
    BY <2>1, FS_Subset
<1>3. Need(m, s)[k][x] \in 0..Cardinality(before)
  BY DEF Room
<1> HIDE DEF before, after
<1>4. Cardinality(before) <= Cardinality(after) /\ IsFiniteSet(before)
  BY <1>1, <1>2, FS_Subset
<1>5. Cardinality(before) \in Nat /\ Cardinality(after) \in Nat
  BY <1>2, <1>4, FS_CardinalityType
<1>6. Need(m, s)[k][x] \in 0..Cardinality(after)
  BY <1>3, <1>4, <1>5
<1> QED
  BY <1>6 DEF after

\* Where the machine is, by the program's course.
LEMMA AtPlace ==
    ASSUME OwnInv, Counted, seg \in Parts
    PROVE  /\ mode \in Modes /\ ~Incomplete(mode) /\ pc \in 1..Len(Program[mode][seg])
           /\ Len(Program[mode][seg]) \in Nat \ {0}
           /\ Knows(mode, seg, Course(mode, seg))
           /\ Stays(mode, Course(mode, seg)[pc - 1])
           /\ Goes(mode, FALSE, Current, Course(mode, seg)[pc - 1], Course(mode, seg)[pc])
<1>1. mode \in Modes /\ ~Incomplete(mode) /\ pc \in 1..Len(Program[mode][seg])
  BY DEF OwnInv, Where, OnTrack, Running, Parts
<1>2. Knows(mode, seg, Course(mode, seg)) /\ Len(Program[mode][seg]) \in Nat \ {0}
  BY <1>1, CourseIs, PartIsKnown
<1>3. Goes(mode, FALSE, Current, Course(mode, seg)[pc - 1], Course(mode, seg)[pc])
  BY <1>1, <1>2 DEF Knows, Trace, Current
<1>4. Stays(mode, Course(mode, seg)[pc - 1])
  BY DEF Counted, OwnInv, Working, Stays, Parts
<1> QED
  BY <1>1, <1>2, <1>3, <1>4

\* After a step of a part the next point is as the program's course has it.
LEMMA NextDraws ==
    ASSUME OwnInv, AreShaped, Counted, seg \in Parts, NEW x \in PoolShapes,
           \/ AcquireField \/ TakeInput \/ NewSlots \/ Record \/ RunOne \/ FlushBatch
           \/ SubmitBatch \/ RetireFields \/ ReplaceField \/ ReleaseFields \/ Checked \/ Put
    PROVE  Outstanding(x)' = Need(mode, seg)[pc][x]
<1> DEFINE c == Need(mode, seg)[pc - 1]
<1>1. c[x] = Outstanding(x)
  BY DEF Counted, Tallied
<1>2. Need(mode, seg)[pc] = Drawn(Current, Course(mode, seg)[pc - 1], c)
  BY AtPlace, NeedIs DEF Current
<1> HIDE DEF c
<1>3. PICK m, v, w : m = mode /\ v = Course(mode, seg)[pc - 1] /\ w = Course(mode, seg)[pc]
  OBVIOUS
<1>4. Stays(m, v) /\ Goes(m, FALSE, Current, v, w)
  BY <1>3, AtPlace
<1>5. \/ Shaped(Current)
      \/ seg = "substep" /\ pc = Len(Program[mode][seg]) /\ Current.op = "submit"
      \/ Current.op = "measure"
  BY AtPlace, ProgramShaped DEF Current
<1>6. CASE AcquireField \/ TakeInput
  <2>1. Outstanding(x)' = Drawn(Current, v, c)[x]
    BY <1>1, <1>4, <1>6, DrawsFields
  <2> QED
    BY <1>2, <1>3, <2>1
<1>7. CASE ReleaseFields
  <2>1. Shaped(Current)
    BY <1>5, <1>7 DEF ReleaseFields, Doing
  <2>2. Outstanding(x)' = Drawn(Current, v, c)[x]
    BY <1>1, <1>4, <1>7, <2>1, DrawsReleased
  <2> QED
    BY <1>2, <1>3, <2>2
<1>8. CASE SubmitBatch
  <2>1. seg = "substep" /\ pc = Len(Program[mode][seg])
    BY <1>5, <1>8 DEF SubmitBatch, Doing, Shaped
  <2>2. w = ExitOf(mode, seg)
    BY <1>3, <2>1, AtPlace DEF Knows
  <2>3. w.scope = StateNames(mode) \union Given(mode)
    BY <2>1, <2>2 DEF ExitOf, View
  <2>4. w.scope \subseteq Named
    BY <2>3, GivenAreNamed
  <2>5. Outstanding(x)' = Drawn(Current, v, c)[x]
    BY <1>4, <1>8, <2>4, DrawsSubmitted
  <2> QED
    BY <1>2, <1>3, <2>5
<1>9. CASE \/ NewSlots \/ Record \/ RunOne \/ FlushBatch \/ RetireFields \/ ReplaceField
           \/ Checked \/ Put
  <2>1. Outstanding(x)' = Drawn(Current, v, c)[x]
    BY <1>1, <1>9, DrawsNothing
  <2> QED
    BY <1>2, <1>3, <2>1
<1> QED
  BY <1>6, <1>7, <1>8, <1>9

\* The same of the view, and of all the shapes.
LEMMA NextPoint ==
    ASSUME OwnInv, AreShaped, Counted, NEW m, mode = m, NEW s \in Parts, seg = s, NEW k, pc = k,
           \/ AcquireField \/ TakeInput \/ NewSlots \/ Record \/ RunOne \/ FlushBatch
           \/ SubmitBatch \/ RetireFields \/ ReplaceField \/ ReleaseFields \/ Checked \/ Put
    PROVE  Stays(m, Course(m, s)[k])' /\ Tallied(m, s, k)'
<1> DEFINE f == Course(m, s)
<1>1. Stays(m, f[k - 1]) /\ Goes(m, FALSE, Current, f[k - 1], f[k])
  BY AtPlace
<1>2. Stays(m, f[k])'
  <2>1. PICK u, v : u = f[k - 1] /\ v = f[k]
    OBVIOUS
  <2>2. Stays(m, u) /\ Goes(m, FALSE, Current, u, v)
    BY <1>1, <2>1
  <2>3. Stays(m, v)'
    BY <2>2, GainsStays, TargetsStays, DispatchesStays, FlushStays, SubmitStays, RetireStays,
       ReplaceStays, ReleaseStays, LooksStays, PutStays
  <2> QED
    BY <2>1, <2>3
<1>3. \A x \in PoolShapes : Outstanding(x)' = Need(m, s)[k][x]
  BY NextDraws
<1> QED
  BY <1>2, <1>3 DEF Tallied

\* Counted and tallied, from the point reached.
LEMMA CountedThen ==
    ASSUME NEW m, NEW s, NEW k, NEW v, v = Course(m, s)[k - 1], Holds(m, v)', Tallied(m, s, k - 1)',
           mode' = m, seg' = s, pc' = k
    PROVE  Counted'
<1>1. Course(mode', seg')[pc' - 1] = v
  OBVIOUS
<1>2. \A x \in PoolShapes : Outstanding(x)' = Need(mode', seg')[pc' - 1][x]
  BY DEF Tallied
<1> QED
  BY <1>1, <1>2 DEF Counted, Holds, Keeps, Tallied

LEMMA TalliedAgain ==
    ASSUME NEW m, NEW s, NEW k, NEW l, l = k, Tallied(m, s, k)'
    PROVE  Tallied(m, s, l)'
  BY DEF Tallied

\* A part begins.
LEMMA Arrives ==
    ASSUME NEW m \in Modes, ~Incomplete(m), NEW s \in Parts, Own', AreShaped',
           NEW v, Covers(v, EntryOf(m, s)), Holds(m, v)', mode' = m, seg' = s, pc' = 1
    PROVE  Counted' /\ Room(m, s, 0)'
<1>1. Covers(EntryOf(m, s), Course(m, s)[0])
  BY CourseIs
<1> DEFINE e == EntryOf(m, s)
           w == Course(m, s)[0]
<1>2. Covers(v, e) /\ Covers(e, w) /\ Covers(v, w)
  BY <1>1, CoversAll
<1> HIDE DEF e, w
<1>3. Holds(m, e)' /\ Holds(m, w)'
  BY <1>2, HoldsLessThen
<1>4. \A x \in PoolShapes : Outstanding(x)' = AtFirst(m, s)[x]
  <2>1. Holds(m, EntryOf(m, s))'
    BY <1>3 DEF e
  <2> QED
    BY <2>1, FoundThen DEF EntryFound, AtFirst
<1>5. Need(m, s)[0] = AtFirst(m, s)
  BY NeedIs
<1>6. Tallied(m, s, 0)'
  BY <1>4, <1>5 DEF Tallied
<1>7. Room(m, s, 0)'
  BY <1>6, FoundThen DEF RoomFound
<1> DEFINE k == 1
<1>8. Tallied(m, s, k - 1)'
  BY <1>6, TalliedAgain
<1>9. w = Course(m, s)[k - 1] /\ pc' = k
  BY DEF w
<1> HIDE DEF k
<1>10. Counted'
  BY <1>3, <1>8, <1>9, CountedThen
<1> QED
  BY <1>7, <1>10

-----------------------------------------------------------------------------
(* The steps preserve it *)
\* The operations of a part.
PartStep ==
    \/ AcquireField \/ TakeInput \/ NewSlots \/ Record \/ RunOne \/ FlushBatch
    \/ SubmitBatch \/ RetireFields \/ ReplaceField \/ ReleaseFields \/ Checked \/ Put

\* They end no frame but at the end of its last part, and drop nothing.
LEMMA PartStepIs ==
    ASSUME OwnInv, seg \in Parts, PartStep
    PROVE  /\ Continue /\ mode' = mode /\ dropped' = dropped /\ MadeOf(made) \subseteq MadeOf(made')
           /\ \/ settled' = settled
              \/ seg = "leave" /\ pc = Len(Program[mode][seg]) /\ settled' = {mode}
<1>1. Continue /\ mode' = mode /\ dropped' = dropped
  BY DEF PartStep, Continue, AcquireField, TakeInput, NewSlots, Record, RunOne, FlushBatch,
         SubmitBatch, RetireFields, ReplaceField, ReleaseFields, Checked, Put, Take, textures
<1>2. settled' = settled \/ (seg = "leave" /\ pc = Len(Program[mode][seg]) /\ settled' = {mode})
  BY DEF PartStep, AcquireField, TakeInput, NewSlots, Record, RunOne, FlushBatch,
         SubmitBatch, RetireFields, ReplaceField, ReleaseFields, Checked, Put
<1>3. CASE AcquireField \/ TakeInput
  <2>1. PICK f, k : Goes(mode, FALSE, Current, f[k - 1], f[k])
    BY InPart
  <2>2. Gains(Current, f[k - 1], f[k])
    BY <1>3, <2>1, GoesBy DEF AcquireField, TakeInput, Doing
  <2>3. PICK x : x = Current.kernel /\ x \in PoolShapes
    BY <2>2 DEF Gains
  <2>4. made' = made \/ made' = [made EXCEPT ![x] = @ + 1]
    BY <1>3, <2>3 DEF AcquireField, TakeInput, Take
  <2>5. made \in [PoolShapes -> Nat]
    BY DEF OwnInv, Own
  <2>6. \A s \in PoolShapes : 1..made[s] \subseteq 1..made'[s]
    BY <2>3, <2>4, <2>5
  <2>7. ASSUME NEW t \in MadeOf(made)
        PROVE  t \in MadeOf(made')
    <3>1. t = <<t[1], t[2]>> /\ t[1] \in PoolShapes /\ t[2] \in 1..made[t[1]]
      BY MadeIs
    <3>2. t[2] \in 1..made'[t[1]]
      BY <2>6, <3>1
    <3> QED
      BY <3>1, <3>2 DEF MadeOf
  <2> QED
    BY <1>1, <1>2, <2>7
<1>4. CASE ~(AcquireField \/ TakeInput)
  <2>1. made' = made
    BY <1>4 DEF PartStep, NewSlots, Record, RunOne, FlushBatch,
                SubmitBatch, RetireFields, ReplaceField, ReleaseFields, Checked, Put, textures
  <2> QED
    BY <1>1, <1>2, <2>1
<1> QED
  BY <1>3, <1>4

\* The room in the settled mode remains.
LEMMA SettledStays ==
    ASSUME Own, Own', RoomSettled, dropped' = dropped, MadeOf(made) \subseteq MadeOf(made'),
           settled' \subseteq settled
    PROVE  RoomSettled'
<1>1. \A m, s, k : Room(m, s, k) => Room(m, s, k)'
  BY RoomStays
<1>2. \A m \in settled' : \A s \in DOMAIN Rank : \A k \in Points(m, s) : Room(m, s, k)
  BY DEF RoomSettled, RoomForAll
<1>3. \A m \in settled' : \A s \in DOMAIN Rank : \A k \in Points(m, s) : Room(m, s, k)'
  BY <1>1, <1>2
<1> QED
  BY <1>3 DEF RoomSettled, RoomForAll, Room

\* At the end of a step there is room for what the frame has passed.
Passed(m, s, k) ==
    \A t \in DOMAIN Rank : \A l \in Points(m, t) :
        Rank[t] < Rank[s] \/ (t = s /\ l <= k) => Room(m, t, l)

\* The order of the parts.
LEMMA RanksAre ==
    /\ DOMAIN Rank = {"enter", "substep", "leave"}
    /\ Rank["enter"] = 1 /\ Rank["substep"] = 2 /\ Rank["leave"] = 3
  BY DEF Rank

\* The point reached adds to what the frame has passed.
LEMMA HasPassed ==
    ASSUME GrowthInv, Own', dropped' = dropped, MadeOf(made) \subseteq MadeOf(made'),
           NEW m, mode = m, NEW s \in DOMAIN Rank, seg = s, NEW k \in Nat, pc = k, Room(m, s, k)'
    PROVE  Passed(m, s, k)'
<1>1. \A t, l : Room(m, t, l) => Room(m, t, l)'
  BY RoomStays DEF GrowthInv, OwnInv
<1>2. ASSUME NEW t \in DOMAIN Rank, NEW l \in Points(m, t), Rank[t] < Rank[s] \/ (t = s /\ l <= k)
      PROVE  Room(m, t, l)'
  <2>1. CASE t = s /\ l = k
    BY <2>1
  <2>2. CASE Rank[t] < Rank[s] \/ (t = s /\ l < k)
    <3>1. Room(m, t, l)
      BY <2>2 DEF GrowthInv, RoomSoFar
    <3> QED
      BY <1>1, <3>1
  <2>3. l \in Int
    BY DEF Points
  <2> QED
    BY <1>2, <2>1, <2>2, <2>3
<1> QED
  BY <1>2 DEF Passed, Room

\* The next point is in the same part.
LEMMA RoomAhead ==
    ASSUME NEW m, NEW s \in DOMAIN Rank, NEW k \in Nat, Passed(m, s, k)', mode' = m, seg' = s,
           pc' = k + 1
    PROVE  RoomSoFar'
<1> SUFFICES ASSUME NEW t \in DOMAIN Rank, NEW l \in Points(m, t),
                    Rank[t] < Rank[s] \/ (t = s /\ l < k + 1)
             PROVE  Room(m, t, l)'
  BY DEF RoomSoFar, Room
<1>1. l \in Int
  BY DEF Points
<1>2. Rank[t] < Rank[s] \/ (t = s /\ l <= k)
  BY <1>1
<1> QED
  BY <1>2 DEF Passed, Room

\* The next point is where a part begins.
LEMMA RoomEntering ==
    ASSUME NEW m, NEW s \in DOMAIN Rank, mode' = m, seg' = s, pc' = 1, Room(m, s, 0)',
           \A t \in DOMAIN Rank : \A l \in Points(m, t) : Rank[t] < Rank[s] => Room(m, t, l)'
    PROVE  RoomSoFar'
<1> SUFFICES ASSUME NEW t \in DOMAIN Rank, NEW l \in Points(m, t),
                    Rank[t] < Rank[s] \/ (t = s /\ l < 1)
             PROVE  Room(m, t, l)'
  BY DEF RoomSoFar, Room
<1>1. l \in Int /\ 0 <= l
  BY DEF Points
<1>2. CASE Rank[t] < Rank[s]
  BY <1>2
<1>3. CASE t = s /\ l < 1
  <2>1. l = 0
    BY <1>1, <1>3
  <2> QED
    BY <1>3, <2>1 DEF Room
<1> QED
  BY <1>2, <1>3

\* A step of a part leads on in it, or to the next.
LEMMA GrowsInPart ==
    ASSUME GrowthInv, seg \in Parts, PartStep
    PROVE  Counted' /\ RoomSoFar' /\ RoomSettled' /\ SettledIs'
<1>1. PICK m, s, k : m = mode /\ s = seg /\ k = pc
  OBVIOUS
<1> DEFINE n == Len(Program[m][s])
           v == Course(m, s)[k]
<1>2. /\ m \in Modes /\ ~Incomplete(m) /\ s \in Parts /\ k \in 1..n /\ n \in Nat \ {0}
      /\ Knows(m, s, Course(m, s))
  BY <1>1, AtPlace DEF GrowthInv
<1>3. Stays(m, v)' /\ Tallied(m, s, k)'
  BY <1>1, <1>2, NextPoint DEF GrowthInv, PartStep
<1>4. OwnInv' /\ AreShaped' /\ Own' /\ Own
  <2>1. OwnInv'
    BY InPartStep DEF GrowthInv, PartStep
  <2>2. AreShaped'
    BY ShapedInPart DEF GrowthInv, PartStep
  <2> QED
    BY <2>1, <2>2 DEF GrowthInv, OwnInv
<1>5. /\ Continue /\ mode' = m /\ dropped' = dropped /\ MadeOf(made) \subseteq MadeOf(made')
      /\ settled' = settled \/ (s = "leave" /\ k = n /\ settled' = {m})
  BY <1>1, PartStepIs DEF GrowthInv
<1>6. Room(m, s, k)'
  BY <1>3, <1>4, FoundThen DEF RoomFound
<1>7. s \in DOMAIN Rank => Passed(m, s, k)'
  BY <1>1, <1>2, <1>4, <1>5, <1>6, HasPassed
<1>8. Holds(m, v)'
  BY <1>3 DEF Stays
<1>9. /\ k < n => pc' = k + 1 /\ seg' = s
      /\ k = n => pc' = 1 /\ \/ s = "zeroed" /\ seg' = "enter"
                             \/ s = "substep" /\ seg' \in {"substep", "leave"}
                             \/ s = "leave" /\ seg' = "idle"
  <2>1. Advance
    BY <1>5 DEF Continue
  <2>2. CASE k < n
    BY <1>1, <1>2, <2>1, <2>2 DEF Advance
  <2>3. CASE k = n
    <3>1. pc' = 1 /\ s \in DOMAIN After /\ (IF s = "substep" /\ left > 1 THEN seg' = s ELSE seg' = After[s])
      BY <1>1, <1>2, <2>1, <2>3 DEF Advance
    <3> QED
      BY <1>2, <2>3, <3>1 DEF After, Parts
  <2> QED
    BY <1>2, <2>2, <2>3
<1>10. k < n \/ k = n
  BY <1>2
<1>11. CASE k < n
  <2>1. pc' = k + 1 /\ seg' = s
    BY <1>9, <1>11
  <2>2. Counted'
    <3> DEFINE l == k + 1
    <3>1. l - 1 = k
      BY <1>2
    <3>2. Tallied(m, s, l - 1)'
      BY <1>3, <3>1, TalliedAgain
    <3>3. v = Course(m, s)[l - 1] /\ pc' = l
      BY <2>1, <3>1
    <3> HIDE DEF l, v
    <3> QED
      BY <1>5, <1>8, <2>1, <3>2, <3>3, CountedThen
  <2>3. RoomSoFar'
    <3>1. CASE s \in DOMAIN Rank
      BY <1>2, <1>5, <1>7, <2>1, <3>1, RoomAhead
    <3>2. CASE s \notin DOMAIN Rank
      BY <2>1, <3>2 DEF RoomSoFar
    <3> QED
      BY <3>1, <3>2
  <2>4. settled' = settled
    BY <1>2, <1>5, <1>11
  <2>5. RoomSettled'
    BY <1>4, <1>5, <2>4, SettledStays DEF GrowthInv
  <2>6. SettledIs'
    BY <1>1, <1>2, <2>1, <2>4 DEF GrowthInv, SettledIs, Parts
  <2> QED
    BY <2>2, <2>3, <2>5, <2>6
<1>12. CASE k = n
  <2>1. v = ExitOf(m, s) /\ pc' = 1
    BY <1>2, <1>9, <1>12 DEF Knows
  <2>2. CASE s = "zeroed"
    <3>1. seg' = "enter" /\ settled' = settled /\ settled = {}
      BY <1>1, <1>5, <1>9, <1>12, <2>2 DEF GrowthInv, SettledIs
    <3>2. Covers(v, EntryOf(m, "enter")) /\ "enter" \in Parts
      BY <2>1, <2>2, PartsFollow DEF Parts
    <3> HIDE DEF v
    <3>3. Counted' /\ Room(m, "enter", 0)'
      BY <1>2, <1>4, <1>5, <1>8, <2>1, <3>1, <3>2, Arrives
    <3>4. RoomSoFar'
      <4>1. \A t \in DOMAIN Rank : ~(Rank[t] < Rank["enter"])
        BY RanksAre
      <4> QED
        BY <1>5, <2>1, <3>1, <3>3, <4>1, RanksAre, RoomEntering
    <3>5. RoomSettled' /\ SettledIs'
      BY <3>1 DEF RoomSettled, SettledIs
    <3> QED
      BY <3>3, <3>4, <3>5
  <2>3. CASE s = "substep"
    <3>1. seg' \in {"substep", "leave"} /\ settled' = settled
      BY <1>5, <1>9, <1>12, <2>3
    <3>2. PICK t : t = seg'
      OBVIOUS
    <3>3. Covers(v, EntryOf(m, t)) /\ t \in Parts /\ t \in DOMAIN Rank
      BY <2>1, <2>3, <3>1, <3>2, PartsFollow, RanksAre DEF Parts
    <3> HIDE DEF v
    <3>4. Counted' /\ Room(m, t, 0)'
      BY <1>2, <1>4, <1>5, <1>8, <2>1, <3>2, <3>3, Arrives
    <3>5. ASSUME NEW r \in DOMAIN Rank, NEW l \in Points(m, r), Rank[r] < Rank[t]
          PROVE  Room(m, r, l)'
      <4>1. r = "enter" \/ r = "substep"
        BY <3>1, <3>2, <3>5, RanksAre
      <4>2. l \in 0..Len(Program[m][r])
        BY DEF Points
      <4>3. Rank[r] < Rank[s] \/ (r = s /\ l <= k)
        BY <1>12, <2>3, <4>1, <4>2, RanksAre
      <4> QED
        BY <1>7, <2>3, <4>3, RanksAre DEF Passed, Room
    <3>6. RoomSoFar'
      BY <1>5, <2>1, <3>2, <3>3, <3>4, <3>5, RoomEntering
    <3>7. RoomSettled'
      BY <1>4, <1>5, <3>1, SettledStays DEF GrowthInv
    <3>8. SettledIs'
      BY <3>1 DEF SettledIs
    <3> QED
      BY <3>4, <3>6, <3>7, <3>8
  <2>4. CASE s = "leave"
    <3>1. seg' = "idle" /\ settled' \subseteq settled \union {m}
      BY <1>5, <1>9, <1>12, <2>4
    <3>2. Counted' /\ RoomSoFar'
      BY <3>1, RanksAre DEF Counted, RoomSoFar, Parts
    <3>3. RoomForAll(m)'
      <4>1. ASSUME NEW r \in DOMAIN Rank, NEW l \in Points(m, r)
            PROVE  Room(m, r, l)'
        <5>1. l \in 0..Len(Program[m][r])
          BY DEF Points
        <5>2. Rank[r] < Rank[s] \/ (r = s /\ l <= k)
          BY <1>12, <2>4, <5>1, RanksAre
        <5> QED
          BY <1>7, <2>4, <5>2, RanksAre DEF Passed, Room
      <4> QED
        BY <4>1 DEF RoomForAll, Room
    <3>4. RoomSettled'
      <4>1. \A q, r, l : Room(q, r, l) => Room(q, r, l)'
        BY <1>4, <1>5, RoomStays
      <4>2. \A q \in settled : \A r \in DOMAIN Rank : \A l \in Points(q, r) : Room(q, r, l)'
        BY <4>1 DEF GrowthInv, RoomSettled, RoomForAll
      <4>3. \A q \in settled' : \A r \in DOMAIN Rank : \A l \in Points(q, r) : Room(q, r, l)'
        BY <3>1, <3>3, <4>2 DEF RoomForAll, Room
      <4> QED
        BY <4>3 DEF RoomSettled, RoomForAll, Room
    <3>5. SettledIs'
      <4>1. v.kept = TRUE
        BY <2>1, <2>4 DEF ExitOf, View
      <4> HIDE DEF v
      <4>2. DOMAIN store' = StateNames(m)
        BY <1>8, <4>1 DEF Holds, Keeps
      <4>3. store' # EmptyBinding
        BY <4>2, NoNames DEF StateNames
      <4> QED
        BY <3>1, <4>3 DEF SettledIs
    <3> QED
      BY <3>2, <3>4, <3>5
  <2> QED
    BY <1>2, <1>9, <1>12, <2>2, <2>3, <2>4
<1> QED
  BY <1>10, <1>11, <1>12

\* The measurement is the last instruction of its part and takes nothing.
LEMMA GrowsMeasuring ==
    ASSUME GrowthInv, seg \in Parts, MeasureSpeed
    PROVE  Counted' /\ RoomSoFar' /\ RoomSettled' /\ SettledIs'
<1>1. PICK m, k : m = mode /\ k = pc
  OBVIOUS
<1>2. Current.op = "measure"
  BY DEF MeasureSpeed, Doing
<1>3. /\ seg = "enter" /\ k = Len(Program[m]["enter"]) /\ k \in Nat \ {0} /\ m \in Modes
      /\ ~Incomplete(m) /\ Current = Program[m]["enter"][k]
  <2>1. \/ Shaped(Current)
        \/ Current.op = "submit"
        \/ seg = "enter" /\ pc = Len(Program[mode][seg])
    BY AtPlace, ProgramShaped DEF GrowthInv, Current
  <2>2. seg = "enter" /\ pc = Len(Program[mode][seg])
    BY <1>2, <2>1 DEF Shaped
  <2> QED
    BY <1>1, <2>2, AtPlace DEF GrowthInv, Current
<1>4. OwnInv' /\ AreShaped' /\ Own' /\ Own
  <2>1. OwnInv'
    BY MeasureInPart DEF GrowthInv
  <2>2. bound' = bound /\ store' = store
    BY DEF MeasureSpeed, textures
  <2>3. AreShaped'
    BY <2>2 DEF GrowthInv, AreShaped, OfTheirShape
  <2> QED
    BY <2>1, <2>3 DEF GrowthInv, OwnInv
<1>5. /\ mode' = m /\ seg' = "substep" /\ pc' = 1 /\ dropped' = dropped /\ made' = made
      /\ settled' = settled
  BY <1>1 DEF MeasureSpeed, textures
<1> DEFINE v == EntryOf(m, "substep")
<1>6. Holds(m, v)'
  <2>1. PICK u, w : u = Course(m, "enter")[k - 1] /\ w = Course(m, "enter")[k]
    OBVIOUS
  <2>2. Stays(m, u) /\ Goes(m, FALSE, Current, u, w)
    BY <1>1, <1>3, <2>1, AtPlace DEF GrowthInv
  <2>3. Stays(m, Stepping(m))'
    BY <2>2, MeasureStays
  <2>4. v = Stepping(m)
    BY DEF EntryOf
  <2> QED
    BY <2>3, <2>4 DEF Stays
<1>7. Covers(v, EntryOf(m, "substep"))
  BY CoversAll
<1> HIDE DEF v
<1>8. Counted' /\ Room(m, "substep", 0)'
  BY <1>3, <1>4, <1>5, <1>6, <1>7, Arrives DEF Parts
<1>9. \A t, l : Room(m, t, l) => Room(m, t, l)'
  BY <1>4, <1>5, RoomStays
<1>10. \A l \in Points(m, "enter") : l < k => Room(m, "enter", l)
  BY <1>1, <1>3, RanksAre DEF GrowthInv, RoomSoFar
<1>11. Room(m, "enter", k)
  <2>1. Room(m, "enter", k - 1)
    BY <1>3, <1>10 DEF Points
  <2>2. Need(m, "enter")[k] = Drawn(Current, Course(m, "enter")[k - 1], Need(m, "enter")[k - 1])
    BY <1>3, NeedIs DEF Parts
  <2>3. \A x \in PoolShapes : Need(m, "enter")[k][x] = Need(m, "enter")[k - 1][x]
    BY <1>2, <2>2 DEF Drawn
  <2> QED
    BY <2>1, <2>3 DEF Room
<1>12. RoomSoFar'
  <2>1. ASSUME NEW t \in DOMAIN Rank, NEW l \in Points(m, t), Rank[t] < Rank["substep"]
        PROVE  Room(m, t, l)'
    <3>1. t = "enter" /\ l \in 0..k
      BY <1>3, <2>1, RanksAre DEF Points
    <3>2. l < k \/ l = k
      BY <1>3, <3>1
    <3> QED
      BY <1>9, <1>10, <1>11, <3>1, <3>2
  <2> QED
    BY <1>5, <1>8, <2>1, RanksAre, RoomEntering
<1>13. RoomSettled'
  BY <1>4, <1>5, SettledStays DEF GrowthInv
<1>14. SettledIs'
  BY <1>5 DEF SettledIs
<1> QED
  BY <1>8, <1>12, <1>13, <1>14

\* A frame begins.
LEMMA GrowsBeginning ==
    ASSUME GrowthInv, OwnInv', AreShaped', NEW m \in Modes,
           Refuse(m) \/ StartZeroed(m) \/ TakeState(m) \/ StateShape(m)
    PROVE  Counted' /\ RoomSoFar' /\ RoomSettled' /\ SettledIs'
<1>1. seg = "idle" /\ dropped' = dropped /\ made' = made
  BY DEF Refuse, StartZeroed, TakeState, StateShape, Begin, Running, textures
<1>2. bound = EmptyBinding /\ retired = <<>> /\ recorded = {} /\ flushed = {}
  BY <1>1 DEF GrowthInv, OwnInv, Resting
<1>3. settled' \subseteq settled => RoomSettled'
  BY <1>1, SettledStays DEF GrowthInv, OwnInv
<1>4. CASE Refuse(m) \/ StateShape(m)
  <2>1. seg' = "idle" /\ (settled' = {} \/ (settled' = settled /\ store' = store))
    BY <1>1, <1>4 DEF Refuse, StateShape, textures
  <2>2. Counted' /\ RoomSoFar'
    BY <2>1, RanksAre DEF Counted, RoomSoFar, Parts
  <2>3. SettledIs'
    BY <1>1, <2>1 DEF GrowthInv, SettledIs
  <2> QED
    BY <1>3, <2>1, <2>2, <2>3
<1>5. CASE StartZeroed(m)
  <2>1. /\ ~Incomplete(m) /\ mode' = m /\ pc' = 1 /\ seg' = "zeroed" /\ store = EmptyBinding
        /\ bound' = bound /\ retired' = retired /\ store' = store
        /\ recorded' = recorded /\ flushed' = flushed /\ settled' = settled
    BY <1>5 DEF StartZeroed, Begin, textures, batch
  <2>2. settled = {}
    BY <1>1, <2>1 DEF GrowthInv, SettledIs
  <2>3. PICK v : v = EntryOf(m, "zeroed")
    OBVIOUS
  <2>4. v = View({}, {}, {}, FALSE, FALSE, FALSE) /\ Covers(v, EntryOf(m, "zeroed"))
    BY <2>3, CoversAll DEF EntryOf
  <2>5. Holds(m, v)'
    BY <1>2, <2>1, <2>4, NoNames DEF Holds, View, Forgets
  <2>6. Counted'
    BY <2>1, <2>4, <2>5, Arrives DEF OwnInv, Parts
  <2>7. RoomSoFar' /\ RoomSettled' /\ SettledIs'
    BY <2>1, <2>2, RanksAre DEF RoomSoFar, RoomSettled, SettledIs
  <2> QED
    BY <2>6, <2>7
<1>6. CASE TakeState(m)
  <2>1. /\ ~Incomplete(m) /\ mode' = m /\ pc' = 1 /\ seg' = "enter"
        /\ DOMAIN store = StateNames(m) /\ bound' = store /\ store' = EmptyBinding
        /\ retired' = retired /\ content' = content
        /\ recorded' = recorded /\ flushed' = flushed /\ settled' = settled
    BY <1>6 DEF TakeState, Begin, batch
  <2>2. PICK v : v = EntryOf(m, "enter")
    OBVIOUS
  <2>3. /\ v = View(StateNames(m), StateNames(m), {}, FALSE, FALSE, FALSE)
        /\ Covers(v, EntryOf(m, "enter"))
    BY <2>2, CoversAll DEF EntryOf
  <2>4. store # EmptyBinding
    BY <2>1, NoNames DEF StateNames
  <2>5. \A n \in DOMAIN store : content[store[n]] # "none"
    BY <1>1, <2>4 DEF GrowthInv, OwnInv, Resting, Keeps
  <2>6. DOMAIN bound' \intersect Slots = {}
    BY <2>1 DEF GrowthInv, OwnInv, Own
  <2>7. Holds(m, v)'
    <3>1. /\ v.scope = StateNames(m) /\ v.written = StateNames(m) /\ v.done = {}
          /\ v.kept = FALSE
      BY <2>3 DEF View
    <3>2. Forgets(DOMAIN bound', v.scope)
      BY <2>1, <3>1 DEF Forgets
    <3>3. \A n \in v.written : n \in DOMAIN bound' /\ content'[bound'[n]] # "none"
      BY <2>1, <2>5, <3>1
    <3> QED
      BY <1>2, <2>1, <2>6, <3>1, <3>2, <3>3 DEF Holds
  <2>8. Counted' /\ Room(m, "enter", 0)'
    BY <2>1, <2>3, <2>7, Arrives DEF OwnInv, Parts
  <2>9. RoomSoFar'
    <3>1. \A t \in DOMAIN Rank : ~(Rank[t] < Rank["enter"])
      BY RanksAre
    <3> QED
      BY <2>1, <2>8, <3>1, RanksAre, RoomEntering
  <2>10. SettledIs'
    BY <2>1 DEF SettledIs
  <2> QED
    BY <1>3, <2>1, <2>8, <2>9, <2>10
<1> QED
  BY <1>4, <1>5, <1>6

\* Nothing is settled from a failure on, until a frame completes.
LEMMA GrowsUnsettled ==
    ASSUME GrowthInv, Fail \/ (seg = "cleanup" /\ (RetireLocals \/ Wait \/ Discard \/ ReleaseFields))
    PROVE  Counted' /\ RoomSoFar' /\ RoomSettled' /\ SettledIs'
<1>1. seg' \in {"cleanup", "idle"} /\ settled' = {}
  <2>1. CASE Fail
    BY <2>1 DEF Fail
  <2>2. CASE seg = "cleanup" /\ (RetireLocals \/ Wait \/ Discard \/ ReleaseFields)
    <3>1. settled = {}
      BY <2>2 DEF GrowthInv, SettledIs
    <3>2. settled' = settled
      BY <2>2 DEF RetireLocals, Wait, Discard, ReleaseFields
    <3>3. Continue
      BY <2>2 DEF RetireLocals, Wait, Discard, ReleaseFields
    <3>4. seg' \in {"cleanup", "idle"}
      BY <2>2, <3>3, InCleanup DEF GrowthInv
    <3> QED
      BY <3>1, <3>2, <3>4
  <2> QED
    BY <2>1, <2>2
<1>2. Counted' /\ RoomSoFar'
  BY <1>1, RanksAre DEF Counted, RoomSoFar, Parts
<1>3. RoomSettled' /\ SettledIs'
  BY <1>1 DEF RoomSettled, SettledIs
<1> QED
  BY <1>2, <1>3

\* A step that changes nothing.
LEMMA GrowsStuttering ==
    ASSUME GrowthInv, OwnInv', AreShaped', UNCHANGED vars
    PROVE  Counted' /\ RoomSoFar' /\ RoomSettled' /\ SettledIs'
<1>1. /\ mode' = mode /\ seg' = seg /\ pc' = pc
      /\ bound' = bound /\ free' = free /\ retired' = retired /\ content' = content
      /\ store' = store /\ made' = made /\ dropped' = dropped
      /\ recorded' = recorded /\ flushed' = flushed /\ settled' = settled
  BY DEF vars
<1>2. Counted'
  <2>1. CASE seg \in Parts
    <3>1. PICK v : v = Course(mode, seg)[pc - 1]
      OBVIOUS
    <3>2. Holds(mode, v) /\ Tallied(mode, seg, pc - 1)
      BY <2>1, <3>1 DEF GrowthInv, Counted
    <3>3. Holds(mode, v)'
      BY <1>1, <3>2 DEF Holds, Keeps
    <3>4. \A x \in PoolShapes : Outstanding(x)' = Outstanding(x)
      BY <1>1, QuietDraws
    <3>5. Tallied(mode, seg, pc - 1)'
      BY <1>1, <3>2, <3>4 DEF Tallied
    <3> QED
      BY <1>1, <3>1, <3>3, <3>5 DEF Counted
  <2>2. CASE seg \notin Parts
    BY <1>1, <2>2 DEF Counted
  <2> QED
    BY <2>1, <2>2
<1>3. \A m, s, k : Room(m, s, k) => Room(m, s, k)'
  BY <1>1, RoomStays DEF GrowthInv, OwnInv
<1>4. RoomSoFar'
  <2>1. seg \in DOMAIN Rank =>
          \A s \in DOMAIN Rank : \A k \in Points(mode, s) :
              Rank[s] < Rank[seg] \/ (s = seg /\ k < pc) => Room(mode, s, k)'
    <3> SUFFICES ASSUME seg \in DOMAIN Rank, NEW s \in DOMAIN Rank, NEW k \in Points(mode, s),
                        Rank[s] < Rank[seg] \/ (s = seg /\ k < pc)
                 PROVE  Room(mode, s, k)'
      OBVIOUS
    <3>1. PICK m : m = mode
      OBVIOUS
    <3>2. Room(m, s, k)
      BY <3>1 DEF GrowthInv, RoomSoFar
    <3>3. Room(m, s, k)'
      BY <1>3, <3>2
    <3>4. m = mode'
      BY <1>1, <3>1
    <3> QED
      BY <3>3, <3>4 DEF Room
  <2> QED
    BY <1>1, <2>1 DEF RoomSoFar, Room
<1>5. RoomSettled'
  BY <1>1, SettledStays DEF GrowthInv, OwnInv
<1>6. SettledIs'
  BY <1>1 DEF GrowthInv, SettledIs
<1> QED
  BY <1>2, <1>4, <1>5, <1>6

\* Every step preserves the invariant, and it holds at first.
LEMMA GrowthNext ==
    ASSUME GrowthInv, [Next]_vars
    PROVE  GrowthInv'
<1>1. OwnInv' /\ AreShaped'
  BY OwnNext, ShapedNext DEF GrowthInv
<1>2. CASE \E m \in Modes : Refuse(m) \/ StartZeroed(m) \/ TakeState(m) \/ StateShape(m)
  BY <1>1, <1>2, GrowsBeginning DEF GrowthInv
<1>3. CASE UNCHANGED vars
  BY <1>1, <1>3, GrowsStuttering DEF GrowthInv
<1>4. CASE PartStep \/ MeasureSpeed \/ RetireLocals \/ Wait \/ Discard \/ Fail
  <2>1. Running
    BY <1>4 DEF PartStep, AcquireField, TakeInput, NewSlots, Record, RunOne, FlushBatch, SubmitBatch,
                RetireFields, ReplaceField, ReleaseFields, Checked, Put, MeasureSpeed, RetireLocals,
                Wait, Discard, Fail, Doing
  <2>2. seg \in Parts \/ seg = "cleanup"
    BY <2>1 DEF GrowthInv, OwnInv, Where, Running
  <2>3. CASE seg \in Parts
    BY <1>1, <1>4, <2>3, GrowsInPart, GrowsMeasuring, GrowsUnsettled, NoCleanup DEF GrowthInv
  <2>4. CASE seg = "cleanup"
    <3>1. RetireLocals \/ Wait \/ Discard \/ ReleaseFields
      BY <1>4, <2>4, OnlyCleanup DEF GrowthInv, PartStep
    <3> QED
      BY <1>1, <2>4, <3>1, GrowsUnsettled DEF GrowthInv
  <2> QED
    BY <2>2, <2>3, <2>4
<1> QED
  BY <1>2, <1>3, <1>4 DEF Next, PartStep

LEMMA GrowthFromStart ==
    ASSUME Init
    PROVE  GrowthInv
<1>1. seg = "idle" /\ bound = EmptyBinding /\ store = EmptyBinding /\ settled = {}
  BY DEF Init
<1>2. AreShaped
  BY <1>1, NoneShaped DEF AreShaped
<1>3. Counted /\ RoomSoFar /\ RoomSettled /\ SettledIs
  BY <1>1, RanksAre DEF Counted, RoomSoFar, RoomSettled, SettledIs, Parts
<1> QED
  BY <1>2, <1>3, OwnFromStart DEF GrowthInv

-----------------------------------------------------------------------------
\* Where there is room, the pool has what an instruction takes.
LEMMA PoolServes ==
    ASSUME GrowthInv, [Next]_vars, settled = {mode'}
    PROVE  made' = made
<1>1. CASE AcquireField \/ TakeInput
  <2>1. Running /\ mode' = mode /\ Current.op \in {"acquire", "input"}
    BY <1>1 DEF AcquireField, TakeInput, Doing, Continue
  <2>2. seg \in Parts /\ seg # "zeroed"
    BY <2>1 DEF GrowthInv, OwnInv, Where, Running, SettledIs
  <2>3. PICK m, s, k : m = mode /\ s = seg /\ k = pc
    OBVIOUS
  <2>4. /\ m \in Modes /\ ~Incomplete(m) /\ s \in Parts /\ k \in 1..Len(Program[m][s])
        /\ Current = Program[m][s][k]
        /\ Goes(m, FALSE, Current, Course(m, s)[k - 1], Course(m, s)[k])
    BY <2>2, <2>3, AtPlace DEF GrowthInv, Current
  <2>5. PICK x : x = Current.kernel /\ x \in PoolShapes
    <3>1. Gains(Current, Course(m, s)[k - 1], Course(m, s)[k])
      BY <2>1, <2>4, GoesBy
    <3> QED
      BY <3>1 DEF Gains
  <2>6. Room(m, s, k)
    <3>1. s \in DOMAIN Rank
      BY <2>2, <2>3, RanksAre DEF Parts
    <3>2. k \in Points(m, s)
      BY <2>4 DEF Points
    <3> QED
      BY <2>1, <2>3, <3>1, <3>2 DEF GrowthInv, RoomSettled, RoomForAll
  <2>7. free[x] # <<>>
    <3> SUFFICES ASSUME free[x] = <<>>
                 PROVE  FALSE
      OBVIOUS
    <3>1. AwayOf(x) = Alive(x)
      BY <2>5, AwayIs DEF GrowthInv, OwnInv
    <3>2. Outstanding(x) = Cardinality(Alive(x)) /\ Outstanding(x) \in Nat
      BY <3>1, AwayIs DEF GrowthInv, OwnInv, Outstanding
    <3>3. Outstanding(x) = Need(m, s)[k - 1][x]
      BY <2>2, <2>3, <2>5 DEF GrowthInv, Counted, Tallied
    <3>4. Need(m, s)[k] = Drawn(Current, Course(m, s)[k - 1], Need(m, s)[k - 1])
      BY <2>4, NeedIs
    <3>5. Need(m, s)[k][x] = Need(m, s)[k - 1][x] + 1
      BY <2>1, <2>5, <3>4 DEF Drawn
    <3>6. Need(m, s)[k][x] \in 0..Cardinality(Alive(x))
      BY <2>5, <2>6 DEF Room
    <3> QED
      BY <3>2, <3>3, <3>5, <3>6
  <2> QED
    BY <1>1, <2>5, <2>7 DEF AcquireField, TakeInput, Take
<1>2. CASE ~(AcquireField \/ TakeInput)
  BY <1>2 DEF Next, Refuse, StartZeroed, TakeState, StateShape, NewSlots, Record, RunOne,
              FlushBatch, SubmitBatch, RetireFields, ReplaceField, ReleaseFields, Checked,
              MeasureSpeed, Put, RetireLocals, Wait, Discard, Fail, textures, vars
<1> QED
  BY <1>1, <1>2

\* Once a frame has completed, the next one in the same mode makes no texture,
\* whatever the modes, the speeds, the frames and the failures before it: what
\* a frame has in use at each point is a matter of its mode alone, and the
\* frame before had as much.
THEOREM NothingGrows == Spec => NoGrowth
<1>1. Init => GrowthInv
  BY GrowthFromStart
<1>2. GrowthInv /\ [Next]_vars => GrowthInv'
  BY GrowthNext
<1>3. GrowthInv /\ [Next]_vars => [settled = {mode'} => made' = made]_vars
  BY PoolServes
<1> QED
  BY <1>1, <1>2, <1>3, PTL DEF Spec, NoGrowth
=============================================================================
