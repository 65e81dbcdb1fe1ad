---------------------------- MODULE SolverProofs ----------------------------
(***************************************************************************)
(* Proofs about the solver, in any set of modes and with any failures.     *)
(*                                                                         *)
(* First, that the substeps keep the CFL number.  The ceiling of a         *)
(* quotient is the least count that is enough (CeilingIsLeast), and        *)
(* saturating or capping a count only matters where the cap is binding     *)
(* (PlanIsLeast).  The plan stands for as long as the substeps run,        *)
(* whichever operation they are at, and none outlives them (Planned).      *)
(*                                                                         *)
(* Second, who owns each texture, and what it holds.  The program of a     *)
(* frame depends on the mode, and has as many instructions as the          *)
(* parameters ask for, so that what a state of the machine has to satisfy  *)
(* is read off the program: a view says which names are in scope, which of *)
(* them are written, which are finished, and whether there may be work     *)
(* recorded or in flight; Goes says what an instruction needs of the view  *)
(* before it and allows in the view after it; and Runs, that a stage goes  *)
(* from one view to another.  Stages that follow one another, that are     *)
(* taken when a flag is set, or that are repeated run if each of them      *)
(* does (RunsThen, RunsWhen, RunsFlatten), and so every part of the        *)
(* program of every mode runs (FirstStateRuns, EnterRuns, SubstepRuns,     *)
(* LeaveRuns).  The machine, while it is in a part, holds what is known    *)
(* there (OnTrack), and each operation takes it on to what is known next.  *)
(***************************************************************************)
EXTENDS Solver, TLAPS, WellFoundedInduction, FiniteSetTheorems

-----------------------------------------------------------------------------
(***************************************************************************)
(* The substeps of a frame.                                                *)
(***************************************************************************)
\* What the plan of a frame is, and until when it stands.
Planned ==
    IF seg = "substep"
    THEN /\ speed \in Speeds /\ mode \in Modes
         /\ plan = PlanSubsteps(speed, mode.cfl) /\ left \in 1..plan.count
    ELSE speed = 0 /\ plan = NoPlan /\ left = 0

Inductive == mode \in Modes /\ Planned

-----------------------------------------------------------------------------
LEMMA Times ==
    ASSUME NEW a \in Nat, NEW b \in Nat, NEW d \in Nat, a <= b
    PROVE  a * d <= b * d
  OBVIOUS

\* The ceiling of n / d is enough, and one less is not.
LEMMA CeilingIsLeast ==
    ASSUME NEW n \in Nat, NEW d \in Nat \ {0}
    PROVE  /\ Ceiling(n, d) \in Nat
           /\ n <= Ceiling(n, d) * d
           /\ Ceiling(n, d) > 0 => (Ceiling(n, d) - 1) * d < n
<1> DEFINE m == n + d - 1
           q == m \div d
<1>1. m \in Nat /\ q \in Nat
  OBVIOUS
<1>2. m = d * q + (m % d) /\ m % d \in 0..(d - 1)
  BY <1>1
<1>3. d * q = q * d /\ (q - 1) * d = q * d - d
  BY <1>1
<1>4. q * d \in Nat
  BY <1>1
<1> HIDE DEF q
<1>5. n <= q * d /\ (q - 1) * d < n
  BY <1>2, <1>3, <1>4
<1> QED
  BY <1>1, <1>5 DEF Ceiling, q

\* A count is enough for n exactly when it is no less than the ceiling.
LEMMA EnoughMeans ==
    ASSUME NEW n \in Nat, NEW d \in Nat \ {0}, NEW count \in Nat
    PROVE  n <= count * d <=> Ceiling(n, d) <= count
<1> DEFINE q == Ceiling(n, d)
<1>1. q \in Nat /\ n <= q * d /\ (q > 0 => (q - 1) * d < n)
  BY CeilingIsLeast
<1> HIDE DEF q
<1>2. ASSUME q <= count
      PROVE  n <= count * d
  <2> DEFINE x == q * d
             y == count * d
  <2>1. x <= y
    BY <1>1, <1>2, Times
  <2>2. x \in Nat /\ y \in Nat /\ n <= x
    BY <1>1
  <2> HIDE DEF x, y
  <2>3. n <= y
    BY <2>1, <2>2
  <2> QED
    BY <2>3 DEF y
<1>3. ASSUME q > count
      PROVE  ~(n <= count * d)
  <2> DEFINE x == (q - 1) * d
             y == count * d
  <2>1. q - 1 \in Nat /\ count <= q - 1
    BY <1>1, <1>3
  <2>2. y <= x
    BY <2>1, Times
  <2>3. x \in Nat /\ y \in Nat
    BY <2>1
  <2>4. x < n
    BY <1>1, <1>3
  <2> HIDE DEF x, y
  <2>5. ~(n <= y)
    BY <2>2, <2>3, <2>4
  <2> QED
    BY <2>5 DEF y
<1>4. q <= count \/ q > count
  BY <1>1
<1>5. n <= count * d <=> q <= count
  BY <1>1, <1>2, <1>3, <1>4
<1> QED
  BY <1>5 DEF q

\* A plan is its count and its flag.
LEMMA PlanFields ==
    ASSUME NEW c, NEW o
    PROVE  [count |-> c, clamped |-> o].count = c /\ [count |-> c, clamped |-> o].clamped = o
  OBVIOUS

\* plan_substeps: the least count that is enough, unless that is over the cap.
LEMMA PlanIsLeast ==
    ASSUME NEW n \in Nat, NEW d \in Nat \ {0}
    PROVE  LET p == PlanSubsteps(n, d)
           IN  /\ p.count \in 1..MaxSubsteps /\ p.clamped \in BOOLEAN
               /\ p.clamped <=> Ceiling(n, d) > MaxSubsteps
               /\ ~p.clamped => p.count = Larger(Ceiling(n, d), 1)
<1> DEFINE q == Ceiling(n, d)
<1>1. q \in Nat
  BY CeilingIsLeast
<1>2. MaxCount \in Nat /\ MaxSubsteps \in 1..(MaxCount - 1)
  BY SubstepsAssumption
<1> HIDE DEF q
<1> DEFINE wanted == Larger(AsCount(q), 1)
<1>3. /\ wanted \in Nat \ {0}
      /\ wanted > MaxSubsteps <=> q > MaxSubsteps
      /\ q <= MaxSubsteps => wanted = Larger(q, 1)
  BY <1>1, <1>2 DEF Larger, AsCount, Smaller
<1> DEFINE enough == Smaller(wanted, MaxSubsteps)
           over == wanted > MaxSubsteps
<1>4. PlanSubsteps(n, d) = [count |-> enough, clamped |-> over] /\ over \in BOOLEAN
  BY DEF PlanSubsteps, q
<1>5. /\ PlanSubsteps(n, d).count = Smaller(wanted, MaxSubsteps)
      /\ PlanSubsteps(n, d).clamped = over
  <2> HIDE DEF enough, over
  <2>1. PlanSubsteps(n, d).count = enough /\ PlanSubsteps(n, d).clamped = over
    BY <1>4, PlanFields
  <2> QED
    BY <2>1 DEF enough
<1>6. PlanSubsteps(n, d).clamped \in BOOLEAN /\ (PlanSubsteps(n, d).clamped <=> wanted > MaxSubsteps)
  BY <1>4, <1>5, Zenon
<1> HIDE DEF wanted, enough, over
<1>7. /\ Smaller(wanted, MaxSubsteps) \in 1..MaxSubsteps
      /\ ~(wanted > MaxSubsteps) => Smaller(wanted, MaxSubsteps) = wanted
  BY <1>2, <1>3 DEF Smaller
<1>8. LET p == PlanSubsteps(n, d)
      IN  /\ p.count \in 1..MaxSubsteps /\ p.clamped \in BOOLEAN
          /\ p.clamped <=> q > MaxSubsteps
          /\ ~p.clamped => p.count = Larger(q, 1)
  <2>1. q > MaxSubsteps \/ q <= MaxSubsteps
    BY <1>1, <1>2
  <2> QED
    BY <1>3, <1>5, <1>6, <1>7, <2>1
<1> QED
  BY <1>8 DEF q

-----------------------------------------------------------------------------
\* Going on to the next instruction, or to the next substep.
LEMMA ContinueStep ==
    ASSUME Inductive, Continue
    PROVE  Inductive'
<1>1. UNCHANGED mode
  BY DEF Continue
<1>2. CASE UNCHANGED <<seg, steps>>
  BY <1>1, <1>2 DEF Inductive, Planned, steps
<1>3. CASE seg = "substep" /\ left > 1 /\ left' = left - 1 /\ UNCHANGED <<seg, speed, plan>>
  <2>1. left \in 1..plan.count /\ plan.count \in Nat
    <3>1. speed \in Nat /\ mode.cfl \in Nat \ {0} /\ plan = PlanSubsteps(speed, mode.cfl)
      BY <1>3, SolverAssumption DEF Inductive, Planned
    <3>2. plan.count \in 1..MaxSubsteps
      BY <3>1, PlanIsLeast
    <3> QED
      BY <1>3, <3>2, SubstepsAssumption DEF Inductive, Planned
  <2>2. left' \in 1..plan'.count
    BY <1>3, <2>1
  <2> QED
    BY <1>1, <1>3, <2>2 DEF Inductive, Planned
<1>4. CASE seg \in DOMAIN After /\ seg' = After[seg] /\ NoSteps
  <2>1. seg' # "substep"
    BY <1>4 DEF After
  <2> QED
    BY <1>1, <1>4, <2>1 DEF Inductive, Planned, NoSteps
<1> QED
  BY <1>2, <1>3, <1>4 DEF Continue, Advance

\* The measurement makes the plan.
LEMMA MeasureStep ==
    ASSUME Inductive, MeasureSpeed
    PROVE  Inductive'
<1>1. /\ seg' = "substep" /\ speed' \in Speeds /\ UNCHANGED mode
      /\ plan' = PlanSubsteps(speed', mode.cfl) /\ left' = plan'.count
  BY DEF MeasureSpeed
<1>2. speed' \in Nat /\ mode \in Modes /\ mode.cfl \in Nat \ {0}
  BY <1>1, SolverAssumption DEF Inductive
<1>3. plan'.count \in 1..MaxSubsteps
  BY <1>1, <1>2, PlanIsLeast
<1>4. left' \in 1..plan'.count
  BY <1>1, <1>3, SubstepsAssumption
<1> QED
  BY <1>1, <1>2, <1>4 DEF Inductive, Planned

\* A frame begins between frames, and the substeps are not where it begins.
LEMMA BeginStep ==
    ASSUME Inductive, NEW m \in Modes,
           Refuse(m) \/ StartZeroed(m) \/ TakeState(m) \/ StateShape(m)
    PROVE  Inductive'
<1>1. seg = "idle" /\ UNCHANGED steps
  BY DEF Refuse, StartZeroed, TakeState, StateShape, Begin, Running
<1>2. mode' \in Modes /\ seg' \in {"idle", "zeroed", "enter"}
  BY <1>1 DEF Refuse, StartZeroed, TakeState, StateShape, Begin, Inductive
<1> QED
  BY <1>1, <1>2 DEF Inductive, Planned, steps

LEMMA FailStep ==
    ASSUME Inductive, Fail
    PROVE  Inductive'
<1>1. seg' = "cleanup" /\ NoSteps /\ UNCHANGED mode
  BY DEF Fail
<1> QED
  BY <1>1 DEF Inductive, Planned, NoSteps

\* All the other operations only go on.
LEMMA OperationContinues ==
    ASSUME \/ AcquireField \/ TakeInput \/ NewSlots \/ Record \/ RunOne
           \/ FlushBatch \/ SubmitBatch \/ RetireFields \/ ReplaceField
           \/ ReleaseFields \/ Checked \/ Put \/ RetireLocals \/ Wait \/ Discard
    PROVE  Continue
<1>1. CASE AcquireField \/ TakeInput \/ NewSlots \/ Record \/ RunOne
  BY <1>1 DEF AcquireField, TakeInput, NewSlots, Record, RunOne
<1>2. CASE FlushBatch \/ SubmitBatch \/ RetireFields \/ ReplaceField \/ ReleaseFields
  BY <1>2 DEF FlushBatch, SubmitBatch, RetireFields, ReplaceField, ReleaseFields
<1>3. CASE Checked \/ Put \/ RetireLocals \/ Wait \/ Discard
  BY <1>3 DEF Checked, Put, RetireLocals, Wait, Discard
<1> QED
  BY <1>1, <1>2, <1>3

LEMMA StepInductive == Inductive /\ [Next]_vars => Inductive'
<1> SUFFICES ASSUME Inductive, [Next]_vars
             PROVE  Inductive'
  OBVIOUS
<1>1. CASE UNCHANGED vars
  BY <1>1 DEF vars, Inductive, Planned
<1>2. CASE Next
  BY <1>2, BeginStep, OperationContinues, ContinueStep, MeasureStep, FailStep DEF Next
<1> QED
  BY <1>1, <1>2

\* A plan that stands keeps the CFL number, or says that it does not.
LEMMA PlanKeepsCfl ==
    ASSUME Inductive
    PROVE  SubstepsKeepCfl
<1> SUFFICES ASSUME seg = "substep"
             PROVE  /\ left \in 1..plan.count
                    /\ plan.clamped <=> speed > MaxSubsteps * mode.cfl
                    /\ ~plan.clamped =>
                           /\ speed <= plan.count * mode.cfl
                           /\ plan.count > 1 => speed > (plan.count - 1) * mode.cfl
  BY DEF SubstepsKeepCfl
<1> DEFINE c == mode.cfl
           q == Ceiling(speed, c)
<1>1. speed \in Nat /\ c \in Nat \ {0} /\ plan = PlanSubsteps(speed, c)
      /\ left \in 1..plan.count
  BY SolverAssumption DEF Inductive, Planned
<1>2. MaxSubsteps \in Nat
  BY SubstepsAssumption
<1> HIDE DEF c
<1>3. q \in Nat /\ (plan.clamped <=> q > MaxSubsteps)
      /\ (~plan.clamped => plan.count = Larger(q, 1))
  BY <1>1, PlanIsLeast, CeilingIsLeast
<1> HIDE DEF q
<1>4. plan.clamped <=> speed > MaxSubsteps * c
  <2>1. speed <= MaxSubsteps * c <=> q <= MaxSubsteps
    BY <1>1, <1>2, EnoughMeans DEF q
  <2>2. MaxSubsteps * c \in Nat
    BY <1>1, <1>2
  <2> QED
    BY <1>1, <1>2, <1>3, <2>1, <2>2
<1>5. ASSUME ~plan.clamped
      PROVE  /\ speed <= plan.count * c
             /\ plan.count > 1 => speed > (plan.count - 1) * c
  <2>1. plan.count \in Nat /\ q <= plan.count
        /\ (plan.count > 1 => q > plan.count - 1 /\ plan.count - 1 \in Nat)
    BY <1>3, <1>5 DEF Larger
  <2>2. speed <= plan.count * c
    BY <1>1, <2>1, EnoughMeans DEF q
  <2>3. ASSUME plan.count > 1
        PROVE  speed > (plan.count - 1) * c
    <3>1. plan.count - 1 \in Nat /\ ~(q <= plan.count - 1)
      BY <1>3, <2>1, <2>3
    <3>2. ~(speed <= (plan.count - 1) * c)
      BY <1>1, <3>1, EnoughMeans DEF q
    <3>3. (plan.count - 1) * c \in Nat
      BY <1>1, <3>1
    <3> QED
      BY <1>1, <3>2, <3>3
  <2> QED
    BY <2>2, <2>3
<1> QED
  BY <1>1, <1>4, <1>5 DEF c

\* The substeps of every frame keep the CFL number or the frame is counted as
\* clamped, in any mode, for any speed and whatever fails.
THEOREM CflAlwaysKept == Spec => []SubstepsKeepCfl
<1>1. Init => Inductive
  <2>1. (CHOOSE m \in Modes : TRUE) \in Modes
    BY SolverAssumption
  <2> QED
    BY <2>1 DEF Init, Inductive, Planned
<1>2. Inductive => SubstepsKeepCfl
  BY PlanKeepsCfl
<1> QED
  BY <1>1, <1>2, StepInductive, PTL DEF Spec

-----------------------------------------------------------------------------
(***************************************************************************)
(* Views.                                                                  *)
(***************************************************************************)
IsInstruction(i) ==
    i = [op |-> i.op, names |-> i.names, kernel |-> i.kernel, reads |-> i.reads,
         writes |-> i.writes, drop |-> i.drop, free |-> i.free]

\* The kernel that is the last to write a field in a step that is finished.
ScalarKernel(m) ==
    IF m.conserve THEN "mass_scale" ELSE IF m.maccormack THEN "maccormack" ELSE "semi_lagrangian"

Scalars == {"density", "temperature", "fuel", "react"}

LastKernel(m, n) ==
    IF n \in Velocity THEN "subtract_gradient"
    ELSE IF n \in Scalars \union {"dst"} THEN ScalarKernel(m) ELSE "none"

\* What a point of the program knows: the names in scope, those among them
\* that are written and that are finished, and whether there may be work
\* recorded or in flight, and slots put.
View(S, W, D, o, f, k) ==
    [scope |-> S, written |-> W, done |-> D, open |-> o, flown |-> f, kept |-> k]

\* The batch is under way: there may be fields retired and slots in scope.
Busy(v) == v.open \/ v.flown

SameFlags(v, w) == (v.open => w.open) /\ (v.flown => w.flown) /\ (w.kept <=> v.kept)

\* The names a mode gives to the inputs, with the mask made from them.
Given(m) ==
    {"src_density", "src_temperature"}
      \union (IF m.emission THEN {"weight"} \union Range(Target) ELSE {})
      \union (IF m.collider THEN {"sdf", "mask"} \union Range(Moving) ELSE {})
      \union (IF m.fire THEN {"src_fuel"} ELSE {})
      \union (IF m.surface THEN {"load"} ELSE {})

\* What a step knows between two substeps.
Stepping(m) ==
    LET fields == StateNames(m) \union Given(m)
    IN  View(fields, fields, {}, FALSE, FALSE, FALSE)

\* T is the scope S but for some slots.
Forgets(S, T) == T \subseteq S /\ S \ Slots \subseteq T

\* What v knows is all that w says.
Covers(v, w) ==
    /\ Forgets(v.scope, w.scope) /\ w.written \subseteq v.written /\ w.done \subseteq v.done
    /\ SameFlags(v, w)

\* What the failure of an instruction drops and frees are fields, not both, and
\* no submission may be using them.
Tidy(m, i, v) ==
    /\ i.drop \intersect i.free = {} /\ (i.drop \union i.free) \intersect Slots = {}
    /\ i.free # {} => m.pressure = "mgpcg" \/ (~v.flown /\ i.op # "flush")

Gains(i, v, w) ==
    /\ i.op \in {"acquire", "input"} /\ ~v.kept /\ i.kernel \in PoolShapes
    /\ \E n : /\ i.names = {n} /\ n \notin v.scope /\ n \notin Slots
              /\ Forgets(v.scope \union {n}, w.scope)
              /\ w.written \subseteq IF i.op = "input" THEN v.written \union {n} ELSE v.written \ {n}
              /\ w.done \subseteq v.done \ {n}
    /\ SameFlags(v, w)

Targets(i, v, w) ==
    /\ i.op = "target" /\ ~v.kept /\ Busy(w) /\ i.names \subseteq Slots
    /\ Forgets(v.scope \union i.names, w.scope)
    /\ w.written \subseteq v.written \ i.names /\ w.done \subseteq v.done \ i.names
    /\ SameFlags(v, w)

Dispatches(m, i, v, w) ==
    /\ i.op \in {"record", "run"} /\ ~v.kept
    /\ i.reads \subseteq v.written /\ i.writes \subseteq v.scope
    /\ i.kernel # "none"
    /\ Forgets(v.scope, w.scope) /\ w.written \subseteq v.written \union i.writes
    /\ w.done \subseteq (v.done \ i.writes) \union {n \in i.writes : LastKernel(m, n) = i.kernel}
    /\ i.op = "record" => w.open
    /\ SameFlags(v, w)

Submits(i, v, w) ==
    /\ ~v.kept /\ ~w.kept
    /\ \/ /\ i.op = "flush" /\ w.flown
          /\ Forgets(v.scope, w.scope) /\ w.written \subseteq v.written /\ w.done \subseteq v.done
       \/ /\ i.op = "submit"
          /\ w.scope = v.scope \ Slots
          /\ w.written \subseteq v.written \ Slots /\ w.done \subseteq v.done \ Slots

Loses(m, i, v, w) ==
    /\ \/ i.op = "retire" /\ ~v.kept /\ Busy(w)
       \/ i.op = "release" /\ ~v.open /\ (v.flown => m.pressure = "mgpcg")
    /\ i.names \intersect Slots = {}
    /\ Forgets(v.scope \ i.names, w.scope)
    /\ w.written \subseteq v.written \ i.names /\ w.done \subseteq v.done \ i.names
    /\ SameFlags(v, w)

Replaces(m, i, v, w) ==
    /\ i.op = "replace" /\ ~v.kept /\ Busy(w)
    /\ \E n : /\ i.names = {n} /\ n \in v.scope \ Slots /\ i.kernel # n
              /\ i.kernel \in v.written /\ i.kernel \in v.scope \ Slots
              /\ Forgets(v.scope \ {i.kernel}, w.scope)
              /\ w.written \subseteq (v.written \union {n}) \ {i.kernel}
              /\ w.done \subseteq (v.done \ {n, i.kernel}) \union
                    IF i.kernel \in v.done /\ LastKernel(m, i.kernel) = LastKernel(m, n)
                    THEN {n} ELSE {}
    /\ SameFlags(v, w)

Looks(m, i, v, w) ==
    /\ i.op \in {"check", "measure"} /\ ~v.kept
    /\ i.op = "measure" => i.reads \subseteq v.written /\ Covers(v, Stepping(m))
    /\ Covers(v, w)

Tracked(m) == StateNames(m) \intersect (Velocity \union Scalars)

Puts(m, i, v, w) ==
    /\ i.op = "put" /\ ~v.kept /\ w.kept /\ ~v.open /\ ~v.flown
    /\ i.names = StateNames(m) /\ i.names \subseteq v.scope /\ i.names \subseteq v.written
    /\ Tracked(m) \subseteq v.done
    /\ Forgets(v.scope \ i.names, w.scope)
    /\ w.written \subseteq v.written \ i.names /\ w.done \subseteq v.done \ i.names

\* Instruction i is in order where v is known, and w is known after it; if plain, it
\* keeps nothing of its own.
Goes(m, plain, i, v, w) ==
    /\ IsInstruction(i)
    /\ IF plain THEN i.drop = {} /\ i.free = {} ELSE Tidy(m, i, v)
    /\ \/ Gains(i, v, w) \/ Targets(i, v, w) \/ Dispatches(m, i, v, w)
       \/ Submits(i, v, w) \/ Loses(m, i, v, w) \/ Replaces(m, i, v, w)
       \/ Looks(m, i, v, w) \/ Puts(m, i, v, w)

IsStage(p) == p \in Seq({p[k] : k \in 1..Len(p)})

Trace(m, plain, p, f) == \A k \in 1..Len(p) : Goes(m, plain, p[k], f[k - 1], f[k])

\* Stage p goes from what v knows to what w says.
Runs(m, plain, p, v, w) ==
    /\ IsStage(p)
    /\ \E f : Covers(v, f[0]) /\ f[Len(p)] = w /\ Trace(m, plain, p, f)

LEMMA CoversAll ==
    /\ \A v : Covers(v, v)
    /\ \A u, v, w : Covers(u, v) /\ Covers(v, w) => Covers(u, w)
  BY DEF Covers, Forgets, SameFlags

LEMMA GoesFromMore ==
    ASSUME NEW m, NEW plain, NEW i, NEW u, NEW v, NEW w, Covers(u, v), Goes(m, plain, i, v, w)
    PROVE  Goes(m, plain, i, u, w)
<1>1. IsInstruction(i) /\ IF plain THEN i.drop = {} /\ i.free = {} ELSE Tidy(m, i, u)
  BY DEF Goes, Tidy, Covers, SameFlags
<1>2. CASE Gains(i, v, w)
  <2>1. Gains(i, u, w)
    BY <1>2 DEF Gains, Forgets, Covers, SameFlags
  <2> QED
    BY <1>1, <2>1 DEF Goes
<1>3. CASE Targets(i, v, w)
  <2>1. Targets(i, u, w)
    BY <1>3 DEF Targets, Busy, Forgets, Covers, SameFlags
  <2> QED
    BY <1>1, <2>1 DEF Goes
<1>4. CASE Dispatches(m, i, v, w)
  <2>1. Dispatches(m, i, u, w)
    BY <1>4 DEF Dispatches, Forgets, Covers, SameFlags
  <2> QED
    BY <1>1, <2>1 DEF Goes
<1>5. CASE Submits(i, v, w)
  <2>1. Submits(i, u, w)
    BY <1>5 DEF Submits, Forgets, Covers, SameFlags
  <2> QED
    BY <1>1, <2>1 DEF Goes
<1>6. CASE Loses(m, i, v, w)
  <2>1. Loses(m, i, u, w)
    BY <1>6 DEF Loses, Busy, Forgets, Covers, SameFlags
  <2> QED
    BY <1>1, <2>1 DEF Goes
<1>7. CASE Replaces(m, i, v, w)
  <2>1. Replaces(m, i, u, w)
    BY <1>7 DEF Replaces, Busy, Forgets, Covers, SameFlags
  <2> QED
    BY <1>1, <2>1 DEF Goes
<1>8. CASE Looks(m, i, v, w)
  <2>1. Looks(m, i, u, w)
    BY <1>8 DEF Looks, Forgets, Covers, SameFlags
  <2> QED
    BY <1>1, <2>1 DEF Goes
<1>9. CASE Puts(m, i, v, w)
  <2>1. Puts(m, i, u, w)
    BY <1>9 DEF Puts, Forgets, Covers, SameFlags
  <2> QED
    BY <1>1, <2>1 DEF Goes
<1> QED
  BY <1>2, <1>3, <1>4, <1>5, <1>6, <1>7, <1>8, <1>9 DEF Goes

LEMMA GoesToLess ==
    ASSUME NEW m, NEW plain, NEW i, NEW u, NEW v, NEW w, Goes(m, plain, i, u, v), Covers(v, w)
    PROVE  Goes(m, plain, i, u, w)
<1>1. IsInstruction(i) /\ IF plain THEN i.drop = {} /\ i.free = {} ELSE Tidy(m, i, u)
  BY DEF Goes
<1>2. CASE Gains(i, u, v)
  <2>1. Gains(i, u, w)
    BY <1>2 DEF Gains, Forgets, Covers, SameFlags
  <2> QED
    BY <1>1, <2>1 DEF Goes
<1>3. CASE Targets(i, u, v)
  <2>1. Targets(i, u, w)
    BY <1>3 DEF Targets, Busy, Forgets, Covers, SameFlags
  <2> QED
    BY <1>1, <2>1 DEF Goes
<1>4. CASE Dispatches(m, i, u, v)
  <2>1. Dispatches(m, i, u, w)
    BY <1>4 DEF Dispatches, Forgets, Covers, SameFlags
  <2> QED
    BY <1>1, <2>1 DEF Goes
<1>5. CASE Submits(i, u, v)
  <2>1. Submits(i, u, w)
    BY <1>5 DEF Submits, Forgets, Covers, SameFlags
  <2> QED
    BY <1>1, <2>1 DEF Goes
<1>6. CASE Loses(m, i, u, v)
  <2>1. Loses(m, i, u, w)
    BY <1>6 DEF Loses, Busy, Forgets, Covers, SameFlags
  <2> QED
    BY <1>1, <2>1 DEF Goes
<1>7. CASE Replaces(m, i, u, v)
  <2>1. Replaces(m, i, u, w)
    BY <1>7 DEF Replaces, Busy, Forgets, Covers, SameFlags
  <2> QED
    BY <1>1, <2>1 DEF Goes
<1>8. CASE Looks(m, i, u, v)
  <2>1. Looks(m, i, u, w)
    BY <1>8 DEF Looks, Forgets, Covers, SameFlags
  <2> QED
    BY <1>1, <2>1 DEF Goes
<1>9. CASE Puts(m, i, u, v)
  <2>1. Puts(m, i, u, w)
    BY <1>9 DEF Puts, Forgets, Covers, SameFlags
  <2> QED
    BY <1>1, <2>1 DEF Goes
<1> QED
  BY <1>2, <1>3, <1>4, <1>5, <1>6, <1>7, <1>8, <1>9 DEF Goes

LEMMA StageFacts ==
    ASSUME NEW p, IsStage(p)
    PROVE  /\ Len(p) \in Nat /\ DOMAIN p = 1..Len(p)
           /\ \A S : {p[k] : k \in 1..Len(p)} \subseteq S => p \in Seq(S)
<1>1. \A S : {p[k] : k \in 1..Len(p)} \subseteq S => p \in Seq(S)
  BY DEF IsStage
<1> QED
  BY <1>1 DEF IsStage

LEMMA StageJoin ==
    ASSUME NEW p, NEW r, IsStage(p), IsStage(r)
    PROVE  /\ IsStage(p \o r) /\ Len(p \o r) = Len(p) + Len(r)
           /\ \A k \in 1..Len(p) : (p \o r)[k] = p[k]
           /\ \A k \in 1..Len(r) : (p \o r)[Len(p) + k] = r[k]
           /\ \A k \in 1..(Len(p) + Len(r)) : k > Len(p) => (p \o r)[k] = r[k - Len(p)]
<1> DEFINE S == {p[k] : k \in 1..Len(p)} \union {r[k] : k \in 1..Len(r)}
           t == p \o r
<1>1. p \in Seq(S) /\ r \in Seq(S) /\ Len(p) \in Nat /\ Len(r) \in Nat
  BY StageFacts
<1> HIDE DEF S
<1>2. /\ t \in Seq(S) /\ Len(t) = Len(p) + Len(r)
      /\ \A k \in 1..Len(p) : t[k] = p[k]
      /\ \A k \in 1..Len(r) : t[Len(p) + k] = r[k]
      /\ \A k \in 1..(Len(p) + Len(r)) : k > Len(p) => t[k] = r[k - Len(p)]
  BY <1>1
<1> HIDE DEF t
<1>3. t \in Seq({t[k] : k \in 1..Len(t)})
  <2> DEFINE T == {t[k] : k \in 1..Len(t)}
  <2>1. \A k \in 1..Len(t) : t[k] \in T
    OBVIOUS
  <2>2. t = [k \in 1..Len(t) |-> t[k]] /\ Len(t) \in Nat
    BY <1>2
  <2> HIDE DEF T
  <2>3. [k \in 1..Len(t) |-> t[k]] \in Seq(T)
    BY <2>1, <2>2
  <2> QED
    BY <2>2, <2>3 DEF T
<1> QED
  BY <1>2, <1>3 DEF IsStage, t

LEMMA RunsThen ==
    ASSUME NEW m, NEW plain, NEW p, NEW r, NEW u, NEW v, NEW w,
           Runs(m, plain, p, u, v), Runs(m, plain, r, v, w)
    PROVE  Runs(m, plain, p \o r, u, w)
<1>1. PICK f : Covers(u, f[0]) /\ f[Len(p)] = v /\ Trace(m, plain, p, f)
  BY DEF Runs
<1>2. PICK g : Covers(v, g[0]) /\ g[Len(r)] = w /\ Trace(m, plain, r, g)
  BY DEF Runs
<1> DEFINE a == Len(p)
           b == Len(r)
           h == [k \in 0..(a + b) |-> IF k < a THEN f[k] ELSE g[k - a]]
<1>3. IsStage(p) /\ IsStage(r) /\ a \in Nat /\ b \in Nat
  BY StageFacts DEF Runs
<1>4. /\ IsStage(p \o r) /\ Len(p \o r) = a + b
      /\ \A k \in 1..a : (p \o r)[k] = p[k]
      /\ \A k \in 1..(a + b) : k > a => (p \o r)[k] = r[k - a]
  BY <1>3, StageJoin
<1>5. Trace(m, plain, p, f) /\ Trace(m, plain, r, g) /\ f[a] = v /\ g[b] = w
  BY <1>1, <1>2
<1> HIDE DEF a, b
<1>6. h[a + b] = w
  BY <1>3, <1>5
<1>7. Covers(u, h[0])
  <2>1. CASE a = 0
    <3>1. h[0] = g[0]
      BY <1>3, <2>1
    <3> QED
      BY <1>1, <1>2, <1>5, <2>1, <3>1, CoversAll
  <2>2. CASE a > 0
    BY <1>1, <1>3, <2>2
  <2> QED
    BY <1>3, <2>1, <2>2
<1>8. ASSUME NEW k \in 1..(a + b)
      PROVE  Goes(m, plain, (p \o r)[k], h[k - 1], h[k])
  <2>1. CASE k < a
    <3>1. h[k] = f[k] /\ h[k - 1] = f[k - 1] /\ (p \o r)[k] = p[k] /\ k \in 1..a
      BY <1>3, <1>4, <2>1
    <3> QED
      BY <1>5, <3>1 DEF Trace, a
  <2>2. CASE k = a
    <3>1. h[k] = g[0] /\ h[k - 1] = f[k - 1] /\ (p \o r)[k] = p[k] /\ k \in 1..a
      BY <1>3, <1>4, <2>2
    <3>2. Goes(m, plain, p[k], f[k - 1], f[k]) /\ f[k] = v
      BY <1>5, <2>2, <3>1 DEF Trace, a
    <3> QED
      BY <1>2, <3>1, <3>2, GoesToLess
  <2>3. CASE k > a
    <3>1. h[k] = g[k - a] /\ h[k - 1] = g[(k - a) - 1] /\ (p \o r)[k] = r[k - a] /\ k - a \in 1..b
      BY <1>3, <1>4, <2>3
    <3> QED
      BY <1>5, <3>1 DEF Trace, b
  <2>4. k < a \/ k = a \/ k > a
    BY <1>3
  <2> QED
    BY <2>1, <2>2, <2>3, <2>4
<1> QED
  BY <1>4, <1>6, <1>7, <1>8 DEF Runs, Trace

LEMMA RunsNothing ==
    ASSUME NEW m, NEW plain, NEW v, NEW w, Covers(v, w)
    PROVE  Runs(m, plain, <<>>, v, w)
<1> DEFINE f == [k \in 0..0 |-> w]
<1>1. Covers(v, f[0]) /\ f[Len(<<>>)] = w /\ Len(<<>>) = 0
  OBVIOUS
<1>2. IsStage(<<>>)
  BY DEF IsStage
<1>3. Trace(m, plain, <<>>, f)
  BY <1>1 DEF Trace
<1> HIDE DEF f
<1> QED
  BY <1>1, <1>2, <1>3 DEF Runs

LEMMA RunsOne ==
    ASSUME NEW m, NEW plain, NEW i, NEW v, NEW w, Goes(m, plain, i, v, w)
    PROVE  Runs(m, plain, <<i>>, v, w)
<1> DEFINE f == [k \in 0..1 |-> IF k = 0 THEN v ELSE w]
           p == <<i>>
<1>1. f[0] = v /\ f[1] = w /\ Len(p) = 1 /\ p[1] = i
  OBVIOUS
<1>2. IsStage(p)
  BY DEF IsStage
<1> HIDE DEF f, p
<1>3. Trace(m, plain, p, f)
  BY <1>1 DEF Trace
<1>4. Runs(m, plain, p, v, w)
  BY <1>1, <1>2, <1>3, CoversAll DEF Runs
<1> QED
  BY <1>4 DEF p

LEMMA RunsFromMore ==
    ASSUME NEW m, NEW plain, NEW p, NEW u, NEW v, NEW w, Covers(u, v), Runs(m, plain, p, v, w)
    PROVE  Runs(m, plain, p, u, w)
  BY CoversAll DEF Runs

LEMMA RunsToLess ==
    ASSUME NEW m, NEW plain, NEW p, NEW u, NEW v, NEW w, Runs(m, plain, p, u, v), Covers(v, w)
    PROVE  Runs(m, plain, p, u, w)
<1>1. PICK f : Covers(u, f[0]) /\ f[Len(p)] = v /\ Trace(m, plain, p, f)
  BY DEF Runs
<1> DEFINE a == Len(p)
           g == [k \in 0..a |-> IF k = a THEN w ELSE f[k]]
<1>2. a \in Nat /\ IsStage(p)
  BY StageFacts DEF Runs
<1>3. Trace(m, plain, p, f) /\ f[a] = v
  BY <1>1
<1> HIDE DEF a
<1>4. g[a] = w
  BY <1>2
<1>5. Covers(u, g[0])
  <2>1. CASE a = 0
    BY <1>1, <1>3, <1>4, <2>1, CoversAll
  <2>2. CASE a > 0
    BY <1>1, <1>2, <2>2
  <2> QED
    BY <1>2, <2>1, <2>2
<1>6. ASSUME NEW k \in 1..a
      PROVE  Goes(m, plain, p[k], g[k - 1], g[k])
  <2>1. g[k - 1] = f[k - 1] /\ Goes(m, plain, p[k], f[k - 1], f[k])
    BY <1>2, <1>3 DEF Trace, a
  <2>2. CASE k = a
    BY <1>3, <1>4, <2>1, <2>2, GoesToLess
  <2>3. CASE k < a
    BY <1>2, <2>1, <2>3
  <2> QED
    BY <1>2, <2>2, <2>3
<1> QED
  BY <1>2, <1>4, <1>5, <1>6 DEF Runs, Trace, a

LEMMA RunsWhen ==
    ASSUME NEW m, NEW plain, NEW c \in BOOLEAN, NEW p, NEW v, NEW w,
           c => Runs(m, plain, p, v, w),
           ~c => Covers(v, w)
    PROVE  Runs(m, plain, When(c, p), v, w)
<1>1. CASE c
  BY <1>1 DEF When
<1>2. CASE ~c
  <2>1. When(c, p) = <<>>
    BY <1>2 DEF When
  <2> QED
    BY <1>2, <2>1, RunsNothing
<1> QED
  BY <1>1, <1>2

Less == {ij \in Nat \X Nat : ij[1] < ij[2]}

LEMMA LeastElement ==
    ASSUME NEW S \in SUBSET Nat, S # {}
    PROVE  \E m \in S : \A n \in S : m <= n
<1>1. IsWellFoundedOn(Less, Nat)
  BY NatLessThanWellFounded DEF OpToRel, Less
<1>2. PICK m \in S : \A n \in S : ~ (<<n, m>> \in Less)
  BY <1>1, WFMin
<1>3. \A n \in S : ~ (n < m)
  BY <1>2 DEF Less
<1> QED
  BY <1>3

\* g flattens the first k of the stages P.
Flat(g, P, k) == g = [i \in 1..k |-> IF i = 1 THEN P[i] ELSE g[i - 1] \o P[i]]

LEMMA FlatExtends ==
    ASSUME NEW P, NEW k \in Nat \ {0}, NEW g, Flat(g, P, k - 1)
    PROVE  \E h : Flat(h, P, k)
<1> DEFINE last == IF k = 1 THEN P[k] ELSE g[k - 1] \o P[k]
           h == [i \in 1..k |-> IF i = k THEN last ELSE g[i]]
<1> HIDE DEF last
<1>1. h[k] = last /\ \A i \in 1..(k - 1) : h[i] = g[i]
  OBVIOUS
<1>2. \A i \in 1..(k - 1) : g[i] = IF i = 1 THEN P[i] ELSE g[i - 1] \o P[i]
  <2>1. g = [i \in 1..(k - 1) |-> IF i = 1 THEN P[i] ELSE g[i - 1] \o P[i]]
    BY DEF Flat
  <2> QED
    BY <2>1, Zenon
<1>3. ASSUME NEW i \in 1..k
      PROVE  h[i] = IF i = 1 THEN P[i] ELSE h[i - 1] \o P[i]
  <2>1. CASE i = k
    <3>1. k # 1 => h[k - 1] = g[k - 1]
      BY <1>1
    <3> QED
      BY <1>1, <2>1, <3>1 DEF last
  <2>2. CASE i # k
    <3>1. i \in 1..(k - 1) /\ (i # 1 => i - 1 \in 1..(k - 1))
      BY <2>2
    <3>2. h[i] = g[i] /\ (i # 1 => h[i - 1] = g[i - 1])
      BY <1>1, <3>1
    <3> HIDE DEF h
    <3> QED
      BY <1>2, <3>1, <3>2
  <2> QED
    BY <2>1, <2>2
<1>4. h = [i \in 1..k |-> h[i]]
  OBVIOUS
<1> HIDE DEF h
<1>5. h = [i \in 1..k |-> IF i = 1 THEN P[i] ELSE h[i - 1] \o P[i]]
  BY <1>3, <1>4
<1> QED
  BY <1>5 DEF Flat

LEMMA FlatExists ==
    ASSUME NEW P, NEW n \in Nat
    PROVE  \E g : Flat(g, P, n)
<1> DEFINE Bad == {k \in Nat : ~ \E g : Flat(g, P, k)}
<1> SUFFICES ASSUME Bad # {}
             PROVE  FALSE
  OBVIOUS
<1>1. PICK k \in Bad : \A j \in Bad : k <= j
  <2>1. Bad \in SUBSET Nat
    OBVIOUS
  <2> HIDE DEF Bad
  <2> QED
    BY <2>1, LeastElement
<1>2. k # 0
  <2>1. Flat([i \in 1..0 |-> 0], P, 0)
    BY DEF Flat
  <2> QED
    BY <2>1
<1>3. k - 1 \in Nat /\ k - 1 \notin Bad
  BY <1>1, <1>2
<1>4. PICK g : Flat(g, P, k - 1)
  BY <1>3
<1>5. \E h : Flat(h, P, k)
  BY <1>1, <1>2, <1>4, FlatExtends
<1> QED
  BY <1>1, <1>5

\* Stages that follow one another, P[a] from what s[a - 1] knows to what s[a] says.
LEMMA RunsFlatten ==
    ASSUME NEW m, NEW plain, NEW n \in Nat, NEW P, NEW s,
           P = [a \in 1..n |-> P[a]],
           \A a \in 1..n : Runs(m, plain, P[a], s[a - 1], s[a])
    PROVE  Runs(m, plain, FlattenSeq(P), s[0], s[n])
<1>0. Len(P) = n
  OBVIOUS
<1>1. CASE n = 0
  <2>1. P = <<>> /\ FlattenSeq(P) = <<>>
    BY <1>0, <1>1 DEF FlattenSeq
  <2> QED
    BY <1>1, <2>1, RunsNothing, CoversAll
<1>2. CASE n # 0
  <2> DEFINE g == CHOOSE h : Flat(h, P, n)
  <2>1. Flat(g, P, n)
    BY FlatExists
  <2>2. FlattenSeq(P) = g[n]
    BY <1>0, <1>2, Zenon DEF FlattenSeq, Flat
  <2> HIDE DEF g
  <2>3. \A i \in 1..n : g[i] = IF i = 1 THEN P[i] ELSE g[i - 1] \o P[i]
    <3>1. g = [i \in 1..n |-> IF i = 1 THEN P[i] ELSE g[i - 1] \o P[i]]
      BY <2>1 DEF Flat
    <3> QED
      BY <3>1, Zenon
  <2> DEFINE Bad == {k \in 1..n : ~Runs(m, plain, g[k], s[0], s[k])}
  <2>4. Bad = {}
    <3> SUFFICES ASSUME Bad # {}
                 PROVE  FALSE
      OBVIOUS
    <3>1. PICK k \in Bad : \A j \in Bad : k <= j
      <4>1. Bad \in SUBSET Nat
        OBVIOUS
      <4> HIDE DEF Bad
      <4> QED
        BY <4>1, LeastElement
    <3>2. k \in 1..n /\ Runs(m, plain, P[k], s[k - 1], s[k])
      OBVIOUS
    <3>3. CASE k = 1
      <4>1. g[k] = P[k] /\ k - 1 = 0
        BY <2>3, <3>2, <3>3
      <4> QED
        BY <3>1, <3>2, <4>1
    <3>4. CASE k # 1
      <4>1. k - 1 \in 1..n /\ k - 1 \notin Bad
        BY <3>1, <3>4
      <4>2. Runs(m, plain, g[k - 1], s[0], s[k - 1]) /\ g[k] = g[k - 1] \o P[k]
        BY <2>3, <3>2, <3>4, <4>1
      <4>3. Runs(m, plain, g[k], s[0], s[k])
        BY <3>2, <4>2, RunsThen
      <4> QED
        BY <3>1, <4>3
    <3> QED
      BY <3>3, <3>4
  <2> QED
    BY <1>2, <2>2, <2>4
<1> QED
  BY <1>1, <1>2

\* A stage repeated, that knows afterwards what it has to know before.
LEMMA RunsRepeated ==
    ASSUME NEW m, NEW plain, NEW n \in Nat, NEW P, NEW v,
           P = [a \in 1..n |-> P[a]],
           \A a \in 1..n : Runs(m, plain, P[a], v, v)
    PROVE  Runs(m, plain, FlattenSeq(P), v, v)
<1> DEFINE s == [a \in 0..n |-> v]
<1>1. \A a \in 1..n : Runs(m, plain, P[a], s[a - 1], s[a])
  OBVIOUS
<1>2. s[0] = v /\ s[n] = v
  OBVIOUS
<1> HIDE DEF s
<1>3. Runs(m, plain, FlattenSeq(P), s[0], s[n])
  BY <1>1, RunsFlatten
<1> QED
  BY <1>2, <1>3

\* Three stages, one for each axis.
LEMMA RunsAxes ==
    ASSUME NEW m, NEW plain, NEW P, NEW v0, NEW v1, NEW v2, NEW v3,
           P = [a \in 1..3 |-> P[a]],
           Runs(m, plain, P[1], v0, v1), Runs(m, plain, P[2], v1, v2),
           Runs(m, plain, P[3], v2, v3)
    PROVE  Runs(m, plain, FlattenSeq(P), v0, v3)
<1> DEFINE s == [a \in 0..3 |-> IF a = 0 THEN v0 ELSE IF a = 1 THEN v1
                                 ELSE IF a = 2 THEN v2 ELSE v3]
<1>1. s[0] = v0 /\ s[1] = v1 /\ s[2] = v2 /\ s[3] = v3
  OBVIOUS
<1> HIDE DEF s
<1>2. ASSUME NEW a \in 1..3
      PROVE  Runs(m, plain, P[a], s[a - 1], s[a])
  <2>1. a = 1 \/ a = 2 \/ a = 3
    OBVIOUS
  <2>2. CASE a = 1
    BY <1>1, <2>2
  <2>3. CASE a = 2
    BY <1>1, <2>3
  <2>4. CASE a = 3
    BY <1>1, <2>4
  <2> QED
    BY <2>1, <2>2, <2>3, <2>4
<1>3. Runs(m, plain, FlattenSeq(P), s[0], s[3])
  BY <1>2, RunsFlatten
<1> QED
  BY <1>1, <1>3

-----------------------------------------------------------------------------
(* One instruction. *)

\* A point in a step, before the slots are put.
At(S, W, D, o, f) == View(S, W, D, o, f, FALSE)

LEMMA AcquireRuns ==
    ASSUME NEW m, NEW S, NEW W, NEW D, NEW o \in BOOLEAN, NEW f \in BOOLEAN, NEW n,
           NEW shape \in PoolShapes,
           n \notin S, n \notin Slots, W \subseteq S, D \subseteq S
    PROVE  Runs(m, TRUE, Acquire(n, shape), At(S, W, D, o, f), At(S \union {n}, W, D, o, f))
<1> DEFINE i == Instruction("acquire", {n}, shape, {}, {})
<1>1. /\ i.op = "acquire" /\ i.names = {n} /\ i.kernel = shape /\ i.drop = {} /\ i.free = {}
      /\ IsInstruction(i)
  BY DEF Instruction, IsInstruction
<1> HIDE DEF i
<1> DEFINE v == At(S, W, D, o, f)
           w == At(S \union {n}, W, D, o, f)
<1>2. /\ v.scope = S /\ v.written = W /\ v.done = D /\ v.kept = FALSE
      /\ w.scope = S \union {n} /\ w.written = W /\ w.done = D
      /\ SameFlags(v, w)
  BY DEF At, View, SameFlags
<1> HIDE DEF v, w
<1>3. Gains(i, v, w)
  BY <1>1, <1>2 DEF Gains, Forgets
<1>4. Runs(m, TRUE, <<i>>, v, w)
  BY <1>1, <1>3, RunsOne DEF Goes
<1> QED
  BY <1>4 DEF i, v, w, Acquire

\* The fields of those written that this kernel is the last to write.
Finished(m, names, kernel) == {n \in names : LastKernel(m, n) = kernel}

LEMMA DispatchRuns ==
    ASSUME NEW m, NEW S, NEW W, NEW D, NEW f \in BOOLEAN, NEW kernel, NEW R, NEW T,
           kernel # "none", R \subseteq W, T \subseteq S
    PROVE  Runs(m, TRUE, Dispatch(kernel, R, T), At(S, W, D, TRUE, f),
                At(S, W \union T, (D \ T) \union Finished(m, T, kernel), TRUE, f))
<1> DEFINE i == Instruction("record", {}, kernel, R, T)
<1>1. /\ i.op = "record" /\ i.kernel = kernel /\ i.reads = R /\ i.writes = T
      /\ i.drop = {} /\ i.free = {}
      /\ IsInstruction(i)
  BY DEF Instruction, IsInstruction
<1> HIDE DEF i
<1> DEFINE d == (D \ T) \union Finished(m, T, kernel)
           v == At(S, W, D, TRUE, f)
           w == At(S, W \union T, d, TRUE, f)
<1>2. /\ v.scope = S /\ v.written = W /\ v.done = D /\ v.kept = FALSE
      /\ w.scope = S /\ w.written = W \union T /\ w.done = d /\ w.open = TRUE
      /\ SameFlags(v, w)
  BY DEF At, View, SameFlags
<1> HIDE DEF v, w
<1>3. Dispatches(m, i, v, w)
  BY <1>1, <1>2 DEF Dispatches, Forgets, Finished
<1>4. Runs(m, TRUE, <<i>>, v, w)
  BY <1>1, <1>3, RunsOne DEF Goes
<1> QED
  BY <1>4 DEF i, v, w, Dispatch

LEMMA FlushRuns ==
    ASSUME NEW m, NEW S, NEW W, NEW D, NEW o \in BOOLEAN, NEW f \in BOOLEAN, NEW after \in BOOLEAN
    PROVE  Runs(m, TRUE, Flush, At(S, W, D, o, f), At(S, W, D, after, TRUE))
<1> DEFINE i == Instruction("flush", {}, "none", {}, {})
<1>1. i.op = "flush" /\ i.drop = {} /\ i.free = {} /\ IsInstruction(i)
  BY DEF Instruction, IsInstruction
<1> HIDE DEF i
<1> DEFINE v == At(S, W, D, o, f)
           w == At(S, W, D, after, TRUE)
<1>2. /\ v.scope = S /\ v.written = W /\ v.done = D /\ v.kept = FALSE
      /\ w.scope = S /\ w.written = W /\ w.done = D /\ w.flown = TRUE /\ w.kept = FALSE
  BY DEF At, View
<1> HIDE DEF v, w
<1>3. Submits(i, v, w)
  BY <1>1, <1>2 DEF Submits, Forgets
<1>4. Runs(m, TRUE, <<i>>, v, w)
  BY <1>1, <1>3, RunsOne DEF Goes
<1> QED
  BY <1>4 DEF i, v, w, Flush

LEMMA TargetRuns ==
    ASSUME NEW m, NEW S, NEW W, NEW D, NEW o \in BOOLEAN, NEW f \in BOOLEAN, o \/ f, NEW T,
           T \subseteq Slots,
           W \intersect T = {}, D \intersect T = {}
    PROVE  Runs(m, TRUE, NewTarget(T), At(S, W, D, o, f), At(S \union T, W, D, o, f))
<1> DEFINE i == Instruction("target", T, "none", {}, {})
<1>1. i.op = "target" /\ i.names = T /\ i.drop = {} /\ i.free = {} /\ IsInstruction(i)
  BY DEF Instruction, IsInstruction
<1> HIDE DEF i
<1> DEFINE v == At(S, W, D, o, f)
           w == At(S \union T, W, D, o, f)
<1>2. /\ v.scope = S /\ v.written = W /\ v.done = D /\ v.kept = FALSE
      /\ w.scope = S \union T /\ w.written = W /\ w.done = D
      /\ SameFlags(v, w)
  BY DEF At, View, SameFlags
<1>5. Busy(w)
  BY DEF At, View, Busy
<1> HIDE DEF v, w
<1>3. Targets(i, v, w)
  BY <1>1, <1>2, <1>5 DEF Targets, Forgets
<1>4. Runs(m, TRUE, <<i>>, v, w)
  BY <1>1, <1>3, RunsOne DEF Goes
<1> QED
  BY <1>4 DEF i, v, w, NewTarget

LEMMA RetireRuns ==
    ASSUME NEW m, NEW S, NEW W, NEW D, NEW o \in BOOLEAN, NEW f \in BOOLEAN, o \/ f, NEW names,
           names \intersect Slots = {}
    PROVE  Runs(m, TRUE, Retire(names), At(S, W, D, o, f),
                At(S \ names, W \ names, D \ names, o, f))
<1> DEFINE i == Instruction("retire", names, "none", {}, {})
<1>1. i.op = "retire" /\ i.names = names /\ i.drop = {} /\ i.free = {} /\ IsInstruction(i)
  BY DEF Instruction, IsInstruction
<1> HIDE DEF i
<1> DEFINE v == At(S, W, D, o, f)
           w == At(S \ names, W \ names, D \ names, o, f)
<1>2. /\ v.scope = S /\ v.written = W /\ v.done = D /\ v.kept = FALSE
      /\ w.scope = S \ names /\ w.written = W \ names /\ w.done = D \ names
      /\ SameFlags(v, w)
  BY DEF At, View, SameFlags
<1>5. Busy(w)
  BY DEF At, View, Busy
<1> HIDE DEF v, w
<1>3. Loses(m, i, v, w)
  BY <1>1, <1>2, <1>5 DEF Loses, Forgets
<1>4. Runs(m, TRUE, <<i>>, v, w)
  BY <1>1, <1>3, RunsOne DEF Goes
<1> QED
  BY <1>4 DEF i, v, w, Retire

\* While nothing is recorded, fields may be released at once.
LEMMA ReleaseRuns ==
    ASSUME NEW m, NEW S, NEW W, NEW D, NEW f \in BOOLEAN, NEW k \in BOOLEAN, NEW names,
           names \intersect Slots = {}, f => m.pressure = "mgpcg"
    PROVE  Runs(m, TRUE, Release(names), View(S, W, D, FALSE, f, k),
                View(S \ names, W \ names, D \ names, FALSE, f, k))
<1> DEFINE i == Instruction("release", names, "none", {}, {})
<1>1. i.op = "release" /\ i.names = names /\ i.drop = {} /\ i.free = {} /\ IsInstruction(i)
  BY DEF Instruction, IsInstruction
<1> HIDE DEF i
<1> DEFINE v == View(S, W, D, FALSE, f, k)
           w == View(S \ names, W \ names, D \ names, FALSE, f, k)
<1>2. /\ v.scope = S /\ v.written = W /\ v.done = D /\ v.open = FALSE /\ v.flown = f
      /\ w.scope = S \ names /\ w.written = W \ names /\ w.done = D \ names
      /\ SameFlags(v, w)
  BY DEF View, SameFlags
<1> HIDE DEF v, w
<1>3. Loses(m, i, v, w)
  BY <1>1, <1>2 DEF Loses, Forgets
<1>4. Runs(m, TRUE, <<i>>, v, w)
  BY <1>1, <1>3, RunsOne DEF Goes
<1> QED
  BY <1>4 DEF i, v, w, Release

LEMMA ReplaceRuns ==
    ASSUME NEW m, NEW S, NEW W, NEW D, NEW o \in BOOLEAN, NEW f \in BOOLEAN, o \/ f, NEW name,
           NEW by,
           name \in S \ Slots, by \in S \ Slots, by # name, by \in W
    PROVE  Runs(m, TRUE, Replace(name, by), At(S, W, D, o, f),
                At(S \ {by}, (W \union {name}) \ {by},
                   (D \ {name, by}) \union
                      IF by \in D /\ LastKernel(m, by) = LastKernel(m, name) THEN {name} ELSE {},
                   o, f))
<1> DEFINE i == Instruction("replace", {name}, by, {}, {})
<1>1. /\ i.op = "replace" /\ i.names = {name} /\ i.kernel = by /\ i.drop = {} /\ i.free = {}
      /\ IsInstruction(i)
  BY DEF Instruction, IsInstruction
<1> HIDE DEF i
<1> DEFINE d == (D \ {name, by}) \union
                   IF by \in D /\ LastKernel(m, by) = LastKernel(m, name) THEN {name} ELSE {}
           v == At(S, W, D, o, f)
           w == At(S \ {by}, (W \union {name}) \ {by}, d, o, f)
<1>2. /\ v.scope = S /\ v.written = W /\ v.done = D /\ v.kept = FALSE
      /\ w.scope = S \ {by} /\ w.written = (W \union {name}) \ {by} /\ w.done = d
      /\ SameFlags(v, w)
  BY DEF At, View, SameFlags
<1>5. Busy(w)
  BY DEF At, View, Busy
<1> HIDE DEF v, w
<1>3. Replaces(m, i, v, w)
  BY <1>1, <1>2, <1>5 DEF Replaces, Forgets
<1>4. Runs(m, TRUE, <<i>>, v, w)
  BY <1>1, <1>3, RunsOne DEF Goes
<1> QED
  BY <1>4 DEF i, v, w, Replace

\* A dispatch of its own, whose failure may drop fields.
LEMMA RunRuns ==
    ASSUME NEW m, NEW S, NEW W, NEW D, NEW o \in BOOLEAN, NEW f \in BOOLEAN, NEW i,
           IsInstruction(i), i.op = "run", i.kernel # "none", i.free = {},
           i.drop \intersect Slots = {}, i.reads \subseteq W, i.writes \subseteq S
    PROVE  Runs(m, FALSE, <<i>>, At(S, W, D, o, f), At(S, W \union i.writes, D \ i.writes, o, f))
<1> DEFINE v == At(S, W, D, o, f)
           w == At(S, W \union i.writes, D \ i.writes, o, f)
<1>1. /\ v.scope = S /\ v.written = W /\ v.done = D /\ v.kept = FALSE
      /\ w.scope = S /\ w.written = W \union i.writes /\ w.done = D \ i.writes
      /\ SameFlags(v, w)
  BY DEF At, View, SameFlags
<1> HIDE DEF v, w
<1>2. Dispatches(m, i, v, w)
  BY <1>1 DEF Dispatches, Forgets
<1>3. Tidy(m, i, v)
  BY DEF Tidy
<1>4. Runs(m, FALSE, <<i>>, v, w)
  BY <1>2, <1>3, RunsOne DEF Goes
<1> QED
  BY <1>4 DEF v, w

LEMMA InputRuns ==
    ASSUME NEW m, NEW S, NEW W, NEW D, NEW o \in BOOLEAN, NEW f \in BOOLEAN, NEW n,
           NEW shape \in PoolShapes,
           n \notin S, n \notin Slots, D \subseteq S
    PROVE  Runs(m, TRUE, Input(n, shape), At(S, W, D, o, f),
                At(S \union {n}, W \union {n}, D, o, f))
<1> DEFINE i == Instruction("input", {n}, shape, {}, {n})
<1>1. /\ i.op = "input" /\ i.names = {n} /\ i.kernel = shape /\ i.drop = {} /\ i.free = {}
      /\ IsInstruction(i)
  BY DEF Instruction, IsInstruction
<1> HIDE DEF i
<1> DEFINE v == At(S, W, D, o, f)
           w == At(S \union {n}, W \union {n}, D, o, f)
<1>2. /\ v.scope = S /\ v.written = W /\ v.done = D /\ v.kept = FALSE
      /\ w.scope = S \union {n} /\ w.written = W \union {n} /\ w.done = D
      /\ SameFlags(v, w)
  BY DEF At, View, SameFlags
<1> HIDE DEF v, w
<1>3. Gains(i, v, w)
  BY <1>1, <1>2 DEF Gains, Forgets
<1>4. Runs(m, TRUE, <<i>>, v, w)
  BY <1>1, <1>3, RunsOne DEF Goes
<1> QED
  BY <1>4 DEF i, v, w, Input

LEMMA CheckRuns ==
    ASSUME NEW m, NEW S, NEW W, NEW D, NEW o \in BOOLEAN, NEW f \in BOOLEAN
    PROVE  Runs(m, TRUE, Check, At(S, W, D, o, f), At(S, W, D, o, f))
<1> DEFINE i == Instruction("check", {}, "none", {}, {})
<1>1. i.op = "check" /\ i.drop = {} /\ i.free = {} /\ IsInstruction(i)
  BY DEF Instruction, IsInstruction
<1> HIDE DEF i
<1> DEFINE v == At(S, W, D, o, f)
<1>2. v.kept = FALSE
  BY DEF At, View
<1> HIDE DEF v
<1>3. Looks(m, i, v, v)
  BY <1>1, <1>2, CoversAll DEF Looks
<1>4. Runs(m, TRUE, <<i>>, v, v)
  BY <1>1, <1>3, RunsOne DEF Goes
<1> QED
  BY <1>4 DEF i, v, Check

-----------------------------------------------------------------------------
\* Instruction j is i but for what its failure drops or frees.
Alike(i, j) ==
    /\ IsInstruction(j) /\ j.op = i.op /\ j.names = i.names /\ j.kernel = i.kernel
    /\ j.reads = i.reads /\ j.writes = i.writes

\* Which makes no difference to what is known.
LEMMA GoesAnyway ==
    ASSUME NEW m, NEW plain, NEW i, NEW v, NEW w, NEW j, Goes(m, plain, i, v, w),
           Alike(i, j), Tidy(m, j, v)
    PROVE  Goes(m, FALSE, j, v, w)
<1>2. /\ j.op = i.op /\ j.names = i.names /\ j.kernel = i.kernel /\ j.reads = i.reads
      /\ j.writes = i.writes /\ IsInstruction(j)
  BY DEF Alike
<1>3. \/ Gains(j, v, w) \/ Targets(j, v, w) \/ Dispatches(m, j, v, w)
      \/ Submits(j, v, w) \/ Loses(m, j, v, w) \/ Replaces(m, j, v, w)
      \/ Looks(m, j, v, w) \/ Puts(m, j, v, w)
  <2>1. CASE Gains(i, v, w)
    BY <1>2, <2>1 DEF Gains
  <2>2. CASE Targets(i, v, w)
    BY <1>2, <2>2 DEF Targets
  <2>3. CASE Dispatches(m, i, v, w)
    BY <1>2, <2>3 DEF Dispatches
  <2>4. CASE Submits(i, v, w)
    BY <1>2, <2>4 DEF Submits
  <2>5. CASE Loses(m, i, v, w)
    BY <1>2, <2>5 DEF Loses
  <2>6. CASE Replaces(m, i, v, w)
    BY <1>2, <2>6 DEF Replaces
  <2>7. CASE Looks(m, i, v, w)
    BY <1>2, <2>7 DEF Looks
  <2>8. CASE Puts(m, i, v, w)
    BY <1>2, <2>8 DEF Puts
  <2> QED
    BY <2>1, <2>2, <2>3, <2>4, <2>5, <2>6, <2>7, <2>8 DEF Goes
<1> QED
  BY <1>2, <1>3 DEF Goes

LEMMA RunsAnyway ==
    ASSUME NEW m, NEW p, NEW q, NEW v, NEW w, Runs(m, TRUE, p, v, w),
           q = [k \in DOMAIN p |-> q[k]],
           \A k \in DOMAIN p :
               /\ Alike(p[k], q[k])
               /\ q[k].drop \intersect q[k].free = {}
               /\ (q[k].drop \union q[k].free) \intersect Slots = {}
               /\ q[k].free # {} => m.pressure = "mgpcg"
    PROVE  Runs(m, FALSE, q, v, w)
<1>1. PICK f : Covers(v, f[0]) /\ f[Len(p)] = w /\ Trace(m, TRUE, p, f)
  BY DEF Runs
<1> DEFINE c == Len(p)
<1>2. IsStage(p) /\ c \in Nat /\ DOMAIN p = 1..c
  BY StageFacts DEF Runs
<1>3. f[c] = w /\ \A k \in 1..c : Goes(m, TRUE, p[k], f[k - 1], f[k])
  BY <1>1 DEF Trace
<1> HIDE DEF c
<1>4. q = [k \in 1..c |-> q[k]]
  BY <1>2
<1>5. Len(q) = c
  BY <1>2, <1>4
<1>6. IsStage(q)
  <2> DEFINE T == {q[k] : k \in 1..c}
  <2>1. \A k \in 1..c : q[k] \in T
    OBVIOUS
  <2> HIDE DEF T
  <2>2. [k \in 1..c |-> q[k]] \in Seq(T)
    BY <1>2, <2>1
  <2> QED
    BY <1>4, <1>5, <2>2 DEF T, IsStage
<1>7. ASSUME NEW k \in 1..c
      PROVE  Goes(m, FALSE, q[k], f[k - 1], f[k])
  <2>1. Alike(p[k], q[k]) /\ Tidy(m, q[k], f[k - 1])
    BY <1>2 DEF Tidy
  <2> QED
    BY <1>3, <2>1, GoesAnyway
<1> QED
  BY <1>1, <1>3, <1>5, <1>6, <1>7 DEF Runs, Trace

LEMMA DroppingRuns ==
    ASSUME NEW m, NEW p, NEW v, NEW w, NEW names, Runs(m, TRUE, p, v, w),
           names \intersect Slots = {}
    PROVE  Runs(m, FALSE, Dropping(p, names), v, w)
<1> DEFINE q == [k \in DOMAIN p |-> [p[k] EXCEPT !.drop = @ \union names]]
<1>1. ASSUME NEW k \in DOMAIN p
      PROVE  Alike(p[k], q[k]) /\ q[k].drop = names /\ q[k].free = {}
  <2>1. PICK f : Trace(m, TRUE, p, f)
    BY DEF Runs
  <2>2. k \in 1..Len(p)
    BY StageFacts DEF Runs
  <2>3. IsInstruction(p[k]) /\ p[k].drop = {} /\ p[k].free = {}
    BY <2>1, <2>2 DEF Trace, Goes
  <2>4. q[k] = [p[k] EXCEPT !.drop = p[k].drop \union names]
    OBVIOUS
  <2> QED
    BY <2>3, <2>4 DEF IsInstruction, Alike
<1>2. q = [k \in DOMAIN p |-> q[k]]
  OBVIOUS
<1> HIDE DEF q
<1>3. Runs(m, FALSE, q, v, w)
  BY <1>1, <1>2, RunsAnyway
<1> QED
  BY <1>3 DEF q, Dropping

LEMMA FreeingRuns ==
    ASSUME NEW m, NEW p, NEW v, NEW w, NEW names, Runs(m, TRUE, p, v, w),
           names \intersect Slots = {},
           m.pressure = "mgpcg"
    PROVE  Runs(m, FALSE, Freeing(p, names), v, w)
<1> DEFINE q == [k \in DOMAIN p |-> [p[k] EXCEPT !.free = @ \union names]]
<1>1. ASSUME NEW k \in DOMAIN p
      PROVE  Alike(p[k], q[k]) /\ q[k].drop = {} /\ q[k].free = names
  <2>1. PICK f : Trace(m, TRUE, p, f)
    BY DEF Runs
  <2>2. k \in 1..Len(p)
    BY StageFacts DEF Runs
  <2>3. IsInstruction(p[k]) /\ p[k].drop = {} /\ p[k].free = {}
    BY <2>1, <2>2 DEF Trace, Goes
  <2>4. q[k] = [p[k] EXCEPT !.free = p[k].free \union names]
    OBVIOUS
  <2> QED
    BY <2>3, <2>4 DEF IsInstruction, Alike
<1>2. q = [k \in DOMAIN p |-> q[k]]
  OBVIOUS
<1> HIDE DEF q
<1>3. Runs(m, FALSE, q, v, w)
  BY <1>1, <1>2, RunsAnyway
<1> QED
  BY <1>3 DEF q, Freeing

\* A stage that keeps nothing of its own is in order whatever a failure does.
LEMMA RunsPlainly ==
    ASSUME NEW m, NEW p, NEW v, NEW w, Runs(m, TRUE, p, v, w)
    PROVE  Runs(m, FALSE, p, v, w)
<1>1. ASSUME NEW i, NEW u, NEW x, Goes(m, TRUE, i, u, x)
      PROVE  Goes(m, FALSE, i, u, x)
  BY <1>1 DEF Goes, Tidy
<1> QED
  BY <1>1 DEF Runs, Trace

\* Several fields of one shape.
Acquires(n, names, shape) == [i \in 1..n |-> Acquire(names[i], shape)]

LEMMA AcquireEach ==
    ASSUME NEW m, NEW S, NEW W, NEW D, NEW o \in BOOLEAN, NEW f \in BOOLEAN, NEW n \in Nat,
           NEW names,
           NEW shape \in PoolShapes, NEW S_n, S_n = S \union {names[i] : i \in 1..n},
           \A i \in 1..n : names[i] \notin S /\ names[i] \notin Slots,
           \A i, j \in 1..n : names[i] = names[j] => i = j,
           W \subseteq S, D \subseteq S
    PROVE  Runs(m, TRUE, FlattenSeq(Acquires(n, names, shape)), At(S, W, D, o, f),
                At(S_n, W, D, o, f))
<1> DEFINE P == Acquires(n, names, shape)
           scope == [i \in 0..n |-> S \union {names[k] : k \in 1..i}]
           s == [i \in 0..n |-> At(scope[i], W, D, o, f)]
<1>1. ASSUME NEW i \in 1..n
      PROVE  Runs(m, TRUE, P[i], s[i - 1], s[i])
  <2>1. i - 1 \in 0..n /\ i \in 0..n
    OBVIOUS
  <2>2. /\ names[i] \notin scope[i - 1] /\ S \subseteq scope[i - 1]
        /\ scope[i] = scope[i - 1] \union {names[i]}
    <3>1. scope[i - 1] = S \union {names[k] : k \in 1..(i - 1)} /\ scope[i] = S \union {names[k] : k \in 1..i}
      BY <2>1
    <3>2. \A k \in 1..(i - 1) : k \in 1..n /\ k # i
      OBVIOUS
    <3>3. names[i] \notin scope[i - 1] /\ S \subseteq scope[i - 1]
      BY <3>1, <3>2
    <3>4. \A k \in 1..i : k \in 1..(i - 1) \/ k = i
      OBVIOUS
    <3>5. {names[k] : k \in 1..i} = {names[k] : k \in 1..(i - 1)} \union {names[i]}
      BY <3>4
    <3> QED
      BY <3>1, <3>3, <3>5
  <2>3. P[i] = Acquire(names[i], shape)
    BY DEF Acquires
  <2>4. \A k \in 0..n : s[k] = At(scope[k], W, D, o, f)
    <3> HIDE DEF scope
    <3> QED
      OBVIOUS
  <2> HIDE DEF scope, s, P
  <2>5. Runs(m, TRUE, Acquire(names[i], shape), At(scope[i - 1], W, D, o, f),
             At(scope[i - 1] \union {names[i]}, W, D, o, f))
    <3> DEFINE before == scope[i - 1]
    <3>1. names[i] \notin before /\ names[i] \notin Slots /\ W \subseteq before /\ D \subseteq before
      BY <2>2
    <3> HIDE DEF before
    <3>2. Runs(m, TRUE, Acquire(names[i], shape), At(before, W, D, o, f),
               At(before \union {names[i]}, W, D, o, f))
      BY <3>1, AcquireRuns
    <3> QED
      BY <3>2 DEF before
  <2>6. s[i - 1] = At(scope[i - 1], W, D, o, f) /\ s[i] = At(scope[i], W, D, o, f)
    BY <2>1, <2>4, Zenon
  <2> QED
    BY <2>2, <2>3, <2>5, <2>6
<1>2. P = [i \in 1..n |-> P[i]]
  BY DEF Acquires
<1>3. s[0] = At(S, W, D, o, f) /\ s[n] = At(S_n, W, D, o, f)
  <2>1. scope[0] = S /\ scope[n] = S_n
    OBVIOUS
  <2>2. s[0] = At(scope[0], W, D, o, f) /\ s[n] = At(scope[n], W, D, o, f)
    <3> HIDE DEF scope
    <3> QED
      OBVIOUS
  <2> HIDE DEF scope, s
  <2> QED
    BY <2>1, <2>2
<1> HIDE DEF s, P
<1>4. Runs(m, TRUE, FlattenSeq(P), s[0], s[n])
  BY <1>1, <1>2, RunsFlatten
<1> QED
  BY <1>3, <1>4 DEF P

-----------------------------------------------------------------------------
(* The names. *)

Fields(m) == StateNames(m) \union Given(m)

LevelNames ==
    {"rhs1", "rhs2", "e1", "e2", "tmp0", "tmp1", "mask1", "mask2", "norm0", "norm1", "phi1", "phi2"}

Scratch ==
    {"emitted", "rate", "fwd", "bwd", "dst", "scratch", "div", "x", "y", "z"}
      \union Omega \union LevelNames \union {"r", "zr", "d", "q", "product"}

LEMMA Sequences_ ==
    /\ Velocity = {"vx", "vy", "vz"} /\ Faces[1] = "vx" /\ Faces[2] = "vy" /\ Faces[3] = "vz"
    /\ Range(Target) = {"tx", "ty", "tz"} /\ Range(Moving) = {"cx", "cy", "cz"}
    /\ Range(SolidCount) = {"solids1", "solids2", "solids3"}
    /\ Range(Axes) = {"x", "y", "z"} /\ Range(Shapes) = {"cells", "half", "quarter"}
    /\ Range(PcgNames) = {"r", "zr", "d", "q", "product"}
    /\ Range(OutFaces) = {"out2x", "out2y", "out2z"}
<1>1. Velocity = {"vx", "vy", "vz"} /\ Faces[1] = "vx" /\ Faces[2] = "vy" /\ Faces[3] = "vz"
  BY DEF Velocity, Range, Faces
<1>2. Range(Target) = {"tx", "ty", "tz"} /\ Range(Moving) = {"cx", "cy", "cz"}
  BY DEF Range, Target, Moving
<1>3. Range(SolidCount) = {"solids1", "solids2", "solids3"}
  BY DEF Range, SolidCount
<1>4. Range(Axes) = {"x", "y", "z"} /\ Range(Shapes) = {"cells", "half", "quarter"}
  BY DEF Range, Axes, Shapes
<1>5. Range(PcgNames) = {"r", "zr", "d", "q", "product"}
  BY DEF Range, PcgNames
<1>6. Range(OutFaces) = {"out2x", "out2y", "out2z"}
  BY DEF Range, OutFaces
<1> QED
  BY <1>1, <1>2, <1>3, <1>4, <1>5, <1>6

LEMMA Levels ==
    HierarchyNames = LevelNames
<1>1. /\ Range(Rhs) = {"none", "rhs1", "rhs2"} /\ Range(E) = {"none", "e1", "e2"}
      /\ Range(Tmp) = {"tmp0", "tmp1", "none"} /\ Range(CoarseMask) = {"mask", "mask1", "mask2"}
      /\ Range(Norm) = {"norm0", "norm1", "none"} /\ Range(Phi) = {"none", "phi1", "phi2"}
  BY DEF Range, Rhs, E, Tmp, CoarseMask, Norm, Phi
<1> QED
  BY <1>1 DEF HierarchyNames, LevelNames

LEMMA Apart ==
    ASSUME NEW m
    PROVE  /\ Slots = {"M0", "OUT", "M1", "NEG", "RZ_A", "DQ", "RZ_B", "solids1", "solids2",
                       "solids3", "sum"}
           /\ PoolShapes = {"x", "y", "z", "cells", "half", "quarter"}
           /\ Fields(m) \intersect Slots = {} /\ Scratch \intersect Slots = {}
           /\ Fields(m) \intersect Scratch = {}
           /\ InputNames \intersect Slots = {} /\ OutputNames \intersect Slots = {}
           /\ InputNames \intersect StateNames(m) = {}
           /\ OutputNames \intersect Fields(m) = {}
<1>1. Slots = {"M0", "OUT", "M1", "NEG", "RZ_A", "DQ", "RZ_B", "solids1", "solids2", "solids3",
               "sum"}
  BY Sequences_ DEF Slots, MassSlots, PcgSlots
<1>2. PoolShapes = {"x", "y", "z", "cells", "half", "quarter"}
  BY Sequences_ DEF PoolShapes
<1>3. StateNames(m) \subseteq
        {"vx", "vy", "vz", "density", "temperature", "pressure", "fuel", "react", "burned"}
  BY Sequences_ DEF StateNames
<1>4. Given(m) \subseteq
        {"src_density", "src_temperature", "weight", "tx", "ty", "tz", "sdf", "mask", "cx",
         "cy", "cz", "src_fuel", "load"}
  BY Sequences_ DEF Given
<1>5. InputNames =
        {"src_density", "src_temperature", "weight", "sdf", "src_fuel", "load", "tx", "ty", "tz",
         "cx", "cy", "cz"}
  BY Sequences_ DEF InputNames
<1>6. OutputNames = {"out0", "out1", "out3", "out4", "out5", "out2x", "out2y", "out2z"}
  BY Sequences_ DEF OutputNames
<1>7. Fields(m) \intersect Slots = {} /\ Fields(m) \intersect Scratch = {}
  BY <1>1, <1>3, <1>4 DEF Fields, Scratch, Omega, LevelNames
<1>8. Scratch \intersect Slots = {} /\ InputNames \intersect Slots = {} /\ OutputNames \intersect Slots = {}
  BY <1>1, <1>5, <1>6 DEF Scratch, Omega, LevelNames
<1>9. InputNames \intersect StateNames(m) = {} /\ OutputNames \intersect Fields(m) = {}
  BY <1>3, <1>4, <1>5, <1>6 DEF Fields
<1> QED
  BY <1>1, <1>2, <1>7, <1>8, <1>9

\* The fields that are there in a mode.
LEMMA There ==
    ASSUME NEW m
    PROVE  /\ Velocity \subseteq Fields(m)
           /\ {"vx", "vy", "vz", "density", "temperature", "pressure", "src_density",
               "src_temperature"}
                 \subseteq Fields(m)
           /\ m.fire => {"fuel", "react", "src_fuel"} \subseteq Fields(m)
           /\ m.surface => {"burned", "load"} \subseteq Fields(m)
           /\ m.emission => {"weight", Target[1], Target[2], Target[3]} \subseteq Fields(m)
           /\ m.collider => {"sdf", "mask", Moving[1], Moving[2], Moving[3]} \subseteq Fields(m)
           /\ Mask(m) \subseteq Fields(m)
           /\ \A a \in 1..3 : Faces[a] \in Fields(m) /\ Obstacle(m, a) \subseteq Fields(m)
<1>1. /\ Target[1] = "tx" /\ Target[2] = "ty" /\ Target[3] = "tz"
      /\ Moving[1] = "cx" /\ Moving[2] = "cy" /\ Moving[3] = "cz"
  BY DEF Target, Moving
<1>2. /\ Velocity \subseteq Fields(m)
      /\ {"vx", "vy", "vz", "density", "temperature", "pressure", "src_density", "src_temperature"}
            \subseteq Fields(m)
      /\ m.fire => {"fuel", "react", "src_fuel"} \subseteq Fields(m)
      /\ m.surface => {"burned", "load"} \subseteq Fields(m)
      /\ m.emission => {"weight", "tx", "ty", "tz"} \subseteq Fields(m)
      /\ m.collider => {"sdf", "mask", "cx", "cy", "cz"} \subseteq Fields(m)
  BY Sequences_ DEF Fields, StateNames, Given
<1>3. Mask(m) \subseteq Fields(m)
  BY <1>2 DEF Mask
<1>4. ASSUME NEW a \in 1..3
      PROVE  Faces[a] \in Fields(m) /\ Obstacle(m, a) \subseteq Fields(m)
  <2>1. a = 1 \/ a = 2 \/ a = 3
    OBVIOUS
  <2> QED
    BY <1>1, <1>2, <2>1, Sequences_ DEF Obstacle
<1> QED
  BY <1>1, <1>2, <1>3, <1>4

-----------------------------------------------------------------------------
\* Every field is written, and none is finished.
Full(m, f) == At(Fields(m), Fields(m), {}, TRUE, f)

LEMMA StayRuns ==
    ASSUME NEW m, NEW S, NEW W, NEW D, NEW f \in BOOLEAN, NEW kernel, NEW R, NEW T,
           kernel # "none", R \subseteq W, T \subseteq W, W \subseteq S, D \intersect T = {}
    PROVE  Runs(m, TRUE, Dispatch(kernel, R, T), At(S, W, D, TRUE, f), At(S, W, D, TRUE, f))
<1> DEFINE d == (D \ T) \union Finished(m, T, kernel)
           v == At(S, W, D, TRUE, f)
           w == At(S, W \union T, d, TRUE, f)
<1>1. Runs(m, TRUE, Dispatch(kernel, R, T), v, w)
  BY DispatchRuns
<1>2. Covers(w, v)
  BY DEF At, View, Covers, Forgets, SameFlags
<1> HIDE DEF v, w
<1> QED
  BY <1>1, <1>2, RunsToLess DEF v

\* A dispatch that writes what was not written before.
LEMMA WriteRuns ==
    ASSUME NEW m, NEW S, NEW W, NEW D, NEW f \in BOOLEAN, NEW kernel, NEW R, NEW T,
           kernel # "none", R \subseteq W, T \subseteq S, D \intersect T = {}
    PROVE  Runs(m, TRUE, Dispatch(kernel, R, T), At(S, W, D, TRUE, f),
                At(S, W \union T, D, TRUE, f))
<1> DEFINE d == (D \ T) \union Finished(m, T, kernel)
           v == At(S, W, D, TRUE, f)
           w == At(S, W \union T, d, TRUE, f)
           x == At(S, W \union T, D, TRUE, f)
<1>1. Runs(m, TRUE, Dispatch(kernel, R, T), v, w)
  BY DispatchRuns
<1>2. Covers(w, x)
  BY DEF At, View, Covers, Forgets, SameFlags
<1> HIDE DEF v, w, x
<1> QED
  BY <1>1, <1>2, RunsToLess DEF v, x

LEMMA FullStays ==
    ASSUME NEW m, NEW f \in BOOLEAN, NEW kernel, NEW R, NEW T,
           kernel # "none", R \subseteq Fields(m), T \subseteq Fields(m)
    PROVE  Runs(m, TRUE, Dispatch(kernel, R, T), Full(m, f), Full(m, f))
  BY StayRuns DEF Full

LEMMA BlendRuns ==
    ASSUME NEW m, m.emission
    PROVE  Runs(m, TRUE, BlendVelocity(m), Full(m, FALSE), Full(m, FALSE))
<1> DEFINE P == [axis \in 1..3 |->
        Dispatch("blend_velocity",
                 {Faces[axis], "weight", Target[axis]} \union Mask(m), {Faces[axis]})]
<1>1. ASSUME NEW a \in 1..3
      PROVE  Runs(m, TRUE, P[a], Full(m, FALSE), Full(m, FALSE))
  <2>1. {Faces[a], "weight", Target[a]} \union Mask(m) \subseteq Fields(m) /\ {Faces[a]} \subseteq Fields(m)
    BY There
  <2> QED
    BY <2>1, FullStays
<1>2. P = [a \in 1..3 |-> P[a]]
  OBVIOUS
<1> HIDE DEF P
<1>3. Runs(m, TRUE, FlattenSeq(P), Full(m, FALSE), Full(m, FALSE))
  BY <1>1, <1>2, RunsRepeated
<1> QED
  BY <1>3 DEF P, BlendVelocity

LEMMA WindRuns ==
    ASSUME NEW m
    PROVE  Runs(m, TRUE, Wind(m), Full(m, FALSE), Full(m, FALSE))
<1> DEFINE P == [axis \in 1..3 |-> Dispatch("wind", {Faces[axis]} \union Mask(m), {Faces[axis]})]
<1>1. ASSUME NEW a \in 1..3
      PROVE  Runs(m, TRUE, P[a], Full(m, FALSE), Full(m, FALSE))
  <2>1. {Faces[a]} \union Mask(m) \subseteq Fields(m) /\ {Faces[a]} \subseteq Fields(m)
    BY There
  <2> QED
    BY <2>1, FullStays
<1>2. P = [a \in 1..3 |-> P[a]]
  OBVIOUS
<1> HIDE DEF P
<1>3. Runs(m, TRUE, FlattenSeq(P), Full(m, FALSE), Full(m, FALSE))
  BY <1>1, <1>2, RunsRepeated
<1> QED
  BY <1>3 DEF P, Wind

LEMMA ConfineRuns ==
    ASSUME NEW m
    PROVE  Runs(m, TRUE, ConfineVorticity(m), Full(m, FALSE), Full(m, FALSE))
<1> DEFINE names == <<"omega0", "omega1", "omega2", "omega3">>
           F == Fields(m)
           A == [i \in 1..4 |-> Acquire(names[i], "cells")]
           all == At(F \union Omega, F, {}, TRUE, FALSE)
           wet == At(F \union Omega, F \union Omega, {}, TRUE, FALSE)
<1>0. F \intersect Omega = {} /\ Omega \intersect Slots = {} /\ "cells" \in PoolShapes
  BY Apart DEF Scratch
<1>4. Runs(m, TRUE, FlattenSeq(A), Full(m, FALSE), all)
  <2>1. \A i \in 1..4 : i = 1 \/ i = 2 \/ i = 3 \/ i = 4
    OBVIOUS
  <2>2. Omega = {names[i] : i \in 1..4}
    BY <2>1 DEF Omega
  <2>3. \A i, j \in 1..4 : names[i] = names[j] => i = j
    BY <2>1
  <2>4. \A i \in 1..4 : names[i] \notin F /\ names[i] \notin Slots
    BY <1>0, <2>2
  <2> DEFINE G == F \union Omega
  <2>5. G = F \union {names[i] : i \in 1..4}
    BY <2>2
  <2> DEFINE n == 4
  <2>7. n \in Nat /\ A = Acquires(n, names, "cells")
    BY DEF Acquires
  <2>8. /\ G = F \union {names[i] : i \in 1..n}
        /\ \A i \in 1..n : names[i] \notin F /\ names[i] \notin Slots
        /\ \A i, j \in 1..n : names[i] = names[j] => i = j
    BY <2>3, <2>4, <2>5
  <2>9. "cells" \in PoolShapes /\ F \subseteq F /\ {} \subseteq F
    BY <1>0
  <2> HIDE DEF F, names, G, n, A
  <2>6. Runs(m, TRUE, FlattenSeq(A), At(F, F, {}, TRUE, FALSE), At(G, F, {}, TRUE, FALSE))
    BY <2>7, <2>8, <2>9, AcquireEach
  <2> QED
    BY <2>6 DEF F, G, Full
<1>5. Runs(m, TRUE, Curl(m), all, wet)
  <2>1. Velocity \union Mask(m) \subseteq F
    BY There
  <2> HIDE DEF F
  <2> QED
    BY <2>1, WriteRuns DEF Curl
<1>6. Runs(m, TRUE, Confine(m), wet, wet)
  <2> DEFINE P == [axis \in 1..3 |->
                     Dispatch("confine",
                       {Faces[axis]} \union Omega \union Mask(m)
                         \union (IF m.fire THEN {"fuel"} ELSE {}), {Faces[axis]})]
  <2>1. ASSUME NEW a \in 1..3
        PROVE  Runs(m, TRUE, P[a], wet, wet)
    <3> DEFINE R == {Faces[a]} \union Omega \union Mask(m) \union (IF m.fire THEN {"fuel"} ELSE {})
    <3>1. R \subseteq F \union Omega /\ {Faces[a]} \subseteq F \union Omega
      BY There
    <3>2. P[a] = Dispatch("confine", R, {Faces[a]})
      OBVIOUS
    <3> DEFINE G == F \union Omega
               T == {Faces[a]}
    <3>3. R \subseteq G /\ T \subseteq G /\ wet = At(G, G, {}, TRUE,
                                                     FALSE) /\ P[a] = Dispatch("confine", R, T)
      BY <3>1, <3>2
    <3> HIDE DEF R, P, F, G, T, wet
    <3> QED
      BY <3>3, StayRuns
  <2>2. P = [a \in 1..3 |-> P[a]]
    OBVIOUS
  <2> HIDE DEF P, wet
  <2>3. Runs(m, TRUE, FlattenSeq(P), wet, wet)
    BY <2>1, <2>2, RunsRepeated
  <2> QED
    BY <2>3 DEF P, Confine
<1>7. Runs(m, TRUE, Retire(Omega), wet, Full(m, FALSE))
  <2>1. (F \union Omega) \ Omega = F /\ {} \ Omega = {}
    BY <1>0
  <2>2. Runs(m, TRUE, Retire(Omega), wet,
             At((F \union Omega) \ Omega, (F \union Omega) \ Omega, {} \ Omega, TRUE, FALSE))
    BY <1>0, RetireRuns
  <2> QED
    BY <2>1, <2>2 DEF Full
<1> HIDE DEF A, all, wet
<1>8. Runs(m, TRUE, FlattenSeq(A) \o Curl(m) \o Confine(m) \o Retire(Omega), Full(m, FALSE),
           Full(m, FALSE))
  BY <1>4, <1>5, <1>6, <1>7, RunsThen
<1> QED
  BY <1>8 DEF A, ConfineVorticity

AdvectionKernel(m) == IF m.maccormack THEN "maccormack" ELSE "semi_lagrangian"

LEMMA MacCormackRuns ==
    ASSUME NEW m, NEW S, NEW W, NEW D, NEW f \in BOOLEAN, NEW src, NEW shape \in PoolShapes,
           NEW dst,
           W \subseteq S, D \subseteq W, dst \in S, dst \notin D,
           Velocity \subseteq W, src \in W, Views(m, src) \subseteq W,
           "fwd" \notin S, "bwd" \notin S
    PROVE  Runs(m, TRUE, MacCormack(m, src, shape, dst), At(S, W, D, TRUE, f),
                At(S, W \union {dst}, D \union Finished(m, {dst}, "maccormack"), TRUE, f))
<1> DEFINE S1 == S \union {"fwd"}
           S2 == S1 \union {"bwd"}
           W1 == W \union {"fwd"}
           W2 == W1 \union {"bwd"}
           W3 == W2 \union {dst}
           d == Finished(m, {dst}, "maccormack")
           scratch == {"fwd", "bwd"}
<1>0. "fwd" \notin Slots /\ "bwd" \notin Slots /\ scratch \intersect Slots = {}
  BY Apart DEF Scratch
<1>1. Runs(m, TRUE, Acquire("fwd", shape), At(S, W, D, TRUE, f), At(S1, W, D, TRUE, f))
  BY <1>0, AcquireRuns
<1>2. Runs(m, TRUE, Acquire("bwd", shape), At(S1, W, D, TRUE, f), At(S2, W, D, TRUE, f))
  <2>1. "bwd" \notin S1 /\ W \subseteq S1 /\ D \subseteq S1
    OBVIOUS
  <2> HIDE DEF S1
  <2> QED
    BY <1>0, <2>1, AcquireRuns
<1>3. Runs(m, TRUE, AdvectKernel(m, "forward", src, src, "fwd"), At(S2, W, D, TRUE, f),
           At(S2, W1, D, TRUE, f))
  <2> DEFINE R == Velocity \union {src} \union Views(m, src)
             T == {"fwd"}
  <2>1. R \subseteq W /\ T \subseteq S2 /\ D \intersect T = {} /\ W1 = W \union T
    OBVIOUS
  <2> HIDE DEF R, T, S2, W1
  <2>2. Runs(m, TRUE, Dispatch("forward", R, T), At(S2, W, D, TRUE, f), At(S2, W1, D, TRUE, f))
    BY <2>1, WriteRuns
  <2> QED
    BY <2>2 DEF AdvectKernel, R, T
<1>4. Runs(m, TRUE, AdvectKernel(m, "backward", src, "fwd", "bwd"), At(S2, W1, D, TRUE, f),
           At(S2, W2, D, TRUE, f))
  <2> DEFINE R == Velocity \union {"fwd"} \union Views(m, src)
             T == {"bwd"}
  <2>1. R \subseteq W1 /\ T \subseteq S2 /\ D \intersect T = {} /\ W2 = W1 \union T
    OBVIOUS
  <2> HIDE DEF R, T, S2, W1, W2
  <2>2. Runs(m, TRUE, Dispatch("backward", R, T), At(S2, W1, D, TRUE, f), At(S2, W2, D, TRUE, f))
    BY <2>1, WriteRuns
  <2> QED
    BY <2>2 DEF AdvectKernel, R, T
<1>5. Runs(m, TRUE, MacCormackKernel(m, src, dst), At(S2, W2, D, TRUE, f),
           At(S2, W3, D \union d, TRUE, f))
  <2> DEFINE R == Velocity \union {src, "fwd", "bwd"} \union Views(m, src)
             T == {dst}
  <2>1. R \subseteq W2 /\ T \subseteq S2 /\ W3 = W2 \union T /\ (D \ T) \union Finished(m, T, "maccormack") = D \union d
    OBVIOUS
  <2> HIDE DEF R, T, S2, W2, W3, d
  <2>2. Runs(m, TRUE, Dispatch("maccormack", R, T), At(S2, W2, D, TRUE, f),
             At(S2, W2 \union T, (D \ T) \union Finished(m, T, "maccormack"), TRUE, f))
    BY <2>1, DispatchRuns
  <2>3. Runs(m, TRUE, Dispatch("maccormack", R, T), At(S2, W2, D, TRUE, f),
             At(S2, W3, D \union d, TRUE, f))
    BY <2>1, <2>2
  <2> QED
    BY <2>3 DEF MacCormackKernel, R, T
<1>6. Runs(m, TRUE, Retire(scratch), At(S2, W3, D \union d, TRUE, f),
           At(S, W \union {dst}, D \union d, TRUE, f))
  <2>1. S2 \ scratch = S /\ W3 \ scratch = W \union {dst} /\ (D \union d) \ scratch = D \union d
    BY DEF Finished
  <2> HIDE DEF S2, W3, d, scratch
  <2>2. Runs(m, TRUE, Retire(scratch), At(S2, W3, D \union d, TRUE, f),
             At(S2 \ scratch, W3 \ scratch, (D \union d) \ scratch, TRUE, f))
    BY <1>0, RetireRuns
  <2> QED
    BY <2>1, <2>2
<1> HIDE DEF S1, S2, W1, W2, W3, d
<1>7. Runs(m, TRUE, MacCormack(m, src, shape, dst), At(S, W, D, TRUE, f),
           At(S, W \union {dst}, D \union d, TRUE, f))
  BY <1>1, <1>2, <1>3, <1>4, <1>5, <1>6, RunsThen DEF MacCormack
<1> QED
  BY <1>7 DEF d

LEMMA AdvectGridRuns ==
    ASSUME NEW m, NEW S, NEW W, NEW D, NEW f \in BOOLEAN, NEW src, NEW shape \in PoolShapes,
           NEW dst,
           W \subseteq S, D \subseteq W, dst \notin S, dst \notin Slots, dst \notin {"fwd", "bwd"},
           Velocity \subseteq W, src \in W, Views(m, src) \subseteq W,
           "fwd" \notin S, "bwd" \notin S
    PROVE  Runs(m, TRUE, AdvectGrid(m, src, shape, dst), At(S, W, D, TRUE, f),
                At(S \union {dst}, W \union {dst}, D \union Finished(m, {dst}, AdvectionKernel(m)),
                   TRUE, f))
<1> DEFINE S1 == S \union {dst}
<1>0. W \subseteq S1 /\ dst \in S1 /\ dst \notin D /\ "fwd" \notin S1 /\ "bwd" \notin S1
  OBVIOUS
<1>1. Runs(m, TRUE, Acquire(dst, shape), At(S, W, D, TRUE, f), At(S1, W, D, TRUE, f))
  BY AcquireRuns
<1> HIDE DEF S1
<1>2. CASE m.maccormack
  <2>1. Runs(m, TRUE, MacCormack(m, src, shape, dst), At(S1, W, D, TRUE, f),
             At(S1, W \union {dst}, D \union Finished(m, {dst}, "maccormack"), TRUE, f))
    BY <1>0, MacCormackRuns
  <2>2. AdvectGrid(m, src, shape, dst) = Acquire(dst, shape) \o MacCormack(m, src, shape, dst)
        /\ AdvectionKernel(m) = "maccormack"
    BY <1>2 DEF AdvectGrid, AdvectionKernel
  <2>3. Runs(m, TRUE, Acquire(dst, shape) \o MacCormack(m, src, shape, dst), At(S, W, D, TRUE, f),
             At(S1, W \union {dst}, D \union Finished(m, {dst}, "maccormack"), TRUE, f))
    BY <1>1, <2>1, RunsThen
  <2> QED
    BY <2>2, <2>3 DEF S1
<1>3. CASE ~m.maccormack
  <2> DEFINE R == Velocity \union {src} \union Views(m, src)
             T == {dst}
             p == AdvectKernel(m, "semi_lagrangian", src, src, dst)
             k == "semi_lagrangian"
  <2>1. R \subseteq W /\ T \subseteq S1 /\ (D \ T) \union Finished(m, T, k) = D \union Finished(m, T, k)
    BY <1>0
  <2>2. p = Dispatch(k, R, T)
    BY DEF AdvectKernel
  <2>3. AdvectGrid(m, src, shape, dst) = Acquire(dst, shape) \o p /\ AdvectionKernel(m) = k
    BY <1>3 DEF AdvectGrid, AdvectionKernel
  <2>4. k # "none"
    OBVIOUS
  <2> HIDE DEF R, T, p, k
  <2>5. Runs(m, TRUE, p, At(S1, W, D, TRUE, f), At(S1, W \union T,
                                                   (D \ T) \union Finished(m, T, k), TRUE, f))
    BY <2>1, <2>2, <2>4, DispatchRuns
  <2>6. Runs(m, TRUE, p, At(S1, W, D, TRUE, f), At(S1, W \union T, D \union Finished(m, T, k),
                                                   TRUE, f))
    BY <2>1, <2>5
  <2>7. Runs(m, TRUE, Acquire(dst, shape) \o p, At(S, W, D, TRUE, f),
             At(S1, W \union T, D \union Finished(m, T, k), TRUE, f))
    BY <1>1, <2>6, RunsThen
  <2> QED
    BY <2>3, <2>7 DEF T, S1
<1> QED
  BY <1>2, <1>3

LEMMA ViewsThere ==
    ASSUME NEW m, NEW src
    PROVE  Views(m, src) \subseteq Fields(m)
<1>1. CASE AxisOf(src) = 0
  BY <1>1, There DEF Views
<1>2. CASE AxisOf(src) # 0
  <2>1. src \in Velocity /\ \E a \in 1..3 : Faces[a] = src
    BY <1>2, Sequences_ DEF AxisOf
  <2>2. AxisOf(src) \in 1..3
    BY <2>1 DEF AxisOf
  <2> QED
    BY <1>2, <2>2, There DEF Views
<1> QED
  BY <1>1, <1>2

\* What is known may be forgotten: what is finished, and the slots.
LEMMA Forgetting ==
    ASSUME NEW S, NEW T, NEW W, NEW V, NEW D, NEW C, NEW o, NEW f,
           Forgets(S, T), V \subseteq W, C \subseteq D
    PROVE  Covers(At(S, W, D, o, f), At(T, V, C, o, f))
  BY DEF At, View, Covers, SameFlags

LEMMA AdvectVelocityRuns ==
    ASSUME NEW m
    PROVE  Runs(m, TRUE, AdvectVelocity(m), Full(m, FALSE), Full(m, FALSE))
<1> DEFINE F == Fields(m)
           Fx == F \union {"x"}
           Fy == Fx \union {"y"}
           Fz == Fy \union {"z"}
           Hyz == F \union {"y"} \union {"z"}
           Hz == F \union {"z"}
           Some(G) == At(G, G, {}, TRUE, FALSE)
<1>0. /\ F \intersect Scratch = {} /\ F \intersect Slots = {} /\ Scratch \intersect Slots = {}
      /\ {"x", "y", "z", "fwd", "bwd"} \subseteq Scratch /\ {"x", "y", "z"} \subseteq PoolShapes
      /\ {"vx", "vy", "vz"} \subseteq F /\ Velocity \subseteq F
  BY Apart, There DEF Scratch
<1>1. Axes[1] = "x" /\ Axes[2] = "y" /\ Axes[3] = "z"
      /\ Faces[1] = "vx" /\ Faces[2] = "vy" /\ Faces[3] = "vz"
  BY DEF Axes, Faces
<1>2. ASSUME NEW G, F \subseteq G, G \subseteq F \union {"x", "y",
                                                         "z"}, NEW src \in F, NEW axis \in {"x", "y", "z"},
             axis \notin G
      PROVE  Runs(m, TRUE, AdvectGrid(m, src, axis, axis), Some(G), Some(G \union {axis}))
  <2>1. /\ axis \notin Slots /\ axis \notin {"fwd", "bwd"} /\ Velocity \subseteq G /\ src \in G
        /\ Views(m, src) \subseteq G /\ "fwd" \notin G /\ "bwd" \notin G /\ axis \in PoolShapes
    BY <1>0, <1>2, ViewsThere
  <2> DEFINE H == G \union {axis}
             d == {} \union Finished(m, {axis}, AdvectionKernel(m))
  <2> HIDE DEF F
  <2>2. Runs(m, TRUE, AdvectGrid(m, src, axis, axis), Some(G), At(H, H, d, TRUE, FALSE))
    BY <1>2, <2>1, AdvectGridRuns
  <2> HIDE DEF H, d
  <2>3. Covers(At(H, H, d, TRUE, FALSE), Some(H))
    <3>1. Forgets(H, H)
      BY DEF Forgets
    <3> QED
      BY <3>1, Forgetting
  <2>4. Runs(m, TRUE, AdvectGrid(m, src, axis, axis), Some(G), Some(H))
    BY <2>2, <2>3, RunsToLess
  <2> QED
    BY <2>4 DEF H
<1>3. ASSUME NEW G, F \subseteq G, G \subseteq F \union {"x", "y",
                                                         "z"}, NEW src \in F, NEW axis \in {"x", "y", "z"},
             axis \in G
      PROVE  Runs(m, TRUE, Replace(src, axis), Some(G), Some(G \ {axis}))
  <2>1. src \in G \ Slots /\ axis \in G \ Slots /\ axis # src
    BY <1>0, <1>3
  <2> DEFINE H == G \ {axis}
             W == (G \union {src}) \ {axis}
             d == ({} \ {src, axis}) \union
                      IF axis \in {} /\ LastKernel(m, axis) = LastKernel(m, src) THEN {src} ELSE {}
  <2>2. W = H
    BY <1>3
  <2> HIDE DEF F
  <2>3. Runs(m, TRUE, Replace(src, axis), Some(G), At(H, W, d, TRUE, FALSE))
    BY <1>3, <2>1, ReplaceRuns
  <2> HIDE DEF H, d, W
  <2>4. Covers(At(H, W, d, TRUE, FALSE), Some(H))
    <3>1. Forgets(H, H)
      BY DEF Forgets
    <3> QED
      BY <2>2, <3>1, Forgetting
  <2>5. Runs(m, TRUE, Replace(src, axis), Some(G), Some(H))
    BY <2>3, <2>4, RunsToLess
  <2> QED
    BY <2>5 DEF H
<1>4. /\ "x" \notin F /\ "y" \notin Fx /\ "z" \notin Fy
      /\ "x" \in Fz /\ "y" \in Hyz /\ "z" \in Hz
      /\ Fz \ {"x"} = Hyz /\ Hyz \ {"y"} = Hz /\ Hz \ {"z"} = F
      /\ \A G \in {F, Fx, Fy, Fz, Hyz, Hz} : F \subseteq G /\ G \subseteq F \union {"x", "y", "z"}
  BY <1>0
<1>5. \A v \in {"vx", "vy", "vz"} : v \in F
  BY <1>0
<1> DEFINE P == [a \in 1..3 |-> AdvectGrid(m, Faces[a], Axes[a], Axes[a])]
           Q == [a \in 1..3 |-> Replace(Faces[a], Axes[a])]
<1>6. /\ P = [a \in 1..3 |-> P[a]]
      /\ P[1] = AdvectGrid(m, "vx", "x", "x") /\ P[2] = AdvectGrid(m, "vy", "y", "y")
      /\ P[3] = AdvectGrid(m, "vz", "z", "z")
  BY <1>1
<1>7. /\ Q = [a \in 1..3 |-> Q[a]]
      /\ Q[1] = Replace("vx", "x") /\ Q[2] = Replace("vy", "y") /\ Q[3] = Replace("vz", "z")
  BY <1>1
<1> HIDE DEF P, Q, Some, F
<1>8. Runs(m, TRUE, FlattenSeq(P), Some(F), Some(Fz))
  <2>1. Runs(m, TRUE, P[1], Some(F), Some(Fx))
    <3>1. F \subseteq F /\ F \subseteq F \union {"x", "y", "z"} /\ "x" \notin F /\ "vx" \in F
      BY <1>4, <1>5
    <3>2. Fx = F \union {"x"} /\ P[1] = AdvectGrid(m, "vx", "x", "x")
      BY <1>6
    <3> HIDE DEF Fx, Fy, Fz
    <3>3. Runs(m, TRUE, AdvectGrid(m, "vx", "x", "x"), Some(F), Some(F \union {"x"}))
      BY <1>2, <3>1
    <3> QED
      BY <3>2, <3>3
  <2>2. Runs(m, TRUE, P[2], Some(Fx), Some(Fy))
    <3>1. F \subseteq Fx /\ Fx \subseteq F \union {"x", "y", "z"} /\ "y" \notin Fx /\ "vy" \in F
      BY <1>4, <1>5
    <3>2. Fy = Fx \union {"y"} /\ P[2] = AdvectGrid(m, "vy", "y", "y")
      BY <1>6
    <3> HIDE DEF Fx, Fy, Fz
    <3>3. Runs(m, TRUE, AdvectGrid(m, "vy", "y", "y"), Some(Fx), Some(Fx \union {"y"}))
      BY <1>2, <3>1
    <3> QED
      BY <3>2, <3>3
  <2>3. Runs(m, TRUE, P[3], Some(Fy), Some(Fz))
    <3>1. F \subseteq Fy /\ Fy \subseteq F \union {"x", "y", "z"} /\ "z" \notin Fy /\ "vz" \in F
      BY <1>4, <1>5
    <3>2. Fz = Fy \union {"z"} /\ P[3] = AdvectGrid(m, "vz", "z", "z")
      BY <1>6
    <3> HIDE DEF Fx, Fy, Fz
    <3>3. Runs(m, TRUE, AdvectGrid(m, "vz", "z", "z"), Some(Fy), Some(Fy \union {"z"}))
      BY <1>2, <3>1
    <3> QED
      BY <3>2, <3>3
  <2> HIDE DEF Fx, Fy, Fz
  <2> QED
    BY <1>6, <2>1, <2>2, <2>3, RunsAxes
<1>9. Runs(m, TRUE, FlattenSeq(Q), Some(Fz), Some(F))
  <2> HIDE DEF Fx, Fy, Fz, Hyz, Hz
  <2>1. Runs(m, TRUE, Q[1], Some(Fz), Some(Hyz))
    <3>1. Runs(m, TRUE, Replace("vx", "x"), Some(Fz), Some(Fz \ {"x"}))
      BY <1>3, <1>4, <1>5
    <3> QED
      BY <1>4, <1>7, <3>1
  <2>2. Runs(m, TRUE, Q[2], Some(Hyz), Some(Hz))
    <3>1. Runs(m, TRUE, Replace("vy", "y"), Some(Hyz), Some(Hyz \ {"y"}))
      BY <1>3, <1>4, <1>5
    <3> QED
      BY <1>4, <1>7, <3>1
  <2>3. Runs(m, TRUE, Q[3], Some(Hz), Some(F))
    <3>1. Runs(m, TRUE, Replace("vz", "z"), Some(Hz), Some(Hz \ {"z"}))
      BY <1>3, <1>4, <1>5
    <3> QED
      BY <1>4, <1>7, <3>1
  <2> QED
    BY <1>7, <2>1, <2>2, <2>3, RunsAxes
<1>10. Runs(m, TRUE, FlattenSeq(P) \o FlattenSeq(Q), Some(F), Some(F))
  BY <1>8, <1>9, RunsThen
<1> QED
  BY <1>10 DEF P, Q, AdvectVelocity, Full, Some, F

\* An acquired field, while no submission may be using what its failure frees.
LEMMA FreeingAcquireRuns ==
    ASSUME NEW m, NEW S, NEW W, NEW D, NEW o \in BOOLEAN, NEW n, NEW shape \in PoolShapes,
           NEW names,
           n \notin S, n \notin Slots, W \subseteq S, D \subseteq S, names \intersect Slots = {}
    PROVE  Runs(m, FALSE, Freeing(Acquire(n, shape), names), At(S, W, D, o, FALSE),
                At(S \union {n}, W, D, o, FALSE))
<1> DEFINE i == Instruction("acquire", {n}, shape, {}, {})
           j == [i EXCEPT !.free = @ \union names]
           p == Acquire(n, shape)
           q == Freeing(p, names)
<1>1. i.op = "acquire" /\ j.op = "acquire" /\ j.names = {n} /\ j.kernel = shape /\ j.drop = {} /\ j.free = names
      /\ IsInstruction(j)
  BY DEF Instruction, IsInstruction
<1>2. q = <<j>>
  <2>1. p = <<i>> /\ DOMAIN p = {1} /\ p[1] = i
    BY DEF Acquire
  <2> HIDE DEF p, i
  <2>2. q = [k \in {1} |-> [p[k] EXCEPT !.free = @ \union names]]
    BY <2>1 DEF Freeing
  <2>3. q = [k \in {1} |-> j] /\ <<j>> = [k \in 1..1 |-> j]
    BY <2>1, <2>2
  <2> QED
    BY <2>3
<1> HIDE DEF i, j, p, q
<1> DEFINE v == At(S, W, D, o, FALSE)
           w == At(S \union {n}, W, D, o, FALSE)
<1>3. /\ v.scope = S /\ v.written = W /\ v.done = D /\ v.kept = FALSE /\ v.flown = FALSE
      /\ w.scope = S \union {n} /\ w.written = W /\ w.done = D
      /\ SameFlags(v, w)
  BY DEF At, View, SameFlags
<1> HIDE DEF v, w
<1>4. Gains(j, v, w)
  BY <1>1, <1>3 DEF Gains, Forgets
<1>5. Tidy(m, j, v)
  BY <1>1, <1>3 DEF Tidy
<1>6. Runs(m, FALSE, q, v, w)
  BY <1>1, <1>2, <1>4, <1>5, RunsOne DEF Goes
<1> QED
  BY <1>6 DEF q, p, v, w

LEMMA SurfaceRuns ==
    ASSUME NEW m, m.surface, ~Incomplete(m)
    PROVE  Runs(m, FALSE, SurfaceStage(m), Full(m, FALSE), Full(m, FALSE))
<1> DEFINE F == Fields(m)
           S1 == F \union {"emitted"}
           S2 == S1 \union {"rate"}
           Pt(S, W) == At(S, W, {}, TRUE, FALSE)
<1>0. /\ F \intersect Scratch = {} /\ F \intersect Slots = {} /\ Scratch \intersect Slots = {}
      /\ {"emitted", "rate"} \subseteq Scratch /\ "cells" \in PoolShapes
      /\ {"fuel", "react", "burned", "load", "temperature"} \subseteq F /\ Mask(m) \subseteq F
  BY Apart, There DEF Scratch, Incomplete
<1>1. /\ "emitted" \notin F /\ "emitted" \notin Slots /\ "rate" \notin S1 /\ "rate" \notin Slots
      /\ {"emitted"} \intersect Slots = {} /\ {"emitted", "rate"} \intersect Slots = {}
      /\ S2 \ {"emitted", "rate"} = F /\ {} \ {"emitted",
                                               "rate"} = {} /\ F \subseteq S1 /\ S1 \subseteq S2
  BY <1>0
<1>2. /\ {"load", "temperature", "burned"} \union Mask(m) \subseteq F
      /\ {"burned", "emitted"} \subseteq S2 /\ F \union {"burned", "emitted"} = S1
      /\ {"emitted"} \union Mask(m) \subseteq S1 /\ {"rate"} \subseteq S2
      /\ {"fuel", "react", "rate"} \subseteq S2 /\ {"fuel", "react"} \subseteq S2
  BY <1>0
<1> HIDE DEF F
<1>3. Runs(m, TRUE, Acquire("emitted", "cells"), Pt(F, F), Pt(S1, F))
  BY <1>0, <1>1, AcquireRuns
<1>4. Runs(m, FALSE, Freeing(Acquire("rate", "cells"), {"emitted"}), Pt(S1, F), Pt(S2, F))
  <2> HIDE DEF S1
  <2> QED
    BY <1>0, <1>1, FreeingAcquireRuns
<1> DEFINE R1 == {"load", "temperature", "burned"} \union Mask(m)
           T1 == {"burned", "emitted"}
           R2 == {"emitted"} \union Mask(m)
<1>5. Runs(m, TRUE, SurfaceBurn(m), Pt(S2, F), Pt(S2, S1))
  <2>1. R1 \subseteq F /\ T1 \subseteq S2 /\ F \union T1 = S1
    BY <1>2
  <2> HIDE DEF S1, S2, R1, T1
  <2>2. Runs(m, TRUE, Dispatch("surface_burn", R1, T1), Pt(S2, F), Pt(S2, S1))
    BY <2>1, WriteRuns
  <2> QED
    BY <2>2 DEF SurfaceBurn, R1, T1
<1>6. Runs(m, TRUE, SurfaceGather(m), Pt(S2, S1), Pt(S2, S2))
  <2> DEFINE T == {"rate"}
  <2>1. R2 \subseteq S1 /\ T \subseteq S2 /\ S1 \union T = S2
    BY <1>2
  <2> HIDE DEF S1, S2, R2, T
  <2>2. Runs(m, TRUE, Dispatch("surface_gather", R2, T), Pt(S2, S1), Pt(S2, S2))
    BY <2>1, WriteRuns
  <2> QED
    BY <2>2 DEF SurfaceGather, R2, T
<1>7. Runs(m, TRUE, EmitFuel("rate"), Pt(S2, S2), Pt(S2, S2))
  <2> DEFINE R == {"fuel", "react", "rate"}
             T == {"fuel", "react"}
  <2>1. R \subseteq S2 /\ T \subseteq S2
    BY <1>2
  <2> HIDE DEF S1, S2, R, T
  <2>2. Runs(m, TRUE, Dispatch("emit_fuel", R, T), Pt(S2, S2), Pt(S2, S2))
    BY <2>1, StayRuns
  <2> QED
    BY <2>2 DEF EmitFuel, R, T
<1>8. Runs(m, TRUE, Retire({"emitted", "rate"}), Pt(S2, S2), Pt(F, F))
  <2> DEFINE T == {"emitted", "rate"}
             none == {}
  <2>1. S2 \ T = F /\ none \ T = none /\ T \intersect Slots = {}
    BY <1>1
  <2> HIDE DEF S1, S2, T, none
  <2>2. Runs(m, TRUE, Retire(T), At(S2, S2, none, TRUE, FALSE),
             At(S2 \ T, S2 \ T, none \ T, TRUE, FALSE))
    BY <2>1, RetireRuns
  <2> QED
    BY <2>1, <2>2 DEF T, none
<1> HIDE DEF S1, S2, Pt
<1>9. /\ Runs(m, FALSE, Acquire("emitted", "cells"), Pt(F, F), Pt(S1, F))
      /\ Runs(m, FALSE, SurfaceBurn(m), Pt(S2, F), Pt(S2, S1))
      /\ Runs(m, FALSE, SurfaceGather(m), Pt(S2, S1), Pt(S2, S2))
      /\ Runs(m, FALSE, EmitFuel("rate"), Pt(S2, S2), Pt(S2, S2))
      /\ Runs(m, FALSE, Retire({"emitted", "rate"}), Pt(S2, S2), Pt(F, F))
  BY <1>3, <1>5, <1>6, <1>7, <1>8, RunsPlainly
<1>10. Runs(m, FALSE, SurfaceStage(m), Pt(F, F), Pt(F, F))
  BY <1>4, <1>9, RunsThen DEF SurfaceStage
<1> QED
  BY <1>10 DEF F, Pt, Full

LEMMA FireRuns ==
    ASSUME NEW m \in Modes, m.fire, ~Incomplete(m)
    PROVE  Runs(m, FALSE, FireStage(m), Full(m, FALSE), Full(m, FALSE))
<1>1. Runs(m, FALSE, EmitFuel("src_fuel"), Full(m, FALSE), Full(m, FALSE))
  <2>1. {"fuel", "react", "src_fuel"} \subseteq Fields(m) /\ {"fuel", "react"} \subseteq Fields(m)
    BY There
  <2> QED
    BY <2>1, FullStays, RunsPlainly DEF EmitFuel
<1>2. Runs(m, FALSE, When(m.surface, SurfaceStage(m)), Full(m, FALSE), Full(m, FALSE))
  <2>1. m.surface \in BOOLEAN
    BY SolverAssumption
  <2>2. Covers(Full(m, FALSE), Full(m, FALSE))
    BY CoversAll
  <2>3. m.surface => Runs(m, FALSE, SurfaceStage(m), Full(m, FALSE), Full(m, FALSE))
    BY SurfaceRuns
  <2> QED
    BY <2>1, <2>2, <2>3, RunsWhen
<1>3. Runs(m, FALSE, Burn, Full(m, FALSE), Full(m, FALSE))
  <2> DEFINE gas == {"fuel", "react", "density", "temperature"}
  <2>1. gas \subseteq Fields(m)
    BY There
  <2> HIDE DEF gas
  <2>2. Runs(m, TRUE, Dispatch("burn", gas, gas), Full(m, FALSE), Full(m, FALSE))
    BY <2>1, FullStays
  <2> QED
    BY <2>2, RunsPlainly DEF gas, Burn
<1> QED
  BY <1>1, <1>2, <1>3, RunsThen DEF FireStage

LEMMA PreProjectionRuns ==
    ASSUME NEW m \in Modes, ~Incomplete(m)
    PROVE  Runs(m, FALSE, PreProjection(m), Full(m, FALSE), Full(m, FALSE))
<1> DEFINE v == Full(m, FALSE)
<1>0. Covers(v, v)
  BY CoversAll
<1>1. Runs(m, FALSE, Emit("density", "src_density"), v, v)
  <2>1. {"density", "src_density"} \subseteq Fields(m) /\ {"density"} \subseteq Fields(m)
    BY There
  <2> QED
    BY <2>1, FullStays, RunsPlainly DEF Emit
<1>2. Runs(m, FALSE, Emit("temperature", "src_temperature"), v, v)
  <2>1. {"temperature", "src_temperature"} \subseteq Fields(m) /\ {"temperature"} \subseteq Fields(m)
    BY There
  <2> QED
    BY <2>1, FullStays, RunsPlainly DEF Emit
<1>3. Runs(m, FALSE, Buoyancy(m), v, v)
  <2> DEFINE R == {"vz", "density", "temperature"} \union Mask(m)
             T == {"vz"}
  <2>1. R \subseteq Fields(m) /\ T \subseteq Fields(m)
    BY There
  <2> HIDE DEF R, T
  <2>2. Runs(m, TRUE, Dispatch("buoyancy", R, T), v, v)
    BY <2>1, FullStays
  <2> QED
    BY <2>2, RunsPlainly DEF Buoyancy, R, T
<1> HIDE DEF v
<1>4. m.fire \in BOOLEAN /\ m.emission \in BOOLEAN /\ m.wind \in BOOLEAN /\ m.vorticity \in BOOLEAN
  BY SolverAssumption
<1>5. Runs(m, FALSE, When(m.fire, FireStage(m)), v, v)
  <2>1. m.fire => Runs(m, FALSE, FireStage(m), v, v)
    BY FireRuns DEF v
  <2> QED
    BY <1>0, <1>4, <2>1, RunsWhen
<1>6. Runs(m, FALSE, When(m.emission, BlendVelocity(m)), v, v)
  <2>1. m.emission => Runs(m, FALSE, BlendVelocity(m), v, v)
    BY BlendRuns, RunsPlainly DEF v
  <2> QED
    BY <1>0, <1>4, <2>1, RunsWhen
<1>7. Runs(m, FALSE, When(m.wind, Wind(m)), v, v)
  <2>1. m.wind => Runs(m, FALSE, Wind(m), v, v)
    BY WindRuns, RunsPlainly DEF v
  <2> QED
    BY <1>0, <1>4, <2>1, RunsWhen
<1>8. Runs(m, FALSE, When(m.vorticity, ConfineVorticity(m)), v, v)
  <2>1. m.vorticity => Runs(m, FALSE, ConfineVorticity(m), v, v)
    BY ConfineRuns, RunsPlainly DEF v
  <2> QED
    BY <1>0, <1>4, <2>1, RunsWhen
<1>9. Runs(m, FALSE, AdvectVelocity(m), v, v)
  BY AdvectVelocityRuns, RunsPlainly DEF v
<1>10. Runs(m, FALSE, PreProjection(m), v, v)
  BY <1>1, <1>2, <1>3, <1>5, <1>6, <1>7, <1>8, <1>9, RunsThen DEF PreProjection
<1> QED
  BY <1>10 DEF v

\* A scalar advected, and with conserve corrected: it is finished.
LEMMA AdvectScalarRuns ==
    ASSUME NEW m \in Modes, NEW src \in Scalars, src \in Fields(m), NEW D, D \subseteq Fields(m),
           NEW f \in BOOLEAN
    PROVE  Runs(m, TRUE, AdvectScalar(m, src), At(Fields(m), Fields(m), D, TRUE, f),
                At(Fields(m), Fields(m), D \union {src}, TRUE, f))
<1> DEFINE F == Fields(m)
           Z == "scratch"
           d == Finished(m, {"dst"}, AdvectionKernel(m))
           out == At(F, F, D \union {src}, TRUE, f)
<1>0. /\ F \intersect Scratch = {} /\ F \intersect Slots = {} /\ Scratch \intersect Slots = {}
      /\ {Z, "dst", "fwd", "bwd"} \subseteq Scratch /\ "cells" \in PoolShapes /\ MassSlots \subseteq Slots
      /\ Velocity \subseteq F /\ Mask(m) \subseteq F /\ Views(m, src) \subseteq F
      /\ {"M0", "OUT", "M1", "NEG"} = MassSlots /\ Z # "dst"
  BY Apart, There, ViewsThere DEF Scratch, MassSlots
<1>1. LastKernel(m, "dst") = ScalarKernel(m) /\ LastKernel(m, src) = ScalarKernel(m)
  BY Sequences_ DEF LastKernel, Scalars
\* The replacement, from any scope that is the fields, dst and slots.
<1>2. ASSUME NEW S, S \subseteq F \union {"dst"} \union Slots, F \union {"dst"} \subseteq S,
             NEW W, F \union {"dst"} \subseteq W, NEW C, D \union {"dst"} \subseteq C
      PROVE  Runs(m, TRUE, Replace(src, "dst"), At(S, W, C, TRUE, f), out)
  <2> DEFINE S2 == S \ {"dst"}
             W2 == (W \union {src}) \ {"dst"}
             C2 == (C \ {src, "dst"}) \union
                      IF "dst" \in C /\ LastKernel(m, "dst") = LastKernel(m, src) THEN {src} ELSE {}
  <2>1. src \in S \ Slots /\ "dst" \in S \ Slots /\ "dst" # src /\ "dst" \in W
    BY <1>0, <1>2
  <2>2. Runs(m, TRUE, Replace(src, "dst"), At(S, W, C, TRUE, f), At(S2, W2, C2, TRUE, f))
    BY <2>1, ReplaceRuns
  <2>3. Forgets(S2, F) /\ F \subseteq W2 /\ D \union {src} \subseteq C2
    BY <1>0, <1>1, <1>2 DEF Forgets
  <2> HIDE DEF S2, W2, C2, F
  <2>4. Covers(At(S2, W2, C2, TRUE, f), out)
    BY <2>3, Forgetting
  <2> HIDE DEF out
  <2> QED
    BY <2>2, <2>4, RunsToLess
<1>3. CASE ~m.conserve
  <2>1. d = {"dst"}
    BY <1>1, <1>3 DEF Finished, ScalarKernel, AdvectionKernel
  <2> DEFINE F1 == F \union {"dst"}
  <2>2. Runs(m, TRUE, AdvectGrid(m, src, "cells", "dst"), At(F, F, D, TRUE, f),
             At(F1, F1, D \union d, TRUE, f))
    <3>1. "dst" \notin F /\ "dst" \notin Slots /\ "fwd" \notin F /\ "bwd" \notin F /\ "dst" \notin {"fwd", "bwd"}
      BY <1>0
    <3> HIDE DEF F
    <3> QED
      BY <1>0, <3>1, AdvectGridRuns DEF F
  <2>3. Runs(m, TRUE, Replace(src, "dst"), At(F1, F1, D \union d, TRUE, f), out)
    <3>1. F1 \subseteq F \union {"dst"} \union Slots /\ F \union {"dst"} \subseteq F1 /\ D \union {"dst"} \subseteq D \union d
      BY <2>1
    <3> HIDE DEF F, F1, out, d
    <3> QED
      BY <1>2, <3>1
  <2>4. /\ AdvectScalar(m, src) = <<>> \o AdvectGrid(m, src, "cells",
                                                     "dst") \o <<>> \o Replace(src, "dst")
    BY <1>3 DEF AdvectScalar, When
  <2> HIDE DEF F, F1, out, d
  <2>5. /\ Runs(m, TRUE, <<>>, At(F, F, D, TRUE, f), At(F, F, D, TRUE, f))
        /\ Runs(m, TRUE, <<>>, At(F1, F1, D \union d, TRUE, f), At(F1, F1, D \union d, TRUE, f))
    BY RunsNothing, CoversAll
  <2>6. Runs(m, TRUE, AdvectScalar(m, src), At(F, F, D, TRUE, f), out)
    BY <2>2, <2>3, <2>4, <2>5, RunsThen
  <2> QED
    BY <2>6 DEF F, out
<1>4. CASE m.conserve
  <2> DEFINE S1 == F \union MassSlots
             S2 == S1 \union {Z}
             W1 == F \union {"M0"}
             W2 == W1 \union {Z}
             W3 == W2 \union {"OUT"}
             W4 == W3 \union {"NEG"}
             V4 == F \union {"M0", "OUT", "NEG"}
             S5 == S1 \union {"dst"}
             V5 == V4 \union {"dst"}
             V6 == V5 \union {"M1"}
  <2>1. /\ Z \notin S1 /\ Z \notin Slots /\ {Z} \intersect Slots = {}
        /\ F \subseteq S1 /\ D \subseteq F /\ S1 \subseteq S2 /\ F \intersect MassSlots = {} /\ D \intersect MassSlots = {}
        /\ {"M0"} \subseteq S2 /\ {"OUT"} \subseteq S2 /\ {"NEG"} \subseteq S2 /\ {Z} \subseteq S2
        /\ {src} \subseteq F /\ Velocity \union {src} \union Mask(m) \subseteq W1 /\ {Z} \subseteq W2 /\ {src} \subseteq W3
        /\ {Z} \subseteq W3
        /\ D \intersect {"M0"} = {} /\ D \intersect {"OUT"} = {} /\ D \intersect {"NEG"} = {} /\ D \intersect {Z} = {}
        /\ S2 \ {Z} = S1 /\ W4 \ {Z} = V4 /\ D \ {Z} = D
    BY <1>0
  <2>2. /\ V4 \subseteq S1 /\ D \subseteq V4 /\ "dst" \notin S1 /\ "dst" \notin Slots /\ "dst" \notin {"fwd", "bwd"}
        /\ Velocity \subseteq V4 /\ src \in V4 /\ Views(m, src) \subseteq V4
        /\ "fwd" \notin S1 /\ "bwd" \notin S1
        /\ {"dst"} \subseteq V5 /\ {"M1"} \subseteq S5 /\ {"dst"} \subseteq S5
        /\ {"dst"} \union MassSlots \subseteq V6
        /\ (D \union d) \intersect {"M1"} = {}
        /\ S5 \subseteq F \union {"dst"} \union Slots /\ F \union {"dst"} \subseteq S5
        /\ F \union {"dst"} \subseteq V6 \union {"dst"}
    <3>1. d \subseteq {"dst"}
      BY DEF Finished
    <3> QED
      BY <1>0, <3>1
  <2> DEFINE D7 == ((D \union d) \ {"dst"}) \union Finished(m, {"dst"}, "mass_scale")
  <2>3. D \union {"dst"} \subseteq D7
    <3>1. ScalarKernel(m) = "mass_scale"
      BY <1>4 DEF ScalarKernel
    <3> QED
      BY <1>0, <1>1, <3>1 DEF Finished
  <2> HIDE DEF F, out, d
  <2>4. Runs(m, TRUE, NewTarget(MassSlots), At(F, F, D, TRUE, f), At(S1, F, D, TRUE, f))
    BY <1>0, <2>1, TargetRuns
  <2>5. Runs(m, TRUE, Acquire(Z, "cells"), At(S1, F, D, TRUE, f), At(S2, F, D, TRUE, f))
    <3> HIDE DEF S1, Z
    <3> QED
      BY <1>0, <2>1, AcquireRuns
  <2>6. Runs(m, TRUE, MeasureBefore(m, src), At(S2, F, D, TRUE, f), At(S2, W4, D, TRUE, f))
    <3>1. Runs(m, TRUE, Reduce(src, "M0"), At(S2, F, D, TRUE, f), At(S2, W1, D, TRUE, f))
      <4> HIDE DEF S1, S2, Z
      <4> QED
        BY <2>1, WriteRuns DEF Reduce
    <3>2. Runs(m, TRUE, Dispatch("boundary_flux", Velocity \union {src} \union Mask(m), {Z}),
               At(S2, W1, D, TRUE, f), At(S2, W2, D, TRUE, f))
      <4> HIDE DEF S1, S2, W1, Z
      <4> QED
        BY <2>1, WriteRuns
    <3>3. Runs(m, TRUE, Reduce(Z, "OUT"), At(S2, W2, D, TRUE, f), At(S2, W3, D, TRUE, f))
      <4> HIDE DEF S1, S2, W1, W2, Z
      <4> QED
        BY <2>1, WriteRuns DEF Reduce
    <3>4. Runs(m, TRUE, Dispatch("negative_part", {src}, {Z}), At(S2, W3, D, TRUE, f),
               At(S2, W3, D, TRUE, f))
      <4>1. Runs(m, TRUE, Dispatch("negative_part", {src}, {Z}), At(S2, W3, D, TRUE, f),
                 At(S2, W3 \union {Z}, D, TRUE, f))
        <5> HIDE DEF S1, S2, W1, W2, W3, Z
        <5> QED
          BY <2>1, WriteRuns
      <4>2. W3 \union {Z} = W3
        OBVIOUS
      <4> QED
        BY <4>1, <4>2
    <3>5. Runs(m, TRUE, Reduce(Z, "NEG"), At(S2, W3, D, TRUE, f), At(S2, W4, D, TRUE, f))
      <4> HIDE DEF S1, S2, W1, W2, W3, Z
      <4> QED
        BY <2>1, WriteRuns DEF Reduce
    <3> HIDE DEF S1, S2, W1, W2, W3, W4
    <3> QED
      BY <3>1, <3>2, <3>3, <3>4, <3>5, RunsThen DEF MeasureBefore
  <2>7. Runs(m, TRUE, Retire({Z}), At(S2, W4, D, TRUE, f), At(S1, V4, D, TRUE, f))
    <3>1. Runs(m, TRUE, Retire({Z}), At(S2, W4, D, TRUE, f),
               At(S2 \ {Z}, W4 \ {Z}, D \ {Z}, TRUE, f))
      <4> HIDE DEF S1, S2, W1, W2, W3, W4, Z
      <4> QED
        BY <2>1, RetireRuns
    <3> QED
      BY <2>1, <3>1
  <2>8. Runs(m, TRUE, AdvectGrid(m, src, "cells", "dst"), At(S1, V4, D, TRUE, f),
             At(S5, V5, D \union d, TRUE, f))
    <3> HIDE DEF S1, V4
    <3> QED
      BY <1>0, <2>2, AdvectGridRuns DEF d
  <2>9. Runs(m, TRUE, Reduce("dst", "M1"), At(S5, V5, D \union d, TRUE, f),
             At(S5, V6, D \union d, TRUE, f))
    <3> HIDE DEF S5, V5
    <3> QED
      BY <2>2, WriteRuns DEF Reduce
  <2>10. Runs(m, TRUE, Dispatch("mass_scale", {"dst"} \union MassSlots, {"dst"}),
              At(S5, V6, D \union d, TRUE, f), At(S5, V6 \union {"dst"}, D7, TRUE, f))
    <3> HIDE DEF S5, V6
    <3> QED
      BY <2>2, DispatchRuns
  <2>11. Runs(m, TRUE, Replace(src, "dst"), At(S5, V6 \union {"dst"}, D7, TRUE, f), out)
    <3> HIDE DEF S5, V6, D7
    <3> QED
      BY <1>2, <2>2, <2>3
  <2>12. AdvectScalar(m, src) =
           (NewTarget(MassSlots) \o Acquire(Z, "cells") \o MeasureBefore(m, src) \o Retire({Z}))
             \o AdvectGrid(m, src, "cells", "dst")
             \o (Reduce("dst", "M1") \o Dispatch("mass_scale", {"dst"} \union MassSlots, {"dst"}))
             \o Replace(src, "dst")
    BY <1>4 DEF AdvectScalar, When, CorrectAfter
  <2> HIDE DEF S1, S2, W1, W2, W3, W4, V4, S5, V5, V6, D7, Z
  <2>13. Runs(m, TRUE, NewTarget(MassSlots) \o Acquire(Z,
                                                       "cells") \o MeasureBefore(m, src) \o Retire({Z}),
              At(F, F, D, TRUE, f), At(S1, V4, D, TRUE, f))
    BY <2>4, <2>5, <2>6, <2>7, RunsThen
  <2>14. Runs(m, TRUE, Reduce("dst", "M1") \o Dispatch("mass_scale", {"dst"} \union MassSlots,
                                                       {"dst"}),
              At(S5, V5, D \union d, TRUE, f), At(S5, V6 \union {"dst"}, D7, TRUE, f))
    BY <2>9, <2>10, RunsThen
  <2>15. Runs(m, TRUE, AdvectScalar(m, src), At(F, F, D, TRUE, f), out)
    BY <2>8, <2>11, <2>12, <2>13, <2>14, RunsThen
  <2> QED
    BY <2>15 DEF F, out
<1>5. m.conserve \in BOOLEAN
  BY SolverAssumption
<1> QED
  BY <1>3, <1>4, <1>5

LEMMA AdvectScalarsRuns ==
    ASSUME NEW m \in Modes
    PROVE  Runs(m, TRUE, AdvectScalars(m), At(Fields(m), Fields(m), Velocity, TRUE, TRUE),
                At(Fields(m), Fields(m), Tracked(m), TRUE, TRUE))
<1> DEFINE F == Fields(m)
           D1 == Velocity \union {"density"}
           D2 == D1 \union {"temperature"}
           D3 == D2 \union {"fuel"}
           D4 == D3 \union {"react"}
           Pt(D) == At(F, F, D, TRUE, TRUE)
<1>0. /\ {"density", "temperature"} \subseteq F /\ (m.fire => {"fuel", "react"} \subseteq F)
      /\ Velocity \subseteq F /\ D1 \subseteq F /\ D2 \subseteq F /\ (m.fire => D3 \subseteq F)
  BY There
<1>1. /\ m.fire => Tracked(m) \subseteq D4
      /\ ~m.fire => Tracked(m) \subseteq D2
  BY Sequences_ DEF Tracked, StateNames, Scalars
<1>2. m.fire \in BOOLEAN
  BY SolverAssumption
<1> HIDE DEF F
<1>3. ASSUME NEW src \in Scalars, src \in F, NEW D, D \subseteq F
      PROVE  Runs(m, TRUE, AdvectScalar(m, src), Pt(D), Pt(D \union {src}))
  BY <1>3, AdvectScalarRuns DEF F
<1>4. "density" \in Scalars /\ "temperature" \in Scalars /\ "fuel" \in Scalars /\ "react" \in Scalars
  BY DEF Scalars
<1> HIDE DEF Pt
<1>5. Runs(m, TRUE, AdvectScalar(m, "density"), Pt(Velocity), Pt(D1))
  BY <1>0, <1>3, <1>4
<1>6. Runs(m, TRUE, AdvectScalar(m, "temperature"), Pt(D1), Pt(D2))
  <2> HIDE DEF D1
  <2> QED
    BY <1>0, <1>3, <1>4
<1>7. ASSUME m.fire
      PROVE  Runs(m, TRUE, AdvectScalar(m, "fuel") \o AdvectScalar(m, "react"), Pt(D2),
                  Pt(Tracked(m)))
  <2>1. Runs(m, TRUE, AdvectScalar(m, "fuel"), Pt(D2), Pt(D3))
    <3> HIDE DEF D2
    <3> QED
      BY <1>0, <1>3, <1>4, <1>7
  <2>2. Runs(m, TRUE, AdvectScalar(m, "react"), Pt(D3), Pt(D4))
    <3> HIDE DEF D3
    <3> QED
      BY <1>0, <1>3, <1>4, <1>7
  <2> HIDE DEF D4
  <2>3. Covers(Pt(D4), Pt(Tracked(m)))
    BY <1>1, <1>7, Forgetting DEF Pt, Forgets
  <2> QED
    BY <2>1, <2>2, <2>3, RunsThen, RunsToLess
<1>8. ~m.fire => Covers(Pt(D2), Pt(Tracked(m)))
  <2> HIDE DEF D2
  <2> QED
    BY <1>1, Forgetting DEF Pt, Forgets
<1>9. Runs(m, TRUE, When(m.fire, AdvectScalar(m, "fuel") \o AdvectScalar(m, "react")), Pt(D2),
           Pt(Tracked(m)))
  BY <1>2, <1>7, <1>8, RunsWhen
<1> HIDE DEF D1, D2
<1>10. Runs(m, TRUE, AdvectScalars(m), Pt(Velocity), Pt(Tracked(m)))
  BY <1>5, <1>6, <1>9, RunsThen DEF AdvectScalars
<1> QED
  BY <1>10 DEF Pt, F

\* A point of the pressure solve, where nothing is finished.
Pt(S, W) == At(S, W, {}, TRUE, TRUE)

LEMMA PtStays ==
    ASSUME NEW m, NEW S, NEW W, NEW kernel, NEW R, NEW T,
           kernel # "none", R \subseteq W, T \subseteq W, W \subseteq S
    PROVE  Runs(m, TRUE, Dispatch(kernel, R, T), Pt(S, W), Pt(S, W))
  BY StayRuns DEF Pt

LEMMA PtWrites ==
    ASSUME NEW m, NEW S, NEW W, NEW kernel, NEW R, NEW T,
           kernel # "none", R \subseteq W, T \subseteq S
    PROVE  Runs(m, TRUE, Dispatch(kernel, R, T), Pt(S, W), Pt(S, W \union T))
  BY WriteRuns DEF Pt

LEMMA PtForgets ==
    ASSUME NEW S, NEW T, NEW W, NEW V, Forgets(S, T), V \subseteq W
    PROVE  Covers(Pt(S, W), Pt(T, V))
  BY Forgetting DEF Pt

LEMMA PtFlush ==
    ASSUME NEW m, NEW S, NEW W
    PROVE  Runs(m, TRUE, Flush, Pt(S, W), Pt(S, W))
  BY FlushRuns DEF Pt

LEMMA PtAcquires ==
    ASSUME NEW m, NEW S, NEW W, NEW n, NEW shape \in PoolShapes,
           n \notin S, n \notin Slots, W \subseteq S
    PROVE  Runs(m, TRUE, Acquire(n, shape), Pt(S, W), Pt(S \union {n}, W))
  BY AcquireRuns DEF Pt

LEMMA PtTargets ==
    ASSUME NEW m, NEW S, NEW W, NEW T, T \subseteq Slots, W \intersect T = {}
    PROVE  Runs(m, TRUE, NewTarget(T), Pt(S, W), Pt(S \union T, W))
  BY TargetRuns DEF Pt

LEMMA PtRetires ==
    ASSUME NEW m, NEW S, NEW W, NEW names, names \intersect Slots = {}
    PROVE  Runs(m, TRUE, Retire(names), Pt(S, W), Pt(S \ names, W \ names))
<1> DEFINE none == {}
<1>1. none \ names = none
  OBVIOUS
<1> HIDE DEF none
<1>2. Runs(m, TRUE, Retire(names), At(S, W, none, TRUE, TRUE),
           At(S \ names, W \ names, none \ names, TRUE, TRUE))
  BY RetireRuns
<1> QED
  BY <1>1, <1>2 DEF none, Pt

LEMMA SmoothRuns ==
    ASSUME NEW m, NEW S, NEW W, NEW p, NEW rhs, NEW views, NEW sweeps \in Nat,
           NEW reverse \in BOOLEAN,
           p \in W, rhs \in W, views \subseteq W, W \subseteq S
    PROVE  Runs(m, TRUE, Smooth(p, rhs, views, sweeps, reverse), Pt(S, W), Pt(S, W))
<1> DEFINE R == {p, rhs} \union views
           T == {p}
           red == Dispatch("red", R, T)
           black == Dispatch("black", R, T)
           P == [i \in 1..sweeps |-> IF reverse THEN black \o red ELSE red \o black]
<1>1. R \subseteq W /\ T \subseteq W
  OBVIOUS
<1>2. FlattenSeq(P) = Smooth(p, rhs, views, sweeps, reverse)
  BY DEF Smooth
<1> HIDE DEF R, T
<1>3. Runs(m, TRUE, red, Pt(S, W), Pt(S, W)) /\ Runs(m, TRUE, black, Pt(S, W), Pt(S, W))
  BY <1>1, PtStays
<1> HIDE DEF red, black
<1>4. Runs(m, TRUE, red \o black, Pt(S, W), Pt(S, W)) /\ Runs(m, TRUE, black \o red, Pt(S, W), Pt(S, W))
  BY <1>3, RunsThen
<1>5. \A i \in 1..sweeps : Runs(m, TRUE, P[i], Pt(S, W), Pt(S, W))
  BY <1>4
<1>6. P = [i \in 1..sweeps |-> P[i]]
  OBVIOUS
<1> HIDE DEF P
<1> QED
  BY <1>2, <1>5, <1>6, RunsRepeated

-----------------------------------------------------------------------------
(* The pressure solve on one grid *)

LEMMA SolvePressureRuns ==
    ASSUME NEW m \in Modes, NEW S, NEW W, "pressure" \in W, "div" \in W, Mask(m) \subseteq W,
           W \subseteq S,
           W \intersect Slots = {}
    PROVE  Runs(m, TRUE, SolvePressure(m), Pt(S, W), Pt(S, W))
<1> DEFINE v == Pt(S, W)
           P == [i \in 1..m.iterations |->
                   When(i > 1 /\ (i - 1) % m.perSubmit = 0, Flush)
                     \o Smooth("pressure", "div", Mask(m), 1, FALSE)]
<1>0. Covers(v, v)
  BY CoversAll
<1>1. m.iterations \in Nat /\ m.closed \in BOOLEAN /\ "sum" \in Slots
  BY SolverAssumption, Apart
<1>2. Runs(m, TRUE, Smooth("pressure", "div", Mask(m), 1, FALSE), v, v)
  BY SmoothRuns
<1>3. ASSUME NEW i \in 1..m.iterations
      PROVE  Runs(m, TRUE, P[i], v, v)
  <2> DEFINE c == i > 1 /\ (i - 1) % m.perSubmit = 0
  <2>1. Runs(m, TRUE, When(c, Flush), v, v)
    <3>1. Runs(m, TRUE, Flush, v, v)
      BY PtFlush
    <3>2. c \in BOOLEAN
      OBVIOUS
    <3> HIDE DEF c, v
    <3> QED
      BY <1>0, <3>1, <3>2, RunsWhen
  <2>2. P[i] = When(c, Flush) \o Smooth("pressure", "div", Mask(m), 1, FALSE)
    OBVIOUS
  <2> HIDE DEF c, v, P
  <2> QED
    BY <1>2, <2>1, <2>2, RunsThen
<1>4. P = [i \in 1..m.iterations |-> P[i]]
  OBVIOUS
<1>5. Pressure(m) = FlattenSeq(P)
  BY DEF Pressure
<1>6. Runs(m, TRUE, Pressure(m), v, v)
  <2> DEFINE n == m.iterations
  <2>1. n \in Nat /\ P = [i \in 1..n |-> P[i]] /\ \A i \in 1..n : Runs(m, TRUE, P[i], v, v)
    BY <1>1, <1>3, <1>4
  <2> HIDE DEF P, n, v
  <2>2. Runs(m, TRUE, FlattenSeq(P), v, v)
    BY <2>1, RunsRepeated
  <2> QED
    BY <1>5, <2>2
<1> HIDE DEF P
<1>7. Runs(m, TRUE, NewTarget({"sum"}) \o RemoveMean, v, v)
  <2> DEFINE sum == {"sum"}
             S1 == S \union sum
             W1 == W \union sum
  <2>1. sum \subseteq Slots /\ W \intersect sum = {} /\ sum \subseteq S1
        /\ {"pressure"} \subseteq W /\ {"pressure", "sum"} \subseteq W1 /\ {"pressure"} \subseteq W1
        /\ W1 \subseteq S1 /\ Forgets(S1, S) /\ W \subseteq W1
    BY <1>1 DEF Forgets
  <2>2. Runs(m, TRUE, NewTarget(sum), Pt(S, W), Pt(S1, W))
    <3> HIDE DEF sum
    <3> QED
      BY <2>1, PtTargets
  <2>3. Runs(m, TRUE, Reduce("pressure", "sum"), Pt(S1, W), Pt(S1, W1))
    <3> HIDE DEF S1
    <3> QED
      BY <2>1, PtWrites DEF Reduce
  <2>4. Runs(m, TRUE, Dispatch("subtract_mean", {"pressure", "sum"}, {"pressure"}), Pt(S1, W1),
             Pt(S1, W1))
    <3> HIDE DEF S1, W1
    <3> QED
      BY <2>1, PtStays
  <2>5. Covers(Pt(S1, W1), Pt(S, W))
    <3> HIDE DEF S1, W1
    <3> QED
      BY <2>1, PtForgets
  <2> HIDE DEF S1, W1
  <2>6. Runs(m, TRUE, RemoveMean, Pt(S1, W), Pt(S, W))
    BY <2>3, <2>4, <2>5, RunsThen, RunsToLess DEF RemoveMean
  <2> QED
    BY <2>2, <2>6, RunsThen
<1> HIDE DEF v
<1>8. Runs(m, TRUE, When(m.closed, NewTarget({"sum"}) \o RemoveMean), v, v)
  BY <1>0, <1>1, <1>7, RunsWhen
<1>9. Runs(m, TRUE, SolvePressure(m), v, v)
  BY <1>6, <1>8, RunsThen DEF SolvePressure
<1> QED
  BY <1>9 DEF v

-----------------------------------------------------------------------------
(* The V-cycle *)

Corrections == {"rhs1", "e1", "rhs2", "e2", "tmp0", "tmp1"}
Masks == {"mask", "mask1", "mask2", "norm0", "norm1", "phi1", "phi2"}

\* What the hierarchy gives a cycle.
Ready(m, S, W) ==
    /\ W \subseteq S /\ Corrections \union {"sum"} \subseteq S
    /\ m.collider => Masks \union Range(SolidCount) \subseteq W

LEMMA ReadyFacts ==
    ASSUME NEW m, NEW S, NEW W, Ready(m, S, W)
    PROVE  /\ \A l \in 1..3 : MaskAt(m, l) \subseteq W /\ PhiAt(m, l) \subseteq W
                              /\ (m.collider => SolidCount[l] \in W)
           /\ \A l \in 1..2 : NormAt(m, l) \subseteq W
<1>1. /\ CoarseMask[1] = "mask" /\ CoarseMask[2] = "mask1" /\ CoarseMask[3] = "mask2"
      /\ Norm[1] = "norm0" /\ Norm[2] = "norm1" /\ Phi[2] = "phi1" /\ Phi[3] = "phi2"
      /\ SolidCount[1] = "solids1" /\ SolidCount[2] = "solids2" /\ SolidCount[3] = "solids3"
  BY DEF CoarseMask, Norm, Phi, SolidCount
<1>2. \A l \in 1..3 : l = 1 \/ l = 2 \/ l = 3
  OBVIOUS
<1>3. m.collider => Masks \union {"solids1", "solids2", "solids3"} \subseteq W
  BY Sequences_ DEF Ready
<1>4. ASSUME NEW l \in 1..3
      PROVE  MaskAt(m, l) \subseteq W /\ PhiAt(m, l) \subseteq W /\ (m.collider => SolidCount[l] \in W)
  <2>1. CASE l = 1
    BY <1>1, <1>3, <2>1 DEF MaskAt, PhiAt, Masks
  <2>2. CASE l = 2
    BY <1>1, <1>3, <2>2 DEF MaskAt, PhiAt, Masks
  <2>3. CASE l = 3
    BY <1>1, <1>3, <2>3 DEF MaskAt, PhiAt, Masks
  <2> QED
    BY <1>2, <2>1, <2>2, <2>3
<1>5. ASSUME NEW l \in 1..2
      PROVE  NormAt(m, l) \subseteq W
  <2>1. CASE l = 1
    BY <1>1, <1>3, <2>1 DEF NormAt, Masks
  <2>2. CASE l = 2
    BY <1>1, <1>3, <2>2 DEF NormAt, Masks
  <2> QED
    BY <2>1, <2>2
<1> QED
  BY <1>4, <1>5

LEMMA FluidMeanRuns ==
    ASSUME NEW m, NEW S, NEW W, Ready(m, S, W), NEW field \in W, NEW l \in 1..3
    PROVE  Runs(m, TRUE, FluidMean(m, field, l), Pt(S, W), Pt(S, W))
<1> DEFINE sum == {"sum"}
           W1 == W \union sum
           R == {field, "sum"} \union MaskAt(m, l) \union (IF m.collider THEN {SolidCount[l]} ELSE {})
           T == {field}
<1>01. /\ MaskAt(m, l) \subseteq W /\ (m.collider => SolidCount[l] \in W)
       /\ "sum" \in S /\ W \subseteq S
  BY ReadyFacts DEF Ready
<1>1. T \subseteq W /\ sum \subseteq S /\ R \subseteq W1 /\ T \subseteq W1 /\ W1 \subseteq S /\ W \subseteq W1
      /\ Forgets(S, S)
  BY <1>01 DEF Forgets
<1> HIDE DEF R, W1, T
<1>2. Runs(m, TRUE, Dispatch("reduce", T, sum), Pt(S, W), Pt(S, W1))
  <2> HIDE DEF sum
  <2> QED
    BY <1>1, PtWrites DEF W1
<1>3. Runs(m, TRUE, Dispatch("subtract_fluid_mean", R, T), Pt(S, W1), Pt(S, W1))
  BY <1>1, PtStays
<1>4. Covers(Pt(S, W1), Pt(S, W))
  BY <1>1, PtForgets
<1>5. Runs(m, TRUE, Dispatch("reduce", T, sum) \o Dispatch("subtract_fluid_mean", R, T), Pt(S, W),
           Pt(S, W))
  BY <1>2, <1>3, <1>4, RunsThen, RunsToLess
<1> QED
  BY <1>5 DEF FluidMean, Reduce, R, T

LEMMA SmootherRuns ==
    ASSUME NEW m, NEW S, NEW W, Ready(m, S, W), NEW x, NEW b, NEW l \in 1..3,
           X(x, l) \in W, B(b, l) \in W, NEW sweeps \in Nat, NEW reverse \in BOOLEAN
    PROVE  Runs(m, TRUE, SmootherAt(m, x, b, l, sweeps, reverse), Pt(S, W), Pt(S, W))
<1>1. MaskAt(m, l) \union PhiAt(m, l) \subseteq W /\ W \subseteq S
  BY ReadyFacts DEF Ready
<1> QED
  BY <1>1, SmoothRuns DEF SmootherAt

LEMMA ReadyGrows ==
    ASSUME NEW m, NEW S, NEW W, Ready(m, S, W), NEW V, W \subseteq V, V \subseteq S
    PROVE  Ready(m, S, V)
  BY DEF Ready

LEMMA CoarseNames ==
    /\ Tmp[1] = "tmp0" /\ Tmp[2] = "tmp1" /\ Rhs[2] = "rhs1" /\ Rhs[3] = "rhs2" /\ E[2] = "e1" /\ E[3] = "e2"
    /\ \A l \in 1..2 : Tmp[l] \in Corrections /\ Rhs[l + 1] \in Corrections /\ E[l + 1] \in Corrections
<1>1. Tmp[1] = "tmp0" /\ Tmp[2] = "tmp1" /\ Rhs[2] = "rhs1" /\ Rhs[3] = "rhs2" /\ E[2] = "e1" /\ E[3] = "e2"
  BY DEF Tmp, Rhs, E
<1>2. ASSUME NEW l \in 1..2
      PROVE  Tmp[l] \in Corrections /\ Rhs[l + 1] \in Corrections /\ E[l + 1] \in Corrections
  <2>1. CASE l = 1
    BY <1>1, <2>1 DEF Corrections
  <2>2. CASE l = 2
    BY <1>1, <2>2 DEF Corrections
  <2> QED
    BY <2>1, <2>2
<1> QED
  BY <1>1, <1>2

\* Going down from a level writes its residual and the next level's fields.
LEMMA DownRuns ==
    ASSUME NEW m \in Modes, NEW S, NEW W, Ready(m, S, W), NEW x, NEW b, NEW l \in 1..2,
           X(x, l) \in W, B(b, l) \in W
    PROVE  Runs(m, TRUE, Down(m, x, b, l), Pt(S, W),
                Pt(S, W \union {Tmp[l]} \union {Rhs[l + 1], E[l + 1]}))
<1> DEFINE W1 == W \union {Tmp[l]}
           W2 == W1 \union {Rhs[l + 1], E[l + 1]}
           R1 == {X(x, l), B(b, l)} \union MaskAt(m, l) \union PhiAt(m, l)
           R2 == {Tmp[l]} \union MaskAt(m, l) \union MaskAt(m, l + 1) \union NormAt(m, l)
           T1 == {Tmp[l]}
           T2 == {Rhs[l + 1], E[l + 1]}
<1>0. m.sweeps \in Nat /\ m.closed \in BOOLEAN /\ l \in 1..3 /\ l + 1 \in 1..3
  BY SolverAssumption
<1>1. R1 \subseteq W /\ T1 \subseteq S /\ W1 = W \union T1 /\ R2 \subseteq W1 /\ T2 \subseteq S /\ W2 = W1 \union T2
      /\ W \subseteq W2 /\ W2 \subseteq S
  BY <1>0, ReadyFacts, CoarseNames DEF Ready
<1>2. Runs(m, TRUE, SmootherAt(m, x, b, l, m.sweeps, FALSE), Pt(S, W), Pt(S, W))
  BY <1>0, SmootherRuns
<1>3. Runs(m, TRUE, Residual(m, X(x, l), B(b, l), Tmp[l], l), Pt(S, W), Pt(S, W1))
  <2>1. Residual(m, X(x, l), B(b, l), Tmp[l], l) = Dispatch("residual", R1, T1)
    BY DEF Residual
  <2> HIDE DEF R1, T1, W1
  <2>2. Runs(m, TRUE, Dispatch("residual", R1, T1), Pt(S, W), Pt(S, W1))
    BY <1>1, PtWrites
  <2> QED
    BY <2>1, <2>2
<1>4. Runs(m, TRUE, RestrictResidual(m, l), Pt(S, W1), Pt(S, W2))
  <2>1. RestrictResidual(m, l) = Dispatch("restrict", R2, T2)
    BY DEF RestrictResidual
  <2> HIDE DEF R2, T2, W1, W2
  <2>2. Runs(m, TRUE, Dispatch("restrict", R2, T2), Pt(S, W1), Pt(S, W2))
    BY <1>1, PtWrites
  <2> QED
    BY <2>1, <2>2
<1>5. Runs(m, TRUE, When(m.closed, FluidMean(m, Rhs[l + 1], l + 1)), Pt(S, W2), Pt(S, W2))
  <2>1. Ready(m, S, W2)
    BY <1>1, ReadyGrows
  <2>2. Rhs[l + 1] \in W2
    OBVIOUS
  <2> HIDE DEF W2
  <2>3. Runs(m, TRUE, FluidMean(m, Rhs[l + 1], l + 1), Pt(S, W2), Pt(S, W2))
    BY <1>0, <2>1, <2>2, FluidMeanRuns
  <2> QED
    BY <1>0, <2>3, CoversAll, RunsWhen
<1> HIDE DEF W1, W2
<1>6. Runs(m, TRUE, Down(m, x, b, l), Pt(S, W), Pt(S, W2))
  BY <1>2, <1>3, <1>4, <1>5, RunsThen DEF Down
<1> QED
  BY <1>6 DEF W1, W2

LEMMA UpRuns ==
    ASSUME NEW m \in Modes, NEW S, NEW W, Ready(m, S, W), NEW x, NEW b, NEW l \in 1..2,
           X(x, l) \in W, B(b, l) \in W, E[l + 1] \in W
    PROVE  Runs(m, TRUE, Up(m, x, b, l), Pt(S, W), Pt(S, W))
<1> DEFINE R == {X(x, l), E[l + 1]} \union MaskAt(m, l) \union MaskAt(m, l + 1) \union NormAt(m, l)
           T == {X(x, l)}
<1>0. m.sweeps \in Nat /\ l \in 1..3 /\ l + 1 \in 1..3
  BY SolverAssumption
<1>1. R \subseteq W /\ T \subseteq W /\ W \subseteq S
  BY <1>0, ReadyFacts DEF Ready
<1>2. Prolong(m, x, l) = Dispatch("prolong", R, T)
  BY DEF Prolong
<1>3. Runs(m, TRUE, SmootherAt(m, x, b, l, m.sweeps, TRUE), Pt(S, W), Pt(S, W))
  BY <1>0, SmootherRuns
<1> HIDE DEF R, T
<1>4. Runs(m, TRUE, Prolong(m, x, l), Pt(S, W), Pt(S, W))
  BY <1>1, <1>2, PtStays
<1> QED
  BY <1>3, <1>4, RunsThen DEF Up

LEMMA RunsTwo ==
    ASSUME NEW m, NEW plain, NEW P, NEW v0, NEW v1, NEW v2,
           P = [a \in 1..2 |-> P[a]],
           Runs(m, plain, P[1], v0, v1), Runs(m, plain, P[2], v1, v2)
    PROVE  Runs(m, plain, FlattenSeq(P), v0, v2)
<1> DEFINE s == [a \in 0..2 |-> IF a = 0 THEN v0 ELSE IF a = 1 THEN v1 ELSE v2]
<1>1. s[0] = v0 /\ s[1] = v1 /\ s[2] = v2
  OBVIOUS
<1> HIDE DEF s
<1>2. ASSUME NEW a \in 1..2
      PROVE  Runs(m, plain, P[a], s[a - 1], s[a])
  <2>1. a = 1 \/ a = 2
    OBVIOUS
  <2>2. CASE a = 1
    BY <1>1, <2>2
  <2>3. CASE a = 2
    BY <1>1, <2>3
  <2> QED
    BY <2>1, <2>2, <2>3
<1>3. Runs(m, plain, FlattenSeq(P), s[0], s[2])
  BY <1>2, RunsFlatten
<1> QED
  BY <1>1, <1>3

\* A cycle needs nothing of the coarse fields' earlier contents.
LEMMA CycleRuns ==
    ASSUME NEW m \in Modes, NEW S, NEW W, Ready(m, S, W), NEW x \in W, NEW b \in W
    PROVE  Runs(m, TRUE, Cycle(m, x, b), Pt(S, W), Pt(S, W))
<1> DEFINE W1 == W \union {Tmp[1]} \union {Rhs[1 + 1], E[1 + 1]}
           W2 == W1 \union {Tmp[2]} \union {Rhs[2 + 1], E[2 + 1]}
           P == [l \in 1..(Depth - 1) |-> Down(m, x, b, l)]
           Q == [i \in 1..(Depth - 1) |-> Up(m, x, b, Depth - i)]
<1>1. /\ P = [l \in 1..2 |-> P[l]] /\ P[1] = Down(m, x, b, 1) /\ P[2] = Down(m, x, b, 2)
      /\ Q = [i \in 1..2 |-> Q[i]] /\ Q[1] = Up(m, x, b, 2) /\ Q[2] = Up(m, x, b, 1)
  BY DEF Depth
<1>2. /\ X(x, 1) = x /\ B(b, 1) = b /\ X(x, 2) = E[2] /\ B(b,
                                                           2) = Rhs[2] /\ X(x, 3) = E[3] /\ B(b, 3) = Rhs[3]
  BY DEF X, B
<1>3. /\ W \subseteq W1 /\ W1 \subseteq W2 /\ W2 \subseteq S /\ W1 \subseteq S /\ W \subseteq W2 /\ Forgets(S, S)
      /\ E[2] \in W1 /\ Rhs[2] \in W1 /\ E[2] \in W2 /\ Rhs[2] \in W2 /\ E[3] \in W2 /\ Rhs[3] \in W2
      /\ x \in W2 /\ b \in W2
  BY CoarseNames DEF Ready, Forgets, Corrections
<1>4. Ready(m, S, W1) /\ Ready(m, S, W2)
  BY <1>3, ReadyGrows
<1> HIDE DEF P, Q
<1>5. Runs(m, TRUE, Down(m, x, b, 1), Pt(S, W), Pt(S, W1))
  <2>1. X(x, 1) \in W /\ B(b, 1) \in W /\ 1 \in 1..2
    BY <1>2
  <2> QED
    BY <2>1, DownRuns
<1>6. Runs(m, TRUE, Down(m, x, b, 2), Pt(S, W1), Pt(S, W2))
  <2>1. X(x, 2) \in W1 /\ B(b, 2) \in W1 /\ 2 \in 1..2
    BY <1>2, <1>3
  <2> HIDE DEF W1
  <2> QED
    BY <1>4, <2>1, DownRuns
<1> HIDE DEF W1, W2
<1>7. Runs(m, TRUE, FlattenSeq(P), Pt(S, W), Pt(S, W2))
  BY <1>1, <1>5, <1>6, RunsTwo
<1>8. Runs(m, TRUE, Coarsest(m, x, b), Pt(S, W2), Pt(S, W2))
  <2>1. /\ Runs(m, TRUE, SmootherAt(m, x, b, 3, 1, FALSE), Pt(S, W2), Pt(S, W2))
        /\ Runs(m, TRUE, SmootherAt(m, x, b, 3, 1, TRUE), Pt(S, W2), Pt(S, W2))
    <3>1. X(x, 3) \in W2 /\ B(b, 3) \in W2 /\ 3 \in 1..3 /\ 1 \in Nat /\ TRUE \in BOOLEAN /\ FALSE \in BOOLEAN
      BY <1>2, <1>3
    <3> QED
      BY <1>4, <3>1, SmootherRuns
  <2> QED
    BY <2>1, RunsThen DEF Coarsest, Depth
<1>9. Runs(m, TRUE, FlattenSeq(Q), Pt(S, W2), Pt(S, W2))
  <2>1. Runs(m, TRUE, Up(m, x, b, 2), Pt(S, W2), Pt(S,
                                                    W2)) /\ Runs(m, TRUE, Up(m, x, b, 1), Pt(S, W2), Pt(S, W2))
    <3>1. X(x, 1) \in W2 /\ B(b, 1) \in W2 /\ E[1 + 1] \in W2 /\ 1 \in 1..2
      BY <1>2, <1>3
    <3>2. X(x, 2) \in W2 /\ B(b, 2) \in W2 /\ E[2 + 1] \in W2 /\ 2 \in 1..2
      BY <1>2, <1>3
    <3>3. Runs(m, TRUE, Up(m, x, b, 1), Pt(S, W2), Pt(S, W2))
      BY <1>4, <3>1, UpRuns
    <3>4. Runs(m, TRUE, Up(m, x, b, 2), Pt(S, W2), Pt(S, W2))
      BY <1>4, <3>2, UpRuns
    <3> QED
      BY <3>3, <3>4
  <2> QED
    BY <1>1, <2>1, RunsTwo
<1>10. Covers(Pt(S, W2), Pt(S, W))
  BY <1>3, PtForgets
<1>11. Cycle(m, x, b) = FlattenSeq(P) \o Coarsest(m, x, b) \o FlattenSeq(Q)
  BY DEF Cycle, P, Q
<1> QED
  BY <1>7, <1>8, <1>9, <1>10, <1>11, RunsThen, RunsToLess

LEMMA VCyclesRuns ==
    ASSUME NEW m \in Modes, NEW S, NEW W, Ready(m, S, W), NEW x \in W, NEW b \in W,
           NEW cycles \in Nat
    PROVE  Runs(m, TRUE, VCycles(m, x, b, cycles), Pt(S, W), Pt(S, W))
<1> DEFINE v == Pt(S, W)
           P == [i \in 1..cycles |-> When(i > 1, Flush) \o Cycle(m, x, b)]
<1>0. Covers(v, v) /\ m.closed \in BOOLEAN
  BY CoversAll, SolverAssumption
<1>1. Runs(m, TRUE, Flush, v, v) /\ Runs(m, TRUE, Cycle(m, x, b), v,
                                         v) /\ Runs(m, TRUE, FluidMean(m, x, 1), v, v)
  <2>1. 1 \in 1..3
    OBVIOUS
  <2>2. Runs(m, TRUE, FluidMean(m, x, 1), v, v)
    BY <2>1, FluidMeanRuns
  <2>3. Runs(m, TRUE, Cycle(m, x, b), v, v)
    BY CycleRuns
  <2> QED
    BY <2>2, <2>3, PtFlush
<1> HIDE DEF v
<1>2. ASSUME NEW i \in 1..cycles
      PROVE  Runs(m, TRUE, P[i], v, v)
  <2>1. Runs(m, TRUE, When(i > 1, Flush), v, v)
    <3> DEFINE c == i > 1
    <3>1. c \in BOOLEAN
      OBVIOUS
    <3> HIDE DEF c
    <3>2. Runs(m, TRUE, When(c, Flush), v, v)
      BY <1>0, <1>1, <3>1, RunsWhen
    <3> QED
      BY <3>2 DEF c
  <2>2. P[i] = When(i > 1, Flush) \o Cycle(m, x, b)
    OBVIOUS
  <2> HIDE DEF P
  <2> QED
    BY <1>1, <2>1, <2>2, RunsThen
<1>3. P = [i \in 1..cycles |-> P[i]]
  OBVIOUS
<1>4. VCycles(m, x, b, cycles) = FlattenSeq(P) \o When(m.closed, FluidMean(m, x, 1))
  BY DEF VCycles
<1> HIDE DEF P
<1>5. Runs(m, TRUE, FlattenSeq(P), v, v)
  BY <1>2, <1>3, RunsRepeated
<1>6. Runs(m, TRUE, When(m.closed, FluidMean(m, x, 1)), v, v)
  BY <1>0, <1>1, RunsWhen
<1>7. Runs(m, TRUE, VCycles(m, x, b, cycles), v, v)
  BY <1>4, <1>5, <1>6, RunsThen
<1> QED
  BY <1>7 DEF v

\* The hierarchy can be built where the fields G are there, and a cycle can follow.
BuildsHierarchy(m, G) ==
    \E S, W :
        /\ Runs(m, FALSE, Hierarchy(m), Pt(G, G), Pt(S, W))
        /\ Ready(m, S, W) /\ G \subseteq W /\ S \ Slots \subseteq G \union HierarchyNames
        /\ W \intersect PcgSlots = {}

LEMMA ColliderHierarchyRuns ==
    ASSUME NEW m, m.collider, NEW G, G \intersect HierarchyNames = {}, G \intersect Slots = {},
           "mask" \in G
    PROVE  BuildsHierarchy(m, G)
<1> DEFINE S0 == G
           W0 == G
           S1 == G \union {"solids1", "solids2", "solids3"}
           S2 == G \union {"solids1", "solids2", "solids3", "tmp0"}
           S3 == G \union {"solids1", "solids2", "solids3", "tmp0", "norm0"}
           W1 == G \union {"solids1"}
           S4 == G \union {"solids1", "solids2", "solids3", "tmp0", "norm0", "rhs1"}
           S5 == G \union {"solids1", "solids2", "solids3", "tmp0", "norm0", "rhs1", "e1"}
           S6 == G \union {"solids1", "solids2", "solids3", "tmp0", "norm0", "rhs1", "e1", "tmp1"}
           S7 == G \union {"solids1", "solids2", "solids3", "tmp0", "norm0", "rhs1", "e1", "tmp1",
                           "mask1"}
           W2 == G \union {"solids1", "mask1"}
           S8 == G \union {"solids1", "solids2", "solids3", "tmp0", "norm0", "rhs1", "e1", "tmp1",
                           "mask1", "norm1"}
           S9 == G \union {"solids1", "solids2", "solids3", "tmp0", "norm0", "rhs1", "e1", "tmp1",
                           "mask1", "norm1", "phi1"}
           W3 == G \union {"solids1", "mask1", "phi1"}
           W4 == G \union {"solids1", "mask1", "phi1", "solids2"}
           S10 == G \union {"solids1", "solids2", "solids3", "tmp0", "norm0", "rhs1", "e1", "tmp1",
                            "mask1", "norm1", "phi1", "rhs2"}
           S11 == G \union {"solids1", "solids2", "solids3", "tmp0", "norm0", "rhs1", "e1", "tmp1",
                            "mask1", "norm1", "phi1", "rhs2", "e2"}
           S12 == G \union {"solids1", "solids2", "solids3", "tmp0", "norm0", "rhs1", "e1", "tmp1",
                            "mask1", "norm1", "phi1", "rhs2", "e2", "mask2"}
           W5 == G \union {"solids1", "mask1", "phi1", "solids2", "mask2"}
           S13 == G \union {"solids1", "solids2", "solids3", "tmp0", "norm0", "rhs1", "e1", "tmp1",
                            "mask1", "norm1", "phi1", "rhs2", "e2", "mask2", "phi2"}
           W6 == G \union {"solids1", "mask1", "phi1", "solids2", "mask2", "phi2"}
           W7 == G \union {"solids1", "mask1", "phi1", "solids2", "mask2", "phi2", "solids3"}
           S14 == G \union {"solids1", "solids2", "solids3", "tmp0", "norm0", "rhs1", "e1", "tmp1",
                            "mask1", "norm1", "phi1", "rhs2", "e2", "mask2", "phi2", "sum"}
           W8 == G \union {"solids1", "mask1", "phi1", "solids2", "mask2", "phi2", "solids3",
                           "norm0"}
           W9 == G \union {"solids1", "mask1", "phi1", "solids2", "mask2", "phi2", "solids3",
                           "norm0", "norm1"}
<1>0. /\ G \intersect LevelNames = {} /\ G \intersect Slots = {} /\ {"cells", "half", "quarter"} \subseteq PoolShapes
      /\ LevelNames = {"rhs1", "rhs2", "e1", "e2", "tmp0", "tmp1", "mask1", "mask2", "norm0",
                       "norm1", "phi1", "phi2"}
      /\ LevelNames \intersect Slots = {} /\ {"solids1", "solids2", "solids3",
                                              "sum"} \subseteq Slots /\ "mask" \in G
  BY Apart, Levels DEF LevelNames, Scratch
<1>1. Runs(m, TRUE, NewTarget({"solids1", "solids2", "solids3"}), Pt(S0, W0), Pt(S1, W0))
  <2>1. {"solids1", "solids2", "solids3"} \subseteq Slots /\ W0 \intersect {"solids1", "solids2", "solids3"} = {} /\ S1 = S0 \union {"solids1", "solids2", "solids3"}
    BY <1>0
  <2> HIDE DEF S0, S1, S2, S3, S4, S5, S6, S7, S8, S9, S10, S11, S12, S13, S14, W0, W1, W2, W3, W4,
               W5, W6, W7, W8, W9
  <2> QED
    BY <1>0, <2>1, PtTargets
<1>2. Runs(m, TRUE, Acquire("tmp0", "cells"), Pt(S1, W0), Pt(S2, W0))
  <2>1. "tmp0" \notin S1 /\ "tmp0" \notin Slots /\ W0 \subseteq S1 /\ S2 = S1 \union {"tmp0"}
    BY <1>0
  <2> HIDE DEF S0, S1, S2, S3, S4, S5, S6, S7, S8, S9, S10, S11, S12, S13, S14, W0, W1, W2, W3, W4,
               W5, W6, W7, W8, W9
  <2> QED
    BY <1>0, <2>1, PtAcquires
<1>3. Runs(m, TRUE, Acquire("norm0", "cells"), Pt(S2, W0), Pt(S3, W0))
  <2>1. "norm0" \notin S2 /\ "norm0" \notin Slots /\ W0 \subseteq S2 /\ S3 = S2 \union {"norm0"}
    BY <1>0
  <2> HIDE DEF S0, S1, S2, S3, S4, S5, S6, S7, S8, S9, S10, S11, S12, S13, S14, W0, W1, W2, W3, W4,
               W5, W6, W7, W8, W9
  <2> QED
    BY <1>0, <2>1, PtAcquires
<1>4. Runs(m, TRUE, Dispatch("reduce", {"mask"}, {"solids1"}), Pt(S3, W0), Pt(S3, W1))
  <2>1. {"mask"} \subseteq W0 /\ {"solids1"} \subseteq S3 /\ W1 = W0 \union {"solids1"}
    BY <1>0
  <2> HIDE DEF S0, S1, S2, S3, S4, S5, S6, S7, S8, S9, S10, S11, S12, S13, S14, W0, W1, W2, W3, W4,
               W5, W6, W7, W8, W9
  <2> QED
    BY <1>0, <2>1, PtWrites
<1>5. Runs(m, TRUE, Acquire("rhs1", "half"), Pt(S3, W1), Pt(S4, W1))
  <2>1. "rhs1" \notin S3 /\ "rhs1" \notin Slots /\ W1 \subseteq S3 /\ S4 = S3 \union {"rhs1"}
    BY <1>0
  <2> HIDE DEF S0, S1, S2, S3, S4, S5, S6, S7, S8, S9, S10, S11, S12, S13, S14, W0, W1, W2, W3, W4,
               W5, W6, W7, W8, W9
  <2> QED
    BY <1>0, <2>1, PtAcquires
<1>6. Runs(m, TRUE, Acquire("e1", "half"), Pt(S4, W1), Pt(S5, W1))
  <2>1. "e1" \notin S4 /\ "e1" \notin Slots /\ W1 \subseteq S4 /\ S5 = S4 \union {"e1"}
    BY <1>0
  <2> HIDE DEF S0, S1, S2, S3, S4, S5, S6, S7, S8, S9, S10, S11, S12, S13, S14, W0, W1, W2, W3, W4,
               W5, W6, W7, W8, W9
  <2> QED
    BY <1>0, <2>1, PtAcquires
<1>7. Runs(m, TRUE, Acquire("tmp1", "half"), Pt(S5, W1), Pt(S6, W1))
  <2>1. "tmp1" \notin S5 /\ "tmp1" \notin Slots /\ W1 \subseteq S5 /\ S6 = S5 \union {"tmp1"}
    BY <1>0
  <2> HIDE DEF S0, S1, S2, S3, S4, S5, S6, S7, S8, S9, S10, S11, S12, S13, S14, W0, W1, W2, W3, W4,
               W5, W6, W7, W8, W9
  <2> QED
    BY <1>0, <2>1, PtAcquires
<1>8. Runs(m, TRUE, Acquire("mask1", "half"), Pt(S6, W1), Pt(S7, W1))
  <2>1. "mask1" \notin S6 /\ "mask1" \notin Slots /\ W1 \subseteq S6 /\ S7 = S6 \union {"mask1"}
    BY <1>0
  <2> HIDE DEF S0, S1, S2, S3, S4, S5, S6, S7, S8, S9, S10, S11, S12, S13, S14, W0, W1, W2, W3, W4,
               W5, W6, W7, W8, W9
  <2> QED
    BY <1>0, <2>1, PtAcquires
<1>9. Runs(m, TRUE, Dispatch("restrict_mask", {"mask"}, {"mask1"}), Pt(S7, W1), Pt(S7, W2))
  <2>1. {"mask"} \subseteq W1 /\ {"mask1"} \subseteq S7 /\ W2 = W1 \union {"mask1"}
    BY <1>0
  <2> HIDE DEF S0, S1, S2, S3, S4, S5, S6, S7, S8, S9, S10, S11, S12, S13, S14, W0, W1, W2, W3, W4,
               W5, W6, W7, W8, W9
  <2> QED
    BY <1>0, <2>1, PtWrites
<1>10. Runs(m, TRUE, Acquire("norm1", "half"), Pt(S7, W2), Pt(S8, W2))
  <2>1. "norm1" \notin S7 /\ "norm1" \notin Slots /\ W2 \subseteq S7 /\ S8 = S7 \union {"norm1"}
    BY <1>0
  <2> HIDE DEF S0, S1, S2, S3, S4, S5, S6, S7, S8, S9, S10, S11, S12, S13, S14, W0, W1, W2, W3, W4,
               W5, W6, W7, W8, W9
  <2> QED
    BY <1>0, <2>1, PtAcquires
<1>11. Runs(m, TRUE, Acquire("phi1", "half"), Pt(S8, W2), Pt(S9, W2))
  <2>1. "phi1" \notin S8 /\ "phi1" \notin Slots /\ W2 \subseteq S8 /\ S9 = S8 \union {"phi1"}
    BY <1>0
  <2> HIDE DEF S0, S1, S2, S3, S4, S5, S6, S7, S8, S9, S10, S11, S12, S13, S14, W0, W1, W2, W3, W4,
               W5, W6, W7, W8, W9
  <2> QED
    BY <1>0, <2>1, PtAcquires
<1>12. Runs(m, TRUE, Dispatch("restrict_fraction", {"mask"}, {"phi1"}), Pt(S9, W2), Pt(S9, W3))
  <2>1. {"mask"} \subseteq W2 /\ {"phi1"} \subseteq S9 /\ W3 = W2 \union {"phi1"}
    BY <1>0
  <2> HIDE DEF S0, S1, S2, S3, S4, S5, S6, S7, S8, S9, S10, S11, S12, S13, S14, W0, W1, W2, W3, W4,
               W5, W6, W7, W8, W9
  <2> QED
    BY <1>0, <2>1, PtWrites
<1>13. Runs(m, TRUE, Dispatch("reduce", {"mask1"}, {"solids2"}), Pt(S9, W3), Pt(S9, W4))
  <2>1. {"mask1"} \subseteq W3 /\ {"solids2"} \subseteq S9 /\ W4 = W3 \union {"solids2"}
    BY <1>0
  <2> HIDE DEF S0, S1, S2, S3, S4, S5, S6, S7, S8, S9, S10, S11, S12, S13, S14, W0, W1, W2, W3, W4,
               W5, W6, W7, W8, W9
  <2> QED
    BY <1>0, <2>1, PtWrites
<1>14. Runs(m, TRUE, Acquire("rhs2", "quarter"), Pt(S9, W4), Pt(S10, W4))
  <2>1. "rhs2" \notin S9 /\ "rhs2" \notin Slots /\ W4 \subseteq S9 /\ S10 = S9 \union {"rhs2"}
    BY <1>0
  <2> HIDE DEF S0, S1, S2, S3, S4, S5, S6, S7, S8, S9, S10, S11, S12, S13, S14, W0, W1, W2, W3, W4,
               W5, W6, W7, W8, W9
  <2> QED
    BY <1>0, <2>1, PtAcquires
<1>15. Runs(m, TRUE, Acquire("e2", "quarter"), Pt(S10, W4), Pt(S11, W4))
  <2>1. "e2" \notin S10 /\ "e2" \notin Slots /\ W4 \subseteq S10 /\ S11 = S10 \union {"e2"}
    BY <1>0
  <2> HIDE DEF S0, S1, S2, S3, S4, S5, S6, S7, S8, S9, S10, S11, S12, S13, S14, W0, W1, W2, W3, W4,
               W5, W6, W7, W8, W9
  <2> QED
    BY <1>0, <2>1, PtAcquires
<1>16. Runs(m, TRUE, Acquire("mask2", "quarter"), Pt(S11, W4), Pt(S12, W4))
  <2>1. "mask2" \notin S11 /\ "mask2" \notin Slots /\ W4 \subseteq S11 /\ S12 = S11 \union {"mask2"}
    BY <1>0
  <2> HIDE DEF S0, S1, S2, S3, S4, S5, S6, S7, S8, S9, S10, S11, S12, S13, S14, W0, W1, W2, W3, W4,
               W5, W6, W7, W8, W9
  <2> QED
    BY <1>0, <2>1, PtAcquires
<1>17. Runs(m, TRUE, Dispatch("restrict_mask", {"mask1"}, {"mask2"}), Pt(S12, W4), Pt(S12, W5))
  <2>1. {"mask1"} \subseteq W4 /\ {"mask2"} \subseteq S12 /\ W5 = W4 \union {"mask2"}
    BY <1>0
  <2> HIDE DEF S0, S1, S2, S3, S4, S5, S6, S7, S8, S9, S10, S11, S12, S13, S14, W0, W1, W2, W3, W4,
               W5, W6, W7, W8, W9
  <2> QED
    BY <1>0, <2>1, PtWrites
<1>18. Runs(m, TRUE, Acquire("phi2", "quarter"), Pt(S12, W5), Pt(S13, W5))
  <2>1. "phi2" \notin S12 /\ "phi2" \notin Slots /\ W5 \subseteq S12 /\ S13 = S12 \union {"phi2"}
    BY <1>0
  <2> HIDE DEF S0, S1, S2, S3, S4, S5, S6, S7, S8, S9, S10, S11, S12, S13, S14, W0, W1, W2, W3, W4,
               W5, W6, W7, W8, W9
  <2> QED
    BY <1>0, <2>1, PtAcquires
<1>19. Runs(m, TRUE, Dispatch("restrict_fraction", {"phi1"}, {"phi2"}), Pt(S13, W5), Pt(S13, W6))
  <2>1. {"phi1"} \subseteq W5 /\ {"phi2"} \subseteq S13 /\ W6 = W5 \union {"phi2"}
    BY <1>0
  <2> HIDE DEF S0, S1, S2, S3, S4, S5, S6, S7, S8, S9, S10, S11, S12, S13, S14, W0, W1, W2, W3, W4,
               W5, W6, W7, W8, W9
  <2> QED
    BY <1>0, <2>1, PtWrites
<1>20. Runs(m, TRUE, Dispatch("reduce", {"mask2"}, {"solids3"}), Pt(S13, W6), Pt(S13, W7))
  <2>1. {"mask2"} \subseteq W6 /\ {"solids3"} \subseteq S13 /\ W7 = W6 \union {"solids3"}
    BY <1>0
  <2> HIDE DEF S0, S1, S2, S3, S4, S5, S6, S7, S8, S9, S10, S11, S12, S13, S14, W0, W1, W2, W3, W4,
               W5, W6, W7, W8, W9
  <2> QED
    BY <1>0, <2>1, PtWrites
<1>21. Runs(m, TRUE, NewTarget({"sum"}), Pt(S13, W7), Pt(S14, W7))
  <2>1. {"sum"} \subseteq Slots /\ W7 \intersect {"sum"} = {} /\ S14 = S13 \union {"sum"}
    BY <1>0
  <2> HIDE DEF S0, S1, S2, S3, S4, S5, S6, S7, S8, S9, S10, S11, S12, S13, S14, W0, W1, W2, W3, W4,
               W5, W6, W7, W8, W9
  <2> QED
    BY <1>0, <2>1, PtTargets
<1>22. Runs(m, TRUE, Dispatch("prolong_norm", {"mask", "mask1"}, {"norm0"}), Pt(S14, W7),
            Pt(S14, W8))
  <2>1. {"mask", "mask1"} \subseteq W7 /\ {"norm0"} \subseteq S14 /\ W8 = W7 \union {"norm0"}
    BY <1>0
  <2> HIDE DEF S0, S1, S2, S3, S4, S5, S6, S7, S8, S9, S10, S11, S12, S13, S14, W0, W1, W2, W3, W4,
               W5, W6, W7, W8, W9
  <2> QED
    BY <1>0, <2>1, PtWrites
<1>23. Runs(m, TRUE, Dispatch("prolong_norm", {"mask1", "mask2"}, {"norm1"}), Pt(S14, W8),
            Pt(S14, W9))
  <2>1. {"mask1", "mask2"} \subseteq W8 /\ {"norm1"} \subseteq S14 /\ W9 = W8 \union {"norm1"}
    BY <1>0
  <2> HIDE DEF S0, S1, S2, S3, S4, S5, S6, S7, S8, S9, S10, S11, S12, S13, S14, W0, W1, W2, W3, W4,
               W5, W6, W7, W8, W9
  <2> QED
    BY <1>0, <2>1, PtWrites
<1>24. /\ Level(m, 1) = <<>>
             \o Acquire("tmp0", "cells")
             \o <<>>
             \o Acquire("norm0", "cells")
             \o <<>>
             \o Dispatch("reduce", {"mask"}, {"solids1"})
      /\ Level(m, 2) = (Acquire("rhs1", "half") \o Acquire("e1", "half"))
             \o Acquire("tmp1", "half")
             \o (Acquire("mask1", "half") \o Dispatch("restrict_mask", {"mask"}, {"mask1"}))
             \o Acquire("norm1", "half")
             \o (Acquire("phi1", "half") \o Dispatch("restrict_fraction", {"mask"}, {"phi1"}))
             \o Dispatch("reduce", {"mask1"}, {"solids2"})
      /\ Level(m, 3) = (Acquire("rhs2", "quarter") \o Acquire("e2", "quarter"))
             \o <<>>
             \o (Acquire("mask2", "quarter") \o Dispatch("restrict_mask", {"mask1"}, {"mask2"}))
             \o <<>>
             \o (Acquire("phi2", "quarter") \o Dispatch("restrict_fraction", {"phi1"}, {"phi2"}))
             \o Dispatch("reduce", {"mask2"}, {"solids3"})
  <2>1. /\ Rhs[2] = "rhs1" /\ Rhs[3] = "rhs2" /\ E[2] = "e1" /\ E[3] = "e2" /\ Tmp[1] = "tmp0" /\ Tmp[2] = "tmp1"
        /\ Shapes[1] = "cells" /\ Shapes[2] = "half" /\ Shapes[3] = "quarter"
        /\ CoarseMask[1] = "mask" /\ CoarseMask[2] = "mask1" /\ CoarseMask[3] = "mask2"
        /\ Norm[1] = "norm0" /\ Norm[2] = "norm1" /\ Phi[2] = "phi1" /\ Phi[3] = "phi2"
        /\ SolidCount[1] = "solids1" /\ SolidCount[2] = "solids2" /\ SolidCount[3] = "solids3"
    BY DEF Rhs, E, Tmp, Shapes, CoarseMask, Norm, Phi, SolidCount
  <2>2. /\ 2 - 1 = 1 /\ 3 - 1 = 2 /\ Depth = 3 /\ ~(1 > 1) /\ 2 > 1 /\ 3 > 1 /\ 1 < 3 /\ 2 < 3 /\ ~(3 < 3) /\ 2 # 3
    BY DEF Depth
  <2> QED
    BY <2>1, <2>2, Zenon DEF Level, When, RestrictMask, RestrictFraction, Reduce
<1> HIDE DEF S0, S1, S2, S3, S4, S5, S6, S7, S8, S9, S10, S11, S12, S13, S14, W0, W1, W2, W3, W4,
             W5, W6, W7, W8, W9
<1>25. Runs(m, TRUE, Level(m, 1), Pt(S1, W0), Pt(S3, W1))
  <2>1. /\ Runs(m, TRUE, <<>>, Pt(S1, W0), Pt(S1, W0))
        /\ Runs(m, TRUE, <<>>, Pt(S2, W0), Pt(S2, W0))
        /\ Runs(m, TRUE, <<>>, Pt(S3, W0), Pt(S3, W0))
    BY RunsNothing, CoversAll
  <2> DEFINE p1 == <<>>
             p2 == Acquire("tmp0", "cells")
             p3 == <<>>
             p4 == Acquire("norm0", "cells")
             p5 == <<>>
             p6 == Dispatch("reduce", {"mask"}, {"solids1"})
  <2>2. Level(m, 1) = p1 \o p2 \o p3 \o p4 \o p5 \o p6
    BY <1>24
  <2>3. /\ Runs(m, TRUE, p1, Pt(S1, W0), Pt(S1, W0))
        /\ Runs(m, TRUE, p2, Pt(S1, W0), Pt(S2, W0))
        /\ Runs(m, TRUE, p3, Pt(S2, W0), Pt(S2, W0))
        /\ Runs(m, TRUE, p4, Pt(S2, W0), Pt(S3, W0))
        /\ Runs(m, TRUE, p5, Pt(S3, W0), Pt(S3, W0))
        /\ Runs(m, TRUE, p6, Pt(S3, W0), Pt(S3, W1))
    BY <1>2, <1>3, <1>4, <2>1
  <2> HIDE DEF p1, p2, p3, p4, p5, p6
  <2> QED
    BY <2>2, <2>3, RunsThen
<1>26. Runs(m, TRUE, Level(m, 2), Pt(S3, W1), Pt(S9, W4))
  <2>2. Runs(m, TRUE, Acquire("rhs1", "half") \o Acquire("e1", "half"), Pt(S3, W1), Pt(S5, W1))
    BY <1>5, <1>6, RunsThen
  <2>3. Runs(m, TRUE, Acquire("mask1", "half") \o Dispatch("restrict_mask", {"mask"}, {"mask1"}),
             Pt(S6, W1), Pt(S7, W2))
    BY <1>8, <1>9, RunsThen
  <2>4. Runs(m, TRUE, Acquire("phi1", "half") \o Dispatch("restrict_fraction", {"mask"}, {"phi1"}),
             Pt(S8, W2), Pt(S9, W3))
    BY <1>11, <1>12, RunsThen
  <2> DEFINE p1 == Acquire("rhs1", "half") \o Acquire("e1", "half")
             p2 == Acquire("tmp1", "half")
             p3 == Acquire("mask1", "half") \o Dispatch("restrict_mask", {"mask"}, {"mask1"})
             p4 == Acquire("norm1", "half")
             p5 == Acquire("phi1", "half") \o Dispatch("restrict_fraction", {"mask"}, {"phi1"})
             p6 == Dispatch("reduce", {"mask1"}, {"solids2"})
  <2>5. Level(m, 2) = p1 \o p2 \o p3 \o p4 \o p5 \o p6
    BY <1>24
  <2>6. /\ Runs(m, TRUE, p1, Pt(S3, W1), Pt(S5, W1))
        /\ Runs(m, TRUE, p2, Pt(S5, W1), Pt(S6, W1))
        /\ Runs(m, TRUE, p3, Pt(S6, W1), Pt(S7, W2))
        /\ Runs(m, TRUE, p4, Pt(S7, W2), Pt(S8, W2))
        /\ Runs(m, TRUE, p5, Pt(S8, W2), Pt(S9, W3))
        /\ Runs(m, TRUE, p6, Pt(S9, W3), Pt(S9, W4))
    BY <1>7, <1>10, <1>13, <2>2, <2>3, <2>4
  <2> HIDE DEF p1, p2, p3, p4, p5, p6
  <2> QED
    BY <2>5, <2>6, RunsThen
<1>27. Runs(m, TRUE, Level(m, 3), Pt(S9, W4), Pt(S13, W7))
  <2>1. /\ Runs(m, TRUE, <<>>, Pt(S11, W4), Pt(S11, W4))
        /\ Runs(m, TRUE, <<>>, Pt(S12, W5), Pt(S12, W5))
    BY RunsNothing, CoversAll
  <2>2. Runs(m, TRUE, Acquire("rhs2", "quarter") \o Acquire("e2", "quarter"), Pt(S9, W4),
             Pt(S11, W4))
    BY <1>14, <1>15, RunsThen
  <2>3. Runs(m, TRUE, Acquire("mask2", "quarter") \o Dispatch("restrict_mask", {"mask1"}, {"mask2"}), Pt(S11, W4), Pt(S12, W5))
    BY <1>16, <1>17, RunsThen
  <2>4. Runs(m, TRUE, Acquire("phi2", "quarter") \o Dispatch("restrict_fraction", {"phi1"}, {"phi2"}), Pt(S12, W5), Pt(S13, W6))
    BY <1>18, <1>19, RunsThen
  <2> DEFINE p1 == Acquire("rhs2", "quarter") \o Acquire("e2", "quarter")
             p2 == <<>>
             p3 == Acquire("mask2", "quarter") \o Dispatch("restrict_mask", {"mask1"}, {"mask2"})
             p4 == <<>>
             p5 == Acquire("phi2", "quarter") \o Dispatch("restrict_fraction", {"phi1"}, {"phi2"})
             p6 == Dispatch("reduce", {"mask2"}, {"solids3"})
  <2>5. Level(m, 3) = p1 \o p2 \o p3 \o p4 \o p5 \o p6
    BY <1>24
  <2>6. /\ Runs(m, TRUE, p1, Pt(S9, W4), Pt(S11, W4))
        /\ Runs(m, TRUE, p2, Pt(S11, W4), Pt(S11, W4))
        /\ Runs(m, TRUE, p3, Pt(S11, W4), Pt(S12, W5))
        /\ Runs(m, TRUE, p4, Pt(S12, W5), Pt(S12, W5))
        /\ Runs(m, TRUE, p5, Pt(S12, W5), Pt(S13, W6))
        /\ Runs(m, TRUE, p6, Pt(S13, W6), Pt(S13, W7))
    BY <1>20, <2>1, <2>2, <2>3, <2>4
  <2> HIDE DEF p1, p2, p3, p4, p5, p6
  <2> QED
    BY <2>5, <2>6, RunsThen
<1>28. Runs(m, TRUE, FlattenSeq([l \in 1..Depth |-> Level(m, l)]), Pt(S1, W0), Pt(S13, W7))
  <2> DEFINE P == [l \in 1..Depth |-> Level(m, l)]
  <2>1. P = [l \in 1..3 |-> P[l]] /\ P[1] = Level(m, 1) /\ P[2] = Level(m, 2) /\ P[3] = Level(m, 3)
    BY DEF Depth
  <2> HIDE DEF P
  <2>2. Runs(m, TRUE, P[1], Pt(S1, W0), Pt(S3, W1))
    BY <1>25, <2>1
  <2>3. Runs(m, TRUE, P[2], Pt(S3, W1), Pt(S9, W4))
    BY <1>26, <2>1
  <2>4. Runs(m, TRUE, P[3], Pt(S9, W4), Pt(S13, W7))
    BY <1>27, <2>1
  <2>5. P = [l \in 1..3 |-> P[l]]
    BY <2>1
  <2>6. Runs(m, TRUE, FlattenSeq(P), Pt(S1, W0), Pt(S13, W7))
    BY <2>2, <2>3, <2>4, <2>5, RunsAxes
  <2> QED
    BY <2>6 DEF P
<1>29. Runs(m, TRUE, FlattenSeq([l \in 1..(Depth - 1) |-> ProlongNorm(m, l)]), Pt(S14, W7),
            Pt(S14, W9))
  <2> DEFINE P == [l \in 1..(Depth - 1) |-> ProlongNorm(m, l)]
  <2>1. P = [l \in 1..2 |-> P[l]] /\ P[1] = ProlongNorm(m, 1) /\ P[2] = ProlongNorm(m, 2)
    BY DEF Depth
  <2>2. /\ CoarseMask[1] = "mask" /\ CoarseMask[2] = "mask1" /\ CoarseMask[3] = "mask2"
        /\ Norm[1] = "norm0" /\ Norm[2] = "norm1" /\ 1 + 1 = 2 /\ 2 + 1 = 3
    BY DEF CoarseMask, Norm
  <2>3. {"mask"} \union {"mask1"} = {"mask", "mask1"} /\ {"mask1"} \union {"mask2"} = {"mask1", "mask2"}
    OBVIOUS
  <2>4. ProlongNorm(m, 1) = Dispatch("prolong_norm", {"mask", "mask1"},
                                     {"norm0"}) /\ ProlongNorm(m, 2) = Dispatch("prolong_norm", {"mask1", "mask2"}, {"norm1"})
    BY <2>2, <2>3 DEF ProlongNorm, MaskAt
  <2> HIDE DEF P
  <2>5. Runs(m, TRUE, FlattenSeq(P), Pt(S14, W7), Pt(S14, W9))
    BY <1>22, <1>23, <2>1, <2>4, RunsTwo
  <2> QED
    BY <2>5 DEF P
<1>30. Hierarchy(m) = Dropping(NewTarget({"solids1", "solids2",
                                          "solids3"}) \o FlattenSeq([l \in 1..Depth |-> Level(m, l)])
                       \o NewTarget({"sum"}) \o FlattenSeq([l \in 1..(Depth - 1) |-> ProlongNorm(m, l)]), HierarchyNames)
  BY Sequences_ DEF Hierarchy, When
<1>31. Runs(m, TRUE, NewTarget({"solids1", "solids2",
                                "solids3"}) \o FlattenSeq([l \in 1..Depth |-> Level(m, l)])
                       \o NewTarget({"sum"}) \o FlattenSeq([l \in 1..(Depth - 1) |-> ProlongNorm(m, l)]), Pt(S0, W0), Pt(S14, W9))
  BY <1>1, <1>28, <1>21, <1>29, RunsThen
<1>32. HierarchyNames \intersect Slots = {}
  BY <1>0, Levels
<1>33. Runs(m, FALSE, Hierarchy(m), Pt(S0, W0), Pt(S14, W9))
  BY <1>30, <1>31, <1>32, DroppingRuns
<1>34. /\ Ready(m, S14, W9) /\ G \subseteq W9 /\ S14 \ Slots \subseteq G \union HierarchyNames
      /\ W9 \intersect PcgSlots = {} /\ S0 = G /\ W0 = G
  BY <1>0, Levels, Sequences_, Apart DEF Ready, Corrections, Masks, PcgSlots, S14, W9, S0, W0
<1> QED
  BY <1>33, <1>34 DEF BuildsHierarchy

LEMMA PlainHierarchyRuns ==
    ASSUME NEW m, ~m.collider, NEW G, G \intersect HierarchyNames = {}, G \intersect Slots = {}
    PROVE  BuildsHierarchy(m, G)
<1> DEFINE S0 == G
           W0 == G
           S1 == G \union {"solids1", "solids2", "solids3"}
           S2 == G \union {"solids1", "solids2", "solids3", "tmp0"}
           S3 == G \union {"solids1", "solids2", "solids3", "tmp0", "rhs1"}
           S4 == G \union {"solids1", "solids2", "solids3", "tmp0", "rhs1", "e1"}
           S5 == G \union {"solids1", "solids2", "solids3", "tmp0", "rhs1", "e1", "tmp1"}
           S6 == G \union {"solids1", "solids2", "solids3", "tmp0", "rhs1", "e1", "tmp1", "rhs2"}
           S7 == G \union {"solids1", "solids2", "solids3", "tmp0", "rhs1", "e1", "tmp1", "rhs2",
                           "e2"}
           S8 == G \union {"solids1", "solids2", "solids3", "tmp0", "rhs1", "e1", "tmp1", "rhs2",
                           "e2", "sum"}
<1>0. /\ G \intersect LevelNames = {} /\ G \intersect Slots = {} /\ {"cells", "half", "quarter"} \subseteq PoolShapes
      /\ LevelNames = {"rhs1", "rhs2", "e1", "e2", "tmp0", "tmp1", "mask1", "mask2", "norm0",
                       "norm1", "phi1", "phi2"}
      /\ LevelNames \intersect Slots = {} /\ {"solids1", "solids2", "solids3",
                                              "sum"} \subseteq Slots
  BY Apart, Levels DEF LevelNames, Scratch
<1>1. Runs(m, TRUE, NewTarget({"solids1", "solids2", "solids3"}), Pt(S0, W0), Pt(S1, W0))
  <2>1. {"solids1", "solids2", "solids3"} \subseteq Slots /\ W0 \intersect {"solids1", "solids2", "solids3"} = {} /\ S1 = S0 \union {"solids1", "solids2", "solids3"}
    BY <1>0
  <2> HIDE DEF S0, S1, S2, S3, S4, S5, S6, S7, S8, W0
  <2> QED
    BY <1>0, <2>1, PtTargets
<1>2. Runs(m, TRUE, Acquire("tmp0", "cells"), Pt(S1, W0), Pt(S2, W0))
  <2>1. "tmp0" \notin S1 /\ "tmp0" \notin Slots /\ W0 \subseteq S1 /\ S2 = S1 \union {"tmp0"}
    BY <1>0
  <2> HIDE DEF S0, S1, S2, S3, S4, S5, S6, S7, S8, W0
  <2> QED
    BY <1>0, <2>1, PtAcquires
<1>3. Runs(m, TRUE, Acquire("rhs1", "half"), Pt(S2, W0), Pt(S3, W0))
  <2>1. "rhs1" \notin S2 /\ "rhs1" \notin Slots /\ W0 \subseteq S2 /\ S3 = S2 \union {"rhs1"}
    BY <1>0
  <2> HIDE DEF S0, S1, S2, S3, S4, S5, S6, S7, S8, W0
  <2> QED
    BY <1>0, <2>1, PtAcquires
<1>4. Runs(m, TRUE, Acquire("e1", "half"), Pt(S3, W0), Pt(S4, W0))
  <2>1. "e1" \notin S3 /\ "e1" \notin Slots /\ W0 \subseteq S3 /\ S4 = S3 \union {"e1"}
    BY <1>0
  <2> HIDE DEF S0, S1, S2, S3, S4, S5, S6, S7, S8, W0
  <2> QED
    BY <1>0, <2>1, PtAcquires
<1>5. Runs(m, TRUE, Acquire("tmp1", "half"), Pt(S4, W0), Pt(S5, W0))
  <2>1. "tmp1" \notin S4 /\ "tmp1" \notin Slots /\ W0 \subseteq S4 /\ S5 = S4 \union {"tmp1"}
    BY <1>0
  <2> HIDE DEF S0, S1, S2, S3, S4, S5, S6, S7, S8, W0
  <2> QED
    BY <1>0, <2>1, PtAcquires
<1>6. Runs(m, TRUE, Acquire("rhs2", "quarter"), Pt(S5, W0), Pt(S6, W0))
  <2>1. "rhs2" \notin S5 /\ "rhs2" \notin Slots /\ W0 \subseteq S5 /\ S6 = S5 \union {"rhs2"}
    BY <1>0
  <2> HIDE DEF S0, S1, S2, S3, S4, S5, S6, S7, S8, W0
  <2> QED
    BY <1>0, <2>1, PtAcquires
<1>7. Runs(m, TRUE, Acquire("e2", "quarter"), Pt(S6, W0), Pt(S7, W0))
  <2>1. "e2" \notin S6 /\ "e2" \notin Slots /\ W0 \subseteq S6 /\ S7 = S6 \union {"e2"}
    BY <1>0
  <2> HIDE DEF S0, S1, S2, S3, S4, S5, S6, S7, S8, W0
  <2> QED
    BY <1>0, <2>1, PtAcquires
<1>8. Runs(m, TRUE, NewTarget({"sum"}), Pt(S7, W0), Pt(S8, W0))
  <2>1. {"sum"} \subseteq Slots /\ W0 \intersect {"sum"} = {} /\ S8 = S7 \union {"sum"}
    BY <1>0
  <2> HIDE DEF S0, S1, S2, S3, S4, S5, S6, S7, S8, W0
  <2> QED
    BY <1>0, <2>1, PtTargets
<1>9. /\ Level(m, 1) = <<>>
             \o Acquire("tmp0", "cells")
             \o <<>>
             \o <<>>
             \o <<>>
             \o <<>>
      /\ Level(m, 2) = (Acquire("rhs1", "half") \o Acquire("e1", "half"))
             \o Acquire("tmp1", "half")
             \o <<>>
             \o <<>>
             \o <<>>
             \o <<>>
      /\ Level(m, 3) = (Acquire("rhs2", "quarter") \o Acquire("e2", "quarter"))
             \o <<>>
             \o <<>>
             \o <<>>
             \o <<>>
             \o <<>>
  <2>1. /\ Rhs[2] = "rhs1" /\ Rhs[3] = "rhs2" /\ E[2] = "e1" /\ E[3] = "e2" /\ Tmp[1] = "tmp0" /\ Tmp[2] = "tmp1"
        /\ Shapes[1] = "cells" /\ Shapes[2] = "half" /\ Shapes[3] = "quarter"
        /\ CoarseMask[1] = "mask" /\ CoarseMask[2] = "mask1" /\ CoarseMask[3] = "mask2"
        /\ Norm[1] = "norm0" /\ Norm[2] = "norm1" /\ Phi[2] = "phi1" /\ Phi[3] = "phi2"
        /\ SolidCount[1] = "solids1" /\ SolidCount[2] = "solids2" /\ SolidCount[3] = "solids3"
    BY DEF Rhs, E, Tmp, Shapes, CoarseMask, Norm, Phi, SolidCount
  <2>2. /\ 2 - 1 = 1 /\ 3 - 1 = 2 /\ Depth = 3 /\ ~(1 > 1) /\ 2 > 1 /\ 3 > 1 /\ 1 < 3 /\ 2 < 3 /\ ~(3 < 3) /\ 2 # 3
    BY DEF Depth
  <2> QED
    BY <2>1, <2>2, Zenon DEF Level, When, RestrictMask, RestrictFraction, Reduce
<1> HIDE DEF S0, S1, S2, S3, S4, S5, S6, S7, S8, W0
<1>10. Runs(m, TRUE, Level(m, 1), Pt(S1, W0), Pt(S2, W0))
  <2>1. /\ Runs(m, TRUE, <<>>, Pt(S1, W0), Pt(S1, W0))
        /\ Runs(m, TRUE, <<>>, Pt(S2, W0), Pt(S2, W0))
    BY RunsNothing, CoversAll
  <2> DEFINE p1 == <<>>
             p2 == Acquire("tmp0", "cells")
             p3 == <<>>
             p4 == <<>>
             p5 == <<>>
             p6 == <<>>
  <2>2. Level(m, 1) = p1 \o p2 \o p3 \o p4 \o p5 \o p6
    BY <1>9
  <2>3. /\ Runs(m, TRUE, p1, Pt(S1, W0), Pt(S1, W0))
        /\ Runs(m, TRUE, p2, Pt(S1, W0), Pt(S2, W0))
        /\ Runs(m, TRUE, p3, Pt(S2, W0), Pt(S2, W0))
        /\ Runs(m, TRUE, p4, Pt(S2, W0), Pt(S2, W0))
        /\ Runs(m, TRUE, p5, Pt(S2, W0), Pt(S2, W0))
        /\ Runs(m, TRUE, p6, Pt(S2, W0), Pt(S2, W0))
    BY <1>2, <2>1
  <2> HIDE DEF p1, p2, p3, p4, p5, p6
  <2> QED
    BY <2>2, <2>3, RunsThen
<1>11. Runs(m, TRUE, Level(m, 2), Pt(S2, W0), Pt(S5, W0))
  <2>1. Runs(m, TRUE, <<>>, Pt(S5, W0), Pt(S5, W0))
    BY RunsNothing, CoversAll
  <2>2. Runs(m, TRUE, Acquire("rhs1", "half") \o Acquire("e1", "half"), Pt(S2, W0), Pt(S4, W0))
    BY <1>3, <1>4, RunsThen
  <2> DEFINE p1 == Acquire("rhs1", "half") \o Acquire("e1", "half")
             p2 == Acquire("tmp1", "half")
             p3 == <<>>
             p4 == <<>>
             p5 == <<>>
             p6 == <<>>
  <2>3. Level(m, 2) = p1 \o p2 \o p3 \o p4 \o p5 \o p6
    BY <1>9
  <2>4. /\ Runs(m, TRUE, p1, Pt(S2, W0), Pt(S4, W0))
        /\ Runs(m, TRUE, p2, Pt(S4, W0), Pt(S5, W0))
        /\ Runs(m, TRUE, p3, Pt(S5, W0), Pt(S5, W0))
        /\ Runs(m, TRUE, p4, Pt(S5, W0), Pt(S5, W0))
        /\ Runs(m, TRUE, p5, Pt(S5, W0), Pt(S5, W0))
        /\ Runs(m, TRUE, p6, Pt(S5, W0), Pt(S5, W0))
    BY <1>5, <2>1, <2>2
  <2> HIDE DEF p1, p2, p3, p4, p5, p6
  <2> QED
    BY <2>3, <2>4, RunsThen
<1>12. Runs(m, TRUE, Level(m, 3), Pt(S5, W0), Pt(S7, W0))
  <2>1. Runs(m, TRUE, <<>>, Pt(S7, W0), Pt(S7, W0))
    BY RunsNothing, CoversAll
  <2>2. Runs(m, TRUE, Acquire("rhs2", "quarter") \o Acquire("e2", "quarter"), Pt(S5, W0),
             Pt(S7, W0))
    BY <1>6, <1>7, RunsThen
  <2> DEFINE p1 == Acquire("rhs2", "quarter") \o Acquire("e2", "quarter")
             p2 == <<>>
             p3 == <<>>
             p4 == <<>>
             p5 == <<>>
             p6 == <<>>
  <2>3. Level(m, 3) = p1 \o p2 \o p3 \o p4 \o p5 \o p6
    BY <1>9
  <2>4. /\ Runs(m, TRUE, p1, Pt(S5, W0), Pt(S7, W0))
        /\ Runs(m, TRUE, p2, Pt(S7, W0), Pt(S7, W0))
        /\ Runs(m, TRUE, p3, Pt(S7, W0), Pt(S7, W0))
        /\ Runs(m, TRUE, p4, Pt(S7, W0), Pt(S7, W0))
        /\ Runs(m, TRUE, p5, Pt(S7, W0), Pt(S7, W0))
        /\ Runs(m, TRUE, p6, Pt(S7, W0), Pt(S7, W0))
    BY <2>1, <2>2
  <2> HIDE DEF p1, p2, p3, p4, p5, p6
  <2> QED
    BY <2>3, <2>4, RunsThen
<1>13. Runs(m, TRUE, FlattenSeq([l \in 1..Depth |-> Level(m, l)]), Pt(S1, W0), Pt(S7, W0))
  <2> DEFINE P == [l \in 1..Depth |-> Level(m, l)]
  <2>1. P = [l \in 1..3 |-> P[l]] /\ P[1] = Level(m, 1) /\ P[2] = Level(m, 2) /\ P[3] = Level(m, 3)
    BY DEF Depth
  <2> HIDE DEF P
  <2>2. Runs(m, TRUE, P[1], Pt(S1, W0), Pt(S2, W0))
    BY <1>10, <2>1
  <2>3. Runs(m, TRUE, P[2], Pt(S2, W0), Pt(S5, W0))
    BY <1>11, <2>1
  <2>4. Runs(m, TRUE, P[3], Pt(S5, W0), Pt(S7, W0))
    BY <1>12, <2>1
  <2>5. P = [l \in 1..3 |-> P[l]]
    BY <2>1
  <2>6. Runs(m, TRUE, FlattenSeq(P), Pt(S1, W0), Pt(S7, W0))
    BY <2>2, <2>3, <2>4, <2>5, RunsAxes
  <2> QED
    BY <2>6 DEF P
<1>14. Runs(m, TRUE, <<>>, Pt(S8, W0), Pt(S8, W0))
  BY RunsNothing, CoversAll
<1>15. Hierarchy(m) = Dropping(NewTarget({"solids1", "solids2",
                                          "solids3"}) \o FlattenSeq([l \in 1..Depth |-> Level(m, l)])
                       \o NewTarget({"sum"}) \o <<>>, HierarchyNames)
  BY Sequences_ DEF Hierarchy, When
<1>16. Runs(m, TRUE, NewTarget({"solids1", "solids2",
                                "solids3"}) \o FlattenSeq([l \in 1..Depth |-> Level(m, l)])
                       \o NewTarget({"sum"}) \o <<>>, Pt(S0, W0), Pt(S8, W0))
  BY <1>1, <1>13, <1>8, <1>14, RunsThen
<1>17. HierarchyNames \intersect Slots = {}
  BY <1>0, Levels
<1>18. Runs(m, FALSE, Hierarchy(m), Pt(S0, W0), Pt(S8, W0))
  BY <1>15, <1>16, <1>17, DroppingRuns
<1>19. /\ Ready(m, S8, W0) /\ G \subseteq W0 /\ S8 \ Slots \subseteq G \union HierarchyNames
      /\ W0 \intersect PcgSlots = {} /\ S0 = G /\ W0 = G
  BY <1>0, Levels, Sequences_, Apart DEF Ready, Corrections, Masks, PcgSlots, S8, W0, S0, W0
<1> QED
  BY <1>18, <1>19 DEF BuildsHierarchy

-----------------------------------------------------------------------------
(* Conjugate gradients. *)

Pcg == {"r", "zr", "d", "q", "product"}

LEMMA PcgFacts ==
    /\ Range(PcgNames) = Pcg /\ Pcg \intersect Slots = {} /\ PcgSlots \subseteq Slots
    /\ "cells" \in PoolShapes
<1>1. Range(PcgNames) = Pcg
  BY Sequences_ DEF Pcg
<1>2. Pcg \subseteq Scratch
  BY DEF Pcg, Scratch
<1>3. Scratch \intersect Slots = {} /\ "cells" \in PoolShapes
  BY Apart
<1> QED
  BY <1>1, <1>2, <1>3 DEF Slots

LEMMA Ratios ==
    /\ \A i \in Nat : Rz(i) \in {"RZ_A", "RZ_B"} /\ RzNew(i) = Rz(i + 1)
    /\ Rz(0) = "RZ_A"
<1>1. ASSUME NEW i \in Nat
      PROVE  Rz(i) \in {"RZ_A", "RZ_B"} /\ RzNew(i) = Rz(i + 1)
  <2>1. (i % 2 = 0 /\ (i + 1) % 2 # 0) \/ (i % 2 # 0 /\ (i + 1) % 2 = 0)
    OBVIOUS
  <2> QED
    BY <2>1 DEF Rz, RzNew
<1>2. Rz(0) = "RZ_A"
  BY DEF Rz
<1> QED
  BY <1>1, <1>2

LEMMA ApplyMRuns ==
    ASSUME NEW m \in Modes, NEW S, NEW W, Ready(m, S, W), "zr" \in S, "r" \in W
    PROVE  Runs(m, TRUE, ApplyM(m), Pt(S, W), Pt(S, W \union {"zr"}))
<1> DEFINE T == {"zr"}
           V == W \union T
<1>1. T \subseteq S /\ {} \subseteq W /\ W \subseteq V /\ V \subseteq S /\ "zr" \in V /\ "r" \in V
  BY DEF Ready
<1>2. ZeroField("zr") = Dispatch("zero", {}, T)
  BY DEF ZeroField
<1> HIDE DEF T
<1>3. Runs(m, TRUE, Dispatch("zero", {}, T), Pt(S, W), Pt(S, V))
  BY <1>1, PtWrites
<1>4. Ready(m, S, V)
  <2> HIDE DEF V
  <2> QED
    BY <1>1, ReadyGrows
<1> HIDE DEF V
<1>5. 1 \in Nat
  OBVIOUS
<1>6. Runs(m, TRUE, VCycles(m, "zr", "r", 1), Pt(S, V), Pt(S, V))
  BY <1>1, <1>4, <1>5, VCyclesRuns
<1>7. Runs(m, TRUE, ApplyM(m), Pt(S, W), Pt(S, V))
  BY <1>2, <1>3, <1>6, RunsThen DEF ApplyM
<1> QED
  BY <1>7 DEF V, T

LEMMA DotRuns ==
    ASSUME NEW m, NEW S, NEW W, W \subseteq S, NEW a \in W, NEW b \in W, NEW slot \in S,
           "product" \in S
    PROVE  Runs(m, TRUE, Dot(a, b, slot), Pt(S, W), Pt(S, W \union {"product"} \union {slot}))
<1> DEFINE T1 == {"product"}
           T2 == {slot}
           R == {a, b}
           V == W \union T1
           U == V \union T2
<1>1. R \subseteq W /\ T1 \subseteq S /\ T1 \subseteq V /\ T2 \subseteq S
  OBVIOUS
<1>2. Dot(a, b, slot) = Dispatch("multiply", R, T1) \o Dispatch("reduce", T1, T2)
  BY DEF Dot, Reduce
<1> HIDE DEF T1, T2, R
<1>3. Runs(m, TRUE, Dispatch("multiply", R, T1), Pt(S, W), Pt(S, V))
  BY <1>1, PtWrites
<1> HIDE DEF V
<1>4. Runs(m, TRUE, Dispatch("reduce", T1, T2), Pt(S, V), Pt(S, U))
  BY <1>1, PtWrites
<1> HIDE DEF U
<1>5. Runs(m, TRUE, Dot(a, b, slot), Pt(S, W), Pt(S, U))
  BY <1>2, <1>3, <1>4, RunsThen
<1> QED
  BY <1>5 DEF U, V, T1, T2

LEMMA IterationRuns ==
    ASSUME NEW m \in Modes, NEW S, NEW W, Ready(m, S, W), NEW i \in Nat,
           {"r", "zr", "d", "product", "pressure"} \subseteq W, {"q"} \union PcgSlots \subseteq S
    PROVE  Runs(m, TRUE, Iteration(m, i), Pt(S, W \union {Rz(i)}),
                Pt(S, IF i + 1 < m.iterations THEN W \union {Rz(i + 1)} ELSE W))
<1>0. /\ Rz(i) \in PcgSlots /\ RzNew(i) \in PcgSlots /\ RzNew(i) = Rz(i + 1) /\ "DQ" \in PcgSlots
      /\ W \subseteq S
  BY Ratios DEF PcgSlots, Ready
<1> DEFINE V == W \union {Rz(i)}
           Q == {"q"}
           V1 == V \union Q
           V2 == V1 \union {"product"} \union {"DQ"}
           V3 == V2 \union {"zr"}
           V4 == V3 \union {"product"} \union {RzNew(i)}
           K == i + 1 < m.iterations
           Z == W \union {Rz(i + 1)}
           V5 == IF K THEN Z ELSE W
           P == {"product"}
           R1 == {"d", "product"} \union MaskAt(m, 1) \union PhiAt(m, 1)
           R2 == {"d", "q", "pressure", "r", Rz(i), "DQ"}
           T2 == {"pressure", "r"}
           R3 == {"zr", "d", Rz(i), RzNew(i)}
           T3 == {"d"}
           p1 == When(i > 0, Flush)
           p2 == ZeroField("product")
           p3 == Residual(m, "d", "product", "q", 1)
           p4 == Dot("d", "q", "DQ")
           p5 == AxpyPR(i)
           p6 == RemoveRMean(m)
           p7 == ApplyM(m)
           p8 == Dot("r", "zr", RzNew(i))
           p9 == UpdateD(i)
<1>1. MaskAt(m, 1) \subseteq W /\ PhiAt(m, 1) \subseteq W
  BY ReadyFacts
<1>2. /\ P \subseteq V /\ {} \subseteq V /\ V \subseteq S /\ R1 \subseteq V /\ Q \subseteq S
      /\ V1 \subseteq S /\ V2 \subseteq S /\ V3 \subseteq S /\ V4 \subseteq S
      /\ W \subseteq V2 /\ V2 \subseteq S /\ W \subseteq V3 /\ W \subseteq V1
      /\ R2 \subseteq V2 /\ T2 \subseteq V2 /\ R3 \subseteq V4 /\ T3 \subseteq V4
      /\ "d" \in V1 /\ "q" \in V1 /\ "DQ" \in S /\ "product" \in S
      /\ "r" \in V2 /\ "zr" \in S /\ "r" \in V3 /\ "zr" \in V3 /\ RzNew(i) \in S
      /\ Z \subseteq V4 /\ W \subseteq V2
  BY <1>0, <1>1
<1>3. /\ p2 = Dispatch("zero", {}, P) /\ p3 = Dispatch("residual", R1, Q)
      /\ p5 = Dispatch("axpy_p_r", R2, T2) /\ p9 = Dispatch("update_d", R3, T3)
  BY DEF ZeroField, Residual, AxpyPR, UpdateD
<1>4. K \in BOOLEAN /\ (i > 0) \in BOOLEAN /\ m.closed \in BOOLEAN
  BY SolverAssumption
<1> HIDE DEF P, R1, R2, T2, R3, T3, Q
<1>5. Runs(m, TRUE, p1, Pt(S, V), Pt(S, V))
  <2>1. Runs(m, TRUE, Flush, Pt(S, V), Pt(S, V))
    BY PtFlush
  <2> HIDE DEF V
  <2> QED
    BY <1>4, <2>1, CoversAll, RunsWhen
<1>6. Runs(m, TRUE, p2, Pt(S, V), Pt(S, V))
  <2> HIDE DEF V, p2
  <2> QED
    BY <1>2, <1>3, PtStays
<1>7. Runs(m, TRUE, p3, Pt(S, V), Pt(S, V1))
  <2> HIDE DEF V, p3
  <2> QED
    BY <1>2, <1>3, PtWrites
<1>8. Runs(m, TRUE, p4, Pt(S, V1), Pt(S, V2))
  <2> HIDE DEF V1
  <2> QED
    BY <1>2, DotRuns
<1>9. Runs(m, TRUE, p5, Pt(S, V2), Pt(S, V2))
  <2> HIDE DEF V2, p5
  <2> QED
    BY <1>2, <1>3, PtStays
<1>10. Runs(m, TRUE, p6, Pt(S, V2), Pt(S, V2))
  <2>1. Ready(m, S, V2)
    <3> HIDE DEF V2
    <3> QED
      BY <1>2, ReadyGrows
  <2> HIDE DEF V2
  <2>2. 1 \in 1..3
    OBVIOUS
  <2>3. Runs(m, TRUE, FluidMean(m, "r", 1), Pt(S, V2), Pt(S, V2))
    BY <1>2, <2>1, <2>2, FluidMeanRuns
  <2> QED
    BY <1>4, <2>3, CoversAll, RunsWhen DEF RemoveRMean
<1>11. Runs(m, TRUE, When(K, p7 \o p8 \o p9), Pt(S, V2), Pt(S, V5))
  <2>1. ASSUME K
        PROVE  Runs(m, TRUE, p7 \o p8 \o p9, Pt(S, V2), Pt(S, V5))
    <3>1. Ready(m, S, V2)
      <4> HIDE DEF V2
      <4> QED
        BY <1>2, ReadyGrows
    <3>2. Runs(m, TRUE, p7, Pt(S, V2), Pt(S, V3))
      <4> HIDE DEF V2
      <4> QED
        BY <1>2, <3>1, ApplyMRuns
    <3>3. Runs(m, TRUE, p8, Pt(S, V3), Pt(S, V4))
      <4> HIDE DEF V3
      <4> QED
        BY <1>2, DotRuns
    <3>4. Runs(m, TRUE, p9, Pt(S, V4), Pt(S, V4))
      <4> HIDE DEF V4, p9
      <4> QED
        BY <1>2, <1>3, PtStays
    <3>5. Covers(Pt(S, V4), Pt(S, V5))
      <4>1. V5 \subseteq V4 /\ Forgets(S, S)
        BY <1>2, <2>1 DEF Forgets
      <4> HIDE DEF V4, V5
      <4> QED
        BY <4>1, PtForgets
    <3> HIDE DEF V2, V3, V4, V5, p7, p8, p9
    <3>6. Runs(m, TRUE, p7 \o p8 \o p9, Pt(S, V2), Pt(S, V4))
      BY <3>2, <3>3, <3>4, RunsThen
    <3> QED
      BY <3>5, <3>6, RunsToLess
  <2>2. ~K => Covers(Pt(S, V2), Pt(S, V5))
    <3>1. ASSUME ~K PROVE V5 \subseteq V2 /\ Forgets(S, S)
      BY <1>2, <3>1 DEF Forgets
    <3> HIDE DEF V2, V5, K
    <3> QED
      BY <3>1, PtForgets
  <2> HIDE DEF K, V2, V5, p7, p8, p9
  <2> QED
    BY <1>4, <2>1, <2>2, RunsWhen
<1>12. Iteration(m, i) = p1 \o p2 \o p3 \o p4 \o p5 \o p6 \o When(K, p7 \o p8 \o p9)
  BY DEF Iteration
<1> DEFINE p10 == When(K, p7 \o p8 \o p9)
<1> HIDE DEF p1, p2, p3, p4, p5, p6, p10, V, V1, V2, V5
<1>13. Runs(m, TRUE, p1 \o p2 \o p3 \o p4, Pt(S, V), Pt(S, V2))
  BY <1>5, <1>6, <1>7, <1>8, RunsThen
<1>14. Runs(m, TRUE, p1 \o p2 \o p3 \o p4 \o p5 \o p6 \o p10, Pt(S, V), Pt(S, V5))
  BY <1>9, <1>10, <1>11, <1>13, RunsThen DEF p10
<1> QED
  BY <1>12, <1>14 DEF V, V5, p10

LEMMA RecordPcgRuns ==
    ASSUME NEW m \in Modes, NEW G, NEW W, Ready(m, G, W), {"pressure", "div"} \subseteq W,
           Pcg \subseteq G, W \intersect PcgSlots = {}
    PROVE  Runs(m, TRUE, RecordPcg(m), Pt(G, W), Pt(G \union PcgSlots, W))
<1> DEFINE S == G \union PcgSlots
           Q == {"r"}
           V1 == W \union Q
           V2 == V1 \union {"zr"}
           T == {"d"}
           V3 == V2 \union T
           V4 == V3 \union {"product"} \union {"RZ_A"}
           base == V3 \union {"product"}
           n == m.iterations
           s == [i \in 0..n |-> Pt(S, IF i < n THEN base \union {Rz(i)} ELSE base)]
           R1 == {"pressure", "div"} \union MaskAt(m, 1) \union PhiAt(m, 1)
           P == [i \in 1..n |-> Iteration(m, i - 1)]
           p1 == NewTarget(PcgSlots)
           p2 == Residual(m, "pressure", "div", "r", 1)
           p3 == RemoveRMean(m)
           p4 == ApplyM(m)
           p5 == CopyField("zr", "d")
           p6 == Dot("r", "zr", "RZ_A")
           p7 == FlattenSeq(P)
           p8 == When(m.closed, FluidMean(m, "pressure", 1))
<1>1. n \in Nat /\ m.closed \in BOOLEAN
  BY SolverAssumption
<1>2. MaskAt(m, 1) \subseteq W /\ PhiAt(m, 1) \subseteq W
  BY ReadyFacts
<1>3. {"RZ_A", "RZ_B", "DQ"} = PcgSlots /\ Pcg = {"r", "zr", "d", "q", "product"} /\ W \subseteq G
  BY DEF PcgSlots, Pcg, Ready
<1>4. /\ R1 \subseteq W /\ Q \subseteq S /\ T \subseteq S /\ {"zr"} \subseteq V2
      /\ V1 \subseteq S /\ V2 \subseteq S /\ V3 \subseteq S /\ base \subseteq S /\ V4 \subseteq S
      /\ W \subseteq S /\ W \subseteq V1 /\ W \subseteq base /\ W \subseteq V3
      /\ "r" \in V1 /\ "zr" \in S /\ "r" \in V3 /\ "zr" \in V3 /\ "RZ_A" \in S /\ "product" \in S
      /\ {"r", "zr", "d", "product", "pressure"} \subseteq base /\ {"q"} \union PcgSlots \subseteq S
      /\ "pressure" \in base
  BY <1>2, <1>3
<1>5. p2 = Dispatch("residual", R1, Q) /\ p5 = Dispatch("copy", {"zr"}, T)
  BY DEF Residual, CopyField
<1>6. Ready(m, S, W)
  BY DEF Ready
<1> HIDE DEF S, n, R1, Q, T
<1>7. Runs(m, TRUE, p1, Pt(G, W), Pt(S, W))
  BY PcgFacts, PtTargets DEF S
<1>8. Runs(m, TRUE, p2, Pt(S, W), Pt(S, V1))
  <2> HIDE DEF p2
  <2> QED
    BY <1>4, <1>5, PtWrites
<1>9. Runs(m, TRUE, p3, Pt(S, V1), Pt(S, V1)) /\ Ready(m, S, V1)
  <2> HIDE DEF V1
  <2>1. Ready(m, S, V1)
    BY <1>4, <1>6, ReadyGrows
  <2>2. 1 \in 1..3
    OBVIOUS
  <2>3. Runs(m, TRUE, FluidMean(m, "r", 1), Pt(S, V1), Pt(S, V1))
    BY <1>4, <2>1, <2>2, FluidMeanRuns
  <2>4. Runs(m, TRUE, RemoveRMean(m), Pt(S, V1), Pt(S, V1))
    BY <1>1, <2>3, CoversAll, RunsWhen DEF RemoveRMean
  <2> QED
    BY <2>1, <2>4
<1>10. Runs(m, TRUE, p4, Pt(S, V1), Pt(S, V2))
  <2> HIDE DEF V1
  <2> QED
    BY <1>4, <1>9, ApplyMRuns
<1>11. Runs(m, TRUE, p5, Pt(S, V2), Pt(S, V3))
  <2> HIDE DEF V2, p5
  <2> QED
    BY <1>4, <1>5, PtWrites
<1>12. Runs(m, TRUE, p6, Pt(S, V3), Pt(S, V4))
  <2> HIDE DEF V3
  <2> QED
    BY <1>4, DotRuns
<1>13. Covers(Pt(S, V4), s[0])
  <2>1. s[0] = Pt(S, IF 0 < n THEN base \union {Rz(0)} ELSE base)
    BY <1>1
  <2> DEFINE V == IF 0 < n THEN base \union {Rz(0)} ELSE base
  <2>2. V \subseteq V4 /\ Forgets(S, S)
    BY Ratios DEF Forgets
  <2> HIDE DEF V, V4, s
  <2> QED
    BY <2>1, <2>2, PtForgets DEF V
<1>14. Runs(m, TRUE, p7, s[0], s[n])
  <2>1. Ready(m, S, base)
    <3> HIDE DEF base
    <3> QED
      BY <1>4, <1>6, ReadyGrows
  <2> HIDE DEF base
  <2>2. ASSUME NEW i \in 1..n
        PROVE  Runs(m, TRUE, P[i], s[i - 1], s[i])
    <3>1. /\ i - 1 \in Nat /\ i - 1 \in 0..n /\ i \in 0..n /\ i - 1 < n /\ (i - 1) + 1 = i
      BY <1>1
    <3>2. s[i - 1] = Pt(S, base \union {Rz(i - 1)})
      BY <1>1, <3>1
    <3>3. s[i] = Pt(S, IF i < n THEN base \union {Rz(i)} ELSE base)
      BY <1>1, <3>1
    <3>4. P[i] = Iteration(m, i - 1)
      OBVIOUS
    <3> DEFINE k == i - 1
    <3>5. k \in Nat /\ k + 1 = i
      BY <3>1
    <3> HIDE DEF s, P, k
    <3>6. Runs(m, TRUE, Iteration(m, k), Pt(S, base \union {Rz(k)}),
               Pt(S, IF k + 1 < m.iterations THEN base \union {Rz(k + 1)} ELSE base))
      BY <1>4, <2>1, <3>5, IterationRuns
    <3>7. Runs(m, TRUE, Iteration(m, k), Pt(S, base \union {Rz(k)}),
               Pt(S, IF i < n THEN base \union {Rz(i)} ELSE base))
      BY <3>5, <3>6, Zenon DEF n
    <3> QED
      BY <3>2, <3>3, <3>4, <3>7 DEF k
  <2>3. P = [i \in 1..n |-> P[i]]
    OBVIOUS
  <2> HIDE DEF P, s
  <2> QED
    BY <1>1, <2>2, <2>3, RunsFlatten
<1>15. Covers(s[n], Pt(S, base))
  <2>1. s[n] = Pt(S, base)
    BY <1>1
  <2> HIDE DEF s, base
  <2> QED
    BY <2>1, CoversAll
<1>16. Runs(m, TRUE, p8, Pt(S, base), Pt(S, base))
  <2> HIDE DEF base
  <2>1. Ready(m, S, base)
    BY <1>4, <1>6, ReadyGrows
  <2>2. 1 \in 1..3
    OBVIOUS
  <2>3. Runs(m, TRUE, FluidMean(m, "pressure", 1), Pt(S, base), Pt(S, base))
    BY <1>4, <2>1, <2>2, FluidMeanRuns
  <2> QED
    BY <1>1, <2>3, CoversAll, RunsWhen
<1>17. Covers(Pt(S, base), Pt(S, W))
  <2>1. Forgets(S, S)
    BY DEF Forgets
  <2> HIDE DEF base
  <2> QED
    BY <1>4, <2>1, PtForgets
<1>18. RecordPcg(m) = p1 \o p2 \o p3 \o p4 \o p5 \o p6 \o p7 \o p8
  BY DEF RecordPcg, n
<1> HIDE DEF p1, p2, p3, p4, p5, p6, p7, p8, V1, V2, V3, V4, base, s
<1>19. Runs(m, TRUE, p1 \o p2 \o p3 \o p4 \o p5 \o p6, Pt(G, W), Pt(S, V4))
  BY <1>7, <1>8, <1>9, <1>10, <1>11, <1>12, RunsThen
<1>20. Runs(m, TRUE, p1 \o p2 \o p3 \o p4 \o p5 \o p6, Pt(G, W), s[0])
  BY <1>13, <1>19, RunsToLess
<1>21. Runs(m, TRUE, p1 \o p2 \o p3 \o p4 \o p5 \o p6 \o p7, Pt(G, W), Pt(S, base))
  BY <1>14, <1>15, <1>20, RunsThen, RunsToLess
<1>22. Runs(m, TRUE, p1 \o p2 \o p3 \o p4 \o p5 \o p6 \o p7 \o p8, Pt(G, W), Pt(S, W))
  BY <1>16, <1>17, <1>21, RunsThen, RunsToLess
<1> QED
  BY <1>18, <1>22 DEF S

LEMMA MgpcgRuns ==
    ASSUME NEW m \in Modes, m.pressure = "mgpcg", NEW S, NEW W, Ready(m, S, W),
           {"pressure", "div"} \subseteq W, S \intersect Pcg = {}, W \intersect PcgSlots = {}
    PROVE  Runs(m, FALSE, Mgpcg(m), Pt(S, W), Pt(S, W))
<1> DEFINE G == S \union Pcg
           A == FlattenSeq([i \in 1..5 |-> Acquire(PcgNames[i], "cells")])
           p1 == Dropping(A, Range(PcgNames))
           p2 == Freeing(RecordPcg(m) \o Flush, Range(PcgNames))
           p3 == Release(Range(PcgNames))
           H == G \union PcgSlots
           K == m.iterations > 0
<1>1. K \in BOOLEAN /\ W \subseteq S
  BY SolverAssumption DEF Ready
<1>2. Runs(m, FALSE, p1, Pt(S, W), Pt(G, W))
  <2>1. \A i \in 1..5 : i = 1 \/ i = 2 \/ i = 3 \/ i = 4 \/ i = 5
    OBVIOUS
  <2>2. /\ PcgNames[1] = "r" /\ PcgNames[2] = "zr" /\ PcgNames[3] = "d" /\ PcgNames[4] = "q"
        /\ PcgNames[5] = "product"
    BY DEF PcgNames
  <2> DEFINE n == 5
  <2>3. Pcg = {PcgNames[i] : i \in 1..n}
    BY <2>1, <2>2 DEF Pcg
  <2>4. \A i, j \in 1..n : PcgNames[i] = PcgNames[j] => i = j
    BY <2>1, <2>2
  <2>5. \A i \in 1..n : PcgNames[i] \notin S /\ PcgNames[i] \notin Slots
    BY <2>3, PcgFacts
  <2>6. n \in Nat /\ A = FlattenSeq(Acquires(n, PcgNames, "cells")) /\ {} \subseteq S
    BY DEF Acquires
  <2>7. G = S \union {PcgNames[i] : i \in 1..n}
    BY <2>3
  <2> HIDE DEF n, A, G
  <2>8. Runs(m, TRUE, A, At(S, W, {}, TRUE, TRUE), At(G, W, {}, TRUE, TRUE))
    BY <1>1, <2>4, <2>5, <2>6, <2>7, PcgFacts, AcquireEach
  <2>9. Range(PcgNames) \intersect Slots = {}
    BY PcgFacts
  <2> QED
    BY <2>8, <2>9, DroppingRuns DEF Pt
<1>3. Runs(m, FALSE, p2, Pt(G, W), At(H, W, {}, FALSE, TRUE))
  <2>1. Ready(m, G, W) /\ Pcg \subseteq G
    BY DEF Ready
  <2> HIDE DEF G
  <2>2. Runs(m, TRUE, RecordPcg(m), Pt(G, W), Pt(H, W))
    BY <2>1, RecordPcgRuns
  <2>3. FALSE \in BOOLEAN /\ TRUE \in BOOLEAN
    OBVIOUS
  <2> HIDE DEF H
  <2>4. Runs(m, TRUE, Flush, At(H, W, {}, TRUE, TRUE), At(H, W, {}, FALSE, TRUE))
    BY <2>3, FlushRuns
  <2>5. Runs(m, TRUE, RecordPcg(m) \o Flush, Pt(G, W), At(H, W, {}, FALSE, TRUE))
    BY <2>2, <2>4, RunsThen DEF Pt
  <2>6. Range(PcgNames) \intersect Slots = {}
    BY PcgFacts
  <2> QED
    BY <2>5, <2>6, FreeingRuns
<1>4. Runs(m, FALSE, p3, At(H, W, {}, FALSE, TRUE), Pt(S, W))
  <2> DEFINE N == Range(PcgNames)
             H1 == H \ N
             W1 == W \ N
             D1 == {} \ N
  <2>1. Runs(m, TRUE, Release(N), View(H, W, {}, FALSE, TRUE, FALSE),
             View(H1, W1, D1, FALSE, TRUE, FALSE))
    <3>1. N \intersect Slots = {}
      BY PcgFacts
    <3> HIDE DEF N, H
    <3>2. FALSE \in BOOLEAN /\ TRUE \in BOOLEAN
      OBVIOUS
    <3> QED
      BY <3>1, <3>2, ReleaseRuns
  <2>2. Covers(View(H1, W1, D1, FALSE, TRUE, FALSE), Pt(S, W))
    <3>1. W \subseteq W1 /\ D1 = {} /\ H1 = S \union PcgSlots
      BY <1>1, PcgFacts DEF PcgSlots, Pcg
    <3>2. Forgets(H1, S)
      BY <3>1, PcgFacts DEF Forgets
    <3> HIDE DEF H1, W1, D1
    <3> QED
      BY <3>1, <3>2 DEF Covers, Pt, At, View, SameFlags
  <2> HIDE DEF H, H1, W1, D1
  <2>3. Runs(m, TRUE, p3, At(H, W, {}, FALSE, TRUE), Pt(S, W))
    BY <2>1, <2>2, RunsToLess DEF At
  <2> QED
    BY <2>3, RunsPlainly
<1> DEFINE p == p1 \o p2 \o p3
<1>5. Runs(m, FALSE, p, Pt(S, W), Pt(S, W))
  <2> HIDE DEF p1, p2, p3, G, H
  <2> QED
    BY <1>2, <1>3, <1>4, RunsThen
<1>6. Mgpcg(m) = When(K, p)
  BY DEF Mgpcg
<1> HIDE DEF K, p
<1> QED
  BY <1>1, <1>5, <1>6, CoversAll, RunsWhen

-----------------------------------------------------------------------------
(* The projection. *)

LEMMA SubtractRuns ==
    ASSUME NEW m, NEW G, Fields(m) \subseteq G
    PROVE  Runs(m, TRUE, SubtractGradient(m), Pt(G, G), At(G, G, Velocity, TRUE, TRUE))
<1> DEFINE R == [axis \in 1..3 |-> {Faces[axis], "pressure"} \union Mask(m) \union Obstacle(m, axis)]
           P == [axis \in 1..3 |->
                   Dispatch("subtract_gradient",
                            {Faces[axis], "pressure"} \union Mask(m) \union Obstacle(m, axis),
                            {Faces[axis]})]
           D1 == {"vx"}
           D2 == {"vx", "vy"}
<1>1. /\ \A a \in 1..3 : R[a] \subseteq G /\ {Faces[a]} \subseteq G
      /\ \A a \in 1..3 : P[a] = Dispatch("subtract_gradient", R[a], {Faces[a]})
  BY There
<1>2. P = [a \in 1..3 |-> P[a]]
  OBVIOUS
<1> HIDE DEF R, P
<1>3. ASSUME NEW D, NEW a \in 1..3
      PROVE  Runs(m, TRUE, P[a], At(G, G, D, TRUE, TRUE), At(G, G, D \union {Faces[a]}, TRUE, TRUE))
  <2> DEFINE T == {Faces[a]}
             Ra == R[a]
             V == G \union T
             C == (D \ T) \union Finished(m, T, "subtract_gradient")
  <2>1. P[a] = Dispatch("subtract_gradient", Ra, T) /\ Ra \subseteq G /\ T \subseteq G /\ V = G
    BY <1>1
  <2>2. C = D \union {Faces[a]}
    <3>1. Faces[a] \in Velocity
      <4>1. a = 1 \/ a = 2 \/ a = 3
        OBVIOUS
      <4> QED
        BY <4>1, Sequences_
    <3> QED
      BY <3>1 DEF Finished, LastKernel
  <2> HIDE DEF Ra, T, V, C
  <2>3. Runs(m, TRUE, Dispatch("subtract_gradient", Ra, T), At(G, G, D, TRUE, TRUE),
             At(G, V, C, TRUE, TRUE))
    BY <2>1, DispatchRuns DEF V, C
  <2> QED
    BY <2>1, <2>2, <2>3
<1>4. /\ {} \union {Faces[1]} = D1 /\ D1 \union {Faces[2]} = D2
      /\ D2 \union {Faces[3]} = Velocity /\ 1 \in 1..3 /\ 2 \in 1..3 /\ 3 \in 1..3
  BY Sequences_
<1> HIDE DEF D1, D2
<1>5. /\ Runs(m, TRUE, P[1], Pt(G, G), At(G, G, D1, TRUE, TRUE))
      /\ Runs(m, TRUE, P[2], At(G, G, D1, TRUE, TRUE), At(G, G, D2, TRUE, TRUE))
      /\ Runs(m, TRUE, P[3], At(G, G, D2, TRUE, TRUE), At(G, G, Velocity, TRUE, TRUE))
  <2>1. Runs(m, TRUE, P[1], Pt(G, G), At(G, G, {} \union {Faces[1]}, TRUE, TRUE))
    BY <1>3, <1>4 DEF Pt
  <2>2. Runs(m, TRUE, P[2], At(G, G, D1, TRUE, TRUE), At(G, G, D1 \union {Faces[2]}, TRUE, TRUE))
    BY <1>3, <1>4
  <2>3. Runs(m, TRUE, P[3], At(G, G, D2, TRUE, TRUE), At(G, G, D2 \union {Faces[3]}, TRUE, TRUE))
    BY <1>3, <1>4
  <2> QED
    BY <1>4, <2>1, <2>2, <2>3
<1>6. Runs(m, TRUE, FlattenSeq(P), Pt(G, G), At(G, G, Velocity, TRUE, TRUE))
  BY <1>2, <1>5, RunsAxes
<1> QED
  BY <1>6 DEF P, SubtractGradient

LEMMA HierarchyRuns ==
    ASSUME NEW m \in Modes, NEW G, G \intersect HierarchyNames = {}, G \intersect Slots = {},
           Mask(m) \subseteq G
    PROVE  BuildsHierarchy(m, G)
<1>1. CASE m.collider
  <2>1. "mask" \in G
    BY <1>1 DEF Mask
  <2> QED
    BY <1>1, <2>1, ColliderHierarchyRuns
<1>2. CASE ~m.collider
  BY <1>2, PlainHierarchyRuns
<1> QED
  BY <1>1, <1>2

\* The solve, whichever it is.
LEMMA SolveRuns ==
    ASSUME NEW m \in Modes, NEW G, G = Fields(m) \union {"div"}, NEW p,
           p = CASE m.pressure = "gauss_seidel" -> SolvePressure(m)
                 [] m.pressure = "multigrid" ->
                      Hierarchy(m) \o VCycles(m, "pressure", "div", m.iterations)
                        \o Retire(HierarchyNames)
                 [] m.pressure = "mgpcg" ->
                      Hierarchy(m) \o Mgpcg(m) \o Retire(HierarchyNames)
    PROVE  Runs(m, FALSE, p, Pt(G, G), Pt(G, G))
<1>1. /\ G \intersect Slots = {} /\ G \intersect HierarchyNames = {} /\ HierarchyNames \intersect Slots = {}
      /\ G \intersect Pcg = {} /\ HierarchyNames \intersect Pcg = {}
  <2>1. LevelNames \subseteq Scratch /\ Pcg \subseteq Scratch /\ "div" \in Scratch
    BY DEF Scratch, Pcg
  <2>2. "div" \notin LevelNames /\ "div" \notin Pcg /\ LevelNames \intersect Pcg = {}
    BY DEF LevelNames, Pcg
  <2> QED
    BY <2>1, <2>2, Apart, Levels
<1>2. Mask(m) \subseteq G /\ "pressure" \in G /\ "div" \in G /\ G \subseteq G
  BY There
<1>3. m.pressure \in {"gauss_seidel", "multigrid", "mgpcg"} /\ m.iterations \in Nat
  BY SolverAssumption
<1>4. CASE m.pressure = "gauss_seidel"
  <2>1. p = SolvePressure(m)
    BY <1>4
  <2>2. Runs(m, TRUE, SolvePressure(m), Pt(G, G), Pt(G, G))
    BY <1>1, <1>2, SolvePressureRuns
  <2> QED
    BY <2>1, <2>2, RunsPlainly
<1>5. CASE m.pressure # "gauss_seidel"
  <2>0. BuildsHierarchy(m, G)
    BY <1>1, <1>2, HierarchyRuns
  <2>1. PICK S, W :
             /\ Runs(m, FALSE, Hierarchy(m), Pt(G, G), Pt(S, W))
             /\ Ready(m, S, W) /\ G \subseteq W /\ S \ Slots \subseteq G \union HierarchyNames
             /\ W \intersect PcgSlots = {}
    BY <2>0, Zenon DEF BuildsHierarchy
  <2>2. "pressure" \in W /\ "div" \in W /\ W \subseteq S
    BY <1>2, <2>1 DEF Ready
  <2>3. Runs(m, FALSE, Retire(HierarchyNames), Pt(S, W), Pt(G, G))
    <3> DEFINE S1 == S \ HierarchyNames
               W1 == W \ HierarchyNames
    <3>1. Runs(m, TRUE, Retire(HierarchyNames), Pt(S, W), Pt(S1, W1))
      BY <1>1, PtRetires
    <3>2. Forgets(S1, G) /\ G \subseteq W1
      BY <1>1, <2>1, <2>2 DEF Forgets
    <3> HIDE DEF S1, W1
    <3>3. Covers(Pt(S1, W1), Pt(G, G))
      BY <3>2, PtForgets
    <3>4. Runs(m, TRUE, Retire(HierarchyNames), Pt(S, W), Pt(G, G))
      BY <3>1, <3>3, RunsToLess
    <3> QED
      BY <3>4, RunsPlainly
  <2> DEFINE p1 == Hierarchy(m)
             p3 == Retire(HierarchyNames)
  <2>4. CASE m.pressure = "multigrid"
    <3> DEFINE p2 == VCycles(m, "pressure", "div", m.iterations)
    <3>1. p = p1 \o p2 \o p3
      BY <2>4
    <3>2. Runs(m, TRUE, p2, Pt(S, W), Pt(S, W))
      BY <1>3, <2>1, <2>2, VCyclesRuns
    <3> HIDE DEF p1, p2, p3
    <3>3. Runs(m, FALSE, p2, Pt(S, W), Pt(S, W))
      BY <3>2, RunsPlainly
    <3>4. Runs(m, FALSE, p1, Pt(G, G), Pt(S, W)) /\ Runs(m, FALSE, p3, Pt(S, W), Pt(G, G))
      BY <2>1, <2>3 DEF p1, p3
    <3> QED
      BY <3>1, <3>3, <3>4, RunsThen
  <2>5. CASE m.pressure = "mgpcg"
    <3> DEFINE p2 == Mgpcg(m)
    <3>1. p = p1 \o p2 \o p3
      BY <2>5
    <3>2. S \intersect Pcg = {}
      BY <1>1, <2>1, PcgFacts
    <3>3. Runs(m, FALSE, p2, Pt(S, W), Pt(S, W))
      BY <2>1, <2>2, <2>5, <3>2, MgpcgRuns
    <3> HIDE DEF p1, p2, p3
    <3>4. Runs(m, FALSE, p1, Pt(G, G), Pt(S, W)) /\ Runs(m, FALSE, p3, Pt(S, W), Pt(G, G))
      BY <2>1, <2>3 DEF p1, p3
    <3> QED
      BY <3>1, <3>3, <3>4, RunsThen
  <2> QED
    BY <1>3, <1>5, <2>4, <2>5
<1> QED
  BY <1>4, <1>5

LEMMA ProjectRuns ==
    ASSUME NEW m \in Modes
    PROVE  Runs(m, FALSE, Project(m), Full(m, FALSE),
                At(Fields(m), Fields(m), Velocity, TRUE, TRUE))
<1> DEFINE F == Fields(m)
           G == F \union {"div"}
           p == CASE m.pressure = "gauss_seidel" -> SolvePressure(m)
                  [] m.pressure = "multigrid" ->
                       Hierarchy(m) \o VCycles(m, "pressure", "div", m.iterations)
                         \o Retire(HierarchyNames)
                  [] m.pressure = "mgpcg" ->
                       Hierarchy(m) \o Mgpcg(m) \o Retire(HierarchyNames)
           p1 == Acquire("div", "cells")
           p2 == Divergence
           p4 == SubtractGradient(m)
           p5 == Retire({"div"})
<1>1. "div" \notin F /\ "div" \notin Slots /\ "cells" \in PoolShapes /\ Velocity \subseteq F
  <2>1. "div" \in Scratch
    BY DEF Scratch
  <2> QED
    BY <2>1, Apart, There
<1>2. Runs(m, FALSE, p1, Full(m, FALSE), Pt(G, F))
  <2>1. Runs(m, TRUE, p1, At(F, F, {}, TRUE, TRUE), Pt(G, F))
    BY <1>1, PtAcquires DEF Pt
  <2>2. Covers(Full(m, FALSE), At(F, F, {}, TRUE, TRUE))
    BY DEF Full, At, View, Covers, Forgets, SameFlags
  <2> HIDE DEF F, G, p1
  <2>3. Runs(m, TRUE, p1, Full(m, FALSE), Pt(G, F))
    BY <2>1, <2>2, RunsFromMore
  <2> QED
    BY <2>3, RunsPlainly
<1>3. Runs(m, FALSE, p2, Pt(G, F), Pt(G, G))
  <2> DEFINE T == {"div"}
  <2>1. p2 = Dispatch("divergence", Velocity, T) /\ G = F \union T
    BY DEF Divergence
  <2>2. T \subseteq G
    OBVIOUS
  <2> HIDE DEF T, F, G, p2
  <2>3. Runs(m, TRUE, Dispatch("divergence", Velocity, T), Pt(G, F), Pt(G, F \union T))
    BY <1>1, <2>2, PtWrites
  <2> QED
    BY <2>1, <2>3, RunsPlainly
<1>4. Runs(m, FALSE, p, Pt(G, G), Pt(G, G))
  BY SolveRuns
<1>5. Runs(m, FALSE, p4, Pt(G, G), At(G, G, Velocity, TRUE, TRUE))
  <2>1. F \subseteq G
    OBVIOUS
  <2> HIDE DEF G
  <2>2. Runs(m, TRUE, p4, Pt(G, G), At(G, G, Velocity, TRUE, TRUE))
    BY <2>1, SubtractRuns
  <2> QED
    BY <2>2, RunsPlainly
<1>6. Runs(m, FALSE, p5, At(G, G, Velocity, TRUE, TRUE), At(F, F, Velocity, TRUE, TRUE))
  <2> DEFINE T == {"div"}
  <2>1. G \ T = F /\ Velocity \ T = Velocity /\ T \intersect Slots = {}
    BY <1>1
  <2> HIDE DEF T, F, G
  <2>2. TRUE \in BOOLEAN
    OBVIOUS
  <2>3. Runs(m, TRUE, Retire(T), At(G, G, Velocity, TRUE, TRUE),
             At(G \ T, G \ T, Velocity \ T, TRUE, TRUE))
    BY <2>1, <2>2, RetireRuns
  <2>4. Runs(m, TRUE, Retire(T), At(G, G, Velocity, TRUE, TRUE), At(F, F, Velocity, TRUE, TRUE))
    BY <2>1, <2>3
  <2> QED
    BY <2>4, RunsPlainly DEF T
<1>7. Project(m) = p1 \o (p2 \o p \o p4) \o p5
  BY DEF Project, RecordProjection
<1> HIDE DEF p, p1, p2, p4, p5, G, F
<1>8. Runs(m, FALSE, p2 \o p \o p4, Pt(G, F), At(G, G, Velocity, TRUE, TRUE))
  BY <1>3, <1>4, <1>5, RunsThen
<1>9. Runs(m, FALSE, p1 \o (p2 \o p \o p4) \o p5, Full(m, FALSE), At(F, F, Velocity, TRUE, TRUE))
  BY <1>2, <1>6, <1>8, RunsThen
<1> QED
  BY <1>7, <1>9 DEF F

-----------------------------------------------------------------------------
(* The rest of a frame. *)

\* All in scope is written, and nothing is recorded or in flight.
Settled(S, D) == View(S, S, D, FALSE, FALSE, FALSE)

LEMMA FillRuns ==
    ASSUME NEW m, NEW S, NEW D, D \subseteq S, NEW n, n \notin S, n \notin Slots,
           NEW shape \in PoolShapes,
           NEW i, IsInstruction(i), i.op = "run", i.kernel # "none", i.free = {},
           i.drop \intersect Slots = {}, i.reads \subseteq S, i.writes = {n}
    PROVE  Runs(m, FALSE, Acquire(n, shape) \o <<i>>, Settled(S, D), Settled(S \union {n}, D))
<1> DEFINE G == S \union {n}
           W == S \union i.writes
           C == D \ i.writes
<1>1. FALSE \in BOOLEAN /\ S \subseteq S
  OBVIOUS
<1>2. Runs(m, TRUE, Acquire(n, shape), At(S, S, D, FALSE, FALSE), At(G, S, D, FALSE, FALSE))
  BY <1>1, AcquireRuns
<1>3. W = G /\ C = D /\ i.writes \subseteq G
  OBVIOUS
<1> HIDE DEF G
<1>4. Runs(m, FALSE, <<i>>, At(G, S, D, FALSE, FALSE), At(G, W, C, FALSE, FALSE))
  BY <1>1, <1>3, RunRuns
<1> HIDE DEF W, C
<1>5. Runs(m, FALSE, Acquire(n, shape), At(S, S, D, FALSE, FALSE), At(G, S, D, FALSE, FALSE))
  BY <1>2, RunsPlainly
<1>6. Runs(m, FALSE, Acquire(n, shape) \o <<i>>, At(S, S, D, FALSE, FALSE),
           At(G, G, D, FALSE, FALSE))
  BY <1>3, <1>4, <1>5, RunsThen
<1> QED
  BY <1>6 DEF G, At, Settled

LEMMA AcquireZeroedRuns ==
    ASSUME NEW m, NEW S, NEW D, D \subseteq S, NEW n, n \notin S, n \notin Slots,
           NEW shape \in PoolShapes,
           NEW T, T = S \union {n}
    PROVE  Runs(m, FALSE, AcquireZeroed(n, shape), Settled(S, D), Settled(T, D))
<1> DEFINE i == [Instruction("run", {}, "constant", {}, {n}) EXCEPT !.drop = {n}]
<1>1. /\ IsInstruction(i) /\ i.op = "run" /\ i.kernel = "constant" /\ i.free = {} /\ i.drop = {n}
      /\ i.reads = {} /\ i.writes = {n}
  BY DEF Instruction, IsInstruction
<1>2. AcquireZeroed(n, shape) = Acquire(n, shape) \o <<i>>
  BY DEF AcquireZeroed
<1> HIDE DEF i
<1>3. i.kernel # "none" /\ i.drop \intersect Slots = {} /\ i.reads \subseteq S
  BY <1>1
<1>4. Runs(m, FALSE, Acquire(n, shape) \o <<i>>, Settled(S, D), Settled(S \union {n}, D))
  BY <1>1, <1>3, FillRuns
<1> QED
  BY <1>2, <1>4

LEMMA DuplicateRuns ==
    ASSUME NEW m, NEW S, NEW D, D \subseteq S, NEW n, n \notin S, n \notin Slots,
           NEW shape \in PoolShapes,
           NEW of \in S, NEW T, T = S \union {n}
    PROVE  Runs(m, FALSE, Duplicate(n, shape, of), Settled(S, D), Settled(T, D))
<1> DEFINE i == [Instruction("run", {}, "copy", {of}, {n}) EXCEPT !.drop = {n}]
<1>1. /\ IsInstruction(i) /\ i.op = "run" /\ i.kernel = "copy" /\ i.free = {} /\ i.drop = {n}
      /\ i.reads = {of} /\ i.writes = {n}
  <2>1. i = [op |-> "run", names |-> {}, kernel |-> "copy", reads |-> {of}, writes |-> {n},
             drop |-> {n}, free |-> {}]
    BY DEF Instruction
  <2> HIDE DEF i
  <2> QED
    BY <2>1 DEF IsInstruction
<1>2. Duplicate(n, shape, of) = Acquire(n, shape) \o <<i>>
  BY DEF Duplicate
<1> HIDE DEF i
<1>3. i.kernel # "none" /\ i.drop \intersect Slots = {} /\ i.reads \subseteq S
  BY <1>1
<1>4. Runs(m, FALSE, Acquire(n, shape) \o <<i>>, Settled(S, D), Settled(S \union {n}, D))
  BY <1>1, <1>3, FillRuns
<1> QED
  BY <1>2, <1>4

\* A face whose failure takes the faces before it along.
LEMMA FaceRuns ==
    ASSUME NEW m, NEW S, NEW n, n \notin S, n \notin Slots, NEW shape \in PoolShapes,
           NEW names, names \intersect Slots = {}, NEW T, T = S \union {n}
    PROVE  Runs(m, FALSE, Dropping(AcquireZeroed(n, shape), names), Settled(S, {}), Settled(T, {}))
<1> DEFINE i == [Instruction("run", {}, "constant", {}, {n}) EXCEPT !.drop = {n}]
           a == Instruction("acquire", {n}, shape, {}, {})
           j == [i EXCEPT !.drop = @ \union names]
           b == [a EXCEPT !.drop = @ \union names]
           G == S \union {n}
           p == <<a>>
           q == <<a>> \o <<i>>
<1>1. /\ IsInstruction(j) /\ j.op = "run" /\ j.kernel = "constant" /\ j.free = {} /\ j.drop = {n} \union names
      /\ j.reads = {} /\ j.writes = {n}
  <2>1. i = [op |-> "run", names |-> {}, kernel |-> "constant", reads |-> {}, writes |-> {n},
             drop |-> {n}, free |-> {}]
    BY DEF Instruction
  <2> HIDE DEF i
  <2>2. j = [op |-> "run", names |-> {}, kernel |-> "constant", reads |-> {}, writes |-> {n},
             drop |-> {n} \union names, free |-> {}]
    BY <2>1
  <2> HIDE DEF j
  <2> QED
    BY <2>2 DEF IsInstruction
<1>2. Dropping(q, names) = <<b>> \o <<j>>
  <2>1. DOMAIN q = 1..2 /\ q[1] = a /\ q[2] = i
    OBVIOUS
  <2> HIDE DEF q, i, a
  <2>2. Dropping(q, names) = [k \in 1..2 |-> IF k = 1 THEN b ELSE j]
    <3>1. \A k \in 1..2 : k = 1 \/ k = 2
      OBVIOUS
    <3> QED
      BY <2>1, <3>1 DEF Dropping
  <2> HIDE DEF b, j
  <2>3. [k \in 1..2 |-> IF k = 1 THEN b ELSE j] = <<b>> \o <<j>>
    OBVIOUS
  <2> QED
    BY <2>2, <2>3
<1>3. Dropping(p, names) = <<b>>
  <2>1. DOMAIN p = 1..1 /\ p[1] = a
    OBVIOUS
  <2> HIDE DEF p, a
  <2>2. Dropping(p, names) = [k \in 1..1 |-> b]
    BY <2>1 DEF Dropping
  <2> HIDE DEF b
  <2> QED
    BY <2>2
<1>4. AcquireZeroed(n, shape) = q /\ Acquire(n, shape) = p
  BY DEF AcquireZeroed, Acquire
<1> HIDE DEF p, q, b, j
<1>5. FALSE \in BOOLEAN /\ S \subseteq S /\ {} \subseteq S
  OBVIOUS
<1>6. Runs(m, TRUE, p, At(S, S, {}, FALSE, FALSE), At(G, S, {}, FALSE, FALSE))
  BY <1>4, <1>5, AcquireRuns
<1>7. Runs(m, FALSE, <<b>>, At(S, S, {}, FALSE, FALSE), At(G, S, {}, FALSE, FALSE))
  BY <1>3, <1>6, DroppingRuns
<1> DEFINE W == S \union j.writes
           C == {} \ j.writes
<1>8. W = G /\ C = {} /\ j.writes \subseteq G /\ j.kernel # "none" /\ j.drop \intersect Slots = {} /\ j.reads \subseteq S
  BY <1>1
<1> HIDE DEF G
<1>9. Runs(m, FALSE, <<j>>, At(G, S, {}, FALSE, FALSE), At(G, W, C, FALSE, FALSE))
  BY <1>1, <1>5, <1>8, RunRuns
<1> HIDE DEF W, C
<1>10. Runs(m, FALSE, <<b>> \o <<j>>, At(S, S, {}, FALSE, FALSE), At(G, G, {}, FALSE, FALSE))
  BY <1>7, <1>8, <1>9, RunsThen
<1> QED
  BY <1>2, <1>4, <1>10 DEF G, At, Settled

LEMMA TakesInput ==
    ASSUME NEW m, NEW S, NEW n, n \notin S, n \notin Slots, NEW shape \in PoolShapes,
           NEW T, T = S \union {n}
    PROVE  Runs(m, TRUE, Input(n, shape), Settled(S, {}), Settled(T, {}))
<1>1. FALSE \in BOOLEAN /\ {} \subseteq S
  OBVIOUS
<1>2. Runs(m, TRUE, Input(n, shape), At(S, S, {}, FALSE, FALSE),
           At(S \union {n}, S \union {n}, {}, FALSE, FALSE))
  BY <1>1, InputRuns
<1> QED
  BY <1>2 DEF At, Settled

LEMMA FirstStateRuns ==
    ASSUME NEW m \in Modes
    PROVE  Runs(m, FALSE, FirstState(m), Settled({}, {}), Settled(StateNames(m), {}))
<1> DEFINE S1 == {"vx"}
           S2 == {"vx", "vy"}
           S3 == {"vx", "vy", "vz"}
           S4 == {"vx", "vy", "vz", "density"}
           S5 == {"vx", "vy", "vz", "density", "temperature"}
           S6 == {"vx", "vy", "vz", "density", "temperature", "pressure"}
           S7 == S6 \union {"fuel"}
           S8 == S7 \union {"react"}
           S9 == S6 \union (IF m.fire THEN {"fuel", "react"} ELSE {})
           S10 == S9 \union {"burned"}
           S11 == StateNames(m)
           p1 == AcquireZeroed("vx", "x")
           p2 == Dropping(AcquireZeroed("vy", "y"), {"vx"})
           p3 == Dropping(AcquireZeroed("vz", "z"), {"vx", "vy"})
           p4 == AcquireZeroed("density", "cells")
           p5 == AcquireZeroed("temperature", "cells")
           p6 == AcquireZeroed("pressure", "cells")
           p7 == AcquireZeroed("fuel", "cells")
           p8 == AcquireZeroed("react", "cells")
           p9 == AcquireZeroed("burned", "cells")
<1>1. /\ S1 = {} \union {"vx"} /\ S2 = S1 \union {"vy"} /\ S3 = S2 \union {"vz"}
      /\ S4 = S3 \union {"density"} /\ S5 = S4 \union {"temperature"} /\ S6 = S5 \union {"pressure"}
      /\ "vx" \notin {} /\ "vy" \notin S1 /\ "vz" \notin S2 /\ "density" \notin S3
      /\ "temperature" \notin S4 /\ "pressure" \notin S5 /\ "fuel" \notin S6 /\ "react" \notin S7
      /\ "burned" \notin S9
  OBVIOUS
<1>2. /\ m.fire => S8 = S9
      /\ ~m.fire => S6 = S9
      /\ m.surface => S10 = S11
      /\ ~m.surface => S9 = S11
  BY Sequences_ DEF StateNames
<1>3. {"x", "y", "z", "cells"} \subseteq PoolShapes
  BY Apart
<1>4. {"vx", "vy", "vz", "density", "temperature", "pressure", "fuel", "react",
       "burned"} \intersect Slots = {}
  BY Apart
<1>5. m.fire \in BOOLEAN /\ m.surface \in BOOLEAN
  BY SolverAssumption
<1>6. {} \subseteq {} /\ {} \subseteq S3 /\ {} \subseteq S4 /\ {} \subseteq S5 /\ {} \subseteq S6 /\ {} \subseteq S7 /\ {} \subseteq S9
  OBVIOUS
<1>7. {"vx"} \intersect Slots = {} /\ {"vx", "vy"} \intersect Slots = {}
  BY <1>4
<1>8. S7 = S6 \union {"fuel"} /\ S8 = S7 \union {"react"} /\ S10 = S9 \union {"burned"}
  OBVIOUS
<1>9. FirstState(m) = (p1 \o p2 \o p3 \o p4 \o p5 \o p6) \o When(m.fire, p7 \o p8) \o When(m.surface, p9)
  BY Sequences_ DEF FirstState, Zeroed, ZeroedVelocity, AddFire, AddSurface, Axes
<1> HIDE DEF S1, S2, S3, S4, S5, S6, S7, S8, S9, S10, S11
<1>10. Runs(m, FALSE, p1, Settled({}, {}), Settled(S1, {}))
  BY <1>1, <1>3, <1>4, <1>6, AcquireZeroedRuns
<1>11. Runs(m, FALSE, p2, Settled(S1, {}), Settled(S2, {}))
  BY <1>1, <1>3, <1>4, <1>7, FaceRuns
<1>12. Runs(m, FALSE, p3, Settled(S2, {}), Settled(S3, {}))
  BY <1>1, <1>3, <1>4, <1>7, FaceRuns
<1>13. Runs(m, FALSE, p4, Settled(S3, {}), Settled(S4, {}))
  BY <1>1, <1>3, <1>4, <1>6, AcquireZeroedRuns
<1>14. Runs(m, FALSE, p5, Settled(S4, {}), Settled(S5, {}))
  BY <1>1, <1>3, <1>4, <1>6, AcquireZeroedRuns
<1>15. Runs(m, FALSE, p6, Settled(S5, {}), Settled(S6, {}))
  BY <1>1, <1>3, <1>4, <1>6, AcquireZeroedRuns
<1>16. Runs(m, FALSE, p7, Settled(S6, {}), Settled(S7, {}))
  BY <1>1, <1>3, <1>4, <1>6, <1>8, AcquireZeroedRuns
<1>17. Runs(m, FALSE, p8, Settled(S7, {}), Settled(S8, {}))
  BY <1>1, <1>3, <1>4, <1>6, <1>8, AcquireZeroedRuns
<1>18. Runs(m, FALSE, p9, Settled(S9, {}), Settled(S10, {}))
  BY <1>1, <1>3, <1>4, <1>6, <1>8, AcquireZeroedRuns
<1> HIDE DEF p1, p2, p3, p4, p5, p6, p7, p8, p9
<1>19. Runs(m, FALSE, When(m.fire, p7 \o p8), Settled(S6, {}), Settled(S9, {}))
  <2>1. Runs(m, FALSE, p7 \o p8, Settled(S6, {}), Settled(S8, {}))
    BY <1>16, <1>17, RunsThen
  <2>2. m.fire => Runs(m, FALSE, p7 \o p8, Settled(S6, {}), Settled(S9, {}))
    BY <1>2, <2>1
  <2>3. ~m.fire => Covers(Settled(S6, {}), Settled(S9, {}))
    BY <1>2, CoversAll
  <2> QED
    BY <1>5, <2>2, <2>3, RunsWhen
<1>20. Runs(m, FALSE, When(m.surface, p9), Settled(S9, {}), Settled(S11, {}))
  <2>1. m.surface => Runs(m, FALSE, p9, Settled(S9, {}), Settled(S11, {}))
    BY <1>2, <1>18
  <2>2. ~m.surface => Covers(Settled(S9, {}), Settled(S11, {}))
    BY <1>2, CoversAll
  <2> QED
    BY <1>5, <2>1, <2>2, RunsWhen
<1>21. Runs(m, FALSE, p1 \o p2 \o p3 \o p4 \o p5 \o p6, Settled({}, {}), Settled(S6, {}))
  BY <1>10, <1>11, <1>12, <1>13, <1>14, <1>15, RunsThen
<1>22. Runs(m, FALSE, (p1 \o p2 \o p3 \o p4 \o p5 \o p6) \o When(m.fire, p7 \o p8) \o When(m.surface, p9),
            Settled({}, {}), Settled(S11, {}))
  BY <1>19, <1>20, <1>21, RunsThen
<1> QED
  BY <1>9, <1>22 DEF S11

LEMMA MeasureRuns ==
    ASSUME NEW m
    PROVE  Runs(m, TRUE, Measure, Stepping(m), Stepping(m))
<1> DEFINE i == Instruction("measure", {}, "none", Velocity, {})
           v == Stepping(m)
<1>1. /\ IsInstruction(i) /\ i.op = "measure" /\ i.reads = Velocity /\ i.drop = {} /\ i.free = {}
  BY DEF Instruction, IsInstruction
<1>2. v = Settled(Fields(m), {})
  BY DEF Stepping, Settled, Fields
<1>3. v.written = Fields(m) /\ v.kept = FALSE
  BY <1>2 DEF Settled, View
<1> HIDE DEF i, v
<1>4. Looks(m, i, v, v)
  BY <1>1, <1>3, CoversAll, There DEF Looks, v
<1>5. Goes(m, TRUE, i, v, v)
  BY <1>1, <1>4 DEF Goes
<1>6. Runs(m, TRUE, <<i>>, v, v)
  BY <1>5, RunsOne
<1> QED
  BY <1>6 DEF i, v, Measure

\* The faces of a velocity that is given.
LEMMA TakesFaces ==
    ASSUME NEW m, NEW S, NEW names,
           names[1] \notin S, names[2] \notin S, names[3] \notin S,
           names[1] \notin Slots, names[2] \notin Slots, names[3] \notin Slots,
           names[1] # names[2], names[1] # names[3], names[2] # names[3],
           NEW T, T = S \union {names[1], names[2], names[3]}
    PROVE  Runs(m, TRUE, InputFaces(names), Settled(S, {}), Settled(T, {}))
<1> DEFINE P == [a \in 1..3 |-> Input(names[a], Axes[a])]
           n1 == names[1]
           n2 == names[2]
           n3 == names[3]
           S1 == S \union {n1}
           S2 == S1 \union {n2}
           S3 == S2 \union {n3}
<1>1. /\ P = [a \in 1..3 |-> P[a]] /\ P[1] = Input(n1,
                                                   "x") /\ P[2] = Input(n2, "y") /\ P[3] = Input(n3, "z")
  BY DEF Axes
<1>2. "x" \in PoolShapes /\ "y" \in PoolShapes /\ "z" \in PoolShapes
  BY Apart
<1>3. /\ n1 \notin S /\ n2 \notin S1 /\ n3 \notin S2 /\ S3 = T
      /\ n1 \notin Slots /\ n2 \notin Slots /\ n3 \notin Slots
      /\ S1 = S \union {n1} /\ S2 = S1 \union {n2} /\ S3 = S2 \union {n3}
  OBVIOUS
<1> HIDE DEF P, n1, n2, n3, S1, S2, S3
<1>4. Runs(m, TRUE, P[1], Settled(S, {}), Settled(S1, {}))
  <2>1. Runs(m, TRUE, Input(n1, "x"), Settled(S, {}), Settled(S1, {}))
    BY <1>2, <1>3, TakesInput
  <2> QED
    BY <1>1, <2>1
<1>5. Runs(m, TRUE, P[2], Settled(S1, {}), Settled(S2, {}))
  <2>1. Runs(m, TRUE, Input(n2, "y"), Settled(S1, {}), Settled(S2, {}))
    BY <1>2, <1>3, TakesInput
  <2> QED
    BY <1>1, <2>1
<1>6. Runs(m, TRUE, P[3], Settled(S2, {}), Settled(S3, {}))
  <2>1. Runs(m, TRUE, Input(n3, "z"), Settled(S2, {}), Settled(S3, {}))
    BY <1>2, <1>3, TakesInput
  <2> QED
    BY <1>1, <2>1
<1>7. Runs(m, TRUE, FlattenSeq(P), Settled(S, {}), Settled(S3, {}))
  BY <1>1, <1>4, <1>5, <1>6, RunsAxes
<1> QED
  BY <1>3, <1>7 DEF P, InputFaces

LEMMA SolidifyRuns ==
    ASSUME NEW m, NEW S, "mask" \notin S, "sdf" \in S, NEW T, T = S \union {"mask"}
    PROVE  Runs(m, FALSE, Solidify, Settled(S, {}), Settled(T, {}))
<1> DEFINE i == Instruction("run", {}, "solidify", {"sdf"}, {"mask"})
<1>1. /\ IsInstruction(i) /\ i.op = "run" /\ i.kernel # "none" /\ i.free = {}
      /\ i.drop \intersect Slots = {} /\ i.reads \subseteq S /\ i.writes = {"mask"}
  BY DEF Instruction, IsInstruction
<1>2. Solidify = Acquire("mask", "cells") \o <<i>>
  BY DEF Solidify
<1>3. "mask" \notin Slots /\ "cells" \in PoolShapes /\ {} \subseteq S
  BY Apart
<1> HIDE DEF i
<1>4. Runs(m, FALSE, Acquire("mask", "cells") \o <<i>>, Settled(S, {}),
           Settled(S \union {"mask"}, {}))
  BY <1>1, <1>3, FillRuns
<1> QED
  BY <1>2, <1>4

LEMMA EnterRuns ==
    ASSUME NEW m \in Modes
    PROVE  Runs(m, FALSE, Enter(m), Settled(StateNames(m), {}), Stepping(m))
<1> DEFINE S0 == StateNames(m)
           S1 == S0 \union {"src_density"}
           S2 == S1 \union {"src_temperature"}
           S3 == S2 \union {"weight"}
           S4 == S3 \union {Target[1], Target[2], Target[3]}
           S5 == IF m.emission THEN S4 ELSE S2
           S6 == S5 \union {"sdf"}
           S7 == S6 \union {Moving[1], Moving[2], Moving[3]}
           S8 == IF m.collider THEN S7 ELSE S5
           S9 == S8 \union {"src_fuel"}
           S10 == IF m.fire THEN S9 ELSE S8
           S11 == S10 \union {"load"}
           S12 == IF m.surface THEN S11 ELSE S10
           S13 == S12 \union {"mask"}
           S14 == IF m.collider THEN S13 ELSE S12
           p0 == Check
           p1 == Input("src_density", "cells")
           p2 == Input("src_temperature", "cells")
           p3 == Input("weight", "cells")
           p4 == InputFaces(Target)
           p5 == Input("sdf", "cells")
           p6 == InputFaces(Moving)
           p7 == Input("src_fuel", "cells")
           p8 == Input("load", "cells")
           p9 == When(m.collider, Solidify)
           p10 == Measure
<1>1. /\ Target[1] = "tx" /\ Target[2] = "ty" /\ Target[3] = "tz"
      /\ Moving[1] = "cx" /\ Moving[2] = "cy" /\ Moving[3] = "cz"
  BY DEF Target, Moving
<1>2. S0 \subseteq {"vx", "vy", "vz", "density", "temperature", "pressure", "fuel", "react",
                    "burned"}
  BY Sequences_ DEF StateNames
<1>3. /\ "src_density" \notin S0 /\ "src_temperature" \notin S1 /\ "weight" \notin S2
      /\ Target[1] \notin S3 /\ Target[2] \notin S3 /\ Target[3] \notin S3
      /\ Target[1] # Target[2] /\ Target[1] # Target[3] /\ Target[2] # Target[3]
  BY <1>1, <1>2
<1>4. /\ "sdf" \notin S5 /\ Moving[1] \notin S6 /\ Moving[2] \notin S6 /\ Moving[3] \notin S6
      /\ Moving[1] # Moving[2] /\ Moving[1] # Moving[3] /\ Moving[2] # Moving[3]
  BY <1>1, <1>2
<1>5. "src_fuel" \notin S8 /\ "load" \notin S10 /\ "mask" \notin S12 /\ (m.collider => "sdf" \in S12)
  BY <1>1, <1>2
<1>6. /\ {"src_density", "src_temperature", "weight", "sdf", "src_fuel",
          "load"} \intersect Slots = {}
      /\ \A a \in 1..3 : Target[a] \notin Slots /\ Moving[a] \notin Slots
      /\ "cells" \in PoolShapes /\ 1 \in 1..3 /\ 2 \in 1..3 /\ 3 \in 1..3
  <2>1. \A a \in 1..3 : a = 1 \/ a = 2 \/ a = 3
    OBVIOUS
  <2> QED
    BY <1>1, <2>1, Apart
<1>7. S14 = Fields(m)
  BY <1>1, Sequences_ DEF Fields, Given
<1>8. m.emission \in BOOLEAN /\ m.collider \in BOOLEAN /\ m.fire \in BOOLEAN /\ m.surface \in BOOLEAN
  BY SolverAssumption
<1>9. /\ S1 = S0 \union {"src_density"} /\ S2 = S1 \union {"src_temperature"} /\ S3 = S2 \union {"weight"}
      /\ S4 = S3 \union {Target[1], Target[2], Target[3]} /\ S6 = S5 \union {"sdf"}
      /\ S7 = S6 \union {Moving[1], Moving[2], Moving[3]} /\ S9 = S8 \union {"src_fuel"}
      /\ S11 = S10 \union {"load"} /\ S13 = S12 \union {"mask"}
  OBVIOUS
<1>10. /\ (m.emission => S5 = S4) /\ (~m.emission => S5 = S2)
       /\ (m.collider => S8 = S7) /\ (~m.collider => S8 = S5)
       /\ (m.fire => S10 = S9) /\ (~m.fire => S10 = S8)
       /\ (m.surface => S12 = S11) /\ (~m.surface => S12 = S10)
       /\ (m.collider => S14 = S13) /\ (~m.collider => S14 = S12)
  OBVIOUS
<1>11. Enter(m) = p0 \o (p1 \o p2 \o When(m.emission, p3 \o p4) \o When(m.collider, p5 \o p6)
                        \o When(m.fire, p7) \o When(m.surface, p8)) \o p9 \o p10
  BY DEF Enter, Inputs
<1> HIDE DEF S0, S1, S2, S3, S4, S5, S6, S7, S8, S9, S10, S11, S12, S13, S14
<1>12. Runs(m, TRUE, p0, Settled(S0, {}), Settled(S0, {}))
  <2>1. FALSE \in BOOLEAN
    OBVIOUS
  <2> QED
    BY <2>1, CheckRuns DEF At, Settled
<1>13. Runs(m, TRUE, p1, Settled(S0, {}), Settled(S1, {}))
  BY <1>3, <1>6, <1>9, TakesInput
<1>14. Runs(m, TRUE, p2, Settled(S1, {}), Settled(S2, {}))
  BY <1>3, <1>6, <1>9, TakesInput
<1>15. Runs(m, TRUE, p3, Settled(S2, {}), Settled(S3, {}))
  BY <1>3, <1>6, <1>9, TakesInput
<1>16. Runs(m, TRUE, p4, Settled(S3, {}), Settled(S4, {}))
  BY <1>3, <1>6, <1>9, TakesFaces
<1>17. Runs(m, TRUE, p5, Settled(S5, {}), Settled(S6, {}))
  BY <1>4, <1>6, <1>9, TakesInput
<1>18. Runs(m, TRUE, p6, Settled(S6, {}), Settled(S7, {}))
  BY <1>4, <1>6, <1>9, TakesFaces
<1>19. Runs(m, TRUE, p7, Settled(S8, {}), Settled(S9, {}))
  BY <1>5, <1>6, <1>9, TakesInput
<1>20. Runs(m, TRUE, p8, Settled(S10, {}), Settled(S11, {}))
  BY <1>5, <1>6, <1>9, TakesInput
<1>21. Runs(m, FALSE, p9, Settled(S12, {}), Settled(S14, {}))
  <2>1. m.collider => Runs(m, FALSE, Solidify, Settled(S12, {}), Settled(S14, {}))
    BY <1>5, <1>9, <1>10, SolidifyRuns
  <2>2. ~m.collider => Covers(Settled(S12, {}), Settled(S14, {}))
    BY <1>10, CoversAll
  <2> QED
    BY <1>8, <2>1, <2>2, RunsWhen
<1>22. Runs(m, TRUE, p10, Settled(S14, {}), Stepping(m))
  BY <1>7, MeasureRuns DEF Settled, Stepping, Fields
<1> HIDE DEF p0, p1, p2, p3, p4, p5, p6, p7, p8, p9, p10
<1>23. Runs(m, TRUE, When(m.emission, p3 \o p4), Settled(S2, {}), Settled(S5, {}))
  <2>1. m.emission => Runs(m, TRUE, p3 \o p4, Settled(S2, {}), Settled(S5, {}))
    BY <1>10, <1>15, <1>16, RunsThen
  <2>2. ~m.emission => Covers(Settled(S2, {}), Settled(S5, {}))
    BY <1>10, CoversAll
  <2> QED
    BY <1>8, <2>1, <2>2, RunsWhen
<1>24. Runs(m, TRUE, When(m.collider, p5 \o p6), Settled(S5, {}), Settled(S8, {}))
  <2>1. m.collider => Runs(m, TRUE, p5 \o p6, Settled(S5, {}), Settled(S8, {}))
    BY <1>10, <1>17, <1>18, RunsThen
  <2>2. ~m.collider => Covers(Settled(S5, {}), Settled(S8, {}))
    BY <1>10, CoversAll
  <2> QED
    BY <1>8, <2>1, <2>2, RunsWhen
<1>25. Runs(m, TRUE, When(m.fire, p7), Settled(S8, {}), Settled(S10, {}))
  <2>1. m.fire => Runs(m, TRUE, p7, Settled(S8, {}), Settled(S10, {}))
    BY <1>10, <1>19
  <2>2. ~m.fire => Covers(Settled(S8, {}), Settled(S10, {}))
    BY <1>10, CoversAll
  <2> QED
    BY <1>8, <2>1, <2>2, RunsWhen
<1>26. Runs(m, TRUE, When(m.surface, p8), Settled(S10, {}), Settled(S12, {}))
  <2>1. m.surface => Runs(m, TRUE, p8, Settled(S10, {}), Settled(S12, {}))
    BY <1>10, <1>20
  <2>2. ~m.surface => Covers(Settled(S10, {}), Settled(S12, {}))
    BY <1>10, CoversAll
  <2> QED
    BY <1>8, <2>1, <2>2, RunsWhen
<1> DEFINE q == p1 \o p2 \o When(m.emission, p3 \o p4) \o When(m.collider, p5 \o p6)
                  \o When(m.fire, p7) \o When(m.surface, p8)
<1>27. Runs(m, TRUE, q, Settled(S0, {}), Settled(S12, {}))
  BY <1>13, <1>14, <1>23, <1>24, <1>25, <1>26, RunsThen
<1>28. Enter(m) = p0 \o q \o p9 \o p10
  BY <1>11
<1> HIDE DEF q
<1>29. /\ Runs(m, FALSE, p0, Settled(S0, {}), Settled(S0, {}))
       /\ Runs(m, FALSE, q, Settled(S0, {}), Settled(S12, {}))
       /\ Runs(m, FALSE, p10, Settled(S14, {}), Stepping(m))
  BY <1>12, <1>22, <1>27, RunsPlainly
<1>30. Runs(m, FALSE, p0 \o q \o p9 \o p10, Settled(S0, {}), Stepping(m))
  BY <1>21, <1>29, RunsThen
<1> QED
  BY <1>28, <1>30 DEF S0

-----------------------------------------------------------------------------
(* A substep. *)

LEMMA SubmitRuns ==
    ASSUME NEW m, NEW S, NEW D, S \intersect Slots = {}, D \subseteq S
    PROVE  Runs(m, TRUE, Submit, At(S, S, D, TRUE, TRUE), Settled(S, D))
<1> DEFINE i == Instruction("submit", {}, "none", {}, {})
           v == At(S, S, D, TRUE, TRUE)
           w == Settled(S, D)
<1>1. /\ IsInstruction(i) /\ i.op = "submit" /\ i.drop = {} /\ i.free = {}
  BY DEF Instruction, IsInstruction
<1>2. /\ v.scope = S /\ v.written = S /\ v.done = D /\ v.kept = FALSE
      /\ w.scope = S /\ w.written = S /\ w.done = D /\ w.kept = FALSE
  BY DEF At, View, Settled
<1> HIDE DEF i, v, w
<1>3. Submits(i, v, w)
  BY <1>1, <1>2 DEF Submits
<1>4. Goes(m, TRUE, i, v, w)
  BY <1>1, <1>3 DEF Goes
<1>5. Runs(m, TRUE, <<i>>, v, w)
  BY <1>4, RunsOne
<1> QED
  BY <1>5 DEF i, v, w, Submit

LEMMA SubstepRuns ==
    ASSUME NEW m \in Modes, ~Incomplete(m)
    PROVE  Runs(m, FALSE, Substep(m), Stepping(m), Settled(Fields(m), Tracked(m)))
<1> DEFINE F == Fields(m)
           p1 == Check
           p2 == PreProjection(m)
           p3 == Project(m)
           p4 == AdvectScalars(m)
           p5 == Submit
<1>1. Runs(m, FALSE, p1, Stepping(m), Full(m, FALSE))
  <2>1. FALSE \in BOOLEAN
    OBVIOUS
  <2>2. Runs(m, TRUE, p1, At(F, F, {}, FALSE, FALSE), At(F, F, {}, FALSE, FALSE))
    BY <2>1, CheckRuns
  <2>3. Covers(At(F, F, {}, FALSE, FALSE), Full(m, FALSE)) /\ Stepping(m) = At(F, F, {}, FALSE, FALSE)
    BY DEF Full, At, View, Covers, Forgets, SameFlags, Stepping, Fields
  <2> HIDE DEF F, p1
  <2>4. Runs(m, TRUE, p1, Stepping(m), Full(m, FALSE))
    BY <2>2, <2>3, RunsToLess
  <2> QED
    BY <2>4, RunsPlainly
<1>2. Runs(m, FALSE, p2, Full(m, FALSE), Full(m, FALSE))
  BY PreProjectionRuns
<1>3. Runs(m, FALSE, p3, Full(m, FALSE), At(F, F, Velocity, TRUE, TRUE))
  BY ProjectRuns
<1>4. Runs(m, FALSE, p4, At(F, F, Velocity, TRUE, TRUE), At(F, F, Tracked(m), TRUE, TRUE))
  <2>1. Runs(m, TRUE, p4, At(F, F, Velocity, TRUE, TRUE), At(F, F, Tracked(m), TRUE, TRUE))
    BY AdvectScalarsRuns
  <2> QED
    BY <2>1, RunsPlainly
<1>5. Runs(m, FALSE, p5, At(F, F, Tracked(m), TRUE, TRUE), Settled(F, Tracked(m)))
  <2>1. F \intersect Slots = {} /\ Tracked(m) \subseteq F
    BY Apart DEF Tracked, Fields
  <2> HIDE DEF F, p5
  <2>2. Runs(m, TRUE, Submit, At(F, F, Tracked(m), TRUE, TRUE), Settled(F, Tracked(m)))
    BY <2>1, SubmitRuns
  <2> QED
    BY <2>2, RunsPlainly DEF p5
<1>6. Substep(m) = p1 \o p2 \o p3 \o p4 \o p5
  BY DEF Substep
<1> HIDE DEF p1, p2, p3, p4, p5, F
<1>7. Runs(m, FALSE, p1 \o p2 \o p3 \o p4 \o p5, Stepping(m), Settled(F, Tracked(m)))
  BY <1>1, <1>2, <1>3, <1>4, <1>5, RunsThen
<1> QED
  BY <1>6, <1>7 DEF F

-----------------------------------------------------------------------------
(* Leaving a frame. *)

LEMMA ReleasesRuns ==
    ASSUME NEW m, NEW S, NEW D, NEW k \in BOOLEAN, NEW names, names \intersect Slots = {},
           NEW T, T = S \ names, NEW C, C \subseteq D \ names
    PROVE  Runs(m, FALSE, Release(names), View(S, S, D, FALSE, FALSE, k),
                View(T, T, C, FALSE, FALSE, k))
<1> DEFINE b == D \ names
<1>1. FALSE \in BOOLEAN
  OBVIOUS
<1>2. Runs(m, TRUE, Release(names), View(S, S, D, FALSE, FALSE, k), View(T, T, b, FALSE, FALSE, k))
  BY <1>1, ReleaseRuns
<1>3. Covers(View(T, T, b, FALSE, FALSE, k), View(T, T, C, FALSE, FALSE, k))
  BY DEF View, Covers, Forgets, SameFlags
<1> HIDE DEF b
<1>4. Runs(m, TRUE, Release(names), View(S, S, D, FALSE, FALSE, k), View(T, T, C, FALSE, FALSE, k))
  BY <1>2, <1>3, RunsToLess
<1> QED
  BY <1>4, RunsPlainly

LEMMA PutRuns ==
    ASSUME NEW m, NEW S, NEW D, StateNames(m) \subseteq S, Tracked(m) \subseteq D,
           NEW T, T = S \ StateNames(m)
    PROVE  Runs(m, FALSE, PutState(m), Settled(S, D), View(T, T, {}, FALSE, FALSE, TRUE))
<1> DEFINE i == Instruction("put", StateNames(m), "none", {}, {})
           v == Settled(S, D)
           w == View(T, T, {}, FALSE, FALSE, TRUE)
<1>1. /\ IsInstruction(i) /\ i.op = "put" /\ i.names = StateNames(m) /\ i.drop = {} /\ i.free = {}
  BY DEF Instruction, IsInstruction
<1>2. /\ v.scope = S /\ v.written = S /\ v.done = D /\ v.kept = FALSE /\ v.open = FALSE /\ v.flown = FALSE
      /\ w.scope = T /\ w.written = T /\ w.done = {} /\ w.kept = TRUE
  BY DEF View, Settled
<1> HIDE DEF i, v, w
<1>3. Puts(m, i, v, w)
  BY <1>1, <1>2 DEF Puts, Forgets
<1>4. Goes(m, TRUE, i, v, w)
  BY <1>1, <1>3 DEF Goes
<1>5. Runs(m, TRUE, <<i>>, v, w)
  BY <1>4, RunsOne
<1>6. Runs(m, FALSE, <<i>>, v, w)
  BY <1>5, RunsPlainly
<1> QED
  BY <1>6 DEF i, v, w, PutState

LEMMA DuplicateVelocityRuns ==
    ASSUME NEW m, NEW S, NEW D, D \subseteq S, Velocity \subseteq S,
           S \intersect {"out2x", "out2y", "out2z"} = {}, NEW T, T = S \union {"out2x", "out2y", "out2z"}
    PROVE  Runs(m, FALSE, DuplicateVelocity, Settled(S, D), Settled(T, D))
<1> DEFINE P == [a \in 1..3 |-> Duplicate(OutFaces[a], Axes[a], Faces[a])]
           S1 == S \union {"out2x"}
           S2 == S1 \union {"out2y"}
           S3 == S2 \union {"out2z"}
<1>1. /\ P = [a \in 1..3 |-> P[a]] /\ P[1] = Duplicate("out2x", "x", "vx")
      /\ P[2] = Duplicate("out2y", "y", "vy") /\ P[3] = Duplicate("out2z", "z", "vz")
  BY Sequences_ DEF OutFaces, Axes
<1>2. "x" \in PoolShapes /\ "y" \in PoolShapes /\ "z" \in PoolShapes
  BY Apart
<1>3. "out2x" \notin Slots /\ "out2y" \notin Slots /\ "out2z" \notin Slots
  BY Apart
<1>4. /\ "out2x" \notin S /\ "out2y" \notin S1 /\ "out2z" \notin S2 /\ S3 = T
      /\ S1 = S \union {"out2x"} /\ S2 = S1 \union {"out2y"} /\ S3 = S2 \union {"out2z"}
      /\ "vx" \in S /\ "vy" \in S1 /\ "vz" \in S2 /\ D \subseteq S1 /\ D \subseteq S2
  BY Sequences_
<1> HIDE DEF P, S1, S2, S3
<1>5. Runs(m, FALSE, P[1], Settled(S, D), Settled(S1, D))
  <2>1. Runs(m, FALSE, Duplicate("out2x", "x", "vx"), Settled(S, D), Settled(S1, D))
    BY <1>2, <1>3, <1>4, DuplicateRuns
  <2> QED
    BY <1>1, <2>1
<1>6. Runs(m, FALSE, P[2], Settled(S1, D), Settled(S2, D))
  <2>1. Runs(m, FALSE, Duplicate("out2y", "y", "vy"), Settled(S1, D), Settled(S2, D))
    BY <1>2, <1>3, <1>4, DuplicateRuns
  <2> QED
    BY <1>1, <2>1
<1>7. Runs(m, FALSE, P[3], Settled(S2, D), Settled(S3, D))
  <2>1. Runs(m, FALSE, Duplicate("out2z", "z", "vz"), Settled(S2, D), Settled(S3, D))
    BY <1>2, <1>3, <1>4, DuplicateRuns
  <2> QED
    BY <1>1, <2>1
<1>8. Runs(m, FALSE, FlattenSeq(P), Settled(S, D), Settled(S3, D))
  BY <1>1, <1>5, <1>6, <1>7, RunsAxes
<1> QED
  BY <1>4, <1>8 DEF P, DuplicateVelocity

\* The outputs of the flame and of the char are computed when there is something to.
LEMMA ComputedRuns ==
    ASSUME NEW m, NEW S, NEW D, D \subseteq S, NEW n \in {"out3", "out4", "out5"}, n \notin S,
           NEW T, T = S \union {n}
    PROVE  /\ n = "out3" /\ (m.fire => "react" \in S)
                 => Runs(m, FALSE, FlameOutput(m), Settled(S, D), Settled(T, D))
           /\ n = "out4" /\ (m.surface => {"burned", "load"} \subseteq S)
                 => Runs(m, FALSE, CharOutput(m), Settled(S, D), Settled(T, D))
           /\ n = "out5" /\ (m.fire => "fuel" \in S)
                 => Runs(m, FALSE, FuelOutput(m), Settled(S, D), Settled(T, D))
<1>1. n \notin Slots /\ "cells" \in PoolShapes
  BY Apart
<1>2. Runs(m, FALSE, AcquireZeroed(n, "cells"), Settled(S, D), Settled(T, D))
  BY <1>1, AcquireZeroedRuns
<1>3. ASSUME n = "out3", m.fire, "react" \in S
      PROVE  Runs(m, FALSE, FlameOutput(m), Settled(S, D), Settled(T, D))
  <2> DEFINE i == [Flame("out3")[1] EXCEPT !.op = "run"]
  <2>1. i = [op |-> "run", names |-> {}, kernel |-> "flame", reads |-> {"react"}, writes |-> {"out3"},
             drop |-> {}, free |-> {}]
    BY DEF Flame, Dispatch, Instruction
  <2>2. FlameOutput(m) = Acquire("out3", "cells") \o <<i>>
    BY <1>3 DEF FlameOutput
  <2> HIDE DEF i
  <2>3. /\ IsInstruction(i) /\ i.op = "run" /\ i.kernel # "none" /\ i.free = {}
        /\ i.drop \intersect Slots = {} /\ i.reads \subseteq S /\ i.writes = {"out3"}
    BY <1>3, <2>1 DEF IsInstruction
  <2>4. Runs(m, FALSE, Acquire("out3", "cells") \o <<i>>, Settled(S, D),
             Settled(S \union {"out3"}, D))
    BY <1>1, <1>3, <2>3, FillRuns
  <2> QED
    BY <1>3, <2>2, <2>4
<1>4. ASSUME n = "out4", m.surface, {"burned", "load"} \subseteq S
      PROVE  Runs(m, FALSE, CharOutput(m), Settled(S, D), Settled(T, D))
  <2> DEFINE i == [SurfaceChar("out4")[1] EXCEPT !.op = "run"]
  <2>1. i = [op |-> "run", names |-> {}, kernel |-> "surface_char", reads |-> {"burned", "load"},
             writes |-> {"out4"}, drop |-> {}, free |-> {}]
    BY DEF SurfaceChar, Dispatch, Instruction
  <2>2. CharOutput(m) = Acquire("out4", "cells") \o <<i>>
    BY <1>4 DEF CharOutput
  <2> HIDE DEF i
  <2>3. /\ IsInstruction(i) /\ i.op = "run" /\ i.kernel # "none" /\ i.free = {}
        /\ i.drop \intersect Slots = {} /\ i.reads \subseteq S /\ i.writes = {"out4"}
    BY <1>4, <2>1 DEF IsInstruction
  <2>4. Runs(m, FALSE, Acquire("out4", "cells") \o <<i>>, Settled(S, D),
             Settled(S \union {"out4"}, D))
    BY <1>1, <1>4, <2>3, FillRuns
  <2> QED
    BY <1>4, <2>2, <2>4
<1>5. ASSUME n = "out5", m.fire, "fuel" \in S
      PROVE  Runs(m, FALSE, FuelOutput(m), Settled(S, D), Settled(T, D))
  <2>1. Runs(m, FALSE, Duplicate(n, "cells", "fuel"), Settled(S, D), Settled(T, D))
    BY <1>1, <1>5, DuplicateRuns
  <2> QED
    BY <1>5, <2>1 DEF FuelOutput
<1> QED
  BY <1>2, <1>3, <1>4, <1>5 DEF FlameOutput, CharOutput, FuelOutput

LEMMA LeaveRuns ==
    ASSUME NEW m \in Modes
    PROVE  Runs(m, FALSE, Leave(m), Settled(Fields(m), Tracked(m)),
                View({}, {}, {}, FALSE, FALSE, TRUE))
<1> DEFINE D == Tracked(m)
           F == Fields(m)
           S0 == F \ {"mask"}
           out2 == {"out2x", "out2y", "out2z"}
           U0 == S0 \union {"out0"}
           S1 == IF 0 \in m.wanted THEN U0 ELSE S0
           U1 == S1 \union {"out1"}
           S2 == IF 1 \in m.wanted THEN U1 ELSE S1
           U2 == S2 \union out2
           S3 == IF 2 \in m.wanted THEN U2 ELSE S2
           U3 == S3 \union {"out3"}
           S4 == IF 3 \in m.wanted THEN U3 ELSE S3
           U4 == S4 \union {"out4"}
           S5 == IF 4 \in m.wanted THEN U4 ELSE S4
           U5 == S5 \union {"out5"}
           S6 == IF 5 \in m.wanted THEN U5 ELSE S5
           S7 == S6 \ InputNames
           S8 == S7 \ StateNames(m)
           p0 == Release({"mask"})
           p7 == Release(InputNames)
           p8 == PutState(m)
           p9 == Release(OutputNames)
           c0 == Duplicate("out0", "cells", "density")
           c1 == Duplicate("out1", "cells", "temperature")
           c2 == DuplicateVelocity
           c3 == FlameOutput(m)
           c4 == CharOutput(m)
           c5 == FuelOutput(m)
<1>1. /\ F \intersect OutputNames = {} /\ OutputNames = {"out0", "out1", "out3", "out4",
                                                         "out5"} \union out2
      /\ OutputNames \intersect Slots = {} /\ InputNames \intersect Slots = {} /\ "cells" \in PoolShapes
      /\ "mask" \notin Slots
  BY Apart, Sequences_ DEF OutputNames
<1>2. /\ Velocity \subseteq F /\ {"density", "temperature"} \subseteq F
      /\ m.fire => {"fuel", "react"} \subseteq F
      /\ m.surface => {"burned", "load"} \subseteq F
  BY There
<1>3. /\ D \subseteq S0 /\ Velocity \subseteq S0 /\ {"density", "temperature"} \subseteq S0
      /\ m.fire => {"fuel", "react"} \subseteq S0
      /\ m.surface => {"burned", "load"} \subseteq S0
      /\ StateNames(m) \subseteq S0 /\ D \intersect {"mask"} = {} /\ F \ {"mask"} = S0
  <2>1. "mask" \notin StateNames(m)
    BY Sequences_ DEF StateNames
  <2>2. "mask" \notin Velocity
    BY Sequences_
  <2> QED
    BY <1>2, <2>1, <2>2 DEF Tracked, Fields
<1>4. /\ S0 \subseteq S1 /\ S1 \subseteq S2 /\ S2 \subseteq S3 /\ S3 \subseteq S4 /\ S4 \subseteq S5 /\ S5 \subseteq S6
  OBVIOUS
<1>5. /\ "out0" \notin S0 /\ "out1" \notin S1 /\ S2 \intersect out2 = {} /\ "out3" \notin S3
      /\ "out4" \notin S4 /\ "out5" \notin S5
  BY <1>1
<1>6. S6 \subseteq S0 \union OutputNames
  BY <1>1
<1>7. F = StateNames(m) \union Given(m) /\ Given(m) \subseteq InputNames \union {"mask"}
  BY DEF Fields, Given, InputNames
<1>8. S8 \ OutputNames = {}
  BY <1>6, <1>7
<1>9. StateNames(m) \subseteq S7 /\ D \intersect InputNames = {} /\ D \subseteq StateNames(m)
  BY <1>3, <1>4, Apart DEF Tracked
<1>10. /\ U0 = S0 \union {"out0"} /\ U1 = S1 \union {"out1"} /\ U2 = S2 \union {"out2x", "out2y", "out2z"}
       /\ U3 = S3 \union {"out3"} /\ U4 = S4 \union {"out4"} /\ U5 = S5 \union {"out5"}
       /\ S7 = S6 \ InputNames /\ S8 = S7 \ StateNames(m)
  OBVIOUS
<1>11. /\ (0 \in m.wanted => S1 = U0) /\ (~(0 \in m.wanted) => S1 = S0)
       /\ (1 \in m.wanted => S2 = U1) /\ (~(1 \in m.wanted) => S2 = S1)
       /\ (2 \in m.wanted => S3 = U2) /\ (~(2 \in m.wanted) => S3 = S2)
       /\ (3 \in m.wanted => S4 = U3) /\ (~(3 \in m.wanted) => S4 = S3)
       /\ (4 \in m.wanted => S5 = U4) /\ (~(4 \in m.wanted) => S5 = S4)
       /\ (5 \in m.wanted => S6 = U5) /\ (~(5 \in m.wanted) => S6 = S5)
  OBVIOUS
<1>12. S2 \intersect {"out2x", "out2y", "out2z"} = {}
  BY <1>5
<1>13. \A k \in 0..5 : (k \in m.wanted) \in BOOLEAN
  OBVIOUS
<1>14. Leave(m) = p0 \o (When(0 \in m.wanted, c0) \o When(1 \in m.wanted,
                                                          c1) \o When(2 \in m.wanted, c2)
                        \o When(3 \in m.wanted, c3) \o When(4 \in m.wanted,
                                                            c4) \o When(5 \in m.wanted, c5))
                     \o p7 \o p8 \o p9
  BY DEF Leave, CopyOutputs
<1>15. /\ D \subseteq S1 /\ D \subseteq S2 /\ D \subseteq S3 /\ D \subseteq S4 /\ D \subseteq S5
       /\ "density" \in S0 /\ "temperature" \in S1 /\ Velocity \subseteq S2
       /\ (m.fire => "react" \in S3) /\ (m.surface => {"burned", "load"} \subseteq S4)
       /\ (m.fire => "fuel" \in S5)
  BY <1>3, <1>4
<1> HIDE DEF S0, S1, S2, S3, S4, S5, S6, S7, S8, U0, U1, U2, U3, U4, U5, D, F
<1>20. Runs(m, FALSE, p0, Settled(F, D), Settled(S0, D))
  <2>1. {"mask"} \intersect Slots = {} /\ FALSE \in BOOLEAN /\ S0 = F \ {"mask"} /\ D \subseteq D \ {"mask"}
    BY <1>1, <1>3
  <2> QED
    BY <2>1, ReleasesRuns DEF Settled
<1>21. Runs(m, FALSE, c0, Settled(S0, D), Settled(U0, D))
  BY <1>1, <1>3, <1>5, <1>10, <1>15, DuplicateRuns
<1>22. Runs(m, FALSE, c1, Settled(S1, D), Settled(U1, D))
  BY <1>1, <1>5, <1>10, <1>15, DuplicateRuns
<1>23. Runs(m, FALSE, c2, Settled(S2, D), Settled(U2, D))
  BY <1>10, <1>12, <1>15, DuplicateVelocityRuns
<1>24. Runs(m, FALSE, c3, Settled(S3, D), Settled(U3, D))
  <2>1. "out3" \in {"out3", "out4", "out5"}
    OBVIOUS
  <2> QED
    BY <1>5, <1>10, <1>15, <2>1, ComputedRuns
<1>25. Runs(m, FALSE, c4, Settled(S4, D), Settled(U4, D))
  <2>1. "out4" \in {"out3", "out4", "out5"}
    OBVIOUS
  <2> QED
    BY <1>5, <1>10, <1>15, <2>1, ComputedRuns
<1>26. Runs(m, FALSE, c5, Settled(S5, D), Settled(U5, D))
  <2>1. "out5" \in {"out3", "out4", "out5"}
    OBVIOUS
  <2> QED
    BY <1>5, <1>10, <1>15, <2>1, ComputedRuns
<1>27. Runs(m, FALSE, p7, Settled(S6, D), Settled(S7, D))
  <2>1. FALSE \in BOOLEAN /\ D \subseteq D \ InputNames
    BY <1>9
  <2> QED
    BY <1>1, <1>10, <2>1, ReleasesRuns DEF Settled
<1>28. Runs(m, FALSE, p8, Settled(S7, D), View(S8, S8, {}, FALSE, FALSE, TRUE))
  BY <1>9, <1>10, PutRuns DEF D
<1>29. Runs(m, FALSE, p9, View(S8, S8, {}, FALSE, FALSE, TRUE),
            View({}, {}, {}, FALSE, FALSE, TRUE))
  <2>1. TRUE \in BOOLEAN /\ {} \subseteq {} \ OutputNames /\ {} = S8 \ OutputNames
    BY <1>8
  <2> QED
    BY <1>1, <2>1, ReleasesRuns
<1> HIDE DEF p0, p7, p8, p9, c0, c1, c2, c3, c4, c5
<1>30. ASSUME NEW k, NEW p, NEW S, NEW U, NEW T, Runs(m, FALSE, p, Settled(S, D), Settled(U, D)),
              k \in m.wanted => T = U, ~(k \in m.wanted) => T = S
       PROVE  Runs(m, FALSE, When(k \in m.wanted, p), Settled(S, D), Settled(T, D))
  <2>1. k \in m.wanted => Runs(m, FALSE, p, Settled(S, D), Settled(T, D))
    BY <1>30
  <2>2. ~(k \in m.wanted) => Covers(Settled(S, D), Settled(T, D))
    BY <1>30, CoversAll
  <2> DEFINE K == k \in m.wanted
  <2>5. K \in BOOLEAN
    OBVIOUS
  <2>3. (K => Runs(m, FALSE, p, Settled(S, D), Settled(T, D)))
        /\ (~K => Covers(Settled(S, D), Settled(T, D)))
    BY <2>1, <2>2
  <2> HIDE DEF K
  <2>4. Runs(m, FALSE, When(K, p), Settled(S, D), Settled(T, D))
    BY <2>3, <2>5, RunsWhen
  <2> QED
    BY <2>4 DEF K
<1> DEFINE q0 == When(0 \in m.wanted, c0)
           q1 == When(1 \in m.wanted, c1)
           q2 == When(2 \in m.wanted, c2)
           q3 == When(3 \in m.wanted, c3)
           q4 == When(4 \in m.wanted, c4)
           q5 == When(5 \in m.wanted, c5)
<1>31. /\ Runs(m, FALSE, q0, Settled(S0, D), Settled(S1, D))
       /\ Runs(m, FALSE, q1, Settled(S1, D), Settled(S2, D))
       /\ Runs(m, FALSE, q2, Settled(S2, D), Settled(S3, D))
       /\ Runs(m, FALSE, q3, Settled(S3, D), Settled(S4, D))
       /\ Runs(m, FALSE, q4, Settled(S4, D), Settled(S5, D))
       /\ Runs(m, FALSE, q5, Settled(S5, D), Settled(S6, D))
  BY <1>11, <1>21, <1>22, <1>23, <1>24, <1>25, <1>26, <1>30
<1>32. Leave(m) = p0 \o (q0 \o q1 \o q2 \o q3 \o q4 \o q5) \o p7 \o p8 \o p9
  BY <1>14
<1> HIDE DEF q0, q1, q2, q3, q4, q5
<1>33. Runs(m, FALSE, q0 \o q1 \o q2 \o q3 \o q4 \o q5, Settled(S0, D), Settled(S6, D))
  BY <1>31, RunsThen
<1> DEFINE q == q0 \o q1 \o q2 \o q3 \o q4 \o q5
<1> HIDE DEF q
<1>34. Runs(m, FALSE, p0 \o q \o p7 \o p8 \o p9, Settled(F, D),
            View({}, {}, {}, FALSE, FALSE, TRUE))
  BY <1>20, <1>27, <1>28, <1>29, <1>33, RunsThen DEF q
<1> QED
  BY <1>32, <1>34 DEF q, F, D

-----------------------------------------------------------------------------
(* After a failure. *)

LEMMA StageAdds ==
    ASSUME NEW p, IsStage(p), NEW n \in Nat, Len(p) = n, NEW i
    PROVE  /\ IsStage(p \o <<i>>) /\ Len(p \o <<i>>) = n + 1 /\ (p \o <<i>>)[n + 1] = i
           /\ \A k \in 1..n : (p \o <<i>>)[k] = p[k]
<1> DEFINE r == <<i>>
<1>1. IsStage(r) /\ Len(r) = 1 /\ r[1] = i
  BY DEF IsStage
<1> HIDE DEF r
<1>7. IsStage(p \o r)
  BY <1>1, StageJoin
<1>8. Len(p \o r) = Len(p) + Len(r)
  BY <1>1, StageJoin
<1>9. \A k \in 1..Len(r) : (p \o r)[Len(p) + k] = r[k]
  BY <1>1, StageJoin
<1>10. \A k \in 1..Len(p) : (p \o r)[k] = p[k]
  BY <1>1, StageJoin
<1> DEFINE q == p \o r
<1>2. /\ IsStage(q) /\ Len(q) = Len(p) + Len(r)
      /\ \A k \in 1..Len(p) : q[k] = p[k]
      /\ \A k \in 1..Len(r) : q[Len(p) + k] = r[k]
  BY <1>7, <1>8, <1>9, <1>10
<1> HIDE DEF q
<1>3. \A k \in 1..1 : q[n + k] = r[k]
  BY <1>1, <1>2
<1>4. 1 \in 1..1
  OBVIOUS
<1>5. q[n + 1] = i
  BY <1>1, <1>3, <1>4
<1>6. IsStage(q) /\ Len(q) = n + 1 /\ \A k \in 1..n : q[k] = p[k]
  BY <1>1, <1>2
<1> QED
  BY <1>5, <1>6 DEF q, r

LEMMA CleanupIs ==
    ASSUME NEW m
    PROVE  /\ IsStage(Cleanup(m)) /\ Len(Cleanup(m)) = 7
           /\ Cleanup(m)[1].op = "retire_locals" /\ Cleanup(m)[1].names = Owned(m)
           /\ Cleanup(m)[2].op = "wait" /\ Cleanup(m)[3].op = "discard"
           /\ \A k \in 4..7 : Cleanup(m)[k].op = "release"
           /\ Cleanup(m)[4].names = {"mask"} /\ Cleanup(m)[5].names = OutputNames
           /\ Cleanup(m)[6].names = InputNames /\ Cleanup(m)[7].names = StateNames(m)
           /\ \A k \in 1..7 : Cleanup(m)[k].drop = {} /\ Cleanup(m)[k].free = {}
<1> DEFINE i1 == Instruction("retire_locals", Owned(m), "none", {}, {})
           i2 == Instruction("wait", {}, "none", {}, {})
           i3 == Instruction("discard", {}, "none", {}, {})
           i4 == Instruction("release", {"mask"}, "none", {}, {})
           i5 == Instruction("release", OutputNames, "none", {}, {})
           i6 == Instruction("release", InputNames, "none", {}, {})
           i7 == Instruction("release", StateNames(m), "none", {}, {})
<1>1. Cleanup(m) = <<i1>> \o <<i2, i3>> \o <<i4>> \o <<i5>> \o <<i6>> \o <<i7>>
  BY DEF Cleanup, Abandon, Release
<1>2. /\ i1.op = "retire_locals" /\ i1.names = Owned(m) /\ i2.op = "wait" /\ i3.op = "discard"
      /\ i4.op = "release" /\ i5.op = "release" /\ i6.op = "release" /\ i7.op = "release"
      /\ i4.names = {"mask"} /\ i5.names = OutputNames /\ i6.names = InputNames /\ i7.names = StateNames(m)
  BY DEF Instruction
<1>3. /\ i1.drop = {} /\ i2.drop = {} /\ i3.drop = {} /\ i4.drop = {} /\ i5.drop = {} /\ i6.drop = {} /\ i7.drop = {}
      /\ i1.free = {} /\ i2.free = {} /\ i3.free = {} /\ i4.free = {} /\ i5.free = {} /\ i6.free = {} /\ i7.free = {}
  BY DEF Instruction
<1> HIDE DEF i1, i2, i3, i4, i5, i6, i7
<1> DEFINE b1 == <<i1>>
           b2 == <<i2, i3>>
           a3 == b1 \o b2
           a4 == a3 \o <<i4>>
           a5 == a4 \o <<i5>>
           a6 == a5 \o <<i6>>
           a7 == a6 \o <<i7>>
<1>5. Cleanup(m) = a7
  BY <1>1
<1>6. IsStage(b1) /\ Len(b1) = 1 /\ b1[1] = i1
  BY DEF IsStage
<1>7. IsStage(b2) /\ Len(b2) = 2 /\ b2[1] = i2 /\ b2[2] = i3
  <2>1. Len(b2) = 2 /\ b2[1] = i2 /\ b2[2] = i3
    OBVIOUS
  <2> DEFINE T == {b2[k] : k \in 1..Len(b2)}
  <2>2. i2 \in T /\ i3 \in T
    BY <2>1
  <2> HIDE DEF T
  <2>3. b2 \in Seq(T)
    BY <2>2
  <2> QED
    BY <2>1, <2>3 DEF T, IsStage
<1> HIDE DEF b1, b2
<1>8. IsStage(a3) /\ Len(a3) = 3 /\ a3[1] = i1 /\ a3[2] = i2 /\ a3[3] = i3
  <2>1. /\ IsStage(a3) /\ Len(a3) = Len(b1) + Len(b2)
        /\ \A k \in 1..Len(b1) : a3[k] = b1[k]
        /\ \A k \in 1..Len(b2) : a3[Len(b1) + k] = b2[k]
    <3>0. IsStage(b1) /\ IsStage(b2)
      BY <1>6, <1>7
    <3>1. IsStage(b1 \o b2)
      BY <3>0, StageJoin
    <3>2. Len(b1 \o b2) = Len(b1) + Len(b2)
      BY <3>0, StageJoin
    <3>3. \A k \in 1..Len(b2) : (b1 \o b2)[Len(b1) + k] = b2[k]
      BY <3>0, StageJoin
    <3>4. \A k \in 1..Len(b1) : (b1 \o b2)[k] = b1[k]
      BY <3>0, StageJoin
    <3> QED
      BY <3>1, <3>2, <3>3, <3>4
  <2> HIDE DEF a3
  <2>2. (\A k \in 1..1 : a3[k] = b1[k]) /\ (\A k \in 1..2 : a3[1 + k] = b2[k]) /\ Len(a3) = 1 + 2
    BY <1>6, <1>7, <2>1
  <2>3. 1 \in 1..1 /\ 1 \in 1..2 /\ 2 \in 1..2 /\ 1 + 1 = 2 /\ 1 + 2 = 3
    OBVIOUS
  <2>4. a3[1] = b1[1] /\ a3[1 + 1] = b2[1] /\ a3[1 + 2] = b2[2]
    BY <2>2, <2>3
  <2> QED
    BY <1>6, <1>7, <2>1, <2>2, <2>3, <2>4
<1> HIDE DEF a3
<1>11. IsStage(a4) /\ Len(a4) = 4 /\ a4[1] = i1 /\ a4[2] = i2 /\ a4[3] = i3 /\ a4[4] = i4
  <2>1. IsStage(a3) /\ Len(a3) = 3 /\ 3 \in Nat /\ 3 + 1 = 4
    BY <1>8
  <2> DEFINE c == 3
  <2>6. c \in Nat /\ IsStage(a3) /\ Len(a3) = c
    BY <2>1
  <2> HIDE DEF c
  <2>5. /\ IsStage(a3 \o <<i4>>) /\ Len(a3 \o <<i4>>) = c + 1 /\ (a3 \o <<i4>>)[c + 1] = i4
        /\ \A k \in 1..c : (a3 \o <<i4>>)[k] = a3[k]
    BY <2>6, StageAdds
  <2>2. /\ IsStage(a3 \o <<i4>>) /\ Len(a3 \o <<i4>>) = 3 + 1 /\ (a3 \o <<i4>>)[3 + 1] = i4
        /\ \A k \in 1..3 : (a3 \o <<i4>>)[k] = a3[k]
    BY <2>5 DEF c
  <2>3. 1 \in 1..3 /\ 2 \in 1..3 /\ 3 \in 1..3
    OBVIOUS
  <2> HIDE DEF a4
  <2>4. /\ IsStage(a4) /\ Len(a4) = 3 + 1 /\ a4[3 + 1] = i4
        /\ \A k \in 1..3 : a4[k] = a3[k]
    BY <2>2 DEF a4
  <2> QED
    BY <1>8, <2>1, <2>3, <2>4
<1> HIDE DEF a4
<1>12. /\ IsStage(a5) /\ Len(a5) = 5 /\ a5[1] = i1 /\ a5[2] = i2 /\ a5[3] = i3 /\ a5[4] = i4 /\ a5[5] = i5
  <2>1. IsStage(a4) /\ Len(a4) = 4 /\ 4 \in Nat /\ 4 + 1 = 5
    BY <1>11
  <2> DEFINE c == 4
  <2>6. c \in Nat /\ IsStage(a4) /\ Len(a4) = c
    BY <2>1
  <2> HIDE DEF c
  <2>5. /\ IsStage(a4 \o <<i5>>) /\ Len(a4 \o <<i5>>) = c + 1 /\ (a4 \o <<i5>>)[c + 1] = i5
        /\ \A k \in 1..c : (a4 \o <<i5>>)[k] = a4[k]
    BY <2>6, StageAdds
  <2>2. /\ IsStage(a4 \o <<i5>>) /\ Len(a4 \o <<i5>>) = 4 + 1 /\ (a4 \o <<i5>>)[4 + 1] = i5
        /\ \A k \in 1..4 : (a4 \o <<i5>>)[k] = a4[k]
    BY <2>5 DEF c
  <2>3. 1 \in 1..4 /\ 2 \in 1..4 /\ 3 \in 1..4 /\ 4 \in 1..4
    OBVIOUS
  <2> HIDE DEF a5
  <2>4. /\ IsStage(a5) /\ Len(a5) = 4 + 1 /\ a5[4 + 1] = i5
        /\ \A k \in 1..4 : a5[k] = a4[k]
    BY <2>2 DEF a5
  <2> QED
    BY <1>11, <2>1, <2>3, <2>4
<1> HIDE DEF a5
<1>13. /\ IsStage(a6) /\ Len(a6) = 6 /\ a6[1] = i1 /\ a6[2] = i2 /\ a6[3] = i3 /\ a6[4] = i4 /\ a6[5] = i5
       /\ a6[6] = i6
  <2>1. IsStage(a5) /\ Len(a5) = 5 /\ 5 \in Nat /\ 5 + 1 = 6
    BY <1>12
  <2> DEFINE c == 5
  <2>6. c \in Nat /\ IsStage(a5) /\ Len(a5) = c
    BY <2>1
  <2> HIDE DEF c
  <2>5. /\ IsStage(a5 \o <<i6>>) /\ Len(a5 \o <<i6>>) = c + 1 /\ (a5 \o <<i6>>)[c + 1] = i6
        /\ \A k \in 1..c : (a5 \o <<i6>>)[k] = a5[k]
    BY <2>6, StageAdds
  <2>2. /\ IsStage(a5 \o <<i6>>) /\ Len(a5 \o <<i6>>) = 5 + 1 /\ (a5 \o <<i6>>)[5 + 1] = i6
        /\ \A k \in 1..5 : (a5 \o <<i6>>)[k] = a5[k]
    BY <2>5 DEF c
  <2>3. 1 \in 1..5 /\ 2 \in 1..5 /\ 3 \in 1..5 /\ 4 \in 1..5 /\ 5 \in 1..5
    OBVIOUS
  <2> HIDE DEF a6
  <2>4. /\ IsStage(a6) /\ Len(a6) = 5 + 1 /\ a6[5 + 1] = i6
        /\ \A k \in 1..5 : a6[k] = a5[k]
    BY <2>2 DEF a6
  <2> QED
    BY <1>12, <2>1, <2>3, <2>4
<1> HIDE DEF a6
<1>14. /\ IsStage(a7) /\ Len(a7) = 7 /\ a7[1] = i1 /\ a7[2] = i2 /\ a7[3] = i3 /\ a7[4] = i4 /\ a7[5] = i5
       /\ a7[6] = i6 /\ a7[7] = i7
  <2>1. IsStage(a6) /\ Len(a6) = 6 /\ 6 \in Nat /\ 6 + 1 = 7
    BY <1>13
  <2> DEFINE c == 6
  <2>6. c \in Nat /\ IsStage(a6) /\ Len(a6) = c
    BY <2>1
  <2> HIDE DEF c
  <2>5. /\ IsStage(a6 \o <<i7>>) /\ Len(a6 \o <<i7>>) = c + 1 /\ (a6 \o <<i7>>)[c + 1] = i7
        /\ \A k \in 1..c : (a6 \o <<i7>>)[k] = a6[k]
    BY <2>6, StageAdds
  <2>2. /\ IsStage(a6 \o <<i7>>) /\ Len(a6 \o <<i7>>) = 6 + 1 /\ (a6 \o <<i7>>)[6 + 1] = i7
        /\ \A k \in 1..6 : (a6 \o <<i7>>)[k] = a6[k]
    BY <2>5 DEF c
  <2>3. 1 \in 1..6 /\ 2 \in 1..6 /\ 3 \in 1..6 /\ 4 \in 1..6 /\ 5 \in 1..6 /\ 6 \in 1..6
    OBVIOUS
  <2> HIDE DEF a7
  <2>4. /\ IsStage(a7) /\ Len(a7) = 6 + 1 /\ a7[6 + 1] = i7
        /\ \A k \in 1..6 : a7[k] = a6[k]
    BY <2>2 DEF a7
  <2> QED
    BY <1>13, <2>1, <2>3, <2>4
<1>15. \A k \in 1..7 : k = 1 \/ k = 2 \/ k = 3 \/ k = 4 \/ k = 5 \/ k = 6 \/ k = 7
  OBVIOUS
<1> HIDE DEF a7
<1>9. \A k \in 4..7 : Cleanup(m)[k].op = "release"
  <2>1. \A k \in 4..7 : k = 4 \/ k = 5 \/ k = 6 \/ k = 7
    OBVIOUS
  <2> QED
    BY <1>2, <1>5, <1>14, <2>1
<1>10. \A k \in 1..7 : Cleanup(m)[k].drop = {} /\ Cleanup(m)[k].free = {}
  BY <1>3, <1>5, <1>14, <1>15
<1> QED
  BY <1>2, <1>5, <1>9, <1>10, <1>14

-----------------------------------------------------------------------------
(***************************************************************************)
(* The pool.                                                               *)
(***************************************************************************)
Textures == PoolShapes \X Nat

\* A sequence of textures without repetition.
OneEach(list) ==
    list \in Seq(Textures) /\ \A i, j \in 1..Len(list) : list[i] = list[j] => i = j

GoodPool(F) ==
    /\ F = [s \in PoolShapes |-> F[s]]
    /\ \A s \in PoolShapes : OneEach(F[s]) /\ \A k \in 1..Len(F[s]) : F[s][k][1] = s

InPool(F) == UNION {Range(F[s]) : s \in PoolShapes}

LEMMA RangeIs ==
    ASSUME NEW S, NEW list \in Seq(S), NEW t
    PROVE  t \in Range(list) <=> \E k \in 1..Len(list) : list[k] = t
  BY DEF Range

LEMMA OneMore ==
    ASSUME NEW list, OneEach(list), NEW t \in Textures, t \notin Range(list)
    PROVE  /\ OneEach(Append(list, t)) /\ Range(Append(list, t)) = Range(list) \union {t}
           /\ Len(Append(list, t)) = Len(list) + 1 /\ Append(list, t)[Len(list) + 1] = t
           /\ \A k \in 1..Len(list) : Append(list, t)[k] = list[k]
<1> DEFINE longer == Append(list, t)
           n == Len(list)
<1>1. list \in Seq(Textures) /\ n \in Nat
  BY DEF OneEach
<1>2. /\ longer \in Seq(Textures) /\ Len(longer) = n + 1 /\ longer[n + 1] = t
      /\ \A k \in 1..n : longer[k] = list[k]
  BY <1>1
<1> HIDE DEF longer, n
<1>3. \A x : x \in Range(longer) <=> \E k \in 1..(n + 1) : longer[k] = x
  BY <1>2, RangeIs
<1>4. \A x : x \in Range(list) <=> \E k \in 1..n : list[k] = x
  BY <1>1, RangeIs DEF n
<1>5. \A k \in 1..(n + 1) : k \in 1..n \/ k = n + 1
  BY <1>1
<1>8. 1..n \subseteq 1..(n + 1) /\ n + 1 \in 1..(n + 1)
  BY <1>1
<1>6. Range(longer) = Range(list) \union {t}
  BY <1>2, <1>3, <1>4, <1>5, <1>8
<1>7. \A i, j \in 1..(n + 1) : longer[i] = longer[j] => i = j
  <2>1. \A i, j \in 1..n : list[i] = list[j] => i = j
    BY DEF OneEach, n
  <2> QED
    BY <1>2, <1>4, <1>5, <2>1
<1> QED
  BY <1>2, <1>6, <1>7 DEF longer, n, OneEach

LEMMA InPoolIs ==
    ASSUME NEW F, NEW t
    PROVE  t \in InPool(F) <=> \E s \in PoolShapes : t \in Range(F[s])
  BY DEF InPool

LEMMA ShapeOf ==
    ASSUME NEW F, GoodPool(F), NEW s \in PoolShapes, NEW t \in Range(F[s])
    PROVE  t[1] = s /\ t \in Textures
<1>1. F[s] \in Seq(Textures) /\ \A k \in 1..Len(F[s]) : F[s][k][1] = s
  BY DEF GoodPool, OneEach
<1>2. PICK k \in 1..Len(F[s]) : F[s][k] = t
  BY <1>1, RangeIs
<1> QED
  BY <1>1, <1>2

LEMMA ReturnsOne ==
    ASSUME NEW F, GoodPool(F), NEW t \in Textures, t \notin InPool(F),
           NEW G, G = [F EXCEPT ![t[1]] = Append(@, t)]
    PROVE  GoodPool(G) /\ InPool(G) = InPool(F) \union {t}
<1> DEFINE s == t[1]
           longer == Append(F[s], t)
<1>1. s \in PoolShapes
  BY DEF Textures
<1>2. OneEach(F[s]) /\ t \notin Range(F[s]) /\ F = [r \in PoolShapes |-> F[r]]
  BY <1>1, InPoolIs DEF GoodPool
<1>3. /\ OneEach(longer) /\ Range(longer) = Range(F[s]) \union {t}
      /\ Len(longer) = Len(F[s]) + 1 /\ longer[Len(F[s]) + 1] = t
      /\ \A k \in 1..Len(F[s]) : longer[k] = F[s][k]
  BY <1>2, OneMore
<1>4. /\ G = [r \in PoolShapes |-> G[r]] /\ G[s] = longer
      /\ \A r \in PoolShapes \ {s} : G[r] = F[r]
  BY <1>1, <1>2
<1>5. \A k \in 1..Len(longer) : longer[k][1] = s
  <2>1. \A k \in 1..Len(F[s]) : F[s][k][1] = s
    BY <1>1 DEF GoodPool
  <2>2. Len(F[s]) \in Nat
    BY <1>2 DEF OneEach
  <2> DEFINE n == Len(F[s])
  <2>3. n \in Nat /\ Len(longer) = n + 1
    BY <1>3, <2>2
  <2>4. \A k \in 1..(n + 1) : k \in 1..n \/ k = n + 1
    BY <2>3
  <2> HIDE DEF longer
  <2> QED
    BY <1>3, <2>1, <2>3, <2>4
<1> HIDE DEF longer, s
<1>6. GoodPool(G)
  <2>1. ASSUME NEW r \in PoolShapes
        PROVE  OneEach(G[r]) /\ \A k \in 1..Len(G[r]) : G[r][k][1] = r
    <3>1. CASE r = s
      BY <1>3, <1>4, <1>5, <3>1
    <3>2. CASE r # s
      <4>1. G[r] = F[r]
        BY <1>4, <3>2
      <4> QED
        BY <4>1 DEF GoodPool
    <3> QED
      BY <3>1, <3>2
  <2> QED
    BY <1>4, <2>1 DEF GoodPool
<1>7. InPool(G) = InPool(F) \union {t}
  <2>1. ASSUME NEW r \in PoolShapes, NEW x
        PROVE  x \in Range(G[r]) <=> x \in Range(F[r]) \/ (r = s /\ x = t)
    <3>1. CASE r = s
      BY <1>3, <1>4, <3>1
    <3>2. CASE r # s
      <4>1. G[r] = F[r]
        BY <1>4, <3>2
      <4> QED
        BY <3>2, <4>1
    <3> QED
      BY <3>1, <3>2
  <2>2. \A x : x \in InPool(G) <=> \E r \in PoolShapes : x \in Range(G[r])
    BY InPoolIs
  <2>3. \A x : x \in InPool(F) <=> \E r \in PoolShapes : x \in Range(F[r])
    BY InPoolIs
  <2>4. ASSUME NEW x \in InPool(G)
        PROVE  x \in InPool(F) \union {t}
    <3>1. PICK r \in PoolShapes : x \in Range(G[r])
      BY <2>2
    <3>2. x \in Range(F[r]) \union {t}
      BY <2>1, <3>1
    <3> QED
      BY <2>3, <3>2
  <2>5. ASSUME NEW x \in InPool(F)
        PROVE  x \in InPool(G)
    <3>1. PICK r \in PoolShapes : x \in Range(F[r])
      BY <2>3
    <3>2. x \in Range(G[r])
      BY <2>1, <3>1
    <3> QED
      BY <2>2, <3>2
  <2>6. t \in Range(G[s])
    BY <1>1, <2>1
  <2>7. t \in InPool(G)
    BY <1>1, <2>2, <2>6
  <2> QED
    BY <2>4, <2>5, <2>7
<1> QED
  BY <1>6, <1>7

\* g gives the first n textures of a list back, one after another.
Gives(g, F, list, n) ==
    g = [i \in 0..n |->
           IF i = 0 THEN F ELSE [g[i - 1] EXCEPT ![list[i][1]] = Append(@, list[i])]]

LEMMA GivesMore ==
    ASSUME NEW F, NEW list, NEW n \in Nat, NEW g, Gives(g, F, list, n)
    PROVE  \E h : Gives(h, F, list, n + 1)
<1> DEFINE last == [g[n] EXCEPT ![list[n + 1][1]] = Append(@, list[n + 1])]
           h == [i \in 0..(n + 1) |-> IF i = n + 1 THEN last ELSE g[i]]
<1> HIDE DEF last
<1>1. h[n + 1] = last /\ \A i \in 0..n : h[i] = g[i]
  OBVIOUS
<1>2. h = [i \in 0..(n + 1) |-> h[i]]
  OBVIOUS
<1>3. \A i \in 0..n : g[i] = IF i = 0 THEN F
                             ELSE [g[i - 1] EXCEPT ![list[i][1]] = Append(@, list[i])]
  BY Zenon DEF Gives
<1> HIDE DEF h
<1>4. ASSUME NEW i \in 0..(n + 1)
      PROVE  h[i] = IF i = 0 THEN F ELSE [h[i - 1] EXCEPT ![list[i][1]] = Append(@, list[i])]
  <2>1. CASE i = n + 1
    <3>1. h[i - 1] = g[n] /\ i # 0
      BY <1>1, <2>1
    <3>2. h[i] = [g[n] EXCEPT ![list[i][1]] = Append(@, list[i])]
      BY <1>1, <2>1 DEF last
    <3> QED
      BY <3>1, <3>2
  <2>2. CASE i # n + 1
    <3>1. i \in 0..n /\ (i # 0 => i - 1 \in 0..n)
      BY <2>2
    <3>2. h[i] = g[i] /\ (i # 0 => h[i - 1] = g[i - 1])
      BY <1>1, <3>1
    <3>3. g[i] = IF i = 0 THEN F ELSE [g[i - 1] EXCEPT ![list[i][1]] = Append(@, list[i])]
      BY <1>3, <3>1
    <3> QED
      BY <3>2, <3>3
  <2> QED
    BY <2>1, <2>2
<1>5. h = [i \in 0..(n + 1) |->
             IF i = 0 THEN F ELSE [h[i - 1] EXCEPT ![list[i][1]] = Append(@, list[i])]]
  BY <1>2, <1>4
<1> QED
  BY <1>5 DEF Gives

LEMMA GivesExists ==
    ASSUME NEW F, NEW list, NEW n \in Nat
    PROVE  \E g : Gives(g, F, list, n)
<1> DEFINE Bad == {k \in Nat : ~ \E g : Gives(g, F, list, k)}
<1> SUFFICES ASSUME Bad # {}
             PROVE  FALSE
  OBVIOUS
<1>1. PICK k \in Bad : \A j \in Bad : k <= j
  <2>1. Bad \in SUBSET Nat
    OBVIOUS
  <2> HIDE DEF Bad
  <2> QED
    BY <2>1, LeastElement
<1>2. k # 0
  <2> DEFINE g == [i \in 0..0 |-> F]
  <2>1. g = [i \in 0..0 |-> IF i = 0 THEN F
                            ELSE [g[i - 1] EXCEPT ![list[i][1]] = Append(@, list[i])]]
    OBVIOUS
  <2> HIDE DEF g
  <2>2. Gives(g, F, list, 0)
    BY <2>1 DEF Gives
  <2> QED
    BY <2>2
<1>3. k - 1 \in Nat /\ k - 1 \notin Bad /\ (k - 1) + 1 = k
  BY <1>1, <1>2
<1>4. PICK g : Gives(g, F, list, k - 1)
  BY <1>3
<1>5. \E h : Gives(h, F, list, (k - 1) + 1)
  BY <1>3, <1>4, GivesMore
<1> QED
  BY <1>1, <1>3, <1>5

LEMMA ReturnedIs ==
    ASSUME GoodPool(free), NEW list, OneEach(list), Range(list) \intersect InPool(free) = {}
    PROVE  /\ GoodPool(Returned(list))
           /\ InPool(Returned(list)) = InPool(free) \union Range(list)
<1> DEFINE n == Len(list)
           g == CHOOSE h : Gives(h, free, list, n)
<1>1. n \in Nat /\ list \in Seq(Textures)
  BY DEF OneEach
<1>2. Gives(g, free, list, n)
  BY <1>1, GivesExists
<1>3. Returned(list) = g[n]
  BY Zenon DEF Returned, Gives
<1> HIDE DEF g
<1>4. \A i \in 0..n : g[i] = IF i = 0 THEN free
                             ELSE [g[i - 1] EXCEPT ![list[i][1]] = Append(@, list[i])]
  BY <1>2, Zenon DEF Gives
<1> DEFINE Part(i) == {list[k] : k \in 1..i}
           Right(i) == GoodPool(g[i]) /\ InPool(g[i]) = InPool(free) \union Part(i)
           Bad == {i \in 0..n : ~Right(i)}
<1>5. Bad = {}
  <2> SUFFICES ASSUME Bad # {}
               PROVE  FALSE
    OBVIOUS
  <2>1. PICK i \in Bad : \A j \in Bad : i <= j
    <3>1. Bad \in SUBSET Nat
      BY <1>1
    <3> HIDE DEF Bad
    <3> QED
      BY <3>1, LeastElement
  <2>2. i \in 0..n /\ ~Right(i)
    OBVIOUS
  <2>3. i # 0
    <3>2. 0 \in 0..n
      BY <1>1
    <3>3. g[0] = free
      BY <1>4, <3>2
    <3>4. Part(0) = {}
      OBVIOUS
    <3>1. Part(0) = {} /\ g[0] = free
      BY <3>3, <3>4
    <3> HIDE DEF Part
    <3> QED
      BY <2>2, <3>1
  <2>4. i - 1 \in 0..n /\ i - 1 \notin Bad /\ i \in 1..n
    BY <1>1, <2>1, <2>2, <2>3
  <2>5. Right(i - 1)
    BY <2>4
  <2>6. list[i] \in Textures
    BY <1>1, <2>4
  <2>7. Part(i) = Part(i - 1) \union {list[i]}
    BY <2>4
  <2>8. list[i] \notin Part(i - 1)
    BY <1>1, <2>4 DEF OneEach
  <2>9. list[i] \in Range(list)
    BY <1>1, <2>4, RangeIs
  <2> HIDE DEF Part
  <2>10. list[i] \notin InPool(g[i - 1])
    BY <2>5, <2>8, <2>9
  <2>11. g[i] = [g[i - 1] EXCEPT ![list[i][1]] = Append(@, list[i])]
    BY <1>4, <2>2, <2>3
  <2>12. GoodPool(g[i]) /\ InPool(g[i]) = InPool(g[i - 1]) \union {list[i]}
    BY <2>5, <2>6, <2>10, <2>11, ReturnsOne
  <2> QED
    BY <2>2, <2>5, <2>7, <2>12
<1>6. Right(n)
  BY <1>1, <1>5
<1>7. Part(n) = Range(list)
  BY <1>1, RangeIs
<1> HIDE DEF Part
<1> QED
  BY <1>3, <1>6, <1>7

-----------------------------------------------------------------------------
(***************************************************************************)
(* A set of textures as a list.                                            *)
(***************************************************************************)
Pick(s) == CHOOSE x \in s : TRUE
Small(S, n) == {T \in SUBSET S : Cardinality(T) <= n}

\* g lists the subsets of S with n elements or less.
Lists(g, S, n) ==
    g = [s \in Small(S, n) |-> IF s = {} THEN <<>> ELSE Append(g[s \ {Pick(s)}], Pick(s))]

LEMMA PickOne ==
    ASSUME NEW S, IsFiniteSet(S), NEW s \in SUBSET S, s # {}
    PROVE  /\ Pick(s) \in s /\ s \ {Pick(s)} \in SUBSET S
           /\ Cardinality(s) \in Nat /\ Cardinality(s \ {Pick(s)}) = Cardinality(s) - 1
<1>1. Pick(s) \in s
  BY DEF Pick
<1>2. IsFiniteSet(s)
  BY FS_Subset
<1>3. Cardinality(s) \in Nat
  BY <1>2, FS_CardinalityType
<1> DEFINE x == Pick(s)
<1>4. x \in s
  BY <1>1
<1> HIDE DEF x
<1>5. Cardinality(s \ {x}) = Cardinality(s) - 1
  BY <1>2, <1>4, FS_RemoveElement
<1> QED
  BY <1>1, <1>3, <1>5 DEF x

LEMMA ListsMore ==
    ASSUME NEW S, IsFiniteSet(S), NEW n \in Nat, NEW g, Lists(g, S, n)
    PROVE  \E h : Lists(h, S, n + 1)
<1> DEFINE h == [s \in Small(S, n + 1) |->
                   IF s = {} THEN <<>> ELSE Append(g[s \ {Pick(s)}], Pick(s))]
<1>1. h = [s \in Small(S, n + 1) |-> h[s]]
  OBVIOUS
<1>2. \A s \in Small(S, n + 1) :
        h[s] = IF s = {} THEN <<>> ELSE Append(g[s \ {Pick(s)}], Pick(s))
  BY Zenon
<1>3. \A s \in Small(S, n) : g[s] = IF s = {} THEN <<>> ELSE Append(g[s \ {Pick(s)}], Pick(s))
  BY Zenon DEF Lists
<1> HIDE DEF h
<1>4. ASSUME NEW s \in Small(S, n)
      PROVE  h[s] = g[s]
  <2>1. s \in Small(S, n + 1)
    <3>1. IsFiniteSet(s) /\ s \in SUBSET S /\ Cardinality(s) <= n
      BY FS_Subset DEF Small
    <3>2. Cardinality(s) \in Nat
      BY <3>1, FS_CardinalityType
    <3> QED
      BY <3>1, <3>2 DEF Small
  <2> QED
    BY <1>2, <1>3, <2>1, Zenon
<1>5. ASSUME NEW s \in Small(S, n + 1)
      PROVE  h[s] = IF s = {} THEN <<>> ELSE Append(h[s \ {Pick(s)}], Pick(s))
  <2>1. CASE s = {}
    BY <1>2, <2>1
  <2>2. CASE s # {}
    <3>1. s \in SUBSET S /\ Cardinality(s) <= n + 1
      BY DEF Small
    <3> DEFINE rest == s \ {Pick(s)}
    <3>2. rest \in SUBSET S /\ Cardinality(s) \in Nat /\ Cardinality(rest) = Cardinality(s) - 1
      BY <2>2, <3>1, PickOne
    <3> HIDE DEF rest
    <3>3. rest \in Small(S, n)
      BY <3>1, <3>2 DEF Small
    <3>4. h[rest] = g[rest]
      BY <1>4, <3>3
    <3>5. h[s] = Append(g[rest], Pick(s))
      BY <1>2, <2>2 DEF rest
    <3> QED
      BY <2>2, <3>4, <3>5 DEF rest
  <2> QED
    BY <2>1, <2>2
<1>6. h = [s \in Small(S, n + 1) |->
             IF s = {} THEN <<>> ELSE Append(h[s \ {Pick(s)}], Pick(s))]
  BY <1>1, <1>5, Zenon
<1> QED
  BY <1>6 DEF Lists

LEMMA ListsExists ==
    ASSUME NEW S, IsFiniteSet(S), NEW n \in Nat
    PROVE  \E g : Lists(g, S, n)
<1> DEFINE Bad == {k \in Nat : ~ \E g : Lists(g, S, k)}
<1> SUFFICES ASSUME Bad # {}
             PROVE  FALSE
  OBVIOUS
<1>1. PICK k \in Bad : \A j \in Bad : k <= j
  <2>1. Bad \in SUBSET Nat
    OBVIOUS
  <2> HIDE DEF Bad
  <2> QED
    BY <2>1, LeastElement
<1>2. k # 0
  <2> DEFINE g == [s \in Small(S, 0) |-> <<>>]
  <2>1. ASSUME NEW s \in Small(S, 0)
        PROVE  s = {}
    <3>1. IsFiniteSet(s) /\ Cardinality(s) <= 0
      BY FS_Subset DEF Small
    <3>2. Cardinality(s) = 0
      BY <3>1, FS_CardinalityType
    <3> QED
      BY <3>1, <3>2, FS_EmptySet
  <2>2. g = [s \in Small(S, 0) |->
               IF s = {} THEN <<>> ELSE Append(g[s \ {Pick(s)}], Pick(s))]
    BY <2>1
  <2> HIDE DEF g
  <2>3. Lists(g, S, 0)
    BY <2>2 DEF Lists
  <2> QED
    BY <2>3
<1>3. k - 1 \in Nat /\ k - 1 \notin Bad /\ (k - 1) + 1 = k
  BY <1>1, <1>2
<1>4. PICK g : Lists(g, S, k - 1)
  BY <1>3
<1>5. \E h : Lists(h, S, (k - 1) + 1)
  BY <1>3, <1>4, ListsMore
<1> QED
  BY <1>1, <1>3, <1>5

LEMMA ListedIs ==
    ASSUME NEW S \in SUBSET Textures, IsFiniteSet(S)
    PROVE  OneEach(Listed(S)) /\ Range(Listed(S)) = S
<1> DEFINE n == Cardinality(S)
           g == CHOOSE h : Lists(h, S, n)
<1>1. n \in Nat
  BY FS_CardinalityType
<1>2. Lists(g, S, n)
  BY <1>1, ListsExists
<1>3. Small(S, n) = SUBSET S
  BY FS_Subset DEF Small
<1>4. Listed(S) = g[S]
  BY <1>3, Zenon DEF Listed, FoldSet, MapThenFoldSet, Lists, Pick
<1> HIDE DEF g
<1>5. \A s \in SUBSET S : g[s] = IF s = {} THEN <<>> ELSE Append(g[s \ {Pick(s)}], Pick(s))
  BY <1>2, <1>3, Zenon DEF Lists
<1> DEFINE Right(s) == OneEach(g[s]) /\ Range(g[s]) = s
           Bad == {k \in Nat : \E s \in SUBSET S : Cardinality(s) = k /\ ~Right(s)}
<1>6. Bad = {}
  <2> SUFFICES ASSUME Bad # {}
               PROVE  FALSE
    OBVIOUS
  <2>1. PICK k \in Bad : \A j \in Bad : k <= j
    <3>1. Bad \in SUBSET Nat
      OBVIOUS
    <3> HIDE DEF Bad
    <3> QED
      BY <3>1, LeastElement
  <2>2. PICK s \in SUBSET S : Cardinality(s) = k /\ ~Right(s)
    OBVIOUS
  <2>3. s # {}
    <3>1. g[{}] = <<>>
      BY <1>5
    <3>2. OneEach(<<>>) /\ Range(<<>>) = {}
      BY DEF OneEach, Range
    <3> QED
      BY <2>2, <3>1, <3>2
  <2> DEFINE x == Pick(s)
             rest == s \ {x}
  <2>4. /\ x \in s /\ rest \in SUBSET S /\ Cardinality(s) \in Nat
        /\ Cardinality(rest) = Cardinality(s) - 1
    BY <2>3, PickOne
  <2>5. g[s] = Append(g[rest], x)
    BY <1>5, <2>3
  <2>6. x \notin rest /\ s = rest \union {x}
    BY <2>4
  <2> HIDE DEF x, rest
  <2>7. Right(rest)
    <3>1. Cardinality(rest) \in Nat /\ Cardinality(rest) \notin Bad
      <4>1. Cardinality(rest) # 0 - 1
        <5>1. IsFiniteSet(rest)
          BY <2>4, FS_Subset
        <5>2. Cardinality(rest) \in Nat
          BY <5>1, FS_CardinalityType
        <5> QED
          BY <5>2
      <4>2. Cardinality(rest) \in Nat /\ Cardinality(rest) < k
        BY <2>2, <2>4, <4>1
      <4> DEFINE c == Cardinality(rest)
      <4>3. c \in Nat /\ c < k /\ k \in Nat /\ \A j \in Bad : k <= j
        BY <2>1, <4>2
      <4> HIDE DEF Bad, c
      <4>4. c \notin Bad
        BY <4>3
      <4> QED
        BY <4>2, <4>4 DEF c
    <3> QED
      BY <2>4, <3>1
  <2>8. x \in Textures /\ x \notin Range(g[rest]) /\ OneEach(g[rest])
    BY <2>4, <2>6, <2>7
  <2> DEFINE list == g[rest]
  <2>11. x \in Textures /\ x \notin Range(list) /\ OneEach(list)
    BY <2>8
  <2> HIDE DEF list
  <2>9. OneEach(Append(list, x)) /\ Range(Append(list, x)) = Range(list) \union {x}
    BY <2>11, OneMore
  <2>10. OneEach(g[s]) /\ Range(g[s]) = s
    BY <2>5, <2>6, <2>7, <2>9 DEF list
  <2> QED
    BY <2>2, <2>10
<1>7. Right(S)
  BY <1>1, <1>6
<1> QED
  BY <1>4, <1>7

-----------------------------------------------------------------------------
(***************************************************************************)
(* The inductive invariant.                                                *)
(***************************************************************************)
\* b binds names to textures that c knows: a field to one of its own, a slot
\* to the texture of that name.
GoodNames(b, c) ==
    /\ b = [n \in DOMAIN b |-> b[n]]
    /\ \A n, k \in DOMAIN b \ Slots : b[n] = b[k] => n = k
    /\ \A n \in DOMAIN b \intersect Slots : b[n] = <<"slot", n>>
    /\ \A n \in DOMAIN b : b[n] \in DOMAIN c

HeldBy(b) == {b[n] : n \in DOMAIN b \ Slots}
MadeOf(M) == UNION {{s} \X (1..M[s]) : s \in PoolShapes}

\* The textures made, E, are each in one of five places and in no other.
Parted(P, R, B_, S, D, E_) ==
    /\ P \union R \union B_ \union S \union D = E_
    /\ P \intersect R = {} /\ P \intersect B_ = {} /\ P \intersect S = {} /\ P \intersect D = {}
    /\ R \intersect B_ = {} /\ R \intersect S = {} /\ R \intersect D = {}
    /\ B_ \intersect S = {} /\ B_ \intersect D = {}
    /\ S \intersect D = {}

Own ==
    /\ made \in [PoolShapes -> Nat] /\ GoodPool(free) /\ OneEach(retired)
    /\ GoodNames(bound, content) /\ GoodNames(store, content) /\ DOMAIN store \intersect Slots = {}
    /\ Parted(InPool(free), Range(retired), HeldBy(bound), HeldBy(store), dropped, MadeOf(made))

\* The slots hold a finished step of mode m.
Keeps(m) ==
    /\ DOMAIN store = StateNames(m)
    /\ \A n \in DOMAIN store : content[store[n]] # "none"
    /\ \A n \in Tracked(m) : content[store[n]] = LastKernel(m, n)

\* What v says of a step in mode m is so.
Holds(m, v) ==
    /\ Forgets(DOMAIN bound, v.scope)
    /\ \A n \in v.written : n \in DOMAIN bound /\ content[bound[n]] # "none"
    /\ \A n \in v.done : n \in DOMAIN bound /\ content[bound[n]] = LastKernel(m, n)
    /\ ~v.open => recorded = {}
    /\ ~v.flown => flushed = {}
    /\ ~Busy(v) => retired = <<>> /\ DOMAIN bound \intersect Slots = {}
    /\ IF v.kept THEN Keeps(m) ELSE store = EmptyBinding

\* What is known where a part of the program starts and where it ends.
EntryOf(m, s) ==
    CASE s = "zeroed" -> View({}, {}, {}, FALSE, FALSE, FALSE)
      [] s = "enter" -> View(StateNames(m), StateNames(m), {}, FALSE, FALSE, FALSE)
      [] s = "substep" -> Stepping(m)
      [] s = "leave" -> View(StateNames(m) \union Given(m), StateNames(m) \union Given(m),
                             Tracked(m),
                             FALSE, FALSE, FALSE)
ExitOf(m, s) ==
    CASE s = "zeroed" -> View(StateNames(m), StateNames(m), {}, FALSE, FALSE, FALSE)
      [] s = "enter" -> Stepping(m)
      [] s = "substep" -> View(StateNames(m) \union Given(m), StateNames(m) \union Given(m),
                               Tracked(m),
                               FALSE, FALSE, FALSE)
      [] s = "leave" -> View({}, {}, {}, FALSE, FALSE, TRUE)

Parts == {"zeroed", "enter", "substep", "leave"}

\* f is what is known before and after each instruction of a part.
Knows(m, s, f) ==
    /\ Trace(m, FALSE, Program[m][s], f)
    /\ f[Len(Program[m][s])] = ExitOf(m, s)

Where ==
    /\ mode \in Modes /\ seg \in Parts \union {"cleanup", "idle"}
    /\ Running => ~Incomplete(mode)
    /\ failures \in Nat /\ (failures = 0 => dropped = {} /\ seg # "cleanup")

OnTrack ==
    seg \in Parts =>
        /\ pc \in 1..Len(Program[mode][seg])
        /\ \E f : Knows(mode, seg, f) /\ Holds(mode, f[pc - 1])

CleaningUp ==
    seg = "cleanup" =>
        /\ pc \in 1..7 /\ store = EmptyBinding
        /\ pc > 1 => DOMAIN bound \subseteq Owned(mode) \ Slots
        /\ pc > 2 => flushed = {}
        /\ pc > 3 => recorded = {} /\ retired = <<>>
        /\ pc > 4 => "mask" \notin DOMAIN bound
        /\ pc > 5 => DOMAIN bound \intersect OutputNames = {}
        /\ pc > 6 => DOMAIN bound \intersect InputNames = {}

Resting ==
    seg = "idle" =>
        /\ bound = EmptyBinding /\ retired = <<>> /\ recorded = {} /\ flushed = {}
        /\ store = EmptyBinding \/ Keeps(mode)

Working ==
    /\ seg # "cleanup" => recorded \intersect InPool(free) = {}
    /\ mode.pressure # "mgpcg" => flushed \intersect InPool(free) = {}

OwnInv == Where /\ Own /\ OnTrack /\ CleaningUp /\ Resting /\ Working

-----------------------------------------------------------------------------
(***************************************************************************)
(* What the machine's steps do to the pool, to the lists and to the names. *)
(***************************************************************************)
LEMMA ShapesAre ==
    PoolShapes = {"x", "y", "z", "cells", "half", "quarter"}
<1>1. Range(Axes) = {Axes[1], Axes[2], Axes[3]} /\ Range(Shapes) = {Shapes[1], Shapes[2], Shapes[3]}
  BY DEF Range, Axes, Shapes
<1> QED
  BY <1>1 DEF PoolShapes, Axes, Shapes

LEMMA ShapesAreFew == IsFiniteSet(PoolShapes)
<1>1. IsFiniteSet({}) /\ \A S, x : IsFiniteSet(S) => IsFiniteSet(S \union {x})
  BY FS_EmptySet, FS_AddElement
<1>2. IsFiniteSet({} \union {"x"} \union {"y"} \union {"z"} \union {"cells"} \union {"half"} \union {"quarter"})
  BY <1>1
<1>3. PoolShapes = {} \union {"x"} \union {"y"} \union {"z"} \union {"cells"} \union {"half"} \union {"quarter"}
  BY ShapesAre
<1> QED
  BY <1>2, <1>3

LEMMA MadeIs ==
    ASSUME NEW M, NEW t
    PROVE  t \in MadeOf(M) <=> t = <<t[1], t[2]>> /\ t[1] \in PoolShapes /\ t[2] \in 1..M[t[1]]
  BY DEF MadeOf

LEMMA MadeAreFinite ==
    ASSUME NEW M \in [PoolShapes -> Nat]
    PROVE  IsFiniteSet(MadeOf(M)) /\ MadeOf(M) \subseteq Textures
<1>1. MadeOf(M) \subseteq Textures
  BY MadeIs DEF Textures
<1> DEFINE part(s) == {s} \X (1..M[s])
<1>2. ASSUME NEW s \in PoolShapes
      PROVE  IsFiniteSet(part(s))
  <2>1. IsFiniteSet({s})
    BY FS_Singleton
  <2>2. M[s] \in Int /\ 1 \in Int
    OBVIOUS
  <2>3. IsFiniteSet(1..M[s])
    BY <2>2, FS_Interval
  <2> QED
    BY <2>1, <2>3, FS_Product
<1>3. \A x : x \in MadeOf(M) <=> \E s \in PoolShapes : x \in part(s)
  BY DEF MadeOf
<1> HIDE DEF part
<1>4. \A S, T : IsFiniteSet(S) /\ IsFiniteSet(T) => IsFiniteSet(S \union T)
  BY FS_Union
<1>5. IsFiniteSet(part("x") \union part("y") \union part("z") \union part("cells")
                    \union part("half") \union part("quarter"))
  BY <1>2, <1>4, ShapesAre
<1>6. MadeOf(M) = part("x") \union part("y") \union part("z") \union part("cells")
                    \union part("half") \union part("quarter")
  BY <1>3, ShapesAre
<1> QED
  BY <1>1, <1>5, <1>6

LEMMA MakesOne ==
    ASSUME NEW M \in [PoolShapes -> Nat], NEW s \in PoolShapes, NEW t, t = <<s, M[s] + 1>>,
           NEW more, more = [M EXCEPT ![s] = @ + 1]
    PROVE  /\ more \in [PoolShapes -> Nat] /\ t \notin MadeOf(M) /\ t \in Textures
           /\ MadeOf(more) = MadeOf(M) \union {t}
<1>1. more \in [PoolShapes -> Nat] /\ more[s] = M[s] + 1 /\ \A r \in PoolShapes \ {s} : more[r] = M[r]
  OBVIOUS
<1>2. \A r \in PoolShapes : \A k : k \in 1..more[r] <=> k \in 1..M[r] \/ (r = s /\ k = M[s] + 1)
  BY <1>1
<1>3. \A x : x \in MadeOf(more) <=> x = <<x[1], x[2]>> /\ x[1] \in PoolShapes /\ x[2] \in 1..more[x[1]]
  BY MadeIs
<1>4. \A x : x \in MadeOf(M) <=> x = <<x[1], x[2]>> /\ x[1] \in PoolShapes /\ x[2] \in 1..M[x[1]]
  BY MadeIs
<1>5. ASSUME NEW x
      PROVE  x \in MadeOf(more) <=> x \in MadeOf(M) \/ x = t
  BY <1>2, <1>3, <1>4
<1>6. t \notin MadeOf(M) /\ t \in Textures
  BY <1>4 DEF Textures
<1> QED
  BY <1>1, <1>5, <1>6

LEMMA OneLess ==
    ASSUME NEW list, OneEach(list), list # <<>>
    PROVE  /\ OneEach(Front(list)) /\ Last(list) \in Range(list)
           /\ Range(Front(list)) = Range(list) \ {Last(list)}
           /\ \A k \in 1..Len(Front(list)) : Front(list)[k] = list[k] /\ k \in 1..Len(list)
<1> DEFINE n == Len(list)
           shorter == Front(list)
<1>1. list \in Seq(Textures) /\ n \in Nat \ {0}
  BY DEF OneEach
<1>2. /\ shorter \in Seq(Textures) /\ Len(shorter) = n - 1
      /\ \A k \in 1..(n - 1) : shorter[k] = list[k]
  <2>1. n - 1 \in 0..n /\ n - 1 \in Nat
    BY <1>1
  <2>2. shorter = [k \in 1..(n - 1) |-> list[k]]
    BY <1>1 DEF Front, SubSeq
  <2>3. \A k \in 1..(n - 1) : list[k] \in Textures
    BY <1>1
  <2> HIDE DEF shorter, n
  <2> QED
    BY <2>1, <2>2, <2>3
<1>3. Last(list) = list[n]
  BY DEF Last
<1> HIDE DEF shorter, n
<1>4. \A x : x \in Range(shorter) <=> \E k \in 1..(n - 1) : shorter[k] = x
  BY <1>2, RangeIs
<1>5. \A x : x \in Range(list) <=> \E k \in 1..n : list[k] = x
  BY <1>1, RangeIs DEF n
<1>6. \A i, j \in 1..n : list[i] = list[j] => i = j
  BY DEF OneEach, n
<1>7. \A k : k \in 1..n <=> k \in 1..(n - 1) \/ k = n
  BY <1>1
<1>8. n \notin 1..(n - 1)
  BY <1>1
<1>9. Range(shorter) = Range(list) \ {Last(list)} /\ Last(list) \in Range(list)
  BY <1>2, <1>3, <1>4, <1>5, <1>6, <1>7, <1>8
<1>10. OneEach(shorter)
  BY <1>2, <1>6, <1>7 DEF OneEach
<1> QED
  BY <1>2, <1>7, <1>9, <1>10 DEF shorter, n

LEMMA TakesLast ==
    ASSUME NEW F, GoodPool(F), NEW s \in PoolShapes, F[s] # <<>>, NEW t, t = Last(F[s]),
           NEW G, G = [F EXCEPT ![s] = Front(@)]
    PROVE  GoodPool(G) /\ t \in InPool(F) /\ InPool(G) = InPool(F) \ {t}
<1> DEFINE shorter == Front(F[s])
<1>1. OneEach(F[s]) /\ F = [r \in PoolShapes |-> F[r]] /\ \A k \in 1..Len(F[s]) : F[s][k][1] = s
  BY DEF GoodPool
<1>2. /\ OneEach(shorter) /\ t \in Range(F[s]) /\ Range(shorter) = Range(F[s]) \ {t}
      /\ \A k \in 1..Len(shorter) : shorter[k] = F[s][k] /\ k \in 1..Len(F[s])
  BY <1>1, OneLess
<1>3. /\ G = [r \in PoolShapes |-> G[r]] /\ G[s] = shorter
      /\ \A r \in PoolShapes : r # s => G[r] = F[r]
  BY <1>1
<1>4. \A k \in 1..Len(shorter) : shorter[k][1] = s
  BY <1>1, <1>2
<1> HIDE DEF shorter
<1>5. ASSUME NEW r \in PoolShapes
      PROVE  /\ OneEach(G[r]) /\ \A k \in 1..Len(G[r]) : G[r][k][1] = r
             /\ \A x : x \in Range(G[r]) <=> x \in Range(F[r]) /\ x # t
  <2>1. CASE r = s
    BY <1>2, <1>3, <1>4, <2>1
  <2>2. CASE r # s
    <3>1. G[r] = F[r]
      BY <1>3, <2>2
    <3>2. t \notin Range(F[r])
      BY <1>2, <2>2, ShapeOf
    <3> QED
      BY <3>1, <3>2 DEF GoodPool
  <2> QED
    BY <2>1, <2>2
<1>6. GoodPool(G)
  BY <1>3, <1>5 DEF GoodPool
<1>7. t \in InPool(F)
  BY <1>2, InPoolIs
<1>8. \A x : x \in InPool(G) <=> x \in InPool(F) /\ x # t
  <2>1. \A x : x \in InPool(G) <=> \E r \in PoolShapes : x \in Range(G[r])
    BY InPoolIs
  <2>2. \A x : x \in InPool(F) <=> \E r \in PoolShapes : x \in Range(F[r])
    BY InPoolIs
  <2> QED
    BY <1>5, <2>1, <2>2
<1> QED
  BY <1>6, <1>7, <1>8

LEMMA ListsJoin ==
    ASSUME NEW a, NEW b, OneEach(a), OneEach(b), Range(a) \intersect Range(b) = {}
    PROVE  OneEach(a \o b) /\ Range(a \o b) = Range(a) \union Range(b)
<1> DEFINE i == Len(a)
           j == Len(b)
           c == a \o b
<1>1. a \in Seq(Textures) /\ b \in Seq(Textures) /\ i \in Nat /\ j \in Nat
  BY DEF OneEach
<1>2. /\ c \in Seq(Textures) /\ Len(c) = i + j
      /\ \A k \in 1..i : c[k] = a[k]
      /\ \A k \in 1..(i + j) : k > i => c[k] = b[k - i]
      /\ \A k \in 1..j : c[i + k] = b[k]
  BY <1>1
<1> HIDE DEF c, i, j
<1>3. \A x : x \in Range(c) <=> \E k \in 1..(i + j) : c[k] = x
  BY <1>2, RangeIs
<1>4. \A x : x \in Range(a) <=> \E k \in 1..i : a[k] = x
  BY <1>1, RangeIs DEF i
<1>5. \A x : x \in Range(b) <=> \E k \in 1..j : b[k] = x
  BY <1>1, RangeIs DEF j
<1>6. \A k \in 1..(i + j) : k \in 1..i \/ (k > i /\ k - i \in 1..j)
  BY <1>1
<1>7. (\A k \in 1..i : k \in 1..(i + j)) /\ (\A k \in 1..j : i + k \in 1..(i + j))
  BY <1>1
<1>8. Range(c) = Range(a) \union Range(b)
  <2>1. \A x \in Range(c) : x \in Range(a) \union Range(b)
    BY <1>2, <1>3, <1>4, <1>5, <1>6
  <2>2. \A x \in Range(a) : x \in Range(c)
    BY <1>2, <1>3, <1>4, <1>7
  <2>3. \A x \in Range(b) : x \in Range(c)
    BY <1>2, <1>3, <1>5, <1>7
  <2> QED
    BY <2>1, <2>2, <2>3
<1>9. \A k, l \in 1..(i + j) : c[k] = c[l] => k = l
  <2> SUFFICES ASSUME NEW k \in 1..(i + j), NEW l \in 1..(i + j), c[k] = c[l]
               PROVE  k = l
    OBVIOUS
  <2>1. (\A x, y \in 1..i : a[x] = a[y] => x = y) /\ (\A x, y \in 1..j : b[x] = b[y] => x = y)
    BY DEF OneEach, i, j
  <2>2. CASE k \in 1..i /\ l \in 1..i
    BY <1>2, <2>1, <2>2
  <2>3. CASE k > i /\ k - i \in 1..j /\ l > i /\ l - i \in 1..j
    <3>1. b[k - i] = b[l - i]
      BY <1>2, <2>3
    <3>2. k - i = l - i
      BY <2>1, <2>3, <3>1
    <3> QED
      BY <1>1, <3>2
  <2>4. CASE k \in 1..i /\ l > i /\ l - i \in 1..j
    <3>1. a[k] \in Range(a) /\ b[l - i] \in Range(b) /\ a[k] = b[l - i]
      BY <1>2, <1>4, <1>5, <2>4
    <3> QED
      BY <3>1
  <2>5. CASE l \in 1..i /\ k > i /\ k - i \in 1..j
    <3>1. a[l] \in Range(a) /\ b[k - i] \in Range(b) /\ a[l] = b[k - i]
      BY <1>2, <1>4, <1>5, <2>5
    <3> QED
      BY <3>1
  <2> QED
    BY <1>6, <2>2, <2>3, <2>4, <2>5
<1> QED
  BY <1>2, <1>8, <1>9 DEF OneEach, c

\* What is known of the textures in c once those in T are written by h.
Writing(c, T, h) == [x \in DOMAIN c \union T |-> IF x \in T THEN h ELSE c[x]]

LEMMA SlotsAreNoFields ==
    ASSUME NEW n, NEW t \in Textures
    PROVE  t # <<"slot", n>>
  BY ShapesAre DEF Textures

LEMMA HeldIs ==
    ASSUME NEW b, NEW t
    PROVE  t \in HeldBy(b) <=> \E n \in DOMAIN b : n \notin Slots /\ b[n] = t
  BY DEF HeldBy

\* Name n is bound to texture t of content h besides; the rest stays.
Gets(b, c, n, t, h, b2, c2) ==
    /\ GoodNames(b2, c2) /\ HeldBy(b2) = HeldBy(b) \union {t}
    /\ DOMAIN b2 = DOMAIN b \union {n} /\ b2[n] = t /\ c2[t] = h
    /\ \A k \in DOMAIN b : b2[k] = b[k] /\ c2[b[k]] = c[b[k]]

\* A name that was free takes a texture no name had.
LEMMA Binds ==
    ASSUME NEW b, NEW c, GoodNames(b, c), NEW n, n \notin DOMAIN b, n \notin Slots,
           NEW t \in Textures, t \notin HeldBy(b), NEW h,
           NEW b2, b2 = Naming(b, n, t),
           NEW c2, c2 = Writing(c, {t}, h)
    PROVE  Gets(b, c, n, t, h, b2, c2)
<1>1. /\ b2 = [k \in DOMAIN b2 |-> b2[k]] /\ DOMAIN b2 = DOMAIN b \union {n} /\ b2[n] = t
      /\ \A k \in DOMAIN b : k # n => b2[k] = b[k]
  BY DEF Naming
<1>2. DOMAIN c2 = DOMAIN c \union {t} /\ c2[t] = h /\ \A k \in DOMAIN c : k # t => c2[k] = c[k]
  BY DEF Writing
<1>3. \A k \in DOMAIN b : b[k] # t
  <2> SUFFICES ASSUME NEW k \in DOMAIN b
               PROVE  b[k] # t
    OBVIOUS
  <2>1. CASE k \in Slots
    <3>1. b[k] = <<"slot", k>>
      BY <2>1 DEF GoodNames
    <3> QED
      BY <3>1, SlotsAreNoFields
  <2>2. CASE k \notin Slots
    BY <2>2, HeldIs
  <2> QED
    BY <2>1, <2>2
<1>4. \A k \in DOMAIN b : b2[k] = b[k] /\ c2[b[k]] = c[b[k]]
  BY <1>1, <1>2, <1>3 DEF GoodNames
<1>5. GoodNames(b2, c2)
  <2>1. \A k, l \in DOMAIN b2 \ Slots : b2[k] = b2[l] => k = l
    BY <1>1, <1>3, <1>4 DEF GoodNames
  <2>2. \A k \in DOMAIN b2 \intersect Slots : b2[k] = <<"slot", k>>
    BY <1>1, <1>4 DEF GoodNames
  <2>3. \A k \in DOMAIN b2 : b2[k] \in DOMAIN c2
    BY <1>1, <1>2, <1>4 DEF GoodNames
  <2> QED
    BY <1>1, <2>1, <2>2, <2>3 DEF GoodNames
<1>6. \A x : x \in HeldBy(b2) <=> x \in HeldBy(b) \/ x = t
  <2>1. \A x : x \in HeldBy(b2) <=> \E k \in DOMAIN b2 : k \notin Slots /\ b2[k] = x
    BY HeldIs
  <2>2. \A x : x \in HeldBy(b) <=> \E k \in DOMAIN b : k \notin Slots /\ b[k] = x
    BY HeldIs
  <2>3. ASSUME NEW x \in HeldBy(b2)
        PROVE  x \in HeldBy(b) \/ x = t
    <3>1. PICK k \in DOMAIN b2 : k \notin Slots /\ b2[k] = x
      BY <2>1
    <3> QED
      BY <1>1, <1>4, <2>2, <3>1
  <2>4. ASSUME NEW x \in HeldBy(b)
        PROVE  x \in HeldBy(b2)
    <3>1. PICK k \in DOMAIN b : k \notin Slots /\ b[k] = x
      BY <2>2
    <3> QED
      BY <1>1, <1>4, <2>1, <3>1
  <2>5. t \in HeldBy(b2)
    BY <1>1, <2>1
  <2> QED
    BY <2>3, <2>4, <2>5
<1> QED
  BY <1>1, <1>2, <1>4, <1>5, <1>6 DEF Gets

\* More textures are known, and other things of them.
LEMMA NamesStayGood ==
    ASSUME NEW b, NEW c, GoodNames(b, c), NEW c2, DOMAIN c \subseteq DOMAIN c2
    PROVE  GoodNames(b, c2)
  BY DEF GoodNames

\* b2 is b without the names in S.
Leaves(b, c, S, b2) ==
    /\ GoodNames(b2, c) /\ DOMAIN b2 = DOMAIN b \ S /\ \A n \in DOMAIN b2 : b2[n] = b[n]
    /\ HeldBy(b2) = HeldBy(b) \ {b[n] : n \in (DOMAIN b \intersect S) \ Slots}

LEMMA Unbinds ==
    ASSUME NEW b, NEW c, GoodNames(b, c), NEW S,
           NEW b2, b2 = [n \in DOMAIN b \ S |-> b[n]]
    PROVE  Leaves(b, c, S, b2)
<1>1. /\ b2 = [n \in DOMAIN b2 |-> b2[n]] /\ DOMAIN b2 = DOMAIN b \ S
      /\ \A n \in DOMAIN b2 : b2[n] = b[n]
  OBVIOUS
<1>2. GoodNames(b2, c)
  <2>1. \A k, l \in DOMAIN b2 \ Slots : b2[k] = b2[l] => k = l
    BY <1>1 DEF GoodNames
  <2>2. \A k \in DOMAIN b2 \intersect Slots : b2[k] = <<"slot", k>>
    BY <1>1 DEF GoodNames
  <2>3. \A k \in DOMAIN b2 : b2[k] \in DOMAIN c
    BY <1>1 DEF GoodNames
  <2> QED
    BY <1>1, <2>1, <2>2, <2>3 DEF GoodNames
<1> DEFINE gone == {b[n] : n \in (DOMAIN b \intersect S) \ Slots}
<1>3. \A x : x \in gone <=> \E n \in DOMAIN b : n \in S /\ n \notin Slots /\ b[n] = x
  OBVIOUS
<1> HIDE DEF gone
<1>4. \A x : x \in HeldBy(b2) <=> x \in HeldBy(b) /\ x \notin gone
  <2>1. \A x : x \in HeldBy(b2) <=> \E k \in DOMAIN b2 : k \notin Slots /\ b2[k] = x
    BY HeldIs
  <2>2. \A x : x \in HeldBy(b) <=> \E k \in DOMAIN b : k \notin Slots /\ b[k] = x
    BY HeldIs
  <2>5. \A k, l \in DOMAIN b \ Slots : b[k] = b[l] => k = l
    BY DEF GoodNames
  <2>3. ASSUME NEW x \in HeldBy(b2)
        PROVE  x \in HeldBy(b) /\ x \notin gone
    <3>1. PICK k \in DOMAIN b2 : k \notin Slots /\ b2[k] = x
      BY <2>1
    <3>2. k \in DOMAIN b /\ k \notin S /\ b[k] = x
      BY <1>1, <3>1
    <3>3. \A n \in DOMAIN b : n \notin Slots /\ b[n] = x => n = k
      BY <2>5, <3>1, <3>2
    <3> QED
      BY <1>3, <2>2, <3>1, <3>2, <3>3
  <2>4. ASSUME NEW x \in HeldBy(b), x \notin gone
        PROVE  x \in HeldBy(b2)
    <3>1. PICK k \in DOMAIN b : k \notin Slots /\ b[k] = x
      BY <2>2
    <3>2. k \notin S
      BY <1>3, <2>4, <3>1
    <3> QED
      BY <1>1, <2>1, <3>1, <3>2
  <2> QED
    BY <2>3, <2>4
<1> QED
  BY <1>1, <1>2, <1>4 DEF gone, Leaves

\* The slots in S are in scope too, and hold nothing.
GetsSlots(b, c, S, b2, c2) ==
    /\ GoodNames(b2, c2) /\ HeldBy(b2) = HeldBy(b) /\ DOMAIN b2 = DOMAIN b \union S
    /\ \A n \in DOMAIN b : b2[n] = b[n] /\ (n \notin S => c2[b[n]] = c[b[n]])

\* The slots of a target are bound anew.
LEMMA BindsSlots ==
    ASSUME NEW b, NEW c, GoodNames(b, c), HeldBy(b) \subseteq Textures, NEW S \in SUBSET Slots,
           NEW b2, b2 = [n \in DOMAIN b \union S |-> IF n \in S THEN <<"slot", n>> ELSE b[n]],
           NEW c2, c2 = Writing(c, {<<"slot", s>> : s \in S}, "none")
    PROVE  GetsSlots(b, c, S, b2, c2)
<1>1. /\ b2 = [n \in DOMAIN b2 |-> b2[n]] /\ DOMAIN b2 = DOMAIN b \union S
      /\ \A n \in S : b2[n] = <<"slot", n>>
      /\ \A n \in DOMAIN b : n \notin S => b2[n] = b[n]
  OBVIOUS
<1>2. /\ DOMAIN c2 = DOMAIN c \union {<<"slot", s>> : s \in S}
      /\ \A t \in DOMAIN c : t \notin {<<"slot", s>> : s \in S} => c2[t] = c[t]
  BY DEF Writing
<1>3. \A n \in DOMAIN b : b2[n] = b[n]
  BY <1>1 DEF GoodNames
<1>4. \A n \in DOMAIN b : n \notin S => b[n] \notin {<<"slot", s>> : s \in S}
  <2> SUFFICES ASSUME NEW n \in DOMAIN b, n \notin S, NEW s \in S
               PROVE  b[n] # <<"slot", s>>
    OBVIOUS
  <2>1. CASE n \in Slots
    BY <2>1 DEF GoodNames
  <2>2. CASE n \notin Slots
    <3>1. b[n] \in Textures
      BY <2>2, HeldIs
    <3> QED
      BY <3>1, SlotsAreNoFields
  <2> QED
    BY <2>1, <2>2
<1>5. \A n \in DOMAIN b : n \notin S => c2[b[n]] = c[b[n]]
  BY <1>2, <1>4 DEF GoodNames
<1>7. GoodNames(b2, c2)
  <2>1. \A k, l \in DOMAIN b2 \ Slots : b2[k] = b2[l] => k = l
    BY <1>1, <1>3 DEF GoodNames
  <2>2. \A k \in DOMAIN b2 \intersect Slots : b2[k] = <<"slot", k>>
    BY <1>1, <1>3 DEF GoodNames
  <2>3. \A k \in DOMAIN b2 : b2[k] \in DOMAIN c2
    <3>1. \A k \in S : b2[k] \in DOMAIN c2
      BY <1>1, <1>2
    <3>2. \A k \in DOMAIN b : b2[k] \in DOMAIN c2
      BY <1>2, <1>3 DEF GoodNames
    <3> QED
      BY <1>1, <3>1, <3>2
  <2> QED
    BY <1>1, <2>1, <2>2, <2>3 DEF GoodNames
<1>8. HeldBy(b2) = HeldBy(b)
  <2>1. DOMAIN b2 \ Slots = DOMAIN b \ Slots
    BY <1>1
  <2> QED
    BY <1>3, <2>1 DEF HeldBy
<1> QED
  BY <1>1, <1>3, <1>5, <1>7, <1>8 DEF GetsSlots

Renamed(b, c, n, k, b2) ==
    /\ GoodNames(b2, c) /\ HeldBy(b2) = HeldBy(b) \ {b[n]} /\ DOMAIN b2 = DOMAIN b \ {k}
    /\ b2[n] = b[k] /\ \A l \in DOMAIN b2 : l # n => b2[l] = b[l]

\* Field k takes the name of field n, whose texture is nobody's now.
LEMMA Renames ==
    ASSUME NEW b, NEW c, GoodNames(b, c), NEW n \in DOMAIN b \ Slots, NEW k \in DOMAIN b \ Slots,
           n # k, NEW b2, b2 = Naming([l \in DOMAIN b \ {k} |-> b[l]], n, b[k])
    PROVE  Renamed(b, c, n, k, b2)
<1> DEFINE mid == [l \in DOMAIN b \ {k} |-> b[l]]
<1>1. DOMAIN mid = DOMAIN b \ {k} /\ \A l \in DOMAIN b : l # k => mid[l] = b[l]
  OBVIOUS
<1>2. b2 = Naming(mid, n, b[k])
  OBVIOUS
<1> HIDE DEF mid
<1>3. /\ b2 = [l \in DOMAIN b2 |-> b2[l]] /\ DOMAIN b2 = DOMAIN mid \union {n} /\ b2[n] = b[k]
      /\ \A l \in DOMAIN mid : l # n => b2[l] = mid[l]
  BY <1>2 DEF Naming
<1>4. DOMAIN b2 = DOMAIN b \ {k} /\ \A l \in DOMAIN b2 : l # n => b2[l] = b[l]
  BY <1>1, <1>3
<1>5. \A x, y \in DOMAIN b \ Slots : b[x] = b[y] => x = y
  BY DEF GoodNames
<1>6. GoodNames(b2, c)
  <2>1. \A x, y \in DOMAIN b2 \ Slots : b2[x] = b2[y] => x = y
    BY <1>3, <1>4, <1>5
  <2>2. \A x \in DOMAIN b2 \intersect Slots : b2[x] = <<"slot", x>>
    BY <1>4 DEF GoodNames
  <2>3. \A x \in DOMAIN b2 : b2[x] \in DOMAIN c
    BY <1>3, <1>4 DEF GoodNames
  <2> QED
    BY <1>3, <2>1, <2>2, <2>3 DEF GoodNames
<1>7. \A x : x \in HeldBy(b2) <=> x \in HeldBy(b) /\ x # b[n]
  <2>1. \A x : x \in HeldBy(b2) <=> \E l \in DOMAIN b2 : l \notin Slots /\ b2[l] = x
    BY HeldIs
  <2>2. \A x : x \in HeldBy(b) <=> \E l \in DOMAIN b : l \notin Slots /\ b[l] = x
    BY HeldIs
  <2>3. ASSUME NEW x \in HeldBy(b2)
        PROVE  x \in HeldBy(b) /\ x # b[n]
    <3>1. PICK l \in DOMAIN b2 : l \notin Slots /\ b2[l] = x
      BY <2>1
    <3>2. CASE l = n
      BY <1>3, <1>5, <2>2, <3>1, <3>2
    <3>3. CASE l # n
      BY <1>4, <1>5, <2>2, <3>1, <3>3
    <3> QED
      BY <3>2, <3>3
  <2>4. ASSUME NEW x \in HeldBy(b), x # b[n]
        PROVE  x \in HeldBy(b2)
    <3>1. PICK l \in DOMAIN b : l \notin Slots /\ b[l] = x
      BY <2>2
    <3>2. CASE l = k
      BY <1>3, <1>4, <2>1, <3>1, <3>2
    <3>3. CASE l # k
      BY <1>4, <2>1, <2>4, <3>1, <3>3
    <3> QED
      BY <3>2, <3>3
  <2> QED
    BY <2>3, <2>4
<1> QED
  BY <1>3, <1>4, <1>6, <1>7 DEF Renamed

-----------------------------------------------------------------------------
(***************************************************************************)
(* What holds of the fields while the program runs, and that every         *)
(* instruction keeps it.                                                   *)
(***************************************************************************)
Stays(m, v) ==
    /\ Own /\ Holds(m, v)
    /\ recorded \intersect InPool(free) = {}
    /\ m.pressure # "mgpcg" => flushed \intersect InPool(free) = {}

LEMMA GoesBy ==
    ASSUME NEW m, NEW plain, NEW i, NEW v, NEW w, Goes(m, plain, i, v, w)
    PROVE  /\ i.op \in {"acquire", "input"} => Gains(i, v, w)
           /\ i.op = "target" => Targets(i, v, w)
           /\ i.op \in {"record", "run"} => Dispatches(m, i, v, w)
           /\ i.op \in {"flush", "submit"} => Submits(i, v, w)
           /\ i.op \in {"retire", "release"} => Loses(m, i, v, w)
           /\ i.op = "replace" => Replaces(m, i, v, w)
           /\ i.op \in {"check", "measure"} => Looks(m, i, v, w)
           /\ i.op = "put" => Puts(m, i, v, w)
           /\ i.op \notin {"retire_locals", "wait", "discard"}
  BY DEF Goes, Gains, Targets, Dispatches, Submits, Loses, Replaces, Looks, Puts

\* Textures that exist are finitely many.
LEMMA OwnIsFinite ==
    ASSUME Own, NEW S \in SUBSET MadeOf(made)
    PROVE  IsFiniteSet(S) /\ S \subseteq Textures
<1>1. IsFiniteSet(MadeOf(made)) /\ MadeOf(made) \subseteq Textures
  BY MadeAreFinite DEF Own
<1> QED
  BY <1>1, FS_Subset

LEMMA PartsAreMade ==
    ASSUME Own
    PROVE  /\ InPool(free) \subseteq MadeOf(made) /\ Range(retired) \subseteq MadeOf(made)
           /\ HeldBy(bound) \subseteq MadeOf(made) /\ HeldBy(store) \subseteq MadeOf(made)
           /\ dropped \subseteq MadeOf(made)
  BY DEF Own, Parted

\* Fields that go out of scope, as a set and as a list.
LEMMA Leaving ==
    ASSUME Own, NEW names, names \intersect Slots = {}
    PROVE  /\ TexturesOf(names) \subseteq HeldBy(bound)
           /\ OneEach(Listed(TexturesOf(names)))
           /\ Range(Listed(TexturesOf(names))) = TexturesOf(names)
           /\ GoodNames(Without(names), content) /\ DOMAIN Without(names) = DOMAIN bound \ names
           /\ \A n \in DOMAIN bound \ names : Without(names)[n] = bound[n]
           /\ HeldBy(Without(names)) = HeldBy(bound) \ TexturesOf(names)
<1> DEFINE T == TexturesOf(names)
           b2 == Without(names)
<1>1. T \subseteq HeldBy(bound)
  BY DEF TexturesOf, In, HeldBy
<1>2. T \in SUBSET MadeOf(made)
  BY <1>1, PartsAreMade
<1>3. IsFiniteSet(T) /\ T \in SUBSET Textures
  BY <1>2, OwnIsFinite
<1>6. b2 = [n \in DOMAIN bound \ names |-> bound[n]]
  BY DEF Without
<1>7. T = {bound[n] : n \in (DOMAIN bound \intersect names) \ Slots}
  BY DEF TexturesOf, In
<1> HIDE DEF T, b2
<1>4. OneEach(Listed(T)) /\ Range(Listed(T)) = T
  BY <1>3, ListedIs
<1>8. GoodNames(bound, content)
  BY DEF Own
<1>5. Leaves(bound, content, names, b2)
  BY <1>6, <1>8, Unbinds
<1> QED
  BY <1>1, <1>4, <1>5, <1>7 DEF T, b2, Leaves

LEMMA Taking ==
    ASSUME Own, NEW name, NEW shape \in PoolShapes, NEW holds, Take(name, shape, holds),
           name \notin DOMAIN bound, name \notin Slots, store = EmptyBinding
    PROVE  /\ Own' /\ DOMAIN bound' = DOMAIN bound \union {name} /\ content'[bound'[name]] = holds
           /\ \A n \in DOMAIN bound : bound'[n] = bound[n] /\ content'[bound'[n]] = content[bound[n]]
           /\ InPool(free)' \subseteq InPool(free)
<1> DEFINE t == IF free[shape] # <<>> THEN Last(free[shape]) ELSE <<shape, made[shape] + 1>>
<1>1. /\ bound' = Naming(bound, name, t)
      /\ content' = Writing(content, {t}, holds)
      /\ retired' = retired /\ store' = store /\ dropped' = dropped
  BY DEF Take, Written, Writing
<1>2. /\ GoodPool(free)' /\ made' \in [PoolShapes -> Nat] /\ t \in Textures
      /\ t \notin HeldBy(bound) \union HeldBy(store) \union Range(retired) \union dropped
      /\ t \notin InPool(free)' /\ InPool(free)' \subseteq InPool(free)
      /\ InPool(free)' \union {t} \union MadeOf(made) = InPool(free) \union MadeOf(made)'
      /\ MadeOf(made)' = MadeOf(made) \union {t} /\ InPool(free) \subseteq InPool(free)' \union {t}
  <2>1. CASE free[shape] # <<>>
    <3>1. t = Last(free[shape]) /\ free' = [free EXCEPT ![shape] = Front(@)] /\ made' = made
      BY <2>1 DEF Take
    <3> HIDE DEF t
    <3>2. GoodPool(free') /\ t \in InPool(free) /\ InPool(free') = InPool(free) \ {t}
      BY <2>1, <3>1, TakesLast DEF Own
    <3>3. InPool(free) \subseteq MadeOf(made) /\ MadeOf(made) \subseteq Textures
      BY PartsAreMade, MadeAreFinite DEF Own
    <3>4. t \notin HeldBy(bound) \union HeldBy(store) \union Range(retired) \union dropped
      BY <3>2 DEF Own, Parted
    <3> QED
      BY <3>1, <3>2, <3>3, <3>4 DEF Own
  <2>2. CASE free[shape] = <<>>
    <3>1. t = <<shape, made[shape] + 1>> /\ free' = free /\ made' = [made EXCEPT ![shape] = @ + 1]
      BY <2>2 DEF Take
    <3> HIDE DEF t
    <3>2. made' \in [PoolShapes -> Nat] /\ t \notin MadeOf(made) /\ t \in Textures
      BY <3>1, MakesOne DEF Own
    <3>5. MadeOf(made') = MadeOf(made) \union {t}
      BY <3>1, MakesOne DEF Own
    <3>3. t \notin HeldBy(bound) \union HeldBy(store) \union Range(retired) \union dropped \union InPool(free)
      BY <3>2, PartsAreMade
    <3>4. InPool(free) \subseteq MadeOf(made)
      BY PartsAreMade
    <3> QED
      BY <3>1, <3>2, <3>3, <3>4, <3>5 DEF Own
  <2> QED
    BY <2>1, <2>2
<1> HIDE DEF t
<1>3. t \in Textures /\ t \notin HeldBy(bound) /\ GoodNames(bound, content)
  BY <1>2 DEF Own
<1>4. /\ GoodNames(bound', content') /\ HeldBy(bound') = HeldBy(bound) \union {t}
      /\ DOMAIN bound' = DOMAIN bound \union {name} /\ bound'[name] = t /\ content'[t] = holds
      /\ \A k \in DOMAIN bound : bound'[k] = bound[k] /\ content'[bound[k]] = content[bound[k]]
  <2> DEFINE b2 == bound'
             c2 == content'
  <2>1. b2 = Naming(bound, name, t) /\ c2 = Writing(content, {t}, holds)
    BY <1>1
  <2> HIDE DEF b2, c2
  <2>3. Gets(bound, content, name, t, holds, b2, c2)
    BY <1>3, <2>1, Binds
  <2>2. /\ GoodNames(b2, c2) /\ HeldBy(b2) = HeldBy(bound) \union {t}
        /\ DOMAIN b2 = DOMAIN bound \union {name} /\ b2[name] = t /\ c2[t] = holds
        /\ \A k \in DOMAIN bound : b2[k] = bound[k] /\ c2[bound[k]] = content[bound[k]]
    BY <2>3 DEF Gets
  <2> QED
    BY <2>2 DEF b2, c2
<1>5. DOMAIN content \subseteq DOMAIN content'
  BY <1>1 DEF Writing
<1>6. GoodNames(store, content')
  BY <1>5, NamesStayGood DEF Own
<1>7. Parted(InPool(free'), Range(retired), HeldBy(bound'), HeldBy(store), dropped, MadeOf(made'))
  <2>1. InPool(free') \union {t} = InPool(free) \union {t} /\ t \notin InPool(free')
    BY <1>2
  <2> QED
    BY <1>2, <1>4, <2>1 DEF Own, Parted
<1>8. Own'
  BY <1>1, <1>2, <1>4, <1>6, <1>7 DEF Own
<1> QED
  BY <1>2, <1>4, <1>8

LEMMA GainsStays ==
    ASSUME NEW m, NEW v, NEW w, Stays(m, v), Goes(m, FALSE, Current, v, w),
           AcquireField \/ TakeInput
    PROVE  Stays(m, w)'
<1> DEFINE i == Current
<1>1. i.op \in {"acquire", "input"} /\ Gains(i, v, w)
  BY GoesBy DEF AcquireField, TakeInput, Doing
<1>2. PICK n : /\ i.names = {n} /\ n \notin v.scope /\ n \notin Slots
               /\ Forgets(v.scope \union {n}, w.scope)
               /\ w.written \subseteq IF i.op = "input" THEN v.written \union {n} ELSE v.written \ {n}
               /\ w.done \subseteq v.done \ {n}
  BY <1>1 DEF Gains
<1>3. ~v.kept /\ ~w.kept /\ i.kernel \in PoolShapes /\ SameFlags(v, w)
  BY <1>1 DEF Gains, SameFlags
<1>4. n \notin DOMAIN bound /\ store = EmptyBinding
  BY <1>2, <1>3 DEF Stays, Holds, Forgets
<1>5. /\ Take(n, i.kernel, IF i.op = "input" THEN "upstream" ELSE "none")
      /\ recorded' = recorded /\ flushed' = flushed
  BY <1>2 DEF AcquireField, TakeInput, Doing, batch
<1> HIDE DEF i
<1>6. /\ Own' /\ DOMAIN bound' = DOMAIN bound \union {n}
      /\ content'[bound'[n]] = IF i.op = "input" THEN "upstream" ELSE "none"
      /\ \A k \in DOMAIN bound : bound'[k] = bound[k] /\ content'[bound'[k]] = content[bound[k]]
      /\ InPool(free)' \subseteq InPool(free)
  BY <1>2, <1>3, <1>4, <1>5, Taking DEF Stays
<1>7. store' = store /\ retired' = retired
  BY <1>5 DEF Take
<1>8. Holds(m, w)'
  <2>1. Forgets(DOMAIN bound', w.scope)
    BY <1>2, <1>6 DEF Stays, Holds, Forgets
  <2>2. \A k \in w.written : k \in DOMAIN bound' /\ content'[bound'[k]] # "none"
    BY <1>2, <1>6 DEF Stays, Holds
  <2>3. \A k \in w.done : k \in DOMAIN bound' /\ content'[bound'[k]] = LastKernel(m, k)
    BY <1>2, <1>6 DEF Stays, Holds
  <2>4. (~w.open => recorded' = {}) /\ (~w.flown => flushed' = {})
    BY <1>3, <1>5 DEF Stays, Holds, SameFlags
  <2>5. ~Busy(w) => retired' = <<>> /\ DOMAIN bound' \intersect Slots = {}
    BY <1>2, <1>3, <1>6, <1>7 DEF Stays, Holds, SameFlags, Busy
  <2> QED
    BY <1>3, <1>4, <1>7, <2>1, <2>2, <2>3, <2>4, <2>5 DEF Holds
<1> QED
  BY <1>5, <1>6, <1>8 DEF Stays

LEMMA TargetsStays ==
    ASSUME NEW m, NEW v, NEW w, Stays(m, v), Goes(m, FALSE, Current, v, w), NewSlots
    PROVE  Stays(m, w)'
<1> DEFINE S == Current.names
           T == {<<"slot", s>> : s \in S}
           b2 == bound'
           c2 == content'
<1>1. Targets(Current, v, w)
  BY GoesBy DEF NewSlots, Doing
<1>2. /\ ~v.kept /\ ~w.kept /\ Busy(w) /\ S \in SUBSET Slots
      /\ Forgets(v.scope \union S, w.scope) /\ SameFlags(v, w)
      /\ w.written \subseteq v.written \ S /\ w.done \subseteq v.done \ S
  BY <1>1 DEF Targets, SameFlags
<1>3. /\ b2 = [n \in DOMAIN bound \union S |-> IF n \in S THEN <<"slot", n>> ELSE bound[n]]
      /\ c2 = Writing(content, {<<"slot", s>> : s \in S}, "none")
  BY DEF NewSlots, Written, Writing
<1>4. GoodNames(bound, content) /\ HeldBy(bound) \subseteq Textures /\ store = EmptyBinding
  BY <1>2, PartsAreMade, OwnIsFinite DEF Stays, Own, Holds
<1>5. /\ retired' = retired /\ store' = store /\ dropped' = dropped /\ free' = free /\ made' = made
      /\ recorded' = recorded /\ flushed' = flushed
  BY DEF NewSlots, batch
<1>6. DOMAIN content \subseteq DOMAIN c2
  BY <1>3 DEF Writing
<1> HIDE DEF S, b2, c2
<1>7. GetsSlots(bound, content, S, b2, c2)
  BY <1>2, <1>3, <1>4, BindsSlots
<1>8. GoodNames(store, c2)
  BY <1>6, NamesStayGood DEF Stays, Own
<1>9. Own'
  BY <1>5, <1>7, <1>8 DEF Stays, Own, GetsSlots, b2, c2
<1>10. /\ DOMAIN bound' = DOMAIN bound \union S
       /\ \A n \in DOMAIN bound : bound'[n] = bound[n] /\ (n \notin S => content'[bound'[n]] = content[bound[n]])
  BY <1>7 DEF GetsSlots, b2, c2
<1>11. Holds(m, w)'
  <2>1. Forgets(DOMAIN bound', w.scope)
    BY <1>2, <1>10 DEF Stays, Holds, Forgets
  <2>2. \A k \in w.written : k \in DOMAIN bound' /\ content'[bound'[k]] # "none"
    BY <1>2, <1>10 DEF Stays, Holds
  <2>3. \A k \in w.done : k \in DOMAIN bound' /\ content'[bound'[k]] = LastKernel(m, k)
    BY <1>2, <1>10 DEF Stays, Holds
  <2>4. (~w.open => recorded' = {}) /\ (~w.flown => flushed' = {})
    BY <1>2, <1>5 DEF Stays, Holds, SameFlags
  <2> QED
    BY <1>2, <1>4, <1>5, <2>1, <2>2, <2>3, <2>4 DEF Holds
<1> QED
  BY <1>5, <1>9, <1>11 DEF Stays

\* Two names never share a texture, and none of the pool's is in scope.
LEMMA NamesAreApart ==
    ASSUME Own
    PROVE  /\ \A n, k \in DOMAIN bound : bound[n] = bound[k] => n = k
           /\ \A n \in DOMAIN bound : bound[n] \notin InPool(free)
<1>1. HeldBy(bound) \subseteq Textures /\ InPool(free) \subseteq Textures
  BY PartsAreMade, OwnIsFinite
<1>2. \A n \in DOMAIN bound : IF n \in Slots THEN bound[n] = <<"slot", n>>
                              ELSE bound[n] \in HeldBy(bound) /\ bound[n] \in Textures
  BY <1>1, HeldIs DEF Own, GoodNames
<1>3. \A n, k \in DOMAIN bound : bound[n] = bound[k] => n = k
  <2>1. \A n, k \in DOMAIN bound \ Slots : bound[n] = bound[k] => n = k
    BY DEF Own, GoodNames
  <2> QED
    BY <1>2, <2>1, SlotsAreNoFields
<1>4. HeldBy(bound) \intersect InPool(free) = {}
  BY DEF Own, Parted
<1> QED
  BY <1>1, <1>2, <1>3, <1>4, SlotsAreNoFields

LEMMA DispatchesStays ==
    ASSUME NEW m, NEW v, NEW w, Stays(m, v), Goes(m, FALSE, Current, v, w), Record \/ RunOne
    PROVE  Stays(m, w)'
<1> DEFINE i == Current
           T == TexturesOf(i.writes)
<1>1. Dispatches(m, i, v, w)
  BY GoesBy DEF Record, RunOne, Doing
<1>2. /\ ~v.kept /\ ~w.kept /\ i.writes \subseteq v.scope /\ i.kernel # "none"
      /\ Forgets(v.scope, w.scope) /\ SameFlags(v, w) /\ (i.op = "record" => w.open)
      /\ w.written \subseteq v.written \union i.writes
      /\ \A n \in w.done : (n \in v.done /\ n \notin i.writes) \/ (n \in i.writes /\ LastKernel(m, n) = i.kernel)
  BY <1>1 DEF Dispatches, SameFlags
<1>3. /\ content' = Writing(content, T, i.kernel) /\ bound' = bound
      /\ retired' = retired /\ store' = store /\ dropped' = dropped /\ free' = free /\ made' = made
      /\ flushed' = flushed
      /\ recorded' = recorded \/ (i.op = "record" /\ recorded' = recorded \union TexturesOf(i.reads \union i.writes))
  BY DEF Record, RunOne, batch, Written, Writing, Doing
<1> HIDE DEF i
<1>4. /\ \A n, k \in DOMAIN bound : bound[n] = bound[k] => n = k
      /\ \A n \in DOMAIN bound : bound[n] \notin InPool(free)
  BY NamesAreApart DEF Stays
<1>5. /\ \A n \in DOMAIN bound : bound[n] \in T <=> n \in i.writes
      /\ \A n \in i.writes : n \in DOMAIN bound
  BY <1>2, <1>4 DEF TexturesOf, In, Stays, Holds, Forgets
<1> HIDE DEF T
<1>6. /\ \A t \in T : content'[t] = i.kernel
      /\ \A t \in DOMAIN content : t \notin T => content'[t] = content[t]
      /\ DOMAIN content \subseteq DOMAIN content'
  BY <1>3 DEF Writing
<1>7. \A n \in DOMAIN bound : content'[bound[n]] = IF n \in i.writes THEN i.kernel ELSE content[bound[n]]
  BY <1>5, <1>6 DEF Stays, Own, GoodNames
<1>8. Own'
  <2>1. GoodNames(bound, content') /\ GoodNames(store, content')
    BY <1>6, NamesStayGood DEF Stays, Own
  <2> QED
    BY <1>3, <2>1 DEF Stays, Own
<1>9. Holds(m, w)'
  <2>1. Forgets(DOMAIN bound', w.scope)
    BY <1>2, <1>3 DEF Stays, Holds, Forgets
  <2>2. \A k \in w.written : k \in DOMAIN bound' /\ content'[bound'[k]] # "none"
    BY <1>2, <1>3, <1>5, <1>7 DEF Stays, Holds
  <2>3. \A k \in w.done : k \in DOMAIN bound' /\ content'[bound'[k]] = LastKernel(m, k)
    BY <1>2, <1>3, <1>5, <1>7 DEF Stays, Holds
  <2>4. (~w.open => recorded' = {}) /\ (~w.flown => flushed' = {})
    BY <1>2, <1>3 DEF Stays, Holds, SameFlags
  <2>5. ~Busy(w) => retired' = <<>> /\ DOMAIN bound' \intersect Slots = {}
    BY <1>2, <1>3 DEF Stays, Holds, SameFlags, Busy
  <2>6. store' = EmptyBinding
    BY <1>2, <1>3 DEF Stays, Holds
  <2> QED
    BY <1>2, <2>1, <2>2, <2>3, <2>4, <2>5, <2>6 DEF Holds
<1>10. recorded' \intersect InPool(free) = {}
  BY <1>3, <1>4 DEF Stays, TexturesOf, In
<1> QED
  BY <1>3, <1>8, <1>9, <1>10 DEF Stays

LEMMA FlushStays ==
    ASSUME NEW m, NEW v, NEW w, Stays(m, v), Goes(m, FALSE, Current, v, w), FlushBatch
    PROVE  Stays(m, w)'
<1>1. Submits(Current, v, w) /\ Current.op = "flush"
  BY GoesBy DEF FlushBatch, Doing
<1>2. /\ ~v.kept /\ ~w.kept /\ w.flown /\ Forgets(v.scope, w.scope)
      /\ w.written \subseteq v.written /\ w.done \subseteq v.done
  BY <1>1 DEF Submits
<1>3. /\ flushed' = flushed \union recorded /\ recorded' = {} /\ content' = content /\ bound' = bound
      /\ retired' = retired /\ store' = store /\ dropped' = dropped /\ free' = free /\ made' = made
  BY DEF FlushBatch, textures
<1>4. Own'
  BY <1>3 DEF Stays, Own
<1>5. Holds(m, w)'
  <2>1. Forgets(DOMAIN bound', w.scope)
    BY <1>2, <1>3 DEF Stays, Holds, Forgets
  <2>2. \A k \in w.written : k \in DOMAIN bound' /\ content'[bound'[k]] # "none"
    BY <1>2, <1>3 DEF Stays, Holds
  <2>3. \A k \in w.done : k \in DOMAIN bound' /\ content'[bound'[k]] = LastKernel(m, k)
    BY <1>2, <1>3 DEF Stays, Holds
  <2>6. store' = EmptyBinding
    BY <1>2, <1>3 DEF Stays, Holds
  <2> QED
    BY <1>2, <1>3, <2>1, <2>2, <2>3, <2>6 DEF Holds, Busy
<1> QED
  BY <1>3, <1>4, <1>5 DEF Stays

\* Textures that were retired or in scope go back to the pool.
LEMMA Returning ==
    ASSUME Own, NEW list, OneEach(list), Range(list) \intersect InPool(free) = {}
    PROVE  /\ GoodPool(Returned(list))
           /\ InPool(Returned(list)) = InPool(free) \union Range(list)
<1>1. GoodPool(free)
  BY DEF Own
<1> QED
  BY <1>1, ReturnedIs

LEMMA SubmitStays ==
    ASSUME NEW m, NEW v, NEW w, Stays(m, v), Goes(m, FALSE, Current, v, w), SubmitBatch
    PROVE  Stays(m, w)'
<1>1. Submits(Current, v, w) /\ Current.op = "submit"
  BY GoesBy DEF SubmitBatch, Doing
<1>2. /\ ~v.kept /\ ~w.kept /\ w.scope = v.scope \ Slots
      /\ w.written \subseteq v.written \ Slots /\ w.done \subseteq v.done \ Slots
  BY <1>1 DEF Submits
<1>3. /\ flushed' = {} /\ recorded' = {} /\ content' = content /\ bound' = Without(Slots)
      /\ free' = Returned(retired) /\ retired' = <<>> /\ store' = store /\ dropped' = dropped
      /\ made' = made
  BY DEF SubmitBatch
<1>4. OneEach(retired) /\ Range(retired) \intersect InPool(free) = {} /\ GoodNames(bound, content)
  BY DEF Stays, Own, Parted
<1>5. GoodPool(free') /\ InPool(free') = InPool(free) \union Range(retired)
  BY <1>3, <1>4, Returning DEF Stays
<1>6. /\ GoodNames(bound', content) /\ DOMAIN bound' = DOMAIN bound \ Slots
      /\ \A n \in DOMAIN bound' : bound'[n] = bound[n]
      /\ HeldBy(bound') = HeldBy(bound)
  <2> DEFINE b2 == bound'
  <2>1. b2 = [n \in DOMAIN bound \ Slots |-> bound[n]]
    BY <1>3 DEF Without
  <2> HIDE DEF b2
  <2>2. Leaves(bound, content, Slots, b2)
    BY <1>4, <2>1, Unbinds
  <2>3. {bound[n] : n \in (DOMAIN bound \intersect Slots) \ Slots} = {}
    OBVIOUS
  <2> QED
    BY <2>2, <2>3 DEF b2, Leaves
<1>7. OneEach(<<>>) /\ Range(<<>>) = {}
  BY DEF OneEach, Range
<1>8. Parted(InPool(free'), {}, HeldBy(bound'), HeldBy(store), dropped, MadeOf(made))
  BY <1>5, <1>6 DEF Stays, Own, Parted
<1>9. Own'
  BY <1>3, <1>5, <1>6, <1>7, <1>8 DEF Stays, Own
<1>10. Holds(m, w)'
  <2>1. Forgets(DOMAIN bound', w.scope)
    BY <1>2, <1>6 DEF Stays, Holds, Forgets
  <2>2. \A k \in w.written : k \in DOMAIN bound' /\ content'[bound'[k]] # "none"
    BY <1>2, <1>3, <1>6 DEF Stays, Holds
  <2>3. \A k \in w.done : k \in DOMAIN bound' /\ content'[bound'[k]] = LastKernel(m, k)
    BY <1>2, <1>3, <1>6 DEF Stays, Holds
  <2>6. store' = EmptyBinding
    BY <1>2, <1>3 DEF Stays, Holds
  <2> QED
    BY <1>2, <1>3, <1>6, <2>1, <2>2, <2>3, <2>6 DEF Holds
<1> QED
  BY <1>3, <1>9, <1>10 DEF Stays

\* Fields are retired.
LEMMA Retiring ==
    ASSUME Own, NEW names, names \intersect Slots = {}, NEW S \in SUBSET Slots,
           retired' = retired \o Listed(TexturesOf(names)), bound' = Without(names \union S),
           content' = content, free' = free, made' = made, store' = store, dropped' = dropped
    PROVE  /\ Own' /\ DOMAIN bound' = DOMAIN bound \ (names \union S)
           /\ \A n \in DOMAIN bound' : bound'[n] = bound[n]
<1> DEFINE T == TexturesOf(names)
           list == Listed(T)
           b2 == bound'
<1>1. T \subseteq HeldBy(bound) /\ OneEach(list) /\ Range(list) = T
  BY Leaving
<1>2. OneEach(retired) /\ GoodNames(bound, content) /\ Range(retired) \intersect HeldBy(bound) = {}
  BY DEF Own, Parted
<1>7. retired' = retired \o list
  OBVIOUS
<1>8. {bound[n] : n \in (DOMAIN bound \intersect (names \union S)) \ Slots} = T
  BY DEF TexturesOf, In
<1> HIDE DEF T, list
<1>9. Range(retired) \intersect Range(list) = {}
  BY <1>1, <1>2
<1>3. OneEach(retired \o list) /\ Range(retired \o list) = Range(retired) \union Range(list)
  BY <1>1, <1>2, <1>9, ListsJoin
<1>4. b2 = [n \in DOMAIN bound \ (names \union S) |-> bound[n]]
  BY DEF Without
<1> HIDE DEF b2
<1>5. /\ GoodNames(b2, content) /\ DOMAIN b2 = DOMAIN bound \ (names \union S)
      /\ \A n \in DOMAIN b2 : b2[n] = bound[n]
      /\ HeldBy(b2) = HeldBy(bound) \ {bound[n] : n \in (DOMAIN bound \intersect (names \union S)) \ Slots}
  <2> DEFINE gone == names \union S
  <2>1. b2 = [n \in DOMAIN bound \ gone |-> bound[n]]
    BY <1>4
  <2> HIDE DEF gone
  <2>2. Leaves(bound, content, gone, b2)
    BY <1>2, <2>1, Unbinds
  <2> QED
    BY <2>2 DEF gone, Leaves
<1>6. HeldBy(b2) = HeldBy(bound) \ T
  BY <1>5, <1>8
<1>10. Parted(InPool(free), Range(retired'), HeldBy(b2), HeldBy(store), dropped, MadeOf(made))
  BY <1>1, <1>3, <1>6, <1>7 DEF Own, Parted
<1>11. Own'
  BY <1>3, <1>5, <1>7, <1>10 DEF Own, b2
<1> QED
  BY <1>5, <1>11 DEF b2

LEMMA RetireStays ==
    ASSUME NEW m, NEW v, NEW w, Stays(m, v), Goes(m, FALSE, Current, v, w), RetireFields
    PROVE  Stays(m, w)'
<1> DEFINE names == Current.names
<1>1. Loses(m, Current, v, w) /\ Current.op = "retire"
  BY GoesBy DEF RetireFields, Doing
<1>2. /\ ~v.kept /\ ~w.kept /\ Busy(w) /\ names \intersect Slots = {} /\ Forgets(v.scope \ names, w.scope)
      /\ w.written \subseteq v.written \ names /\ w.done \subseteq v.done \ names /\ SameFlags(v, w)
  BY <1>1 DEF Loses, SameFlags
<1>3. /\ flushed' = flushed /\ recorded' = recorded /\ content' = content /\ bound' = Without(names)
      /\ free' = free /\ retired' = retired \o Listed(TexturesOf(names)) /\ store' = store
      /\ dropped' = dropped /\ made' = made
  BY DEF RetireFields, batch
<1> HIDE DEF names
<1>4. names \union {} = names /\ {} \in SUBSET Slots
  OBVIOUS
<1>5. bound' = Without(names \union {})
  BY <1>3, <1>4
<1>6. /\ Own' /\ DOMAIN bound' = DOMAIN bound \ (names \union {})
      /\ \A n \in DOMAIN bound' : bound'[n] = bound[n]
  BY <1>2, <1>3, <1>4, <1>5, Retiring DEF Stays
<1>7. Holds(m, w)'
  <2>1. Forgets(DOMAIN bound', w.scope)
    BY <1>2, <1>6 DEF Stays, Holds, Forgets
  <2>2. \A k \in w.written : k \in DOMAIN bound' /\ content'[bound'[k]] # "none"
    BY <1>2, <1>3, <1>6 DEF Stays, Holds
  <2>3. \A k \in w.done : k \in DOMAIN bound' /\ content'[bound'[k]] = LastKernel(m, k)
    BY <1>2, <1>3, <1>6 DEF Stays, Holds
  <2>4. (~w.open => recorded' = {}) /\ (~w.flown => flushed' = {})
    BY <1>2, <1>3 DEF Stays, Holds, SameFlags
  <2>6. store' = EmptyBinding
    BY <1>2, <1>3 DEF Stays, Holds
  <2> QED
    BY <1>2, <2>1, <2>2, <2>3, <2>4, <2>6 DEF Holds
<1> QED
  BY <1>3, <1>6, <1>7 DEF Stays

\* Fields are given back.
LEMMA Releasing ==
    ASSUME Own, NEW names, names \intersect Slots = {},
           free' = Returned(Listed(TexturesOf(names))), bound' = Without(names),
           content' = content, retired' = retired, made' = made, store' = store, dropped' = dropped
    PROVE  /\ Own' /\ DOMAIN bound' = DOMAIN bound \ names
           /\ \A n \in DOMAIN bound' : bound'[n] = bound[n]
           /\ InPool(free)' = InPool(free) \union TexturesOf(names)
<1> DEFINE T == TexturesOf(names)
           list == Listed(T)
<1>1. /\ T \subseteq HeldBy(bound) /\ OneEach(list) /\ Range(list) = T
      /\ GoodNames(Without(names), content) /\ DOMAIN Without(names) = DOMAIN bound \ names
      /\ \A n \in DOMAIN bound \ names : Without(names)[n] = bound[n]
      /\ HeldBy(Without(names)) = HeldBy(bound) \ T
  BY Leaving
<1>2. HeldBy(bound) \intersect InPool(free) = {}
  BY DEF Own, Parted
<1>3. free' = Returned(list)
  OBVIOUS
<1> HIDE DEF T, list
<1>4. Range(list) \intersect InPool(free) = {}
  BY <1>1, <1>2
<1>5. GoodPool(free') /\ InPool(free') = InPool(free) \union T
  BY <1>1, <1>3, <1>4, Returning
<1>6. /\ GoodNames(bound', content) /\ DOMAIN bound' = DOMAIN bound \ names
      /\ \A n \in DOMAIN bound \ names : bound'[n] = bound[n]
      /\ HeldBy(bound') = HeldBy(bound) \ T
  BY <1>1
<1>7. Parted(InPool(free'), Range(retired), HeldBy(bound'), HeldBy(store), dropped, MadeOf(made))
  BY <1>1, <1>5, <1>6 DEF Own, Parted
<1>8. Own'
  BY <1>5, <1>6, <1>7 DEF Own
<1> QED
  BY <1>5, <1>6, <1>8 DEF T

LEMMA ReleaseStays ==
    ASSUME NEW m, NEW v, NEW w, Stays(m, v), Goes(m, FALSE, Current, v, w), ReleaseFields
    PROVE  Stays(m, w)'
<1> DEFINE names == Current.names
<1>1. Loses(m, Current, v, w) /\ Current.op = "release"
  BY GoesBy DEF ReleaseFields, Doing
<1>2. /\ ~v.open /\ (v.flown => m.pressure = "mgpcg")
      /\ names \intersect Slots = {} /\ Forgets(v.scope \ names, w.scope)
      /\ w.written \subseteq v.written \ names /\ w.done \subseteq v.done \ names /\ SameFlags(v, w)
  BY <1>1 DEF Loses
<1>3. /\ flushed' = flushed /\ recorded' = recorded /\ content' = content /\ bound' = Without(names)
      /\ free' = Returned(Listed(TexturesOf(names))) /\ retired' = retired /\ store' = store
      /\ dropped' = dropped /\ made' = made
  BY DEF ReleaseFields, batch
<1> HIDE DEF names
<1>6. /\ Own' /\ DOMAIN bound' = DOMAIN bound \ names
      /\ \A n \in DOMAIN bound' : bound'[n] = bound[n]
  BY <1>2, <1>3, Releasing DEF Stays
<1>7. Holds(m, w)'
  <2>1. Forgets(DOMAIN bound', w.scope)
    BY <1>2, <1>6 DEF Stays, Holds, Forgets
  <2>2. \A k \in w.written : k \in DOMAIN bound' /\ content'[bound'[k]] # "none"
    BY <1>2, <1>3, <1>6 DEF Stays, Holds
  <2>3. \A k \in w.done : k \in DOMAIN bound' /\ content'[bound'[k]] = LastKernel(m, k)
    BY <1>2, <1>3, <1>6 DEF Stays, Holds
  <2>4. (~w.open => recorded' = {}) /\ (~w.flown => flushed' = {})
    BY <1>2, <1>3 DEF Stays, Holds, SameFlags
  <2>5. ~Busy(w) => retired' = <<>> /\ DOMAIN bound' \intersect Slots = {}
    BY <1>2, <1>3, <1>6 DEF Stays, Holds, SameFlags, Busy
  <2>6. IF w.kept THEN Keeps(m)' ELSE store' = EmptyBinding
    BY <1>2, <1>3 DEF Stays, Holds, SameFlags, Keeps
  <2> QED
    BY <2>1, <2>2, <2>3, <2>4, <2>5, <2>6 DEF Holds
<1>8. recorded' = {} /\ (m.pressure # "mgpcg" => flushed' = {})
  BY <1>2, <1>3 DEF Stays, Holds
<1> QED
  BY <1>6, <1>7, <1>8 DEF Stays

LEMMA ReplaceStays ==
    ASSUME NEW m, NEW v, NEW w, Stays(m, v), Goes(m, FALSE, Current, v, w), ReplaceField
    PROVE  Stays(m, w)'
<1> DEFINE k == Current.kernel
           b2 == bound'
<1>1. Replaces(m, Current, v, w)
  BY GoesBy DEF ReplaceField, Doing
<1>2. PICK n : /\ Current.names = {n} /\ n \in v.scope \ Slots /\ k # n
               /\ k \in v.written /\ k \in v.scope \ Slots
               /\ Forgets(v.scope \ {k}, w.scope)
               /\ w.written \subseteq (v.written \union {n}) \ {k}
               /\ w.done \subseteq (v.done \ {n, k}) \union
                     IF k \in v.done /\ LastKernel(m, k) = LastKernel(m, n) THEN {n} ELSE {}
  BY <1>1 DEF Replaces
<1>3. ~v.kept /\ ~w.kept /\ Busy(w) /\ SameFlags(v, w)
  BY <1>1 DEF Replaces, SameFlags
<1>4. /\ flushed' = flushed /\ recorded' = recorded /\ content' = content
      /\ b2 = Naming(Without({k}), n, bound[k])
      /\ free' = free /\ retired' = Append(retired, bound[n]) /\ store' = store
      /\ dropped' = dropped /\ made' = made
  BY <1>2 DEF ReplaceField, batch
<1>5. n \in DOMAIN bound \ Slots /\ k \in DOMAIN bound \ Slots
  BY <1>2 DEF Stays, Holds, Forgets
<1>6. GoodNames(bound, content)
  BY DEF Stays, Own
<1>7. b2 = Naming([l \in DOMAIN bound \ {k} |-> bound[l]], n, bound[k])
  BY <1>4 DEF Without
<1> HIDE DEF k, b2
<1>8. Renamed(bound, content, n, k, b2)
  BY <1>2, <1>5, <1>6, <1>7, Renames
<1>9. /\ GoodNames(bound', content) /\ HeldBy(bound') = HeldBy(bound) \ {bound[n]}
      /\ DOMAIN bound' = DOMAIN bound \ {k} /\ bound'[n] = bound[k]
      /\ \A l \in DOMAIN bound' : l # n => bound'[l] = bound[l]
  BY <1>8 DEF Renamed, b2
<1> DEFINE t == bound[n]
<1>10. t \in HeldBy(bound) /\ HeldBy(bound) \subseteq Textures
  BY <1>5, HeldIs, PartsAreMade, OwnIsFinite DEF Stays
<1>14. retired' = Append(retired, t) /\ HeldBy(bound') = HeldBy(bound) \ {t}
  BY <1>4, <1>9
<1> HIDE DEF t
<1>11. OneEach(retired) /\ t \in Textures /\ t \notin Range(retired)
  BY <1>10 DEF Stays, Own, Parted
<1>12. OneEach(Append(retired, t)) /\ Range(Append(retired, t)) = Range(retired) \union {t}
  BY <1>11, OneMore
<1>13. Parted(InPool(free), Range(retired'), HeldBy(bound'), HeldBy(store), dropped, MadeOf(made))
  BY <1>10, <1>12, <1>14 DEF Stays, Own, Parted
<1>15. Own'
  BY <1>4, <1>9, <1>12, <1>13, <1>14 DEF Stays, Own
<1>16. Holds(m, w)'
  <2>1. Forgets(DOMAIN bound', w.scope)
    BY <1>2, <1>9 DEF Stays, Holds, Forgets
  <2>2. \A l \in w.written : l \in DOMAIN bound' /\ content'[bound'[l]] # "none"
    <3> SUFFICES ASSUME NEW l \in w.written
                 PROVE  l \in DOMAIN bound' /\ content'[bound'[l]] # "none"
      OBVIOUS
    <3>1. CASE l = n
      BY <1>2, <1>4, <1>5, <1>9, <3>1 DEF Stays, Holds
    <3>2. CASE l # n
      <4>1. l \in v.written /\ l # k
        BY <1>2, <3>2
      <4>2. l \in DOMAIN bound /\ content[bound[l]] # "none"
        BY <4>1 DEF Stays, Holds
      <4> QED
        BY <1>4, <1>9, <3>2, <4>1, <4>2
    <3> QED
      BY <3>1, <3>2
  <2>3. \A l \in w.done : l \in DOMAIN bound' /\ content'[bound'[l]] = LastKernel(m, l)
    <3> SUFFICES ASSUME NEW l \in w.done
                 PROVE  l \in DOMAIN bound' /\ content'[bound'[l]] = LastKernel(m, l)
      OBVIOUS
    <3>1. CASE l = n
      <4>1. k \in v.done /\ LastKernel(m, k) = LastKernel(m, n)
        BY <1>2, <3>1
      <4>2. content[bound[k]] = LastKernel(m, k)
        BY <4>1 DEF Stays, Holds
      <4> QED
        BY <1>2, <1>4, <1>5, <1>9, <3>1, <4>1, <4>2
    <3>2. CASE l # n
      <4>1. l \in v.done /\ l # k
        BY <1>2, <3>2
      <4>2. l \in DOMAIN bound /\ content[bound[l]] = LastKernel(m, l)
        BY <4>1 DEF Stays, Holds
      <4> QED
        BY <1>4, <1>9, <3>2, <4>1, <4>2
    <3> QED
      BY <3>1, <3>2
  <2>4. (~w.open => recorded' = {}) /\ (~w.flown => flushed' = {})
    BY <1>3, <1>4 DEF Stays, Holds, SameFlags
  <2>6. store' = EmptyBinding
    BY <1>3, <1>4 DEF Stays, Holds
  <2> QED
    BY <1>3, <2>1, <2>2, <2>3, <2>4, <2>6 DEF Holds
<1> QED
  BY <1>4, <1>15, <1>16 DEF Stays

LEMMA HoldsLess ==
    ASSUME NEW m, NEW v, NEW w, Holds(m, v), Covers(v, w)
    PROVE  Holds(m, w)
  BY DEF Holds, Covers, Forgets, SameFlags, Busy

LEMMA LooksStays ==
    ASSUME NEW m, NEW v, NEW w, Stays(m, v), Goes(m, FALSE, Current, v, w), Checked
    PROVE  Stays(m, w)'
<1>1. Looks(m, Current, v, w)
  BY GoesBy DEF Checked, Doing
<1>2. Holds(m, w)
  BY <1>1, HoldsLess DEF Looks, Stays
<1>3. /\ flushed' = flushed /\ recorded' = recorded /\ content' = content /\ bound' = bound
      /\ free' = free /\ retired' = retired /\ store' = store /\ dropped' = dropped /\ made' = made
  BY DEF Checked, textures, batch
<1>4. Own'
  BY <1>3 DEF Stays, Own
<1>5. Holds(m, w)'
  BY <1>2, <1>3 DEF Holds, Keeps
<1> QED
  BY <1>3, <1>4, <1>5 DEF Stays

LEMMA MeasureStays ==
    ASSUME NEW m, NEW v, NEW w, Stays(m, v), Goes(m, FALSE, Current, v, w), MeasureSpeed
    PROVE  Stays(m, Stepping(m))'
<1>1. Looks(m, Current, v, w) /\ Current.op = "measure"
  BY GoesBy DEF MeasureSpeed, Doing
<1> DEFINE x == Stepping(m)
<1>6. Covers(v, x)
  BY <1>1 DEF Looks
<1> HIDE DEF x
<1>2. Holds(m, x)
  BY <1>6, HoldsLess DEF Stays
<1>3. /\ flushed' = flushed /\ recorded' = recorded /\ content' = content /\ bound' = bound
      /\ free' = free /\ retired' = retired /\ store' = store /\ dropped' = dropped /\ made' = made
  BY DEF MeasureSpeed, textures, batch
<1>4. Own'
  BY <1>3 DEF Stays, Own
<1>5. Holds(m, x)'
  BY <1>2, <1>3 DEF Holds, Keeps
<1>7. Stays(m, x)'
  BY <1>3, <1>4, <1>5 DEF Stays
<1> QED
  BY <1>7 DEF x

LEMMA PutStays ==
    ASSUME NEW m, NEW v, NEW w, Stays(m, v), Goes(m, FALSE, Current, v, w), Put
    PROVE  Stays(m, w)'
<1> DEFINE names == StateNames(m)
           b2 == bound'
<1>1. Puts(m, Current, v, w)
  BY GoesBy DEF Put, Doing
<1>2. /\ ~v.kept /\ w.kept /\ ~v.open /\ ~v.flown /\ Current.names = names
      /\ names \subseteq v.scope /\ names \subseteq v.written /\ Tracked(m) \subseteq v.done
      /\ Forgets(v.scope \ names, w.scope)
      /\ w.written \subseteq v.written \ names /\ w.done \subseteq v.done \ names
  BY <1>1 DEF Puts
<1>3. /\ flushed' = flushed /\ recorded' = recorded /\ content' = content
      /\ b2 = Without(names) /\ free' = free /\ retired' = retired
      /\ store' = [n \in In(names) |-> bound[n]] /\ dropped' = dropped /\ made' = made
  BY <1>2 DEF Put, batch
<1>4. names \intersect Slots = {} /\ Tracked(m) \subseteq names
  BY Apart DEF Fields, Tracked
<1> HIDE DEF names, b2
<1>5. names \subseteq DOMAIN bound
  BY <1>2 DEF Stays, Holds, Forgets
<1>6. /\ DOMAIN store' = names /\ \A n \in names : store'[n] = bound[n]
      /\ store' = [n \in DOMAIN store' |-> store'[n]]
  BY <1>3, <1>5 DEF In
<1>7. /\ TexturesOf(names) \subseteq HeldBy(bound)
      /\ GoodNames(b2, content) /\ DOMAIN b2 = DOMAIN bound \ names
      /\ \A n \in DOMAIN bound \ names : b2[n] = bound[n]
      /\ HeldBy(b2) = HeldBy(bound) \ TexturesOf(names)
  BY <1>3, <1>4, Leaving DEF Stays
<1>8. HeldBy(store') = TexturesOf(names) /\ DOMAIN store' \intersect Slots = {}
  BY <1>4, <1>5, <1>6 DEF HeldBy, TexturesOf, In
<1>9. GoodNames(store', content)
  BY <1>4, <1>5, <1>6 DEF Stays, Own, GoodNames
<1>10. store = EmptyBinding
  BY <1>2 DEF Stays, Holds
<1>11. HeldBy(store) = {}
  BY <1>10 DEF HeldBy, EmptyBinding
<1>12. Parted(InPool(free), Range(retired), HeldBy(b2), HeldBy(store'), dropped, MadeOf(made))
  BY <1>7, <1>8, <1>11 DEF Stays, Own, Parted
<1>13. Own'
  BY <1>3, <1>7, <1>8, <1>9, <1>12 DEF Stays, Own, b2
<1>14. Keeps(m)'
  <2>1. \A n \in DOMAIN store' : content'[store'[n]] # "none"
    BY <1>2, <1>3, <1>6 DEF Stays, Holds
  <2>2. \A n \in Tracked(m) : content'[store'[n]] = LastKernel(m, n)
    BY <1>2, <1>3, <1>4, <1>6 DEF Stays, Holds
  <2> QED
    BY <1>6, <2>1, <2>2 DEF Keeps, names
<1>15. Holds(m, w)'
  <2>0. DOMAIN bound' = DOMAIN bound \ names /\ \A n \in DOMAIN bound' : bound'[n] = bound[n]
    BY <1>7 DEF b2
  <2>1. Forgets(DOMAIN bound', w.scope)
    BY <1>2, <2>0 DEF Stays, Holds, Forgets
  <2>2. \A l \in w.written : l \in DOMAIN bound' /\ content'[bound'[l]] # "none"
    BY <1>2, <1>3, <2>0 DEF Stays, Holds
  <2>3. \A l \in w.done : l \in DOMAIN bound' /\ content'[bound'[l]] = LastKernel(m, l)
    BY <1>2, <1>3, <2>0 DEF Stays, Holds
  <2>4. recorded' = {} /\ flushed' = {}
    BY <1>2, <1>3 DEF Stays, Holds
  <2>5. retired' = <<>> /\ DOMAIN bound' \intersect Slots = {}
    BY <1>2, <1>3, <2>0 DEF Stays, Holds, Busy
  <2> QED
    BY <1>2, <1>14, <2>1, <2>2, <2>3, <2>4, <2>5 DEF Holds
<1> QED
  BY <1>3, <1>13, <1>15 DEF Stays

-----------------------------------------------------------------------------
(* A failure, the cleanup after it, and the slots at the start of a frame *)

LEMMA NoNames ==
    /\ DOMAIN EmptyBinding = {} /\ HeldBy(EmptyBinding) = {}
    /\ \A c : GoodNames(EmptyBinding, c)
<1>1. DOMAIN EmptyBinding = {} /\ EmptyBinding = [n \in {} |-> EmptyBinding[n]]
  BY DEF EmptyBinding
<1> QED
  BY <1>1 DEF HeldBy, GoodNames

LEMMA IsEmpty ==
    ASSUME NEW b, NEW c, GoodNames(b, c), DOMAIN b = {}
    PROVE  b = EmptyBinding
<1>1. b = [n \in {} |-> b[n]]
  BY DEF GoodNames
<1>2. b = <<>>
  BY <1>1
<1> QED
  BY <1>2 DEF EmptyBinding

LEMMA FailOwns ==
    ASSUME Own, Fail, Current.drop \intersect Current.free = {},
           (Current.drop \union Current.free) \intersect Slots = {}
    PROVE  /\ Own'
           /\ InPool(free)' = InPool(free) \union TexturesOf(Current.free)
                                \union IF Current.op = "submit" THEN Range(retired) ELSE {}
<1> DEFINE lost == Current.drop
           given == Current.free
           T == TexturesOf(given)
           D == TexturesOf(lost)
           list == Listed(T)
           last == Current.op = "submit"
           all == IF last THEN list \o retired ELSE list
           b2 == bound'
           gone == lost \union given
<1>1. /\ dropped' = dropped \union D /\ b2 = Without(gone \intersect DOMAIN bound)
      /\ free' = Returned(all) /\ retired' = IF last THEN <<>> ELSE retired
      /\ content' = content /\ store' = store /\ made' = made
  BY DEF Fail, TexturesOf, In
<1>2. b2 = [n \in DOMAIN bound \ gone |-> bound[n]]
  BY <1>1 DEF Without
<1>3. gone \intersect Slots = {} /\ T \union D = {bound[n] : n \in (DOMAIN bound \intersect gone) \ Slots}
  BY DEF TexturesOf, In
<1>4. T \intersect D = {} /\ D \subseteq HeldBy(bound)
  BY DEF TexturesOf, In, Own, GoodNames, HeldBy
<1>5. given \intersect Slots = {} /\ last \in BOOLEAN
  OBVIOUS
<1>6. T \subseteq HeldBy(bound) /\ OneEach(list) /\ Range(list) = T
  BY <1>5, Leaving
<1>7. OneEach(retired) /\ GoodNames(bound, content)
  BY DEF Own
<1> HIDE DEF gone, b2
<1>8. Leaves(bound, content, gone, b2)
  BY <1>2, <1>7, Unbinds
<1>9. /\ GoodNames(b2, content) /\ DOMAIN b2 = DOMAIN bound \ gone
      /\ HeldBy(b2) = HeldBy(bound) \ (T \union D)
  BY <1>3, <1>8 DEF Leaves
<1> HIDE DEF T, D, list
<1> DEFINE back == T \union IF last THEN Range(retired) ELSE {}
<1>10. OneEach(all) /\ Range(all) = back /\ Range(all) \intersect InPool(free) = {}
  <2>1. CASE last
    <3>1. Range(list) \intersect Range(retired) = {}
      BY <1>6 DEF Own, Parted
    <3>2. OneEach(list \o retired) /\ Range(list \o retired) = Range(list) \union Range(retired)
      BY <1>6, <1>7, <3>1, ListsJoin
    <3>3. all = list \o retired /\ back = T \union Range(retired)
      BY <2>1
    <3> HIDE DEF all, back
    <3> QED
      BY <1>6, <3>2, <3>3 DEF Own, Parted
  <2>2. CASE ~last
    <3>3. all = list /\ back = T
      BY <2>2
    <3> HIDE DEF all, back
    <3> QED
      BY <1>6, <3>3 DEF Own, Parted
  <2> QED
    BY <2>1, <2>2
<1> HIDE DEF all
<1>11. GoodPool(free') /\ InPool(free') = InPool(free) \union Range(all)
  BY <1>1, <1>10, Returning
<1>12. OneEach(retired') /\ Range(retired') = IF last THEN {} ELSE Range(retired)
  <2>1. OneEach(<<>>) /\ Range(<<>>) = {}
    BY DEF OneEach, Range
  <2> QED
    BY <1>1, <1>7, <2>1
<1>13. Parted(InPool(free'), Range(retired'), HeldBy(b2), HeldBy(store), dropped', MadeOf(made))
  <2>1. InPool(free') = InPool(free) \union back /\ dropped' = dropped \union D
    BY <1>1, <1>10, <1>11
  <2>2. CASE last
    <3>1. back = T \union Range(retired) /\ Range(retired') = {}
      BY <1>12, <2>2
    <3> HIDE DEF back
    <3> QED
      BY <1>4, <1>6, <1>9, <2>1, <3>1 DEF Own, Parted
  <2>3. CASE ~last
    <3>1. back = T /\ Range(retired') = Range(retired)
      BY <1>12, <2>3
    <3> HIDE DEF back
    <3> QED
      BY <1>4, <1>6, <1>9, <2>1, <3>1 DEF Own, Parted
  <2> QED
    BY <2>2, <2>3
<1>14. Own'
  BY <1>1, <1>9, <1>11, <1>12, <1>13 DEF Own, b2
<1> QED
  BY <1>10, <1>11, <1>14 DEF T

LEMMA DiscardOwns ==
    ASSUME Own, Discard
    PROVE  Own'
<1>1. /\ free' = Returned(retired) /\ retired' = <<>> /\ bound' = bound
      /\ content' = content /\ store' = store /\ made' = made /\ dropped' = dropped
  BY DEF Discard
<1>2. OneEach(retired) /\ Range(retired) \intersect InPool(free) = {}
  BY DEF Own, Parted
<1>3. GoodPool(free') /\ InPool(free') = InPool(free) \union Range(retired)
  BY <1>1, <1>2, Returning
<1>4. OneEach(<<>>) /\ Range(<<>>) = {}
  BY DEF OneEach, Range
<1>5. Parted(InPool(free'), {}, HeldBy(bound), HeldBy(store), dropped, MadeOf(made))
  BY <1>3 DEF Own, Parted
<1> QED
  BY <1>1, <1>3, <1>4, <1>5 DEF Own

LEMMA RetireLocalsOwns ==
    ASSUME Own, RetireLocals
    PROVE  Own' /\ DOMAIN bound' \subseteq Current.names \ Slots
<1> DEFINE locals == DOMAIN bound \ (Current.names \union Slots)
<1>1. /\ retired' = retired \o Listed(TexturesOf(locals)) /\ bound' = Without(locals \union Slots)
      /\ free' = free /\ content' = content /\ store' = store /\ made' = made /\ dropped' = dropped
  BY DEF RetireLocals
<1>2. locals \intersect Slots = {} /\ Slots \in SUBSET Slots
  OBVIOUS
<1>4. DOMAIN bound \ (locals \union Slots) \subseteq Current.names \ Slots
  OBVIOUS
<1> HIDE DEF locals
<1>3. Own' /\ DOMAIN bound' = DOMAIN bound \ (locals \union Slots)
  BY <1>1, <1>2, Retiring
<1> QED
  BY <1>3, <1>4

LEMMA TakeStateOwns ==
    ASSUME Own, NEW m, TakeState(m), bound = EmptyBinding
    PROVE  Own'
<1>1. /\ bound' = store /\ store' = EmptyBinding /\ free' = free /\ retired' = retired
      /\ content' = content /\ made' = made /\ dropped' = dropped
  BY DEF TakeState
<1>2. HeldBy(bound) = {} /\ HeldBy(store') = {} /\ GoodNames(store', content)
      /\ DOMAIN store' \intersect Slots = {}
  BY <1>1, NoNames
<1>3. Parted(InPool(free), Range(retired), HeldBy(bound'), HeldBy(store'), dropped, MadeOf(made))
  BY <1>1, <1>2 DEF Own, Parted
<1> QED
  BY <1>1, <1>2, <1>3 DEF Own

LEMMA StateShapeOwns ==
    ASSUME Own, NEW m, StateShape(m)
    PROVE  Own'
<1> DEFINE T == HeldBy(store)
           list == Listed(T)
<1>1. Range(store) = T
  BY DEF Range, HeldBy, Own
<1>2. /\ bound' = bound /\ store' = EmptyBinding /\ free' = Returned(list) /\ retired' = retired
      /\ content' = content /\ made' = made /\ dropped' = dropped
  BY <1>1 DEF StateShape
<1>3. IsFiniteSet(T) /\ T \in SUBSET Textures
  BY PartsAreMade, OwnIsFinite
<1> HIDE DEF T
<1>4. OneEach(list) /\ Range(list) = T
  BY <1>3, ListedIs
<1> HIDE DEF list
<1>5. Range(list) \intersect InPool(free) = {}
  BY <1>4 DEF T, Own, Parted
<1>6. GoodPool(free') /\ InPool(free') = InPool(free) \union T
  BY <1>2, <1>4, <1>5, Returning
<1>7. HeldBy(store') = {} /\ GoodNames(store', content) /\ DOMAIN store' \intersect Slots = {}
  BY <1>2, NoNames
<1>8. Parted(InPool(free'), Range(retired), HeldBy(bound), HeldBy(store'), dropped, MadeOf(made))
  BY <1>6, <1>7 DEF T, Own, Parted
<1> QED
  BY <1>2, <1>6, <1>7, <1>8 DEF Own

-----------------------------------------------------------------------------
(* The parts of the program, one after another. *)

LEMMA PartRuns ==
    ASSUME NEW m \in Modes, ~Incomplete(m), NEW s \in Parts
    PROVE  Runs(m, FALSE, Program[m][s], EntryOf(m, s), ExitOf(m, s))
<1>1. CASE s = "zeroed"
  <2>1. /\ Program[m][s] = FirstState(m) /\ EntryOf(m, s) = Settled({}, {})
        /\ ExitOf(m, s) = Settled(StateNames(m), {})
    BY <1>1 DEF Program, EntryOf, ExitOf, Settled
  <2> QED
    BY <2>1, FirstStateRuns
<1>2. CASE s = "enter"
  <2>1. /\ Program[m][s] = Enter(m) /\ EntryOf(m, s) = Settled(StateNames(m), {})
        /\ ExitOf(m, s) = Stepping(m)
    BY <1>2 DEF Program, EntryOf, ExitOf, Settled
  <2> QED
    BY <2>1, EnterRuns
<1>3. CASE s = "substep"
  <2>1. /\ Program[m][s] = Substep(m) /\ EntryOf(m, s) = Stepping(m)
        /\ ExitOf(m, s) = Settled(Fields(m), Tracked(m))
    BY <1>3 DEF Program, EntryOf, ExitOf, Settled, Fields
  <2> QED
    BY <2>1, SubstepRuns
<1>4. CASE s = "leave"
  <2>1. /\ Program[m][s] = Leave(m) /\ EntryOf(m, s) = Settled(Fields(m), Tracked(m))
        /\ ExitOf(m, s) = View({}, {}, {}, FALSE, FALSE, TRUE)
    BY <1>4 DEF Program, EntryOf, ExitOf, Settled, Fields
  <2> QED
    BY <2>1, LeaveRuns
<1> QED
  BY <1>1, <1>2, <1>3, <1>4 DEF Parts

\* Every part has something to do.
LEMMA PartDiffers ==
    ASSUME NEW m, NEW s \in Parts
    PROVE  ~Covers(EntryOf(m, s), ExitOf(m, s))
<1>1. CASE s = "zeroed"
  <2>1. /\ EntryOf(m, s) = View({}, {}, {}, FALSE, FALSE, FALSE)
        /\ ExitOf(m, s) = View(StateNames(m), StateNames(m), {}, FALSE, FALSE, FALSE)
    BY <1>1 DEF EntryOf, ExitOf
  <2>2. "density" \in StateNames(m)
    BY DEF StateNames
  <2> QED
    BY <2>1, <2>2 DEF Covers, View
<1>2. CASE s = "enter"
  <2> DEFINE F == StateNames(m) \union Given(m)
  <2>1. /\ EntryOf(m, s) = View(StateNames(m), StateNames(m), {}, FALSE, FALSE, FALSE)
        /\ ExitOf(m, s) = View(F, F, {}, FALSE, FALSE, FALSE)
    BY <1>2 DEF EntryOf, ExitOf, Stepping
  <2>2. "src_density" \notin StateNames(m) /\ "src_density" \in F
    BY Sequences_ DEF StateNames, Given
  <2> HIDE DEF F
  <2> QED
    BY <2>1, <2>2 DEF Covers, View
<1>3. CASE s = "substep"
  <2> DEFINE F == StateNames(m) \union Given(m)
  <2>1. /\ EntryOf(m, s) = View(F, F, {}, FALSE, FALSE, FALSE)
        /\ ExitOf(m, s) = View(F, F, Tracked(m), FALSE, FALSE, FALSE)
    BY <1>3 DEF EntryOf, ExitOf, Stepping
  <2>2. "density" \in Tracked(m)
    BY DEF StateNames, Tracked, Scalars
  <2> HIDE DEF F
  <2> QED
    BY <2>1, <2>2 DEF Covers, View
<1>4. CASE s = "leave"
  <2> DEFINE F == StateNames(m) \union Given(m)
  <2>1. /\ EntryOf(m, s) = View(F, F, Tracked(m), FALSE, FALSE, FALSE)
        /\ ExitOf(m, s) = View({}, {}, {}, FALSE, FALSE, TRUE)
    BY <1>4 DEF EntryOf, ExitOf
  <2> HIDE DEF F
  <2> QED
    BY <2>1 DEF Covers, View, SameFlags
<1> QED
  BY <1>1, <1>2, <1>3, <1>4 DEF Parts

\* What is known at the start of a part is enough for all of it.
LEMMA PartIsKnown ==
    ASSUME NEW m \in Modes, ~Incomplete(m), NEW s \in Parts
    PROVE  /\ Len(Program[m][s]) \in Nat \ {0}
           /\ \E f : Knows(m, s, f) /\ Covers(EntryOf(m, s), f[0])
<1> DEFINE p == Program[m][s]
           n == Len(p)
<1>1. Runs(m, FALSE, p, EntryOf(m, s), ExitOf(m, s))
  BY PartRuns
<1>2. IsStage(p) /\ n \in Nat
  BY <1>1, StageFacts DEF Runs
<1>3. PICK f : Covers(EntryOf(m, s), f[0]) /\ f[n] = ExitOf(m, s) /\ Trace(m, FALSE, p, f)
  BY <1>1 DEF Runs
<1>4. n # 0
  BY <1>3, PartDiffers
<1>5. Knows(m, s, f)
  BY <1>3 DEF Knows
<1> QED
  BY <1>2, <1>3, <1>4, <1>5

LEMMA HoldsLessThen ==
    ASSUME NEW m, NEW v, NEW w, Holds(m, v)', Covers(v, w)
    PROVE  Holds(m, w)'
  BY DEF Holds, Covers, Forgets, SameFlags, Busy

\* The next instruction is in order.
LEMMA OnTrackThen ==
    ASSUME NEW m \in Modes, NEW s \in Parts, NEW f, Knows(m, s, f), NEW k \in 1..Len(Program[m][s]),
           Holds(m, f[k - 1])', mode' = m, seg' = s, pc' = k
    PROVE  OnTrack'
<1> DEFINE v == f[k - 1]
<1>1. Holds(m, v)' /\ f[pc' - 1] = v
  OBVIOUS
<1> HIDE DEF v
<1>2. pc' \in 1..Len(Program[mode'][seg']) /\ Knows(mode', seg', f)
  OBVIOUS
<1> QED
  BY <1>1, <1>2 DEF OnTrack, Holds, Keeps

\* A part begins where what is known covers what it starts from.
LEMMA Enters ==
    ASSUME NEW m \in Modes, ~Incomplete(m), NEW s \in Parts, NEW v, Covers(v, EntryOf(m, s)),
           Holds(m, v)', mode' = m, seg' = s, pc' = 1
    PROVE  OnTrack'
<1>1. PICK f : Knows(m, s, f) /\ Covers(EntryOf(m, s), f[0])
  BY PartIsKnown
<1>2. Covers(v, f[0])
  BY <1>1, CoversAll
<1> DEFINE k == 1
           u == f[0]
<1>3. k \in 1..Len(Program[m][s]) /\ f[k - 1] = u
  BY PartIsKnown
<1>5. Covers(v, u)
  BY <1>2
<1> HIDE DEF u
<1>4. Holds(m, u)'
  BY <1>5, HoldsLessThen
<1>6. Holds(m, f[k - 1])'
  BY <1>3, <1>4
<1>7. pc' = k
  OBVIOUS
<1> HIDE DEF k
<1> QED
  BY <1>1, <1>3, <1>6, <1>7, OnTrackThen

LEMMA PartsFollow ==
    ASSUME NEW m
    PROVE  /\ Covers(ExitOf(m, "zeroed"), EntryOf(m, "enter"))
           /\ Covers(ExitOf(m, "substep"), EntryOf(m, "substep"))
           /\ Covers(ExitOf(m, "substep"), EntryOf(m, "leave"))
<1>1. ExitOf(m, "zeroed") = EntryOf(m, "enter") /\ ExitOf(m, "substep") = EntryOf(m, "leave")
  BY DEF ExitOf, EntryOf
<1> DEFINE F == StateNames(m) \union Given(m)
<1>2. /\ ExitOf(m, "substep") = View(F, F, Tracked(m), FALSE, FALSE, FALSE)
      /\ EntryOf(m, "substep") = View(F, F, {}, FALSE, FALSE, FALSE)
  BY DEF ExitOf, EntryOf, Stepping
<1> HIDE DEF F
<1>3. Covers(ExitOf(m, "substep"), EntryOf(m, "substep"))
  BY <1>2 DEF Covers, Forgets, SameFlags, View
<1> QED
  BY <1>1, <1>3, CoversAll

\* What is left when the last part ends.
LEMMA Ends ==
    ASSUME NEW m, Own', Holds(m, ExitOf(m, "leave"))', mode' = m
    PROVE  Resting'
<1> DEFINE v == ExitOf(m, "leave")
<1>1. v = View({}, {}, {}, FALSE, FALSE, TRUE)
  BY DEF ExitOf
<1>2. /\ v.scope = {} /\ v.open = FALSE /\ v.flown = FALSE /\ v.kept = TRUE
  BY <1>1 DEF View
<1> HIDE DEF v
<1>3. Holds(m, v)'
  BY DEF v
<1>4. /\ DOMAIN bound' = {} /\ recorded' = {} /\ flushed' = {} /\ retired' = <<>> /\ Keeps(m)'
  BY <1>2, <1>3 DEF Holds, Forgets, Busy
<1>5. bound' = EmptyBinding
  <2> DEFINE b2 == bound'
             c2 == content'
  <2>1. GoodNames(b2, c2) /\ DOMAIN b2 = {}
    BY <1>4 DEF Own
  <2> HIDE DEF b2, c2
  <2>2. b2 = EmptyBinding
    BY <2>1, IsEmpty
  <2> QED
    BY <2>2 DEF b2
<1> QED
  BY <1>4, <1>5 DEF Resting, Keeps

LEMMA WorkingThen ==
    ASSUME NEW m, NEW v, Stays(m, v)', mode' = m
    PROVE  Working' /\ Own' /\ Holds(m, v)'
  BY DEF Working, Stays

LEMMA ContinueInPart ==
    ASSUME Where, NEW m \in Modes, mode = m, NEW s \in Parts, seg = s,
           NEW k \in 1..Len(Program[m][s]), pc = k, NEW f, Knows(m, s, f),
           NEW v, v = f[k], Stays(m, v)', Continue, dropped' = dropped
    PROVE  OwnInv'
<1> DEFINE n == Len(Program[m][s])
<1>1. ~Incomplete(m)
  BY DEF Where, Running, Parts
<1>2. n \in Nat \ {0}
  BY <1>1, PartIsKnown
<1>3. mode' = m /\ failures' = failures /\ Advance
  BY DEF Continue
<1>4. Working' /\ Own' /\ Holds(m, v)'
  BY <1>3, WorkingThen
<1>5. CASE k < n
  <2>1. pc' = k + 1 /\ seg' = s
    BY <1>3, <1>5 DEF Advance
  <2> DEFINE l == k + 1
  <2>2. l \in 1..n /\ l - 1 = k
    BY <1>2, <1>5
  <2>3. Holds(m, v)' /\ f[l - 1] = v /\ pc' = l
    BY <1>4, <2>1, <2>2
  <2> HIDE DEF l
  <2>4. Holds(m, f[l - 1])'
    BY <2>3
  <2>5. OnTrack'
    BY <1>3, <2>1, <2>2, <2>3, <2>4, OnTrackThen
  <2>6. Where'
    BY <1>1, <1>3, <2>1 DEF Where, Parts
  <2>7. CleaningUp' /\ Resting'
    BY <2>1 DEF CleaningUp, Resting, Parts
  <2> QED
    BY <1>4, <2>5, <2>6, <2>7 DEF OwnInv
<1>6. CASE ~(k < n)
  <2>1. k = n /\ v = ExitOf(m, s)
    BY <1>2, <1>6 DEF Knows
  <2>2. /\ pc' = 1 /\ s \in DOMAIN After
        /\ IF s = "substep" /\ left > 1 THEN seg' = s ELSE seg' = After[s]
    BY <1>3, <1>6 DEF Advance
  <2>3. \/ s = "zeroed" /\ seg' = "enter"
        \/ s = "substep" /\ seg' \in {"substep", "leave"}
        \/ s = "leave" /\ seg' = "idle"
    BY <2>2 DEF After, Parts
  <2>4. Where'
    BY <1>1, <1>3, <2>3 DEF Where, Parts
  <2>5. CleaningUp'
    BY <2>3 DEF CleaningUp
  <2>6. CASE s = "leave"
    <3>1. seg' = "idle" /\ Holds(m, ExitOf(m, "leave"))'
      BY <1>4, <2>1, <2>3, <2>6
    <3>2. Resting'
      BY <1>3, <1>4, <3>1, Ends
    <3>3. OnTrack'
      BY <3>1 DEF OnTrack, Parts
    <3> QED
      BY <1>4, <2>4, <2>5, <3>2, <3>3 DEF OwnInv
  <2>7. CASE s # "leave"
    <3>1. PICK t : t = seg'
      OBVIOUS
    <3>2. t \in Parts /\ Covers(v, EntryOf(m, t)) /\ t # "idle"
      BY <2>1, <2>3, <2>7, <3>1, PartsFollow DEF Parts
    <3>3. OnTrack'
      BY <1>1, <1>3, <1>4, <2>2, <3>1, <3>2, Enters
    <3>4. Resting'
      BY <3>1, <3>2 DEF Resting
    <3> QED
      BY <1>4, <2>4, <2>5, <3>3, <3>4 DEF OwnInv
  <2> QED
    BY <2>6, <2>7
<1> QED
  BY <1>5, <1>6

\* In a part of the program, the machine is where the program goes on.
LEMMA InPart ==
    ASSUME OwnInv, seg \in Parts
    PROVE  \E f, k : /\ mode \in Modes /\ k \in 1..Len(Program[mode][seg]) /\ pc = k
                     /\ Knows(mode, seg, f) /\ Stays(mode, f[k - 1])
                     /\ Goes(mode, FALSE, Current, f[k - 1], f[k])
<1>1. PICK f : Knows(mode, seg, f) /\ Holds(mode, f[pc - 1])
  BY DEF OwnInv, OnTrack
<1>2. mode \in Modes /\ pc \in 1..Len(Program[mode][seg])
  BY DEF OwnInv, Where, OnTrack
<1>3. Goes(mode, FALSE, Current, f[pc - 1], f[pc])
  BY <1>1, <1>2 DEF Knows, Trace, Current
<1>4. Stays(mode, f[pc - 1])
  BY <1>1 DEF OwnInv, Working, Stays, Parts
<1> QED
  BY <1>1, <1>2, <1>3, <1>4

LEMMA InPartStep ==
    ASSUME OwnInv, seg \in Parts,
           \/ AcquireField \/ TakeInput \/ NewSlots \/ Record \/ RunOne \/ FlushBatch
           \/ SubmitBatch \/ RetireFields \/ ReplaceField \/ ReleaseFields \/ Checked \/ Put
    PROVE  OwnInv'
<1>1. PICK f, k : /\ mode \in Modes /\ k \in 1..Len(Program[mode][seg]) /\ pc = k
                  /\ Knows(mode, seg, f) /\ Stays(mode, f[k - 1])
                  /\ Goes(mode, FALSE, Current, f[k - 1], f[k])
  BY InPart
<1>2. PICK m, s, u, v : mode = m /\ seg = s /\ u = f[k - 1] /\ v = f[k]
  OBVIOUS
<1>3. /\ m \in Modes /\ k \in 1..Len(Program[m][s]) /\ pc = k /\ Knows(m, s, f)
      /\ Stays(m, u) /\ Goes(m, FALSE, Current, u, v) /\ s \in Parts /\ Where
  BY <1>1, <1>2 DEF OwnInv
<1>4. Stays(m, v)'
  BY <1>3, GainsStays, TargetsStays, DispatchesStays, FlushStays, SubmitStays, RetireStays,
     ReplaceStays, ReleaseStays, LooksStays, PutStays
<1>5. Continue
  BY DEF AcquireField, TakeInput, NewSlots, Record, RunOne, FlushBatch, SubmitBatch, RetireFields,
         ReplaceField, ReleaseFields, Checked, Put
<1>6. dropped' = dropped
  BY DEF AcquireField, TakeInput, NewSlots, Record, RunOne, FlushBatch, SubmitBatch, RetireFields,
         ReplaceField, ReleaseFields, Checked, Put, Take, textures
<1> QED
  BY <1>2, <1>3, <1>4, <1>5, <1>6, ContinueInPart

LEMMA MeasureInPart ==
    ASSUME OwnInv, seg \in Parts, MeasureSpeed
    PROVE  OwnInv'
<1>1. PICK f, k : /\ mode \in Modes /\ k \in 1..Len(Program[mode][seg]) /\ pc = k
                  /\ Knows(mode, seg, f) /\ Stays(mode, f[k - 1])
                  /\ Goes(mode, FALSE, Current, f[k - 1], f[k])
  BY InPart
<1>2. PICK m, u, v, w : mode = m /\ u = f[k - 1] /\ v = f[k] /\ w = Stepping(m)
  OBVIOUS
<1>3. m \in Modes /\ Stays(m, u) /\ Goes(m, FALSE, Current, u, v)
  BY <1>1, <1>2
<1>4. Stays(m, w)'
  <2>1. Stays(m, Stepping(m))'
    BY <1>3, MeasureStays
  <2> QED
    BY <2>1, <1>2
<1>5. /\ mode' = m /\ seg' = "substep" /\ pc' = 1 /\ dropped' = dropped /\ failures' = failures
  BY <1>2 DEF MeasureSpeed, textures
<1>6. ~Incomplete(m)
  BY <1>2 DEF OwnInv, Where, Running, Parts
<1>7. Working' /\ Own' /\ Holds(m, w)'
  BY <1>4, <1>5, WorkingThen
<1>8. Covers(w, EntryOf(m, "substep")) /\ "substep" \in Parts
  BY <1>2, CoversAll DEF EntryOf, Parts
<1>9. OnTrack'
  BY <1>3, <1>5, <1>6, <1>7, <1>8, Enters
<1>10. Where' /\ CleaningUp' /\ Resting'
  BY <1>3, <1>5, <1>6 DEF OwnInv, Where, CleaningUp, Resting, Parts
<1> QED
  BY <1>7, <1>9, <1>10 DEF OwnInv

LEMMA FailInPart ==
    ASSUME OwnInv, seg \in Parts, Fail
    PROVE  OwnInv'
<1>1. PICK f, k : /\ mode \in Modes /\ k \in 1..Len(Program[mode][seg]) /\ pc = k
                  /\ Knows(mode, seg, f) /\ Stays(mode, f[k - 1])
                  /\ Goes(mode, FALSE, Current, f[k - 1], f[k])
  BY InPart
<1>2. PICK m, u, v, i : mode = m /\ u = f[k - 1] /\ v = f[k] /\ i = Current
  OBVIOUS
<1>3. m \in Modes /\ Stays(m, u) /\ Goes(m, FALSE, i, u, v)
  BY <1>1, <1>2
<1>4. i.op \in {"acquire", "check", "target", "record", "run", "measure", "flush", "submit"}
  BY <1>2 DEF Fail, MayFail
<1>5. Tidy(m, i, u)
  BY <1>3 DEF Goes, Tidy
<1>6. ~u.kept
  BY <1>3, <1>4, GoesBy DEF Gains, Targets, Dispatches, Submits, Looks
<1>7. store = EmptyBinding
  BY <1>3, <1>6 DEF Stays, Holds
<1>8. /\ Own'
      /\ InPool(free)' = InPool(free) \union TexturesOf(i.free)
                           \union IF i.op = "submit" THEN Range(retired) ELSE {}
  BY <1>2, <1>5, FailOwns DEF Tidy, OwnInv
<1>9. /\ mode' = m /\ seg' = "cleanup" /\ pc' = 1 /\ failures' = failures + 1 /\ store' = store
      /\ flushed' = IF i.op = "submit" THEN {}
                    ELSE IF i.op = "flush" THEN flushed \union recorded ELSE flushed
  BY <1>2 DEF Fail
<1>10. m.pressure # "mgpcg" => flushed' \intersect InPool(free)' = {}
  <2> SUFFICES ASSUME m.pressure # "mgpcg" PROVE flushed' \intersect InPool(free)' = {}
    OBVIOUS
  <2>1. flushed \intersect InPool(free) = {} /\ recorded \intersect InPool(free) = {}
    BY <1>3 DEF Stays
  <2>2. i.free = {} \/ (~u.flown /\ i.op # "flush")
    BY <1>5 DEF Tidy
  <2>3. CASE i.op = "submit"
    BY <1>9, <2>3
  <2>4. CASE i.op # "submit" /\ i.free = {}
    <3>1. TexturesOf({}) = {}
      BY DEF TexturesOf, In
    <3>2. InPool(free)' = InPool(free)
      BY <1>8, <2>4, <3>1
    <3> QED
      BY <1>9, <2>1, <2>4, <3>2
  <2>5. CASE i.op \notin {"submit", "flush"} /\ ~u.flown
    <3>1. flushed = {}
      BY <1>3, <2>5 DEF Stays, Holds
    <3> QED
      BY <1>9, <2>5, <3>1
  <2> QED
    BY <2>2, <2>3, <2>4, <2>5
<1>11. Working'
  BY <1>9, <1>10 DEF Working
<1>12. Where'
  <2>1. failures' \in Nat /\ failures' # 0 /\ mode' \in Modes
    BY <1>3, <1>9 DEF OwnInv, Where
  <2>2. ~Incomplete(m)
    BY <1>2 DEF OwnInv, Where, Running, Parts
  <2> QED
    BY <1>9, <2>1, <2>2 DEF Where
<1>13. CleaningUp'
  BY <1>7, <1>9 DEF CleaningUp
<1>14. OnTrack' /\ Resting'
  BY <1>9 DEF OnTrack, Resting, Parts
<1> QED
  BY <1>8, <1>11, <1>12, <1>13, <1>14 DEF OwnInv

\* The operations that clean up are not among a part's.
LEMMA NoCleanup ==
    ASSUME OwnInv, seg \in Parts
    PROVE  ~(RetireLocals \/ Wait \/ Discard)
<1>1. PICK f, k : Goes(mode, FALSE, Current, f[k - 1], f[k])
  BY InPart
<1> QED
  BY <1>1, GoesBy DEF RetireLocals, Wait, Discard, Doing

\* After a failure, the operations come one by one.
LEMMA InCleanup ==
    ASSUME OwnInv, seg = "cleanup"
    PROVE  /\ pc \in 1..7 /\ Current = Cleanup(mode)[pc]
           /\ Continue => /\ mode' = mode /\ failures' = failures
                          /\ IF pc < 7 THEN pc' = pc + 1 /\ seg' = "cleanup"
                                       ELSE pc' = 1 /\ seg' = "idle"
<1>1. pc \in 1..7 /\ mode \in Modes
  BY DEF OwnInv, Where, CleaningUp
<1>2. Program[mode][seg] = Cleanup(mode) /\ Current = Cleanup(mode)[pc] /\ Len(Cleanup(mode)) = 7
  BY <1>1, CleanupIs DEF Program, Current
<1>3. Advance => IF pc < 7 THEN pc' = pc + 1 /\ seg' = "cleanup" ELSE pc' = 1 /\ seg' = "idle"
  BY <1>2 DEF Advance, After
<1> QED
  BY <1>1, <1>2, <1>3 DEF Continue

LEMMA CleanupOps ==
    ASSUME OwnInv, seg = "cleanup"
    PROVE  /\ Current.op = (CASE pc = 1 -> "retire_locals" [] pc = 2 -> "wait"
                              [] pc = 3 -> "discard" [] OTHER -> "release")
           /\ pc = 1 => Current.names = Owned(mode)
           /\ pc = 4 => Current.names = {"mask"}
           /\ pc = 5 => Current.names = OutputNames
           /\ pc = 6 => Current.names = InputNames
           /\ pc = 7 => Current.names = StateNames(mode)
           /\ pc > 3 => Current.names \intersect Slots = {}
<1>1. pc \in 1..7 /\ Current = Cleanup(mode)[pc]
  BY InCleanup
<1>2. {"mask"} \intersect Slots = {} /\ OutputNames \intersect Slots = {} /\ InputNames \intersect Slots = {}
      /\ StateNames(mode) \intersect Slots = {}
  BY Apart DEF Fields
<1>3. \/ pc = 1 \/ pc = 2 \/ pc = 3 \/ pc = 4 \/ pc = 5 \/ pc = 6 \/ pc = 7
  BY <1>1
<1>4. /\ pc = 1 => Current.op = "retire_locals" /\ Current.names = Owned(mode)
      /\ pc = 2 => Current.op = "wait"
      /\ pc = 3 => Current.op = "discard"
      /\ pc \in 4..7 => Current.op = "release"
  BY <1>1, CleanupIs
<1>5. /\ pc = 4 => Current.names = {"mask"}
      /\ pc = 5 => Current.names = OutputNames
      /\ pc = 6 => Current.names = InputNames
      /\ pc = 7 => Current.names = StateNames(mode)
  BY <1>1, CleanupIs
<1> QED
  BY <1>2, <1>3, <1>4, <1>5

\* What a step of the cleanup leaves alone.
LEMMA CleanupWhere ==
    ASSUME OwnInv, seg = "cleanup", Continue
    PROVE  Where' /\ OnTrack'
<1>1. mode' = mode /\ failures' = failures /\ seg' \in {"cleanup", "idle"}
  BY InCleanup
<1>2. mode \in Modes /\ failures \in Nat /\ failures # 0 /\ ~Incomplete(mode)
  BY DEF OwnInv, Where, Running
<1> QED
  BY <1>1, <1>2 DEF Where, OnTrack, Parts

LEMMA RetireLocalsStep ==
    ASSUME OwnInv, seg = "cleanup", RetireLocals
    PROVE  OwnInv'
<1>1. pc = 1 /\ Current.names = Owned(mode) /\ Continue
  BY InCleanup, CleanupOps DEF RetireLocals, Doing
<1>2. pc' = 2 /\ seg' = "cleanup" /\ mode' = mode /\ Where' /\ OnTrack'
  BY <1>1, InCleanup, CleanupWhere
<1>3. Own' /\ DOMAIN bound' \subseteq Owned(mode) \ Slots
  BY <1>1, RetireLocalsOwns DEF OwnInv
<1>4. store' = store /\ flushed' = flushed /\ free' = free
  BY DEF RetireLocals, batch
<1>5. CleaningUp'
  BY <1>2, <1>3, <1>4 DEF OwnInv, CleaningUp
<1>6. Working' /\ Resting'
  BY <1>2, <1>4 DEF OwnInv, Working, Resting
<1> QED
  BY <1>2, <1>3, <1>5, <1>6 DEF OwnInv

LEMMA WaitStep ==
    ASSUME OwnInv, seg = "cleanup", Wait
    PROVE  OwnInv'
<1>1. pc = 2 /\ Continue
  BY InCleanup, CleanupOps DEF Wait, Doing
<1>2. pc' = 3 /\ seg' = "cleanup" /\ mode' = mode /\ Where' /\ OnTrack'
  BY <1>1, InCleanup, CleanupWhere
<1>3. /\ bound' = bound /\ free' = free /\ retired' = retired /\ content' = content
      /\ store' = store /\ made' = made /\ dropped' = dropped /\ flushed' = {}
  BY DEF Wait, textures
<1>4. Own'
  BY <1>3 DEF OwnInv, Own
<1>5. CleaningUp'
  BY <1>1, <1>2, <1>3 DEF OwnInv, CleaningUp
<1>6. Working' /\ Resting'
  BY <1>2, <1>3 DEF OwnInv, Working, Resting
<1> QED
  BY <1>2, <1>4, <1>5, <1>6 DEF OwnInv

LEMMA DiscardStep ==
    ASSUME OwnInv, seg = "cleanup", Discard
    PROVE  OwnInv'
<1>1. pc = 3 /\ Continue
  BY InCleanup, CleanupOps DEF Discard, Doing
<1>2. pc' = 4 /\ seg' = "cleanup" /\ mode' = mode /\ Where' /\ OnTrack'
  BY <1>1, InCleanup, CleanupWhere
<1>3. bound' = bound /\ store' = store /\ flushed' = flushed /\ recorded' = {} /\ retired' = <<>>
  BY DEF Discard
<1>4. Own'
  BY DiscardOwns DEF OwnInv
<1>5. CleaningUp' /\ flushed' = {}
  BY <1>1, <1>2, <1>3 DEF OwnInv, CleaningUp
<1>6. Working' /\ Resting'
  BY <1>2, <1>5 DEF Working, Resting
<1> QED
  BY <1>2, <1>4, <1>5, <1>6 DEF OwnInv

LEMMA ReleaseStep ==
    ASSUME OwnInv, seg = "cleanup", ReleaseFields
    PROVE  OwnInv'
<1>1. pc \in 4..7 /\ Continue /\ Current.names \intersect Slots = {}
  BY InCleanup, CleanupOps DEF ReleaseFields, Doing
<1>2. mode' = mode /\ Where' /\ OnTrack'
  BY <1>1, InCleanup, CleanupWhere
<1>3. PICK names : names = Current.names
  OBVIOUS
<1>4. /\ free' = Returned(Listed(TexturesOf(names))) /\ bound' = Without(names)
      /\ content' = content /\ retired' = retired /\ made' = made /\ store' = store
      /\ dropped' = dropped /\ flushed' = flushed /\ recorded' = recorded
  BY <1>3 DEF ReleaseFields, batch
<1>5. Own' /\ DOMAIN bound' = DOMAIN bound \ names
  BY <1>1, <1>3, <1>4, Releasing DEF OwnInv
<1>6. /\ flushed = {} /\ recorded = {} /\ retired = <<>> /\ store = EmptyBinding
      /\ DOMAIN bound \subseteq Owned(mode) \ Slots
      /\ pc > 4 => "mask" \notin DOMAIN bound
      /\ pc > 5 => DOMAIN bound \intersect OutputNames = {}
      /\ pc > 6 => DOMAIN bound \intersect InputNames = {}
  BY <1>1 DEF OwnInv, CleaningUp
<1>7. /\ pc = 4 => names = {"mask"}
      /\ pc = 5 => names = OutputNames
      /\ pc = 6 => names = InputNames
      /\ pc = 7 => names = StateNames(mode)
  BY <1>3, CleanupOps
<1>8. Working'
  BY <1>4, <1>6 DEF Working
<1>9. CASE pc < 7
  <2>1. pc' = pc + 1 /\ seg' = "cleanup"
    BY <1>1, <1>9, InCleanup
  <2>2. \/ pc = 4 \/ pc = 5 \/ pc = 6
    BY <1>1, <1>9
  <2>3. CleaningUp'
    BY <1>2, <1>4, <1>5, <1>6, <1>7, <2>1, <2>2 DEF CleaningUp
  <2> QED
    BY <1>2, <1>5, <1>8, <2>1, <2>3 DEF OwnInv, Resting
<1>10. CASE pc = 7
  <2>1. seg' = "idle"
    BY <1>1, <1>10, InCleanup
  <2>2. DOMAIN bound' = {}
    BY <1>5, <1>6, <1>7, <1>10 DEF Owned
  <2> DEFINE b2 == bound'
             c2 == content'
  <2>3. GoodNames(b2, c2) /\ DOMAIN b2 = {}
    BY <1>5, <2>2 DEF Own
  <2> HIDE DEF b2, c2
  <2>4. b2 = EmptyBinding
    BY <2>3, IsEmpty
  <2>5. Resting'
    BY <1>4, <1>6, <2>4 DEF Resting, b2
  <2> QED
    BY <1>2, <1>5, <1>8, <2>1, <2>5 DEF OwnInv, CleaningUp
<1> QED
  BY <1>1, <1>9, <1>10

\* No other operation is among the cleanup's, and none of its own can fail.
LEMMA OnlyCleanup ==
    ASSUME OwnInv, seg = "cleanup"
    PROVE  ~(\/ AcquireField \/ TakeInput \/ NewSlots \/ Record \/ RunOne \/ FlushBatch
             \/ SubmitBatch \/ RetireFields \/ ReplaceField \/ Checked \/ Put
             \/ MeasureSpeed \/ Fail)
<1>1. Current.op \in {"retire_locals", "wait", "discard", "release"}
  BY CleanupOps
<1> QED
  BY <1>1 DEF AcquireField, TakeInput, NewSlots, Record, RunOne, FlushBatch, SubmitBatch,
              RetireFields,
              ReplaceField, Checked, Put, MeasureSpeed, Fail, MayFail, Doing

-----------------------------------------------------------------------------
(* Between two frames *)

LEMMA StartZeroedStep ==
    ASSUME OwnInv, NEW m \in Modes, StartZeroed(m)
    PROVE  OwnInv'
<1>1. /\ seg = "idle" /\ ~Incomplete(m) /\ mode' = m /\ pc' = 1 /\ seg' = "zeroed" /\ store = EmptyBinding
      /\ bound' = bound /\ free' = free /\ retired' = retired /\ content' = content
      /\ store' = store /\ made' = made /\ dropped' = dropped
      /\ recorded' = recorded /\ flushed' = flushed /\ failures' = failures
  BY DEF StartZeroed, Begin, Running, textures, batch
<1>2. bound = EmptyBinding /\ retired = <<>> /\ recorded = {} /\ flushed = {}
  BY <1>1 DEF OwnInv, Resting
<1>3. Own'
  BY <1>1 DEF OwnInv, Own
<1>4. PICK v : v = EntryOf(m, "zeroed")
  OBVIOUS
<1>5. v = View({}, {}, {}, FALSE, FALSE, FALSE) /\ Covers(v, EntryOf(m, "zeroed"))
  BY <1>4, CoversAll DEF EntryOf
<1>6. Holds(m, v)'
  BY <1>1, <1>2, <1>5, NoNames DEF Holds, View, Forgets
<1>7. OnTrack'
  BY <1>1, <1>5, <1>6, Enters DEF Parts
<1>8. Where'
  BY <1>1 DEF OwnInv, Where, Parts
<1>9. CleaningUp' /\ Resting' /\ Working'
  BY <1>1, <1>2 DEF CleaningUp, Resting, Working
<1> QED
  BY <1>3, <1>7, <1>8, <1>9 DEF OwnInv

LEMMA TakeStateStep ==
    ASSUME OwnInv, NEW m \in Modes, TakeState(m)
    PROVE  OwnInv'
<1>1. /\ seg = "idle" /\ ~Incomplete(m) /\ mode' = m /\ pc' = 1 /\ seg' = "enter"
      /\ DOMAIN store = StateNames(m) /\ bound' = store /\ store' = EmptyBinding
      /\ retired' = retired /\ content' = content /\ dropped' = dropped
      /\ recorded' = recorded /\ flushed' = flushed /\ failures' = failures
  BY DEF TakeState, Begin, Running, batch
<1>2. bound = EmptyBinding /\ retired = <<>> /\ recorded = {} /\ flushed = {}
  BY <1>1 DEF OwnInv, Resting
<1>3. Own'
  BY <1>2, TakeStateOwns DEF OwnInv
<1>4. PICK v : v = EntryOf(m, "enter")
  OBVIOUS
<1>5. /\ v = View(StateNames(m), StateNames(m), {}, FALSE, FALSE, FALSE)
      /\ Covers(v, EntryOf(m, "enter"))
  BY <1>4, CoversAll DEF EntryOf
<1>6. store # EmptyBinding
  BY <1>1, NoNames DEF StateNames
<1>7. \A n \in DOMAIN store : content[store[n]] # "none"
  BY <1>1, <1>6 DEF OwnInv, Resting, Keeps
<1>8. DOMAIN bound' \intersect Slots = {}
  BY <1>1 DEF OwnInv, Own
<1>9. Holds(m, v)'
  <2>1. /\ v.scope = StateNames(m) /\ v.written = StateNames(m) /\ v.done = {}
        /\ v.kept = FALSE
    BY <1>5 DEF View
  <2>2. Forgets(DOMAIN bound', v.scope)
    BY <1>1, <2>1 DEF Forgets
  <2>3. \A n \in v.written : n \in DOMAIN bound' /\ content'[bound'[n]] # "none"
    BY <1>1, <1>7, <2>1
  <2> QED
    BY <1>1, <1>2, <1>8, <2>1, <2>2, <2>3 DEF Holds
<1>10. OnTrack'
  BY <1>1, <1>5, <1>9, Enters DEF Parts
<1>11. Where'
  BY <1>1 DEF OwnInv, Where, Parts
<1>12. CleaningUp' /\ Resting' /\ Working'
  BY <1>1, <1>2 DEF CleaningUp, Resting, Working
<1> QED
  BY <1>3, <1>10, <1>11, <1>12 DEF OwnInv

LEMMA StateShapeStep ==
    ASSUME OwnInv, NEW m \in Modes, StateShape(m)
    PROVE  OwnInv'
<1>1. /\ seg = "idle" /\ mode' = m /\ seg' = seg /\ bound' = bound /\ store' = EmptyBinding
      /\ retired' = retired /\ dropped' = dropped
      /\ recorded' = recorded /\ flushed' = flushed /\ failures' = failures
  BY DEF StateShape, Begin, Running, batch
<1>2. bound = EmptyBinding /\ retired = <<>> /\ recorded = {} /\ flushed = {}
  BY <1>1 DEF OwnInv, Resting
<1>3. Own'
  BY StateShapeOwns DEF OwnInv
<1>4. Where'
  BY <1>1 DEF OwnInv, Where, Running
<1>5. CleaningUp' /\ Resting' /\ Working' /\ OnTrack'
  BY <1>1, <1>2 DEF CleaningUp, Resting, Working, OnTrack, Parts
<1> QED
  BY <1>3, <1>4, <1>5 DEF OwnInv

LEMMA RefuseStep ==
    ASSUME OwnInv, NEW m \in Modes, Refuse(m)
    PROVE  OwnInv'
<1>1. /\ seg = "idle" /\ mode' = mode /\ seg' = seg /\ pc' = pc
      /\ bound' = bound /\ free' = free /\ retired' = retired /\ content' = content
      /\ store' = store /\ made' = made /\ dropped' = dropped
      /\ recorded' = recorded /\ flushed' = flushed /\ failures' = failures
  BY DEF Refuse, Running, textures, batch
<1>2. Own' /\ Where'
  BY <1>1 DEF OwnInv, Own, Where, Running
<1>3. CleaningUp' /\ Resting' /\ Working' /\ OnTrack'
  BY <1>1 DEF OwnInv, CleaningUp, Resting, Keeps, Working, OnTrack, Parts
<1> QED
  BY <1>2, <1>3 DEF OwnInv

LEMMA StutterStep ==
    ASSUME OwnInv, UNCHANGED vars
    PROVE  OwnInv'
<1>1. /\ mode' = mode /\ seg' = seg /\ pc' = pc
      /\ bound' = bound /\ free' = free /\ retired' = retired /\ content' = content
      /\ store' = store /\ made' = made /\ dropped' = dropped
      /\ recorded' = recorded /\ flushed' = flushed /\ failures' = failures
  BY DEF vars
<1>2. Own' /\ Where'
  BY <1>1 DEF OwnInv, Own, Where, Running
<1>3. CleaningUp' /\ Resting' /\ Working'
  BY <1>1 DEF OwnInv, CleaningUp, Resting, Keeps, Working
<1>4. CASE seg \notin Parts
  BY <1>1, <1>2, <1>3, <1>4 DEF OwnInv, OnTrack
<1>5. CASE seg \in Parts
  <2>1. PICK f, k : /\ mode \in Modes /\ k \in 1..Len(Program[mode][seg]) /\ pc = k
                    /\ Knows(mode, seg, f) /\ Stays(mode, f[k - 1])
    BY <1>5, InPart
  <2>2. PICK m, s, v : mode = m /\ seg = s /\ v = f[k - 1]
    OBVIOUS
  <2>3. Holds(m, v)
    BY <2>1, <2>2 DEF Stays
  <2>4. Holds(m, v)'
    BY <1>1, <2>3 DEF Holds, Keeps
  <2>5. Holds(m, f[k - 1])'
    BY <2>2, <2>4
  <2>6. OnTrack'
    BY <1>1, <1>5, <2>1, <2>2, <2>5, OnTrackThen
  <2> QED
    BY <1>2, <1>3, <2>6 DEF OwnInv
<1> QED
  BY <1>4, <1>5

LEMMA OwnFromStart ==
    ASSUME Init
    PROVE  OwnInv
<1>1. mode \in Modes
  BY SolverAssumption DEF Init
<1>2. /\ seg = "idle" /\ bound = EmptyBinding /\ store = EmptyBinding /\ retired = <<>>
      /\ recorded = {} /\ flushed = {} /\ dropped = {} /\ failures = 0
      /\ free = [s \in PoolShapes |-> <<>>] /\ made = [s \in PoolShapes |-> 0]
  BY DEF Init
<1>3. OneEach(<<>>) /\ Range(<<>>) = {}
  BY DEF OneEach, Range
<1>4. GoodPool(free) /\ InPool(free) = {}
  <2>1. \A s \in PoolShapes : free[s] = <<>>
    BY <1>2
  <2>2. InPool(free) = {}
    BY <1>3, <2>1 DEF InPool
  <2>3. \A s \in PoolShapes : Len(free[s]) = 0
    BY <2>1
  <2> QED
    BY <1>2, <1>3, <2>1, <2>2, <2>3 DEF GoodPool
<1>5. made \in [PoolShapes -> Nat] /\ MadeOf(made) = {}
  BY <1>2 DEF MadeOf
<1>6. Own
  <2>1. Parted(InPool(free), Range(retired), HeldBy(bound), HeldBy(store), dropped, MadeOf(made))
    BY <1>2, <1>3, <1>4, <1>5, NoNames DEF Parted
  <2> QED
    BY <1>2, <1>3, <1>4, <1>5, <2>1, NoNames DEF Own
<1>7. Where /\ OnTrack /\ CleaningUp /\ Resting /\ Working
  BY <1>1, <1>2 DEF Where, OnTrack, CleaningUp, Resting, Working, Parts, Running
<1> QED
  BY <1>6, <1>7 DEF OwnInv

LEMMA OwnNext ==
    ASSUME OwnInv, [Next]_vars
    PROVE  OwnInv'
<1>1. CASE \E m \in Modes : Refuse(m) \/ StartZeroed(m) \/ TakeState(m) \/ StateShape(m)
  BY <1>1, RefuseStep, StartZeroedStep, TakeStateStep, StateShapeStep
<1>2. CASE \/ AcquireField \/ TakeInput \/ NewSlots \/ Record \/ RunOne \/ FlushBatch
           \/ SubmitBatch \/ RetireFields \/ ReplaceField \/ ReleaseFields \/ Checked \/ Put
           \/ MeasureSpeed \/ RetireLocals \/ Wait \/ Discard \/ Fail
  <2>1. Running
    BY <1>2 DEF AcquireField, TakeInput, NewSlots, Record, RunOne, FlushBatch, SubmitBatch,
                RetireFields,
                ReplaceField, ReleaseFields, Checked, Put, MeasureSpeed, RetireLocals, Wait, Discard,
                Fail, Doing
  <2>2. seg \in Parts \/ seg = "cleanup"
    BY <2>1 DEF OwnInv, Where, Running
  <2>3. CASE seg \in Parts
    BY <1>2, <2>3, InPartStep, MeasureInPart, FailInPart, NoCleanup
  <2>4. CASE seg = "cleanup"
    BY <1>2, <2>4, OnlyCleanup, RetireLocalsStep, WaitStep, DiscardStep, ReleaseStep
  <2> QED
    BY <2>2, <2>3, <2>4
<1>3. CASE UNCHANGED vars
  BY <1>3, StutterStep
<1> QED
  BY <1>1, <1>2, <1>3 DEF Next

LEMMA ReadsOfInv == OwnInv => ReadsAreWritten
<1> SUFFICES ASSUME OwnInv, Running, Current.op \in {"record", "run", "measure"},
                    NEW n \in Current.reads
             PROVE  n \in DOMAIN bound /\ content[bound[n]] # "none"
  BY DEF ReadsAreWritten
<1>1. seg \in Parts
  <2>1. seg # "cleanup"
    BY InCleanup, CleanupOps
  <2> QED
    BY <2>1 DEF OwnInv, Where, Running
<1>2. PICK f, k : Stays(mode, f[k - 1]) /\ Goes(mode, FALSE, Current, f[k - 1], f[k])
  BY <1>1, InPart
<1>3. Current.reads \subseteq f[k - 1].written
  BY <1>2, GoesBy DEF Dispatches, Looks
<1> QED
  BY <1>2, <1>3 DEF Stays, Holds

LEMMA WorkOfInv == OwnInv => WorkKeepsItsFields
<1> SUFFICES ASSUME OwnInv PROVE WorkKeepsItsFields
  OBVIOUS
<1>1. Pooled = InPool(free)
  BY DEF Pooled, InPool
<1>2. Current.op \in {"flush", "submit"} => seg # "cleanup"
  BY InCleanup, CleanupOps
<1> QED
  BY <1>1, <1>2 DEF WorkKeepsItsFields, OwnInv, Working

LEMMA SlotsOfInv == OwnInv => SlotsHoldAFinishedStep
<1> SUFFICES ASSUME OwnInv, store # EmptyBinding PROVE SlotsHoldAFinishedStep
  BY DEF SlotsHoldAFinishedStep
<1>1. seg # "cleanup"
  BY DEF OwnInv, CleaningUp
<1>2. Keeps(mode)
  <2>1. CASE seg \in Parts
    BY <2>1, InPart DEF Stays, Holds
  <2>2. CASE seg = "idle"
    BY <2>2 DEF OwnInv, Resting
  <2> QED
    BY <1>1, <2>1, <2>2 DEF OwnInv, Where
<1>3. ASSUME NEW n \in Velocity PROVE content[store[n]] = "subtract_gradient"
  <2>1. n \in Tracked(mode)
    BY DEF Tracked, StateNames
  <2> QED
    BY <1>2, <2>1 DEF Keeps, LastKernel
<1>4. ASSUME NEW n \in {"density", "temperature", "fuel", "react"} \intersect DOMAIN store
      PROVE  content[store[n]] = ScalarKernel(mode)
  <2>1. n \in Tracked(mode) /\ n \in Scalars
    BY <1>2 DEF Keeps, Tracked, Scalars
  <2>2. n \notin Velocity
    BY Sequences_
  <2> QED
    BY <1>2, <2>1, <2>2 DEF Keeps, LastKernel
<1>5. DOMAIN store = StateNames(mode)
  BY <1>2 DEF Keeps
<1> QED
  BY <1>3, <1>4, <1>5 DEF SlotsHoldAFinishedStep, ScalarKernel

LEMMA AsMany ==
    ASSUME NEW S, NEW T, IsFiniteSet(T), NEW f, T = {f[n] : n \in S},
           \A n, k \in S : f[n] = f[k] => n = k
    PROVE  Cardinality(S) = Cardinality(T)
<1> DEFINE g == [t \in T |-> CHOOSE n \in S : f[n] = t]
<1>1. \A t \in T : g[t] \in S /\ f[g[t]] = t
  OBVIOUS
<1>2. \A n \in S : f[n] \in T /\ g[f[n]] = n
  BY <1>1
<1>3. g \in [T -> S] /\ DOMAIN g = T
  BY <1>1
<1> HIDE DEF g
<1>4. g \in Bijection(T, S)
  <2>1. IsInjective(g)
    BY <1>1, <1>3 DEF IsInjective
  <2>2. \A n \in S : \E t \in T : g[t] = n
    BY <1>2
  <2> QED
    BY <1>3, <2>1, <2>2 DEF Bijection, Injection, Surjection
<1>5. ExistsBijection(T, S)
  BY <1>4 DEF ExistsBijection
<1> QED
  BY <1>5, FS_Bijection

\* Disjoint sets add up.
LEMMA AddUp ==
    ASSUME NEW S, NEW T, IsFiniteSet(S), IsFiniteSet(T), S \intersect T = {}
    PROVE  IsFiniteSet(S \union T) /\ Cardinality(S \union T) = Cardinality(S) + Cardinality(T)
<1>1. Cardinality(S \intersect T) = 0
  BY FS_EmptySet
<1> DEFINE a == Cardinality(S)
           b == Cardinality(T)
           c == Cardinality(S \union T)
           d == Cardinality(S \intersect T)
<1>2. a \in Nat /\ b \in Nat
  BY FS_CardinalityType
<1>3. IsFiniteSet(S \union T) /\ c = a + b - d /\ d = 0
  BY <1>1, FS_Union
<1> HIDE DEF a, b, c, d
<1>4. c = a + b
  BY <1>2, <1>3
<1> QED
  BY <1>3, <1>4 DEF a, b, c

LEMMA PlacesOfInv == OwnInv => EveryTextureHasItsPlace
<1> SUFFICES ASSUME OwnInv PROVE EveryTextureHasItsPlace
  OBVIOUS
<1> DEFINE P == InPool(free)
           R == Range(retired)
           H == HeldBy(bound)
           K == HeldBy(store)
           M == MadeOf(made)
<1>1. Own
  BY DEF OwnInv
<1>2. Pooled = P /\ Bound = H /\ Existing = M
  BY DEF Pooled, InPool, Bound, HeldBy, Existing, MadeOf
<1>3. Range(store) = K
  BY <1>1 DEF Range, HeldBy, Own
<1>4. Parted(P, R, H, K, dropped, M)
  BY <1>1 DEF Own
<1>5. IsFiniteSet(P) /\ IsFiniteSet(R) /\ IsFiniteSet(H) /\ IsFiniteSet(K) /\ IsFiniteSet(dropped)
  BY <1>1, PartsAreMade, OwnIsFinite
<1>6. Len(retired) = Cardinality(R)
  <2> DEFINE n == Len(retired)
  <2>1. n \in Nat /\ DOMAIN retired = 1..n /\ \A i, j \in 1..n : retired[i] = retired[j] => i = j
    BY <1>1 DEF Own, OneEach
  <2>2. R = {retired[i] : i \in 1..n}
    BY <2>1 DEF Range
  <2> HIDE DEF n, R
  <2>3. Cardinality(1..n) = Cardinality(R)
    BY <1>5, <2>1, <2>2, AsMany
  <2>4. 1 \in Int /\ n \in Int
    BY <2>1
  <2>5. Cardinality(1..n) = n
    <3>1. Cardinality(1..n) = IF 1 > n THEN 0 ELSE n - 1 + 1
      BY <2>4, FS_Interval
    <3> QED
      BY <2>1, <3>1
  <2> QED
    BY <2>3, <2>5 DEF n
<1>7. Cardinality(DOMAIN bound \ Slots) = Cardinality(H)
  <2> DEFINE S == DOMAIN bound \ Slots
  <2>1. H = {bound[n] : n \in S} /\ \A n, k \in S : bound[n] = bound[k] => n = k
    BY <1>1 DEF HeldBy, Own, GoodNames
  <2> HIDE DEF S, H
  <2>2. Cardinality(S) = Cardinality(H)
    BY <1>5, <2>1, AsMany
  <2> QED
    BY <2>2 DEF S
<1>8. Cardinality(DOMAIN store) = Cardinality(K)
  <2> DEFINE S == DOMAIN store
  <2>1. K = {store[n] : n \in S} /\ \A n, k \in S : store[n] = store[k] => n = k
    BY <1>1 DEF HeldBy, Own, GoodNames
  <2> HIDE DEF S, K
  <2>2. Cardinality(S) = Cardinality(K)
    BY <1>5, <2>1, AsMany
  <2> QED
    BY <2>2 DEF S
<1> HIDE DEF P, R, H, K, M
<1>9. Cardinality(M) = Cardinality(P) + Cardinality(R) + Cardinality(H) + Cardinality(K)
                         + Cardinality(dropped)
  <2>1. /\ IsFiniteSet(P \union R) /\ Cardinality(P \union R) = Cardinality(P) + Cardinality(R)
    BY <1>4, <1>5, AddUp DEF Parted
  <2>2. (P \union R) \intersect H = {} /\ ((P \union R) \union H) \intersect K = {}
        /\ (((P \union R) \union H) \union K) \intersect dropped = {}
    BY <1>4 DEF Parted
  <2>3. /\ IsFiniteSet((P \union R) \union H)
        /\ Cardinality((P \union R) \union H) = Cardinality(P \union R) + Cardinality(H)
    BY <1>5, <2>1, <2>2, AddUp
  <2>4. /\ IsFiniteSet(((P \union R) \union H) \union K)
        /\ Cardinality(((P \union R) \union H) \union K) = Cardinality((P \union R) \union H) + Cardinality(K)
    BY <1>5, <2>2, <2>3, AddUp
  <2>5. Cardinality((((P \union R) \union H) \union K) \union dropped)
          = Cardinality(((P \union R) \union H) \union K) + Cardinality(dropped)
    BY <1>5, <2>2, <2>4, AddUp
  <2>6. (((P \union R) \union H) \union K) \union dropped = M
    BY <1>4 DEF Parted
  <2> QED
    BY <2>1, <2>3, <2>4, <2>5, <2>6
<1>10. failures = 0 => dropped = {}
  BY DEF OwnInv, Where
<1>11. ~Running => /\ bound = EmptyBinding /\ retired = <<>>
                   /\ recorded = {} /\ flushed = {}
  BY DEF OwnInv, Resting, Running
<1>12. P \union R \union H \union K \union dropped = M
  BY <1>4 DEF Parted
<1>13. R = Range(retired)
  BY DEF R
<1> DEFINE count == Cardinality(Pooled) + Len(retired) + Cardinality(DOMAIN bound \ Slots)
                      + Cardinality(DOMAIN store) + Cardinality(dropped)
<1>14. count = Cardinality(Existing)
  BY <1>2, <1>6, <1>7, <1>8, <1>9
<1>15. Pooled \union Range(retired) \union Bound \union Range(store) \union dropped = Existing
  BY <1>2, <1>3, <1>12, <1>13
<1> HIDE DEF count
<1> QED
  BY <1>10, <1>11, <1>14, <1>15 DEF EveryTextureHasItsPlace, count

-----------------------------------------------------------------------------
(***************************************************************************)
(* The theorems.                                                           *)
(***************************************************************************)
\* In every mode, wherever an operation fails: each texture made is in one
\* place, every name and slot is bound to one of its own, and the machine
\* knows as much of its fields as the program needs at the point it is at.
THEOREM OwnershipIsKept == Spec => []OwnInv
<1>1. Init => OwnInv
  BY OwnFromStart
<1>2. OwnInv /\ [Next]_vars => OwnInv'
  BY OwnNext
<1> QED
  BY <1>1, <1>2, PTL DEF Spec

\* No texture is lost or owned twice on any path through a frame, those of
\* failing operations and of states that changed shape included, and what a
\* step takes does not outlive it.  (FieldPool, retired, the error arms)
THEOREM TexturesHaveOnePlace == Spec => []EveryTextureHasItsPlace
<1>1. OwnInv => EveryTextureHasItsPlace
  BY PlacesOfInv
<1> QED
  BY <1>1, OwnershipIsKept, PTL

\* Whatever a mode leaves out, whatever the pool hands out again: no dispatch
\* reads what nobody has written since it was acquired.  (the kernels' reads)
THEOREM NothingUnwrittenIsRead == Spec => []ReadsAreWritten
<1>1. OwnInv => ReadsAreWritten
  BY ReadsOfInv
<1> QED
  BY <1>1, OwnershipIsKept, PTL

\* Work submitted, and, but for conjugate gradients, work flushed earlier and
\* still running, uses no texture that is back in the pool, however many
\* flushes a solve takes and wherever one fails.  (Batch::flush, abandon)
THEOREM WorkOwnsItsFields == Spec => []WorkKeepsItsFields
<1>1. OwnInv => WorkKeepsItsFields
  BY WorkOfInv
<1> QED
  BY <1>1, OwnershipIsKept, PTL

\* The slots between two frames hold a projected velocity and the scalars it
\* has carried, and nothing at all after a failure.  (put_state, eval)
THEOREM KeptStepsAreFinished == Spec => []SlotsHoldAFinishedStep
<1>1. OwnInv => SlotsHoldAFinishedStep
  BY SlotsOfInv
<1> QED
  BY <1>1, OwnershipIsKept, PTL
=============================================================================
