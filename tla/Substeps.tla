------------------------------ MODULE Substeps ------------------------------
(***************************************************************************)
(* Into how many substeps a frame is cut: cfl.rs plan_substeps.            *)
(*                                                                         *)
(* Speeds are in cells per frame and the CFL number is in cells per        *)
(* substep, so that comparisons are exact; the code divides in f64.  A     *)
(* speed that is not finite gives no plan: the measurement then fails.     *)
(***************************************************************************)
EXTENDS Integers

CONSTANTS
    MaxCount,       \* u32::MAX, which the wanted substeps saturate to
    MaxSubsteps     \* params.max_substeps

ASSUME SubstepsAssumption ==
    MaxCount \in Nat /\ MaxSubsteps \in 1..(MaxCount - 1)

Ceiling(n, d) == (n + d - 1) \div d
Smaller(a, b) == IF a < b THEN a ELSE b
Larger(a, b) == IF a < b THEN b ELSE a

\* `as u32` saturates.
AsCount(n) == Smaller(n, MaxCount)

\* Faulty variant of PlanSubsteps: the quotient is truncated.
PlanTruncated(cells, per) ==
    LET wanted == Larger(AsCount(cells \div per), 1)
    IN  [count |-> Smaller(wanted, MaxSubsteps), clamped |-> wanted > MaxSubsteps]

PlanSubsteps(cells, per) ==
    LET wanted == Larger(AsCount(Ceiling(cells, per)), 1)
    IN  [count |-> Smaller(wanted, MaxSubsteps), clamped |-> wanted > MaxSubsteps]

NoPlan == [count |-> 0, clamped |-> FALSE]
=============================================================================
