---------------------------- MODULE MCGraphOrder ----------------------------
(***************************************************************************)
(* Every graph of three nodes with up to two inputs each, loops and double *)
(* edges included, and every output with or without one extra output.      *)
(***************************************************************************)
EXTENDS GraphOrder

UpTo(k) == UNION {[1..m -> Nodes] : m \in 0..k}

MCSourceLists == UpTo(2)

MCTargetLists == UpTo(2) \ {<<>>}
=============================================================================
