------------------------------ MODULE MCSolver ------------------------------
(***************************************************************************)
(* Modes that between them take every branch of the program: the three     *)
(* pressure solves, multigrid with and without a collider, fire with and   *)
(* without a surface, both advections, a closed and an open domain, and    *)
(* one set of sockets the node refuses.                                    *)
(***************************************************************************)
EXTENDS Solver

Mode(pressure, fire, surface, collider) ==
    [pressure |-> pressure, fire |-> fire, surface |-> surface, collider |-> collider,
     emission |-> surface, wind |-> collider, vorticity |-> fire, maccormack |-> fire,
     conserve |-> collider, closed |-> collider, iterations |-> 2, perSubmit |-> 1,
     sweeps |-> 1, cfl |-> IF fire THEN 1 ELSE 2,
     wanted |-> IF fire THEN 0..5 ELSE {0, 3, 4}]

MCModes ==
    {Mode("gauss_seidel", FALSE, FALSE, FALSE), Mode("gauss_seidel", TRUE, TRUE, TRUE),
     Mode("multigrid", TRUE, FALSE, FALSE), Mode("multigrid", FALSE, FALSE, TRUE),
     Mode("mgpcg", FALSE, FALSE, TRUE),
     Mode("gauss_seidel", FALSE, TRUE, FALSE)}
=============================================================================
