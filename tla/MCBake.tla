------------------------------- MODULE MCBake -------------------------------
(***************************************************************************)
(* Two commands over one directory and two frames, with documents that     *)
(* have no outputs, a vector among their outputs, names that clash once    *)
(* expanded, a grid too large for a tree, and a fault.                     *)
(***************************************************************************)
EXTENDS Bake

MCRegistry ==
    [solver |-> [inputs |-> <<>>, outputs |-> <<"field", "vector">>],
     result |-> [inputs |-> <<"field">>, outputs |-> <<"field">>]]

Doc(outputs, dims) ==
    [wellFormed |-> TRUE, version |-> CurrentVersion, fpsPositive |-> TRUE,
     domainInRange |-> TRUE, dims |-> dims, output |-> 1,
     outputs |-> outputs,
     nodes |-> <<[id |-> 0, kind |-> "solver", paramsGood |-> TRUE],
                 [id |-> 1, kind |-> "result", paramsGood |-> TRUE]>>,
     edges |-> <<[from |-> Socket(0, 0), to |-> Socket(1, 0)]>>]

Velocity == [node |-> 0, socket |-> 1, name |-> <<"v">>]
Density == [node |-> 0, socket |-> 0, name |-> <<"d">>]
Clashing == [node |-> 0, socket |-> 0, name |-> <<"v", "x">>]

MCDocuments ==
    {Doc(<<>>, <<1, 1, 1>>), Doc(<<Density, Velocity>>, <<1, 1, 1>>),
     Doc(<<Velocity, Clashing>>, <<1, 1, 1>>),
     Doc(<<Density>>, <<3, 1, 1>>), Doc(<<>>, <<3, 1, 1>>),
     Doc(<<Density, Density>>, <<1, 1, 1>>)}
=============================================================================
