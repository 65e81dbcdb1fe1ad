------------------------------ MODULE MCVdbTree ------------------------------
(***************************************************************************)
(* Leaves of 2 voxels, internal nodes of 4 and a root child of 8: every    *)
(* resolution up to 5 along each axis crosses both boundaries, some reach  *)
(* the edge of the root child and one passes it.                           *)
(***************************************************************************)
EXTENDS VdbTree

MCDims ==
    ({0, 1, 2, 3, 5} \X {1, 2, 5} \X {0, 1, 3, 5})
        \cup {<<8, 1, 2>>, <<1, 8, 1>>, <<2, 1, 8>>, <<9, 1, 1>>, <<1, 1, 9>>}
=============================================================================
