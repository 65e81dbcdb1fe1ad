--------------------------- MODULE MCChannelFile ---------------------------
(***************************************************************************)
(* Resolutions that grow, shrink, and change with the size kept.           *)
(***************************************************************************)
EXTENDS ChannelFile

MCDims == {<<1, 2>>, <<2, 1>>, <<1, 1>>}
=============================================================================
