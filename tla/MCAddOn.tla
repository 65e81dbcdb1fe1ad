------------------------------ MODULE MCAddOn ------------------------------
(* The add-on over two resolutions. *)
EXTENDS AddOn

CONSTANTS small, large

MCResolutions == {small, large}
=============================================================================
