---------------------------- MODULE MCGpuErrors ----------------------------
(***************************************************************************)
(* Two keys and two sources, so that a key can be asked for with another   *)
(* source, and two textures, so that one can fail while another is held.   *)
(***************************************************************************)
EXTENDS GpuErrors
=============================================================================
