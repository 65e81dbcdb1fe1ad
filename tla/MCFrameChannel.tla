--------------------------- MODULE MCFrameChannel ---------------------------
(***************************************************************************)
(* A frame channel small enough for TLC: frames of two words, because a    *)
(* frame of one cannot be torn, and enough publishes for a reader to be    *)
(* lapped at each of its attempts and then to read again.                  *)
(***************************************************************************)
EXTENDS FrameChannel

MCReaders == {"r"}

MCWords == 1..2
=============================================================================
