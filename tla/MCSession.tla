------------------------------ MODULE MCSession ------------------------------
(***************************************************************************)
(* A daemon small enough for TLC: documents of two resolutions, two of     *)
(* them sharing one, and one document that is refused; frames before the   *)
(* start frame, within the span, and past it.                              *)
(***************************************************************************)
EXTENDS Session

CONSTANTS gas, fire, tall, broken, small, large

MCDocs == {gas, fire, tall, broken}

MCDims == {small, large}

MCDimsOf ==
    [d \in MCDocs |-> CASE d = tall -> large [] d = broken -> NoDims [] OTHER -> small]

MCStateful == {gas, tall}

MCFrames == 0..3
=============================================================================
