------------------------------ MODULE Playback ------------------------------
(***************************************************************************)
(* What a timeline promises: whoever asks for a frame is answered with the *)
(* one value forward playback gives for it, or with an error.  How frames  *)
(* were reached before has no part in the answer.                          *)
(***************************************************************************)
CONSTANTS
    Requests,   \* what may be asked for
    Output,     \* the value forward playback gives for each request
    Nothing     \* no request pending, or no reply yet

VARIABLES
    request,    \* the request being worked on, or Nothing
    reply       \* the reply to the last request, or Nothing

vars == <<request, reply>>

Failure == [ok |-> FALSE, value |-> Nothing]

Success(r) == [ok |-> TRUE, value |-> Output[r]]

Init ==
    /\ request = Nothing
    /\ reply = Nothing

Ask(r) ==
    /\ request = Nothing
    /\ request' = r
    /\ reply' = Nothing

Deliver ==
    /\ request # Nothing
    /\ reply' = Success(request)
    /\ request' = Nothing

Refuse ==
    /\ request # Nothing
    /\ reply' = Failure
    /\ request' = Nothing

Next ==
    \/ \E r \in Requests : Ask(r)
    \/ Deliver
    \/ Refuse

Spec == Init /\ [][Next]_vars
=============================================================================
