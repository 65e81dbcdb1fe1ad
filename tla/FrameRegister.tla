---------------------------- MODULE FrameRegister ----------------------------
(***************************************************************************)
(* What a frame channel promises its readers: an atomic register.  A read  *)
(* returns, whole, a frame that was the latest one at some moment between  *)
(* the call and the return; it may give up only if the writer published    *)
(* often enough meanwhile.  Frame k is the k-th publish, and k in each of  *)
(* its words; what is read before the first publish is left open.          *)
(***************************************************************************)
EXTENDS Naturals

CONSTANTS
    Readers,
    Words,      \* the places of one frame
    Values,     \* what a place can hold, frame numbers among it
    Attempts,   \* a read gives up after as many publishes
    Nothing     \* no read in progress, or no reply yet

VARIABLES
    latest,     \* the number of frames published
    asked,      \* for each reader, what was latest when it called, or Nothing
    reply       \* for each reader, what its last read returned, or Nothing

vars == <<latest, asked, reply>>

Whole(k) == [w \in Words |-> k]

Frame(k, values) == [ok |-> TRUE, seq |-> k, values |-> values]

Torn == [ok |-> FALSE]

Init ==
    /\ latest = 0
    /\ asked = [r \in Readers |-> Nothing]
    /\ reply = [r \in Readers |-> Nothing]

Publish ==
    /\ latest' = latest + 1
    /\ UNCHANGED <<asked, reply>>

Ask(r) ==
    /\ asked[r] = Nothing
    /\ asked' = [asked EXCEPT ![r] = latest]
    /\ reply' = [reply EXCEPT ![r] = Nothing]
    /\ UNCHANGED latest

Return(r, answer) ==
    /\ reply' = [reply EXCEPT ![r] = answer]
    /\ asked' = [asked EXCEPT ![r] = Nothing]
    /\ UNCHANGED latest

Answer(r) ==
    /\ asked[r] # Nothing
    /\ \E k \in asked[r]..latest :
        \E values \in [Words -> Values] :
            /\ k > 0 => values = Whole(k)
            /\ Return(r, Frame(k, values))

GiveUp(r) ==
    /\ asked[r] # Nothing
    /\ asked[r] + Attempts <= latest
    /\ Return(r, Torn)

Next ==
    \/ Publish
    \/ \E r \in Readers : Ask(r) \/ Answer(r) \/ GiveUp(r)

Spec == Init /\ [][Next]_vars
=============================================================================
