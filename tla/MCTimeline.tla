----------------------------- MODULE MCTimeline -----------------------------
(***************************************************************************)
(* A timeline small enough for TLC: two stateful nodes and three           *)
(* resolutions, whose snapshots take two, four and six bytes: two small    *)
(* ones fit a budget of five, or one large one but none beside it, and a   *)
(* huge one never fits.                                                    *)
(***************************************************************************)
EXTENDS Timeline, FiniteSetsExt

CONSTANTS small, large, huge

MCDims == {small, large, huge}

MCSlotBytes ==
    [d \in MCDims \cup {NoDims} |->
        CASE d = small -> 1 [] d = large -> 2 [] d = huge -> 3 [] OTHER -> 0]

MCLayoutBytes ==
    [l \in Layouts |-> MapThenSumSet(LAMBDA n : MCSlotBytes[l[n]], Nodes)]
=============================================================================
