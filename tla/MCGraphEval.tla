---------------------------- MODULE MCGraphEval ----------------------------
(***************************************************************************)
(* The graphs GraphEval is checked on.  Nodes are in evaluation order.     *)
(***************************************************************************)
EXTENDS GraphEval

G(kind, source, result, extras) ==
    [kind |-> kind, source |-> source, result |-> result, extras |-> extras]

\* elements-core/tests/fan_out.rs: one constant feeds two branches, of which
\* the last node borrows one and passes the other on.
Branching ==
    G(<<"constant", "output", "output", "pick_second", "output">>,
      << <<>>, <<<<1, 1>>>>, <<<<1, 1>>>>, <<<<2, 1>>, <<3, 1>>>>, <<<<4, 1>>>> >>, 5, {})

\* One value borrowed and taken by the same node.
Doubled ==
    G(<<"constant", "pick_second">>, << <<>>, <<<<1, 1>>, <<1, 1>>>> >>, 2, {})

\* A sum over time that is also exported, and read twice.
Summing ==
    G(<<"constant", "accumulate", "output", "output", "pick_second">>,
      << <<>>, <<<<1, 1>>>>, <<<<2, 1>>>>, <<<<1, 1>>>>, <<<<3, 1>>, <<4, 1>>>> >>,
      5, {<<2, 1>>})

\* A transient field, released before the state of a later node is acquired.
LateState ==
    G(<<"constant", "output", "pick_second", "accumulate">>,
      << <<>>, <<<<1, 1>>>>, <<<<1, 1>>, <<2, 1>>>>, <<<<3, 1>>>> >>, 4, {})

\* One collider twice in a union, one of its loads unconnected.
Union ==
    G(<<"collider", "collider_union", "output">>,
      << <<>>, <<<<1, 1>>, <<1, 2>>, <<1, 1>>, <<1, 2>>, <<1, 3>>, Unconnected>>, <<<<2, 1>>>> >>,
      3, {<<2, 2>>})

\* One emitter twice in a union whose fuel is exported: summed, or copied from
\* one of the two.
Emitting(second) ==
    G(<<"emitter", "emitter_union", "output">>,
      << <<>>, <<<<1, 1>>, <<1, 2>>, <<1, 3>>, <<1, 4>>,
                 <<1, 1>>, <<1, 2>>, <<1, 3>>, <<1, 4>>, <<1, 5>>, second>>, <<<<2, 1>>>> >>,
      3, {<<2, 5>>})

\* An emitter whose fuel nobody reads.
Emitter == G(<<"emitter", "output">>, << <<>>, <<<<1, 2>>>> >>, 2, {})

\* A solver whose velocity nobody reads, and one whose velocity is exported.
Solving(extras) ==
    G(<<"constant", "constant", "solver", "output">>,
      << <<>>, <<>>, <<<<1, 1>>, <<2, 1>>, Unconnected, Unconnected>>, <<<<3, 1>>>> >>, 4, extras)

\* An input that was never connected.
Incomplete == G(<<"constant", "pick_second">>, << <<>>, <<<<1, 1>>, Unconnected>> >>, 2, {})

\* A sum whose input was never connected.  It is not among MCGraphs: each
\* evaluation drops a sum and the next makes another, without end.
Unfed == G(<<"constant", "accumulate">>, << <<>>, <<Unconnected>> >>, 2, {})

MCUnfed == {Unfed}

\* A solver with one input of a pair.
HalfPaired ==
    G(<<"constant", "solver">>, << <<>>, <<<<1, 1>>, <<1, 1>>, <<1, 1>>, Unconnected>> >>, 2, {})

\* An extra output that is computed from the result.
Downstream == G(<<"constant", "output">>, << <<>>, <<<<1, 1>>>> >>, 1, {<<2, 1>>})

MCGraphs ==
    {Branching, Doubled, Summing, LateState, Union, Solving({}), Solving({<<3, 2>>}),
     Emitter, Emitting(<<1, 5>>), Emitting(Unconnected),
     Incomplete, HalfPaired, Downstream}
=============================================================================
