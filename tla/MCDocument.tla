----------------------------- MODULE MCDocument -----------------------------
(***************************************************************************)
(* Every small document over three kinds of node: a file with at most two  *)
(* nodes, two edges and two outputs, with the faults each can have.        *)
(***************************************************************************)
EXTENDS Document, SequencesExt

MCRegistry ==
    [constant |-> [inputs |-> <<>>, outputs |-> <<"field">>],
     solver |-> [inputs |-> <<"field", "field">>,
                 outputs |-> <<"field", "vector">>],
     result |-> [inputs |-> <<"field">>, outputs |-> <<"field">>]]

Node(id, kind, good) == [id |-> id, kind |-> kind, paramsGood |-> good]

Edge(a, i, b, j) == [from |-> Socket(a, i), to |-> Socket(b, j)]

Output(node, socket, name) == [node |-> node, socket |-> socket, name |-> name]

MCNodes ==
    {<<Node(0, a, TRUE), Node(1, b, TRUE)>> :
         a, b \in DOMAIN MCRegistry}
    \cup {<<Node(0, "constant", TRUE), Node(1, "solver", FALSE)>>,
          <<Node(1, "constant", TRUE), Node(0, "solver", TRUE)>>,
          <<Node(0, "constant", TRUE), Node(1, "stranger", TRUE)>>,
          <<>>}

MCEdges ==
    SeqOf({Edge(0, 0, 1, 0), Edge(0, 0, 1, 1), Edge(0, 1, 1, 0),
           Edge(1, 0, 0, 0), Edge(1, 0, 1, 1), Edge(0, 0, 2, 0)}, 2)

MCOutputs ==
    SeqOf({Output(0, 0, <<"a">>), Output(1, 0, <<"b">>),
           Output(1, 1, <<"b">>), Output(1, 0, <<"a">>),
           Output(2, 0, <<"c">>)}, 2)

Doc(nodes, edges, output, outputs, dims) ==
    [wellFormed |-> TRUE, version |-> CurrentVersion, fpsPositive |-> TRUE,
     domainInRange |-> TRUE, dims |-> dims, nodes |-> nodes, edges |-> edges,
     output |-> output, outputs |-> outputs]

Usual == Doc(<<Node(0, "constant", TRUE), Node(1, "solver", TRUE)>>,
             <<Edge(0, 0, 1, 0)>>, 1, <<Output(1, 1, <<"b">>)>>, <<2, 2, 2>>)

MCDocuments ==
    {Doc(n, e, o, <<>>, <<2, 2, 2>>) :
         n \in MCNodes, e \in MCEdges, o \in 1..2}
    \cup {Doc(n, <<>>, o, x, <<2, 2, 2>>) :
              n \in MCNodes, o \in 0..1, x \in MCOutputs}
    \cup {[Usual EXCEPT !.dims = <<x, y, z>>, !.outputs = o] :
              x, y, z \in 0..6, o \in {<<>>, Usual.outputs}}
    \cup {[Usual EXCEPT !.version = v] : v \in 0..5}
    \cup {[Usual EXCEPT !.wellFormed = FALSE], [Usual EXCEPT !.fpsPositive = FALSE],
          [Usual EXCEPT !.domainInRange = FALSE],
          [Usual EXCEPT !.outputs[1].name = <<>>]}
=============================================================================
