---------------------------- MODULE DocumentProofs ----------------------------
(***************************************************************************)
(* Proofs about Document and about Bake, which loads through it, for any   *)
(* registry, any files and any limits of the device: the graph under       *)
(* construction is well typed at every moment, what is loaded is what the  *)
(* file says and above no limit, and a bake's files are right.             *)
(*                                                                         *)
(* Document's argument: the graph grows by one checked entry at a time,    *)
(* and the checks read only parts of it that no later step changes: the    *)
(* kinds are complete before the first edge, the result before the first   *)
(* output.                                                                 *)
(***************************************************************************)
EXTENDS Bake, TLAPS, WellFoundedInduction

\* How far the loops have got, as the graph shows it.
NodesSoFar(n) ==
    /\ Len(graph.kinds) = n
    /\ \A i \in 1..n : /\ doc.nodes[i].id = i - 1
                       /\ graph.kinds[i] = doc.nodes[i].kind

EdgesSoFar(n) == graph.edges = {doc.edges[i] : i \in 1..n}

ExtrasSoFar(n) ==
    \A i \in 1..n : Unexportable(graph, ExtraSockets(doc), i) = "none"

Progress ==
    /\ stage # "unloaded" => doc \in Documents
    /\ stage \in {"unloaded", "text", "parsed"} => graph = NoGraph
    /\ stage = "nodes" =>
           /\ at <= Len(doc.nodes) + 1
           /\ NodesSoFar(at - 1) /\ EdgesSoFar(0)
    /\ stage \in {"edges", "extras", "built", "loaded"} =>
           /\ NodesSoFar(Len(doc.nodes))
           /\ doc.output < Len(doc.nodes)
    /\ stage = "edges" => at <= Len(doc.edges) + 1 /\ EdgesSoFar(at - 1)
    /\ stage \in {"extras", "built", "loaded"} =>
           EdgesSoFar(Len(doc.edges)) /\ graph.output = doc.output
    /\ stage = "extras" => at <= Len(doc.outputs) + 1 /\ ExtrasSoFar(at - 1)
    /\ stage \notin {"built", "loaded"} => graph.extras = <<>> \/ stage = "refused"

\* The size checks that have been passed.
Checked ==
    /\ stage \in {"nodes", "edges", "extras", "built", "loaded"} => FitsBuffers(doc.dims)
    /\ stage = "loaded" /\ caller = "daemon" => FitsTextures(doc.dims)

Inductive == TypeOK /\ Progress /\ Checked /\ GraphIsTyped /\ ExtrasAreOwnable

-----------------------------------------------------------------------------
LEMMA DocumentShape ==
    ASSUME NEW d \in Documents
    PROVE  /\ d # Nothing
           /\ d.dims \in Nat \X Nat \X Nat
           /\ Len(d.nodes) \in Nat /\ Len(d.edges) \in Nat /\ Len(d.outputs) \in Nat
           /\ \A i \in 1..Len(d.nodes) : d.nodes[i].id \in Nat /\ d.nodes[i].kind \in Text
           /\ \A i \in 1..Len(d.edges) : d.edges[i] \in Edges
           /\ \A i \in 1..Len(d.outputs) :
                  d.outputs[i].node \in Nat /\ d.outputs[i].socket \in Nat
           /\ d.output \in Nat
<1>1. /\ d.nodes \in Seq(DocNodes) /\ d.outputs \in Seq(DocOutputs)
      /\ d.edges \in Seq(Edges)
  BY DocumentAssumption
<1>2. \A i \in 1..Len(d.nodes) : d.nodes[i].id \in Nat /\ d.nodes[i].kind \in Text
  <2>1. \A i \in 1..Len(d.nodes) : d.nodes[i] \in DocNodes
    BY <1>1
  <2> QED
    BY <2>1 DEF DocNodes
<1>3. \A i \in 1..Len(d.outputs) : d.outputs[i].node \in Nat /\ d.outputs[i].socket \in Nat
  <2>1. \A i \in 1..Len(d.outputs) : d.outputs[i] \in DocOutputs
    BY <1>1
  <2> QED
    BY <2>1 DEF DocOutputs
<1>4. \A i \in 1..Len(d.edges) : d.edges[i] \in Edges
  BY <1>1
<1>5. d # Nothing /\ d.dims \in Nat \X Nat \X Nat /\ d.output \in Nat
  BY DocumentAssumption
<1> QED
  BY <1>1, <1>2, <1>3, <1>4, <1>5

LEMMA ExtraSocketsType ==
    ASSUME NEW d \in Documents
    PROVE  ExtraSockets(d) \in Seq(Sockets) /\ Len(ExtraSockets(d)) = Len(d.outputs)
<1>1. \A i \in 1..Len(d.outputs) : Socket(d.outputs[i].node, d.outputs[i].socket) \in Sockets
  BY DocumentShape DEF Socket, Sockets
<1> QED
  BY <1>1, DocumentShape DEF ExtraSockets

LEMMA ReasonsAreNames ==
    /\ \A d : Unreadable(d) \in Refusals
    /\ \A g, e : Unconnectable(g, e) \in Refusals
    /\ \A g, s, i : Unexportable(g, s, i) \in Refusals
<1>1. \A d : Unreadable(d) \in Refusals
  BY DEF Unreadable, Refusals
<1>2. \A g, e : Unconnectable(g, e) \in Refusals
  BY DEF Unconnectable, Refusals
<1>3. \A g, s, i : Unexportable(g, s, i) \in Refusals
  BY DEF Unexportable, Refusals
<1> QED
  BY <1>1, <1>2, <1>3

LEMMA InitInductive == Init => Inductive
  BY DocumentAssumption
  DEF Init, Inductive, TypeOK, Progress, Checked, GraphIsTyped, ExtrasAreOwnable,
      NoGraph, Callers, Stages, Refusals

-----------------------------------------------------------------------------
(***************************************************************************)
(* Steps that leave the graph, or end the load.                            *)
(***************************************************************************)
LEMMA RefuseStep ==
    ASSUME Inductive, stage # "unloaded", NEW why \in Refusals, Refuse(why)
    PROVE  Inductive'
<1>1. UNCHANGED <<caller, doc, at, graph>> /\ stage' = "refused" /\ refusal' = why
  BY DEF Refuse
<1>2. TypeOK'
  BY <1>1 DEF Inductive, TypeOK, Stages
<1>3. Progress' /\ Checked'
  BY <1>1 DEF Inductive, Progress, Checked
<1>4. GraphIsTyped' /\ ExtrasAreOwnable'
  BY <1>1 DEF Inductive, GraphIsTyped, ExtrasAreOwnable, HasOutput, HasInput, HasNode,
     OutputTypes, InputTypes, OutputType, InputType
<1> QED
  BY <1>2, <1>3, <1>4 DEF Inductive

\* Nothing is required of an empty graph.
LEMMA EmptyGraphStep ==
    ASSUME graph' = NoGraph, TypeOK',
           stage' \in {"unloaded", "text"}, stage' # "unloaded" => doc' \in Documents
    PROVE  Inductive'
  BY DEF NoGraph, Inductive, Progress, Checked, GraphIsTyped, ExtrasAreOwnable

LEMMA ReadStep ==
    ASSUME NEW who \in Callers, ReadBy(who)
    PROVE  Inductive'
<1>1. doc' \in Documents /\ stage' = "text" /\ graph' = NoGraph /\ at' = 1
  BY DEF ReadBy
<1>2. NoGraph \in [kinds : Seq(DOMAIN Registry), edges : SUBSET Edges,
                   output : Nat, extras : Seq(Sockets)]
  BY DEF NoGraph
<1>3. TypeOK'
  BY <1>1, <1>2, DocumentShape DEF ReadBy, TypeOK, Stages, Refusals
<1> QED
  BY <1>1, <1>3, EmptyGraphStep

LEMMA DiscardStep ==
    ASSUME Inductive, Discard
    PROVE  Inductive'
<1>1. NoGraph \in [kinds : Seq(DOMAIN Registry), edges : SUBSET Edges,
                   output : Nat, extras : Seq(Sockets)]
  BY DEF NoGraph
<1>2. /\ doc' = Nothing /\ stage' = "unloaded" /\ at' = 1 /\ graph' = NoGraph
      /\ refusal' = "none" /\ caller' = caller
  BY DEF Discard
<1>3. caller' \in Callers
  BY <1>2 DEF Inductive, TypeOK
<1>4. TypeOK'
  BY <1>1, <1>2, <1>3 DEF TypeOK, Stages, Refusals
<1> QED
  BY <1>2, <1>4, EmptyGraphStep

\* The graph stays, and the stage moves on.
LEMMA FromJsonStep ==
    ASSUME Inductive, FromJson
    PROVE  Inductive'
<1>1. CASE Unreadable(doc) # "none"
  BY <1>1, RefuseStep, ReasonsAreNames DEF FromJson
<1>2. CASE Unreadable(doc) = "none"
  <2>1. stage = "text" /\ stage' = "parsed" /\ UNCHANGED <<caller, doc, at, graph, refusal>>
    BY <1>2 DEF FromJson
  <2>2. TypeOK'
    BY <2>1 DEF Inductive, TypeOK, Stages
  <2>3. Progress' /\ Checked'
    BY <2>1 DEF Inductive, Progress, Checked, NoGraph
  <2>4. GraphIsTyped' /\ ExtrasAreOwnable'
    BY <2>1 DEF Inductive, Progress, NoGraph, GraphIsTyped, ExtrasAreOwnable
  <2> QED
    BY <2>2, <2>3, <2>4 DEF Inductive
<1> QED
  BY <1>1, <1>2

LEMMA ValidateForStep ==
    ASSUME Inductive, ValidateFor
    PROVE  Inductive'
<1>1. CASE ~FitsBuffers(doc.dims)
  <2>1. stage # "unloaded" /\ Refuse("dims") /\ "dims" \in Refusals
    BY <1>1 DEF ValidateFor, Refusals
  <2> QED
    BY <2>1, RefuseStep
<1>2. CASE FitsBuffers(doc.dims)
  <2>1. /\ stage = "parsed" /\ stage' = "nodes" /\ at' = 1
        /\ UNCHANGED <<caller, doc, graph, refusal>>
    BY <1>2 DEF ValidateFor
  <2>2. TypeOK'
    BY <2>1 DEF Inductive, TypeOK, Stages
  <2>3. graph = NoGraph /\ doc \in Documents
    BY <2>1 DEF Inductive, Progress
  <2>4. NodesSoFar(0)' /\ EdgesSoFar(0)' /\ at' <= Len(doc'.nodes) + 1 /\ graph'.extras = <<>>
    BY <2>1, <2>3, DocumentShape DEF NoGraph, NodesSoFar, EdgesSoFar
  <2>5. Progress'
    BY <2>1, <2>3, <2>4 DEF Progress
  <2>6. Checked' /\ GraphIsTyped' /\ ExtrasAreOwnable'
    BY <1>2, <2>1, <2>3 DEF Checked, NoGraph, GraphIsTyped, ExtrasAreOwnable, FitsBuffers
  <2> QED
    BY <2>2, <2>5, <2>6 DEF Inductive
<1> QED
  BY <1>1, <1>2

-----------------------------------------------------------------------------
(***************************************************************************)
(* The loop over the nodes.                                                *)
(***************************************************************************)
LEMMA AddNodeStep ==
    ASSUME Inductive, AddNode
    PROVE  Inductive'
<1> DEFINE node == doc.nodes[at]
<1>1. stage = "nodes" /\ at <= Len(doc.nodes) /\ doc \in Documents /\ at \in Nat \ {0}
  BY DEF AddNode, Inductive, Progress, TypeOK
<1>2. CASE node.id = at - 1 /\ Registered(node.kind) /\ node.paramsGood
  <2>1. /\ graph' = [graph EXCEPT !.kinds = Append(@, node.kind)]
        /\ at' = at + 1 /\ UNCHANGED <<caller, doc, stage, refusal>>
    BY <1>2 DEF AddNode
  <2>2. /\ graph \in [kinds : Seq(DOMAIN Registry), edges : SUBSET Edges,
                       output : Nat, extras : Seq(Sockets)]
        /\ NodesSoFar(at - 1) /\ EdgesSoFar(0) /\ graph.extras = <<>>
    BY <1>1 DEF Inductive, Progress, TypeOK
  <2>3. graph.kinds \in Seq(DOMAIN Registry) /\ node.kind \in DOMAIN Registry
    BY <1>2, <2>2 DEF Registered
  <2>4. /\ graph'.kinds = Append(graph.kinds, node.kind)
        /\ graph'.kinds \in Seq(DOMAIN Registry)
        /\ graph'.edges = graph.edges /\ graph'.extras = graph.extras
    BY <2>1, <2>2, <2>3
  <2>5. TypeOK'
    <3>1. graph' \in [kinds : Seq(DOMAIN Registry), edges : SUBSET Edges,
                      output : Nat, extras : Seq(Sockets)]
      BY <2>1, <2>2, <2>4
    <3>2. at' \in Nat \ {0} /\ doc # Nothing
      BY <1>1, <2>1, DocumentShape
    <3> QED
      BY <1>1, <2>1, <3>1, <3>2 DEF Inductive, TypeOK
  <2>6. graph.edges = {}
    BY <2>2 DEF EdgesSoFar
  <2>7. NodesSoFar(at - 1)'
    <3>1. Len(graph'.kinds) = at
      BY <1>1, <2>2, <2>3, <2>4 DEF NodesSoFar
    <3>2. ASSUME NEW i \in 1..at
          PROVE  doc.nodes[i].id = i - 1 /\ graph'.kinds[i] = doc.nodes[i].kind
      <4>1. CASE i = at
        BY <4>1, <1>1, <1>2, <2>2, <2>3, <2>4 DEF NodesSoFar
      <4>2. CASE i \in 1..(at - 1)
        <5>1. graph'.kinds[i] = graph.kinds[i]
          BY <4>2, <1>1, <2>2, <2>3, <2>4 DEF NodesSoFar
        <5> QED
          BY <4>2, <5>1, <2>2 DEF NodesSoFar
      <4> QED
        BY <1>1, <4>1, <4>2
    <3>3. at' - 1 = at
      BY <1>1, <2>1
    <3> QED
      BY <2>1, <3>1, <3>2, <3>3 DEF NodesSoFar
  <2>8. EdgesSoFar(0)'
    BY <2>4, <2>6 DEF EdgesSoFar
  <2>9. at' <= Len(doc'.nodes) + 1 /\ stage' = "nodes" /\ doc' = doc
    BY <1>1, <2>1, DocumentShape
  <2>10. Progress'
    BY <1>1, <2>2, <2>4, <2>7, <2>8, <2>9 DEF Progress
  <2>11. Checked'
    BY <1>1, <2>1 DEF Inductive, Checked
  <2>12. GraphIsTyped' /\ ExtrasAreOwnable'
    BY <2>2, <2>4, <2>6 DEF GraphIsTyped, ExtrasAreOwnable
  <2> QED
    BY <2>5, <2>10, <2>11, <2>12 DEF Inductive
<1>3. CASE ~(node.id = at - 1 /\ Registered(node.kind) /\ node.paramsGood)
  <2>1. \E why \in Refusals : Refuse(why)
    <3>1. {"position", "unknown kind", "params"} \subseteq Refusals
      BY DEF Refusals
    <3>2. Refuse("position") \/ Refuse("unknown kind") \/ Refuse("params")
      BY <1>3 DEF AddNode
    <3> QED
      BY <3>1, <3>2
  <2> QED
    BY <1>1, <2>1, RefuseStep
<1> QED
  BY <1>2, <1>3

LEMMA CheckOutputStep ==
    ASSUME Inductive, CheckOutput
    PROVE  Inductive'
<1>1. /\ stage = "nodes" /\ at > Len(doc.nodes) /\ doc \in Documents
      /\ at \in Nat \ {0} /\ at <= Len(doc.nodes) + 1
      /\ NodesSoFar(at - 1) /\ EdgesSoFar(0) /\ graph.extras = <<>>
  BY DEF CheckOutput, Inductive, Progress, TypeOK
<1>2. CASE doc.output >= Len(doc.nodes)
  <2>1. Refuse("output") /\ "output" \in Refusals
    BY <1>2 DEF CheckOutput, Refusals
  <2> QED
    BY <1>1, <2>1, RefuseStep
<1>3. CASE ~(doc.output >= Len(doc.nodes))
  <2>1. stage' = "edges" /\ at' = 1 /\ UNCHANGED <<caller, doc, graph, refusal>>
    BY <1>3 DEF CheckOutput
  <2>2. TypeOK'
    BY <1>1, <2>1 DEF Inductive, TypeOK, Stages
  <2>3. at - 1 = Len(doc.nodes) /\ doc.output < Len(doc.nodes) /\ 1 <= Len(doc.edges) + 1
    BY <1>1, <1>3, DocumentShape
  <2>4. NodesSoFar(Len(doc.nodes))' /\ EdgesSoFar(0)' /\ at' - 1 = 0
    BY <1>1, <2>1, <2>3 DEF NodesSoFar, EdgesSoFar
  <2>5. Progress'
    BY <1>1, <2>1, <2>3, <2>4 DEF Progress
  <2>6. Checked'
    BY <1>1, <2>1 DEF Inductive, Checked
  <2>7. GraphIsTyped' /\ ExtrasAreOwnable'
    BY <1>1, <2>1 DEF EdgesSoFar, GraphIsTyped, ExtrasAreOwnable
  <2> QED
    BY <2>2, <2>5, <2>6, <2>7 DEF Inductive
<1> QED
  BY <1>2, <1>3

-----------------------------------------------------------------------------
(***************************************************************************)
(* The loop over the edges.                                                *)
(***************************************************************************)
\* What connect has not refused joins sockets that are there, of one type,
\* at an input that nothing feeds.
LEMMA ConnectableMeans ==
    ASSUME NEW g, NEW e, Unconnectable(g, e) = "none"
    PROVE  /\ HasOutput(g, e.from) /\ HasInput(g, e.to)
           /\ OutputType(g, e.from) = InputType(g, e.to)
           /\ e.to \notin Fed(g)
  BY DEF Unconnectable

LEMMA ConnectStep ==
    ASSUME Inductive, Connect
    PROVE  Inductive'
<1> DEFINE e == doc.edges[at]
<1>1. /\ stage = "edges" /\ at <= Len(doc.edges) /\ doc \in Documents
      /\ at \in Nat \ {0} /\ EdgesSoFar(at - 1) /\ graph.extras = <<>>
      /\ graph \in [kinds : Seq(DOMAIN Registry), edges : SUBSET Edges,
                     output : Nat, extras : Seq(Sockets)]
  BY DEF Connect, Inductive, Progress, TypeOK
<1>2. e \in Edges
  BY <1>1, DocumentShape
<1>3. CASE Unconnectable(graph, e) # "none"
  BY <1>1, <1>3, RefuseStep, ReasonsAreNames DEF Connect
<1>4. CASE Unconnectable(graph, e) = "none"
  <2>1. graph' = Joined(graph, e) /\ at' = at + 1 /\ UNCHANGED <<caller, doc, stage, refusal>>
    BY <1>4 DEF Connect
  <2>2. \A f \in graph.edges : f.to # e.to
    BY <1>4, ConnectableMeans DEF Fed
  <2>3. graph' = [graph EXCEPT !.edges = @ \cup {e}]
    BY <2>1, <2>2 DEF Joined
  <2>4. /\ graph'.kinds = graph.kinds /\ graph'.extras = <<>>
        /\ graph'.edges = graph.edges \cup {e} /\ graph'.output = graph.output
    BY <1>1, <2>3
  <2>5. TypeOK'
    <3>1. graph' \in [kinds : Seq(DOMAIN Registry), edges : SUBSET Edges,
                      output : Nat, extras : Seq(Sockets)]
      BY <1>1, <1>2, <2>3
    <3>2. at' \in Nat \ {0} /\ doc # Nothing
      BY <1>1, <2>1, DocumentShape
    <3> QED
      BY <1>1, <2>1, <3>1, <3>2 DEF Inductive, TypeOK
  <2>6. EdgesSoFar(at - 1)'
    <3>1. 1..at = 1..(at - 1) \cup {at}
      BY <1>1
    <3>2. {doc.edges[i] : i \in 1..at} = {doc.edges[i] : i \in 1..(at - 1)} \cup {e}
      BY <3>1
    <3>3. at' - 1 = at
      BY <1>1, <2>1
    <3> QED
      BY <1>1, <2>1, <2>4, <3>2, <3>3 DEF EdgesSoFar
  <2>7. NodesSoFar(Len(doc.nodes))' /\ doc'.output < Len(doc'.nodes)
    BY <1>1, <2>1, <2>4 DEF Inductive, Progress, NodesSoFar
  <2>8. at' <= Len(doc'.edges) + 1 /\ stage' = "edges" /\ doc' = doc
    BY <1>1, <2>1, DocumentShape
  <2>9. Progress'
    BY <1>1, <2>4, <2>6, <2>7, <2>8 DEF Progress
  <2>10. Checked'
    BY <1>1, <2>1 DEF Inductive, Checked
  <2>11. \A s : /\ HasOutput(graph, s) <=> HasOutput(graph', s)
                /\ HasInput(graph, s) <=> HasInput(graph', s)
                /\ OutputType(graph', s) = OutputType(graph, s)
                /\ InputType(graph', s) = InputType(graph, s)
    BY <2>4 DEF HasOutput, HasInput, HasNode, OutputType, InputType, OutputTypes, InputTypes
  <2>12. GraphIsTyped'
    <3>1. \A f \in graph.edges : /\ HasOutput(graph, f.from) /\ HasInput(graph, f.to)
                                 /\ OutputType(graph, f.from) = InputType(graph, f.to)
      BY DEF Inductive, GraphIsTyped
    <3>2. \A f \in graph'.edges : /\ HasOutput(graph', f.from) /\ HasInput(graph', f.to)
                                  /\ OutputType(graph', f.from) = InputType(graph', f.to)
      BY <1>4, <2>4, <2>11, <3>1, ConnectableMeans
    <3>3. \A f, h \in graph'.edges : f.to = h.to => f = h
      BY <2>2, <2>4 DEF Inductive, GraphIsTyped
    <3> QED
      BY <3>2, <3>3 DEF GraphIsTyped
  <2>13. ExtrasAreOwnable'
    BY <2>4 DEF ExtrasAreOwnable
  <2> QED
    BY <2>5, <2>9, <2>10, <2>12, <2>13 DEF Inductive
<1> QED
  BY <1>3, <1>4

-----------------------------------------------------------------------------
(***************************************************************************)
(* The result, and the loop over the outputs.                              *)
(***************************************************************************)
\* Only the marks of progress change: what was typed stays typed.
LEMMA SameEdges ==
    ASSUME Inductive, graph'.kinds = graph.kinds, graph'.edges = graph.edges
    PROVE  GraphIsTyped'
<1>1. \A s : /\ HasOutput(graph, s) <=> HasOutput(graph', s)
             /\ HasInput(graph, s) <=> HasInput(graph', s)
             /\ OutputType(graph', s) = OutputType(graph, s)
             /\ InputType(graph', s) = InputType(graph, s)
  BY DEF HasOutput, HasInput, HasNode, OutputType, InputType, OutputTypes, InputTypes
<1>2. \A e \in graph.edges : /\ HasOutput(graph, e.from) /\ HasInput(graph, e.to)
                             /\ OutputType(graph, e.from) = InputType(graph, e.to)
  BY DEF Inductive, GraphIsTyped
<1>3. \A e, f \in graph.edges : e.to = f.to => e = f
  BY DEF Inductive, GraphIsTyped
<1> QED
  BY <1>1, <1>2, <1>3 DEF GraphIsTyped

LEMMA SetOutputStep ==
    ASSUME Inductive, SetOutput
    PROVE  Inductive'
<1>1. /\ stage = "edges" /\ at > Len(doc.edges) /\ at <= Len(doc.edges) + 1
      /\ doc \in Documents /\ at \in Nat \ {0} /\ EdgesSoFar(at - 1)
      /\ graph.extras = <<>> /\ doc.output < Len(doc.nodes)
      /\ graph \in [kinds : Seq(DOMAIN Registry), edges : SUBSET Edges,
                     output : Nat, extras : Seq(Sockets)]
      /\ NodesSoFar(Len(doc.nodes))
  BY DEF SetOutput, Inductive, Progress, TypeOK
<1>2. /\ graph' = [graph EXCEPT !.output = doc.output]
      /\ stage' = "extras" /\ at' = 1 /\ UNCHANGED <<caller, doc, refusal>>
  BY DEF SetOutput
<1>3. /\ graph'.kinds = graph.kinds /\ graph'.edges = graph.edges
      /\ graph'.extras = <<>> /\ graph'.output = doc.output
  BY <1>1, <1>2
<1>4. TypeOK'
  <2>1. graph' \in [kinds : Seq(DOMAIN Registry), edges : SUBSET Edges,
                    output : Nat, extras : Seq(Sockets)]
    BY <1>1, <1>2, DocumentShape
  <2>2. /\ doc' = doc /\ doc # Nothing /\ stage' = "extras" /\ at' = 1
        /\ UNCHANGED <<caller, refusal>>
    BY <1>1, <1>2, DocumentShape
  <2> QED
    BY <2>1, <2>2 DEF Inductive, TypeOK, Stages
<1>5. EdgesSoFar(Len(doc.edges))' /\ NodesSoFar(Len(doc.nodes))'
  <2>1. at - 1 = Len(doc.edges)
    <3>1. Len(doc.edges) \in Nat /\ at \in Nat /\ at > Len(doc.edges) /\ at <= Len(doc.edges) + 1
      BY <1>1, DocumentShape
    <3> QED
      BY <3>1
  <2> QED
    BY <1>1, <1>2, <1>3, <2>1 DEF EdgesSoFar, NodesSoFar
<1>6. ExtrasSoFar(0)' /\ at' - 1 = 0 /\ at' <= Len(doc'.outputs) + 1
  BY <1>1, <1>2, DocumentShape DEF ExtrasSoFar
<1>7. Progress'
  BY <1>1, <1>2, <1>3, <1>5, <1>6 DEF Progress
<1>8. Checked'
  BY <1>1, <1>2 DEF Inductive, Checked
<1>9. GraphIsTyped' /\ ExtrasAreOwnable'
  BY <1>3, SameEdges DEF ExtrasAreOwnable
<1> QED
  BY <1>4, <1>7, <1>8, <1>9 DEF Inductive

LEMMA CheckExtraStep ==
    ASSUME Inductive, CheckExtra
    PROVE  Inductive'
<1> DEFINE why == Unexportable(graph, ExtraSockets(doc), at)
<1>1. /\ stage = "extras" /\ at <= Len(doc.outputs) /\ doc \in Documents
      /\ at \in Nat \ {0} /\ ExtrasSoFar(at - 1)
  BY DEF CheckExtra, Inductive, Progress, TypeOK
<1>2. CASE why # "none"
  BY <1>1, <1>2, RefuseStep, ReasonsAreNames DEF CheckExtra
<1>3. CASE why = "none"
  <2>1. at' = at + 1 /\ UNCHANGED <<caller, doc, stage, graph, refusal>>
    BY <1>3 DEF CheckExtra
  <2>2. TypeOK'
    <3>1. at' \in Nat \ {0}
      BY <1>1, <2>1
    <3> QED
      BY <2>1, <3>1 DEF Inductive, TypeOK
  <2>3. ExtrasSoFar(at - 1)'
    <3>1. at' - 1 = at /\ \A i \in 1..at : i \in 1..(at - 1) \/ i = at
      BY <1>1, <2>1
    <3> QED
      BY <1>1, <1>3, <2>1, <3>1 DEF ExtrasSoFar
  <2>4. at' <= Len(doc'.outputs) + 1
    BY <1>1, <2>1, DocumentShape
  <2>5. Progress'
    BY <1>1, <2>1, <2>3, <2>4 DEF Inductive, Progress, NodesSoFar, EdgesSoFar
  <2>6. Checked' /\ ExtrasAreOwnable'
    BY <1>1, <2>1 DEF Inductive, Checked, ExtrasAreOwnable, HasOutput, HasNode,
       OutputType, OutputTypes
  <2> QED
    BY <2>1, <2>2, <2>5, <2>6, SameEdges DEF Inductive
<1> QED
  BY <1>2, <1>3

LEMMA SetExtrasStep ==
    ASSUME Inductive, SetExtras
    PROVE  Inductive'
<1> DEFINE sockets == ExtraSockets(doc)
<1>1. /\ stage = "extras" /\ at > Len(doc.outputs) /\ at <= Len(doc.outputs) + 1
      /\ doc \in Documents /\ at \in Nat \ {0} /\ ExtrasSoFar(at - 1)
      /\ graph.output = doc.output /\ graph.extras = <<>>
      /\ graph \in [kinds : Seq(DOMAIN Registry), edges : SUBSET Edges,
                     output : Nat, extras : Seq(Sockets)]
      /\ NodesSoFar(Len(doc.nodes)) /\ EdgesSoFar(Len(doc.edges))
      /\ doc.output < Len(doc.nodes)
  BY DEF SetExtras, Inductive, Progress, TypeOK
<1>2. /\ graph' = [graph EXCEPT !.extras = sockets]
      /\ stage' = "built" /\ UNCHANGED <<caller, doc, at, refusal>>
  BY DEF SetExtras
<1>3. /\ graph'.kinds = graph.kinds /\ graph'.edges = graph.edges
      /\ graph'.extras = sockets /\ graph'.output = doc.output
  BY <1>1, <1>2
<1>4. TypeOK'
  <2>1. graph' \in [kinds : Seq(DOMAIN Registry), edges : SUBSET Edges,
                    output : Nat, extras : Seq(Sockets)]
    BY <1>1, <1>2, ExtraSocketsType
  <2> QED
    BY <1>1, <1>2, <2>1 DEF Inductive, TypeOK, Stages
<1>5. Progress'
  <2>1. EdgesSoFar(Len(doc.edges))' /\ NodesSoFar(Len(doc.nodes))'
    BY <1>1, <1>2, <1>3 DEF EdgesSoFar, NodesSoFar
  <2> QED
    BY <1>1, <1>2, <1>3, <2>1 DEF Progress
<1>6. Checked'
  BY <1>1, <1>2 DEF Inductive, Checked
<1>7. ExtrasAreOwnable'
  <2>1. Len(sockets) = Len(doc.outputs) /\ Len(doc.outputs) \in Nat
    BY <1>1, ExtraSocketsType, DocumentShape
  <2>2. ASSUME NEW i \in 1..Len(sockets)
        PROVE  /\ HasOutput(graph, sockets[i]) /\ OutputType(graph, sockets[i]) \in Exported
               /\ ~(sockets[i].node = doc.output /\ sockets[i].index = 0)
               /\ \A j \in 1..(i - 1) : sockets[j] # sockets[i]
    <3>1. Unexportable(graph, sockets, i) = "none"
      BY <1>1, <2>1 DEF ExtrasSoFar
    <3> HIDE DEF sockets
    <3> QED
      BY <1>1, <3>1 DEF Unexportable
  <2>3. \A s : /\ HasOutput(graph, s) <=> HasOutput(graph', s)
               /\ OutputType(graph', s) = OutputType(graph, s)
    BY <1>3 DEF HasOutput, HasNode, OutputType, OutputTypes
  <2>4. ASSUME NEW i \in 1..Len(sockets), NEW j \in 1..Len(sockets), j # i
        PROVE  sockets[j] # sockets[i]
    <3>1. j \in 1..(i - 1) \/ i \in 1..(j - 1)
      BY <2>1, <2>4
    <3> QED
      BY <2>2, <3>1
  <2>5. \A i \in 1..Len(sockets) : sockets[i] # Socket(doc.output, 0)
    BY <2>2 DEF Socket
  <2> HIDE DEF sockets
  <2> QED
    BY <1>2, <1>3, <2>2, <2>3, <2>4, <2>5 DEF ExtrasAreOwnable
<1> QED
  BY <1>3, <1>4, <1>5, <1>6, <1>7, SameEdges DEF Inductive

LEMMA AcceptStep ==
    ASSUME Inductive, Accept
    PROVE  Inductive'
<1>1. stage = "built" /\ doc \in Documents
  BY DEF Accept, Inductive, Progress
<1>2. CASE caller = "daemon" /\ ~FitsTextures(doc.dims)
  <2>1. Refuse("dims") /\ "dims" \in Refusals
    BY <1>2 DEF Accept, Refusals
  <2> QED
    BY <1>1, <2>1, RefuseStep
<1>3. CASE ~(caller = "daemon" /\ ~FitsTextures(doc.dims))
  <2>1. stage' = "loaded" /\ UNCHANGED <<caller, doc, at, graph, refusal>>
    BY <1>3 DEF Accept
  <2>2. TypeOK'
    BY <1>1, <2>1 DEF Inductive, TypeOK, Stages
  <2>3. Progress'
    BY <1>1, <2>1 DEF Inductive, Progress, NodesSoFar, EdgesSoFar
  <2>4. Checked'
    BY <1>1, <1>3, <2>1 DEF Inductive, Checked, FitsTextures, FitsBuffers
  <2>5. ExtrasAreOwnable'
    BY <2>1 DEF Inductive, ExtrasAreOwnable, HasOutput, HasNode, OutputType, OutputTypes
  <2> QED
    BY <2>1, <2>2, <2>3, <2>4, <2>5, SameEdges DEF Inductive
<1> QED
  BY <1>2, <1>3

-----------------------------------------------------------------------------
(***************************************************************************)
(* What the device can hold.                                               *)
(***************************************************************************)
LEMMA FacesFit ==
    ASSUME NEW dims \in Nat \X Nat \X Nat, FitsTextures(dims)
    PROVE  (\A f \in {dims} \cup FaceDims(dims) : Creatable(f))
               <=> \A a \in 1..3 : dims[a] > 0
<1>1. MaxTexture \in Nat /\ \A a \in 1..3 : dims[a] \in Nat /\ dims[a] < MaxTexture
  BY DocumentAssumption DEF FitsTextures
<1>2. ASSUME \A a \in 1..3 : dims[a] > 0,
             NEW f \in {dims} \cup FaceDims(dims), NEW a \in 1..3
      PROVE  f[a] \in 1..MaxTexture
  <2>1. f[a] = dims[a] \/ f[a] = dims[a] + 1
    BY DEF FaceDims
  <2> QED
    BY <1>1, <1>2, <2>1
<1>3. Creatable(dims) => \A a \in 1..3 : dims[a] > 0
  BY DEF Creatable
<1> QED
  BY <1>2, <1>3 DEF Creatable

\* A row padded to the alignment: a multiple of it, less than one alignment
\* more than the row.
LEMMA RowsArePadded ==
    ASSUME NEW bytes \in Nat, NEW padded, padded = DividedUp(bytes, RowAlignment) * RowAlignment
    PROVE  padded \in bytes..(bytes + RowAlignment - 1) /\ padded % RowAlignment = 0
<1>1. RowAlignment \in Nat \ {0}
  BY DocumentAssumption
<1> DEFINE n == bytes + RowAlignment - 1
           q == n \div RowAlignment
<1>2. n \in Nat /\ q \in Nat
  BY <1>1
<1>3. n = RowAlignment * q + (n % RowAlignment) /\ n % RowAlignment \in 0..(RowAlignment - 1)
  BY <1>1, <1>2
<1>4. padded = RowAlignment * q /\ padded \in Nat
  BY <1>1, <1>2 DEF DividedUp
<1>5. padded % RowAlignment = 0
  BY <1>1, <1>2, <1>4
<1> QED
  BY <1>1, <1>3, <1>4, <1>5

\* Row y of layer z ends within the buffer.
LEMMA LastRowIsLast ==
    ASSUME NEW rows \in Nat, NEW layers \in Nat,
           NEW z \in 0..(layers - 1), NEW y \in 0..(rows - 1)
    PROVE  z * rows + y + 1 <= rows * layers
<1>1. z * rows <= (layers - 1) * rows
  <2>1. z <= layers - 1 /\ layers - 1 \in Nat /\ z \in Nat
    OBVIOUS
  <2> QED
    BY <2>1
<1>2. (layers - 1) * rows = rows * layers - rows
  OBVIOUS
<1>3. rows * layers \in Nat /\ z * rows \in Nat
  OBVIOUS
<1> QED
  BY <1>1, <1>2, <1>3

LEMMA RowsFit ==
    ASSUME NEW padded \in Nat, NEW rows \in Nat, NEW layers \in Nat,
           padded * rows * layers <= MaxBuffer,
           NEW z \in 0..(layers - 1), NEW y \in 0..(rows - 1)
    PROVE  (z * rows + y + 1) * padded <= MaxBuffer
<1> DEFINE m == z * rows + y + 1
           all == rows * layers
<1>1. m \in Nat /\ all \in Nat /\ m <= all
  BY LastRowIsLast
<1>2. all * padded = padded * rows * layers
  OBVIOUS
<1>3. m * padded <= all * padded
  <2> HIDE DEF m, all
  <2> QED
    BY <1>1
<1>4. MaxBuffer \in Nat /\ m * padded \in Nat /\ all * padded \in Nat
  <2>1. MaxBuffer \in Nat
    BY DocumentAssumption
  <2> HIDE DEF m, all
  <2> QED
    BY <1>1, <2>1
<1> QED
  BY <1>2, <1>3, <1>4

LEMMA StagingFits ==
    ASSUME NEW dims \in Nat \X Nat \X Nat, FitsBuffers(dims)
    PROVE  LET bytes == dims[1] * VoxelBytes IN
           \E padded \in bytes..(bytes + RowAlignment - 1) :
               /\ padded % RowAlignment = 0
               /\ \A z \in 0..dims[3] - 1, y \in 0..dims[2] - 1 :
                      (z * dims[2] + y + 1) * padded <= MaxBuffer
<1> DEFINE bytes == dims[1] * VoxelBytes
           padded == DividedUp(bytes, RowAlignment) * RowAlignment
<1>1. dims[1] \in Nat /\ dims[2] \in Nat /\ dims[3] \in Nat
  OBVIOUS
<1>2. bytes \in Nat
  BY <1>1 DEF VoxelBytes
<1>3. padded * dims[2] * dims[3] <= MaxBuffer
  BY DEF FitsBuffers, ReadbackBytes
<1> HIDE DEF bytes
<1>4. padded \in bytes..(bytes + RowAlignment - 1) /\ padded % RowAlignment = 0
  BY <1>2, RowsArePadded
<1>5. padded \in Nat
  <2> HIDE DEF padded
  <2> QED
    BY <1>2, <1>4, DocumentAssumption
<1> HIDE DEF padded
<1>6. \A z \in 0..dims[3] - 1, y \in 0..dims[2] - 1 :
          (z * dims[2] + y + 1) * padded <= MaxBuffer
  BY <1>1, <1>3, <1>5, RowsFit
<1>7. \E p \in bytes..(bytes + RowAlignment - 1) :
          /\ p % RowAlignment = 0
          /\ \A z \in 0..dims[3] - 1, y \in 0..dims[2] - 1 :
                 (z * dims[2] + y + 1) * p <= MaxBuffer
  BY <1>4, <1>6
<1> QED
  BY <1>7 DEF bytes

-----------------------------------------------------------------------------
(***************************************************************************)
(* The theorems.                                                           *)
(***************************************************************************)
LEMMA Stuttering ==
    ASSUME Inductive, UNCHANGED vars
    PROVE  Inductive'
<1>1. UNCHANGED <<caller, doc, stage, at, graph, refusal>>
  BY DEF vars
<1>2. TypeOK' /\ Checked'
  BY <1>1 DEF Inductive, TypeOK, Checked
<1>3. Progress'
  BY <1>1 DEF Inductive, Progress, NodesSoFar, EdgesSoFar, ExtrasSoFar
<1>4. ExtrasAreOwnable'
  BY <1>1 DEF Inductive, ExtrasAreOwnable, HasOutput, HasNode, OutputType, OutputTypes
<1> QED
  BY <1>1, <1>2, <1>3, <1>4, SameEdges DEF Inductive

LEMMA LoadInductive == Inductive /\ Load => Inductive'
  BY FromJsonStep, ValidateForStep, AddNodeStep, CheckOutputStep, ConnectStep,
     SetOutputStep, CheckExtraStep, SetExtrasStep, AcceptStep DEF Load

LEMMA StepInductive == Inductive /\ [Next]_vars => Inductive'
<1> SUFFICES ASSUME Inductive, [Next]_vars
             PROVE  Inductive'
  OBVIOUS
<1>1. CASE Read
  BY <1>1, ReadStep DEF Read
<1>2. CASE Load
  BY <1>2, LoadInductive
<1>3. CASE Discard
  BY <1>3, DiscardStep
<1>4. CASE UNCHANGED vars
  BY <1>4, Stuttering
<1> QED
  BY <1>1, <1>2, <1>3, <1>4 DEF Next

LEMMA AlwaysInductive == Spec => []Inductive
  BY InitInductive, StepInductive, PTL DEF Spec

\* The variables of a load keep their types, whatever is loaded.
THEOREM DocumentTypeCorrect == Spec => []TypeOK
<1>1. Inductive => TypeOK
  BY DEF Inductive
<1> QED
  BY <1>1, AlwaysInductive, PTL

\* At every moment of every load each edge of the graph joins two sockets
\* that are there and of one type, and no input is fed twice.
THEOREM GraphAlwaysTyped == Spec => []GraphIsTyped
<1>1. Inductive => GraphIsTyped
  BY DEF Inductive
<1> QED
  BY <1>1, AlwaysInductive, PTL

\* set_extra_outputs lets through only fields, each once, never the result.
THEOREM ExtrasAlwaysOwnable == Spec => []ExtrasAreOwnable
<1>1. Inductive => ExtrasAreOwnable
  BY DEF Inductive
<1> QED
  BY <1>1, AlwaysInductive, PTL

\* A loaded graph has every node, edge and the output of its file, no more.
THEOREM LoadIsFaithful == Spec => []NothingIsDropped
<1>1. Inductive => NothingIsDropped
  <2> SUFFICES ASSUME Inductive, stage = "loaded"
               PROVE  /\ \A i \in 1..Len(doc.nodes) :
                             /\ doc.nodes[i].id < Len(graph.kinds)
                             /\ graph.kinds[doc.nodes[i].id + 1] = doc.nodes[i].kind
                      /\ graph.edges = {doc.edges[i] : i \in 1..Len(doc.edges)}
                      /\ HasNode(graph, graph.output) /\ graph.output = doc.output
    BY DEF NothingIsDropped
  <2>1. /\ doc \in Documents
        /\ NodesSoFar(Len(doc.nodes)) /\ EdgesSoFar(Len(doc.edges))
        /\ graph.output = doc.output /\ doc.output < Len(doc.nodes)
    BY DEF Inductive, Progress
  <2>2. Len(doc.nodes) \in Nat
    BY <2>1, DocumentShape
  <2> QED
    BY <2>1, <2>2 DEF NodesSoFar, EdgesSoFar, HasNode
<1> QED
  BY <1>1, AlwaysInductive, PTL

\* The result of a document past its size check can be read back: no row of
\* the padded staging buffer ends past the device's largest buffer.
THEOREM StagingAlwaysFits == Spec => []LoadedCanBeReadBack
<1>1. Inductive => LoadedCanBeReadBack
  <2> SUFFICES ASSUME Inductive,
                      stage \in {"nodes", "edges", "extras", "built", "loaded"}
               PROVE  LET bytes == doc.dims[1] * VoxelBytes IN
                      \E padded \in bytes..(bytes + RowAlignment - 1) :
                          /\ padded % RowAlignment = 0
                          /\ \A z \in 0..doc.dims[3] - 1, y \in 0..doc.dims[2] - 1 :
                                 (z * doc.dims[2] + y + 1) * padded <= MaxBuffer
    BY DEF LoadedCanBeReadBack
  <2>1. doc \in Documents /\ FitsBuffers(doc.dims)
    BY DEF Inductive, Progress, Checked
  <2>2. doc.dims \in Nat \X Nat \X Nat
    BY <2>1, DocumentShape
  <2> QED
    BY <2>1, <2>2, StagingFits
<1> QED
  BY <1>1, AlwaysInductive, PTL

\* The textures of a document the daemon has accepted, the faces of its vector
\* fields among them, are refused by the device only if an axis is zero.
THEOREM TexturesAlwaysFit == Spec => []OnlyZeroAxesFailLater
<1>1. Inductive => OnlyZeroAxesFailLater
  <2> SUFFICES ASSUME Inductive, stage = "loaded", caller = "daemon"
               PROVE  (\A f \in {doc.dims} \cup FaceDims(doc.dims) : Creatable(f))
                          <=> \A a \in 1..3 : doc.dims[a] > 0
    BY DEF OnlyZeroAxesFailLater
  <2>1. doc \in Documents /\ FitsTextures(doc.dims)
    BY DEF Inductive, Progress, Checked
  <2> QED
    BY <2>1, DocumentShape, FacesFit
<1> QED
  BY <1>1, AlwaysInductive, PTL

\* What the evaluator relies on holds of every graph a document gives.
THEOREM LoadedGraphAlwaysSound == Spec => []LoadedGraphIsSound
  BY DocumentTypeCorrect, GraphAlwaysTyped, ExtrasAlwaysOwnable, LoadIsFaithful, PTL
     DEF LoadedGraphIsSound

\* Whatever the limits are, no size of a loaded document is above one.
THEOREM LoadedSizesAlwaysWithinLimits == Spec => []LoadedSizesAreWithinLimits
  BY StagingAlwaysFits, TexturesAlwaysFit, PTL DEF LoadedSizesAreWithinLimits

-----------------------------------------------------------------------------
(***************************************************************************)
(* Bake.  The argument: a command at work never touches a file but its     *)
(* own frame's, so the files it has made are those before the loop's       *)
(* frame, whole, and perhaps a partial one at it.  What is zipped into a   *)
(* file is right because the grids read so far match, one by one, the      *)
(* names of the outputs read so far: both lists grow by one output's worth *)
(* at a time, by the same type, and the graph's extra outputs are the      *)
(* document's.                                                             *)
(***************************************************************************)
Axis == {"none", "x", "y", "z"}
Data == [frame : Frames, socket : Sockets, axis : Axis]

\* The parts of a name: what the file says, and the axes added to it.
Parts == Text \cup {"x", "y", "z"}

NamedGrids == [name : Seq(Parts), data : Data]
FileStates == [by : 0..MaxCommands, grids : Seq(NamedGrids)]

Working ==
    {"directory", "evaluate", "result", "extras", "reading", "write", "create",
     "grids", "remove"}

BakeTypes ==
    /\ command \in Commands /\ number \in 0..MaxCommands
    /\ pc \in {"idle", "load"} \cup Working
    /\ frame \in Frames /\ grids \in Seq(Data)
    /\ reading \in Nat \ {0} /\ writing \in Nat \ {0}
    /\ failed \in BOOLEAN /\ unremovable \in BOOLEAN /\ hasDir \in BOOLEAN
    /\ files \in [Places -> FileStates]
    /\ outcome \in {"none", "ok", "error", "refused", "interrupted"}

\* The extra outputs of a graph that is complete are its document's.
ExtrasKept == stage \in {"built", "loaded"} => graph.extras = ExtraSockets(doc)

\* A command is at work only on a document it has loaded.
Begun ==
    /\ number = 0 => /\ pc = "idle" /\ outcome = "none"
                     /\ \A p \in Places : files[p].grids = <<>>
    /\ number > 0 => stage # "unloaded"
    /\ \A p \in Places : files[p].by <= number
    /\ pc \in Working => stage = "loaded"
    /\ pc # "idle" => outcome = "none"

InRange ==
    number > 0 /\ Baking =>
        /\ command.first <= frame
        /\ pc # "idle" => frame <= command.last
        /\ outcome = "ok" => frame = command.last
        /\ pc \in {"load", "directory"} => frame = command.first

\* The file holds nothing but what is due at f, and nothing twice.
RightFile(file, f) ==
    /\ \A i \in 1..Len(file.grids) : file.grids[i] \in Due(f)
    /\ Distinct(file.grids)

FilesSoFar ==
    number > 0 =>
        \A f \in Frames :
            /\ Mine(f) => Baking /\ f \in command.first..frame /\ RightFile(files[f], f)
            /\ Baking /\ f \in command.first..(frame - 1) => Mine(f) /\ Whole(f)

\* The file of the loop's frame, by how far the command has got.
ThisFile ==
    /\ pc \in {"load", "directory"} \/ outcome = "refused" =>
           number > 0 /\ held = {} /\ \A p \in Places : ~Mine(p)
    /\ pc = "directory" => ~NamesClash
    /\ Baking /\ pc \in {"evaluate", "result", "extras", "reading", "write", "create"} =>
           ~Mine(frame)
    /\ Baking /\ pc = "grids" =>
           /\ Mine(frame) /\ Len(files[frame].grids) = writing - 1
           /\ writing <= Len(Zipped) + 1
           /\ \A i \in 1..(writing - 1) : files[frame].grids[i] = Zipped[i]
    /\ Baking /\ outcome = "ok" => Mine(frame) /\ Whole(frame)
    /\ pc = "remove" => Multi
    /\ unremovable => pc = "idle"
    /\ Multi /\ outcome = "error" /\ ~unremovable => ~Mine(frame)

\* Which values are still held: those of the outputs not yet read.
HeldIsLeft ==
    /\ Multi /\ (pc \in {"evaluate", "write", "create", "grids", "remove"} \/ outcome = "error") =>
           held = {}
    /\ pc = "result" => ~Multi
    /\ pc \in {"extras", "reading"} => Multi
    /\ pc = "extras" => held \subseteq Values
    /\ pc = "reading" => held \subseteq {graph.extras[i] : i \in reading..Len(graph.extras)}

\* The grids gs, each under the name at its place, are what is due: nothing
\* else, nothing missing and nothing twice.
Match(gs, names, due) ==
    /\ Len(gs) = Len(names)
    /\ \A i \in 1..Len(gs) : [name |-> names[i], data |-> gs[i]] \in due
    /\ \A g \in due : \E i \in 1..Len(gs) : g = [name |-> names[i], data |-> gs[i]]
    /\ Distinct(gs)

\* What the first n outputs owe the loop's frame.
DueUpTo(n) == UNION {DueOf(k, ShownFrame(frame)) : k \in 1..n}

GridsSoFar ==
    /\ pc = "reading" =>
           /\ reading <= Len(graph.extras) + 1
           /\ ~failed => Match(grids, NamesUpTo(graph, doc)[reading - 1],
                               DueUpTo(reading - 1))
    /\ Baking /\ pc \in {"write", "create", "grids"} =>
           Match(grids, GridNames, Due(frame))

BakeInductive ==
    /\ Inductive /\ ExtrasKept /\ BakeTypes /\ Begun /\ InRange /\ FilesSoFar
    /\ ThisFile /\ HeldIsLeft /\ GridsSoFar

-----------------------------------------------------------------------------
(***************************************************************************)
(* The names of a document's outputs.                                      *)
(***************************************************************************)
Less == {p \in Nat \X Nat : p[1] < p[2]}

LEMMA LeastElement ==
    ASSUME NEW S \in SUBSET Nat, S # {}
    PROVE  \E m \in S : \A n \in S : m <= n
<1>1. IsWellFoundedOn(Less, Nat)
  BY NatLessThanWellFounded DEF OpToRel, Less
<1>2. PICK m \in S : \A n \in S : ~ (<<n, m>> \in Less)
  BY <1>1, WFMin
<1>3. \A n \in S : ~ (n < m)
  BY <1>2 DEF Less
<1> QED
  BY <1>3

LEMMA Joins ==
    ASSUME NEW S, NEW s \in Seq(S), NEW t \in Seq(S)
    PROVE  /\ s \o t \in Seq(S) /\ Len(s \o t) = Len(s) + Len(t)
           /\ Len(s) \in Nat /\ Len(t) \in Nat
           /\ \A i \in 1..Len(s) : (s \o t)[i] = s[i]
           /\ \A i \in 1..Len(t) : (s \o t)[Len(s) + i] = t[i]
           /\ \A e \in S : Append(s, e) = s \o <<e>>
<1>1. \A e \in S : Append(s, e) = s \o <<e>>
  OBVIOUS
<1> QED
  BY <1>1

LEMMA OutputShape ==
    ASSUME NEW d \in Documents
    PROVE  /\ Len(d.outputs) \in Nat
           /\ d.outputs = <<>> <=> Len(d.outputs) = 0
           /\ \A i \in 1..Len(d.outputs) : d.outputs[i].name \in Seq(Text)
<1>1. d.outputs \in Seq(DocOutputs)
  BY DocumentAssumption
<1>2. \A i \in 1..Len(d.outputs) : d.outputs[i] \in DocOutputs
  BY <1>1
<1> QED
  BY <1>1, <1>2 DEF DocOutputs

LEMMA NamesOfType ==
    ASSUME NEW g, NEW d \in Documents, NEW i \in 1..Len(d.outputs)
    PROVE  NamesOf(g, d, i) \in Seq(Seq(Parts))
<1> DEFINE own == d.outputs[i].name
<1>1. own \in Seq(Parts)
  BY OutputShape DEF Parts
<1>2. \A a \in 1..3 : Axes[a] \in Parts
  BY DEF Axes, Parts
<1>3. \A a \in 1..3 : Append(own, Axes[a]) \in Seq(Parts)
  BY <1>1, <1>2
<1>4. NamesOf(g, d, i) \in {[a \in 1..3 |-> Append(own, Axes[a])], <<own>>}
  BY DEF NamesOf
<1> HIDE DEF own
<1>5. [a \in 1..3 |-> Append(own, Axes[a])] \in Seq(Seq(Parts))
  BY <1>3
<1>6. <<own>> \in Seq(Seq(Parts))
  BY <1>1
<1> QED
  BY <1>4, <1>5, <1>6

\* u lists the names of the first outputs of d, up to the n-th.
Listed(u, g, d, n) ==
    /\ u \in [0..n -> Seq(Seq(Parts))]
    /\ u[0] = <<>>
    /\ \A k \in 1..n : u[k] = u[k - 1] \o NamesOf(g, d, k)

LEMMA ListedExtends ==
    ASSUME NEW g, NEW d \in Documents, NEW m \in 1..Len(d.outputs),
           NEW u, Listed(u, g, d, m - 1)
    PROVE  \E v : Listed(v, g, d, m)
<1> DEFINE v == [k \in 0..m |-> IF k = m THEN u[m - 1] \o NamesOf(g, d, m) ELSE u[k]]
<1>1. m \in Nat /\ m - 1 \in 0..(m - 1)
  BY OutputShape
<1>2. u[m - 1] \in Seq(Seq(Parts)) /\ NamesOf(g, d, m) \in Seq(Seq(Parts))
  BY <1>1, NamesOfType DEF Listed
<1>3. u[m - 1] \o NamesOf(g, d, m) \in Seq(Seq(Parts))
  BY <1>2
<1>4. v \in [0..m -> Seq(Seq(Parts))]
  BY <1>1, <1>3 DEF Listed
<1>5. v[0] = <<>>
  BY <1>1 DEF Listed
<1>6. ASSUME NEW k \in 1..m
      PROVE  v[k] = v[k - 1] \o NamesOf(g, d, k)
  <2>1. k \in 0..m /\ k - 1 \in 0..m /\ k - 1 # m /\ v[k - 1] = u[k - 1]
    BY <1>1
  <2>2. CASE k = m
    BY <2>1, <2>2
  <2>3. CASE k # m
    <3>1. k \in 1..(m - 1) /\ v[k] = u[k]
      BY <1>1, <2>1, <2>3
    <3> QED
      BY <2>1, <3>1 DEF Listed
  <2> QED
    BY <2>2, <2>3
<1> HIDE DEF v
<1> QED
  BY <1>4, <1>5, <1>6 DEF Listed

LEMMA ListedExists ==
    ASSUME NEW g, NEW d \in Documents
    PROVE  \A n \in 0..Len(d.outputs) : \E u : Listed(u, g, d, n)
<1> DEFINE Bad == {n \in 0..Len(d.outputs) : ~ \E u : Listed(u, g, d, n)}
<1> SUFFICES ASSUME Bad # {} PROVE FALSE
  OBVIOUS
<1>1. Bad \in SUBSET Nat
  BY OutputShape
<1>2. PICK m \in Bad : \A k \in Bad : m <= k
  BY <1>1, LeastElement
<1>3. Listed([k \in 0..0 |-> <<>>], g, d, 0)
  BY DEF Listed
<1>4. m # 0
  BY <1>3
<1>5. m \in 1..Len(d.outputs) /\ m - 1 \in 0..Len(d.outputs)
  BY <1>4, OutputShape
<1>6. m - 1 \notin Bad
  BY <1>2, <1>5
<1>7. \E v : Listed(v, g, d, m)
  BY <1>5, <1>6, ListedExtends
<1> QED
  BY <1>7

\* The recursive function of NamesUpTo is such a list.
LEMMA NamesAreListed ==
    ASSUME NEW g, NEW d \in Documents
    PROVE  Listed(NamesUpTo(g, d), g, d, Len(d.outputs))
<1> DEFINE P(v) == v = [k \in 0..Len(d.outputs) |->
                           IF k = 0 THEN <<>> ELSE v[k - 1] \o NamesOf(g, d, k)]
           c == CHOOSE v : P(v)
<1>1. Len(d.outputs) \in Nat
  BY OutputShape
<1>2. PICK u : Listed(u, g, d, Len(d.outputs))
  <2>1. Len(d.outputs) \in 0..Len(d.outputs)
    BY <1>1
  <2> QED
    BY <2>1, ListedExists
<1>3. u = [k \in 0..Len(d.outputs) |-> u[k]]
  BY <1>2 DEF Listed
<1>4. \A k \in 0..Len(d.outputs) :
          u[k] = IF k = 0 THEN <<>> ELSE u[k - 1] \o NamesOf(g, d, k)
  <2>1. ASSUME NEW k \in 0..Len(d.outputs)
        PROVE  u[k] = IF k = 0 THEN <<>> ELSE u[k - 1] \o NamesOf(g, d, k)
    <3>1. CASE k = 0
      BY <1>2, <3>1 DEF Listed
    <3>2. CASE k # 0
      <4>1. k \in 1..Len(d.outputs)
        BY <1>1, <3>2
      <4> QED
        BY <1>2, <3>2, <4>1 DEF Listed
    <3> QED
      BY <3>1, <3>2
  <2> QED
    BY <2>1
<1>5. P(u)
  BY <1>3, <1>4
<1>6. P(c)
  BY <1>5, Zenon
<1>7. NamesUpTo(g, d) = c
  BY DEF NamesUpTo
<1> HIDE DEF c
<1>8. \A k \in 0..Len(d.outputs) :
          c[k] = IF k = 0 THEN <<>> ELSE c[k - 1] \o NamesOf(g, d, k)
  BY <1>6
<1>9. c[0] = <<>>
  <2>1. 0 \in 0..Len(d.outputs)
    BY <1>1
  <2> QED
    BY <1>8, <2>1
<1>10. \A k \in 1..Len(d.outputs) : c[k] = c[k - 1] \o NamesOf(g, d, k)
  <2>1. \A k \in 1..Len(d.outputs) : k \in 0..Len(d.outputs) /\ k # 0
    BY <1>1
  <2> QED
    BY <1>8, <2>1
<1> DEFINE Bad == {n \in 0..Len(d.outputs) : c[n] \notin Seq(Seq(Parts))}
<1>11. Bad = {}
  <2> SUFFICES ASSUME Bad # {} PROVE FALSE
    OBVIOUS
  <2>1. Bad \in SUBSET Nat
    BY <1>1
  <2>2. PICK m \in Bad : \A k \in Bad : m <= k
    BY <2>1, LeastElement
  <2>3. m # 0
    <3>1. <<>> \in Seq(Seq(Parts))
      OBVIOUS
    <3>2. c[0] \in Seq(Seq(Parts))
      BY <1>9, <3>1
    <3> QED
      BY <2>2, <3>2
  <2>4. m \in 1..Len(d.outputs) /\ m - 1 \in 0..Len(d.outputs)
    BY <1>1, <2>3
  <2>5. c[m - 1] \in Seq(Seq(Parts)) /\ NamesOf(g, d, m) \in Seq(Seq(Parts))
    BY <2>2, <2>4, NamesOfType
  <2>6. c[m - 1] \o NamesOf(g, d, m) \in Seq(Seq(Parts))
    BY <2>5
  <2> QED
    BY <1>10, <2>2, <2>4, <2>6
<1>12. c \in [0..Len(d.outputs) -> Seq(Seq(Parts))]
  BY <1>6, <1>11
<1> QED
  BY <1>7, <1>9, <1>10, <1>12 DEF Listed

LEMMA ExpandedNamesType ==
    ASSUME NEW g, NEW d \in Documents
    PROVE  ExpandedNames(g, d) \in Seq(Seq(Parts))
  BY NamesAreListed, OutputShape DEF Listed, ExpandedNames

-----------------------------------------------------------------------------
(***************************************************************************)
(* What a step does not change.                                            *)
(***************************************************************************)
LEMMA CommandShape ==
    ASSUME NEW c \in Commands
    PROVE  c.first \in Frames /\ c.last \in Frames /\ c.kind \in {"bake", "preview", "array"}
  BY DEF Commands

LEMMA FrameNumbers ==
    /\ MaxFrame \in Nat /\ StartFrame \in Frames /\ MaxCommands \in Nat
    /\ OutFile \notin Frames /\ OutFile \in Places
    /\ \A f \in Frames : f \in Nat /\ f \in Places /\ ShownFrame(f) \in Frames
  BY BakeAssumption DEF Frames, Places, OutFile, ShownFrame

LEMMA ExtrasBelong ==
    ASSUME Inductive, ExtrasKept, stage = "loaded"
    PROVE  /\ doc \in Documents /\ doc # Nothing /\ Len(doc.outputs) \in Nat
           /\ graph.extras = ExtraSockets(doc) /\ graph.extras \in Seq(Sockets)
           /\ Len(graph.extras) = Len(doc.outputs)
           /\ Socket(graph.output, 0) \in Sockets
<1>1. doc \in Documents /\ graph.output \in Nat
  BY DEF Inductive, Progress, TypeOK
<1> QED
  BY <1>1, ExtraSocketsType, OutputShape, DocumentAssumption
  DEF ExtrasKept, Socket, Sockets

LEMMA AtWork ==
    ASSUME BakeInductive, pc \in Working
    PROVE  /\ stage = "loaded" /\ outcome = "none" /\ ~unremovable
           /\ number \in Nat /\ number > 0 /\ frame \in Frames
           /\ doc \in Documents /\ doc # Nothing /\ Len(doc.outputs) \in Nat
           /\ graph.extras = ExtraSockets(doc) /\ graph.extras \in Seq(Sockets)
           /\ Len(graph.extras) = Len(doc.outputs)
           /\ Socket(graph.output, 0) \in Sockets
           /\ grids \in Seq(Data)
<1>1. stage = "loaded" /\ outcome = "none" /\ ~unremovable
  BY DEF BakeInductive, Begun, ThisFile, Working
<1>2. number \in Nat /\ number > 0 /\ frame \in Frames /\ grids \in Seq(Data)
  BY FrameNumbers DEF BakeInductive, BakeTypes, Begun, Working
<1> QED
  BY <1>1, <1>2, ExtrasBelong DEF BakeInductive

LEMMA SameDocument ==
    ASSUME UNCHANGED <<loading, command>>
    PROVE  /\ Baking' <=> Baking
           /\ Multi' <=> Multi
           /\ NamesClash' <=> NamesClash
           /\ GridNames' = GridNames /\ Values' = Values
           /\ NamesUpTo(graph, doc)' = NamesUpTo(graph, doc)
           /\ \A p : Due(p)' = Due(p)
           /\ \A k, f : DueOf(k, f)' = DueOf(k, f)
           /\ \A file, f : RightFile(file, f)' <=> RightFile(file, f)
           /\ \A p : files'[p] = files[p] => (Whole(p)' <=> Whole(p))
<1>1. UNCHANGED <<graph, doc, command>>
  BY DEF loading
<1>2. (Baking' <=> Baking) /\ (Multi' <=> Multi)
  BY <1>1 DEF Baking, Multi
<1>3. NamesClash' <=> NamesClash
  BY <1>1, <1>2 DEF NamesClash
<1>4. GridNames' = GridNames /\ Values' = Values
  BY <1>1, <1>2 DEF GridNames, Values
<1>5. NamesUpTo(graph, doc)' = NamesUpTo(graph, doc)
  BY <1>1
<1>6. \A k, f : DueOf(k, f)' = DueOf(k, f)
  BY <1>1 DEF DueOf
<1>7. \A p : Due(p)' = Due(p)
  BY <1>1, <1>2, <1>6 DEF Due, Result
<1>8. \A file, f : RightFile(file, f)' <=> RightFile(file, f)
  BY <1>7 DEF RightFile
<1>9. \A p : files'[p] = files[p] => (Whole(p)' <=> Whole(p))
  BY <1>7 DEF Whole
<1> QED
  BY <1>2, <1>3, <1>4, <1>5, <1>6, <1>7, <1>8, <1>9

\* The grids read for a frame stay the ones that are due.
LEMMA SameGrids ==
    ASSUME UNCHANGED <<loading, command, frame, grids>>
    PROVE  /\ Due(frame)' = Due(frame)
           /\ Match(grids, GridNames, Due(frame))' <=> Match(grids, GridNames, Due(frame))
           /\ \A n : DueUpTo(n)' = DueUpTo(n)
<1>1. Due(frame)' = Due(frame)
  <2>1. UNCHANGED <<graph, doc, frame>> /\ (Multi' <=> Multi)
    BY SameDocument DEF loading
  <2> QED
    BY <2>1 DEF Due, FrameAt, ShownFrame, Result, DueOf
<1>2. GridNames' = GridNames
  BY SameDocument
<1>3. \A n : DueUpTo(n)' = DueUpTo(n)
  BY SameDocument DEF DueUpTo, ShownFrame
<1> QED
  BY <1>1, <1>2, <1>3

LEMMA SameLoad ==
    ASSUME Inductive, ExtrasKept, UNCHANGED loading
    PROVE  Inductive' /\ ExtrasKept'
<1>1. UNCHANGED vars
  BY DEF loading, vars
<1> QED
  BY <1>1, Stuttering DEF loading, ExtrasKept

\* A step of a command at work that leaves the files and the frame alone.
LEMMA WorkKeeps ==
    ASSUME BakeInductive, pc # "idle", pc' \in {"load"} \cup Working,
           pc' \in Working => stage = "loaded",
           pc' \in {"load", "directory"} => pc = "load",
           UNCHANGED <<loading, command, number, frame, files, outcome>>
    PROVE  Inductive' /\ ExtrasKept' /\ Begun' /\ InRange' /\ FilesSoFar'
<1>1. Inductive' /\ ExtrasKept'
  BY SameLoad DEF BakeInductive
<1>2. Begun'
  BY DEF BakeInductive, Begun, loading, Working
<1>3. InRange'
  BY DEF BakeInductive, InRange, Baking, Working
<1>4. FilesSoFar'
  BY SameDocument DEF BakeInductive, FilesSoFar, Mine
<1> QED
  BY <1>1, <1>2, <1>3, <1>4

\* A command that gives up, leaving the files as they are.
LEMMA StopStep ==
    ASSUME BakeInductive, pc # "idle", NEW how \in {"error", "refused", "interrupted"},
           Stop(how),
           UNCHANGED <<loading, command, number, frame, hasDir, files>>,
           unremovable' \in BOOLEAN, grids' \in Seq(Data), reading' \in Nat \ {0}, writing' \in Nat \ {0},
           failed' \in BOOLEAN,
           how = "error" /\ Multi => held' = {} /\ (~unremovable' => ~Mine(frame)),
           how = "refused" => pc = "load" /\ held' = held
    PROVE  BakeInductive'
<1>1. pc' = "idle" /\ outcome' = how
  BY DEF Stop
<1>2. Inductive' /\ ExtrasKept'
  BY SameLoad DEF BakeInductive
<1>3. BakeTypes'
  BY <1>1 DEF BakeInductive, BakeTypes
<1>4. Begun'
  BY <1>1 DEF BakeInductive, Begun, loading, Working
<1>5. InRange'
  BY <1>1 DEF BakeInductive, InRange, Baking
<1>6. FilesSoFar'
  BY SameDocument DEF BakeInductive, FilesSoFar, Mine
<1>7. ThisFile'
  BY <1>1, SameDocument DEF BakeInductive, ThisFile, Mine
<1>8. HeldIsLeft'
  BY <1>1, SameDocument DEF HeldIsLeft
<1>9. GridsSoFar'
  BY <1>1 DEF GridsSoFar
<1> QED
  BY <1>2, <1>3, <1>4, <1>5, <1>6, <1>7, <1>8, <1>9 DEF BakeInductive

-----------------------------------------------------------------------------
(***************************************************************************)
(* A command begins and loads its document.                                *)
(***************************************************************************)
LEMMA BakeInitInductive == BakeInit => BakeInductive
<1> SUFFICES ASSUME BakeInit PROVE BakeInductive
  OBVIOUS
<1>1. Inductive /\ ExtrasKept /\ stage = "unloaded"
  BY InitInductive DEF BakeInit, Init, ExtrasKept
<1>2. BakeTypes
  <2>1. command \in Commands /\ 0 \in Frames
    BY FrameNumbers DEF BakeInit, Commands, Frames
  <2>2. Absent \in FileStates
    BY FrameNumbers DEF Absent, FileStates
  <2> QED
    BY <2>1, <2>2, FrameNumbers DEF BakeInit, BakeTypes
<1>3. Begun
  BY FrameNumbers DEF BakeInit, Begun, Absent, Working
<1>4. InRange /\ FilesSoFar /\ HeldIsLeft /\ GridsSoFar
  BY DEF BakeInit, InRange, FilesSoFar, HeldIsLeft, GridsSoFar
<1>5. ThisFile
  BY DEF BakeInit, ThisFile
<1> QED
  BY <1>1, <1>2, <1>3, <1>4, <1>5 DEF BakeInductive

LEMMA StartCommandStep ==
    ASSUME BakeInductive, NEW c \in Commands, StartCommand(c)
    PROVE  BakeInductive'
<1>1. /\ command' = c /\ number' = number + 1 /\ frame' = c.first /\ held' = {}
      /\ grids' = <<>> /\ reading' = 1 /\ writing' = 1 /\ failed' = FALSE
      /\ unremovable' = FALSE /\ UNCHANGED <<hasDir, files>>
      /\ number < MaxCommands /\ pc = "idle"
  BY DEF StartCommand, disk
<1>2. \/ c.first > c.last /\ pc' = "idle" /\ outcome' = "refused"
      \/ ~(c.first > c.last) /\ pc' = "load" /\ outcome' = "none"
  BY DEF StartCommand, Stop
<1>3. number \in Nat /\ number' \in 1..MaxCommands /\ number < number'
  BY <1>1, FrameNumbers DEF BakeInductive, BakeTypes
<1>4. c.first \in Frames /\ c.last \in Frames /\ c.first \in Nat /\ c.last \in Nat
  BY CommandShape, FrameNumbers
<1>5. ReadBy("command line") /\ "command line" \in Callers
  BY DEF StartCommand, Callers
<1>6. Inductive' /\ stage' = "text"
  BY <1>5, ReadStep DEF ReadBy
<1>7. ExtrasKept'
  BY <1>6 DEF ExtrasKept
<1>8. BakeTypes'
  <2>1. files' \in [Places -> FileStates] /\ hasDir' \in BOOLEAN
    BY <1>1 DEF BakeInductive, BakeTypes
  <2>2. number' \in 0..MaxCommands /\ grids' \in Seq(Data)
    BY <1>1, <1>3, FrameNumbers
  <2>3. pc' \in {"idle", "load"} \cup Working /\ outcome' \in {"none", "refused"}
    BY <1>2
  <2>4. failed' \in BOOLEAN /\ unremovable' \in BOOLEAN
    BY <1>1
  <2> QED
    BY <1>1, <1>4, <2>1, <2>2, <2>3, <2>4 DEF BakeTypes
<1>9. \A p \in Places : files'[p].by < number'
  <2>1. \A p \in Places : files[p].by <= number /\ files[p].by \in Nat
    BY FrameNumbers DEF BakeInductive, Begun, BakeTypes, FileStates
  <2> QED
    BY <1>1, <1>3, <2>1
<1>10. \A p \in Places : files'[p].by <= number' /\ files'[p].by # number'
  BY <1>3, <1>9, <1>8, FrameNumbers DEF BakeTypes, FileStates
<1>11. Begun'
  BY <1>2, <1>3, <1>6, <1>10 DEF Begun, Working
<1>12. InRange'
  BY <1>1, <1>2, <1>4 DEF InRange
<1>13. FilesSoFar'
  <2>1. c.first..(c.first - 1) = {}
    BY <1>4
  <2> QED
    BY <1>1, <1>10, <2>1, FrameNumbers DEF FilesSoFar, Mine
<1>14. ThisFile'
  BY <1>1, <1>2, <1>3, <1>10 DEF ThisFile, Mine
<1>15. HeldIsLeft' /\ GridsSoFar'
  BY <1>2 DEF HeldIsLeft, GridsSoFar
<1> QED
  BY <1>6, <1>7, <1>8, <1>11, <1>12, <1>13, <1>14, <1>15 DEF BakeInductive

LEMMA LoadKeepsExtras ==
    ASSUME Inductive, ExtrasKept, Load
    PROVE  ExtrasKept'
<1>1. CASE SetExtras
  BY <1>1 DEF SetExtras, ExtrasKept, Inductive, TypeOK
<1>2. CASE Accept
  BY <1>2 DEF Accept, Refuse, ExtrasKept
<1>3. CASE FromJson \/ ValidateFor \/ AddNode
  BY <1>3 DEF FromJson, ValidateFor, AddNode, Refuse, ExtrasKept
<1>4. CASE CheckOutput \/ Connect
  BY <1>4 DEF CheckOutput, Connect, Refuse, ExtrasKept
<1>5. CASE SetOutput \/ CheckExtra
  BY <1>5 DEF SetOutput, CheckExtra, Refuse, ExtrasKept
<1> QED
  BY <1>1, <1>2, <1>3, <1>4, <1>5 DEF Load

LEMMA LoadStepStep ==
    ASSUME BakeInductive, LoadStep
    PROVE  BakeInductive'
<1>1. /\ pc = "load" /\ Load /\ stage # "loaded"
      /\ UNCHANGED <<command, number, pc, frame, held, grids, reading, writing,
                     failed, unremovable, hasDir, files, outcome>>
  BY DEF LoadStep, Loading, locals, disk
<1>2. Inductive' /\ ExtrasKept'
  BY <1>1, LoadInductive, LoadKeepsExtras DEF BakeInductive
<1>3. doc' = doc /\ stage' # "unloaded"
  <2>1. CASE FromJson \/ ValidateFor \/ AddNode
    BY <2>1 DEF FromJson, ValidateFor, AddNode, Refuse
  <2>2. CASE CheckOutput \/ Connect \/ SetOutput
    BY <2>2 DEF CheckOutput, Connect, SetOutput, Refuse
  <2>3. CASE CheckExtra \/ SetExtras \/ Accept
    BY <2>3 DEF CheckExtra, SetExtras, Accept, Refuse
  <2> QED
    BY <1>1, <2>1, <2>2, <2>3 DEF Load
<1>4. number > 0 /\ \A p \in Places : ~Mine(p)
  BY <1>1 DEF BakeInductive, ThisFile
<1>5. BakeTypes'
  BY <1>1 DEF BakeInductive, BakeTypes
<1>6. Begun'
  BY <1>1, <1>3 DEF BakeInductive, Begun, Working
<1>7. InRange'
  BY <1>1 DEF BakeInductive, InRange, Baking
<1>8. FilesSoFar'
  <2>1. Baking => frame = command.first /\ frame \in Nat
    BY <1>1, <1>4, FrameNumbers DEF BakeInductive, InRange, BakeTypes
  <2>2. Baking => command.first..(frame - 1) = {}
    BY <2>1
  <2> QED
    BY <1>1, <1>4, <2>2, FrameNumbers DEF FilesSoFar, Mine, Baking
<1>9. ThisFile'
  BY <1>1 DEF BakeInductive, ThisFile, Mine, Begun
<1>10. HeldIsLeft' /\ GridsSoFar'
  BY <1>1 DEF BakeInductive, HeldIsLeft, GridsSoFar, Begun
<1> QED
  BY <1>2, <1>5, <1>6, <1>7, <1>8, <1>9, <1>10 DEF BakeInductive

LEMMA LoadEndsStep ==
    ASSUME BakeInductive, LoadFails \/ LoadRefused
    PROVE  BakeInductive'
<1>1. /\ Stop("error") \/ Stop("refused")
      /\ UNCHANGED <<loading, command, number, frame, held, grids, reading, writing,
                     failed, unremovable, hasDir, files>>
  BY DEF LoadFails, LoadRefused, Loading, locals, disk
<1>2. pc = "load" /\ held = {} /\ \A p \in Places : ~Mine(p)
  BY DEF LoadFails, LoadRefused, Loading, BakeInductive, ThisFile
<1>3. ~Mine(frame) /\ unremovable' \in BOOLEAN
  BY <1>1, <1>2, FrameNumbers DEF BakeInductive, BakeTypes
<1> QED
  BY <1>1, <1>2, <1>3, StopStep DEF BakeInductive, BakeTypes

LEMMA LoadedStep ==
    ASSUME BakeInductive, Loaded
    PROVE  BakeInductive'
<1>1. /\ pc = "load" /\ stage = "loaded"
      /\ UNCHANGED <<loading, command, number, frame, held, grids, reading, writing,
                     failed, unremovable, hasDir, files>>
  BY DEF Loaded, locals, disk
<1>2. CASE NamesClash
  <2>1. Stop("refused")
    BY <1>2 DEF Loaded
  <2> QED
    BY <1>1, <2>1, StopStep DEF BakeInductive, BakeTypes
<1>3. CASE ~NamesClash
  <2>1. /\ outcome' = outcome /\ pc' = IF Baking THEN "directory" ELSE "evaluate"
    BY <1>3 DEF Loaded
  <2>2. Inductive' /\ ExtrasKept' /\ Begun' /\ InRange' /\ FilesSoFar'
    BY <1>1, <2>1, WorkKeeps DEF Working
  <2>3. BakeTypes'
    BY <1>1, <2>1 DEF BakeInductive, BakeTypes, Working
  <2>4. ThisFile'
    BY <1>1, <1>3, <2>1, SameDocument DEF BakeInductive, ThisFile, Mine, Begun
  <2>5. HeldIsLeft'
    BY <1>1, <2>1, SameDocument DEF BakeInductive, HeldIsLeft, ThisFile, Begun
  <2>6. GridsSoFar'
    BY <2>1 DEF GridsSoFar
  <2> QED
    BY <2>2, <2>3, <2>4, <2>5, <2>6 DEF BakeInductive
<1> QED
  BY <1>2, <1>3

LEMMA MakeDirectoryStep ==
    ASSUME BakeInductive, MakeDirectory
    PROVE  BakeInductive'
<1>1. /\ pc = "directory"
      /\ UNCHANGED <<loading, command, number, frame, held, grids, reading, writing,
                     failed, unremovable, files>>
  BY DEF MakeDirectory, locals
<1>2. held = {} /\ number > 0 /\ \A p \in Places : ~Mine(p)
  BY <1>1 DEF BakeInductive, ThisFile
<1>3. CASE Stop("error") /\ UNCHANGED hasDir
  <2>1. ~Mine(frame) /\ unremovable' \in BOOLEAN
    BY <1>1, <1>2, FrameNumbers DEF BakeInductive, BakeTypes
  <2> QED
    BY <1>1, <1>2, <1>3, <2>1, StopStep DEF BakeInductive, BakeTypes
<1>4. CASE hasDir' = TRUE /\ pc' = "evaluate" /\ UNCHANGED outcome
  <2>1. stage = "loaded" /\ frame \in Places
    BY <1>1, AtWork, FrameNumbers DEF Working
  <2>2. Inductive' /\ ExtrasKept' /\ Begun' /\ InRange' /\ FilesSoFar'
    BY <1>1, <1>4, <2>1, WorkKeeps DEF Working
  <2>3. BakeTypes'
    BY <1>1, <1>4 DEF BakeInductive, BakeTypes, Working
  <2>4. ThisFile'
    BY <1>1, <1>2, <1>4, <2>1, SameDocument DEF BakeInductive, ThisFile, Mine, Begun, Working
  <2>5. HeldIsLeft' /\ GridsSoFar'
    BY <1>1, <1>2, <1>4 DEF HeldIsLeft, GridsSoFar
  <2> QED
    BY <2>2, <2>3, <2>4, <2>5 DEF BakeInductive
<1> QED
  BY <1>3, <1>4 DEF MakeDirectory

LEMMA InterruptStep ==
    ASSUME BakeInductive, Interrupt
    PROVE  BakeInductive'
<1>1. /\ pc # "idle" /\ Stop("interrupted")
      /\ UNCHANGED <<loading, command, number, frame, held, grids, reading, writing,
                     failed, unremovable, hasDir, files>>
  BY DEF Interrupt, locals, disk
<1> QED
  BY <1>1, StopStep DEF BakeInductive, BakeTypes

-----------------------------------------------------------------------------
(***************************************************************************)
(* A frame is evaluated and read back.                                     *)
(***************************************************************************)
LEMMA EvaluateStep ==
    ASSUME BakeInductive, Evaluate
    PROVE  BakeInductive'
<1>1. /\ pc = "evaluate"
      /\ UNCHANGED <<loading, command, number, frame, grids, reading, writing,
                     failed, unremovable, hasDir, files>>
  BY DEF Evaluate, disk
<1>2. CASE Stop("error") /\ UNCHANGED held
  <2>1. Multi => held' = {} /\ ~Mine(frame)
    BY <1>1, <1>2 DEF BakeInductive, HeldIsLeft, ThisFile, Multi
  <2> QED
    BY <1>1, <1>2, <2>1, StopStep DEF BakeInductive, BakeTypes
<1>3. CASE /\ held' = Evaluated /\ UNCHANGED outcome
           /\ pc' = IF Multi THEN "extras" ELSE "result"
  <2>1. stage = "loaded" /\ outcome = "none"
    BY <1>1, AtWork DEF Working
  <2>2. Inductive' /\ ExtrasKept' /\ Begun' /\ InRange' /\ FilesSoFar'
    BY <1>1, <1>3, <2>1, WorkKeeps DEF Working
  <2>3. BakeTypes'
    BY <1>1, <1>3 DEF BakeInductive, BakeTypes, Working
  <2>4. ThisFile'
    BY <1>1, <1>3, <2>1, SameDocument DEF BakeInductive, ThisFile, Mine
  <2>5. HeldIsLeft'
    <3>1. Multi => Evaluated = Values
      BY DEF Multi, Evaluated
    <3> QED
      BY <1>1, <1>3, <2>1, <3>1, SameDocument DEF HeldIsLeft
  <2>6. GridsSoFar'
    BY <1>3 DEF GridsSoFar
  <2> QED
    BY <2>2, <2>3, <2>4, <2>5, <2>6 DEF BakeInductive
<1> QED
  BY <1>2, <1>3 DEF Evaluate

LEMMA ShownIsFrame ==
    ASSUME BakeInductive
    PROVE  ShownNow \in Frames /\ (Baking => ShownNow = ShownFrame(frame))
  BY FrameNumbers DEF BakeInductive, BakeTypes, ShownNow

LEMMA ReadResultStep ==
    ASSUME BakeInductive, ReadResult
    PROVE  BakeInductive'
<1>1. /\ pc = "result"
      /\ UNCHANGED <<loading, command, number, frame, reading, writing, failed,
                     unremovable, hasDir, files>>
  BY DEF ReadResult, disk
<1>2. ~Multi
  BY <1>1 DEF BakeInductive, HeldIsLeft
<1>3. CASE Stop("error") /\ UNCHANGED <<grids, held>>
  BY <1>1, <1>2, <1>3, StopStep DEF BakeInductive, BakeTypes
<1>4. CASE /\ grids' = <<Result(ShownNow)>> /\ pc' = "write" /\ UNCHANGED outcome
  <2>1. /\ stage = "loaded" /\ outcome = "none" /\ Socket(graph.output, 0) \in Sockets
    BY <1>1, AtWork DEF Working
  <2>2. Inductive' /\ ExtrasKept' /\ Begun' /\ InRange' /\ FilesSoFar'
    BY <1>1, <1>4, <2>1, WorkKeeps DEF Working
  <2>3. Result(ShownNow) \in Data
    BY <2>1, ShownIsFrame DEF Result, Data, Axis
  <2>4. grids' \in Seq(Data) /\ Len(grids') = 1 /\ grids'[1] = Result(ShownNow)
    BY <1>4, <2>3
  <2>5. BakeTypes'
    BY <1>1, <1>4, <2>4 DEF BakeInductive, BakeTypes, Working
  <2>6. ThisFile'
    BY <1>1, <1>4, <2>1, SameDocument DEF BakeInductive, ThisFile, Mine
  <2>7. HeldIsLeft'
    BY <1>1, <1>2, <1>4, <2>1, SameDocument DEF HeldIsLeft
  <2>8. ASSUME Baking
        PROVE  Match(grids, GridNames, Due(frame))'
    <3>1. GridNames' = <<SingleName>> /\ UNCHANGED <<graph, frame, doc, command>>
      BY <1>1, <1>2, SameDocument DEF GridNames, loading
    <3>2. ShownNow = FrameAt(frame)
      BY <2>8, ShownIsFrame, AtWork, <1>1, FrameNumbers DEF FrameAt, Working
    <3>3. Due(frame)' = {[name |-> SingleName, data |-> grids'[1]]}
      BY <1>2, <2>4, <3>1, <3>2 DEF Due, Result, Multi, Baking, FrameAt, ShownFrame
    <3> HIDE DEF Result
    <3>4. Match(grids', <<SingleName>>, {[name |-> SingleName, data |-> grids'[1]]})
      BY <2>4 DEF Match, Distinct
    <3> QED
      BY <3>1, <3>3, <3>4
  <2>9. GridsSoFar'
    BY <1>1, <1>4, <2>4, <2>8, SameDocument DEF GridsSoFar
  <2> QED
    BY <2>2, <2>5, <2>6, <2>7, <2>9 DEF BakeInductive
<1> QED
  BY <1>3, <1>4 DEF ReadResult

LEMMA ReleaseResultStep ==
    ASSUME BakeInductive, ReleaseResult
    PROVE  BakeInductive'
<1>1. /\ pc = "extras" /\ pc' = "reading"
      /\ held' = held \ {Socket(graph.output, 0)}
      /\ grids' = <<>> /\ reading' = 1 /\ failed' = FALSE
      /\ UNCHANGED <<loading, command, number, frame, writing, unremovable, hasDir,
                     files, outcome>>
  BY DEF ReleaseResult, disk
<1>2. /\ stage = "loaded" /\ outcome = "none" /\ doc \in Documents
      /\ Len(graph.extras) \in Nat /\ graph.extras \in Seq(Sockets)
  BY <1>1, AtWork DEF Working
<1>3. Inductive' /\ ExtrasKept' /\ Begun' /\ InRange' /\ FilesSoFar'
  BY <1>1, <1>2, WorkKeeps DEF Working
<1>4. BakeTypes'
  <2>1. failed' \in BOOLEAN
    BY <1>1
  <2>2. grids' \in Seq(Data)
    BY <1>1
  <2> QED
    BY <1>1, <2>1, <2>2 DEF BakeInductive, BakeTypes, Working
<1>5. ThisFile'
  BY <1>1, <1>2, SameDocument DEF BakeInductive, ThisFile, Mine
<1>6. HeldIsLeft'
  <2>1. held' \subseteq {graph.extras[i] : i \in 1..Len(graph.extras)}
    BY <1>1, <1>2 DEF BakeInductive, HeldIsLeft, Values
  <2>2. graph' = graph /\ Multi
    BY <1>1 DEF loading, BakeInductive, HeldIsLeft
  <2> QED
    BY <1>1, <1>2, <2>1, <2>2, SameDocument DEF HeldIsLeft
<1>7. GridsSoFar'
  <2>1. NamesUpTo(graph, doc)'[0] = <<>>
    BY <1>1, <1>2, SameDocument, NamesAreListed DEF Listed
  <2>2. Match(grids, NamesUpTo(graph, doc)[reading - 1], DueUpTo(reading - 1))'
    <3>1. DueUpTo(0)' = {}
      BY DEF DueUpTo
    <3>2. Match(<<>>, <<>>, {})
      BY DEF Match, Distinct
    <3>3. reading' - 1 = 0
      BY <1>1
    <3> QED
      BY <1>1, <2>1, <3>1, <3>2, <3>3 DEF DueUpTo
  <2>3. graph' = graph
    BY <1>1 DEF loading
  <2> QED
    BY <1>1, <1>2, <2>2, <2>3 DEF GridsSoFar
<1> QED
  BY <1>3, <1>4, <1>5, <1>6, <1>7 DEF BakeInductive

\* The grids of one extra output, under the names that it expands to, are what
\* the output owes.
LEMMA OneOutputMatches ==
    ASSUME BakeInductive, pc = "reading", NEW i \in 1..Len(graph.extras)
    PROVE  /\ GridsOf(ShownNow, graph.extras[i]) \in Seq(Data)
           /\ NamesOf(graph, doc, i) \in Seq(Seq(Parts))
           /\ Match(GridsOf(ShownNow, graph.extras[i]), NamesOf(graph, doc, i),
                    DueOf(i, ShownFrame(frame)))
<1> DEFINE s == graph.extras[i]
           own == doc.outputs[i].name
           of(a) == [frame |-> ShownNow, socket |-> s, axis |-> a]
<1>1. /\ doc \in Documents /\ graph.extras = ExtraSockets(doc) /\ i \in 1..Len(doc.outputs)
      /\ s \in Sockets
  BY AtWork DEF Working
<1>2. Multi /\ Baking
  BY DEF BakeInductive, HeldIsLeft, Multi
<1>3. ShownNow \in Frames /\ ShownNow = ShownFrame(frame)
  BY <1>2, ShownIsFrame
<1>4. own \in Seq(Parts) /\ NamesOf(graph, doc, i) \in Seq(Seq(Parts))
  BY <1>1, OutputShape, NamesOfType DEF Parts
<1>5. ExtraSockets(doc)[i] = s
  BY <1>1
<1>6. CASE OutputType(graph, s) = "vector"
  <2>1. Axes[1] = "x" /\ Axes[2] = "y" /\ Axes[3] = "z"
    BY DEF Axes
  <2>2. NamesOf(graph, doc, i) = [a \in 1..3 |-> Append(own, Axes[a])]
    BY <1>5, <1>6 DEF NamesOf
  <2>3. GridsOf(ShownNow, s) = [a \in 1..3 |-> of(Axes[a])]
    BY <1>6 DEF GridsOf
  <2>4. DueOf(i, ShownFrame(frame))
            = {[name |-> Append(own, a), data |-> of(a)] : a \in {"x", "y", "z"}}
    <3>1. \A a \in {"x", "y", "z"} : a # "none"
      OBVIOUS
    <3> QED
      BY <1>3, <1>5, <1>6, <3>1 DEF DueOf
  <2>5. \A a \in {"x", "y", "z"} : of(a) \in Data /\ of(a).axis = a
    BY <1>1, <1>3 DEF Data, Axis
  <2> HIDE DEF s, own, of
  <2>6. GridsOf(ShownNow, s) \in Seq(Data) /\ Len(GridsOf(ShownNow, s)) = 3
        /\ \A a \in 1..3 : GridsOf(ShownNow, s)[a] = of(Axes[a])
    BY <2>1, <2>3, <2>5
  <2>7. Len(NamesOf(graph, doc, i)) = 3
        /\ \A a \in 1..3 : NamesOf(graph, doc, i)[a] = Append(own, Axes[a])
    BY <2>2
  <2>8. \A a \in 1..3 : [name |-> NamesOf(graph, doc, i)[a],
                         data |-> GridsOf(ShownNow, s)[a]] \in DueOf(i, ShownFrame(frame))
    <3> SUFFICES ASSUME NEW a \in 1..3
                 PROVE  [name |-> Append(own, Axes[a]), data |-> of(Axes[a])]
                            \in DueOf(i, ShownFrame(frame))
      BY <2>6, <2>7
    <3>1. Axes[a] \in {"x", "y", "z"}
      BY <2>1
    <3> QED
      BY <2>4, <3>1
  <2>9. \A g \in DueOf(i, ShownFrame(frame)) :
            \E a \in 1..3 : g = [name |-> NamesOf(graph, doc, i)[a],
                                 data |-> GridsOf(ShownNow, s)[a]]
    <3>1. \A a \in 1..3 : [name |-> NamesOf(graph, doc, i)[a],
                           data |-> GridsOf(ShownNow, s)[a]]
                              = [name |-> Append(own, Axes[a]), data |-> of(Axes[a])]
      BY <2>6, <2>7
    <3>2. ASSUME NEW b \in {"x", "y", "z"}
          PROVE  \E a \in 1..3 : Axes[a] = b
      BY <2>1
    <3> SUFFICES ASSUME NEW b \in {"x", "y", "z"}
                 PROVE  \E a \in 1..3 : [name |-> Append(own, b), data |-> of(b)]
                            = [name |-> NamesOf(graph, doc, i)[a],
                               data |-> GridsOf(ShownNow, s)[a]]
      BY <2>4
    <3>3. PICK a \in 1..3 : Axes[a] = b
      BY <3>2
    <3> QED
      BY <3>1, <3>3
  <2>10. Distinct(GridsOf(ShownNow, s))
    <3>1. \A a \in 1..3 : GridsOf(ShownNow, s)[a].axis = Axes[a]
      BY <2>1, <2>5, <2>6
    <3> QED
      BY <2>1, <2>6, <3>1 DEF Distinct
  <2>11. Match(GridsOf(ShownNow, s), NamesOf(graph, doc, i), DueOf(i, ShownFrame(frame)))
    BY <2>6, <2>7, <2>8, <2>9, <2>10 DEF Match
  <2> QED
    BY <1>4, <2>6, <2>11 DEF s
<1>7. CASE OutputType(graph, s) # "vector"
  <2>1. NamesOf(graph, doc, i) = <<own>>
    BY <1>5, <1>7 DEF NamesOf
  <2>2. GridsOf(ShownNow, s) = <<of("none")>>
    BY <1>7 DEF GridsOf
  <2>3. of("none") \in Data
    BY <1>1, <1>3 DEF Data, Axis
  <2>4. DueOf(i, ShownFrame(frame)) = {[name |-> own, data |-> of("none")]}
    BY <1>3, <1>5, <1>7 DEF DueOf
  <2> HIDE DEF s, own, of
  <2>5. GridsOf(ShownNow, s) \in Seq(Data)
    BY <2>2, <2>3
  <2>6. Match(<<of("none")>>, <<own>>, {[name |-> own, data |-> of("none")]})
    BY DEF Match, Distinct
  <2>7. Match(GridsOf(ShownNow, s), NamesOf(graph, doc, i), DueOf(i, ShownFrame(frame)))
    BY <2>1, <2>2, <2>4, <2>6
  <2> QED
    BY <1>4, <2>5, <2>7 DEF s
<1> QED
  BY <1>6, <1>7

\* The grids of further outputs are added, and their names.
LEMMA MatchesJoin ==
    ASSUME NEW gs \in Seq(Data), NEW hs \in Seq(Data),
           NEW names \in Seq(Seq(Parts)), NEW more \in Seq(Seq(Parts)),
           NEW D, NEW E, Match(gs, names, D), Match(hs, more, E),
           \A d \in D, e \in E : d.data # e.data
    PROVE  Match(gs \o hs, names \o more, D \cup E)
<1> DEFINE all == gs \o hs
           listed == names \o more
<1>1. /\ Len(gs) = Len(names) /\ Len(hs) = Len(more) /\ Distinct(gs) /\ Distinct(hs)
      /\ \A i \in 1..Len(gs) : [name |-> names[i], data |-> gs[i]] \in D
      /\ \A i \in 1..Len(hs) : [name |-> more[i], data |-> hs[i]] \in E
      /\ \A d \in D : \E i \in 1..Len(gs) : d = [name |-> names[i], data |-> gs[i]]
      /\ \A e \in E : \E i \in 1..Len(hs) : e = [name |-> more[i], data |-> hs[i]]
  BY DEF Match
<1>2. /\ Len(all) = Len(gs) + Len(hs) /\ Len(gs) \in Nat /\ Len(hs) \in Nat
      /\ Len(listed) = Len(gs) + Len(hs)
      /\ \A i \in 1..Len(gs) : all[i] = gs[i] /\ listed[i] = names[i]
      /\ \A i \in 1..Len(hs) : all[Len(gs) + i] = hs[i] /\ listed[Len(gs) + i] = more[i]
  <2>1. /\ Len(all) = Len(gs) + Len(hs) /\ Len(gs) \in Nat /\ Len(hs) \in Nat
        /\ \A i \in 1..Len(gs) : all[i] = gs[i]
        /\ \A i \in 1..Len(hs) : all[Len(gs) + i] = hs[i]
    BY Joins
  <2>2. /\ Len(listed) = Len(names) + Len(more)
        /\ \A i \in 1..Len(names) : listed[i] = names[i]
        /\ \A i \in 1..Len(more) : listed[Len(names) + i] = more[i]
    BY Joins
  <2> HIDE DEF all, listed
  <2> QED
    BY <1>1, <2>1, <2>2
<1> HIDE DEF all, listed
<1>3. \A i \in 1..Len(all) :
          \/ i \in 1..Len(gs) /\ all[i] = gs[i] /\ listed[i] = names[i]
          \/ /\ i - Len(gs) \in 1..Len(hs) /\ all[i] = hs[i - Len(gs)]
             /\ listed[i] = more[i - Len(gs)]
  <2> SUFFICES ASSUME NEW i \in 1..Len(all)
               PROVE  \/ i \in 1..Len(gs) /\ all[i] = gs[i] /\ listed[i] = names[i]
                      \/ /\ i - Len(gs) \in 1..Len(hs) /\ all[i] = hs[i - Len(gs)]
                         /\ listed[i] = more[i - Len(gs)]
    OBVIOUS
  <2>1. CASE i <= Len(gs)
    BY <1>2, <2>1
  <2>2. CASE i > Len(gs)
    <3>1. i - Len(gs) \in 1..Len(hs) /\ Len(gs) + (i - Len(gs)) = i
      BY <1>2, <2>2
    <3> QED
      BY <1>2, <3>1
  <2> QED
    BY <1>2, <2>1, <2>2
<1>4. \A i \in 1..Len(all) : [name |-> listed[i], data |-> all[i]] \in D \cup E
  BY <1>1, <1>3
<1>5. ASSUME NEW g \in D \cup E
      PROVE  \E i \in 1..Len(all) : g = [name |-> listed[i], data |-> all[i]]
  <2>1. CASE g \in D
    <3>1. PICK i \in 1..Len(gs) : g = [name |-> names[i], data |-> gs[i]]
      BY <1>1, <2>1
    <3> QED
      BY <1>2, <3>1
  <2>2. CASE g \in E
    <3>1. PICK i \in 1..Len(hs) : g = [name |-> more[i], data |-> hs[i]]
      BY <1>1, <2>2
    <3>2. Len(gs) + i \in 1..Len(all)
      BY <1>2, <3>1
    <3> QED
      BY <1>2, <3>1, <3>2
  <2> QED
    BY <2>1, <2>2
<1>6. ASSUME NEW i \in 1..Len(gs), NEW j \in 1..Len(hs)
      PROVE  gs[i] # hs[j]
  <2>1. /\ [name |-> names[i], data |-> gs[i]] \in D
        /\ [name |-> more[j], data |-> hs[j]] \in E
    BY <1>1
  <2> QED
    BY <2>1
<1>7. Distinct(all)
  <2> SUFFICES ASSUME NEW i \in 1..Len(all), NEW j \in 1..Len(all), all[i] = all[j]
               PROVE  i = j
    BY DEF Distinct
  <2>1. CASE i \in 1..Len(gs) /\ all[i] = gs[i] /\ j \in 1..Len(gs) /\ all[j] = gs[j]
    BY <1>1, <2>1 DEF Distinct
  <2>2. CASE /\ i - Len(gs) \in 1..Len(hs) /\ all[i] = hs[i - Len(gs)]
             /\ j - Len(gs) \in 1..Len(hs) /\ all[j] = hs[j - Len(gs)]
    <3>1. i - Len(gs) = j - Len(gs)
      BY <1>1, <2>2 DEF Distinct
    <3> QED
      BY <1>2, <3>1
  <2>3. CASE /\ i \in 1..Len(gs) /\ all[i] = gs[i]
             /\ j - Len(gs) \in 1..Len(hs) /\ all[j] = hs[j - Len(gs)]
    BY <1>6, <2>3
  <2>4. CASE /\ i - Len(gs) \in 1..Len(hs) /\ all[i] = hs[i - Len(gs)]
             /\ j \in 1..Len(gs) /\ all[j] = gs[j]
    BY <1>6, <2>4
  <2> QED
    BY <1>3, <2>1, <2>2, <2>3, <2>4
<1>8. Len(all) = Len(listed)
  BY <1>2
<1>9. Match(all, listed, D \cup E)
  BY <1>4, <1>5, <1>7, <1>8 DEF Match
<1> QED
  BY <1>9 DEF all, listed

\* What one output owes is of another socket than what those before it owe.
LEMMA OwedApart ==
    ASSUME BakeInductive, pc = "reading", NEW n \in 1..Len(doc.outputs)
    PROVE  /\ DueUpTo(n) = DueUpTo(n - 1) \cup DueOf(n, ShownFrame(frame))
           /\ \A d \in DueUpTo(n - 1), e \in DueOf(n, ShownFrame(frame)) : d.data # e.data
<1>1. /\ Len(doc.outputs) \in Nat /\ Len(graph.extras) = Len(doc.outputs)
      /\ graph.extras = ExtraSockets(doc)
  BY AtWork DEF Working
<1>2. \A k, f : \A g \in DueOf(k, f) : g.data.socket = ExtraSockets(doc)[k]
  BY DEF DueOf
<1>3. \A k \in 1..(n - 1) : k \in 1..Len(graph.extras) /\ n \in 1..Len(graph.extras) /\ k # n
  BY <1>1
<1>4. \A k \in 1..(n - 1) : graph.extras[k] # graph.extras[n]
  BY <1>3 DEF BakeInductive, Inductive, ExtrasAreOwnable
<1>5. \A k : k \in 1..n <=> k \in 1..(n - 1) \/ k = n
  BY <1>1
<1>6. DueUpTo(n) = DueUpTo(n - 1) \cup DueOf(n, ShownFrame(frame))
  BY <1>5 DEF DueUpTo
<1>7. \A d \in DueUpTo(n - 1) : \E k \in 1..(n - 1) : d.data.socket = graph.extras[k]
  BY <1>1, <1>2 DEF DueUpTo
<1>8. \A e \in DueOf(n, ShownFrame(frame)) : e.data.socket = graph.extras[n]
  BY <1>1, <1>2
<1> QED
  BY <1>4, <1>6, <1>7, <1>8

LEMMA ReadExtraStep ==
    ASSUME BakeInductive, ReadExtra
    PROVE  BakeInductive'
<1> DEFINE more == GridsOf(ShownNow, graph.extras[reading])
<1>1. /\ pc = "reading" /\ pc' = "reading" /\ reading <= Len(graph.extras)
      /\ \/ ~failed /\ grids' = grids \o more /\ failed' = failed
         \/ failed' = TRUE /\ grids' = grids
      /\ held' = held \ {graph.extras[reading]} /\ reading' = reading + 1
      /\ UNCHANGED <<loading, command, number, frame, writing, unremovable, hasDir,
                     files, outcome>>
  BY DEF ReadExtra, disk
<1>2. /\ stage = "loaded" /\ outcome = "none" /\ doc \in Documents /\ grids \in Seq(Data)
      /\ Len(graph.extras) \in Nat /\ graph.extras \in Seq(Sockets)
      /\ Len(graph.extras) = Len(doc.outputs)
  BY <1>1, AtWork DEF Working
<1>3. reading \in Nat \ {0} /\ reading \in 1..Len(graph.extras) /\ graph' = graph
      /\ failed \in BOOLEAN
  BY <1>1, <1>2 DEF BakeInductive, BakeTypes, loading
<1>4. /\ more \in Seq(Data) /\ NamesOf(graph, doc, reading) \in Seq(Seq(Parts))
      /\ Match(more, NamesOf(graph, doc, reading), DueOf(reading, ShownFrame(frame)))
  BY <1>1, <1>3, OneOutputMatches
<1> HIDE DEF more
<1>5. Inductive' /\ ExtrasKept' /\ Begun' /\ InRange' /\ FilesSoFar'
  BY <1>1, <1>2, WorkKeeps DEF Working
<1>6. BakeTypes'
  <2>1. grids \o more \in Seq(Data) /\ reading' \in Nat \ {0}
    BY <1>1, <1>2, <1>3, <1>4
  <2>2. grids' \in Seq(Data)
    BY <1>1, <1>2, <2>1
  <2>3. failed' \in BOOLEAN
    BY <1>1, <1>3, Zenon
  <2> QED
    BY <1>1, <2>1, <2>2, <2>3 DEF BakeInductive, BakeTypes, Working
<1>7. ThisFile'
  BY <1>1, <1>2, SameDocument DEF BakeInductive, ThisFile, Mine
<1>8. HeldIsLeft'
  <2>1. held \subseteq {graph.extras[i] : i \in reading..Len(graph.extras)} /\ Multi
    BY <1>1 DEF BakeInductive, HeldIsLeft
  <2>2. \A i \in reading..Len(graph.extras) :
            i = reading \/ i \in (reading + 1)..Len(graph.extras)
    BY <1>2, <1>3
  <2>3. held' \subseteq {graph.extras[i] : i \in (reading + 1)..Len(graph.extras)}
    BY <1>1, <2>1, <2>2
  <2> QED
    BY <1>1, <1>2, <1>3, <2>1, <2>3, SameDocument DEF HeldIsLeft
<1>9. GridsSoFar'
  <2>1. reading' <= Len(graph'.extras) + 1 /\ reading' - 1 = reading
    BY <1>1, <1>2, <1>3
  <2>2. ASSUME ~failed'
        PROVE  Match(grids, NamesUpTo(graph, doc)[reading - 1], DueUpTo(reading - 1))'
    <3> DEFINE u == NamesUpTo(graph, doc)
    <3>1. ~failed /\ grids' = grids \o more
      BY <1>1, <2>2
    <3>2. Match(grids, u[reading - 1], DueUpTo(reading - 1))
      BY <1>1, <3>1 DEF BakeInductive, GridsSoFar
    <3>3. Listed(u, graph, doc, Len(doc.outputs))
      BY <1>2, NamesAreListed
    <3>4. u[reading] = u[reading - 1] \o NamesOf(graph, doc, reading)
          /\ u[reading - 1] \in Seq(Seq(Parts))
      <4>1. reading \in 1..Len(doc.outputs) /\ reading - 1 \in 0..Len(doc.outputs)
        BY <1>2, <1>3
      <4> QED
        BY <3>3, <4>1 DEF Listed
    <3>5. u' = u
      BY <1>1, SameDocument
    <3> HIDE DEF u
    <3>6. Match(grids', u[reading], DueUpTo(reading))
      <4>1. /\ DueUpTo(reading)
                   = DueUpTo(reading - 1) \cup DueOf(reading, ShownFrame(frame))
            /\ \A d \in DueUpTo(reading - 1), e \in DueOf(reading, ShownFrame(frame)) :
                   d.data # e.data
        BY <1>1, <1>2, <1>3, OwedApart
      <4> HIDE DEF DueUpTo, DueOf
      <4>2. Match(grids \o more, u[reading - 1] \o NamesOf(graph, doc, reading),
                  DueUpTo(reading - 1) \cup DueOf(reading, ShownFrame(frame)))
        BY <1>2, <1>4, <3>2, <3>4, <4>1, MatchesJoin
      <4> QED
        BY <3>1, <3>4, <4>1, <4>2
    <3>7. DueUpTo(reading - 1)' = DueUpTo(reading)
      <4>1. \A n : DueUpTo(n)' = UNION {DueOf(k, ShownFrame(frame)) : k \in 1..n}
        BY <1>1, SameDocument DEF DueUpTo, ShownFrame
      <4> QED
        BY <2>1, <4>1 DEF DueUpTo
    <3> QED
      BY <2>1, <3>5, <3>6, <3>7 DEF u
  <2> QED
    BY <1>1, <2>1, <2>2 DEF GridsSoFar
<1> QED
  BY <1>5, <1>6, <1>7, <1>8, <1>9 DEF BakeInductive

LEMMA EndReadingStep ==
    ASSUME BakeInductive, EndReading
    PROVE  BakeInductive'
<1>1. /\ pc = "reading" /\ reading > Len(graph.extras)
      /\ UNCHANGED <<loading, command, number, frame, held, grids, reading, writing,
                     failed, unremovable, hasDir, files>>
  BY DEF EndReading, locals, disk
<1>2. /\ stage = "loaded" /\ outcome = "none" /\ doc \in Documents /\ doc # Nothing
      /\ Len(graph.extras) \in Nat /\ Len(graph.extras) = Len(doc.outputs)
  BY <1>1, AtWork DEF Working
<1>3. /\ Multi /\ held \subseteq {graph.extras[i] : i \in reading..Len(graph.extras)}
      /\ reading \in Nat /\ reading <= Len(graph.extras) + 1
  BY <1>1 DEF BakeInductive, HeldIsLeft, GridsSoFar, BakeTypes
<1>4. reading..Len(graph.extras) = {}
  BY <1>1, <1>2, <1>3
<1>5. held = {}
  BY <1>3, <1>4
<1>6. CASE failed
  <2>1. Stop("error")
    BY <1>6 DEF EndReading
  <2>2. ~Mine(frame)
    BY <1>1, <1>3 DEF BakeInductive, ThisFile, Multi
  <2> QED
    BY <1>1, <1>5, <2>1, <2>2, StopStep DEF BakeInductive, BakeTypes
<1>7. CASE ~failed
  <2>1. pc' = "write" /\ outcome' = outcome
    BY <1>7 DEF EndReading
  <2>2. Inductive' /\ ExtrasKept' /\ Begun' /\ InRange' /\ FilesSoFar'
    BY <1>1, <1>2, <2>1, WorkKeeps DEF Working
  <2>3. BakeTypes'
    BY <1>1, <2>1 DEF BakeInductive, BakeTypes, Working
  <2>4. ThisFile'
    BY <1>1, <1>2, <2>1, SameDocument DEF BakeInductive, ThisFile, Mine
  <2>5. HeldIsLeft'
    BY <1>1, <1>2, <1>5, <2>1, SameDocument DEF HeldIsLeft
  <2>6. reading - 1 = Len(doc.outputs)
    BY <1>1, <1>2, <1>3, OutputShape DEF Multi
  <2>7. Due(frame) = DueUpTo(Len(doc.outputs))
    <3>1. frame # OutFile
      BY <1>1, AtWork, FrameNumbers DEF Working
    <3> QED
      BY <1>3, <3>1 DEF Due, DueUpTo, FrameAt
  <2>8. Match(grids, GridNames, Due(frame))
    BY <1>1, <1>3, <1>7, <2>6, <2>7
    DEF BakeInductive, GridsSoFar, GridNames, ExpandedNames
  <2>9. GridsSoFar'
    BY <1>1, <2>1, <2>8, SameGrids DEF GridsSoFar
  <2> QED
    BY <2>2, <2>3, <2>4, <2>5, <2>9 DEF BakeInductive
<1> QED
  BY <1>6, <1>7

-----------------------------------------------------------------------------
(***************************************************************************)
(* A file is written.                                                      *)
(***************************************************************************)
LEMMA GridNamesType ==
    ASSUME BakeInductive, pc \in Working
    PROVE  GridNames \in Seq(Seq(Parts))
<1>1. SingleName \in Seq(Parts)
  BY BakeAssumption DEF SingleName, Parts
<1>2. <<SingleName>> \in Seq(Seq(Parts))
  BY <1>1
<1> QED
  BY <1>2, AtWork, ExpandedNamesType DEF GridNames

\* What is zipped is what is due: nothing is cut short.
LEMMA ZippedShape ==
    ASSUME BakeInductive, pc \in {"write", "create", "grids"}
    PROVE  /\ Zipped \in Seq(NamedGrids) /\ Len(Zipped) \in Nat
           /\ Baking => /\ \A i \in 1..Len(Zipped) : Zipped[i] \in Due(frame)
                        /\ \A g \in Due(frame) : \E i \in 1..Len(Zipped) : Zipped[i] = g
                        /\ Distinct(Zipped)
<1>1. grids \in Seq(Data) /\ GridNames \in Seq(Seq(Parts))
  BY AtWork, GridNamesType DEF Working
<1> DEFINE n == IF Len(grids) < Len(GridNames) THEN Len(grids) ELSE Len(GridNames)
<1>2. /\ Len(grids) \in Nat /\ Len(GridNames) \in Nat
      /\ \A i \in 1..Len(grids) : grids[i] \in Data
      /\ \A i \in 1..Len(GridNames) : GridNames[i] \in Seq(Parts)
  BY <1>1
<1>3. n \in Nat /\ \A i \in 1..n : i \in 1..Len(grids) /\ i \in 1..Len(GridNames)
  BY <1>2
<1>4. Zipped = [i \in 1..n |-> [name |-> GridNames[i], data |-> grids[i]]]
  BY DEF Zipped
<1>5. \A i \in 1..n : [name |-> GridNames[i], data |-> grids[i]] \in NamedGrids
  BY <1>2, <1>3 DEF NamedGrids
<1>6. Len(grids) = Len(GridNames) => n = Len(grids)
  BY <1>2
<1> HIDE DEF n
<1>7. Zipped \in Seq(NamedGrids) /\ Len(Zipped) = n
  BY <1>3, <1>4, <1>5
<1>8. ASSUME Baking
      PROVE  /\ \A i \in 1..n : Zipped[i] \in Due(frame)
             /\ \A g \in Due(frame) : \E i \in 1..n : Zipped[i] = g
             /\ Distinct(Zipped)
  <2>1. Match(grids, GridNames, Due(frame))
    BY <1>8 DEF BakeInductive, GridsSoFar
  <2>2. n = Len(grids)
    BY <1>6, <2>1 DEF Match
  <2>3. \A i \in 1..n : Zipped[i] = [name |-> GridNames[i], data |-> grids[i]]
    BY <1>4
  <2>4. \A i, j \in 1..n : Zipped[i] = Zipped[j] => grids[i] = grids[j]
    <3> SUFFICES ASSUME NEW i \in 1..n, NEW j \in 1..n, Zipped[i] = Zipped[j]
                 PROVE  grids[i] = grids[j]
      OBVIOUS
    <3>1. [name |-> GridNames[i], data |-> grids[i]].data
              = [name |-> GridNames[j], data |-> grids[j]].data
      BY <2>3
    <3> QED
      BY <3>1
  <2>5. Distinct(Zipped)
    BY <1>7, <2>1, <2>2, <2>4 DEF Match, Distinct
  <2>6. \A i \in 1..n : Zipped[i] \in Due(frame)
    BY <2>1, <2>2, <2>3 DEF Match
  <2>7. ASSUME NEW g \in Due(frame)
        PROVE  \E i \in 1..n : Zipped[i] = g
    <3>1. PICK i \in 1..n : g = [name |-> GridNames[i], data |-> grids[i]]
      BY <2>1, <2>2 DEF Match
    <3> QED
      BY <2>3, <3>1
  <2> QED
    BY <2>5, <2>6, <2>7
<1> QED
  BY <1>3, <1>7, <1>8

LEMMA PlaceShape ==
    ASSUME BakeInductive
    PROVE  /\ Place \in Places
           /\ Baking => Place = frame
           /\ ~Baking => Place \notin Frames
  BY FrameNumbers DEF BakeInductive, BakeTypes, Place

\* A step that changes the file at the command's own place.
LEMMA PlaceStep ==
    ASSUME BakeInductive, pc \in {"create", "grids", "remove"},
           NEW file \in FileStates, files' = [files EXCEPT ![Place] = file],
           UNCHANGED <<loading, command, number, frame>>,
           file.by <= number, Baking => RightFile(file, frame)
    PROVE  /\ Inductive' /\ ExtrasKept' /\ FilesSoFar'
           /\ files' \in [Places -> FileStates] /\ files'[Place] = file
           /\ pc' = "grids" /\ outcome' = outcome => Begun' /\ InRange'
           /\ pc' = "idle" /\ outcome' = "error" => Begun' /\ InRange'
<1>1. /\ stage = "loaded" /\ outcome = "none" /\ number \in Nat /\ number > 0
      /\ frame \in Frames
  BY AtWork DEF Working
<1>2. Inductive' /\ ExtrasKept'
  BY SameLoad DEF BakeInductive
<1>3. files \in [Places -> FileStates] /\ Place \in Places
  BY PlaceShape DEF BakeInductive, BakeTypes
<1>4. /\ files' \in [Places -> FileStates] /\ files'[Place] = file
      /\ \A p \in Places : p # Place => files'[p] = files[p]
  BY <1>3
<1>5. FilesSoFar'
  <2> SUFFICES ASSUME NEW f \in Frames
               PROVE  /\ Mine(f)' => /\ Baking' /\ f \in command'.first..frame'
                                     /\ RightFile(files[f], f)'
                      /\ Baking' /\ f \in command'.first..(frame' - 1) =>
                             Mine(f)' /\ Whole(f)'
    BY DEF FilesSoFar
  <2>1. f \in Places
    BY FrameNumbers
  <2>2. /\ Mine(f) => Baking /\ f \in command.first..frame /\ RightFile(files[f], f)
        /\ Baking /\ f \in command.first..(frame - 1) => Mine(f) /\ Whole(f)
    BY <1>1 DEF BakeInductive, FilesSoFar
  <2>3. CASE f # Place
    <3>1. files'[f] = files[f]
      BY <1>4, <2>1, <2>3
    <3>2. RightFile(files[f], f) => RightFile(files[f], f)'
      BY <3>1, SameDocument DEF RightFile
    <3> QED
      BY <2>2, <3>1, <3>2, SameDocument DEF Mine
  <2>4. CASE f = Place
    <3>1. Baking /\ f = frame
      BY <2>4, PlaceShape
    <3>2. command.first <= frame /\ command.first \in Nat /\ frame \in Nat
      BY <1>1, <3>1, CommandShape, FrameNumbers DEF BakeInductive, BakeTypes, InRange
    <3>3. f \in command.first..frame /\ f \notin command.first..(frame - 1)
      BY <3>1, <3>2
    <3>4. RightFile(files[f], f)'
      BY <1>4, <2>4, <3>1, SameDocument DEF RightFile
    <3> QED
      BY <3>1, <3>3, <3>4, SameDocument
  <2> QED
    BY <2>3, <2>4
<1>6. \A p \in Places : files'[p].by <= number'
  BY <1>3, <1>4 DEF BakeInductive, Begun
<1>7. pc' = "grids" /\ outcome' = outcome => Begun' /\ InRange'
  BY <1>1, <1>6 DEF BakeInductive, Begun, InRange, Baking, Working, loading
<1>8. pc' = "idle" /\ outcome' = "error" => Begun' /\ InRange'
  BY <1>1, <1>6 DEF BakeInductive, Begun, InRange, Baking, Working, loading
<1> QED
  BY <1>2, <1>4, <1>5, <1>7, <1>8

LEMMA WriteFailsStep ==
    ASSUME BakeInductive, pc \in {"write", "create", "grids"}, WriteFails,
           UNCHANGED <<loading, command, number, frame, held, grids, reading, writing,
                       failed, unremovable, hasDir, files>>
    PROVE  BakeInductive'
<1>1. CASE ~Multi
  <2>1. Stop("error")
    BY <1>1 DEF WriteFails
  <2> QED
    BY <1>1, <2>1, StopStep DEF BakeInductive, BakeTypes
<1>2. CASE Multi
  <2>1. pc' = "remove" /\ outcome' = outcome
    BY <1>2 DEF WriteFails
  <2>2. stage = "loaded" /\ outcome = "none"
    BY AtWork DEF Working
  <2>3. Inductive' /\ ExtrasKept' /\ Begun' /\ InRange' /\ FilesSoFar'
    BY <2>1, <2>2, WorkKeeps DEF Working
  <2>4. BakeTypes'
    BY <2>1 DEF BakeInductive, BakeTypes, Working
  <2>5. ThisFile'
    BY <1>2, <2>1, <2>2, SameDocument DEF BakeInductive, ThisFile
  <2>6. HeldIsLeft'
    BY <1>2, <2>1, <2>2, SameDocument DEF BakeInductive, HeldIsLeft
  <2>7. GridsSoFar'
    BY <2>1 DEF GridsSoFar
  <2> QED
    BY <2>3, <2>4, <2>5, <2>6, <2>7 DEF BakeInductive
<1> QED
  BY <1>1, <1>2

LEMMA PrepareStep ==
    ASSUME BakeInductive, Prepare
    PROVE  BakeInductive'
<1>1. /\ pc = "write"
      /\ UNCHANGED <<loading, command, number, frame, held, grids, reading, writing,
                     failed, unremovable, hasDir, files>>
  BY DEF Prepare, locals, disk
<1>2. CASE ~Writable
  BY <1>1, <1>2, WriteFailsStep DEF Prepare
<1>3. CASE Writable
  <2>1. pc' = "create" /\ outcome' = outcome
    BY <1>3 DEF Prepare
  <2>2. stage = "loaded" /\ outcome = "none"
    BY <1>1, AtWork DEF Working
  <2>3. Inductive' /\ ExtrasKept' /\ Begun' /\ InRange' /\ FilesSoFar'
    BY <1>1, <2>1, <2>2, WorkKeeps DEF Working
  <2>4. BakeTypes'
    BY <1>1, <2>1 DEF BakeInductive, BakeTypes, Working
  <2>5. ThisFile'
    BY <1>1, <2>1, <2>2, SameDocument DEF BakeInductive, ThisFile, Mine
  <2>6. HeldIsLeft'
    BY <1>1, <2>1, <2>2, SameDocument DEF BakeInductive, HeldIsLeft
  <2>7. GridsSoFar'
    BY <1>1, <2>1, SameDocument, SameGrids DEF BakeInductive, GridsSoFar
  <2> QED
    BY <2>3, <2>4, <2>5, <2>6, <2>7 DEF BakeInductive
<1> QED
  BY <1>2, <1>3

\* The file at hand has changed and the writing of its grids goes on.
LEMMA WritingGoesOn ==
    ASSUME BakeInductive, pc \in {"create", "grids"}, pc' = "grids",
           NEW file \in FileStates, files' = [files EXCEPT ![Place] = file],
           writing' \in Nat \ {0},
           UNCHANGED <<loading, command, number, frame, held, grids, reading, failed,
                       unremovable, hasDir, outcome>>,
           file.by <= number,
           Baking => /\ RightFile(file, frame) /\ file.by = number
                     /\ Len(file.grids) = writing' - 1 /\ writing' <= Len(Zipped) + 1
                     /\ \A i \in 1..(writing' - 1) : file.grids[i] = Zipped[i]
    PROVE  BakeInductive'
<1>1. /\ Inductive' /\ ExtrasKept' /\ FilesSoFar' /\ Begun' /\ InRange'
      /\ files' \in [Places -> FileStates] /\ files'[Place] = file
  BY PlaceStep
<1>2. outcome = "none" /\ ~unremovable
  BY AtWork DEF Working
<1>3. BakeTypes'
  BY <1>1 DEF BakeInductive, BakeTypes, Working
<1>4. ThisFile'
  <2>1. Zipped' = Zipped
    BY SameDocument DEF Zipped
  <2>2. Baking => files'[frame] = file
    BY <1>1, PlaceShape
  <2> QED
    BY <1>2, <2>1, <2>2, SameDocument DEF ThisFile, Mine
<1>5. HeldIsLeft'
  BY <1>2, SameDocument DEF BakeInductive, HeldIsLeft
<1>6. GridsSoFar'
  BY SameDocument, SameGrids DEF BakeInductive, GridsSoFar
<1> QED
  BY <1>1, <1>3, <1>4, <1>5, <1>6 DEF BakeInductive

LEMMA CreateStep ==
    ASSUME BakeInductive, Create
    PROVE  BakeInductive'
<1>1. /\ pc = "create"
      /\ UNCHANGED <<loading, command, number, frame, held, grids, reading, failed,
                     unremovable, hasDir>>
  BY DEF Create
<1>2. CASE WriteFails /\ UNCHANGED <<files, writing>>
  BY <1>1, <1>2, WriteFailsStep
<1>3. CASE /\ files' = [files EXCEPT ![Place] =
                           [by |-> number, grids |-> <<>>]]
           /\ writing' = 1 /\ pc' = "grids" /\ UNCHANGED outcome
  <2> DEFINE file == [by |-> number, grids |-> <<>>]
  <2>1. Len(Zipped) \in Nat /\ number \in 0..MaxCommands /\ number \in Nat
    BY <1>1, ZippedShape, AtWork DEF BakeInductive, BakeTypes, Working
  <2>2. file \in FileStates
    BY <2>1 DEF FileStates
  <2>3. RightFile(file, frame)
    BY DEF RightFile, Distinct
  <2>4. /\ file.by = number /\ Len(file.grids) = 0
        /\ files' = [files EXCEPT ![Place] = file]
    BY <1>3
  <2> HIDE DEF file
  <2>5. file.by <= number /\ 1 <= Len(Zipped) + 1 /\ Len(file.grids) = writing' - 1
        /\ writing' \in Nat \ {0} /\ writing' <= Len(Zipped) + 1
        /\ 1..(writing' - 1) = {}
    BY <1>3, <2>1, <2>4
  <2> QED
    BY <1>1, <1>3, <2>2, <2>3, <2>4, <2>5, WritingGoesOn
<1> QED
  BY <1>2, <1>3 DEF Create

\* A grid more in the file at hand.
LEMMA GridAdded ==
    ASSUME BakeInductive, pc = "grids", writing <= Len(Zipped),
           files' = [files EXCEPT ![Place].grids = Append(@, Zipped[writing])],
           writing' = writing + 1, pc' = "grids",
           UNCHANGED <<loading, command, number, frame, held, grids, reading, failed,
                       unremovable, hasDir, outcome>>
    PROVE  BakeInductive'
<1> DEFINE old == files[Place]
           file == [old EXCEPT !.grids = Append(@, Zipped[writing])]
<1>1. /\ Zipped \in Seq(NamedGrids) /\ Len(Zipped) \in Nat
      /\ writing \in Nat \ {0} /\ writing \in 1..Len(Zipped)
  BY ZippedShape DEF BakeInductive, BakeTypes
<1>2. Place \in Places /\ files \in [Places -> FileStates] /\ number \in Nat
  BY PlaceShape, AtWork DEF BakeInductive, BakeTypes, Working
<1>3. old \in FileStates /\ files' = [files EXCEPT ![Place] = file] /\ old.by <= number
  BY <1>2 DEF BakeInductive, Begun
<1>4. old.grids \in Seq(NamedGrids) /\ Zipped[writing] \in NamedGrids
  BY <1>1, <1>3 DEF FileStates
<1> HIDE DEF old
<1>5. /\ file.by = old.by
      /\ file.grids = Append(old.grids, Zipped[writing])
  BY <1>3 DEF FileStates
<1>6. Append(old.grids, Zipped[writing]) \in Seq(NamedGrids)
  BY <1>4
<1>7. file \in FileStates
  BY <1>3, <1>6 DEF FileStates
<1> HIDE DEF file
<1>8. ASSUME Baking
      PROVE  /\ RightFile(file, frame) /\ file.by = number
             /\ Len(file.grids) = writing' - 1 /\ writing' <= Len(Zipped) + 1
             /\ \A i \in 1..(writing' - 1) : file.grids[i] = Zipped[i]
  <2>1. /\ old = files[frame] /\ Mine(frame) /\ Len(old.grids) = writing - 1
        /\ \A i \in 1..(writing - 1) : old.grids[i] = Zipped[i]
    BY <1>8, PlaceShape DEF BakeInductive, ThisFile, old
  <2>2. Len(file.grids) = writing /\ writing' - 1 = writing /\ writing' <= Len(Zipped) + 1
    BY <1>1, <1>4, <1>5, <2>1
  <2>3. \A i \in 1..writing : file.grids[i] = Zipped[i] /\ i \in 1..Len(Zipped)
    BY <1>1, <1>4, <1>5, <2>1
  <2>4. RightFile(file, frame)
    BY <1>8, <2>2, <2>3, ZippedShape DEF RightFile, Distinct
  <2> QED
    BY <1>5, <2>1, <2>2, <2>3, <2>4 DEF Mine
<1>9. writing' \in Nat \ {0} /\ file.by <= number
  BY <1>1, <1>3, <1>5
<1> QED
  BY <1>3, <1>7, <1>8, <1>9, WritingGoesOn

LEMMA WriteGridStep ==
    ASSUME BakeInductive, WriteGrid
    PROVE  BakeInductive'
<1>1. /\ pc = "grids" /\ writing <= Len(Zipped)
      /\ UNCHANGED <<loading, command, number, frame, held, grids, reading, failed,
                     unremovable, hasDir>>
  BY DEF WriteGrid
<1>2. CASE WriteFails /\ UNCHANGED <<files, writing>>
  BY <1>1, <1>2, WriteFailsStep
<1>3. CASE /\ files' = [files EXCEPT ![Place].grids = Append(@, Zipped[writing])]
           /\ writing' = writing + 1 /\ UNCHANGED <<pc, outcome>>
  BY <1>1, <1>3, GridAdded
<1> QED
  BY <1>2, <1>3 DEF WriteGrid

LEMMA WriteSliceStep ==
    ASSUME BakeInductive, WriteSlice
    PROVE  BakeInductive'
<1>1. /\ pc = "grids" /\ writing <= Len(Zipped) /\ ~Baking
      /\ UNCHANGED <<loading, command, number, frame, held, grids, reading, failed,
                     unremovable, hasDir>>
  BY DEF WriteSlice, Baking
<1>2. CASE WriteFails /\ UNCHANGED <<files, writing>>
  BY <1>1, <1>2, WriteFailsStep
<1>3. CASE /\ files' = [files EXCEPT ![Place].grids = Append(@, Zipped[writing])]
           /\ writing' = writing + 1 /\ UNCHANGED <<pc, outcome>>
  BY <1>1, <1>3, GridAdded
<1>4. CASE /\ UNCHANGED files
           /\ writing' = writing + 1 /\ UNCHANGED <<pc, outcome>>
  <2>1. stage = "loaded" /\ outcome = "none" /\ writing' \in Nat \ {0} /\ pc' = "grids"
    BY <1>1, <1>4, AtWork DEF Working, BakeInductive, BakeTypes
  <2>2. Inductive' /\ ExtrasKept' /\ Begun' /\ InRange' /\ FilesSoFar'
    BY <1>1, <1>4, <2>1, WorkKeeps DEF Working
  <2>3. BakeTypes'
    BY <1>1, <1>4, <2>1 DEF BakeInductive, BakeTypes
  <2>4. ThisFile' /\ GridsSoFar'
    BY <1>1, <1>4, <2>1, SameDocument DEF BakeInductive, ThisFile, GridsSoFar
  <2>5. HeldIsLeft'
    BY <1>1, <1>4, <2>1, SameDocument DEF BakeInductive, HeldIsLeft
  <2> QED
    BY <2>2, <2>3, <2>4, <2>5 DEF BakeInductive
<1> QED
  BY <1>2, <1>3, <1>4 DEF WriteSlice

LEMMA RemoveStep ==
    ASSUME BakeInductive, Remove
    PROVE  BakeInductive'
<1>1. /\ pc = "remove" /\ pc' = "idle" /\ outcome' = "error"
      /\ UNCHANGED <<loading, command, number, frame, held, grids, reading, writing,
                     failed, hasDir>>
  BY DEF Remove, Stop
<1>2. Multi /\ Baking /\ held = {}
  BY <1>1 DEF BakeInductive, ThisFile, HeldIsLeft, Multi
<1>3. CASE unremovable' = TRUE /\ UNCHANGED files
  <2>1. unremovable' \in BOOLEAN
    BY <1>3
  <2> QED
    BY <1>1, <1>2, <1>3, <2>1, StopStep DEF BakeInductive, BakeTypes, Stop
<1>4. CASE files' = [files EXCEPT ![Place] = Absent] /\ UNCHANGED unremovable
  <2>1. Absent \in FileStates /\ Absent.by = 0 /\ RightFile(Absent, frame)
    BY FrameNumbers DEF Absent, FileStates, RightFile, Distinct
  <2>2. number \in Nat /\ number > 0 /\ Absent.by <= number
    BY <1>1, <2>1, AtWork DEF Working
  <2>3. /\ Inductive' /\ ExtrasKept' /\ FilesSoFar' /\ Begun' /\ InRange'
        /\ files' \in [Places -> FileStates] /\ files'[Place] = Absent
    BY <1>1, <1>4, <2>1, <2>2, PlaceStep
  <2>4. BakeTypes'
    BY <1>1, <1>4, <2>3 DEF BakeInductive, BakeTypes
  <2>5. ThisFile'
    <3>1. files'[frame].by = 0 /\ number' # 0 /\ frame' = frame
      BY <1>1, <1>2, <2>1, <2>2, <2>3, PlaceShape
    <3> QED
      BY <1>1, <1>2, <3>1, SameDocument DEF ThisFile, Mine
  <2>6. HeldIsLeft' /\ GridsSoFar'
    BY <1>1, <1>2 DEF HeldIsLeft, GridsSoFar
  <2> QED
    BY <2>3, <2>4, <2>5, <2>6 DEF BakeInductive
<1> QED
  BY <1>3, <1>4 DEF Remove

LEMMA EndFileStep ==
    ASSUME BakeInductive, EndFile
    PROVE  BakeInductive'
<1>1. /\ pc = "grids" /\ writing > Len(Zipped)
      /\ UNCHANGED <<loading, command, number, held, reading, writing, failed,
                     unremovable, hasDir, files>>
  BY DEF EndFile, disk
<1>2. /\ stage = "loaded" /\ outcome = "none" /\ ~unremovable /\ number > 0
      /\ frame \in Frames /\ frame \in Nat /\ grids \in Seq(Data)
  BY <1>1, AtWork, FrameNumbers DEF Working
<1>3. Inductive' /\ ExtrasKept'
  BY <1>1, SameLoad DEF BakeInductive
<1>4. Baking => /\ command.first \in Nat /\ command.last \in Frames /\ command.last \in Nat
                /\ command.first <= frame /\ frame <= command.last
  BY <1>1, <1>2, CommandShape, FrameNumbers DEF BakeInductive, BakeTypes, InRange
<1>5. Baking => Mine(frame) /\ Whole(frame)
  <2> SUFFICES ASSUME Baking PROVE Mine(frame) /\ Whole(frame)
    OBVIOUS
  <2>1. /\ Mine(frame) /\ Len(files[frame].grids) = writing - 1
        /\ writing <= Len(Zipped) + 1
        /\ \A i \in 1..(writing - 1) : files[frame].grids[i] = Zipped[i]
    BY <1>1 DEF BakeInductive, ThisFile
  <2>2. Len(Zipped) \in Nat /\ writing \in Nat
    BY <1>1, ZippedShape DEF BakeInductive, BakeTypes
  <2>3. writing - 1 = Len(Zipped)
    BY <1>1, <2>1, <2>2
  <2>4. \A g \in Due(frame) : \E i \in 1..Len(Zipped) : Zipped[i] = g
    BY <1>1, ZippedShape
  <2> QED
    BY <2>1, <2>3, <2>4 DEF Whole
<1>6. CASE Baking /\ frame < command.last
  <2>1. /\ frame' = frame + 1 /\ grids' = <<>> /\ pc' = "evaluate"
        /\ outcome' = outcome
    BY <1>6 DEF EndFile
  <2>2. frame' \in Frames /\ frame' <= command.last
    <3>1. command.last \in 0..MaxFrame /\ MaxFrame \in Nat
      BY <1>4, <1>6, FrameNumbers DEF Frames
    <3> QED
      BY <1>2, <1>4, <1>6, <2>1, <3>1 DEF Frames
  <2>3. BakeTypes'
    <3>1. grids' \in Seq(Data)
      BY <2>1
    <3> QED
      BY <1>1, <2>1, <2>2, <3>1 DEF BakeInductive, BakeTypes, Working
  <2>4. Begun'
    BY <1>1, <1>2, <2>1 DEF BakeInductive, Begun, Working, loading
  <2>5. InRange'
    BY <1>1, <1>2, <1>4, <2>1, <2>2 DEF InRange, Baking
  <2>6. FilesSoFar'
    <3> SUFFICES ASSUME NEW f \in Frames
                 PROVE  /\ Mine(f) => Baking /\ f \in command.first..(frame + 1)
                                      /\ RightFile(files[f], f)
                        /\ f \in command.first..frame => Mine(f) /\ Whole(f)
      <4>1. frame' - 1 = frame
        BY <1>2, <2>1
      <4> QED
        BY <1>1, <2>1, <4>1, SameDocument DEF FilesSoFar, Mine
    <3>1. /\ Mine(f) => Baking /\ f \in command.first..frame /\ RightFile(files[f], f)
          /\ f \in command.first..(frame - 1) => Mine(f) /\ Whole(f)
      BY <1>2, <1>6 DEF BakeInductive, FilesSoFar
    <3>2. f \in command.first..frame => f = frame \/ f \in command.first..(frame - 1)
      BY <1>2, <1>4, <1>6
    <3>3. f \in command.first..frame => f \in command.first..(frame + 1)
      BY <1>2, <1>4, <1>6
    <3> QED
      BY <1>5, <1>6, <3>1, <3>2, <3>3
  <2>7. ThisFile'
    <3>1. ~Mine(frame')
      BY <1>2, <1>4, <1>6, <2>1, <2>2 DEF BakeInductive, FilesSoFar
    <3> QED
      BY <1>1, <1>2, <2>1, <3>1 DEF ThisFile, Mine
  <2>8. HeldIsLeft' /\ GridsSoFar'
    BY <1>1, <2>1, SameDocument DEF BakeInductive, HeldIsLeft, GridsSoFar
  <2> QED
    BY <1>3, <2>3, <2>4, <2>5, <2>6, <2>7, <2>8 DEF BakeInductive
<1>7. CASE ~(Baking /\ frame < command.last)
  <2>1. pc' = "idle" /\ outcome' = "ok" /\ UNCHANGED <<frame, grids>>
    BY <1>7 DEF EndFile, Stop
  <2>2. BakeTypes' /\ Begun'
    BY <1>1, <1>2, <2>1 DEF BakeInductive, BakeTypes, Begun, Working, loading
  <2>3. Baking => frame = command.last
    BY <1>2, <1>4, <1>7
  <2>4. InRange'
    BY <1>1, <1>4, <2>1, <2>3, SameDocument DEF InRange
  <2>5. FilesSoFar'
    BY <1>1, <2>1, SameDocument DEF BakeInductive, FilesSoFar, Mine
  <2>6. ThisFile'
    BY <1>1, <1>2, <1>5, <2>1, SameDocument DEF ThisFile, Mine
  <2>7. HeldIsLeft' /\ GridsSoFar'
    BY <2>1 DEF HeldIsLeft, GridsSoFar
  <2> QED
    BY <1>3, <2>2, <2>4, <2>5, <2>6, <2>7 DEF BakeInductive
<1> QED
  BY <1>6, <1>7

-----------------------------------------------------------------------------
(***************************************************************************)
(* The theorems of the command line.                                       *)
(***************************************************************************)
LEMMA BakeStutter ==
    ASSUME BakeInductive, UNCHANGED bakeVars
    PROVE  BakeInductive'
<1>1. UNCHANGED <<loading, command, number, pc, frame, held, grids, reading, writing,
                  failed, unremovable, hasDir, files, outcome>>
  BY DEF bakeVars, locals, disk
<1>2. UNCHANGED <<stage, graph, doc>>
  BY <1>1 DEF loading
<1>3. Inductive' /\ ExtrasKept'
  BY <1>1, SameLoad DEF BakeInductive
<1>4. BakeTypes' /\ Begun'
  BY <1>1, <1>2 DEF BakeInductive, BakeTypes, Begun
<1>5. InRange' /\ FilesSoFar'
  BY <1>1, SameDocument DEF BakeInductive, InRange, FilesSoFar, Mine
<1>6. ThisFile'
  <2>1. Zipped' = Zipped
    BY <1>1, SameDocument DEF Zipped
  <2> QED
    BY <1>1, <2>1, SameDocument DEF BakeInductive, ThisFile, Mine
<1>7. HeldIsLeft'
  BY <1>1, <1>2, SameDocument DEF BakeInductive, HeldIsLeft
<1>8. GridsSoFar'
  BY <1>1, <1>2, SameDocument, SameGrids DEF BakeInductive, GridsSoFar
<1> QED
  BY <1>3, <1>4, <1>5, <1>6, <1>7, <1>8 DEF BakeInductive

LEMMA BakeStep == BakeInductive /\ [BakeNext]_bakeVars => BakeInductive'
<1> SUFFICES ASSUME BakeInductive, [BakeNext]_bakeVars
             PROVE  BakeInductive'
  OBVIOUS
<1>1. CASE \E c \in Commands : StartCommand(c)
  BY <1>1, StartCommandStep
<1>2. CASE LoadStep \/ LoadFails \/ LoadRefused \/ Loaded
  BY <1>2, LoadStepStep, LoadEndsStep, LoadedStep
<1>3. CASE Produce
  BY <1>3, MakeDirectoryStep, EvaluateStep, ReadResultStep, ReleaseResultStep,
     ReadExtraStep, EndReadingStep DEF Produce
<1>4. CASE WriteOut
  BY <1>4, PrepareStep, CreateStep, WriteGridStep, WriteSliceStep, RemoveStep,
     EndFileStep DEF WriteOut
<1>5. CASE Interrupt
  BY <1>5, InterruptStep
<1>6. CASE UNCHANGED bakeVars
  BY <1>6, BakeStutter
<1> QED
  BY <1>1, <1>2, <1>3, <1>4, <1>5, <1>6 DEF BakeNext

LEMMA BakeAlways == BakeSpec => []BakeInductive
  BY BakeInitInductive, BakeStep, PTL DEF BakeSpec

LEMMA FileNumbers ==
    ASSUME BakeInductive
    PROVE  /\ number \in Nat /\ frame \in Nat /\ frame \in Frames
           /\ command.first \in Nat /\ command.last \in Nat
           /\ command.last \in Frames
           /\ \A p \in Places : files[p].by \in Nat
           /\ outcome # "none" => number > 0
  BY CommandShape, FrameNumbers DEF BakeInductive, BakeTypes, FileStates, Begun

\* A bake that reports success has written every frame of its range by itself,
\* and each file holds every grid that the document asks for; and no file of a
\* bake ever holds anything else, or a grid twice, or a grid of another frame or
\* under another name, whatever the documents' outputs and their types are.
THEOREM BakesAreRight == BakeSpec => []BakedFilesAreRight
<1>1. BakeInductive => SuccessIsComplete
  <2> SUFFICES ASSUME BakeInductive, outcome = "ok", Baking,
                      NEW f \in command.first..command.last
               PROVE  Mine(f) /\ Whole(f)
    BY DEF SuccessIsComplete
  <2>1. number > 0 /\ frame = command.last /\ Mine(frame) /\ Whole(frame)
    BY FileNumbers DEF BakeInductive, InRange, ThisFile
  <2>2. f \in Frames /\ (f = frame \/ f \in command.first..(frame - 1))
    BY <2>1, FileNumbers, FrameNumbers DEF Frames
  <2> QED
    BY <2>1, <2>2 DEF BakeInductive, FilesSoFar
<1>2. BakeInductive => GridsAreNamed
  <2> SUFFICES ASSUME BakeInductive, Baking, NEW p \in Frames, Mine(p)
               PROVE  Right(p)
    BY DEF GridsAreNamed
  <2>1. CASE number = 0
    <3>1. Len(files[p].grids) = 0
      BY <2>1, FrameNumbers DEF BakeInductive, Begun
    <3> QED
      BY <3>1 DEF Right, Distinct
  <2>2. CASE number > 0
    BY <2>2 DEF BakeInductive, FilesSoFar, RightFile, Right
  <2> QED
    BY <2>1, <2>2, FileNumbers
<1> QED
  BY <1>1, <1>2, BakeAlways, PTL DEF BakedFilesAreRight

\* However a command ends, the frames before its last are whole and its own,
\* and those after are as it found them; nothing borrowed from the pool is kept,
\* and one that is refused has touched nothing.  A bake of named outputs that
\* ends with an error leaves no partial file, whether the write failed or it
\* never came to the write, unless remove_file itself failed.  An interrupted
\* bake, and one of the result alone, may leave one at their last frame.
THEOREM CommandsEndCleanly == BakeSpec => []EndsCleanly
<1>1. BakeInductive => BakeTypeOK
  BY DEF BakeInductive, BakeTypes, BakeTypeOK, FileStates, Working
<1>2. BakeInductive => EndsInOnePlace
  <2> SUFFICES ASSUME BakeInductive, Baking, number > 0, NEW f \in Frames
               PROVE  /\ f \in command.first..(frame - 1) => Mine(f) /\ Whole(f)
                      /\ (Mine(f) /\ ~Whole(f)) => f = frame
                      /\ f > frame => ~Mine(f)
    BY DEF EndsInOnePlace
  <2>1. /\ Mine(f) => f \in command.first..frame
        /\ f \in command.first..(frame - 1) => Mine(f) /\ Whole(f)
    BY DEF BakeInductive, FilesSoFar
  <2>2. f \in command.first..frame => f = frame \/ f \in command.first..(frame - 1)
    BY FileNumbers
  <2>3. f > frame => f \notin command.first..frame
    BY FileNumbers, FrameNumbers
  <2> QED
    BY <2>1, <2>2, <2>3
<1>3. BakeInductive => NoPartialFile
  <2> SUFFICES ASSUME BakeInductive, ~unremovable, Multi, outcome = "error",
                      NEW f \in Frames, Mine(f)
               PROVE  Whole(f)
    BY DEF NoPartialFile
  <2>1. Baking /\ ~Mine(frame) /\ number > 0
    BY FileNumbers DEF BakeInductive, ThisFile, Multi
  <2>2. f \in command.first..frame /\ f # frame
    BY <2>1 DEF BakeInductive, FilesSoFar
  <2>3. f \in command.first..(frame - 1)
    BY <2>2, FileNumbers
  <2> QED
    BY <2>1, <2>3 DEF BakeInductive, FilesSoFar
<1>4. BakeInductive => ValuesReturn
  BY DEF BakeInductive, HeldIsLeft, ValuesReturn
<1>5. BakeInductive => ClashIsRefusedFirst
  BY DEF BakeInductive, ThisFile, ClashIsRefusedFirst
<1> QED
  BY <1>1, <1>2, <1>3, <1>4, <1>5, BakeAlways, PTL DEF EndsCleanly
=============================================================================
