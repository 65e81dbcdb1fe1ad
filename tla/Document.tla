------------------------------ MODULE Document ------------------------------
(***************************************************************************)
(* Loading an .elements document, as the daemon and the command line do:   *)
(* Document::from_json, validate_for against the device, and into_graph,   *)
(* which builds the nodes, then connects them, then names the outputs.     *)
(* The first fault met refuses the document.  The daemon alone then        *)
(* compares the resolution with the device's largest texture.              *)
(*                                                                         *)
(* A node or socket id is the number the file holds: any number, counted   *)
(* from 0.  A name is the sequence of its parts, so that the expanded name *)
(* n_x of Bake and a name typed as n_x are one and the same.               *)
(***************************************************************************)
EXTENDS Integers, Sequences

CONSTANTS
    Documents,      \* the files there may be
    Registry,       \* kind -> the socket types of its inputs and outputs
    MaxBuffer,      \* limits.max_buffer_size
    RowAlignment,   \* COPY_BYTES_PER_ROW_ALIGNMENT
    MaxTexture,     \* limits.max_texture_dimension_3d
    Nothing         \* no document

CurrentVersion == 4

VoxelBytes == 4

Exported == {"field", "vector"}

Callers == {"daemon", "command line"}

Socket(node, index) == [node |-> node, index |-> index]

Sockets == [node : Nat, index : Nat]
Edges == [from : Sockets, to : Sockets]

\* What a file may write where a name or the name of a kind is expected.
Text == STRING

DocNodes == [id : Nat, kind : Text, paramsGood : BOOLEAN]
DocOutputs == [node : Nat, socket : Nat, name : Seq(Text)]

ASSUME DocumentAssumption ==
    /\ \A k \in DOMAIN Registry :
           /\ Registry[k].inputs \in Seq(Text)
           /\ Registry[k].outputs \in Seq(Text)
    /\ \A d \in Documents :
           /\ d.dims \in Nat \X Nat \X Nat
           /\ d.nodes \in Seq(DocNodes)
           /\ d.edges \in Seq(Edges)
           /\ d.output \in Nat
           /\ d.outputs \in Seq(DocOutputs)
    /\ MaxBuffer \in Nat /\ MaxTexture \in Nat /\ RowAlignment \in Nat \ {0}
    /\ Nothing \notin Documents

VARIABLES
    caller,         \* who is loading: "daemon" or "command line"
    doc,            \* the document being loaded, or Nothing
    stage,          \* how far loading has got
    at,             \* the entry the stage's loop is at
    graph,          \* the graph built so far
    refusal         \* why the document was refused, or "none"

vars == <<caller, doc, stage, at, graph, refusal>>

NoGraph == [kinds |-> <<>>, edges |-> {}, output |-> 0, extras |-> <<>>]

(***************************************************************************)
(* from_json and validate_for.                                             *)
(***************************************************************************)
\* Every version up to the current one is read, by the same defaults.
Migratable == 1..CurrentVersion

NamesUsable(outputs) ==
    \A i \in 1..Len(outputs) :
        /\ outputs[i].name # <<>>
        /\ \A j \in 1..(i - 1) : outputs[j].name # outputs[i].name

\* Why from_json refuses d, in the order it looks, or "none".
Unreadable(d) ==
    IF ~d.wellFormed THEN "json"
    ELSE IF d.version \notin Migratable THEN "version"
    ELSE IF ~d.fpsPositive THEN "fps"
    ELSE IF ~d.domainInRange THEN "domain_size"
    ELSE IF ~NamesUsable(d.outputs) THEN "output name"
    ELSE "none"

DividedUp(a, b) == (a + b - 1) \div b

TextureBytes(dims) == dims[1] * dims[2] * dims[3] * VoxelBytes

\* read_back copies whole rows, each padded to the copy alignment.
ReadbackBytes(dims) ==
    DividedUp(dims[1] * VoxelBytes, RowAlignment) * RowAlignment
        * dims[2] * dims[3]

\* Faulty variant of FitsBuffers: the padding of read_back's rows is missed.
FitsTexture(dims) == TextureBytes(dims) <= MaxBuffer

FitsBuffers(dims) ==
    /\ TextureBytes(dims) <= MaxBuffer
    /\ ReadbackBytes(dims) <= MaxBuffer

\* The faces of a vector field have one more than the cells along their axis.
FaceDims(dims) == {[dims EXCEPT ![a] = @ + 1] : a \in 1..3}

\* Faulty variant of FitsTextures: a domain may be as large as a texture.
FitsTexturesExactly(dims) == \A a \in 1..3 : ~(dims[a] > MaxTexture)

FitsTextures(dims) == \A a \in 1..3 : ~(dims[a] >= MaxTexture)

(***************************************************************************)
(* Graph::connect and Graph::set_extra_outputs.                            *)
(***************************************************************************)
Registered(kind) == kind \in DOMAIN Registry

HasNode(g, node) == node < Len(g.kinds)

OutputTypes(g, node) == Registry[g.kinds[node + 1]].outputs
InputTypes(g, node) == Registry[g.kinds[node + 1]].inputs

HasOutput(g, s) == HasNode(g, s.node) /\ s.index < Len(OutputTypes(g, s.node))
HasInput(g, s) == HasNode(g, s.node) /\ s.index < Len(InputTypes(g, s.node))

OutputType(g, s) == OutputTypes(g, s.node)[s.index + 1]
InputType(g, s) == InputTypes(g, s.node)[s.index + 1]

Fed(g) == {e.to : e \in g.edges}

\* Faulty variants of Unconnectable: the types are not compared; a second edge replaces the first.
UntypedEdge(g, e) ==
    IF ~HasNode(g, e.from.node) \/ ~HasNode(g, e.to.node) THEN "unknown node"
    ELSE IF ~HasOutput(g, e.from) \/ ~HasInput(g, e.to) THEN "no such socket"
    ELSE IF e.to \in Fed(g) THEN "already connected"
    ELSE "none"

ReplacingEdge(g, e) ==
    IF ~HasNode(g, e.from.node) \/ ~HasNode(g, e.to.node) THEN "unknown node"
    ELSE IF ~HasOutput(g, e.from) \/ ~HasInput(g, e.to) THEN "no such socket"
    ELSE IF OutputType(g, e.from) # InputType(g, e.to) THEN "type mismatch"
    ELSE "none"

\* Why connect refuses the edge e, or "none".
Unconnectable(g, e) ==
    IF ~HasNode(g, e.from.node) \/ ~HasNode(g, e.to.node) THEN "unknown node"
    ELSE IF ~HasOutput(g, e.from) \/ ~HasInput(g, e.to) THEN "no such socket"
    ELSE IF OutputType(g, e.from) # InputType(g, e.to) THEN "type mismatch"
    ELSE IF e.to \in Fed(g) THEN "already connected"
    ELSE "none"

\* edges is a map from input sockets: inserting replaces.
Joined(g, e) == [g EXCEPT !.edges = {f \in @ : f.to # e.to} \cup {e}]

\* Why set_extra_outputs refuses the i-th of its sockets, or "none".
Unexportable(g, sockets, i) ==
    LET s == sockets[i] IN
    IF ~HasNode(g, s.node) THEN "unknown node"
    ELSE IF ~HasOutput(g, s) THEN "no such output"
    ELSE IF OutputType(g, s) \notin Exported THEN "not a field"
    ELSE IF \E j \in 1..(i - 1) : sockets[j] = s THEN "named twice"
    ELSE IF s.node = g.output /\ s.index = 0 THEN "the result socket"
    ELSE "none"

(***************************************************************************)
(* The load.                                                               *)
(***************************************************************************)
Init ==
    /\ caller = "daemon" /\ doc = Nothing
    /\ stage = "unloaded" /\ at = 1
    /\ graph = NoGraph
    /\ refusal = "none"

\* who reads a file: whatever was loaded before is no more.
ReadBy(who) ==
    /\ caller' = who /\ doc' \in Documents
    /\ stage' = "text" /\ at' = 1 /\ graph' = NoGraph /\ refusal' = "none"

Read ==
    /\ stage = "unloaded"
    /\ \E who \in Callers : ReadBy(who)

Refuse(why) ==
    /\ stage' = "refused"
    /\ refusal' = why
    /\ UNCHANGED <<caller, doc, at, graph>>

FromJson ==
    /\ stage = "text"
    /\ IF Unreadable(doc) # "none" THEN Refuse(Unreadable(doc))
       ELSE /\ stage' = "parsed"
            /\ UNCHANGED <<caller, doc, at, graph, refusal>>

ValidateFor ==
    /\ stage = "parsed"
    /\ IF ~FitsBuffers(doc.dims) THEN Refuse("dims")
       ELSE /\ stage' = "nodes" /\ at' = 1
            /\ UNCHANGED <<caller, doc, graph, refusal>>

\* Faulty variant of AddNode: a kind the registry lacks is let through.
AddAnyNode ==
    /\ stage = "nodes" /\ at <= Len(doc.nodes)
    /\ graph' = [graph EXCEPT !.kinds = Append(@, doc.nodes[at].kind)]
    /\ at' = at + 1
    /\ UNCHANGED <<caller, doc, stage, refusal>>

\* registry.build, for the next node; its id must be its position.
AddNode ==
    /\ stage = "nodes" /\ at <= Len(doc.nodes)
    /\ LET node == doc.nodes[at] IN
       IF node.id # at - 1 THEN Refuse("position")
       ELSE IF ~Registered(node.kind) THEN Refuse("unknown kind")
       ELSE IF ~node.paramsGood THEN Refuse("params")
       ELSE /\ graph' = [graph EXCEPT !.kinds = Append(@, node.kind)]
            /\ at' = at + 1
            /\ UNCHANGED <<caller, doc, stage, refusal>>

CheckOutput ==
    /\ stage = "nodes" /\ at > Len(doc.nodes)
    /\ IF doc.output >= Len(doc.nodes) THEN Refuse("output")
       ELSE /\ stage' = "edges" /\ at' = 1
            /\ UNCHANGED <<caller, doc, graph, refusal>>

Connect ==
    /\ stage = "edges" /\ at <= Len(doc.edges)
    /\ LET e == doc.edges[at] IN
       IF Unconnectable(graph, e) # "none" THEN Refuse(Unconnectable(graph, e))
       ELSE /\ graph' = Joined(graph, e)
            /\ at' = at + 1
            /\ UNCHANGED <<caller, doc, stage, refusal>>

\* Faulty variant of SetOutput: the result socket is not yet known when the
\* extra outputs are checked.
SetOutputLate ==
    /\ stage = "edges" /\ at > Len(doc.edges)
    /\ stage' = "extras" /\ at' = 1
    /\ UNCHANGED <<caller, doc, graph, refusal>>

\* set_domain_size and set_output cannot fail.
SetOutput ==
    /\ stage = "edges" /\ at > Len(doc.edges)
    /\ graph' = [graph EXCEPT !.output = doc.output]
    /\ stage' = "extras" /\ at' = 1
    /\ UNCHANGED <<caller, doc, refusal>>

ExtraSockets(d) ==
    [i \in 1..Len(d.outputs) |-> Socket(d.outputs[i].node, d.outputs[i].socket)]

CheckExtra ==
    /\ stage = "extras" /\ at <= Len(doc.outputs)
    /\ LET why == Unexportable(graph, ExtraSockets(doc), at) IN
       IF why # "none" THEN Refuse(why)
       ELSE /\ at' = at + 1
            /\ UNCHANGED <<caller, doc, stage, graph, refusal>>

\* The sockets are kept only once every one of them has been checked.
SetExtras ==
    /\ stage = "extras" /\ at > Len(doc.outputs)
    /\ graph' = [graph EXCEPT !.extras = ExtraSockets(doc)]
    /\ stage' = "built"
    /\ UNCHANGED <<caller, doc, at, refusal>>

\* The daemon's own check, once the graph is built.
Accept ==
    /\ stage = "built"
    /\ IF caller = "daemon" /\ ~FitsTextures(doc.dims) THEN Refuse("dims")
       ELSE /\ stage' = "loaded"
            /\ UNCHANGED <<caller, doc, at, graph, refusal>>

\* One step of loading the document that has been read.
Load ==
    \/ FromJson \/ ValidateFor \/ AddNode \/ CheckOutput \/ Connect
    \/ SetOutput \/ CheckExtra \/ SetExtras \/ Accept

\* The caller is done with the document: the next may be loaded.
Discard ==
    /\ stage \in {"loaded", "refused"}
    /\ stage' = "unloaded" /\ doc' = Nothing /\ UNCHANGED caller
    /\ at' = 1 /\ graph' = NoGraph /\ refusal' = "none"

Next == Read \/ Load \/ Discard

Spec == Init /\ [][Next]_vars

(***************************************************************************)
(* Properties.                                                             *)
(***************************************************************************)
Stages ==
    {"unloaded", "text", "parsed", "nodes", "edges", "extras", "built",
     "loaded", "refused"}

Refusals ==
    {"none", "json", "version", "fps", "domain_size", "output name", "dims",
     "position", "unknown kind", "params", "output", "unknown node",
     "no such socket", "type mismatch", "already connected", "no such output",
     "not a field", "named twice", "the result socket"}

\* The variables have their types.
TypeOK ==
    /\ caller \in Callers
    /\ doc # Nothing => doc.dims \in Nat \X Nat \X Nat
    /\ stage \in Stages
    /\ at \in Nat \ {0}
    /\ graph \in [kinds : Seq(DOMAIN Registry), edges : SUBSET Edges,
                  output : Nat, extras : Seq(Sockets)]
    /\ refusal \in Refusals
    /\ doc = Nothing <=> stage = "unloaded"

\* At every moment of the load (connect is called while the document is only
\* half read), each edge of the graph joins two sockets that exist and have
\* one type, and no input has two edges.  The evaluator indexes sockets by
\* these edges without looking again.
GraphIsTyped ==
    /\ \A e \in graph.edges :
           /\ HasOutput(graph, e.from) /\ HasInput(graph, e.to)
           /\ OutputType(graph, e.from) = InputType(graph, e.to)
    /\ \A e, f \in graph.edges : e.to = f.to => e = f

\* The extra outputs of a loaded graph are fields or vector fields, no two
\* the same socket and none the result, which eval_frame returns by itself:
\* taking one value twice would give it back to the pool twice.
ExtrasAreOwnable ==
    \A i \in 1..Len(graph.extras) :
        LET s == graph.extras[i] IN
        /\ HasOutput(graph, s) /\ OutputType(graph, s) \in Exported
        /\ s # Socket(doc.output, 0)
        /\ \A j \in 1..Len(graph.extras) : j # i => graph.extras[j] # s

\* A loaded graph is the document's, with nothing dropped or replaced: node n
\* is of the kind the file gives for id n, the edges are exactly the file's,
\* and the output is a node of the graph.
NothingIsDropped ==
    stage = "loaded" =>
        /\ \A i \in 1..Len(doc.nodes) :
               /\ doc.nodes[i].id < Len(graph.kinds)
               /\ graph.kinds[doc.nodes[i].id + 1] = doc.nodes[i].kind
        /\ graph.edges = {doc.edges[i] : i \in 1..Len(doc.edges)}
        /\ HasNode(graph, graph.output) /\ graph.output = doc.output

\* What the evaluator relies on, and what the file's author does.
LoadedGraphIsSound == TypeOK /\ GraphIsTyped /\ ExtrasAreOwnable /\ NothingIsDropped

\* A document is past its size check only if the padded staging buffer of its
\* result fits the device's largest buffer, row by row: read_back of the result
\* never asks for too large a buffer.  The faces of a vector field are another
\* matter: OutputsCanBeReadBack, which the code does not keep.
LoadedCanBeReadBack ==
    stage \in {"nodes", "edges", "extras", "built", "loaded"} =>
        LET bytes == doc.dims[1] * VoxelBytes IN
        \E padded \in bytes..(bytes + RowAlignment - 1) :
            /\ padded % RowAlignment = 0
            /\ \A z \in 0..doc.dims[3] - 1, y \in 0..doc.dims[2] - 1 :
                   (z * doc.dims[2] + y + 1) * padded <= MaxBuffer

\* create_texture refuses an extent that is too large, and one that is zero.
Creatable(dims) == \A a \in 1..3 : dims[a] \in 1..MaxTexture

\* The comment at the daemon's check: without it a document too large for the
\* device would answer Loaded and only fail later, on every render.  The check
\* looks upwards only: of the documents the daemon accepts, those with a zero
\* axis, and no others, fail in that way, at the texture of the domain or of a
\* face of a vector field.
OnlyZeroAxesFailLater ==
    stage = "loaded" /\ caller = "daemon" =>
        ((\A f \in {doc.dims} \cup FaceDims(doc.dims) : Creatable(f))
            <=> \A a \in 1..3 : doc.dims[a] > 0)

\* No size of a loaded document is above a limit of the device, in its
\* textures, faces included, and in the staging buffer of its result.
LoadedSizesAreWithinLimits == LoadedCanBeReadBack /\ OnlyZeroAxesFailLater

\* What that comment promises, with nothing excepted.
NoSizeFailsLater ==
    stage = "loaded" /\ caller = "daemon" =>
        \A f \in {doc.dims} \cup FaceDims(doc.dims) : Creatable(f)

\* The comment of validate_for: a document whose implied fields would not fit
\* the buffer limit is refused when it is loaded, instead of failing in
\* Field::read_back.  A vector field named as an output is read back face by
\* face, and a face is larger than the domain.
OutputsCanBeReadBack ==
    stage = "loaded" =>
        \A i \in 1..Len(graph.extras) :
            OutputType(graph, graph.extras[i]) = "vector" =>
                \A f \in FaceDims(doc.dims) : ReadbackBytes(f) <= MaxBuffer
=============================================================================
