----------------------------- MODULE GraphEval -----------------------------
(***************************************************************************)
(* Graph::eval_frame: the nodes of an evaluation order run one after the   *)
(* other, reading what earlier nodes produced through EvalCtx and drawing  *)
(* textures from a FieldPool.  A value has one owner: it is lent to each   *)
(* consumer, moved to the last and copied for an earlier one that takes    *)
(* it.  Any GPU call may fail.                                             *)
(*                                                                         *)
(* Nodes are named by their position in evaluation_order (GraphOrder says  *)
(* what that order guarantees).  A value is abstracted to the set of its   *)
(* textures, and a texture to its shape and its generation; there is one   *)
(* resolution.  holds maps each place to the textures it owns: the pool,   *)
(* produced, the node's inputs and outputs, the state store, the caller,   *)
(* and Lost for those dropped instead of released.                         *)
(***************************************************************************)
EXTENDS Integers, Sequences, FiniteSets

CONSTANTS
    Graphs,         \* the graphs to evaluate; see IsGraph
    Unconnected,    \* the source of an input without an edge
    MaxFailures     \* bound on GPU failures in a behaviour

(***************************************************************************)
(* Node kinds: their sockets and how each treats its inputs.  pick_second  *)
(* stands for a registered kind that only borrows an input.                *)
(***************************************************************************)
InputTypes ==
    [constant |-> <<>>, accumulate |-> <<"field">>, output |-> <<"field">>,
     collider |-> <<>>, emitter |-> <<>>, pick_second |-> <<"field", "field">>,
     collider_union |-> <<"field", "vector", "field", "vector", "field", "field">>,
     emitter_union |-> <<"field", "field", "field", "vector",
                         "field", "field", "field", "vector", "field", "field">>,
     solver |-> <<"field", "field", "field", "vector">>]

OutputTypes ==
    [constant |-> <<"field">>, accumulate |-> <<"field">>, output |-> <<"field">>,
     collider |-> <<"field", "vector", "field">>, pick_second |-> <<"field">>,
     collider_union |-> <<"field", "vector", "field">>,
     emitter |-> <<"field", "field", "field", "vector", "field">>,
     emitter_union |-> <<"field", "field", "field", "vector", "field">>,
     solver |-> <<"field", "vector">>]

Kinds == DOMAIN InputTypes

Optional == [k \in Kinds |-> CASE k = "collider_union" -> {5, 6}
                               [] k = "emitter_union" -> {9, 10}
                               [] k = "solver" -> {3, 4}
                               [] OTHER -> {}]

\* The outputs a node makes only if they are wanted: the solver's, and the
\* fuel, which an emitter makes once it has filled the others.
OnDemand == [solver |-> {1, 2}, emitter |-> {5}, emitter_union |-> {5}]
Emitters == {"emitter", "emitter_union"}
Fuel == 5

\* The input an identity node hands on as its output.
PassedOn == [output |-> 1, pick_second |-> 2]

\* Inputs that mean something only together, and the two loads of a union.
Pairs == [solver |-> {3, 4}]
Loads == [collider_union |-> {5, 6}]

StateType == [accumulate |-> "field", solver |-> "vector"]

MaxInputs == 10
MaxOutputs == 5

Shapes == {"cell", "x", "y", "z"}
ShapesOf == [field |-> <<"cell">>, vector |-> <<"x", "y", "z">>]
Textures == Shapes \X Nat

NodesOf(g) == 1..Len(g.kind)
Sockets(g) == {s \in NodesOf(g) \X (1..MaxOutputs) : s[2] <= Len(OutputTypes[g.kind[s[1]]])}
Inputs(g, n) == 1..Len(InputTypes[g.kind[n]])
TypeOf(g, s) == OutputTypes[g.kind[s[1]]][s[2]]

\* What Graph::connect, set_extra_outputs and evaluation_order let through.
IsGraph(g) ==
    /\ g = [kind |-> g.kind, source |-> g.source, result |-> g.result, extras |-> g.extras]
    /\ g.kind \in Seq(Kinds) /\ g.result \in NodesOf(g)
    /\ g.extras \subseteq Sockets(g) \ {<<g.result, 1>>}
    /\ DOMAIN g.source = NodesOf(g)
    /\ \A n \in NodesOf(g) :
        /\ DOMAIN g.source[n] = Inputs(g, n)
        /\ \A i \in Inputs(g, n) : g.source[n][i] # Unconnected =>
            /\ g.source[n][i] \in Sockets(g)
            /\ g.source[n][i][1] < n
            /\ TypeOf(g, g.source[n][i]) = InputTypes[g.kind[n]][i]

ASSUME GraphEvalAssumption ==
    /\ MaxFailures \in Nat
    /\ \A g \in Graphs : IsGraph(g) /\ Unconnected \notin Sockets(g)

VARIABLES
    graph,          \* the graph, the same throughout
    phase,          \* where evaluation has got to
    at,             \* the node being evaluated
    taken,          \* ctx.taken: the inputs the node has taken
    turn,           \* the output the node makes next
    remaining,      \* run.remaining: uses not finished, by output socket
    holds,          \* the textures at each place
    allocated,      \* textures ever created, by shape
    failures,       \* GPU calls that have failed
    full,           \* every stateful node had state when the frame began
    settled         \* a frame has completed from a full store, and nothing was lost since

evalVars == <<graph, phase, at, taken, turn, remaining, holds, allocated,
              failures, full, settled>>

Pool == <<"pool">>
Lost == <<"lost">>
Kept == <<"kept">>                  \* the node's state, or scratch, while it runs
Produced(s) == <<"produced", s>>
Input(i) == <<"input", i>>
Output(j) == <<"output", j>>
Store(n) == <<"store", n>>
Caller(s) == <<"caller", s>>

InputPlaces == {Input(i) : i \in 1..MaxInputs}
OutputPlaces == {Output(j) : j \in 1..MaxOutputs}
ProducedPlaces == {Produced(s) : s \in Sockets(graph)}
StorePlaces == {Store(n) : n \in NodesOf(graph)}
CallerPlaces == {Caller(s) : s \in Sockets(graph)}
NodePlaces == {Kept} \cup InputPlaces \cup OutputPlaces

Places == {Pool, Lost} \cup NodePlaces \cup ProducedPlaces \cup StorePlaces \cup CallerPlaces

(***************************************************************************)
(* Moving textures between places.                                         *)
(***************************************************************************)
Contents(places) == UNION {holds[p] : p \in places}

\* holds once everything at the places from is at place to.
Moved(from, to) ==
    [p \in Places |-> IF p = to THEN holds[p] \cup Contents(from)
                      ELSE IF p \in from THEN {} ELSE holds[p]]

\* Faulty variant of Supply: recycled textures are never handed out again.
SupplyFresh(shape) == <<shape, allocated[shape]>>

\* FieldPool::acquire: a free texture of the shape, or a new one.
Supply(shape) ==
    LET free == {t \in holds[Pool] : t[1] = shape}
    IN IF free = {} THEN <<shape, allocated[shape]>> ELSE CHOOSE t \in free : TRUE

Exhausted(shape) == \A t \in holds[Pool] : t[1] # shape

\* What acquiring the first n textures of a value of this type gets.
First(n, type) == {Supply(ShapesOf[type][k]) : k \in 1..n}

Whole(type) == First(Len(ShapesOf[type]), type)

Acquire(textures, place) ==
    /\ holds' = [holds EXCEPT ![Pool] = @ \ textures, ![place] = @ \cup textures]
    /\ allocated' = [s \in Shapes |-> IF <<s, allocated[s]>> \in textures
                                      THEN allocated[s] + 1 ELSE allocated[s]]

\* How many textures a failed copy of a value leaves acquired: it failed to
\* acquire the next one or to fill the last.
FailedCopies(type) ==
    {n \in 0..Len(ShapesOf[type]) : n > 0 \/ Exhausted(ShapesOf[type][1])}

\* As above when nothing is filled: acquiring the next one failed.
FailedAcquires(type) ==
    {n \in 0..Len(ShapesOf[type]) - 1 : Exhausted(ShapesOf[type][n + 1])}

\* The node returns an error.  The failed call had acquired got; the node
\* drops gone and releases everything else it held.
Err(got, gone) ==
    /\ LET spilled == (Contents(NodePlaces) \cup got) \ gone
       IN holds' = [p \in Places |->
            IF p = Pool THEN (holds[Pool] \ gone) \cup spilled
            ELSE IF p = Lost THEN holds[Lost] \cup gone
            ELSE IF p \in NodePlaces THEN {} ELSE holds[p]]
    /\ allocated' = [s \in Shapes |-> IF <<s, allocated[s]>> \in got
                                      THEN allocated[s] + 1 ELSE allocated[s]]
    /\ settled' = (settled /\ gone = {})
    /\ phase' = "failed"
    /\ UNCHANGED <<graph, at, taken, turn, remaining, full>>

\* It returns one because a GPU call failed.
Fail(got, gone) ==
    /\ failures < MaxFailures
    /\ failures' = failures + 1
    /\ Err(got, gone)

(***************************************************************************)
(* The graph being evaluated.                                              *)
(***************************************************************************)
Result == <<graph.result, 1>>
Kind == graph.kind[at]
Source(i) == graph.source[at][i]
Connected(n) == {i \in Inputs(graph, n) : graph.source[n][i] # Unconnected}

Stateful(n) == graph.kind[n] \in DOMAIN StateType
PassesOn(n) == graph.kind[n] \in DOMAIN PassedOn

\* The inputs the node takes; pick_second only borrows its first.
Takes(n) ==
    CASE graph.kind[n] = "pick_second" -> {2}
      [] OTHER -> {i \in Inputs(graph, n) :
                      i \in Optional[graph.kind[n]] => i \in Connected(n)}

\* The uses of output s: each input it feeds.
Uses(s) ==
    {u \in NodesOf(graph) \X (1..MaxInputs) :
        u[2] \in Connected(u[1]) /\ graph.source[u[1]][u[2]] = s}

Extra(s) == IF s \in graph.extras THEN 1 ELSE 0

IsWanted(s) == s = Result \/ remaining[s] > 0

\* Faulty variant of EnterNode: does not notice that it ran the last node.
EnterNodeUnbounded(n) ==
    /\ at' = n
    /\ taken' = {} /\ turn' = 1
    /\ phase' = "inputs"

\* Evaluation goes on with node n, or ends.
EnterNode(n) ==
    /\ at' = n
    /\ taken' = {} /\ turn' = 1
    /\ phase' = IF n \notin NodesOf(graph) THEN "deliver"
                ELSE IF Stateful(n) THEN "state" ELSE "inputs"

(***************************************************************************)
(* A frame.                                                                *)
(***************************************************************************)
EvalInit ==
    /\ graph \in Graphs
    /\ phase = "idle" /\ at = 1 /\ taken = {} /\ turn = 1
    /\ remaining = [s \in Sockets(graph) |-> 0]
    /\ holds = [p \in Places |-> {}]
    /\ allocated = [s \in Shapes |-> 0]
    /\ failures = 0 /\ full = FALSE /\ settled = FALSE

UsesOf(s) == Cardinality(Uses(s)) + Extra(s)

\* eval_frame counts every use before the first node runs.
Begin ==
    /\ phase = "idle"
    /\ remaining' = [s \in Sockets(graph) |-> UsesOf(s)]
    /\ full' = (\A n \in NodesOf(graph) : Stateful(n) => holds[Store(n)] # {})
    /\ EnterNode(1)
    /\ UNCHANGED <<graph, holds, allocated, failures, settled>>

TakeState ==
    /\ phase = "state"
    /\ IF holds[Store(at)] # {}
       THEN holds' = Moved({Store(at)}, Kept) /\ UNCHANGED allocated
       ELSE Acquire(Whole(StateType[Kind]), Kept)
    /\ phase' = "inputs"
    /\ UNCHANGED <<graph, at, taken, turn, remaining, failures, full, settled>>

\* Zeroing fresh state: what was acquired is dropped.
TakeStateFails ==
    /\ phase = "state" /\ holds[Store(at)] = {}
    /\ \E n \in FailedCopies(StateType[Kind]) :
        LET got == First(n, StateType[Kind]) IN Fail(got, got)

\* Only one input of a pair is connected.
Unpaired ==
    /\ Kind \in DOMAIN Pairs
    /\ Pairs[Kind] \cap Connected(at) \notin {{}, Pairs[Kind]}

IncompletePair ==
    /\ phase = "inputs" /\ Unpaired
    /\ Err({}, {})
    /\ UNCHANGED failures

\* The inputs the node has still to take, and the one it asks for next.
StillToTake == IF phase = "inputs" THEN Takes(at) \ taken ELSE {}

Wants(i) == ~Unpaired /\ i \in StillToTake /\ \A k \in StillToTake : i <= k

\* Faulty variants of LastUse: moves a value that one more consumer needs;
\* copies it even for the last.
NearlyLastUse(s) == remaining[s] <= 2

NeverLastUse(s) == remaining[s] < 1

LastUse(s) == remaining[s] <= 1

\* take_input moves the value to its last consumer...
TakeInput(i) ==
    /\ Wants(i) /\ i \in Connected(at)
    /\ LastUse(Source(i)) /\ holds[Produced(Source(i))] # {}
    /\ holds' = Moved({Produced(Source(i))}, Input(i))
    /\ remaining' = [remaining EXCEPT ![Source(i)] = 0]
    /\ taken' = taken \cup {i}
    /\ UNCHANGED <<graph, phase, at, turn, allocated, failures, full, settled>>

\* ... and copies it for an earlier one.
CopyInput(i) ==
    /\ Wants(i) /\ i \in Connected(at)
    /\ ~LastUse(Source(i)) /\ holds[Produced(Source(i))] # {}
    /\ Acquire(Whole(TypeOf(graph, Source(i))), Input(i))
    /\ remaining' = [remaining EXCEPT ![Source(i)] = @ - 1]
    /\ taken' = taken \cup {i}
    /\ UNCHANGED <<graph, phase, at, turn, failures, full, settled>>

\* What a node drops when taking an input fails: accumulate drops its sum.
DroppedWithState == IF Kind = "accumulate" THEN holds[Kept] ELSE {}

CopyInputFails(i) ==
    /\ Wants(i) /\ i \in Connected(at)
    /\ ~LastUse(Source(i)) /\ holds[Produced(Source(i))] # {}
    /\ \E n \in FailedCopies(TypeOf(graph, Source(i))) :
        LET got == First(n, TypeOf(graph, Source(i)))
        IN Fail(got, got \cup DroppedWithState)

MissingInput(i) ==
    /\ Wants(i)
    /\ i \in Connected(at) => holds[Produced(Source(i))] = {}
    /\ Err({}, DroppedWithState)
    /\ UNCHANGED failures

\* Faulty variant of DoneWith: inputs are dropped, not released.
DoneWithDropped == Lost

\* Where the input goes that accumulate has added.
DoneWith == Pool

Ready == phase = "inputs" /\ ~Unpaired /\ Takes(at) \subseteq taken

\* A union with one load needs a zeroed field for the other.
OneLoad ==
    /\ Kind \in DOMAIN Loads
    /\ Cardinality(Loads[Kind] \cap Connected(at)) = 1

\* Every input is in hand.  accumulate adds its input to the sum and releases
\* it; the solver steps its state; an identity node passes its input on.
Compute ==
    /\ Ready
    /\ IF OneLoad
       THEN Acquire(Whole("field"), Kept)
       ELSE /\ UNCHANGED allocated
            /\ holds' = CASE Kind = "accumulate" -> Moved({Input(1)}, DoneWith)
                          [] PassesOn(at) -> Moved({Input(PassedOn[Kind])}, Output(1))
                          [] OTHER -> holds
    /\ phase' = IF PassesOn(at) THEN "publish" ELSE "outputs"
    /\ UNCHANGED <<graph, at, taken, turn, remaining, failures, full, settled>>

ComputeFails ==
    /\ Ready
    /\ \/ Stateful(at) /\ Fail({}, {})
       \/ OneLoad /\ \E n \in FailedCopies("field") : Fail(First(n, "field"), First(n, "field"))

\* A node puts a scalar where nobody wants the output.
Placeholder ==
    /\ Kind \in DOMAIN OnDemand /\ turn \in OnDemand[Kind]
    /\ ~IsWanted(<<at, turn>>)

\* The fuel of a union: zeroes, a copy of its one fuel input, or their sum.
Summed == Optional["emitter_union"] \subseteq Connected(at)

\* Faulty variant of NextOutput: stuck at an output that is not copied.
NextOutputWanted == IF Placeholder THEN turn ELSE turn + 1

NextOutput == turn + 1

Making == phase = "outputs" /\ turn <= Len(OutputTypes[Kind])

MakeOutput ==
    /\ Making
    /\ IF Placeholder THEN UNCHANGED <<holds, allocated>>
       ELSE Acquire(Whole(OutputTypes[Kind][turn]), Output(turn))
    /\ turn' = NextOutput
    /\ UNCHANGED <<graph, phase, at, taken, remaining, failures, full, settled>>

\* produce, and constant_field: the faces already acquired are dropped; and a
\* union's fuel, where it is zeroed or copied.
AcquireOutputFails ==
    /\ Making /\ ~Stateful(at) /\ ~Placeholder
    /\ LET type == OutputTypes[Kind][turn]
           copied == Kind = "emitter_union" /\ turn = Fuel /\ ~Summed
       IN \E n \in IF copied THEN FailedCopies(type) ELSE FailedAcquires(type) :
            Fail(First(n, type), First(n, type))

\* A stateful node's output is a copy of its state.  accumulate drops the
\* copy and the sum; the solver drops only the texture whose copy failed.
CopyOutputFails ==
    /\ Making /\ Stateful(at) /\ ~Placeholder
    /\ LET type == OutputTypes[Kind][turn]
       IN \E n \in FailedCopies(type) :
            LET got == First(n, type)
            IN \/ Fail(got, (IF n = 0 THEN {} ELSE got \ First(n - 1, type))
                                \cup DroppedWithState)
               \/ /\ n > 0 /\ n < Len(ShapesOf[type]) /\ Exhausted(ShapesOf[type][n + 1])
                  /\ Fail(got, DroppedWithState)

\* What has been acquired is now filled: with an emitter's fuel, all but the
\* fuel first, and the fuel if there is one that is not a copy.
Filling ==
    IF Kind \in Emitters /\ turn > Fuel
    THEN IsWanted(<<at, Fuel>>) /\ (Kind = "emitter_union" => Summed)
    ELSE turn = IF Kind \in Emitters THEN Fuel ELSE Len(OutputTypes[Kind]) + 1

\* Filling fails: constant_field and noise_field drop what they acquired.
FillFails ==
    /\ phase = "outputs" /\ ~Stateful(at) /\ Filling
    /\ Fail({}, IF Kind = "constant" THEN Contents(OutputPlaces) ELSE {})

Made ==
    /\ phase = "outputs" /\ turn > Len(OutputTypes[Kind])
    /\ phase' = "publish"
    /\ UNCHANGED <<graph, at, taken, turn, remaining, holds, allocated,
                   failures, full, settled>>

\* The uses of s by the current node that only borrowed it.
Borrowed(s) == {u \in Uses(s) : u[1] = at /\ u[2] \notin taken}

\* Faulty variant of Consumed: a borrowed input is never finished with.
ConsumedNever == remaining

\* remaining once the borrowed inputs are finished with.
Consumed == [s \in Sockets(graph) |-> remaining[s] - Cardinality(Borrowed(s))]

\* Faulty variant of Unwanted: outputs nobody wants are kept all the same.
UnwantedNone == {}

Unwanted == {j \in 1..Len(OutputTypes[Kind]) : ~IsWanted(<<at, j>>)}

\* The node has returned: its taken inputs go back to the pool and its state
\* to the store, lent values whose last use this was are released, and its
\* outputs are filed, the unwanted ones released.
Publish ==
    /\ phase = "publish"
    /\ remaining' = Consumed
    /\ LET spent == {Produced(s) : s \in {t \in Sockets(graph) : Borrowed(t) # {} /\ Consumed[t] = 0}}
           scratch == IF Stateful(at) THEN {} ELSE {Kept}
           released == InputPlaces \cup scratch \cup spent \cup {Output(j) : j \in Unwanted}
       IN holds' = [p \in Places |->
            IF p = Pool THEN holds[Pool] \cup Contents(released)
            ELSE IF Stateful(at) /\ p = Store(at) THEN holds[Kept]
            ELSE IF p \in NodePlaces \cup spent THEN {}
            ELSE IF p[1] = "produced" /\ p[2][1] = at /\ p[2][2] \notin Unwanted
                 THEN holds[Output(p[2][2])]
            ELSE holds[p]]
    /\ EnterNode(at + 1)
    /\ UNCHANGED <<graph, allocated, failures, full, settled>>

Returned == {Result} \cup graph.extras

\* The result and the extras go to the caller; what is left is released.
Deliver ==
    /\ phase = "deliver"
    /\ \A s \in Returned : holds[Produced(s)] # {}
    /\ holds' = [p \in Places |->
        IF p = Pool
        THEN holds[Pool] \cup Contents({Produced(s) : s \in Sockets(graph) \ Returned})
        ELSE IF p \in ProducedPlaces THEN {}
        ELSE IF p[1] = "caller" /\ p[2] \in Returned THEN holds[Produced(p[2])]
        ELSE holds[p]]
    /\ settled' = (settled \/ full)
    /\ phase' = "returned"
    /\ UNCHANGED <<graph, at, taken, turn, remaining, allocated, failures, full>>

\* The result is not there: UnknownNode.
LacksResult ==
    /\ phase = "deliver"
    /\ \E s \in Returned : holds[Produced(s)] = {}
    /\ phase' = "failed"
    /\ UNCHANGED <<graph, at, taken, turn, remaining, holds, allocated,
                   failures, full, settled>>

\* Faulty variant of Drained: an error leaves what was produced where it is.
DrainedNone == {}

Drained == ProducedPlaces

\* eval_frame returns the error, and everything produced to the pool.
Abort ==
    /\ phase = "failed"
    /\ holds' = Moved(Drained, Pool)
    /\ phase' = "idle"
    /\ UNCHANGED <<graph, at, taken, turn, remaining, allocated, failures, full, settled>>

(***************************************************************************)
(* The caller.                                                             *)
(***************************************************************************)
\* Evaluated::release_to.
ReleaseEvaluated ==
    /\ phase = "returned"
    /\ holds' = Moved(CallerPlaces, Pool)
    /\ phase' = "idle"
    /\ UNCHANGED <<graph, at, taken, turn, remaining, allocated, failures, full, settled>>

\* StateStore::clear.
ClearState ==
    /\ phase = "idle"
    /\ holds' = Moved(StorePlaces, Pool)
    /\ UNCHANGED <<graph, phase, at, taken, turn, remaining, allocated, failures, full, settled>>

Evaluate ==
    \/ TakeState \/ TakeStateFails \/ IncompletePair
    \/ \E i \in StillToTake :
        TakeInput(i) \/ CopyInput(i) \/ CopyInputFails(i) \/ MissingInput(i)
    \/ Compute \/ ComputeFails
    \/ MakeOutput \/ AcquireOutputFails \/ CopyOutputFails \/ FillFails \/ Made
    \/ Publish
    \/ Deliver \/ LacksResult \/ Abort

EvalNext == Begin \/ Evaluate \/ ReleaseEvaluated \/ ClearState

\* eval_frame is a loop: once begun, it runs.
EvalSpec == EvalInit /\ [][EvalNext]_evalVars /\ WF_evalVars(Evaluate)

(***************************************************************************)
(* Properties.                                                             *)
(***************************************************************************)
Evaluating == phase \in {"state", "inputs", "outputs", "publish"}

\* The shapes of the variables.
EvalTypeOK ==
    /\ graph \in Graphs
    /\ phase \in {"idle", "state", "inputs", "outputs", "publish", "deliver",
                  "returned", "failed"}
    /\ at \in 1..Len(graph.kind) + 1
    /\ Evaluating => at \in NodesOf(graph)
    /\ taken \subseteq 1..MaxInputs /\ turn \in 1..MaxOutputs + 1
    /\ remaining \in [Sockets(graph) -> Nat]
    /\ holds \in [Places -> SUBSET Textures]
    /\ allocated \in [Shapes -> Nat]
    /\ failures \in Nat /\ full \in BOOLEAN /\ settled \in BOOLEAN

\* The uses of s that are not finished: every use by a node still to run, and
\* the inputs the current node has not taken.
Pending(s) ==
    {u \in Uses(s) : u[1] > at \/ (u[1] = at /\ u[2] \notin taken)}

\* remaining counts exactly the uses that are not finished, and one more for
\* an extra output, at every point of an evaluation.
RemainingIsExact ==
    Evaluating => \A s \in Sockets(graph) :
        remaining[s] = Cardinality(Pending(s)) + Extra(s)

\* A connected input is there until the node takes it: the order runs its
\* source first, and no earlier consumer moved or released the value.
NeverStarved ==
    Evaluating => \A i \in Connected(at) \ taken : holds[Produced(Source(i))] # {}

\* A value is kept only while something will still use it.
NothingKeptInVain ==
    Evaluating => \A s \in Sockets(graph) :
        holds[Produced(s)] # {} => IsWanted(s) /\ s[1] < at

\* A value is there for as long as it has uses, and no longer.
UsesAreExact == EvalTypeOK /\ RemainingIsExact /\ NeverStarved /\ NothingKeptInVain

\* A texture has one owner, and every texture ever created has one.
OneOwner == \A p, q \in Places : p # q => holds[p] \cap holds[q] = {}

AllOwned == \A s \in Shapes : {s} \X (0..allocated[s] - 1) \subseteq Contents(Places)

\* accumulate has its sum in hand when it asks for its input.
SumsAreFed ==
    \A n \in NodesOf(graph) : graph.kind[n] = "accumulate" => Connected(n) = Inputs(graph, n)

\* A texture is at exactly one place; between evaluations it is idle in the
\* pool, kept as state or was dropped; and it is dropped only where a GPU call
\* failed, or a sum that has no input.  Nothing is stranded in the evaluator.
NothingStranded ==
    /\ OneOwner /\ AllOwned
    /\ phase = "idle" => \A p \in Places \ ({Pool, Lost} \cup StorePlaces) : holds[p] = {}
    /\ failures = 0 /\ SumsAreFed => holds[Lost] = {}

\* A value is copied only if something still needs the original.
Copies(i) ==
    /\ i \in taken' \ taken
    /\ holds'[Produced(Source(i))] # {}

CopyIsNeeded ==
    [][\A i \in 1..MaxInputs : Copies(i) =>
        LET s == Source(i)
        IN s \in graph.extras \/ Pending(s) # {<<at, i>>}]_evalVars

\* Once a frame has completed from a full store, evaluating the same graph
\* creates no texture: every one is recycled.
RecyclesEverything == [][settled => allocated' = allocated]_evalVars

\* Every evaluation returns.
EveryFrameReturns == phase # "idle" ~> phase \in {"idle", "returned"}

\* "Every field produced along the way is back in pool when this returns ...
\* whether evaluation succeeds or fails."
ReturnsEverything == holds[Lost] = {}

\* The result socket "is wanted even though no node reads it": once every
\* node has succeeded, the result is there.
ResultIsKept == phase = "deliver" => holds[Produced(Result)] # {}
=============================================================================
