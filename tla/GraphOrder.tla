----------------------------- MODULE GraphOrder -----------------------------
(***************************************************************************)
(* Graph::evaluation_order: topological_order, an iterative depth-first    *)
(* search with an explicit stack, then the nodes that the output and the   *)
(* extra outputs depend on.  GraphEval evaluates nodes in this order.      *)
(*                                                                         *)
(* sources[n] lists the nodes feeding n's connected inputs, as sources_of  *)
(* does: one node may be listed twice, and nothing keeps it from being n.  *)
(***************************************************************************)
EXTENDS Integers, Sequences

CONSTANTS
    NodeCount,      \* the nodes, numbered from 1
    SourceLists,    \* what may feed one node
    TargetLists     \* output node first, then the nodes of the extra outputs

Nodes == 1..NodeCount

ASSUME GraphOrderAssumption ==
    /\ NodeCount \in Nat
    /\ SourceLists \subseteq Seq(Nodes) /\ TargetLists \subseteq Seq(Nodes)

VARIABLES
    sources,        \* sources_of, by node
    targets,        \* the output node and the extra outputs' nodes
    pc,             \* the loop being run, or how it ended
    marks,          \* topological_order's mark on each node
    stack,          \* its stack: a node, and whether its sources are done
    entering,       \* the node whose sources are being pushed, or 0
    next,           \* the position the innermost loop is at
    order,          \* the nodes in dependency order, so far
    culprit,        \* the node a cycle was reported through
    needed,         \* evaluation_order: the nodes known to be needed
    pending,        \* its stack
    plan            \* what it returns: the part of the order that is needed

given == <<sources, targets>>
search == <<marks, stack, entering, order, culprit>>
selection == <<needed, pending, plan>>
vars == <<given, pc, search, next, selection>>

Listed(s) == {s[i] : i \in 1..Len(s)}
Top(s) == s[Len(s)]
Popped(s) == SubSeq(s, 1, Len(s) - 1)

Entries == [node : Nodes, ready : BOOLEAN]
Entry(n, ready) == [node |-> n, ready |-> ready]

Init ==
    /\ sources \in [Nodes -> SourceLists]
    /\ targets \in TargetLists
    /\ pc = "ordering"
    /\ marks = [n \in Nodes |-> "unvisited"]
    /\ stack = <<>> /\ entering = 0 /\ next = 1 /\ order = <<>>
    /\ culprit = 0
    /\ needed = {} /\ pending = <<>> /\ plan = <<>>

(***************************************************************************)
(* topological_order.                                                      *)
(***************************************************************************)
Ordering == pc = "ordering" /\ entering = 0

\* Faulty variant of Start: visited nodes are started from again.
StartAnywhere ==
    /\ Ordering /\ stack = <<>>
    /\ \E n \in Nodes : stack' = <<Entry(n, FALSE)>>
    /\ UNCHANGED <<given, pc, marks, entering, order, culprit, next, selection>>

\* The stack is empty: start from the next unvisited node.
Start ==
    /\ Ordering /\ stack = <<>>
    /\ \E n \in Nodes :
        /\ marks[n] = "unvisited"
        /\ \A m \in 1..n - 1 : marks[m] # "unvisited"
        /\ stack' = <<Entry(n, FALSE)>>
    /\ UNCHANGED <<given, pc, marks, entering, order, culprit, next, selection>>

Arriving(n) == Ordering /\ stack # <<>> /\ Top(stack) = Entry(n, FALSE)

Enter(n) ==
    /\ Arriving(n) /\ marks[n] = "unvisited"
    /\ marks' = [marks EXCEPT ![n] = "in_progress"]
    /\ stack' = Append(Popped(stack), Entry(n, TRUE))
    /\ entering' = n /\ next' = 1
    /\ UNCHANGED <<given, pc, order, culprit, selection>>

\* Visited meanwhile through another node that it feeds.
Revisit(n) ==
    /\ Arriving(n) /\ marks[n] = "done"
    /\ stack' = Popped(stack)
    /\ UNCHANGED <<given, pc, marks, entering, order, culprit, next, selection>>

\* s is the source of the node being entered that comes next.
Scanning(s) ==
    /\ pc = "ordering" /\ entering # 0
    /\ next <= Len(sources[entering]) /\ sources[entering][next] = s

Waiting(s) == marks[s] = "unvisited"

PushSource(s) ==
    /\ Scanning(s) /\ Waiting(s)
    /\ stack' = Append(stack, Entry(s, FALSE))
    /\ next' = next + 1
    /\ UNCHANGED <<given, pc, marks, entering, order, culprit, selection>>

\* Faulty variant of PassedOver: a node that feeds itself is passed over.
PassedOverSelf(s) == marks[s] = "done" \/ s = entering

PassedOver(s) == marks[s] = "done"

PassSource(s) ==
    /\ Scanning(s) /\ PassedOver(s)
    /\ next' = next + 1
    /\ UNCHANGED <<given, pc, search, selection>>

\* Faulty variant of EndScan: the last source is left out.
EndScanEarly ==
    /\ pc = "ordering" /\ entering # 0 /\ next >= Len(sources[entering])
    /\ entering' = 0
    /\ UNCHANGED <<given, pc, marks, stack, order, culprit, next, selection>>

EndScan ==
    /\ pc = "ordering" /\ entering # 0 /\ next > Len(sources[entering])
    /\ entering' = 0
    /\ UNCHANGED <<given, pc, marks, stack, order, culprit, next, selection>>

\* Faulty variant of Reported: no node is named.
ReportedNone(n) == 0

\* Faulty variant of Reported: the node on top of the stack.
ReportedTop(n) == Top(stack).node

Reported(n) == n

\* The search has met, on the stack or as a source, a node in progress.
FindCycle(n) ==
    /\ Arriving(n) \/ Scanning(n)
    /\ marks[n] = "in_progress"
    /\ culprit' = Reported(n)
    /\ pc' = "cycle"
    /\ UNCHANGED <<given, marks, stack, entering, order, next, selection>>

\* Faulty variant of Leave: the mark is reset instead of set.
LeaveUnmarked(n) ==
    /\ Ordering /\ stack # <<>> /\ Top(stack) = Entry(n, TRUE)
    /\ marks' = [marks EXCEPT ![n] = "unvisited"]
    /\ order' = Append(order, n)
    /\ stack' = Popped(stack)
    /\ UNCHANGED <<given, pc, entering, culprit, next, selection>>

\* Every source of n is in the order: now n is.
Leave(n) ==
    /\ Ordering /\ stack # <<>> /\ Top(stack) = Entry(n, TRUE)
    /\ marks' = [marks EXCEPT ![n] = "done"]
    /\ order' = Append(order, n)
    /\ stack' = Popped(stack)
    /\ UNCHANGED <<given, pc, entering, culprit, next, selection>>

(***************************************************************************)
(* evaluation_order.                                                       *)
(***************************************************************************)
\* Faulty variant of Targets: the extra outputs are forgotten.
TargetsOutput == SubSeq(targets, 1, 1)

Targets == targets

Ordered ==
    /\ Ordering /\ stack = <<>>
    /\ \A n \in Nodes : marks[n] # "unvisited"
    /\ pc' = "marking"
    /\ pending' = Targets
    /\ UNCHANGED <<given, search, next, needed, plan>>

\* What the discovery of n adds to the stack.
Further(n) == IF n \in needed THEN <<>> ELSE sources[n]

Need ==
    /\ pc = "marking" /\ pending # <<>>
    /\ needed' = needed \cup {Top(pending)}
    /\ pending' = Popped(pending) \o Further(Top(pending))
    /\ UNCHANGED <<given, pc, search, next, plan>>

Marked ==
    /\ pc = "marking" /\ pending = <<>>
    /\ pc' = "selecting" /\ next' = 1
    /\ UNCHANGED <<given, search, selection>>

Select ==
    /\ pc = "selecting" /\ next <= Len(order)
    /\ plan' = IF order[next] \in needed THEN Append(plan, order[next]) ELSE plan
    /\ next' = next + 1
    /\ UNCHANGED <<given, pc, search, needed, pending>>

Selected ==
    /\ pc = "selecting" /\ next > Len(order)
    /\ pc' = "done"
    /\ UNCHANGED <<given, search, next, selection>>

Visit(n) ==
    \/ Enter(n) \/ Revisit(n) \/ Leave(n)
    \/ PushSource(n) \/ PassSource(n) \/ FindCycle(n)

Next ==
    \/ Start \/ EndScan \/ \E n \in Nodes : Visit(n)
    \/ Ordered \/ Need \/ Marked \/ Select \/ Selected

\* The loops run to their end.
Spec == Init /\ [][Next]_vars /\ WF_vars(Next)

(***************************************************************************)
(* Properties.                                                             *)
(***************************************************************************)
\* The shapes of the variables.
TypeOK ==
    /\ sources \in [Nodes -> Seq(Nodes)] /\ targets \in Seq(Nodes)
    /\ pc \in {"ordering", "marking", "selecting", "done", "cycle"}
    /\ marks \in [Nodes -> {"unvisited", "in_progress", "done"}]
    /\ stack \in Seq(Entries)
    /\ entering \in Nodes \cup {0} /\ next \in Nat \ {0}
    /\ order \in Seq(Nodes) /\ plan \in Seq(Nodes)
    /\ culprit \in Nodes \cup {0} /\ (pc = "cycle" => culprit # 0)
    /\ needed \subseteq Nodes /\ pending \in Seq(Nodes)

\* A node comes after everything that feeds it.
Respects(sequence) ==
    \A i \in 1..Len(sequence) : \A s \in Listed(sources[sequence[i]]) :
        \E j \in 1..i - 1 : sequence[j] = s

\* topological_order's order as it grows, and the part of it that
\* evaluation_order keeps: no node is evaluated before its inputs, even
\* after the nodes that are not needed have been left out.
OrderRespectsSources == Respects(order) /\ Respects(plan)

\* No node is evaluated twice.
OrderHasNoRepeats ==
    \A i, j \in 1..Len(order) : order[i] = order[j] => i = j

\* The nodes that those in start depend on, themselves included: the least
\* set that holds start and the sources of its members.
Upstream(start) ==
    {n \in Nodes : \A C \in SUBSET Nodes :
        (start \subseteq C /\ \A m \in C : Listed(sources[m]) \subseteq C) => n \in C}

\* The evaluation order holds exactly the nodes that the output and the
\* extra outputs depend on: no more is run, and no source is missing.
PlanIsExact ==
    pc = "done" => Listed(plan) = Upstream(Listed(targets))

\* What the evaluator may assume of the order it walks.
PlanIsSound == TypeOK /\ OrderRespectsSources /\ OrderHasNoRepeats /\ PlanIsExact

\* "the graph contains a cycle through node {0}": the node named in the error
\* feeds itself, directly or through others.
CulpritIsOnCycle ==
    pc = "cycle" => culprit \in Upstream(Listed(sources[culprit]))

\* A graph with a cycle is never ordered, even where no target needs it.
CyclesAreFound ==
    pc \in {"marking", "selecting", "done"} =>
        \A n \in Nodes : n \notin Upstream(Listed(sources[n]))

\* An error names a node on a cycle, and there is one for every cycle.
CyclesAreReported == CulpritIsOnCycle /\ CyclesAreFound

\* The arm of the search for popping a node in progress is never taken: a
\* cycle is always found from its other end.
NeverMetInProgress ==
    \A n \in Nodes : Arriving(n) => marks[n] # "in_progress"

\* The search ends, on graphs with a cycle too.
Terminates == <>(pc \in {"done", "cycle"})
=============================================================================
