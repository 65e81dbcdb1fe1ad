-------------------------- MODULE GraphOrderProofs --------------------------
(***************************************************************************)
(* Proofs about GraphOrder and GraphEval, for any number of nodes and any  *)
(* edges: the order, then its evaluation, then what it recycles.           *)
(*                                                                         *)
(* The order.  The argument: the stack holds a path.  Every node above a   *)
(* ready entry is upstream of it (Chain), so meeting a node in progress    *)
(* closes a real cycle; and every source of a ready entry is done or waits *)
(* above it (Covered), so when the entry is on top all its sources are     *)
(* done.                                                                   *)
(***************************************************************************)
EXTENDS GraphOrder, GraphEval, TLAPS, SequenceTheorems, FiniteSetTheorems,
        FunctionTheorems

Depths == 1..Len(stack)

\* The entry at depth k is for n, whose sources have been pushed, or are being.
ReadyAt(k, n) == stack[k].node = n /\ stack[k].ready

\* Everything that feeds n, directly or through others.
Feeders(n) == Upstream(Listed(sources[n]))

\* Marks, order and stack tell the same story.
DoneIsOrdered ==
    \A n \in Nodes : marks[n] = "done" <=> \E j \in 1..Len(order) : order[j] = n
InProgressIsReady ==
    \A n \in Nodes : marks[n] = "in_progress" <=> \E k \in Depths : ReadyAt(k, n)
ReadyOnce ==
    \A n \in Nodes : \A j, k \in Depths : ReadyAt(j, n) /\ ReadyAt(k, n) => j = k

\* The node being entered is the last ready one.
EnteringIsLast ==
    entering # 0 =>
        \E e \in Depths :
            /\ ReadyAt(e, entering)
            /\ \A k \in Depths : e < k => ~stack[k].ready

\* A source of a ready entry that the search has looked at is done, or on the
\* stack above it.
Covered ==
    \A n \in Nodes : \A k \in Depths : ReadyAt(k, n) =>
        \A i \in 1..Len(sources[n]) : (n = entering => i < next) =>
            \/ marks[sources[n][i]] = "done"
            \/ \E j \in Depths : k < j /\ stack[j].node = sources[n][i]

\* Everything above a ready entry feeds it.
Chain ==
    \A n \in Nodes : \A j, k \in Depths :
        k < j /\ ReadyAt(k, n) => stack[j].node \in Feeders(n)

SearchInvariant ==
    /\ DoneIsOrdered /\ InProgressIsReady /\ ReadyOnce
    /\ EnteringIsLast /\ Covered /\ Chain
    /\ Respects(order) /\ OrderHasNoRepeats
    /\ CulpritIsOnCycle
    /\ pc \notin {"ordering", "cycle"} =>
        /\ stack = <<>> /\ entering = 0
        /\ \A n \in Nodes : marks[n] = "done"

\* What is known to be needed while evaluation_order marks it.
Found == needed \cup Listed(pending)

\* The nodes selected so far.
SelectedSoFar == {n \in needed : \E j \in 1..Len(order) : j < next /\ order[j] = n}

SelectionInvariant ==
    /\ Found \subseteq Upstream(Listed(targets))
    /\ pc \in {"marking", "selecting", "done"} =>
        /\ Listed(targets) \subseteq Found
        /\ \A n \in needed : Listed(sources[n]) \subseteq Found
    /\ pc \in {"selecting", "done"} => pending = <<>> /\ Listed(plan) = SelectedSoFar
    /\ pc = "done" => next > Len(order)
    /\ pc \in {"ordering", "marking", "cycle"} => plan = <<>>
    /\ pc \in {"ordering", "cycle"} => needed = {} /\ pending = <<>>
    /\ Respects(plan)

Inductive == TypeOK /\ SearchInvariant /\ SelectionInvariant

-----------------------------------------------------------------------------
LEMMA PoppedProperties ==
    ASSUME NEW T, NEW s \in Seq(T), s # <<>>
    PROVE  /\ Popped(s) \in Seq(T) /\ Len(Popped(s)) = Len(s) - 1
           /\ Len(s) \in Nat \ {0} /\ Top(s) \in T
           /\ \A i \in 1..Len(s) - 1 : Popped(s)[i] = s[i]
  <1>1. Len(s) \in Nat \ {0} /\ \A i \in 1..Len(s) : s[i] \in T
    BY EmptySeq, LenProperties, ElementOfSeq
  <1>2. \A i \in 1..Len(s) - 1 : s[i] \in T
    BY <1>1
  <1>3. /\ SubSeq(s, 1, Len(s) - 1) \in Seq(T)
        /\ Len(SubSeq(s, 1, Len(s) - 1)) = IF 1 <= Len(s) - 1 THEN Len(s) - 1 ELSE 0
        /\ \A i \in 1..Len(s) - 1 : SubSeq(s, 1, Len(s) - 1)[i] = s[i]
    <2>1. 1 \in Int /\ Len(s) - 1 \in Int
      BY <1>1
    <2> QED
      BY <1>1, <1>2, <2>1, SubSeqProperties, SMT
  <1>4. Len(SubSeq(s, 1, Len(s) - 1)) = Len(s) - 1
    <2> DEFINE l == Len(s)
               p == Len(SubSeq(s, 1, l - 1))
    <2>1. l \in Nat \ {0} /\ p = IF 1 <= l - 1 THEN l - 1 ELSE 0
      BY <1>1, <1>3
    <2> HIDE DEF l, p
    <2>2. p = l - 1
      BY <2>1
    <2> QED
      BY <2>2 DEF l, p
  <1>5. s[Len(s)] \in T
    BY <1>1
  <1> QED
    BY <1>1, <1>3, <1>4, <1>5, Zenon DEF Popped, Top

\* Replacing the last element.
LEMMA ReplacedProperties ==
    ASSUME NEW T, NEW s \in Seq(T), NEW x \in T, s # <<>>
    PROVE  LET t == Append(Popped(s), x)
           IN  /\ Len(s) \in Nat \ {0} /\ t \in Seq(T) /\ Len(t) = Len(s) /\ t[Len(s)] = x
               /\ \A i \in 1..Len(s) - 1 : t[i] = s[i]
  <1> DEFINE l == Len(s)
             p == Popped(s)
             t == Append(p, x)
  <1>1. /\ p \in Seq(T) /\ Len(p) = l - 1 /\ l \in Nat \ {0}
        /\ \A i \in 1..l - 1 : p[i] = s[i]
    BY PoppedProperties
  <1> HIDE DEF l, p
  <1>2. t \in Seq(T) /\ Len(t) = Len(p) + 1 /\ t[Len(p) + 1] = x /\ \A i \in 1..Len(p) : t[i] = p[i]
    BY <1>1, AppendProperties
  <1> HIDE DEF t
  <1>3. Len(p) + 1 = l
    BY <1>1
  <1> QED
    BY <1>1, <1>2, <1>3 DEF l, p, t

LEMMA SourceIsNode ==
    ASSUME TypeOK, NEW n \in Nodes
    PROVE  /\ Listed(sources[n]) \subseteq Nodes
           /\ \A i \in 1..Len(sources[n]) : sources[n][i] \in Nodes
           /\ Len(sources[n]) \in Nat
  <1>1. sources[n] \in Seq(Nodes)
    BY DEF TypeOK
  <1> QED
    BY <1>1, ElementOfSeq, LenProperties DEF Listed

\* Upstream of something is closed under sources, and holds what it starts from.
LEMMA UpstreamClosed ==
    ASSUME TypeOK, NEW start \in SUBSET Nodes
    PROVE  /\ start \subseteq Upstream(start)
           /\ \A m \in Upstream(start) : Listed(sources[m]) \subseteq Upstream(start)
           /\ Upstream(start) \subseteq Nodes
  <1>1. \A m \in Nodes : Listed(sources[m]) \subseteq Nodes
    BY SourceIsNode
  <1> QED
    BY <1>1 DEF Upstream

LEMMA FeedersClosed ==
    ASSUME TypeOK, NEW n \in Nodes
    PROVE  /\ Feeders(n) \subseteq Nodes
           /\ \A i \in 1..Len(sources[n]) : sources[n][i] \in Feeders(n)
           /\ \A m \in Feeders(n) : \A i \in 1..Len(sources[m]) : sources[m][i] \in Feeders(n)
  <1>1. Listed(sources[n]) \in SUBSET Nodes
    BY SourceIsNode
  <1> QED
    BY <1>1, UpstreamClosed DEF Feeders, Listed

\* The given graph never changes, so neither do the sets defined from it.
LEMMA GivenIsFixed ==
    ASSUME UNCHANGED given
    PROVE  /\ sources' = sources /\ targets' = targets
           /\ \A n \in Nodes : Feeders(n)' = Feeders(n)
           /\ Upstream(Listed(targets))' = Upstream(Listed(targets))
  BY DEF given, Feeders, Upstream, Listed

LEMMA StackType ==
    ASSUME TypeOK
    PROVE  /\ Len(stack) \in Nat
           /\ \A k \in Depths : stack[k] \in Entries
           /\ stack # <<>> => Len(stack) > 0
           /\ stack = <<>> => Len(stack) = 0
  <1>1. stack \in Seq(Entries)
    BY DEF TypeOK
  <1>2. Len(stack) \in Nat /\ (stack = <<>> <=> Len(stack) = 0)
    BY <1>1, LenProperties, EmptySeq
  <1>3. \A k \in 1..Len(stack) : stack[k] \in Entries
    BY <1>1, ElementOfSeq
  <1> QED
    BY <1>2, <1>3 DEF Depths

LEMMA InitInductive == Init => Inductive
  <1> SUFFICES ASSUME Init PROVE Inductive
    OBVIOUS
  <1>1. TypeOK
    BY GraphOrderAssumption DEF Init, TypeOK, Entry
  <1>2. SearchInvariant
    BY DEF Init, SearchInvariant, DoneIsOrdered, InProgressIsReady, ReadyOnce, ReadyAt,
           EnteringIsLast, Covered, Chain, Depths, Respects, OrderHasNoRepeats, CulpritIsOnCycle
  <1>3. SelectionInvariant
    BY DEF Init, SelectionInvariant, Found, Listed, Respects
  <1> QED
    BY <1>1, <1>2, <1>3 DEF Inductive

-----------------------------------------------------------------------------
(***************************************************************************)
(* The search.                                                             *)
(***************************************************************************)
\* While the search goes on, nothing is selected.
LEMMA SelectionWaits ==
    ASSUME Inductive, pc = "ordering", pc' \in {"ordering", "cycle"},
           UNCHANGED <<given, selection>>
    PROVE  SelectionInvariant'
  BY GivenIsFixed DEF Inductive, SelectionInvariant, Found, Respects, selection, Listed

\* What a step that leaves the order and the culprit alone keeps.
LEMMA OrderStays ==
    ASSUME Inductive, pc = "ordering", pc' = "ordering", UNCHANGED <<given, order, culprit>>
    PROVE  Respects(order)' /\ OrderHasNoRepeats' /\ CulpritIsOnCycle'
  BY GivenIsFixed DEF Inductive, SearchInvariant, Respects, OrderHasNoRepeats,
        CulpritIsOnCycle, Listed

LEMMA StartStep ==
    ASSUME Inductive, Start
    PROVE  Inductive'
  <1>1. PICK n \in Nodes : marks[n] = "unvisited" /\ stack' = <<Entry(n, FALSE)>>
    BY DEF Start
  <1>2. /\ pc = "ordering" /\ pc' = "ordering" /\ entering = 0 /\ entering' = 0
        /\ UNCHANGED <<given, order, culprit, marks, next, selection>> /\ stack = <<>>
    BY DEF Start, Ordering
  <1>3. Len(stack') = 1 /\ stack'[1].node = n /\ ~stack'[1].ready /\ stack' \in Seq(Entries)
    BY <1>1 DEF Entry, Entries
  <1>4. TypeOK'
    BY <1>2, <1>3 DEF Inductive, TypeOK, given, selection
  <1>5. DoneIsOrdered' /\ InProgressIsReady' /\ ReadyOnce' /\ EnteringIsLast' /\ Covered' /\ Chain'
    BY <1>2, <1>3 DEF Inductive, TypeOK, SearchInvariant, DoneIsOrdered, InProgressIsReady, ReadyOnce,
        ReadyAt, EnteringIsLast, Covered, Chain, Depths
  <1>6. SearchInvariant'
    BY <1>2, <1>5, OrderStays DEF SearchInvariant
  <1> QED
    BY <1>2, <1>4, <1>6, SelectionWaits DEF Inductive

LEMMA EnterStep ==
    ASSUME Inductive, NEW n \in Nodes, Enter(n)
    PROVE  Inductive'
  <1> DEFINE d == Len(stack)
  <1>1. /\ pc = "ordering" /\ pc' = "ordering" /\ entering = 0 /\ entering' = n /\ next' = 1
        /\ UNCHANGED <<given, order, culprit, selection>>
        /\ marks[n] = "unvisited" /\ marks' = [marks EXCEPT ![n] = "in_progress"]
    BY DEF Enter, Arriving, Ordering
  <1>2. /\ d \in Nat \ {0} /\ Len(stack') = d /\ stack' \in Seq(Entries)
        /\ stack[d].node = n /\ ~stack[d].ready /\ stack'[d].node = n /\ stack'[d].ready
        /\ \A i \in 1..d - 1 : stack'[i] = stack[i]
    <2>1. /\ stack # <<>> /\ stack[d] = Entry(n, FALSE)
          /\ stack' = Append(Popped(stack), Entry(n, TRUE)) /\ stack \in Seq(Entries)
      BY DEF Enter, Arriving, Top, Inductive, TypeOK, Entries
    <2>2. /\ Entry(n, TRUE) \in Entries /\ Entry(n, TRUE).node = n /\ Entry(n, TRUE).ready
          /\ Entry(n, FALSE).node = n /\ ~Entry(n, FALSE).ready
      BY DEF Entry, Entries
    <2>3. /\ d \in Nat \ {0} /\ stack' \in Seq(Entries) /\ Len(stack') = d
          /\ stack'[d] = Entry(n, TRUE) /\ \A i \in 1..d - 1 : stack'[i] = stack[i]
      <3> DEFINE x == Entry(n, TRUE)
                 t == Append(Popped(stack), x)
      <3>1. x \in Entries /\ stack \in Seq(Entries) /\ stack # <<>> /\ stack' = t
        BY <2>1, <2>2
      <3> HIDE DEF x
      <3>2. /\ d \in Nat \ {0} /\ t \in Seq(Entries) /\ Len(t) = d
            /\ t[d] = x /\ \A i \in 1..d - 1 : t[i] = stack[i]
        BY <3>1, ReplacedProperties
      <3> HIDE DEF t
      <3> QED
        BY <3>1, <3>2 DEF x
    <2> QED
      BY <2>1, <2>2, <2>3
  <1>3. Depths = 1..d /\ Depths' = 1..d
    BY <1>2 DEF Depths
  <1>4. TypeOK'
    BY <1>1, <1>2 DEF Inductive, TypeOK, given, selection
  <1>5. marks \in [Nodes -> {"unvisited", "in_progress", "done"}]
    BY DEF Inductive, TypeOK
  <1>6. \A m \in Nodes, k \in 1..d : ReadyAt(k, m)' <=> ReadyAt(k, m) \/ (k = d /\ m = n)
    BY <1>2 DEF ReadyAt
  <1>7. \A k \in 1..d : stack'[k].node = stack[k].node
    BY <1>2
  <1>8. \A k \in 1..d : ~ReadyAt(k, n)
    BY <1>1, <1>3 DEF Inductive, SearchInvariant, InProgressIsReady
  <1>9. DoneIsOrdered'
    BY <1>1, <1>5 DEF Inductive, SearchInvariant, DoneIsOrdered
  <1>10. InProgressIsReady'
    BY <1>1, <1>2, <1>3, <1>5, <1>6 DEF Inductive, SearchInvariant, InProgressIsReady
  <1>11. ReadyOnce'
    BY <1>3, <1>6, <1>8 DEF Inductive, SearchInvariant, ReadyOnce
  <1>12. EnteringIsLast'
    BY <1>1, <1>2, <1>3, <1>6 DEF EnteringIsLast
  <1>13. Covered'
    <2> SUFFICES ASSUME NEW m \in Nodes, NEW k \in 1..d, ReadyAt(k, m)', NEW i \in 1..Len(sources[m]),
                        m = n => i < 1
                 PROVE  marks'[sources[m][i]] = "done" \/ \E j \in 1..d : k < j /\ stack'[j].node = sources[m][i]
      BY <1>1, <1>3, GivenIsFixed DEF Covered
    <2>1. m # n /\ m # 0
      BY SourceIsNode DEF Inductive, Nodes
    <2>2. marks[sources[m][i]] = "done" \/ \E j \in 1..d : k < j /\ stack[j].node = sources[m][i]
      BY <2>1, <1>1, <1>3, <1>6 DEF Inductive, SearchInvariant, Covered
    <2> QED
      BY <2>2, <1>1, <1>5, <1>7
  <1>14. Chain'
    BY <1>1, <1>2, <1>3, <1>6, <1>7, GivenIsFixed DEF Inductive, SearchInvariant, Chain
  <1>15. SearchInvariant'
    BY <1>1, <1>9, <1>10, <1>11, <1>12, <1>13, <1>14, OrderStays DEF SearchInvariant
  <1> QED
    BY <1>1, <1>4, <1>15, SelectionWaits DEF Inductive

\* Taking away the top of the stack.
LEMMA PoppedStack ==
    ASSUME TypeOK, stack # <<>>, stack' = Popped(stack)
    PROVE  /\ Len(stack) \in Nat \ {0} /\ Len(stack') = Len(stack) - 1
           /\ stack' \in Seq(Entries)
           /\ \A i \in 1..Len(stack) - 1 : stack'[i] = stack[i]
           /\ Depths = 1..Len(stack) /\ Depths' = 1..Len(stack) - 1
           /\ stack[Len(stack)] = Top(stack)
  <1>1. stack \in Seq(Entries)
    BY DEF TypeOK
  <1>2. /\ Popped(stack) \in Seq(Entries) /\ Len(Popped(stack)) = Len(stack) - 1
        /\ Len(stack) \in Nat \ {0}
        /\ \A i \in 1..Len(stack) - 1 : Popped(stack)[i] = stack[i]
    BY <1>1, PoppedProperties
  <1> QED
    BY <1>2 DEF Depths, Top

LEMMA RevisitStep ==
    ASSUME Inductive, NEW n \in Nodes, Revisit(n)
    PROVE  Inductive'
  <1> DEFINE d == Len(stack)
  <1>1. /\ pc = "ordering" /\ pc' = "ordering" /\ entering = 0 /\ entering' = 0
        /\ UNCHANGED <<given, order, culprit, marks, next, selection>>
        /\ marks[n] = "done" /\ stack # <<>> /\ stack' = Popped(stack) /\ Top(stack) = Entry(n, FALSE)
    BY DEF Revisit, Arriving, Ordering
  <1>2. /\ d \in Nat \ {0} /\ stack' \in Seq(Entries)
        /\ Depths = 1..d /\ Depths' = 1..d - 1
        /\ \A i \in 1..d - 1 : stack'[i] = stack[i]
    BY <1>1, PoppedStack DEF Inductive
  <1>3. stack[d].node = n /\ ~stack[d].ready
    BY <1>1 DEF Top, Entry
  <1>4. TypeOK'
    BY <1>1, <1>2 DEF Inductive, TypeOK, given, selection
  <1>5. \A m \in Nodes, k \in 1..d - 1 : ReadyAt(k, m)' <=> ReadyAt(k, m)
    BY <1>2 DEF ReadyAt
  <1>6. \A m \in Nodes : ~ReadyAt(d, m)
    BY <1>3 DEF ReadyAt
  <1>7. DoneIsOrdered' /\ InProgressIsReady' /\ ReadyOnce' /\ EnteringIsLast'
    BY <1>1, <1>2, <1>5, <1>6 DEF Inductive, SearchInvariant, DoneIsOrdered, InProgressIsReady,
        ReadyOnce, EnteringIsLast
  <1>8. Covered'
    <2>0. /\ sources' = sources /\ marks' = marks /\ Depths' = 1..d - 1
          /\ entering' = entering /\ next' = next
      BY <1>1, <1>2, GivenIsFixed
    <2> SUFFICES ASSUME NEW m \in Nodes, NEW k \in 1..d - 1, ReadyAt(k, m)', NEW i \in 1..Len(sources[m])
                 PROVE  \/ marks[sources[m][i]] = "done"
                        \/ \E j \in 1..d - 1 : k < j /\ stack'[j].node = sources[m][i]
      BY <2>0 DEF Covered
    <2>1. m # 0 /\ k \in 1..d /\ ReadyAt(k, m)
      BY <1>2, <1>5 DEF Nodes
    <2>2. marks[sources[m][i]] = "done" \/ \E j \in 1..d : k < j /\ stack[j].node = sources[m][i]
      BY <2>1, <1>1, <1>2 DEF Inductive, SearchInvariant, Covered
    <2>3. CASE marks[sources[m][i]] = "done"
      BY <2>3
    <2>4. CASE \E j \in 1..d : k < j /\ stack[j].node = sources[m][i]
      <3>1. PICK j \in 1..d : k < j /\ stack[j].node = sources[m][i]
        BY <2>4
      <3>2. CASE j = d
        BY <3>1, <3>2, <1>1, <1>3
      <3>3. CASE j # d
        <4>1. j \in 1..d - 1
          BY <3>1, <3>3, <1>2
        <4> QED
          BY <3>1, <4>1, <1>2
      <3> QED
        BY <3>2, <3>3
    <2> QED
      BY <2>2, <2>3, <2>4
  <1>9. Chain'
    BY <1>1, <1>2, <1>5, GivenIsFixed DEF Inductive, SearchInvariant, Chain
  <1>10. SearchInvariant'
    BY <1>1, <1>7, <1>8, <1>9, OrderStays DEF SearchInvariant
  <1> QED
    BY <1>1, <1>4, <1>10, SelectionWaits DEF Inductive

\* The node being entered, and the sources it still has to look at.
LEMMA ScanningFacts ==
    ASSUME Inductive, NEW s \in Nodes, Scanning(s)
    PROVE  /\ pc = "ordering" /\ entering \in Nodes /\ next \in 1..Len(sources[entering])
           /\ s = sources[entering][next]
           /\ \A m \in Nodes : \A k \in Depths : ReadyAt(k, m) => s \in Feeders(m)
  <1>1. /\ pc = "ordering" /\ entering \in Nodes /\ next \in 1..Len(sources[entering])
        /\ s = sources[entering][next]
    BY SourceIsNode DEF Inductive, TypeOK, Scanning
  <1>2. PICK e \in Depths : ReadyAt(e, entering) /\ \A k \in Depths : e < k => ~stack[k].ready
    BY <1>1 DEF Inductive, SearchInvariant, EnteringIsLast, Nodes
  <1>3. ASSUME NEW m \in Nodes, NEW k \in Depths, ReadyAt(k, m)
        PROVE  s \in Feeders(m)
    <2>1. k = e \/ k < e
      BY <1>2, <1>3 DEF ReadyAt, Depths
    <2>2. CASE k = e
      <3>1. m = entering
        BY <2>2, <1>2, <1>3 DEF ReadyAt
      <3> QED
        BY <3>1, <1>1, FeedersClosed DEF Inductive
    <2>3. CASE k < e
      <3>1. entering \in Feeders(m)
        BY <2>3, <1>2, <1>3 DEF Inductive, SearchInvariant, Chain, ReadyAt
      <3> QED
        BY <3>1, <1>1, FeedersClosed DEF Inductive
    <2> QED
      BY <2>1, <2>2, <2>3
  <1> QED
    BY <1>1, <1>3

LEMMA PushSourceStep ==
    ASSUME Inductive, NEW s \in Nodes, PushSource(s)
    PROVE  Inductive'
  <1> DEFINE d == Len(stack)
             x == Entry(s, FALSE)
  <1>1. /\ pc = "ordering" /\ pc' = "ordering" /\ UNCHANGED <<given, order, culprit, marks, entering, selection>>
        /\ stack' = Append(stack, x) /\ next' = next + 1
        /\ entering \in Nodes /\ next \in 1..Len(sources[entering]) /\ s = sources[entering][next]
        /\ \A m \in Nodes : \A k \in Depths : ReadyAt(k, m) => s \in Feeders(m)
    BY ScanningFacts DEF PushSource
  <1>2. x \in Entries /\ x.node = s /\ ~x.ready
    BY DEF Entry, Entries
  <1>3. stack \in Seq(Entries) /\ d \in Nat
    BY LenProperties DEF Inductive, TypeOK
  <1> HIDE DEF x
  <1>4. /\ stack' \in Seq(Entries) /\ Len(stack') = d + 1 /\ stack'[d + 1] = x
        /\ \A k \in 1..d : stack'[k] = stack[k]
    BY <1>1, <1>2, <1>3, AppendProperties
  <1>5. Depths = 1..d /\ Depths' = 1..d + 1
    BY <1>4 DEF Depths
  <1>6. TypeOK'
    <2>1. next \in Nat \ {0}
      BY DEF Inductive, TypeOK
    <2>2. next' = next + 1
      BY <1>1
    <2>3. next' \in Nat \ {0}
      BY <2>1, <2>2
    <2> QED
      BY <2>3, <1>1, <1>4 DEF Inductive, TypeOK, given, selection
  <1>7. \A m \in Nodes : \A k \in 1..d + 1 : ReadyAt(k, m)' <=> k \in 1..d /\ ReadyAt(k, m)
    BY <1>2, <1>3, <1>4 DEF ReadyAt
  <1>8. DoneIsOrdered' /\ InProgressIsReady' /\ ReadyOnce'
    BY <1>1, <1>3, <1>5, <1>7 DEF Inductive, SearchInvariant, DoneIsOrdered, InProgressIsReady, ReadyOnce
  <1>9. EnteringIsLast'
    <2>1. PICK e \in 1..d : ReadyAt(e, entering) /\ \A k \in 1..d : e < k => ~stack[k].ready
      BY <1>1, <1>5 DEF Inductive, SearchInvariant, EnteringIsLast, Nodes
    <2>2. e \in 1..d + 1 /\ ReadyAt(e, entering)'
      BY <2>1, <1>1, <1>3, <1>7
    <2>3. \A k \in 1..d + 1 : e < k => ~stack'[k].ready
      BY <2>1, <1>2, <1>3, <1>4
    <2> QED
      BY <2>2, <2>3, <1>5 DEF EnteringIsLast
  <1>10. Covered'
    <2> SUFFICES ASSUME NEW m \in Nodes, NEW k \in Depths', ReadyAt(k, m)', NEW i \in 1..Len(sources'[m]),
                        m = entering' => i < next'
                 PROVE  \/ marks'[sources'[m][i]] = "done"
                        \/ \E j \in Depths' : k < j /\ stack'[j].node = sources'[m][i]
      BY DEF Covered
    <2>1. sources' = sources /\ marks' = marks /\ entering' = entering /\ next' = next + 1
      BY <1>1, GivenIsFixed
    <2>2. k \in 1..d /\ ReadyAt(k, m)
      BY <1>5, <1>7
    <2>3. CASE m = entering /\ i = next
      <3>1. stack'[d + 1].node = sources[m][i]
        BY <2>3, <1>1, <1>2, <1>4
      <3>2. d + 1 \in Depths' /\ k < d + 1
        BY <2>2, <1>3, <1>5
      <3> QED
        BY <3>1, <3>2, <2>1
    <2>4. CASE ~(m = entering /\ i = next)
      <3>1. m = entering => i < next
        BY <2>1, <2>4, <1>1, SourceIsNode DEF Inductive
      <3>2. marks[sources[m][i]] = "done" \/ \E j \in 1..d : k < j /\ stack[j].node = sources[m][i]
        BY <2>1, <2>2, <3>1, <1>5 DEF Inductive, SearchInvariant, Covered
      <3>3. \A j \in 1..d : j \in Depths' /\ stack'[j] = stack[j]
        BY <1>3, <1>4, <1>5
      <3> QED
        BY <3>2, <3>3, <2>1
    <2> QED
      BY <2>3, <2>4
  <1>11. Chain'
    <2> SUFFICES ASSUME NEW m \in Nodes, NEW j \in 1..d + 1, NEW k \in 1..d, k < j, ReadyAt(k, m)
                 PROVE  stack'[j].node \in Feeders(m)
      BY <1>1, <1>3, <1>5, <1>7, GivenIsFixed DEF Chain
    <2>1. CASE j = d + 1
      BY <2>1, <1>1, <1>2, <1>4, <1>5
    <2>2. CASE j \in 1..d
      BY <2>2, <1>4, <1>5 DEF Inductive, SearchInvariant, Chain
    <2> QED
      BY <2>1, <2>2, <1>3
  <1>12. SearchInvariant'
    BY <1>1, <1>8, <1>9, <1>10, <1>11, OrderStays DEF SearchInvariant
  <1> QED
    BY <1>1, <1>6, <1>12, SelectionWaits DEF Inductive

\* A step that leaves the stack and the marks alone.
LEMMA StackStays ==
    ASSUME Inductive, pc = "ordering", pc' \in {"ordering", "cycle"},
           UNCHANGED <<given, marks, stack, order, selection>>,
           entering' \in {0, entering}, next' \in Nat \ {0}, culprit' \in Nodes \cup {0},
           Covered', CulpritIsOnCycle', pc' = "cycle" => culprit' # 0
    PROVE  Inductive'
  <1>1. TypeOK'
    BY DEF Inductive, TypeOK, given, selection
  <1>2. DoneIsOrdered' /\ InProgressIsReady' /\ ReadyOnce' /\ EnteringIsLast'
    BY DEF Inductive, SearchInvariant, DoneIsOrdered, InProgressIsReady, ReadyOnce, EnteringIsLast,
           Depths, ReadyAt
  <1>3. Chain'
    BY GivenIsFixed DEF Inductive, SearchInvariant, Chain, Depths, ReadyAt
  <1>4. order' = order /\ sources' = sources
    BY GivenIsFixed
  <1>5. Respects(order)' /\ OrderHasNoRepeats'
    BY <1>4 DEF Inductive, SearchInvariant, Respects, OrderHasNoRepeats, Listed
  <1>6. SearchInvariant'
    BY <1>2, <1>3, <1>5 DEF SearchInvariant
  <1> QED
    BY <1>1, <1>6, SelectionWaits DEF Inductive

LEMMA PassSourceStep ==
    ASSUME Inductive, NEW s \in Nodes, PassSource(s)
    PROVE  Inductive'
  <1>1. /\ pc = "ordering" /\ pc' = "ordering" /\ UNCHANGED <<given, search, selection>>
        /\ marks[s] = "done" /\ next' = next + 1
        /\ entering \in Nodes /\ next \in 1..Len(sources[entering]) /\ s = sources[entering][next]
    BY ScanningFacts DEF PassSource, PassedOver
  <1>2. Covered'
    <2> SUFFICES ASSUME NEW m \in Nodes, NEW k \in Depths, ReadyAt(k, m), NEW i \in 1..Len(sources[m]),
                        m = entering => i < next + 1
                 PROVE  \/ marks[sources[m][i]] = "done"
                        \/ \E j \in Depths : k < j /\ stack[j].node = sources[m][i]
      BY <1>1, GivenIsFixed DEF Covered, Depths, ReadyAt, search
    <2>1. CASE m = entering /\ i = next
      BY <2>1, <1>1
    <2>2. CASE ~(m = entering /\ i = next)
      <3>1. m = entering => i < next
        BY <2>2, <1>1, SourceIsNode DEF Inductive
      <3> QED
        BY <3>1 DEF Inductive, SearchInvariant, Covered
    <2> QED
      BY <2>1, <2>2
  <1>3. CulpritIsOnCycle'
    BY <1>1 DEF CulpritIsOnCycle
  <1>4. entering' = entering /\ culprit' = culprit /\ next' \in Nat \ {0} /\ culprit' \in Nodes \cup {0}
    BY <1>1 DEF search, Inductive, TypeOK
  <1> QED
    BY <1>1, <1>2, <1>3, <1>4, StackStays DEF search

LEMMA EndScanStep ==
    ASSUME Inductive, EndScan
    PROVE  Inductive'
  <1>1. /\ pc = "ordering" /\ pc' = "ordering" /\ entering' = 0
        /\ UNCHANGED <<given, marks, stack, order, culprit, next, selection>>
        /\ entering \in Nodes /\ next > Len(sources[entering])
    BY DEF EndScan, Inductive, TypeOK
  <1>2. Covered'
    <2> SUFFICES ASSUME NEW m \in Nodes, NEW k \in Depths, ReadyAt(k, m), NEW i \in 1..Len(sources[m])
                 PROVE  \/ marks[sources[m][i]] = "done"
                        \/ \E j \in Depths : k < j /\ stack[j].node = sources[m][i]
      BY <1>1, GivenIsFixed DEF Covered, Depths, ReadyAt
    <2>1. m = entering => i < next
      BY <1>1, SourceIsNode DEF Inductive, TypeOK
    <2> QED
      BY <2>1 DEF Inductive, SearchInvariant, Covered
  <1>3. CulpritIsOnCycle'
    BY <1>1 DEF CulpritIsOnCycle
  <1>4. next' \in Nat \ {0} /\ culprit' \in Nodes \cup {0}
    BY <1>1 DEF Inductive, TypeOK
  <1> QED
    BY <1>1, <1>2, <1>3, <1>4, StackStays

LEMMA FindCycleStep ==
    ASSUME Inductive, NEW n \in Nodes, FindCycle(n)
    PROVE  Inductive'
  <1>1. /\ pc = "ordering" /\ pc' = "cycle" /\ culprit' = n /\ marks[n] = "in_progress"
        /\ Arriving(n) \/ Scanning(n)
        /\ UNCHANGED <<given, marks, stack, entering, order, next, selection>>
    BY DEF FindCycle, Arriving, Ordering, Scanning, Reported
  <1>2. PICK k \in Depths : ReadyAt(k, n)
    BY <1>1 DEF Inductive, SearchInvariant, InProgressIsReady
  <1>3. n \in Feeders(n)
    <2>1. CASE Scanning(n)
      BY <2>1, <1>2, ScanningFacts
    <2>2. CASE Arriving(n)
      <3>1. stack # <<>> /\ Top(stack).node = n /\ ~Top(stack).ready
        BY <2>2 DEF Arriving, Entry
      <3>2. Len(stack) \in Depths /\ stack[Len(stack)].node = n /\ ~stack[Len(stack)].ready
        BY <3>1, StackType DEF Top, Depths, Inductive
      <3>3. k < Len(stack)
        BY <3>2, <1>2, StackType DEF ReadyAt, Depths, Inductive
      <3> QED
        BY <3>2, <3>3, <1>2 DEF Inductive, SearchInvariant, Chain
    <2> QED
      BY <1>1, <2>1, <2>2
  <1>4. CulpritIsOnCycle'
    BY <1>1, <1>3, GivenIsFixed DEF CulpritIsOnCycle, Feeders
  <1>5. Covered'
    BY <1>1, GivenIsFixed DEF Inductive, SearchInvariant, Covered, Depths, ReadyAt
  <1>6. n # 0 /\ next' \in Nat \ {0}
    BY <1>1 DEF Nodes, Inductive, TypeOK
  <1> QED
    BY <1>1, <1>4, <1>5, <1>6, StackStays

\* When the entry of n is on top, all of its sources are done.
LEMMA LeaveStep ==
    ASSUME Inductive, NEW n \in Nodes, Leave(n)
    PROVE  Inductive'
  <1> DEFINE d == Len(stack)
             l == Len(order)
  <1>1. /\ pc = "ordering" /\ pc' = "ordering" /\ entering = 0 /\ entering' = 0
        /\ UNCHANGED <<given, culprit, next, selection>>
        /\ marks' = [marks EXCEPT ![n] = "done"] /\ order' = Append(order, n)
        /\ stack # <<>> /\ stack' = Popped(stack) /\ Top(stack) = Entry(n, TRUE)
    BY DEF Leave, Ordering
  <1>0. sources' = sources
    BY <1>1, GivenIsFixed
  <1>2. /\ d \in Nat \ {0} /\ stack' \in Seq(Entries)
        /\ Depths = 1..d /\ Depths' = 1..d - 1
        /\ \A i \in 1..d - 1 : stack'[i] = stack[i]
    BY <1>1, PoppedStack DEF Inductive
  <1>3. stack[d].node = n /\ stack[d].ready
    BY <1>1 DEF Top, Entry
  <1>4. marks \in [Nodes -> {"unvisited", "in_progress", "done"}] /\ order \in Seq(Nodes)
    BY DEF Inductive, TypeOK
  <1>5. /\ l \in Nat /\ order' \in Seq(Nodes) /\ Len(order') = l + 1 /\ order'[l + 1] = n
        /\ \A j \in 1..l : order'[j] = order[j] /\ order[j] \in Nodes
    BY <1>1, <1>4, AppendProperties, LenProperties, ElementOfSeq
  <1>6. TypeOK'
    BY <1>1, <1>2, <1>5 DEF Inductive, TypeOK, given, selection
  <1>7. \A m \in Nodes : \A k \in 1..d - 1 : ReadyAt(k, m)' <=> ReadyAt(k, m)
    BY <1>2 DEF ReadyAt
  <1>8. /\ ReadyAt(d, n) /\ \A m \in Nodes : ReadyAt(d, m) => m = n
        /\ \A k \in 1..d - 1 : ~ReadyAt(k, n)
    <2>1. ReadyAt(d, n) /\ \A m \in Nodes : ReadyAt(d, m) => m = n
      BY <1>3 DEF ReadyAt
    <2> QED
      BY <2>1, <1>2 DEF Inductive, SearchInvariant, ReadyOnce
  <1>9. marks[n] = "in_progress" /\ \A j \in 1..l : order[j] # n
    BY <1>2, <1>8 DEF Inductive, SearchInvariant, InProgressIsReady, DoneIsOrdered
  <1>10. \A i \in 1..Len(sources[n]) : \E j \in 1..l : order[j] = sources[n][i]
    <2> SUFFICES ASSUME NEW i \in 1..Len(sources[n])
                 PROVE  \E j \in 1..l : order[j] = sources[n][i]
      OBVIOUS
    <2>1. \/ marks[sources[n][i]] = "done"
          \/ \E j \in Depths : d < j /\ stack[j].node = sources[n][i]
      BY <1>1, <1>2, <1>8 DEF Inductive, SearchInvariant, Covered, Nodes
    <2>2. marks[sources[n][i]] = "done" /\ sources[n][i] \in Nodes
      BY <2>1, <1>2, SourceIsNode DEF Inductive
    <2> QED
      BY <2>2 DEF Inductive, SearchInvariant, DoneIsOrdered
  <1>11. DoneIsOrdered'
    <2>1. \A m \in Nodes : marks'[m] = "done" <=> m = n \/ marks[m] = "done"
      BY <1>1, <1>4
    <2>2. \A m \in Nodes : (\E j \in 1..l + 1 : order'[j] = m) <=> m = n \/ \E j \in 1..l : order[j] = m
      BY <1>5
    <2> QED
      BY <2>1, <2>2, <1>5 DEF Inductive, SearchInvariant, DoneIsOrdered
  <1>12. InProgressIsReady' /\ ReadyOnce' /\ EnteringIsLast'
    <2>1. \A m \in Nodes : marks'[m] = "in_progress" <=> m # n /\ marks[m] = "in_progress"
      BY <1>1, <1>4
    <2>2. InProgressIsReady'
      <3>1. \A m \in Nodes : marks[m] = "in_progress" <=> \E k \in 1..d : ReadyAt(k, m)
        BY <1>2 DEF Inductive, SearchInvariant, InProgressIsReady
      <3>2. \A m \in Nodes : (\E k \in 1..d : ReadyAt(k, m)) <=> ReadyAt(d, m) \/ \E k \in 1..d - 1 : ReadyAt(k, m)
        BY <1>2
      <3>3. \A m \in Nodes : (\E k \in 1..d - 1 : ReadyAt(k, m)') <=> m # n /\ \E k \in 1..d : ReadyAt(k, m)
        BY <3>2, <1>7, <1>8
      <3> QED
        BY <2>1, <3>1, <3>3, <1>2 DEF InProgressIsReady
    <2>3. ReadyOnce'
      BY <1>2, <1>7 DEF Inductive, SearchInvariant, ReadyOnce
    <2> QED
      BY <2>2, <2>3, <1>1 DEF EnteringIsLast
  <1>13. Covered'
    <2> SUFFICES ASSUME NEW m \in Nodes, NEW k \in 1..d - 1, ReadyAt(k, m), NEW i \in 1..Len(sources[m])
                 PROVE  \/ marks'[sources[m][i]] = "done"
                        \/ \E j \in 1..d - 1 : k < j /\ stack'[j].node = sources[m][i]
      BY <1>0, <1>2, <1>7 DEF Covered
    <2>1. m # 0 /\ k \in 1..d /\ sources[m][i] \in Nodes
      BY <1>2, SourceIsNode DEF Nodes, Inductive
    <2>2. marks[sources[m][i]] = "done" \/ \E j \in 1..d : k < j /\ stack[j].node = sources[m][i]
      BY <2>1, <1>1, <1>2 DEF Inductive, SearchInvariant, Covered
    <2>3. marks[sources[m][i]] = "done" \/ sources[m][i] = n => marks'[sources[m][i]] = "done"
      BY <2>1, <1>1, <1>4
    <2> QED
      BY <2>2, <2>3, <1>2, <1>3
  <1>14. Chain'
    BY <1>1, <1>2, <1>7, GivenIsFixed DEF Inductive, SearchInvariant, Chain
  <1>15. Respects(order)'
    <2> SUFFICES ASSUME NEW i \in 1..l + 1, NEW s \in Listed(sources[order'[i]])
                 PROVE  \E j \in 1..i - 1 : order'[j] = s
      BY <1>0, <1>5 DEF Respects
    <2>1. CASE i = l + 1
      <3>1. order'[i] = n
        BY <2>1, <1>5
      <3>2. PICK k \in 1..Len(sources[n]) : s = sources[n][k]
        BY <3>1 DEF Listed
      <3>3. PICK j \in 1..l : order[j] = s
        BY <3>2, <1>10
      <3>4. j \in 1..i - 1 /\ order'[j] = s
        BY <3>3, <2>1, <1>5
      <3> QED
        BY <3>4
    <2>2. CASE i \in 1..l
      <3>1. \E j \in 1..i - 1 : order[j] = s
        BY <2>2, <1>5 DEF Inductive, SearchInvariant, Respects
      <3> QED
        BY <3>1, <2>2, <1>5
    <2>3. i = l + 1 \/ i \in 1..l
      <3>1. l \in Nat
        BY <1>5
      <3> QED
        BY <3>1
    <2> QED
      BY <2>1, <2>2, <2>3
  <1>16. OrderHasNoRepeats'
    BY <1>5, <1>9 DEF Inductive, SearchInvariant, OrderHasNoRepeats
  <1>17. CulpritIsOnCycle'
    BY <1>1 DEF CulpritIsOnCycle
  <1>18. SearchInvariant'
    BY <1>1, <1>11, <1>12, <1>13, <1>14, <1>15, <1>16, <1>17 DEF SearchInvariant
  <1> QED
    BY <1>1, <1>6, <1>18, SelectionWaits DEF Inductive

-----------------------------------------------------------------------------
(***************************************************************************)
(* The selection.                                                          *)
(***************************************************************************)
\* The search is over: what it found stays.
LEMMA SearchStays ==
    ASSUME Inductive, UNCHANGED <<given, search>>, pc' \notin {"ordering", "cycle"},
           stack = <<>>, entering = 0, \A n \in Nodes : marks[n] = "done"
    PROVE  SearchInvariant'
  <1>1. UNCHANGED <<marks, stack, entering, order, culprit, sources>>
    BY GivenIsFixed DEF search
  <1>2. Depths = {} /\ Depths' = {}
    BY <1>1, StackType DEF Depths, Inductive
  <1>3. DoneIsOrdered' /\ InProgressIsReady' /\ ReadyOnce' /\ EnteringIsLast' /\ Covered' /\ Chain'
    BY <1>1, <1>2 DEF Inductive, SearchInvariant, DoneIsOrdered, InProgressIsReady, ReadyOnce,
        EnteringIsLast, Covered, Chain
  <1>4. Respects(order)' /\ OrderHasNoRepeats' /\ CulpritIsOnCycle'
    <2>1. Respects(order)' <=> Respects(order)
      BY <1>1 DEF Respects, Listed
    <2>2. OrderHasNoRepeats'
      BY <1>1 DEF Inductive, SearchInvariant, OrderHasNoRepeats
    <2> QED
      BY <2>1, <2>2 DEF Inductive, SearchInvariant, CulpritIsOnCycle
  <1> QED
    BY <1>1, <1>3, <1>4 DEF SearchInvariant

LEMMA OrderedStep ==
    ASSUME Inductive, Ordered
    PROVE  Inductive'
  <1>1. /\ pc = "ordering" /\ pc' = "marking" /\ entering = 0 /\ stack = <<>>
        /\ pending' = targets /\ \A n \in Nodes : marks[n] # "unvisited"
        /\ UNCHANGED <<given, search, next, needed, plan>>
    BY DEF Ordered, Ordering, Targets
  <1>2. TypeOK'
    BY <1>1 DEF Inductive, TypeOK, given, search
  <1>3. \A n \in Nodes : marks[n] = "done"
    <2>1. \A n \in Nodes : marks[n] # "in_progress"
      BY <1>1, StackType DEF Inductive, SearchInvariant, InProgressIsReady, Depths
    <2> QED
      BY <2>1, <1>1 DEF Inductive, TypeOK
  <1>4. SearchInvariant'
    BY <1>1, <1>3, SearchStays
  <1>5. needed' = {} /\ plan' = <<>> /\ Found' = Listed(targets)
    BY <1>1 DEF Inductive, SelectionInvariant, Found, Listed
  <1>6. Listed(targets) \in SUBSET Nodes
    BY ElementOfSeq DEF Inductive, TypeOK, Listed
  <1>7. Listed(targets) \subseteq Upstream(Listed(targets))
    BY <1>6, UpstreamClosed DEF Inductive
  <1>8. Listed(targets)' = Listed(targets)
    BY <1>1, GivenIsFixed DEF Listed
  <1>9. SelectionInvariant'
    BY <1>1, <1>5, <1>7, <1>8, GivenIsFixed DEF SelectionInvariant, Respects
  <1> QED
    BY <1>2, <1>4, <1>9 DEF Inductive

LEMMA ListedConcat ==
    ASSUME NEW T, NEW s \in Seq(T), NEW t \in Seq(T)
    PROVE  Listed(s \o t) = Listed(s) \cup Listed(t)
  <1> DEFINE l == Len(s)
             r == Len(t)
             c == s \o t
  <1>1. l \in Nat /\ r \in Nat
    BY LenProperties
  <1>2. Len(c) = l + r /\ \A i \in 1..l + r : c[i] = IF i <= l THEN s[i] ELSE t[i - l]
    BY ConcatProperties
  <1> HIDE DEF l, r, c
  <1>3. \A i \in 1..l + r : (i \in 1..l /\ c[i] = s[i]) \/ (i - l \in 1..r /\ c[i] = t[i - l])
    BY <1>1, <1>2
  <1>4. \A i \in 1..l : i \in 1..l + r /\ c[i] = s[i]
    BY <1>1, <1>2
  <1>5. \A j \in 1..r : l + j \in 1..l + r /\ c[l + j] = t[j]
    <2> SUFFICES ASSUME NEW j \in 1..r PROVE l + j \in 1..l + r /\ c[l + j] = t[j]
      OBVIOUS
    <2>1. l + j \in 1..l + r /\ ~(l + j <= l) /\ (l + j) - l = j
      BY <1>1
    <2> QED
      BY <2>1, <1>2
  <1>6. Listed(c) = {c[i] : i \in 1..l + r} /\ Listed(s) = {s[i] : i \in 1..l} /\ Listed(t) = {t[i] : i \in 1..r}
    BY <1>2 DEF Listed, l, r
  <1>7. Listed(c) = Listed(s) \cup Listed(t)
    BY <1>3, <1>4, <1>5, <1>6
  <1> QED
    BY <1>7 DEF c

LEMMA ListedPopped ==
    ASSUME NEW T, NEW s \in Seq(T), s # <<>>
    PROVE  Listed(s) = Listed(Popped(s)) \cup {Top(s)}
  <1>1. Len(s) \in Nat \ {0} /\ Len(Popped(s)) = Len(s) - 1 /\ \A i \in 1..Len(s) - 1 : Popped(s)[i] = s[i]
    BY PoppedProperties
  <1> QED
    BY <1>1 DEF Listed, Top

\* What marking starts from stays within what is found, and what is found
\* stays upstream of the targets.
LEMMA NeedStep ==
    ASSUME Inductive, Need
    PROVE  Inductive'
  <1> DEFINE t == Top(pending)
  <1>1. /\ pc = "marking" /\ pc' = "marking" /\ pending # <<>>
        /\ needed' = needed \cup {t} /\ pending' = Popped(pending) \o Further(t)
        /\ UNCHANGED <<given, search, next, plan>>
    BY DEF Need
  <1>2. pending \in Seq(Nodes) /\ needed \subseteq Nodes /\ sources \in [Nodes -> Seq(Nodes)]
    BY DEF Inductive, TypeOK
  <1>3. t \in Nodes /\ Popped(pending) \in Seq(Nodes) /\ t \in Listed(pending)
        /\ Listed(pending) = Listed(Popped(pending)) \cup {t}
    BY <1>1, <1>2, PoppedProperties, ListedPopped
  <1>4. Further(t) \in Seq(Nodes)
    BY <1>2, <1>3, EmptySeq DEF Further
  <1> HIDE DEF t
  <1>5. pending' \in Seq(Nodes) /\ Listed(pending') = Listed(Popped(pending)) \cup Listed(Further(t))
    BY <1>1, <1>3, <1>4, ConcatProperties, ListedConcat
  <1>6. Listed(Further(t)) = IF t \in needed THEN {} ELSE Listed(sources[t])
    BY DEF Further, Listed
  <1>7. TypeOK'
    BY <1>1, <1>2, <1>3, <1>5 DEF Inductive, TypeOK, given, search
  <1>8. SearchInvariant'
    BY <1>1, SearchStays DEF Inductive, SearchInvariant
  <1>9. Found \subseteq Found' /\ Listed(sources[t]) \subseteq Found'
        /\ Found' \subseteq Found \cup Listed(sources[t])
    <2>1. t \in needed => Listed(sources[t]) \subseteq Found
      BY <1>1 DEF Inductive, SelectionInvariant
    <2> QED
      BY <2>1, <1>1, <1>3, <1>5, <1>6 DEF Found
  <1>10. Listed(sources[t]) \subseteq Upstream(Listed(targets))
    <2>1. Listed(targets) \in SUBSET Nodes
      BY ElementOfSeq DEF Inductive, TypeOK, Listed
    <2>2. t \in Upstream(Listed(targets))
      BY <1>3 DEF Inductive, SelectionInvariant, Found
    <2> QED
      BY <2>1, <2>2, UpstreamClosed DEF Inductive
  <1>11. sources' = sources /\ targets' = targets /\ Listed(targets)' = Listed(targets)
         /\ Upstream(Listed(targets))' = Upstream(Listed(targets))
    BY <1>1, GivenIsFixed DEF Listed
  <1>12. \A n \in needed' : Listed(sources[n])' \subseteq Found'
    <2>1. \A n \in needed \cup {t} : Listed(sources[n]) \subseteq Found'
      BY <1>1, <1>9 DEF Inductive, SelectionInvariant
    <2> QED
      BY <2>1, <1>1, <1>11 DEF Listed
  <1>13. Found' \subseteq Upstream(Listed(targets)) /\ Listed(targets) \subseteq Found'
    BY <1>1, <1>9, <1>10 DEF Inductive, SelectionInvariant
  <1>14. plan' = <<>>
    BY <1>1 DEF Inductive, SelectionInvariant
  <1>15. SelectionInvariant'
    BY <1>1, <1>11, <1>12, <1>13, <1>14 DEF SelectionInvariant, Respects
  <1> QED
    BY <1>7, <1>8, <1>15 DEF Inductive

LEMMA MarkedStep ==
    ASSUME Inductive, Marked
    PROVE  Inductive'
  <1>1. /\ pc = "marking" /\ pc' = "selecting" /\ pending = <<>> /\ next' = 1
        /\ UNCHANGED <<given, search, selection>>
    BY DEF Marked
  <1>2. TypeOK'
    BY <1>1 DEF Inductive, TypeOK, given, search, selection
  <1>3. SearchInvariant'
    BY <1>1, SearchStays DEF Inductive, SearchInvariant
  <1>4. SelectedSoFar' = {} /\ Listed(plan)' = {} /\ Found' = Found
    <2>1. Len(order) \in Nat /\ plan = <<>> /\ UNCHANGED <<order, plan, needed, pending>>
      BY <1>1, LenProperties DEF Inductive, TypeOK, SelectionInvariant, search, selection
    <2> QED
      BY <2>1, <1>1 DEF SelectedSoFar, Listed, Found
  <1>5. sources' = sources /\ targets' = targets /\ Listed(targets)' = Listed(targets)
        /\ Upstream(Listed(targets))' = Upstream(Listed(targets))
    BY <1>1, GivenIsFixed DEF Listed
  <1>6. /\ Found \subseteq Upstream(Listed(targets)) /\ Listed(targets) \subseteq Found /\ plan = <<>>
        /\ \A n \in needed : Listed(sources[n]) \subseteq Found
    BY <1>1 DEF Inductive, SelectionInvariant
  <1>7. \A n \in needed' : Listed(sources[n])' \subseteq Found'
    BY <1>1, <1>4, <1>5, <1>6 DEF Listed, selection
  <1>8. SelectionInvariant'
    BY <1>1, <1>4, <1>5, <1>6, <1>7 DEF SelectionInvariant, Respects, selection
  <1> QED
    BY <1>2, <1>3, <1>8 DEF Inductive

LEMMA RespectStays ==
    ASSUME Respects(plan), sources' = sources, plan' = plan
    PROVE  Respects(plan)'
  <1>1. Respects(plan)' <=> Respects(plan)
    BY DEF Respects, Listed
  <1> QED
    BY <1>1

\* What is selected respects the sources: they come before in the order, and they
\* are needed, so they have been selected.
LEMMA SelectStep ==
    ASSUME Inductive, Select
    PROVE  Inductive'
  <1> DEFINE n == order[next]
             l == Len(plan)
  <1>1. /\ pc = "selecting" /\ pc' = "selecting" /\ next' = next + 1 /\ next <= Len(order)
        /\ plan' = IF n \in needed THEN Append(plan, n) ELSE plan
        /\ UNCHANGED <<given, search, needed, pending>>
    BY DEF Select
  <1>2. /\ order \in Seq(Nodes) /\ plan \in Seq(Nodes) /\ Len(order) \in Nat /\ l \in Nat
        /\ next \in 1..Len(order) /\ n \in Nodes
    BY <1>1, LenProperties, ElementOfSeq DEF Inductive, TypeOK
  <1>3. UNCHANGED <<sources, targets, order, needed, pending>>
    BY <1>1, GivenIsFixed DEF search
  <1> HIDE DEF n, l
  <1>4. /\ plan' \in Seq(Nodes)
        /\ n \in needed => /\ Len(plan') = l + 1 /\ plan'[l + 1] = n
                           /\ \A j \in 1..l : plan'[j] = plan[j]
        /\ n \notin needed => plan' = plan
    BY <1>1, <1>2, AppendProperties DEF l
  <1>5. TypeOK'
    BY <1>1, <1>2, <1>3, <1>4 DEF Inductive, TypeOK, search
  <1>6. SearchInvariant'
    BY <1>1, SearchStays DEF Inductive, SearchInvariant
  <1>7. SelectedSoFar' = IF n \in needed THEN SelectedSoFar \cup {n} ELSE SelectedSoFar
    <2>1. \A i \in 1..Len(order) : i < next + 1 <=> i < next \/ i = next
      BY <1>2
    <2> QED
      BY <2>1, <1>1, <1>2, <1>3 DEF SelectedSoFar, n
  <1>8. Listed(plan') = IF n \in needed THEN Listed(plan) \cup {n} ELSE Listed(plan)
    <2>1. CASE n \notin needed
      BY <2>1, <1>4
    <2>2. CASE n \in needed
      <3>1. Listed(plan) = {plan[j] : j \in 1..l}
        BY DEF Listed, l
      <3>2. Listed(plan') = {plan'[j] : j \in 1..l + 1}
        BY <2>2, <1>4 DEF Listed
      <3> QED
        BY <3>1, <3>2, <2>2, <1>2, <1>4
    <2> QED
      BY <2>1, <2>2
  <1>9. n \in needed => Listed(sources[n]) \subseteq Listed(plan)
    <2> SUFFICES ASSUME n \in needed, NEW s \in Listed(sources[n]) PROVE s \in Listed(plan)
      OBVIOUS
    <2>1. s \in needed
      BY <1>1 DEF Inductive, SelectionInvariant, Found, Listed
    <2>2. PICK j \in 1..next - 1 : order[j] = s
      BY <1>2 DEF Inductive, SearchInvariant, Respects, n
    <2>3. s \in SelectedSoFar
      BY <2>1, <2>2, <1>2 DEF SelectedSoFar
    <2> QED
      BY <2>3, <1>1 DEF Inductive, SelectionInvariant
  <1>10. Respects(plan)'
    <2>1. CASE n \notin needed
      BY <2>1, <1>3, <1>4, RespectStays DEF Inductive, SelectionInvariant
    <2>2. CASE n \in needed
      <3> SUFFICES ASSUME NEW i \in 1..l + 1, NEW s \in Listed(sources[plan'[i]])
                   PROVE  \E j \in 1..i - 1 : plan'[j] = s
        BY <2>2, <1>3, <1>4 DEF Respects
      <3>1. CASE i = l + 1
        <4>1. s \in Listed(sources[n])
          BY <3>1, <2>2, <1>4
        <4>2. s \in Listed(plan)
          BY <4>1, <2>2, <1>9
        <4>3. PICK j \in 1..l : plan[j] = s
          BY <4>2 DEF Listed, l
        <4>4. j \in 1..i - 1 /\ plan'[j] = s
          BY <4>3, <3>1, <2>2, <1>2, <1>4
        <4> QED
          BY <4>4
      <3>2. CASE i \in 1..l
        <4>1. PICK j \in 1..i - 1 : plan[j] = s
          BY <3>2, <2>2, <1>4 DEF Inductive, SelectionInvariant, Respects, l
        <4> QED
          BY <4>1, <3>2, <2>2, <1>2, <1>4
      <3> QED
        BY <3>1, <3>2, <1>2
    <2> QED
      BY <2>1, <2>2
  <1>11. SelectionInvariant'
    <2>1. Found' = Found /\ Listed(targets)' = Listed(targets)
          /\ Upstream(Listed(targets))' = Upstream(Listed(targets))
      BY <1>1, <1>3, GivenIsFixed DEF Found, Listed
    <2>2. \A m \in needed : Listed(sources[m])' = Listed(sources[m])
      BY <1>3 DEF Listed
    <2>3. Listed(plan)' = SelectedSoFar'
      BY <1>1, <1>7, <1>8 DEF Inductive, SelectionInvariant
    <2>4. Respects(plan)'
      BY <1>10
    <2> QED
      BY <1>1, <1>3, <2>1, <2>2, <2>3, <2>4 DEF Inductive, SelectionInvariant
  <1> QED
    BY <1>5, <1>6, <1>11 DEF Inductive

LEMMA SelectedStep ==
    ASSUME Inductive, Selected
    PROVE  Inductive'
  <1>1. /\ pc = "selecting" /\ pc' = "done" /\ next > Len(order)
        /\ UNCHANGED <<given, search, next, selection>>
    BY DEF Selected
  <1>2. UNCHANGED <<sources, targets, order, needed, pending, plan>>
    BY <1>1, GivenIsFixed DEF search, selection
  <1>3. TypeOK'
    BY <1>1, <1>2 DEF Inductive, TypeOK, search
  <1>4. SearchInvariant'
    BY <1>1, SearchStays DEF Inductive, SearchInvariant
  <1>5. SelectionInvariant'
    <2>1. /\ Found' = Found /\ SelectedSoFar' = SelectedSoFar /\ Listed(plan)' = Listed(plan)
          /\ Upstream(Listed(targets))' = Upstream(Listed(targets))
          /\ Listed(targets)' = Listed(targets)
      BY <1>1, <1>2, GivenIsFixed DEF Found, SelectedSoFar, Listed
    <2>2. Respects(plan)'
      BY <1>2, RespectStays DEF Inductive, SelectionInvariant
    <2>3. \A m \in needed : Listed(sources[m])' = Listed(sources[m])
      BY <1>2 DEF Listed
    <2> QED
      BY <1>1, <1>2, <2>1, <2>2, <2>3 DEF Inductive, SelectionInvariant
  <1> QED
    BY <1>3, <1>4, <1>5 DEF Inductive

-----------------------------------------------------------------------------
LEMMA StepInductive == Inductive /\ [Next]_vars => Inductive'
  <1> SUFFICES ASSUME Inductive, [Next]_vars PROVE Inductive'
    OBVIOUS
  <1>1. CASE Start      BY <1>1, StartStep
  <1>2. CASE EndScan    BY <1>2, EndScanStep
  <1>3. CASE \E n \in Nodes : Visit(n)
    <2>1. PICK n \in Nodes : Visit(n)
      BY <1>3
    <2> QED
      BY <2>1, EnterStep, RevisitStep, LeaveStep, PushSourceStep, PassSourceStep, FindCycleStep
         DEF Visit
  <1>4. CASE Ordered    BY <1>4, OrderedStep
  <1>5. CASE Need       BY <1>5, NeedStep
  <1>6. CASE Marked     BY <1>6, MarkedStep
  <1>7. CASE Select     BY <1>7, SelectStep
  <1>8. CASE Selected   BY <1>8, SelectedStep
  <1>9. CASE UNCHANGED vars
    <2>1. UNCHANGED <<given, pc, search, next, selection>>
      BY <1>9 DEF vars
    <2>2. UNCHANGED <<sources, targets, pc, marks, stack, entering, order, culprit, next,
                      needed, pending, plan>>
      BY <2>1 DEF given, search, selection
    <2>3. TypeOK'
      BY <2>2 DEF Inductive, TypeOK
    <2>4. \A n \in Nodes : Feeders(n)' = Feeders(n)
      BY <2>1, GivenIsFixed
    <2>5. Upstream(Listed(targets))' = Upstream(Listed(targets))
      BY <2>1, GivenIsFixed
    <2>6. DoneIsOrdered' /\ InProgressIsReady' /\ ReadyOnce' /\ EnteringIsLast' /\ Covered'
      BY <2>2 DEF Inductive, SearchInvariant, DoneIsOrdered, InProgressIsReady, ReadyOnce,
          EnteringIsLast, Covered, Depths, ReadyAt
    <2>7. Chain'
      BY <2>2, <2>4 DEF Inductive, SearchInvariant, Chain, Depths, ReadyAt
    <2>8. Respects(order)' /\ OrderHasNoRepeats'
      BY <2>2 DEF Inductive, SearchInvariant, Respects, OrderHasNoRepeats, Listed
    <2>9. CulpritIsOnCycle'
      BY <2>2, <2>4 DEF Inductive, SearchInvariant, CulpritIsOnCycle, Feeders, TypeOK
    <2>10. SearchInvariant'
      BY <2>2, <2>6, <2>7, <2>8, <2>9 DEF Inductive, SearchInvariant
    <2>11. Respects(plan)'
      BY <2>2, RespectStays DEF Inductive, SelectionInvariant
    <2>12. SelectionInvariant'
      <3>1. /\ Found' = Found /\ SelectedSoFar' = SelectedSoFar /\ Listed(plan)' = Listed(plan)
            /\ Listed(targets)' = Listed(targets)
            /\ \A m \in needed : Listed(sources[m])' = Listed(sources[m])
        BY <2>2 DEF Found, SelectedSoFar, Listed
      <3> QED
        BY <2>2, <2>5, <2>11, <3>1 DEF Inductive, SelectionInvariant
    <2> QED
      BY <2>3, <2>10, <2>12 DEF Inductive
  <1> QED
    BY <1>1, <1>2, <1>3, <1>4, <1>5, <1>6, <1>7, <1>8, <1>9 DEF Next

LEMMA InductiveHolds == Spec => []Inductive
  BY InitInductive, StepInductive, PTL DEF Spec

\* Every variable keeps its shape: in particular, positions never leave the
\* lists they index.
THEOREM TypeCorrect == Spec => []TypeOK
  <1>1. Inductive => TypeOK
    BY DEF Inductive
  <1> QED
    BY <1>1, InductiveHolds, PTL

\* On any graph, with loops or double edges, no node comes before its inputs,
\* in the order or in the plan made from it.
THEOREM OrderRespects == Spec => []OrderRespectsSources
  <1>1. Inductive => OrderRespectsSources
    BY DEF Inductive, SearchInvariant, SelectionInvariant, OrderRespectsSources
  <1> QED
    BY <1>1, InductiveHolds, PTL

\* On any graph, no node is ordered twice.
THEOREM NoRepeats == Spec => []OrderHasNoRepeats
  <1>1. Inductive => OrderHasNoRepeats
    BY DEF Inductive, SearchInvariant
  <1> QED
    BY <1>1, InductiveHolds, PTL

\* On any graph, the node named in the error is on a cycle.
THEOREM CulpritOnCycle == Spec => []CulpritIsOnCycle
  <1>1. Inductive => CulpritIsOnCycle
    BY DEF Inductive, SearchInvariant
  <1> QED
    BY <1>1, InductiveHolds, PTL

\* On any graph, an order is only given when nothing feeds itself: the nodes
\* ordered before n hold everything that feeds n, and not n.
THEOREM CyclesFound == Spec => []CyclesAreFound
  <1>1. ASSUME Inductive PROVE CyclesAreFound
    <2> SUFFICES ASSUME pc \in {"marking", "selecting", "done"}, NEW n \in Nodes
                 PROVE  n \notin Upstream(Listed(sources[n]))
      BY DEF CyclesAreFound
    <2>1. PICK i \in 1..Len(order) : order[i] = n
      BY <1>1 DEF Inductive, SearchInvariant, DoneIsOrdered
    <2> DEFINE C == {order[j] : j \in 1..i - 1}
    <2>2. order \in Seq(Nodes) /\ Len(order) \in Nat
      BY <1>1, LenProperties DEF Inductive, TypeOK
    <2>3. C \in SUBSET Nodes
      BY <2>2, ElementOfSeq
    <2>4. n \notin C
      BY <1>1, <2>1, <2>2 DEF Inductive, SearchInvariant, OrderHasNoRepeats
    <2>5. \A j \in 1..i : Listed(sources[order[j]]) \subseteq C
      <3> SUFFICES ASSUME NEW j \in 1..i, NEW s \in Listed(sources[order[j]]) PROVE s \in C
        OBVIOUS
      <3>1. j \in 1..Len(order)
        BY <2>1, <2>2
      <3>2. PICK k \in 1..j - 1 : order[k] = s
        BY <3>1, <1>1 DEF Inductive, SearchInvariant, Respects
      <3> QED
        BY <3>2
    <2>6. Listed(sources[n]) \subseteq C /\ \A m \in C : Listed(sources[m]) \subseteq C
      <3>1. i \in 1..i /\ \A j \in 1..i - 1 : j \in 1..i
        BY <2>1, <2>2
      <3> QED
        BY <3>1, <2>1, <2>5
    <2> HIDE DEF C
    <2> QED
      BY <2>3, <2>4, <2>6 DEF Upstream
  <1> QED
    BY <1>1, InductiveHolds, PTL

\* On any graph, exactly the nodes that the targets depend on are planned:
\* what was marked is closed under sources, and within the least such set.
THEOREM PlanExact == Spec => []PlanIsExact
  <1>1. ASSUME Inductive PROVE PlanIsExact
    <2> SUFFICES ASSUME pc = "done" PROVE Listed(plan) = Upstream(Listed(targets))
      BY DEF PlanIsExact
    <2>1. Found = needed /\ needed \subseteq Nodes
      BY <1>1 DEF Inductive, TypeOK, SelectionInvariant, Found, Listed
    <2>2. needed \subseteq Upstream(Listed(targets)) /\ Listed(targets) \subseteq needed
          /\ \A n \in needed : Listed(sources[n]) \subseteq needed
      BY <1>1, <2>1 DEF Inductive, SelectionInvariant
    <2>3. Upstream(Listed(targets)) \subseteq needed
      BY <2>1, <2>2 DEF Upstream
    <2>4. SelectedSoFar = needed
      <3>1. \A n \in needed : \E j \in 1..Len(order) : order[j] = n
        BY <2>1, <1>1 DEF Inductive, SearchInvariant, DoneIsOrdered
      <3>2. \A j \in 1..Len(order) : j < next
        BY <1>1, LenProperties DEF Inductive, TypeOK, SelectionInvariant
      <3> QED
        BY <3>1, <3>2 DEF SelectedSoFar
    <2> QED
      BY <1>1, <2>2, <2>3, <2>4 DEF Inductive, SelectionInvariant
  <1> QED
    BY <1>1, InductiveHolds, PTL
-----------------------------------------------------------------------------
(***************************************************************************)
(* The arm that is never taken.                                            *)
(***************************************************************************)
\* Nothing above a ready entry is for the same node: a node's other entries were
\* pushed before it was entered, and lie below.
Apart ==
    \A n \in Nodes : \A j, k \in Depths : k < j /\ ReadyAt(k, n) => stack[j].node # n

\* Taking entries away keeps the others apart.
LEMMA PoppedApart ==
    ASSUME Inductive, Apart, stack # <<>>, stack' = Popped(stack)
    PROVE  Apart'
  <1>1. /\ Len(stack) \in Nat \ {0} /\ Depths = 1..Len(stack) /\ Depths' = 1..Len(stack) - 1
        /\ \A i \in 1..Len(stack) - 1 : stack'[i] = stack[i]
    BY PoppedStack DEF Inductive
  <1> QED
    BY <1>1 DEF Apart, ReadyAt

LEMMA EnterApart ==
    ASSUME Inductive, Apart, NEW n \in Nodes, Enter(n)
    PROVE  Apart'
  <1> DEFINE d == Len(stack)
             x == Entry(n, TRUE)
  <1>1. /\ stack \in Seq(Entries) /\ stack # <<>> /\ x \in Entries /\ x.node = n
        /\ stack' = Append(Popped(stack), x) /\ stack[d].node = n
    BY DEF Enter, Arriving, Top, Entry, Entries, Inductive, TypeOK
  <1> HIDE DEF x
  <1>2. /\ d \in Nat \ {0} /\ Len(stack') = d /\ stack'[d] = x
        /\ \A i \in 1..d - 1 : stack'[i] = stack[i]
    BY <1>1, ReplacedProperties
  <1>3. \A i \in 1..d : stack'[i].node = stack[i].node
    BY <1>1, <1>2
  <1> QED
    BY <1>2, <1>3 DEF Apart, ReadyAt, Depths

LEMMA PushSourceApart ==
    ASSUME Inductive, Apart, NEW s \in Nodes, PushSource(s)
    PROVE  Apart'
  <1> DEFINE d == Len(stack)
             x == Entry(s, FALSE)
  <1>1. x \in Entries /\ x.node = s /\ ~x.ready
    BY DEF Entry, Entries
  <1>2. stack \in Seq(Entries) /\ d \in Nat /\ stack' = Append(stack, x) /\ marks[s] = "unvisited"
    BY LenProperties DEF PushSource, Waiting, Inductive, TypeOK
  <1> HIDE DEF x
  <1>3. /\ Len(stack') = d + 1 /\ stack'[d + 1] = x
        /\ \A k \in 1..d : stack'[k] = stack[k]
    BY <1>1, <1>2, AppendProperties
  <1>4. \A k \in 1..d : ~ReadyAt(k, s)
    BY <1>2 DEF Inductive, SearchInvariant, InProgressIsReady, Depths
  <1>5. \A m \in Nodes : \A k \in 1..d + 1 : ReadyAt(k, m)' => k \in 1..d /\ ReadyAt(k, m)
    BY <1>1, <1>2, <1>3 DEF ReadyAt
  <1> QED
    BY <1>1, <1>2, <1>3, <1>4, <1>5 DEF Apart, Depths

LEMMA ApartStep == Inductive /\ Apart /\ [Next]_vars => Apart'
  <1> SUFFICES ASSUME Inductive, Apart, [Next]_vars PROVE Apart'
    OBVIOUS
  <1>1. CASE UNCHANGED stack
    BY <1>1 DEF Apart, Depths, ReadyAt
  <1>2. CASE Start
    <2>1. PICK n \in Nodes : stack' = <<Entry(n, FALSE)>>
      BY <1>2 DEF Start
    <2> QED
      BY <2>1 DEF Apart, Depths
  <1>3. ASSUME NEW n \in Nodes, Visit(n)
        PROVE  Apart'
    <2>1. CASE Enter(n)
      BY <2>1, EnterApart
    <2>2. CASE Revisit(n) \/ Leave(n)
      BY <2>2, PoppedApart DEF Revisit, Arriving, Leave
    <2>3. CASE PushSource(n)
      BY <2>3, PushSourceApart
    <2>4. CASE PassSource(n) \/ FindCycle(n)
      BY <2>4, <1>1 DEF PassSource, FindCycle, search
    <2> QED
      BY <1>3, <2>1, <2>2, <2>3, <2>4 DEF Visit
  <1>4. CASE EndScan \/ Ordered \/ Need \/ Marked \/ Select \/ Selected
    BY <1>4, <1>1 DEF EndScan, Ordered, Need, Marked, Select, Selected, search
  <1>5. CASE UNCHANGED vars
    BY <1>5, <1>1 DEF vars, search
  <1> QED
    BY <1>2, <1>3, <1>4, <1>5 DEF Next

\* On any graph, the search never pops a node in progress that is not ready: the
\* arm that reports a cycle there (graph/mod.rs:236) is dead code, and
\* every cycle is found where a source is looked at.
THEOREM NoneMetInProgress == Spec => []NeverMetInProgress
  <1>1. Init => Apart
    BY DEF Init, Apart, Depths
  <1>2. ASSUME Inductive, Apart PROVE NeverMetInProgress
    <2> SUFFICES ASSUME NEW n \in Nodes, Arriving(n), marks[n] = "in_progress" PROVE FALSE
      BY DEF NeverMetInProgress
    <2>1. PICK k \in Depths : ReadyAt(k, n)
      BY <1>2 DEF Inductive, SearchInvariant, InProgressIsReady
    <2>2. stack # <<>> /\ Top(stack).node = n /\ ~Top(stack).ready
      BY DEF Arriving, Entry
    <2>3. Len(stack) \in Depths /\ stack[Len(stack)].node = n /\ ~stack[Len(stack)].ready
      BY <1>2, <2>2, StackType DEF Top, Depths, Inductive
    <2>4. k < Len(stack)
      BY <1>2, <2>1, <2>3, StackType DEF ReadyAt, Depths, Inductive
    <2> QED
      BY <1>2, <2>1, <2>3, <2>4 DEF Apart
  <1>3. Spec => []Apart
    BY <1>1, ApartStep, InductiveHolds, PTL DEF Spec
  <1> QED
    BY <1>2, <1>3, InductiveHolds, PTL

\* What the evaluator assumes of the order, on any graph: sources first, no
\* node twice, and in the end exactly the nodes that are needed.
THEOREM PlanAlwaysSound == Spec => []PlanIsSound
  BY TypeCorrect, OrderRespects, NoRepeats, PlanExact, PTL DEF PlanIsSound

\* A cycle is reported if and only if there is one, through a node on it.
THEOREM CyclesAlwaysReported == Spec => []CyclesAreReported
  BY CulpritOnCycle, CyclesFound, PTL DEF CyclesAreReported

-----------------------------------------------------------------------------
(***************************************************************************)
(* GraphEval.  The argument: remaining counts the uses still to come, so a *)
(* value is there for each of them, and gone after the last; the places    *)
(* that a phase does not use are empty; and every step either draws        *)
(* textures that nothing but the pool holds, or sends what is at each      *)
(* place to one other.                                                     *)
(***************************************************************************)
\* A socket with uses to come has its value.
UsedIsThere ==
    Evaluating => \A s \in Sockets(graph) :
        s[1] < at /\ remaining[s] > 0 => holds[Produced(s)] # {}

\* A node begins with its state, having taken and made nothing.
JustBegun ==
    /\ phase = "state" => Stateful(at) /\ taken = {}
    /\ phase \in {"state", "inputs"} => turn = 1

\* The inputs the node has taken are in its hands.
TakenIsInHand ==
    phase = "inputs" => \A i \in taken : holds[Input(i)] # {}

\* So are the outputs it has made, where they are wanted.
WantedIsMade ==
    phase \in {"outputs", "publish"} => \A j \in 1..Len(OutputTypes[Kind]) :
        (phase = "outputs" => j < turn) /\ IsWanted(<<at, j>>) => holds[Output(j)] # {}

\* The places that are in use only in some phases.
ElsewhereIsEmpty ==
    /\ phase \notin {"inputs", "outputs", "publish"} => \A p \in NodePlaces : holds[p] = {}
    /\ phase \in {"idle", "returned"} => \A p \in ProducedPlaces : holds[p] = {}
    /\ phase # "returned" => \A p \in CallerPlaces : holds[p] = {}

\* Nothing but a GPU failure or a sum without an input loses a texture.
NoneLostYet == failures = 0 /\ SumsAreFed => holds[Lost] = {}

\* Every texture has a number below the next of its shape.
Numbered == \A p \in Places : \A t \in holds[p] : t[2] < allocated[t[1]]

\* Nothing is where the node will put its state, nor at outputs it has not.
NothingInTheWay ==
    phase \in {"inputs", "outputs", "publish"} =>
        /\ Stateful(at) => holds[Store(at)] = {}
        /\ \A j \in 1..MaxOutputs : j > Len(OutputTypes[Kind]) => holds[Output(j)] = {}

EvalInductive ==
    /\ EvalTypeOK
    /\ RemainingIsExact /\ NothingKeptInVain /\ UsedIsThere
    /\ JustBegun /\ TakenIsInHand /\ WantedIsMade /\ ElsewhereIsEmpty
    /\ NothingInTheWay
    /\ NoneLostYet /\ Numbered /\ OneOwner /\ AllOwned

-----------------------------------------------------------------------------
(***************************************************************************)
(* The tables, the graph and the places.                                   *)
(***************************************************************************)
Types == {"field", "vector"}

LEMMA KindTables ==
    /\ Kinds = {"constant", "accumulate", "output", "collider", "emitter",
                "pick_second", "collider_union", "emitter_union", "solver"}
    /\ \A k \in Kinds :
        /\ InputTypes[k] \in Seq(Types) /\ Len(InputTypes[k]) \in 0..MaxInputs
        /\ OutputTypes[k] \in Seq(Types) /\ Len(OutputTypes[k]) \in 1..MaxOutputs
        /\ k \in DOMAIN StateType => StateType[k] \in Types
        /\ k \in DOMAIN PassedOn =>
              /\ k \notin DOMAIN StateType
              /\ Len(OutputTypes[k]) = 1 /\ PassedOn[k] \in 1..Len(InputTypes[k])
              /\ Optional[k] = {} /\ (k = "pick_second" => PassedOn[k] = 2)
        /\ k \in DOMAIN Loads => k \notin DOMAIN PassedOn
    /\ Optional["accumulate"] = {}
<1>1. Kinds = {"constant", "accumulate", "output", "collider", "emitter",
               "pick_second", "collider_union", "emitter_union", "solver"}
  BY DEF Kinds, InputTypes
<1>2. ASSUME NEW k \in Kinds
      PROVE  InputTypes[k] \in Seq(Types) /\ Len(InputTypes[k]) \in 0..MaxInputs
  <2>1. CASE k \in {"constant", "collider", "emitter"}
    <3>1. InputTypes[k] = <<>>
      BY <2>1 DEF InputTypes
    <3>2. <<>> \in Seq(Types) /\ Len(<<>>) = 0
      OBVIOUS
    <3> QED
      BY <3>1, <3>2 DEF MaxInputs
  <2>2. CASE k \in {"accumulate", "output"}
    <3>1. InputTypes[k] = <<"field">>
      BY <2>2 DEF InputTypes
    <3>2. <<"field">> \in Seq(Types) /\ Len(<<"field">>) = 1
      BY DEF Types
    <3> QED
      BY <3>1, <3>2 DEF MaxInputs
  <2>3. CASE k = "pick_second"
    <3>1. InputTypes[k] = <<"field", "field">>
      BY <2>3 DEF InputTypes
    <3>2. <<"field", "field">> \in Seq(Types) /\ Len(<<"field", "field">>) = 2
      BY DEF Types
    <3> QED
      BY <3>1, <3>2 DEF MaxInputs
  <2>4. CASE k = "collider_union"
    <3>1. InputTypes[k] = <<"field", "vector", "field", "vector", "field", "field">>
      BY <2>4 DEF InputTypes
    <3>2. <<"field", "vector", "field", "vector", "field", "field">> \in Seq(Types) /\ Len(<<"field", "vector", "field", "vector", "field", "field">>) = 6
      BY DEF Types
    <3> QED
      BY <3>1, <3>2 DEF MaxInputs
  <2>5. CASE k = "emitter_union"
    <3>1. InputTypes[k] = <<"field", "field", "field", "vector", "field", "field", "field", "vector", "field", "field">>
      BY <2>5 DEF InputTypes
    <3>2. <<"field", "field", "field", "vector", "field", "field", "field", "vector", "field", "field">> \in Seq(Types) /\ Len(<<"field", "field", "field", "vector", "field", "field", "field", "vector", "field", "field">>) = 10
      BY DEF Types
    <3> QED
      BY <3>1, <3>2 DEF MaxInputs
  <2>6. CASE k = "solver"
    <3>1. InputTypes[k] = <<"field", "field", "field", "vector">>
      BY <2>6 DEF InputTypes
    <3>2. <<"field", "field", "field", "vector">> \in Seq(Types) /\ Len(<<"field", "field", "field", "vector">>) = 4
      BY DEF Types
    <3> QED
      BY <3>1, <3>2 DEF MaxInputs
  <2> QED
    BY <1>1, <2>1, <2>2, <2>3, <2>4, <2>5, <2>6
<1>3. ASSUME NEW k \in Kinds
      PROVE  OutputTypes[k] \in Seq(Types) /\ Len(OutputTypes[k]) \in 1..MaxOutputs
  <2>1. CASE k \in {"constant", "accumulate", "output", "pick_second"}
    <3>1. OutputTypes[k] = <<"field">>
      BY <2>1 DEF OutputTypes
    <3>2. <<"field">> \in Seq(Types) /\ Len(<<"field">>) = 1
      BY DEF Types
    <3> QED
      BY <3>1, <3>2 DEF MaxOutputs
  <2>2. CASE k \in {"collider", "collider_union"}
    <3>1. OutputTypes[k] = <<"field", "vector", "field">>
      BY <2>2 DEF OutputTypes
    <3>2. <<"field", "vector", "field">> \in Seq(Types) /\ Len(<<"field", "vector", "field">>) = 3
      BY DEF Types
    <3> QED
      BY <3>1, <3>2 DEF MaxOutputs
  <2>3. CASE k \in {"emitter", "emitter_union"}
    <3>1. OutputTypes[k] = <<"field", "field", "field", "vector", "field">>
      BY <2>3 DEF OutputTypes
    <3>2. <<"field", "field", "field", "vector", "field">> \in Seq(Types) /\ Len(<<"field", "field", "field", "vector", "field">>) = 5
      BY DEF Types
    <3> QED
      BY <3>1, <3>2 DEF MaxOutputs
  <2>4. CASE k = "solver"
    <3>1. OutputTypes[k] = <<"field", "vector">>
      BY <2>4 DEF OutputTypes
    <3>2. <<"field", "vector">> \in Seq(Types) /\ Len(<<"field", "vector">>) = 2
      BY DEF Types
    <3> QED
      BY <3>1, <3>2 DEF MaxOutputs
  <2> QED
    BY <1>1, <2>1, <2>2, <2>3, <2>4
<1>4. ASSUME NEW k \in Kinds, k \in DOMAIN StateType
      PROVE  StateType[k] \in Types
  BY <1>4 DEF StateType, Types
<1>5. ASSUME NEW k \in Kinds, k \in DOMAIN PassedOn
      PROVE  /\ k \notin DOMAIN StateType
             /\ Len(OutputTypes[k]) = 1 /\ PassedOn[k] \in 1..Len(InputTypes[k])
             /\ Optional[k] = {} /\ (k = "pick_second" => PassedOn[k] = 2)
  <2>1. k = "output" \/ k = "pick_second"
    BY <1>5 DEF PassedOn
  <2>2. CASE k = "output"
    BY <1>1, <2>2 DEF PassedOn, StateType, OutputTypes, InputTypes, Optional
  <2>3. CASE k = "pick_second"
    BY <1>1, <2>3 DEF PassedOn, StateType, OutputTypes, InputTypes, Optional
  <2> QED
    BY <2>1, <2>2, <2>3
<1>6. ASSUME NEW k \in Kinds, k \in DOMAIN Loads
      PROVE  k \notin DOMAIN PassedOn
  BY <1>6 DEF Loads, PassedOn
<1>7. Optional["accumulate"] = {}
  BY <1>1 DEF Optional
<1> QED
  BY <1>1, <1>2, <1>3, <1>4, <1>5, <1>6, <1>7

LEMMA ShapeTables ==
    \A type \in Types :
        /\ ShapesOf[type] \in Seq(Shapes) /\ Len(ShapesOf[type]) \in Nat \ {0}
        /\ \A k \in 1..Len(ShapesOf[type]) : ShapesOf[type][k] \in Shapes
<1> SUFFICES ASSUME NEW type \in Types
             PROVE  ShapesOf[type] \in Seq(Shapes) /\ Len(ShapesOf[type]) \in Nat \ {0}
  OBVIOUS
<1>1. CASE type = "field"
  <2>1. ShapesOf[type] = <<"cell">>
    BY <1>1 DEF ShapesOf
  <2>2. <<"cell">> \in Seq(Shapes) /\ Len(<<"cell">>) = 1
    BY DEF Shapes
  <2> QED
    BY <2>1, <2>2
<1>2. CASE type = "vector"
  <2>1. ShapesOf[type] = <<"x", "y", "z">>
    BY <1>2 DEF ShapesOf
  <2>2. <<"x", "y", "z">> \in Seq(Shapes) /\ Len(<<"x", "y", "z">>) = 3
    BY DEF Shapes
  <2> QED
    BY <2>1, <2>2
<1> QED
  BY <1>1, <1>2 DEF Types

\* What the tables and IsGraph say of the nodes of the graph.
LEMMA GraphFacts ==
    ASSUME graph \in Graphs
    PROVE  /\ NodesOf(graph) = 1..Len(graph.kind) /\ Len(graph.kind) \in Nat \ {0}
           /\ Result \in Sockets(graph)
           /\ graph.extras \subseteq Sockets(graph) \ {Result}
           /\ \A n \in NodesOf(graph) :
               /\ n \in Nat /\ graph.kind[n] \in Kinds
               /\ Inputs(graph, n) \subseteq 1..MaxInputs
               /\ Connected(n) \subseteq Inputs(graph, n)
               /\ \A i \in Connected(n) :
                   /\ graph.source[n][i] \in Sockets(graph)
                   /\ graph.source[n][i][1] < n
           /\ \A s \in Sockets(graph) :
               /\ s = <<s[1], s[2]>> /\ s[1] \in NodesOf(graph)
               /\ s[2] \in 1..Len(OutputTypes[graph.kind[s[1]]])
               /\ TypeOf(graph, s) \in Types
           /\ \A n \in NodesOf(graph) : \A j \in 1..Len(OutputTypes[graph.kind[n]]) :
               <<n, j>> \in Sockets(graph)
<1>1. IsGraph(graph)
  BY GraphEvalAssumption
<1>2. /\ graph.kind \in Seq(Kinds) /\ graph.result \in NodesOf(graph)
      /\ graph.extras \subseteq Sockets(graph) \ {<<graph.result, 1>>}
  BY <1>1 DEF IsGraph
<1>3. NodesOf(graph) = 1..Len(graph.kind) /\ Len(graph.kind) \in Nat \ {0}
  BY <1>2 DEF NodesOf
<1>4. \A n \in NodesOf(graph) : n \in Nat /\ graph.kind[n] \in Kinds
  BY <1>2, <1>3
<1>5. ASSUME NEW n \in NodesOf(graph)
      PROVE  Inputs(graph, n) \subseteq 1..MaxInputs /\ Connected(n) \subseteq Inputs(graph, n)
  <2> DEFINE c == Len(InputTypes[graph.kind[n]])
  <2>1. c \in 0..MaxInputs
    BY <1>4, KindTables
  <2>2. Inputs(graph, n) = 1..c
    BY DEF Inputs
  <2>3. Connected(n) \subseteq Inputs(graph, n)
    BY DEF Connected
  <2> HIDE DEF c
  <2> QED
    BY <2>1, <2>2, <2>3 DEF MaxInputs
<1>6. ASSUME NEW n \in NodesOf(graph), NEW i \in Connected(n)
      PROVE  graph.source[n][i] \in Sockets(graph) /\ graph.source[n][i][1] < n
  BY <1>1 DEF IsGraph, Connected
<1>7. ASSUME NEW s \in Sockets(graph)
      PROVE  /\ s = <<s[1], s[2]>> /\ s[1] \in NodesOf(graph)
             /\ s[2] \in 1..Len(OutputTypes[graph.kind[s[1]]])
             /\ TypeOf(graph, s) \in Types
  <2>1. s = <<s[1], s[2]>> /\ s[1] \in NodesOf(graph) /\ s[2] \in 1..MaxOutputs
        /\ s[2] <= Len(OutputTypes[graph.kind[s[1]]])
    BY DEF Sockets
  <2>2. /\ OutputTypes[graph.kind[s[1]]] \in Seq(Types)
        /\ Len(OutputTypes[graph.kind[s[1]]]) \in Nat
    <3>1. graph.kind[s[1]] \in Kinds
      BY <1>4, <2>1
    <3>2. /\ OutputTypes[graph.kind[s[1]]] \in Seq(Types)
          /\ Len(OutputTypes[graph.kind[s[1]]]) \in 1..MaxOutputs
      BY <3>1, KindTables
    <3> QED
      BY <3>2
  <2>3. s[2] \in 1..Len(OutputTypes[graph.kind[s[1]]])
    BY <2>1, <2>2 DEF MaxOutputs
  <2>4. OutputTypes[graph.kind[s[1]]][s[2]] \in Types
    BY <2>2, <2>3
  <2> QED
    BY <2>1, <2>3, <2>4 DEF TypeOf
<1>8. ASSUME NEW n \in NodesOf(graph), NEW j \in 1..Len(OutputTypes[graph.kind[n]])
      PROVE  <<n, j>> \in Sockets(graph)
  <2> DEFINE c == Len(OutputTypes[graph.kind[n]])
  <2>1. c \in 1..MaxOutputs /\ j \in 1..c
    BY <1>4, KindTables
  <2> HIDE DEF c
  <2>2. j \in 1..MaxOutputs /\ j <= c
    BY <2>1 DEF MaxOutputs
  <2> USE DEF c
  <2> QED
    BY <1>8, <2>2 DEF Sockets
<1>9. Result \in Sockets(graph)
  <2> DEFINE c == Len(OutputTypes[graph.kind[graph.result]])
  <2>1. c \in 1..MaxOutputs
    BY <1>2, <1>4, KindTables
  <2> HIDE DEF c
  <2>2. 1 \in 1..c
    BY <2>1 DEF MaxOutputs
  <2> USE DEF c
  <2> QED
    BY <1>2, <1>8, <2>2 DEF Result
<1> QED
  BY <1>2, <1>3, <1>4, <1>5, <1>6, <1>7, <1>8, <1>9 DEF Result

\* Every place has a head, and what follows it; so the places are apart.
LEMMA Heads ==
    /\ Pool[1] = "pool" /\ Lost[1] = "lost" /\ Kept[1] = "kept"
    /\ \A i : Input(i)[1] = "input" /\ Input(i)[2] = i
    /\ \A j : Output(j)[1] = "output" /\ Output(j)[2] = j
    /\ \A s : Produced(s)[1] = "produced" /\ Produced(s)[2] = s
    /\ \A n : Store(n)[1] = "store" /\ Store(n)[2] = n
    /\ \A s : Caller(s)[1] = "caller" /\ Caller(s)[2] = s
  BY DEF Pool, Lost, Kept, Input, Output, Produced, Store, Caller

\* The places, one by one.
LEMMA PlaceFacts ==
    /\ Pool \in Places /\ Lost \in Places /\ Kept \in Places
    /\ NodePlaces \subseteq Places /\ ProducedPlaces \subseteq Places
    /\ CallerPlaces \subseteq Places /\ StorePlaces \subseteq Places
    /\ InputPlaces \subseteq NodePlaces /\ OutputPlaces \subseteq NodePlaces
    /\ Kept \in NodePlaces
    /\ \A i \in 1..MaxInputs : Input(i) \in InputPlaces
    /\ \A j \in 1..MaxOutputs : Output(j) \in OutputPlaces
    /\ \A s \in Sockets(graph) : Produced(s) \in ProducedPlaces /\ Caller(s) \in CallerPlaces
    /\ \A n \in NodesOf(graph) : Store(n) \in StorePlaces
    /\ \A p \in InputPlaces : \E i \in 1..MaxInputs : p = Input(i)
    /\ \A p \in OutputPlaces : \E j \in 1..MaxOutputs : p = Output(j)
    /\ \A p \in ProducedPlaces : \E s \in Sockets(graph) : p = Produced(s)
    /\ \A p \in CallerPlaces : \E s \in Sockets(graph) : p = Caller(s)
    /\ \A p \in StorePlaces : \E n \in NodesOf(graph) : p = Store(n)
    /\ \A p \in NodePlaces : p[1] \in {"kept", "input", "output"}
    /\ \A p \in Places :
        \/ p = Pool \/ p = Lost \/ p \in NodePlaces
        \/ p \in ProducedPlaces \/ p \in StorePlaces \/ p \in CallerPlaces
<1>1. NodePlaces \subseteq Places /\ ProducedPlaces \subseteq Places
      /\ CallerPlaces \subseteq Places /\ StorePlaces \subseteq Places
      /\ Pool \in Places /\ Lost \in Places
  BY DEF Places
<1>2. Kept \in NodePlaces /\ InputPlaces \subseteq NodePlaces /\ OutputPlaces \subseteq NodePlaces
  BY DEF NodePlaces
<1>3. /\ \A i \in 1..MaxInputs : Input(i) \in InputPlaces
      /\ \A p \in InputPlaces : \E i \in 1..MaxInputs : p = Input(i)
  BY DEF InputPlaces
<1>4. /\ \A j \in 1..MaxOutputs : Output(j) \in OutputPlaces
      /\ \A p \in OutputPlaces : \E j \in 1..MaxOutputs : p = Output(j)
  BY DEF OutputPlaces
<1>5. /\ \A s \in Sockets(graph) : Produced(s) \in ProducedPlaces
      /\ \A p \in ProducedPlaces : \E s \in Sockets(graph) : p = Produced(s)
  BY DEF ProducedPlaces
<1>6. /\ \A s \in Sockets(graph) : Caller(s) \in CallerPlaces
      /\ \A p \in CallerPlaces : \E s \in Sockets(graph) : p = Caller(s)
  BY DEF CallerPlaces
<1>7. /\ \A n \in NodesOf(graph) : Store(n) \in StorePlaces
      /\ \A p \in StorePlaces : \E n \in NodesOf(graph) : p = Store(n)
  BY DEF StorePlaces
<1>8. \A p \in NodePlaces : p[1] \in {"kept", "input", "output"}
  BY <1>3, <1>4, Heads DEF NodePlaces
<1>9. \A p \in Places :
          \/ p = Pool \/ p = Lost \/ p \in NodePlaces
          \/ p \in ProducedPlaces \/ p \in StorePlaces \/ p \in CallerPlaces
  BY DEF Places
<1> QED
  BY <1>1, <1>2, <1>3, <1>4, <1>5, <1>6, <1>7, <1>8, <1>9

\* A step leaves the graph, and with it the sockets and the places.
LEMMA GraphStays ==
    ASSUME UNCHANGED graph
    PROVE  /\ Places' = Places /\ ProducedPlaces' = ProducedPlaces
           /\ CallerPlaces' = CallerPlaces /\ StorePlaces' = StorePlaces
           /\ NodePlaces' = NodePlaces /\ Result' = Result
           /\ SumsAreFed' = SumsAreFed
           /\ \A s : Uses(s)' = Uses(s)
           /\ \A s : Extra(s)' = Extra(s)
  BY DEF Places, ProducedPlaces, CallerPlaces, StorePlaces, NodePlaces, Result, SumsAreFed,
         Connected, Uses, Extra, InputPlaces, OutputPlaces

-----------------------------------------------------------------------------
(***************************************************************************)
(* Textures drawn from the pool, and textures moved.                       *)
(***************************************************************************)
\* What a call may acquire: textures that nothing but the pool holds.
Fresh(got) ==
    /\ got \subseteq Textures
    /\ \A t \in got : t[2] <= allocated[t[1]]
    /\ \A p \in Places \ {Pool} : got \cap holds[p] = {}

LEMMA SupplyIsFresh ==
    ASSUME EvalTypeOK, OneOwner, Numbered, NEW shape \in Shapes
    PROVE  Fresh({Supply(shape)})
<1> DEFINE free == {t \in holds[Pool] : t[1] = shape}
<1>0. /\ holds \in [Places -> SUBSET Textures] /\ allocated \in [Shapes -> Nat]
      /\ Pool \in Places
  BY PlaceFacts DEF EvalTypeOK
<1>1. CASE free = {}
  <2>1. Supply(shape) = <<shape, allocated[shape]>>
    BY <1>1 DEF Supply
  <2>2. <<shape, allocated[shape]>> \in Textures
    BY <1>0 DEF Textures
  <2>3. \A p \in Places : <<shape, allocated[shape]>> \notin holds[p]
    BY <1>0 DEF Numbered
  <2> QED
    BY <1>0, <2>1, <2>2, <2>3 DEF Fresh
<1>2. CASE free # {}
  <2>1. Supply(shape) = CHOOSE t \in free : TRUE
    BY <1>2 DEF Supply
  <2>2. Supply(shape) \in free
    BY <1>2, <2>1
  <2>3. Supply(shape) \in holds[Pool] /\ Supply(shape) \in Textures
    BY <1>0, <2>2
  <2>4. Supply(shape)[2] < allocated[Supply(shape)[1]]
    BY <1>0, <2>3 DEF Numbered
  <2>5. Supply(shape)[2] \in Nat /\ allocated[Supply(shape)[1]] \in Nat
    BY <1>0, <2>3 DEF Textures
  <2>6. \A p \in Places \ {Pool} : Supply(shape) \notin holds[p]
    BY <1>0, <2>3 DEF OneOwner
  <2> QED
    BY <2>3, <2>4, <2>5, <2>6 DEF Fresh
<1> QED
  BY <1>1, <1>2

LEMMA FirstIsFresh ==
    ASSUME EvalTypeOK, OneOwner, Numbered, NEW type \in Types,
           NEW n, n \in 0..Len(ShapesOf[type])
    PROVE  Fresh(First(n, type))
<1> SUFFICES ASSUME NEW t \in First(n, type)
             PROVE  Fresh({t})
  BY DEF Fresh
<1>1. PICK k \in 1..n : t = Supply(ShapesOf[type][k])
  BY DEF First
<1> DEFINE m == Len(ShapesOf[type])
<1>2. m \in Nat /\ n \in 0..m /\ \A i \in 1..m : ShapesOf[type][i] \in Shapes
  BY ShapeTables
<1> HIDE DEF m
<1>3. ShapesOf[type][k] \in Shapes
  BY <1>1, <1>2
<1> QED
  BY <1>1, <1>3, SupplyIsFresh

LEMMA WholeIsFresh ==
    ASSUME EvalTypeOK, OneOwner, Numbered, NEW type \in Types
    PROVE  Fresh(Whole(type)) /\ Whole(type) # {}
<1> DEFINE m == Len(ShapesOf[type])
<1>1. m \in Nat \ {0} /\ Whole(type) = First(m, type)
  BY ShapeTables DEF Whole
<1>2. m \in 0..m
  BY <1>1
<1>3. Fresh(First(m, type))
  BY <1>2, FirstIsFresh
<1> HIDE DEF m
<1>4. Supply(ShapesOf[type][1]) \in First(m, type)
  BY <1>1 DEF First
<1> QED
  BY <1>1, <1>3, <1>4

\* Every texture has an owner if the old ones and those just created have.
LEMMA MoreOwned ==
    ASSUME AllOwned, allocated \in [Shapes -> Nat], Places' = Places, NEW got,
           allocated' = [s \in Shapes |-> IF <<s, allocated[s]>> \in got
                                          THEN allocated[s] + 1 ELSE allocated[s]],
           \A t : t \in got \/ (\E p \in Places : t \in holds[p])
                    => \E p \in Places : t \in holds'[p]
    PROVE  AllOwned'
<1>1. ASSUME NEW s \in Shapes, NEW n \in 0..(allocated'[s] - 1)
      PROVE  \E p \in Places : <<s, n>> \in holds'[p]
  <2>1. CASE n = allocated[s]
    <3>1. <<s, allocated[s]>> \in got
      BY <1>1, <2>1
    <3> QED
      BY <2>1, <3>1
  <2>2. CASE n # allocated[s]
    <3>1. n \in 0..(allocated[s] - 1)
      BY <1>1, <2>2
    <3>2. \E p \in Places : <<s, n>> \in holds[p]
      BY <3>1 DEF AllOwned, Contents
    <3> QED
      BY <3>2
  <2> QED
    BY <2>1, <2>2
<1>2. \A s \in Shapes : \A n \in 0..(allocated'[s] - 1) : <<s, n>> \in Contents(Places)'
  BY <1>1 DEF Contents
<1> QED
  BY <1>2 DEF AllOwned

\* Acquiring leaves every other place alone.
LEMMA Acquiring ==
    ASSUME EvalTypeOK, OneOwner, AllOwned, Numbered, NEW got, Fresh(got),
           NEW place \in Places \ {Pool}, Acquire(got, place), UNCHANGED graph
    PROVE  /\ holds' \in [Places -> SUBSET Textures] /\ allocated' \in [Shapes -> Nat]
           /\ OneOwner' /\ AllOwned' /\ Numbered'
           /\ holds'[place] = holds[place] \cup got
           /\ \A p \in Places \ {Pool, place} : holds'[p] = holds[p]
<1>0. /\ holds \in [Places -> SUBSET Textures] /\ allocated \in [Shapes -> Nat]
      /\ Pool \in Places /\ Places' = Places
  BY PlaceFacts, GraphStays DEF EvalTypeOK
<1>1. /\ holds' = [holds EXCEPT ![Pool] = @ \ got, ![place] = @ \cup got]
      /\ allocated' = [s \in Shapes |-> IF <<s, allocated[s]>> \in got
                                        THEN allocated[s] + 1 ELSE allocated[s]]
  BY DEF Acquire
<1>2. /\ holds' \in [Places -> SUBSET Textures]
      /\ holds'[Pool] = holds[Pool] \ got
      /\ holds'[place] = holds[place] \cup got
      /\ \A p \in Places \ {Pool, place} : holds'[p] = holds[p]
  BY <1>0, <1>1 DEF Fresh
<1>3. allocated' \in [Shapes -> Nat] /\ \A s \in Shapes : allocated[s] <= allocated'[s]
  BY <1>0, <1>1
<1>4. OneOwner'
  <2>1. ASSUME NEW p \in Places, NEW q \in Places, p # q
        PROVE  holds'[p] \cap holds'[q] = {}
    <3>1. holds[p] \cap holds[q] = {}
      BY <2>1 DEF OneOwner
    <3>2. \A r \in Places \ {Pool} : got \cap holds[r] = {}
      BY DEF Fresh
    <3> QED
      BY <1>2, <2>1, <3>1, <3>2
  <2> QED
    BY <1>0, <2>1 DEF OneOwner
<1>5. Numbered'
  <2>1. ASSUME NEW t \in Textures, t[2] < allocated[t[1]]
        PROVE  t[2] < allocated'[t[1]]
    BY <1>0, <1>3, <2>1 DEF Textures
  <2>2. ASSUME NEW t \in got
        PROVE  t[2] < allocated'[t[1]]
    <3>1. t \in Textures /\ t[2] <= allocated[t[1]]
      BY <2>2 DEF Fresh
    <3>2. t = <<t[1], t[2]>> /\ t[1] \in Shapes /\ t[2] \in Nat
      BY <3>1 DEF Textures
    <3>3. CASE t[2] = allocated[t[1]]
      BY <1>0, <1>1, <2>2, <3>2, <3>3
    <3>4. CASE t[2] < allocated[t[1]]
      BY <2>1, <3>1, <3>4
    <3> QED
      BY <1>0, <3>1, <3>2, <3>3, <3>4
  <2>3. ASSUME NEW p \in Places, NEW t \in holds'[p]
        PROVE  t[2] < allocated'[t[1]]
    <3>1. t \in got \/ t \in holds[p]
      BY <1>2, <2>3
    <3>2. CASE t \in holds[p]
      <4>1. t \in Textures /\ t[2] < allocated[t[1]]
        BY <1>0, <3>2 DEF Numbered
      <4> QED
        BY <2>1, <4>1
    <3> QED
      BY <2>2, <3>1, <3>2
  <2> QED
    BY <1>0, <2>3 DEF Numbered
<1>6. AllOwned'
  <2>1. ASSUME NEW t, \/ t \in got
                      \/ \E p \in Places : t \in holds[p]
        PROVE  \E p \in Places : t \in holds'[p]
    <3>1. CASE t \in got
      BY <1>2, <3>1
    <3>2. CASE t \notin got
      <4>1. PICK p \in Places : t \in holds[p]
        BY <2>1, <3>2
      <4>2. t \in holds'[p]
        BY <1>2, <3>2, <4>1
      <4> QED
        BY <4>2
    <3> QED
      BY <3>1, <3>2
  <2> QED
    BY <1>0, <1>1, <2>1, MoreOwned
<1> QED
  BY <1>2, <1>3, <1>4, <1>5, <1>6

\* A step that sends what is at each place to one other place keeps owners
\* apart.
LEMMA Moving ==
    ASSUME EvalTypeOK, OneOwner, Numbered, UNCHANGED <<graph, allocated>>, NEW dest,
           \A p \in Places : \A t \in holds'[p] :
               \E q \in Places : t \in holds[q] /\ dest[q] = p
    PROVE  /\ \A p \in Places : holds'[p] \subseteq Textures
           /\ OneOwner' /\ Numbered'
<1>0. holds \in [Places -> SUBSET Textures] /\ Places' = Places
  BY GraphStays DEF EvalTypeOK
<1>1. \A p \in Places : holds'[p] \subseteq Textures
  BY <1>0
<1>2. OneOwner'
  BY <1>0 DEF OneOwner
<1>3. Numbered'
  BY <1>0 DEF Numbered
<1> QED
  BY <1>1, <1>2, <1>3

\* And every texture has one, if nothing at a place is forgotten.
LEMMA Keeping ==
    ASSUME AllOwned, UNCHANGED <<graph, allocated>>,
           \A q \in Places : \A t \in holds[q] : \E p \in Places : t \in holds'[p]
    PROVE  AllOwned'
<1>1. Places' = Places
  BY GraphStays
<1>2. Contents(Places) \subseteq Contents(Places)'
  BY <1>1 DEF Contents
<1> QED
  BY <1>2 DEF AllOwned

LEMMA MovedFacts ==
    ASSUME EvalTypeOK, OneOwner, AllOwned, Numbered, UNCHANGED <<graph, allocated>>,
           NEW from \in SUBSET Places, NEW to \in Places, holds' = Moved(from, to)
    PROVE  /\ holds' \in [Places -> SUBSET Textures]
           /\ OneOwner' /\ AllOwned' /\ Numbered'
           /\ holds'[to] = holds[to] \cup Contents(from)
           /\ \A p \in from \ {to} : holds'[p] = {}
           /\ \A p \in Places \ from : p # to => holds'[p] = holds[p]
<1> DEFINE dest == [q \in Places |-> IF q \in from THEN to ELSE q]
<1>1. /\ holds' = [p \in Places |-> IF p = to THEN holds[p] \cup Contents(from)
                                    ELSE IF p \in from THEN {} ELSE holds[p]]
  BY DEF Moved
<1>2. /\ holds'[to] = holds[to] \cup Contents(from)
      /\ \A p \in from \ {to} : holds'[p] = {}
      /\ \A p \in Places \ from : p # to => holds'[p] = holds[p]
  BY <1>1
<1>3. \A t \in Contents(from) : \E q \in from : t \in holds[q]
  BY DEF Contents
<1>4. ASSUME NEW p \in Places, NEW t \in holds'[p]
      PROVE  \E q \in Places : t \in holds[q] /\ dest[q] = p
  <2>1. CASE p = to
    <3>1. CASE t \in holds[to]
      BY <2>1, <3>1
    <3>2. CASE t \in Contents(from)
      BY <1>3, <2>1, <3>2
    <3> QED
      BY <1>2, <1>4, <2>1, <3>1, <3>2
  <2>2. CASE p # to
    <3>1. p \notin from /\ t \in holds[p]
      BY <1>2, <1>4, <2>2
    <3> QED
      BY <3>1
  <2> QED
    BY <2>1, <2>2
<1> HIDE DEF dest
<1>5. /\ \A p \in Places : holds'[p] \subseteq Textures
      /\ OneOwner' /\ Numbered'
  BY <1>4, Moving
<1>6. AllOwned'
  <2>1. ASSUME NEW q \in Places, NEW t \in holds[q]
        PROVE  \E p \in Places : t \in holds'[p]
    <3>1. CASE q \in from
      BY <1>2, <2>1, <3>1 DEF Contents
    <3>2. CASE q \notin from
      BY <1>2, <2>1, <3>2
    <3> QED
      BY <3>1, <3>2
  <2> QED
    BY <2>1, Keeping
<1> QED
  BY <1>1, <1>2, <1>5, <1>6

-----------------------------------------------------------------------------
(***************************************************************************)
(* A node that returns an error.                                           *)
(***************************************************************************)
LEMMA ErrStep ==
    ASSUME EvalInductive, Evaluating, NEW got, NEW gone, Fresh(got),
           gone \subseteq got \cup Contents(NodePlaces), Err(got, gone),
           \/ failures' = failures + 1
           \/ failures' = failures /\ (gone = {} \/ ~SumsAreFed)
    PROVE  EvalInductive'
<1>0. /\ EvalTypeOK /\ OneOwner /\ AllOwned /\ Numbered /\ ElsewhereIsEmpty /\ NoneLostYet
      /\ holds \in [Places -> SUBSET Textures] /\ allocated \in [Shapes -> Nat]
      /\ Pool \in Places /\ Lost \in Places /\ NodePlaces \subseteq Places
      /\ UNCHANGED <<graph, at, taken, turn, remaining, full>>
      /\ phase' = "failed" /\ Pool # Lost /\ Pool \notin NodePlaces /\ Lost \notin NodePlaces
      /\ failures \in Nat
  BY PlaceFacts, Heads DEF EvalInductive, EvalTypeOK, Err
<1> DEFINE spilled == (Contents(NodePlaces) \cup got) \ gone
<1>1. /\ holds' = [p \in Places |->
             IF p = Pool THEN (holds[Pool] \ gone) \cup spilled
             ELSE IF p = Lost THEN holds[Lost] \cup gone
             ELSE IF p \in NodePlaces THEN {} ELSE holds[p]]
      /\ allocated' = [s \in Shapes |-> IF <<s, allocated[s]>> \in got
                                        THEN allocated[s] + 1 ELSE allocated[s]]
  BY DEF Err
<1>2. /\ holds'[Pool] = (holds[Pool] \ gone) \cup spilled
      /\ holds'[Lost] = holds[Lost] \cup gone
      /\ \A p \in NodePlaces : holds'[p] = {}
      /\ \A p \in Places \ NodePlaces : p # Pool /\ p # Lost => holds'[p] = holds[p]
  BY <1>0, <1>1
<1>3. /\ got \subseteq Textures
      /\ \A t \in Contents(NodePlaces) : \E q \in NodePlaces : t \in holds[q]
      /\ \A p \in Places \ {Pool} : got \cap holds[p] = {}
  BY DEF Contents, Fresh
<1>4. Contents(NodePlaces) \subseteq Textures
  BY <1>0, <1>3
<1>5. holds' \in [Places -> SUBSET Textures]
  <2>1. spilled \subseteq Textures /\ gone \subseteq Textures
    BY <1>3, <1>4
  <2> HIDE DEF spilled
  <2> QED
    BY <1>0, <1>1, <2>1
<1>6. allocated' \in [Shapes -> Nat] /\ \A s \in Shapes : allocated[s] <= allocated'[s]
  BY <1>0, <1>1
<1>7. \A p \in Places \ NodePlaces : p # Pool => Contents(NodePlaces) \cap holds[p] = {}
  BY <1>0, <1>3 DEF OneOwner
<1>8. Places' = Places /\ NodePlaces' = NodePlaces /\ CallerPlaces' = CallerPlaces
      /\ ProducedPlaces' = ProducedPlaces /\ SumsAreFed' = SumsAreFed
  BY <1>0, GraphStays
<1>9. OneOwner'
  <2>1. ASSUME NEW p \in Places, NEW t \in holds'[p]
        PROVE  \/ p = Pool /\ t \notin gone
                   /\ (t \in holds[Pool] \/ t \in Contents(NodePlaces) \/ t \in got)
               \/ p = Lost /\ (t \in holds[Lost] \/ t \in gone)
               \/ p \notin NodePlaces /\ p # Pool /\ p # Lost /\ t \in holds[p]
    BY <1>0, <1>2, <2>1
  <2>2. ASSUME NEW p \in Places, NEW q \in Places, p # q,
               NEW t, t \in holds'[p], t \in holds'[q]
        PROVE  FALSE
    <3>1. /\ \/ p = Pool /\ t \notin gone
                   /\ (t \in holds[Pool] \/ t \in Contents(NodePlaces) \/ t \in got)
             \/ p = Lost /\ (t \in holds[Lost] \/ t \in gone)
             \/ p \notin NodePlaces /\ p # Pool /\ p # Lost /\ t \in holds[p]
          /\ \/ q = Pool /\ t \notin gone
                   /\ (t \in holds[Pool] \/ t \in Contents(NodePlaces) \/ t \in got)
             \/ q = Lost /\ (t \in holds[Lost] \/ t \in gone)
             \/ q \notin NodePlaces /\ q # Pool /\ q # Lost /\ t \in holds[q]
      BY <2>1, <2>2
    <3>2. ASSUME NEW r \in Places, r \notin NodePlaces, r # Pool, t \in holds[r]
          PROVE  t \notin holds[Pool] /\ t \notin Contents(NodePlaces) /\ t \notin got
                 /\ t \notin gone
      BY <1>0, <1>3, <1>7, <3>2 DEF OneOwner
    <3>3. holds[p] \cap holds[q] = {}
      BY <2>2, <1>0 DEF OneOwner
    <3> QED
      BY <1>0, <2>2, <3>1, <3>2, <3>3
  <2> QED
    BY <1>8, <2>2 DEF OneOwner
<1>10. Numbered'
  <2>1. ASSUME NEW t \in Textures, t[2] < allocated[t[1]]
        PROVE  t[2] < allocated'[t[1]]
    BY <1>0, <1>6, <2>1 DEF Textures
  <2>2. ASSUME NEW t \in got
        PROVE  t[2] < allocated'[t[1]]
    <3>1. t \in Textures /\ t[2] <= allocated[t[1]]
      BY <2>2 DEF Fresh
    <3>2. t = <<t[1], t[2]>> /\ t[1] \in Shapes /\ t[2] \in Nat
      BY <3>1 DEF Textures
    <3>3. CASE t[2] = allocated[t[1]]
      BY <1>0, <1>1, <2>2, <3>2, <3>3
    <3>4. CASE t[2] < allocated[t[1]]
      BY <2>1, <3>1, <3>4
    <3> QED
      BY <1>0, <3>1, <3>2, <3>3, <3>4
  <2>3. ASSUME NEW p \in Places, NEW t \in holds[p]
        PROVE  t[2] < allocated'[t[1]]
    <3>1. t \in Textures /\ t[2] < allocated[t[1]]
      BY <1>0 DEF Numbered
    <3> QED
      BY <2>1, <3>1
  <2>4. \A p \in Places : \A t \in holds'[p] : t \in got \/ \E q \in Places : t \in holds[q]
    BY <1>0, <1>2, <1>3
  <2> QED
    BY <1>8, <2>2, <2>3, <2>4 DEF Numbered
<1>11. EvalTypeOK'
  <2>1. failures' \in Nat
    BY <1>0
  <2>2. settled' \in BOOLEAN
    BY <1>0 DEF Err, EvalTypeOK
  <2>3. holds' \in [Places' -> SUBSET Textures]
    BY <1>5, <1>8
  <2> QED
    BY <1>0, <1>6, <2>1, <2>2, <2>3 DEF EvalTypeOK, Evaluating
<1>12. /\ RemainingIsExact' /\ NothingKeptInVain' /\ UsedIsThere'
       /\ JustBegun' /\ TakenIsInHand' /\ WantedIsMade' /\ NothingInTheWay'
  BY <1>0 DEF RemainingIsExact, NothingKeptInVain, UsedIsThere, JustBegun, TakenIsInHand,
              WantedIsMade, NothingInTheWay, Evaluating
<1>13. ElsewhereIsEmpty'
  <2>1. \A p \in CallerPlaces : p \in Places \ NodePlaces /\ p # Pool /\ p # Lost
    BY PlaceFacts, Heads
  <2>2. \A p \in CallerPlaces : holds[p] = {}
    BY <1>0 DEF ElsewhereIsEmpty, Evaluating
  <2> QED
    BY <1>0, <1>2, <1>8, <2>1, <2>2 DEF ElsewhereIsEmpty
<1>14. NoneLostYet'
  <2>1. failures' = 0 => failures = 0 /\ (gone = {} \/ ~SumsAreFed)
    BY <1>0
  <2> QED
    BY <1>0, <1>2, <1>8, <2>1 DEF NoneLostYet
<1>15. AllOwned'
  <2>1. ASSUME NEW t, t \in got \/ \E p \in Places : t \in holds[p]
        PROVE  t \in holds'[Pool] \/ t \in holds'[Lost]
               \/ \E p \in Places : t \in holds'[p]
    <3>1. CASE t \in got
      BY <1>2, <3>1
    <3>2. CASE \E p \in NodePlaces : t \in holds[p]
      <4>1. t \in Contents(NodePlaces)
        BY <3>2 DEF Contents
      <4> QED
        BY <1>2, <4>1
    <3>3. CASE t \in holds[Pool] \/ t \in holds[Lost]
      BY <1>2, <3>3
    <3>4. CASE \E p \in Places \ NodePlaces : p # Pool /\ p # Lost /\ t \in holds[p]
      BY <1>2, <3>4
    <3> QED
      BY <2>1, <3>1, <3>2, <3>3, <3>4
  <2>2. ASSUME NEW t, t \in got \/ \E p \in Places : t \in holds[p]
        PROVE  \E p \in Places : t \in holds'[p]
    BY <1>0, <2>1, <2>2
  <2> QED
    BY <1>0, <1>1, <1>8, <2>2, MoreOwned
<1> QED
  BY <1>9, <1>10, <1>11, <1>12, <1>13, <1>14, <1>15 DEF EvalInductive

-----------------------------------------------------------------------------
(***************************************************************************)
(* Counting uses.                                                          *)
(***************************************************************************)
LEMMA UsesAreFinite ==
    ASSUME graph \in Graphs, NEW s, NEW U, U \subseteq Uses(s)
    PROVE  /\ IsFiniteSet(U) /\ Cardinality(U) \in Nat
           /\ \A u \in U : /\ u = <<u[1], u[2]>> /\ u[1] \in NodesOf(graph)
                           /\ u[2] \in 1..MaxInputs /\ u[2] \in Connected(u[1])
                           /\ graph.source[u[1]][u[2]] = s
<1>1. IsFiniteSet(NodesOf(graph)) /\ IsFiniteSet(1..MaxInputs)
  <2> DEFINE c == Len(graph.kind)
  <2>1. NodesOf(graph) = 1..c /\ c \in Nat
    BY GraphFacts
  <2> HIDE DEF c
  <2>2. 1 \in Int /\ c \in Int /\ MaxInputs \in Int
    BY <2>1 DEF MaxInputs
  <2> QED
    BY <2>1, <2>2, FS_Interval
<1>2. IsFiniteSet(NodesOf(graph) \X (1..MaxInputs))
  BY <1>1, FS_Product
<1>3. U \in SUBSET (NodesOf(graph) \X (1..MaxInputs))
  BY DEF Uses
<1>4. IsFiniteSet(U) /\ Cardinality(U) \in Nat
  BY <1>2, <1>3, FS_Subset, FS_CardinalityType
<1>5. \A u \in U : /\ u = <<u[1], u[2]>> /\ u[1] \in NodesOf(graph)
                   /\ u[2] \in 1..MaxInputs /\ u[2] \in Connected(u[1])
                   /\ graph.source[u[1]][u[2]] = s
  BY DEF Uses
<1> QED
  BY <1>4, <1>5

\* A connected input that the node has not taken is a use still to come.
LEMMA UntakenIsPending ==
    ASSUME EvalTypeOK, RemainingIsExact, Evaluating, NEW i \in Connected(at) \ taken
    PROVE  /\ at \in NodesOf(graph) /\ Source(i) \in Sockets(graph) /\ Source(i)[1] < at
           /\ <<at, i>> \in Pending(Source(i))
           /\ remaining[Source(i)] \in Nat \ {0}
           /\ remaining[Source(i)] = Cardinality(Pending(Source(i))) + Extra(Source(i))
<1>1. graph \in Graphs /\ at \in NodesOf(graph) /\ remaining \in [Sockets(graph) -> Nat]
  BY DEF EvalTypeOK
<1>2. Source(i) \in Sockets(graph) /\ Source(i)[1] < at /\ i \in 1..MaxInputs
  BY <1>1, GraphFacts DEF Source
<1>3. <<at, i>> \in Pending(Source(i))
  BY <1>1, <1>2 DEF Pending, Uses, Source
<1>4. remaining[Source(i)] = Cardinality(Pending(Source(i))) + Extra(Source(i))
  BY <1>2 DEF RemainingIsExact
<1>5. Pending(Source(i)) \subseteq Uses(Source(i))
  BY DEF Pending
<1>6. /\ Cardinality(Pending(Source(i))) \in Nat
      /\ Cardinality(Pending(Source(i))) # 0
  BY <1>1, <1>3, <1>5, UsesAreFinite, FS_EmptySet
<1>7. Extra(Source(i)) \in {0, 1}
  BY DEF Extra
<1> QED
  BY <1>1, <1>2, <1>3, <1>4, <1>6, <1>7

\* So its value is there.
LEMMA InputsAreThere ==
    EvalInductive => NeverStarved
<1> SUFFICES ASSUME EvalInductive, Evaluating, NEW i \in Connected(at) \ taken
             PROVE  holds[Produced(Source(i))] # {}
  BY DEF NeverStarved
<1>1. /\ Source(i) \in Sockets(graph) /\ Source(i)[1] < at
      /\ remaining[Source(i)] \in Nat \ {0}
  BY UntakenIsPending DEF EvalInductive
<1>2. remaining[Source(i)] > 0
  BY <1>1
<1> QED
  BY <1>1, <1>2 DEF EvalInductive, UsedIsThere

\* Taking input i finishes one use of its source and no other.
LEMMA TakingCounts ==
    ASSUME EvalTypeOK, RemainingIsExact, phase = "inputs", NEW i \in Connected(at) \ taken,
           taken' = taken \cup {i}, UNCHANGED <<graph, phase, at>>,
           remaining' = [remaining EXCEPT ![Source(i)] = @ - 1]
    PROVE  RemainingIsExact' /\ remaining' \in [Sockets(graph) -> Nat]
<1> DEFINE s == Source(i)
<1>0. /\ Evaluating /\ Evaluating' /\ graph \in Graphs /\ at \in NodesOf(graph)
      /\ remaining \in [Sockets(graph) -> Nat]
  BY DEF EvalTypeOK, Evaluating
<1>1. /\ s \in Sockets(graph) /\ <<at, i>> \in Pending(s) /\ remaining[s] \in Nat \ {0}
      /\ remaining[s] = Cardinality(Pending(s)) + Extra(s)
  BY <1>0, UntakenIsPending
<1> HIDE DEF s
<1>2. /\ remaining'[s] = remaining[s] - 1
      /\ \A t \in Sockets(graph) \ {s} : remaining'[t] = remaining[t]
      /\ remaining' \in [Sockets(graph) -> Nat]
  <2>1. remaining' = [remaining EXCEPT ![s] = @ - 1]
    BY DEF s
  <2> QED
    BY <1>0, <1>1, <2>1
<1>3. ASSUME NEW t
      PROVE  Pending(t)' = IF t = s THEN Pending(t) \ {<<at, i>>} ELSE Pending(t)
  <2>1. Uses(t)' = Uses(t)
    BY GraphStays
  <2>2. \A u \in Uses(t) : u = <<u[1], u[2]>> /\ graph.source[u[1]][u[2]] = t
    BY <1>0, UsesAreFinite
  <2>3. \A u \in Uses(t) : (u[1] = at /\ u[2] = i) => t = s
    BY <2>2 DEF s, Source
  <2>4. Pending(t)' = {u \in Uses(t) : u[1] > at \/ (u[1] = at /\ u[2] \notin taken \cup {i})}
    BY <2>1 DEF Pending
  <2>5. Pending(t) = {u \in Uses(t) : u[1] > at \/ (u[1] = at /\ u[2] \notin taken)}
    BY DEF Pending
  <2>6. \A u \in Uses(t) : u[1] \in Nat /\ at \in Nat
    BY <1>0, UsesAreFinite, GraphFacts
  <2> QED
    BY <2>2, <2>3, <2>4, <2>5, <2>6
<1>4. ASSUME NEW t \in Sockets(graph)
      PROVE  remaining'[t] = Cardinality(Pending(t)') + Extra(t)
  <2>1. CASE t = s
    <3>1. IsFiniteSet(Pending(s)) /\ Cardinality(Pending(s)) \in Nat
      BY <1>0, UsesAreFinite DEF Pending
    <3>2. Cardinality(Pending(s) \ {<<at, i>>}) = Cardinality(Pending(s)) - 1
      BY <1>1, <3>1, FS_RemoveElement
    <3>3. Extra(s) \in {0, 1}
      BY DEF Extra
    <3>4. Pending(t)' = Pending(s) \ {<<at, i>>} /\ Extra(t) = Extra(s)
      BY <1>3, <2>1
    <3>5. Cardinality(Pending(t)') = Cardinality(Pending(s)) - 1
      BY <3>2, <3>4
    <3>6. remaining'[t] = remaining[s] - 1
      BY <1>2, <2>1
    <3> QED
      BY <1>1, <3>1, <3>3, <3>4, <3>5, <3>6
  <2>2. CASE t # s
    BY <1>0, <1>2, <1>3, <2>2 DEF RemainingIsExact
  <2> QED
    BY <2>1, <2>2
<1>5. \A t : Extra(t)' = Extra(t)
  BY GraphStays
<1>6. RemainingIsExact'
  BY <1>0, <1>4, <1>5 DEF RemainingIsExact
<1> QED
  BY <1>2, <1>6

-----------------------------------------------------------------------------
(***************************************************************************)
(* The steps of a node.                                                    *)
(***************************************************************************)
\* What every step of a node needs to know.
LEMMA NodeFacts ==
    ASSUME EvalInductive, Evaluating
    PROVE  /\ EvalTypeOK /\ OneOwner /\ AllOwned /\ Numbered
           /\ graph \in Graphs /\ at \in NodesOf(graph) /\ Kind \in Kinds
           /\ holds \in [Places -> SUBSET Textures] /\ allocated \in [Shapes -> Nat]
           /\ remaining \in [Sockets(graph) -> Nat] /\ failures \in Nat
           /\ Pool \in Places /\ Kept \in Places \ {Pool} /\ Kept \in NodePlaces
           /\ \A p \in CallerPlaces : holds[p] = {}
<1>1. EvalTypeOK /\ OneOwner /\ Numbered /\ graph \in Graphs /\ at \in NodesOf(graph)
  BY DEF EvalInductive, EvalTypeOK
<1>2. Kind \in Kinds
  BY <1>1, GraphFacts DEF Kind
<1>3. Pool \in Places /\ Kept \in Places \ {Pool} /\ Kept \in NodePlaces
  BY PlaceFacts, Heads
<1> QED
  BY <1>1, <1>2, <1>3 DEF EvalTypeOK, EvalInductive, ElsewhereIsEmpty, Evaluating

\* A step that leaves the produced values and their counts.
LEMMA ValuesStay ==
    ASSUME EvalInductive, Evaluating, UNCHANGED <<graph, at, taken, remaining>>,
           \A s \in Sockets(graph) : holds'[Produced(s)] = holds[Produced(s)]
    PROVE  RemainingIsExact' /\ NothingKeptInVain' /\ UsedIsThere'
<1>1. RemainingIsExact /\ NothingKeptInVain /\ UsedIsThere
  BY DEF EvalInductive
<1>2. Result' = Result /\ \A s : Extra(s)' = Extra(s) /\ Uses(s)' = Uses(s)
  BY GraphStays
<1>3. \A s : Pending(s)' = Pending(s)
  BY <1>2 DEF Pending
<1>4. RemainingIsExact'
  BY <1>1, <1>2, <1>3 DEF RemainingIsExact
<1>5. NothingKeptInVain' /\ UsedIsThere'
  BY <1>1, <1>2 DEF NothingKeptInVain, UsedIsThere, IsWanted
<1> QED
  BY <1>4, <1>5

\* A node that draws textures into one of its own places.
LEMMA NodeAcquires ==
    ASSUME EvalInductive, Evaluating, NEW got, Fresh(got), NEW place \in NodePlaces,
           Acquire(got, place), UNCHANGED <<graph, failures>>
    PROVE  /\ holds' \in [Places' -> SUBSET Textures] /\ allocated' \in [Shapes -> Nat]
           /\ OneOwner' /\ AllOwned' /\ Numbered' /\ NoneLostYet'
           /\ \A n \in NodesOf(graph) : holds'[Store(n)] \subseteq holds[Store(n)]
           /\ \A s \in Sockets(graph) : holds'[Produced(s)] = holds[Produced(s)]
           /\ \A p \in NodePlaces : p # place => holds'[p] = holds[p]
           /\ holds'[place] = holds[place] \cup got
           /\ \A p \in CallerPlaces' : holds'[p] = {}
<1>1. place \in Places \ {Pool} /\ place # Lost
  BY PlaceFacts, Heads
<1>2. /\ holds' \in [Places -> SUBSET Textures] /\ allocated' \in [Shapes -> Nat]
      /\ OneOwner' /\ AllOwned' /\ Numbered'
      /\ holds'[place] = holds[place] \cup got
      /\ \A p \in Places \ {Pool, place} : holds'[p] = holds[p]
  BY <1>1, NodeFacts, Acquiring
<1>3. Places' = Places /\ CallerPlaces' = CallerPlaces /\ SumsAreFed' = SumsAreFed
  BY GraphStays
<1>4. \A s \in Sockets(graph) : Produced(s) \in Places \ {Pool, place}
  BY PlaceFacts, Heads
<1>5. \A p \in NodePlaces : p # place => p \in Places \ {Pool, place}
  BY PlaceFacts, Heads
<1>6. \A p \in CallerPlaces : p \in Places \ {Pool, place} /\ holds[p] = {}
  BY PlaceFacts, Heads, NodeFacts
<1>7. Lost \in Places \ {Pool, place}
  BY <1>1, PlaceFacts, Heads
<1>8. NoneLostYet'
  BY <1>2, <1>3, <1>7 DEF EvalInductive, NoneLostYet
<1>9. \A n \in NodesOf(graph) : Store(n) \in Places \ {Pool, place}
  BY PlaceFacts, Heads
<1> QED
  BY <1>2, <1>3, <1>4, <1>5, <1>6, <1>8, <1>9

\* A node that moves what is at a place from to a place to, neither of them
\* lost to it nor produced.
LEMMA NodeMoves ==
    ASSUME EvalInductive, Evaluating, NEW from \in NodePlaces \cup StorePlaces,
           NEW to \in NodePlaces \cup {Pool}, holds' = Moved({from}, to), from # to,
           UNCHANGED <<graph, allocated, failures>>
    PROVE  /\ holds' \in [Places' -> SUBSET Textures] /\ allocated' \in [Shapes -> Nat]
           /\ OneOwner' /\ AllOwned' /\ Numbered' /\ NoneLostYet'
           /\ \A n \in NodesOf(graph) : holds'[Store(n)] \subseteq holds[Store(n)]
           /\ \A s \in Sockets(graph) : holds'[Produced(s)] = holds[Produced(s)]
           /\ \A p \in NodePlaces : p # to /\ p # from => holds'[p] = holds[p]
           /\ holds'[from] = {}
           /\ holds'[to] = holds[to] \cup holds[from]
           /\ \A p \in CallerPlaces' : holds'[p] = {}
<1>1. /\ {from} \in SUBSET Places /\ to \in Places
      /\ from[1] \in {"kept", "input", "output", "store"}
      /\ to[1] \in {"kept", "input", "output", "pool"}
  BY PlaceFacts, Heads
<1>2. /\ holds' \in [Places -> SUBSET Textures]
      /\ OneOwner' /\ AllOwned' /\ Numbered'
      /\ holds'[to] = holds[to] \cup Contents({from})
      /\ \A p \in {from} \ {to} : holds'[p] = {}
      /\ \A p \in Places \ {from} : p # to => holds'[p] = holds[p]
  <2>1. UNCHANGED <<graph, allocated>> /\ EvalTypeOK /\ OneOwner /\ AllOwned /\ Numbered
    BY NodeFacts
  <2> QED
    BY <1>1, <2>1, MovedFacts
<1>3. Contents({from}) = holds[from]
  BY DEF Contents
<1>4. Places' = Places /\ CallerPlaces' = CallerPlaces /\ SumsAreFed' = SumsAreFed
  BY GraphStays
<1>5. \A s \in Sockets(graph) : Produced(s) \in Places /\ Produced(s) # from /\ Produced(s) # to
  BY <1>1, PlaceFacts, Heads
<1>6. \A p \in NodePlaces : p \in Places
  BY PlaceFacts
<1>7. \A p \in CallerPlaces : p \in Places /\ p # from /\ p # to /\ holds[p] = {}
  BY <1>1, PlaceFacts, Heads, NodeFacts
<1>8. Lost \in Places /\ Lost # from /\ Lost # to
  BY <1>1, PlaceFacts, Heads
<1>9. NoneLostYet'
  BY <1>2, <1>4, <1>8 DEF EvalInductive, NoneLostYet
<1>10. allocated' \in [Shapes -> Nat]
  BY NodeFacts
<1>11. \A n \in NodesOf(graph) : holds'[Store(n)] \subseteq holds[Store(n)]
  <2>1. \A n \in NodesOf(graph) : Store(n) \in Places /\ Store(n) # to
    BY <1>1, PlaceFacts, Heads
  <2> QED
    BY <1>2, <2>1
<1> QED
  BY <1>2, <1>3, <1>4, <1>5, <1>6, <1>7, <1>9, <1>10, <1>11

\* A step of a node puts nothing where its state and its outputs are to go.
LEMMA WayStaysClear ==
    ASSUME EvalInductive, phase \in {"inputs", "outputs"}, UNCHANGED <<graph, at>>,
           \A n \in NodesOf(graph) : holds'[Store(n)] \subseteq holds[Store(n)],
           \A j \in 1..MaxOutputs : j > Len(OutputTypes[Kind])
                => holds'[Output(j)] \subseteq holds[Output(j)]
    PROVE  NothingInTheWay'
<1>1. /\ at \in NodesOf(graph) /\ NothingInTheWay /\ Kind' = Kind
      /\ Stateful(at)' = Stateful(at) /\ at' = at
  BY NodeFacts DEF EvalInductive, Evaluating, Kind, Stateful
<1> QED
  BY <1>1 DEF NothingInTheWay

LEMMA TakeStateStep ==
    ASSUME EvalInductive, TakeState
    PROVE  EvalInductive'
<1>0. /\ phase = "state" /\ Evaluating /\ Stateful(at) /\ taken = {} /\ turn = 1
      /\ phase' = "inputs" /\ Evaluating'
      /\ UNCHANGED <<graph, at, taken, turn, remaining, failures, full, settled>>
  BY DEF EvalInductive, JustBegun, TakeState, Evaluating
<1>1. /\ holds' \in [Places' -> SUBSET Textures] /\ allocated' \in [Shapes -> Nat]
      /\ OneOwner' /\ AllOwned' /\ Numbered' /\ NoneLostYet'
      /\ holds'[Store(at)] = {}
      /\ \A p \in NodePlaces : p # Kept => holds'[p] = holds[p]
      /\ \A s \in Sockets(graph) : holds'[Produced(s)] = holds[Produced(s)]
      /\ \A p \in CallerPlaces' : holds'[p] = {}
  <2>1. CASE holds[Store(at)] # {}
    <3>1. Store(at) \in StorePlaces /\ Store(at) # Kept /\ Kept \in NodePlaces
      BY <1>0, NodeFacts, PlaceFacts, Heads
    <3> DEFINE from == Store(at)
    <3>2. /\ from \in NodePlaces \cup StorePlaces /\ Kept \in NodePlaces \cup {Pool}
          /\ holds' = Moved({from}, Kept) /\ from # Kept /\ UNCHANGED <<graph, allocated, failures>>
      BY <1>0, <2>1, <3>1 DEF TakeState
    <3>3. \A p \in NodePlaces : p # from
      BY PlaceFacts, Heads
    <3> HIDE DEF from
    <3>4. /\ holds' \in [Places' -> SUBSET Textures] /\ allocated' \in [Shapes -> Nat]
          /\ OneOwner' /\ AllOwned' /\ Numbered' /\ NoneLostYet'
          /\ \A s \in Sockets(graph) : holds'[Produced(s)] = holds[Produced(s)]
          /\ \A p \in NodePlaces : p # Kept /\ p # from => holds'[p] = holds[p]
          /\ holds'[from] = {}
          /\ \A p \in CallerPlaces' : holds'[p] = {}
      BY <1>0, <3>2, NodeMoves
    <3> QED
      BY <3>3, <3>4 DEF from
  <2>2. CASE holds[Store(at)] = {}
    <3>1. StateType[Kind] \in Types
      BY <1>0, NodeFacts, KindTables DEF Stateful, Kind
    <3>2. Fresh(Whole(StateType[Kind]))
      BY <1>0, <3>1, NodeFacts, WholeIsFresh
    <3>3. Acquire(Whole(StateType[Kind]), Kept)
      BY <2>2 DEF TakeState
    <3>4. UNCHANGED <<graph, failures>> /\ Kept \in NodePlaces /\ at \in NodesOf(graph)
      BY <1>0, NodeFacts
    <3> DEFINE got == Whole(StateType[Kind])
    <3> HIDE DEF got
    <3>5. /\ holds' \in [Places' -> SUBSET Textures] /\ allocated' \in [Shapes -> Nat]
          /\ OneOwner' /\ AllOwned' /\ Numbered' /\ NoneLostYet'
          /\ \A n \in NodesOf(graph) : holds'[Store(n)] \subseteq holds[Store(n)]
          /\ \A s \in Sockets(graph) : holds'[Produced(s)] = holds[Produced(s)]
          /\ \A p \in NodePlaces : p # Kept => holds'[p] = holds[p]
          /\ \A p \in CallerPlaces' : holds'[p] = {}
      BY <1>0, <3>2, <3>3, <3>4, NodeAcquires DEF got
    <3> QED
      BY <2>2, <3>4, <3>5
  <2> QED
    BY <2>1, <2>2
<1>2. RemainingIsExact' /\ NothingKeptInVain' /\ UsedIsThere'
  BY <1>0, <1>1, ValuesStay
<1>3. EvalTypeOK'
  BY <1>0, <1>1 DEF EvalInductive, EvalTypeOK
<1>4. JustBegun' /\ TakenIsInHand' /\ WantedIsMade' /\ ElsewhereIsEmpty'
  BY <1>0, <1>1 DEF JustBegun, TakenIsInHand, WantedIsMade, ElsewhereIsEmpty
<1>5. NothingInTheWay'
  <2>1. at \in NodesOf(graph) /\ at' = at /\ Store(at)' = Store(at)
    BY <1>0, NodeFacts DEF Store
  <2>2. \A j \in 1..MaxOutputs : Output(j) \in NodePlaces /\ Output(j) # Kept
    BY PlaceFacts, Heads
  <2>3. \A p \in NodePlaces : holds[p] = {}
    BY <1>0 DEF EvalInductive, ElsewhereIsEmpty
  <2> QED
    BY <1>0, <1>1, <2>1, <2>2, <2>3 DEF NothingInTheWay
<1> QED
  BY <1>1, <1>2, <1>3, <1>4, <1>5 DEF EvalInductive

LEMMA TakeStateFailsStep ==
    ASSUME EvalInductive, TakeStateFails
    PROVE  EvalInductive'
<1>1. phase = "state" /\ Evaluating /\ Stateful(at)
  BY DEF EvalInductive, JustBegun, TakeStateFails, Evaluating
<1>2. StateType[Kind] \in Types
  BY <1>1, NodeFacts, KindTables DEF Stateful, Kind
<1>3. PICK n \in FailedCopies(StateType[Kind]) :
          Fail(First(n, StateType[Kind]), First(n, StateType[Kind]))
  BY DEF TakeStateFails
<1>4. n \in 0..Len(ShapesOf[StateType[Kind]])
  BY DEF FailedCopies
<1>5. Fresh(First(n, StateType[Kind]))
  BY <1>1, <1>2, <1>4, NodeFacts, FirstIsFresh
<1> QED
  BY <1>1, <1>3, <1>5, ErrStep DEF Fail

LEMMA NothingIsFresh ==
    Fresh({})
  BY DEF Fresh

LEMMA IncompletePairStep ==
    ASSUME EvalInductive, IncompletePair
    PROVE  EvalInductive'
<1>1. Evaluating /\ Err({}, {}) /\ failures' = failures
  BY DEF IncompletePair, Evaluating
<1> QED
  BY <1>1, NothingIsFresh, ErrStep

\* The input a node wants next is one it has not taken.
LEMMA WantedInput ==
    ASSUME EvalInductive, NEW i, Wants(i), i \in Connected(at)
    PROVE  /\ phase = "inputs" /\ Evaluating /\ i \in Connected(at) \ taken
           /\ i \in 1..MaxInputs /\ Input(i) \in NodePlaces
           /\ Source(i) \in Sockets(graph) /\ Source(i)[1] < at
           /\ Produced(Source(i)) \in ProducedPlaces
           /\ TypeOf(graph, Source(i)) \in Types
           /\ remaining[Source(i)] \in Nat \ {0}
<1>1. phase = "inputs" /\ Evaluating /\ i \in Connected(at) \ taken
  BY DEF Wants, StillToTake, Evaluating
<1>2. i \in 1..MaxInputs
  BY <1>1, NodeFacts, GraphFacts
<1>3. /\ Source(i) \in Sockets(graph) /\ Source(i)[1] < at
      /\ remaining[Source(i)] \in Nat \ {0}
  BY <1>1, UntakenIsPending DEF EvalInductive
<1>4. TypeOf(graph, Source(i)) \in Types
  BY <1>1, <1>3, NodeFacts, GraphFacts
<1> QED
  BY <1>1, <1>2, <1>3, <1>4, PlaceFacts

LEMMA TakeInputStep ==
    ASSUME EvalInductive, NEW i, TakeInput(i)
    PROVE  EvalInductive'
<1> DEFINE s == Source(i)
<1>0. /\ Wants(i) /\ i \in Connected(at) /\ LastUse(s) /\ holds[Produced(s)] # {}
      /\ holds' = Moved({Produced(s)}, Input(i))
      /\ remaining' = [remaining EXCEPT ![s] = 0]
      /\ taken' = taken \cup {i}
      /\ UNCHANGED <<graph, phase, at, turn, allocated, failures, full, settled>>
  BY DEF TakeInput
<1>1. /\ phase = "inputs" /\ Evaluating /\ i \in Connected(at) \ taken
      /\ i \in 1..MaxInputs /\ Input(i) \in NodePlaces
      /\ s \in Sockets(graph) /\ s[1] < at /\ Produced(s) \in ProducedPlaces
      /\ remaining[s] \in Nat \ {0}
  BY <1>0, WantedInput
<1>2. /\ EvalTypeOK /\ OneOwner /\ AllOwned /\ Numbered /\ RemainingIsExact
      /\ graph \in Graphs /\ remaining \in [Sockets(graph) -> Nat]
      /\ Places' = Places /\ CallerPlaces' = CallerPlaces /\ SumsAreFed' = SumsAreFed
      /\ Result' = Result
  BY <1>0, <1>1, NodeFacts, GraphStays DEF EvalInductive
<1>3. /\ {Produced(s)} \in SUBSET Places /\ Input(i) \in Places
      /\ Contents({Produced(s)}) = holds[Produced(s)]
  BY <1>1, PlaceFacts DEF Contents
<1>4. /\ holds' \in [Places -> SUBSET Textures]
      /\ OneOwner' /\ AllOwned' /\ Numbered'
      /\ holds'[Input(i)] = holds[Input(i)] \cup holds[Produced(s)]
      /\ \A p \in {Produced(s)} \ {Input(i)} : holds'[p] = {}
      /\ \A p \in Places \ {Produced(s)} : p # Input(i) => holds'[p] = holds[p]
  <2>1. UNCHANGED <<graph, allocated>>
    BY <1>0
  <2> DEFINE from == {Produced(s)}
  <2>2. from \in SUBSET Places /\ Input(i) \in Places /\ holds' = Moved(from, Input(i))
    BY <1>0, <1>3
  <2> HIDE DEF from
  <2>3. /\ holds' \in [Places -> SUBSET Textures]
        /\ OneOwner' /\ AllOwned' /\ Numbered'
        /\ holds'[Input(i)] = holds[Input(i)] \cup Contents(from)
        /\ \A p \in from \ {Input(i)} : holds'[p] = {}
        /\ \A p \in Places \ from : p # Input(i) => holds'[p] = holds[p]
    BY <1>2, <2>1, <2>2, MovedFacts
  <2> QED
    BY <1>3, <2>3 DEF from
<1>5. remaining[s] = 1
  BY <1>0, <1>1 DEF LastUse
<1>6. remaining' = [remaining EXCEPT ![s] = @ - 1]
  <2>1. remaining[s] - 1 = 0
    BY <1>5
  <2> QED
    BY <1>0, <1>1, <1>2, <2>1
<1>7. RemainingIsExact' /\ remaining' \in [Sockets(graph) -> Nat]
  BY <1>0, <1>1, <1>2, <1>6, TakingCounts
<1>8. /\ remaining'[s] = 0 /\ holds'[Produced(s)] = {}
      /\ \A t \in Sockets(graph) \ {s} :
            remaining'[t] = remaining[t] /\ holds'[Produced(t)] = holds[Produced(t)]
  <2>1. \A t \in Sockets(graph) : Produced(t) \in Places /\ Produced(t) # Input(i)
                                  /\ (t # s => Produced(t) # Produced(s))
    BY PlaceFacts, Heads
  <2> QED
    BY <1>0, <1>1, <1>2, <1>4, <2>1
<1>9. NothingKeptInVain' /\ UsedIsThere'
  <2>1. NothingKeptInVain /\ UsedIsThere
    BY DEF EvalInductive
  <2>2. \A t \in Sockets(graph) :
            /\ holds'[Produced(t)] # {} => (t = Result \/ remaining'[t] > 0) /\ t[1] < at
            /\ t[1] < at /\ remaining'[t] > 0 => holds'[Produced(t)] # {}
    BY <1>1, <1>8, <2>1 DEF NothingKeptInVain, UsedIsThere, IsWanted
  <2> QED
    BY <1>0, <1>2, <2>2 DEF NothingKeptInVain, UsedIsThere, IsWanted
<1>10. TakenIsInHand'
  <2>1. ASSUME NEW k \in taken'
        PROVE  holds'[Input(k)] # {}
    <3>1. k \in 1..MaxInputs
      BY <1>0, <1>1, <1>2, <2>1 DEF EvalTypeOK
    <3>2. CASE k = i
      BY <1>0, <1>4, <3>2
    <3>3. CASE k # i
      <4>1. holds[Input(k)] # {}
        BY <1>0, <1>1, <2>1, <3>3 DEF EvalInductive, TakenIsInHand
      <4>2. Input(k) \in Places \ {Produced(s)} /\ Input(k) # Input(i)
        BY <3>1, <3>3, PlaceFacts, Heads
      <4> QED
        BY <1>4, <4>1, <4>2
    <3> QED
      BY <3>2, <3>3
  <2> QED
    BY <2>1 DEF TakenIsInHand
<1>11. ElsewhereIsEmpty'
  <2>1. \A p \in CallerPlaces : p \in Places \ {Produced(s)} /\ p # Input(i) /\ holds[p] = {}
    BY <1>1, NodeFacts, PlaceFacts, Heads
  <2> QED
    BY <1>0, <1>1, <1>2, <1>4, <2>1 DEF ElsewhereIsEmpty
<1>12. NoneLostYet'
  <2>1. Lost \in Places \ {Produced(s)} /\ Lost # Input(i)
    BY PlaceFacts, Heads
  <2> QED
    BY <1>0, <1>2, <1>4, <2>1 DEF EvalInductive, NoneLostYet
<1>13. EvalTypeOK'
  BY <1>0, <1>1, <1>2, <1>4, <1>7 DEF EvalTypeOK, Evaluating
<1>14. JustBegun' /\ WantedIsMade'
  BY <1>0, <1>1 DEF EvalInductive, JustBegun, WantedIsMade
<1>15. NothingInTheWay'
  <2>1. \A n \in NodesOf(graph) : /\ Store(n) \in Places \ {Produced(s)}
                                  /\ Store(n) # Input(i)
    BY PlaceFacts, Heads
  <2>2. \A k \in 1..MaxOutputs : /\ Output(k) \in Places \ {Produced(s)}
                                 /\ Output(k) # Input(i)
    BY PlaceFacts, Heads
  <2>3. /\ \A n \in NodesOf(graph) : holds'[Store(n)] \subseteq holds[Store(n)]
        /\ \A k \in 1..MaxOutputs : holds'[Output(k)] \subseteq holds[Output(k)]
    BY <1>4, <2>1, <2>2
  <2> QED
    BY <1>0, <1>1, <2>3, WayStaysClear
<1> QED
  BY <1>4, <1>7, <1>9, <1>10, <1>11, <1>12, <1>13, <1>14, <1>15 DEF EvalInductive

LEMMA CopyInputStep ==
    ASSUME EvalInductive, NEW i, CopyInput(i)
    PROVE  EvalInductive'
<1> DEFINE s == Source(i)
<1>0. /\ Wants(i) /\ i \in Connected(at) /\ ~LastUse(s)
      /\ Acquire(Whole(TypeOf(graph, s)), Input(i))
      /\ remaining' = [remaining EXCEPT ![s] = @ - 1]
      /\ taken' = taken \cup {i}
      /\ UNCHANGED <<graph, phase, at, turn, failures, full, settled>>
  BY DEF CopyInput
<1>1. /\ phase = "inputs" /\ Evaluating /\ i \in Connected(at) \ taken
      /\ i \in 1..MaxInputs /\ Input(i) \in NodePlaces
      /\ s \in Sockets(graph) /\ s[1] < at /\ TypeOf(graph, s) \in Types
      /\ remaining[s] \in Nat \ {0}
  BY <1>0, WantedInput
<1>2. /\ EvalTypeOK /\ OneOwner /\ Numbered /\ RemainingIsExact
      /\ graph \in Graphs /\ remaining \in [Sockets(graph) -> Nat] /\ Result' = Result
  BY <1>0, <1>1, NodeFacts, GraphStays DEF EvalInductive
<1>3. Fresh(Whole(TypeOf(graph, s))) /\ Whole(TypeOf(graph, s)) # {}
  BY <1>1, <1>2, WholeIsFresh
<1>4. /\ holds' \in [Places' -> SUBSET Textures] /\ allocated' \in [Shapes -> Nat]
      /\ OneOwner' /\ AllOwned' /\ Numbered' /\ NoneLostYet'
      /\ \A n \in NodesOf(graph) : holds'[Store(n)] \subseteq holds[Store(n)]
      /\ \A t \in Sockets(graph) : holds'[Produced(t)] = holds[Produced(t)]
      /\ \A p \in NodePlaces : p # Input(i) => holds'[p] = holds[p]
      /\ holds'[Input(i)] = holds[Input(i)] \cup Whole(TypeOf(graph, s))
      /\ \A p \in CallerPlaces' : holds'[p] = {}
  <2>1. UNCHANGED <<graph, failures>>
    BY <1>0
  <2> QED
    BY <1>0, <1>1, <1>3, <2>1, NodeAcquires
<1>5. RemainingIsExact' /\ remaining' \in [Sockets(graph) -> Nat]
  BY <1>0, <1>1, <1>2, TakingCounts
<1>6. /\ remaining[s] > 1 /\ remaining'[s] = remaining[s] - 1
      /\ \A t \in Sockets(graph) \ {s} : remaining'[t] = remaining[t]
  BY <1>0, <1>1, <1>2 DEF LastUse
<1>7. NothingKeptInVain' /\ UsedIsThere'
  <2>1. NothingKeptInVain /\ UsedIsThere
    BY DEF EvalInductive
  <2>2. \A t \in Sockets(graph) : remaining'[t] > 0 <=> remaining[t] > 0
    BY <1>1, <1>2, <1>6
  <2>3. \A t \in Sockets(graph) :
            /\ holds'[Produced(t)] # {} => (t = Result \/ remaining'[t] > 0) /\ t[1] < at
            /\ t[1] < at /\ remaining'[t] > 0 => holds'[Produced(t)] # {}
    BY <1>1, <1>4, <2>1, <2>2 DEF NothingKeptInVain, UsedIsThere, IsWanted
  <2> QED
    BY <1>0, <1>2, <2>3 DEF NothingKeptInVain, UsedIsThere, IsWanted
<1>8. TakenIsInHand'
  <2>1. ASSUME NEW k \in taken'
        PROVE  holds'[Input(k)] # {}
    <3>1. k \in 1..MaxInputs
      BY <1>0, <1>1, <1>2, <2>1 DEF EvalTypeOK
    <3>2. CASE k = i
      BY <1>3, <1>4, <3>2
    <3>3. CASE k # i
      <4>1. holds[Input(k)] # {}
        BY <1>0, <1>1, <2>1, <3>3 DEF EvalInductive, TakenIsInHand
      <4>2. Input(k) \in NodePlaces /\ Input(k) # Input(i)
        BY <3>1, <3>3, PlaceFacts, Heads
      <4> QED
        BY <1>4, <4>1, <4>2
    <3> QED
      BY <3>2, <3>3
  <2> QED
    BY <2>1 DEF TakenIsInHand
<1>9. EvalTypeOK'
  BY <1>0, <1>1, <1>2, <1>4, <1>5 DEF EvalTypeOK, Evaluating
<1>10. JustBegun' /\ WantedIsMade' /\ ElsewhereIsEmpty'
  BY <1>0, <1>1, <1>4 DEF EvalInductive, JustBegun, WantedIsMade, ElsewhereIsEmpty
<1>11. NothingInTheWay'
  <2>1. \A k \in 1..MaxOutputs : Output(k) \in NodePlaces /\ Output(k) # Input(i)
    BY PlaceFacts, Heads
  <2>2. \A k \in 1..MaxOutputs : holds'[Output(k)] \subseteq holds[Output(k)]
    BY <1>4, <2>1
  <2> QED
    BY <1>0, <1>1, <1>4, <2>2, WayStaysClear
<1> QED
  BY <1>4, <1>5, <1>7, <1>8, <1>9, <1>10, <1>11 DEF EvalInductive

\* What is at one of the node's places is among what it holds.
LEMMA HeldByNode ==
    /\ \A p \in NodePlaces : holds[p] \subseteq Contents(NodePlaces)
    /\ DroppedWithState \subseteq Contents(NodePlaces)
    /\ Contents(OutputPlaces) \subseteq Contents(NodePlaces)
<1>1. \A p \in NodePlaces : holds[p] \subseteq Contents(NodePlaces)
  BY DEF Contents
<1>2. DroppedWithState \subseteq Contents(NodePlaces)
  BY <1>1, PlaceFacts DEF DroppedWithState
<1>3. Contents(OutputPlaces) \subseteq Contents(NodePlaces)
  BY PlaceFacts DEF Contents
<1> QED
  BY <1>1, <1>2, <1>3

LEMMA CopyInputFailsStep ==
    ASSUME EvalInductive, NEW i, CopyInputFails(i)
    PROVE  EvalInductive'
<1>0. Wants(i) /\ i \in Connected(at)
  BY DEF CopyInputFails
<1>1. Evaluating /\ TypeOf(graph, Source(i)) \in Types
  BY <1>0, WantedInput
<1>2. PICK n \in FailedCopies(TypeOf(graph, Source(i))) :
          Fail(First(n, TypeOf(graph, Source(i))),
               First(n, TypeOf(graph, Source(i))) \cup DroppedWithState)
  BY DEF CopyInputFails
<1>3. n \in 0..Len(ShapesOf[TypeOf(graph, Source(i))])
  BY DEF FailedCopies
<1>4. Fresh(First(n, TypeOf(graph, Source(i))))
  BY <1>1, <1>3, NodeFacts, FirstIsFresh
<1>5. First(n, TypeOf(graph, Source(i))) \cup DroppedWithState
          \subseteq First(n, TypeOf(graph, Source(i))) \cup Contents(NodePlaces)
  BY HeldByNode
<1> QED
  BY <1>1, <1>2, <1>4, <1>5, ErrStep DEF Fail

LEMMA MissingInputStep ==
    ASSUME EvalInductive, NEW i, MissingInput(i)
    PROVE  EvalInductive'
<1>0. /\ Wants(i) /\ (i \in Connected(at) => holds[Produced(Source(i))] = {})
      /\ Err({}, DroppedWithState) /\ failures' = failures
      /\ phase = "inputs" /\ Evaluating /\ i \in Takes(at) /\ i \notin taken
  BY DEF MissingInput, Wants, StillToTake, Evaluating
<1>1. i \notin Connected(at)
  BY <1>0, InputsAreThere DEF NeverStarved
<1>2. Kind = "accumulate" => ~SumsAreFed
  <2>1. at \in NodesOf(graph) /\ (i \in Inputs(graph, at) \/ graph.kind[at] = "pick_second")
    BY <1>0, NodeFacts DEF Takes
  <2> QED
    BY <1>1, <2>1, NodeFacts DEF SumsAreFed, Kind
<1>3. DroppedWithState = {} \/ ~SumsAreFed
  BY <1>2 DEF DroppedWithState
<1>4. DroppedWithState \subseteq {} \cup Contents(NodePlaces)
  BY HeldByNode
<1> QED
  BY <1>0, <1>3, <1>4, NothingIsFresh, ErrStep

\* An identity node has the input that it hands on.
LEMMA PassedInput ==
    ASSUME EvalInductive, Ready, PassesOn(at)
    PROVE  /\ Len(OutputTypes[Kind]) = 1 /\ PassedOn[Kind] \in 1..MaxInputs
           /\ holds[Input(PassedOn[Kind])] # {}
<1>1. phase = "inputs" /\ Evaluating /\ Takes(at) \subseteq taken
  BY DEF Ready, Evaluating
<1>2. Kind \in Kinds /\ at \in NodesOf(graph) /\ graph \in Graphs /\ Kind = graph.kind[at]
  BY <1>1, NodeFacts DEF Kind
<1>3. /\ Len(OutputTypes[Kind]) = 1 /\ PassedOn[Kind] \in Inputs(graph, at)
      /\ Optional[Kind] = {} /\ (Kind = "pick_second" => PassedOn[Kind] = 2)
  BY <1>2, KindTables DEF PassesOn, Inputs
<1>4. PassedOn[Kind] \in Takes(at)
  BY <1>2, <1>3 DEF Takes
<1>5. PassedOn[Kind] \in 1..MaxInputs
  BY <1>2, <1>3, GraphFacts
<1> QED
  BY <1>1, <1>3, <1>4, <1>5 DEF EvalInductive, TakenIsInHand

LEMMA ComputeStep ==
    ASSUME EvalInductive, Compute
    PROVE  EvalInductive'
<1>0. /\ Ready /\ phase = "inputs" /\ Evaluating /\ Evaluating' /\ turn = 1
      /\ phase' = IF PassesOn(at) THEN "publish" ELSE "outputs"
      /\ UNCHANGED <<graph, at, taken, turn, remaining, failures, full, settled>>
      /\ phase' \in {"publish", "outputs"}
  BY DEF EvalInductive, JustBegun, Compute, Ready, Evaluating
<1>1. /\ Kind \in Kinds /\ graph \in Graphs /\ Kind = graph.kind[at] /\ Kept \in NodePlaces
  BY <1>0, NodeFacts DEF Kind
<1>2. /\ holds' \in [Places' -> SUBSET Textures] /\ allocated' \in [Shapes -> Nat]
      /\ OneOwner' /\ AllOwned' /\ Numbered' /\ NoneLostYet'
      /\ \A n \in NodesOf(graph) : holds'[Store(n)] \subseteq holds[Store(n)]
      /\ \A j \in 1..MaxOutputs : holds'[Output(j)] \subseteq holds[Output(j)]
                                  \/ (PassesOn(at) /\ j = 1)
      /\ \A s \in Sockets(graph) : holds'[Produced(s)] = holds[Produced(s)]
      /\ \A p \in CallerPlaces' : holds'[p] = {}
      /\ PassesOn(at) => Len(OutputTypes[Kind]) = 1 /\ holds'[Output(1)] # {}
  <2>0. /\ \A j \in 1..MaxOutputs : Output(j) \in NodePlaces /\ Output(j) # Kept
        /\ \A i, j : Output(j) # Input(i) /\ (i # j => Output(i) # Output(j))
    BY PlaceFacts, Heads
  <2>1. CASE OneLoad
    <3>1. "field" \in Types /\ ~PassesOn(at)
      BY <1>1, <2>1, KindTables DEF Types, OneLoad, PassesOn
    <3>2. Fresh(Whole("field"))
      BY <1>0, <3>1, NodeFacts, WholeIsFresh
    <3>3. Acquire(Whole("field"), Kept) /\ UNCHANGED <<graph, failures>>
      BY <1>0, <2>1 DEF Compute
    <3> DEFINE got == Whole("field")
    <3> HIDE DEF got
    <3>4. /\ holds' \in [Places' -> SUBSET Textures] /\ allocated' \in [Shapes -> Nat]
          /\ OneOwner' /\ AllOwned' /\ Numbered' /\ NoneLostYet'
          /\ \A n \in NodesOf(graph) : holds'[Store(n)] \subseteq holds[Store(n)]
          /\ \A s \in Sockets(graph) : holds'[Produced(s)] = holds[Produced(s)]
          /\ \A p \in NodePlaces : p # Kept => holds'[p] = holds[p]
          /\ \A p \in CallerPlaces' : holds'[p] = {}
      BY <1>0, <1>1, <3>2, <3>3, NodeAcquires DEF got
    <3> QED
      BY <2>0, <3>1, <3>4
  <2>2. CASE ~OneLoad /\ Kind = "accumulate"
    <3>1. ~PassesOn(at)
      BY <1>1, <2>2, KindTables DEF PassesOn, StateType
    <3>2. holds' = Moved({Input(1)}, Pool) /\ UNCHANGED <<graph, allocated, failures>>
      BY <1>0, <2>2, <3>1 DEF Compute, DoneWith
    <3>3. Input(1) \in NodePlaces /\ Input(1) # Pool
      BY PlaceFacts, Heads DEF MaxInputs
    <3> DEFINE from == Input(1)
    <3>4. from \in NodePlaces /\ from # Pool /\ holds' = Moved({from}, Pool)
      BY <3>2, <3>3
    <3>5. \A j \in 1..MaxOutputs : Output(j) # from /\ Output(j) # Pool
      BY PlaceFacts, Heads
    <3> HIDE DEF from
    <3>6. /\ holds' \in [Places' -> SUBSET Textures] /\ allocated' \in [Shapes -> Nat]
          /\ OneOwner' /\ AllOwned' /\ Numbered' /\ NoneLostYet'
          /\ \A n \in NodesOf(graph) : holds'[Store(n)] \subseteq holds[Store(n)]
          /\ \A s \in Sockets(graph) : holds'[Produced(s)] = holds[Produced(s)]
          /\ \A p \in NodePlaces : p # Pool /\ p # from => holds'[p] = holds[p]
          /\ \A p \in CallerPlaces' : holds'[p] = {}
      BY <1>0, <3>2, <3>4, NodeMoves
    <3> QED
      BY <2>0, <3>1, <3>5, <3>6
  <2>3. CASE ~OneLoad /\ PassesOn(at)
    <3>1. Kind # "accumulate"
      BY <1>1, <2>3, KindTables DEF PassesOn, StateType
    <3> DEFINE from == Input(PassedOn[Kind])
    <3>2. holds' = Moved({from}, Output(1)) /\ UNCHANGED <<graph, allocated, failures>>
      BY <1>0, <2>3, <3>1 DEF Compute
    <3>3. from \in NodePlaces /\ Output(1) \in NodePlaces /\ from # Output(1)
      BY <1>0, <2>3, PassedInput, PlaceFacts, Heads DEF MaxOutputs
    <3>4. holds[from] # {} /\ Len(OutputTypes[Kind]) = 1
      BY <1>0, <2>3, PassedInput
    <3> HIDE DEF from
    <3>5. /\ holds' \in [Places' -> SUBSET Textures] /\ allocated' \in [Shapes -> Nat]
          /\ OneOwner' /\ AllOwned' /\ Numbered' /\ NoneLostYet'
          /\ \A n \in NodesOf(graph) : holds'[Store(n)] \subseteq holds[Store(n)]
          /\ \A p \in NodePlaces : p # Output(1) /\ p # from => holds'[p] = holds[p]
          /\ holds'[from] = {}
          /\ \A s \in Sockets(graph) : holds'[Produced(s)] = holds[Produced(s)]
          /\ holds'[Output(1)] = holds[Output(1)] \cup holds[from]
          /\ \A p \in CallerPlaces' : holds'[p] = {}
      BY <1>0, <3>2, <3>3, NodeMoves
    <3>6. \A j \in 1..MaxOutputs : Output(j) \in NodePlaces /\ Output(j) # from
      BY <2>0 DEF from
    <3>7. \A j \in 1..MaxOutputs : holds'[Output(j)] \subseteq holds[Output(j)] \/ j = 1
      BY <2>0, <3>5, <3>6
    <3> QED
      BY <2>3, <3>4, <3>5, <3>7
  <2>4. CASE ~OneLoad /\ Kind # "accumulate" /\ ~PassesOn(at)
    <3>1. holds' = holds /\ allocated' = allocated
      BY <2>4 DEF Compute
    <3>2. /\ Places' = Places /\ CallerPlaces' = CallerPlaces /\ SumsAreFed' = SumsAreFed
      BY <1>0, GraphStays
    <3> QED
      BY <1>0, <2>4, <3>1, <3>2, NodeFacts
      DEF EvalInductive, OneOwner, AllOwned, Contents, Numbered, NoneLostYet
  <2> QED
    BY <2>1, <2>2, <2>3, <2>4
<1>3. RemainingIsExact' /\ NothingKeptInVain' /\ UsedIsThere'
  BY <1>0, <1>2, ValuesStay
<1>4. EvalTypeOK'
  BY <1>0, <1>2 DEF EvalInductive, EvalTypeOK, Evaluating
<1>5. JustBegun' /\ TakenIsInHand' /\ ElsewhereIsEmpty'
  BY <1>0, <1>2 DEF JustBegun, TakenIsInHand, ElsewhereIsEmpty
<1>6. WantedIsMade'
  <2>1. Kind' = Kind
    BY <1>0 DEF Kind
  <2>2. phase' = "outputs" => turn' = 1
    BY <1>0
  <2>3. ASSUME NEW j \in 1..Len(OutputTypes[Kind]), phase' = "outputs" => j < turn'
        PROVE  holds'[Output(j)] # {}
    <3>1. phase' # "outputs"
      BY <2>2, <2>3
    <3>2. PassesOn(at)
      BY <1>0, <3>1
    <3>3. j = 1
      <4> DEFINE c == Len(OutputTypes[Kind])
      <4>1. c = 1 /\ j \in 1..c
        BY <1>2, <2>3, <3>2
      <4> HIDE DEF c
      <4> QED
        BY <4>1
    <3> QED
      BY <1>2, <3>2, <3>3
  <2> QED
    BY <2>1, <2>3 DEF WantedIsMade
<1>7. NothingInTheWay'
  <2> DEFINE c == Len(OutputTypes[Kind])
  <2>1. c \in Nat /\ (PassesOn(at) => c = 1)
    <3>1. c \in 1..MaxOutputs
      BY <1>1, KindTables
    <3> QED
      BY <1>2, <3>1
  <2> HIDE DEF c
  <2>2. \A j \in 1..MaxOutputs : j > c => holds'[Output(j)] \subseteq holds[Output(j)]
    BY <1>2, <2>1 DEF MaxOutputs
  <2> QED
    BY <1>0, <1>2, <2>2, WayStaysClear DEF c
<1> QED
  BY <1>2, <1>3, <1>4, <1>5, <1>6, <1>7 DEF EvalInductive

LEMMA ComputeFailsStep ==
    ASSUME EvalInductive, ComputeFails
    PROVE  EvalInductive'
<1>0. phase = "inputs" /\ Evaluating
  BY DEF ComputeFails, Ready, Evaluating
<1>1. CASE Fail({}, {})
  BY <1>0, <1>1, NothingIsFresh, ErrStep DEF Fail
<1>2. CASE \E n \in FailedCopies("field") : Fail(First(n, "field"), First(n, "field"))
  <2>1. PICK n \in FailedCopies("field") : Fail(First(n, "field"), First(n, "field"))
    BY <1>2
  <2>2. n \in 0..Len(ShapesOf["field"]) /\ "field" \in Types
    BY DEF FailedCopies, Types
  <2>3. Fresh(First(n, "field"))
    BY <1>0, <2>2, NodeFacts, FirstIsFresh
  <2> QED
    BY <1>0, <2>1, <2>3, ErrStep DEF Fail
<1> QED
  BY <1>1, <1>2 DEF ComputeFails

\* The output that a node makes next.
LEMMA MadeNext ==
    ASSUME EvalInductive, phase = "outputs", turn <= Len(OutputTypes[Kind])
    PROVE  /\ Evaluating /\ turn \in 1..Len(OutputTypes[Kind]) /\ turn \in 1..MaxOutputs
           /\ OutputTypes[Kind][turn] \in Types /\ Output(turn) \in NodePlaces
<1> DEFINE c == Len(OutputTypes[Kind])
<1>1. Evaluating /\ turn \in 1..(MaxOutputs + 1)
  BY DEF Evaluating, EvalInductive, EvalTypeOK
<1>2. OutputTypes[Kind] \in Seq(Types) /\ c \in 1..MaxOutputs /\ turn <= c
  BY <1>1, NodeFacts, KindTables
<1> HIDE DEF c
<1>3. turn \in 1..c /\ turn \in 1..MaxOutputs
  BY <1>1, <1>2 DEF MaxOutputs
<1>4. OutputTypes[Kind][turn] \in Types
  BY <1>2, <1>3 DEF c
<1> QED
  BY <1>1, <1>3, <1>4, PlaceFacts DEF c

LEMMA MakeOutputStep ==
    ASSUME EvalInductive, MakeOutput
    PROVE  EvalInductive'
<1>0. /\ phase = "outputs" /\ turn <= Len(OutputTypes[Kind]) /\ turn' = turn + 1
      /\ UNCHANGED <<graph, phase, at, taken, remaining, failures, full, settled>>
  BY DEF MakeOutput, Making, NextOutput
<1>1. /\ Evaluating /\ Evaluating' /\ turn \in 1..Len(OutputTypes[Kind])
      /\ turn \in 1..MaxOutputs
      /\ OutputTypes[Kind][turn] \in Types /\ Output(turn) \in NodePlaces
  BY <1>0, MadeNext DEF Evaluating
<1>2. /\ holds' \in [Places' -> SUBSET Textures] /\ allocated' \in [Shapes -> Nat]
      /\ OneOwner' /\ AllOwned' /\ Numbered' /\ NoneLostYet'
      /\ \A n \in NodesOf(graph) : holds'[Store(n)] \subseteq holds[Store(n)]
      /\ \A s \in Sockets(graph) : holds'[Produced(s)] = holds[Produced(s)]
      /\ \A p \in NodePlaces : p # Output(turn) => holds'[p] = holds[p]
      /\ \A p \in CallerPlaces' : holds'[p] = {}
      /\ IsWanted(<<at, turn>>) => holds'[Output(turn)] # {}
  <2>1. CASE Placeholder
    <3>1. holds' = holds /\ allocated' = allocated /\ ~IsWanted(<<at, turn>>)
      BY <2>1 DEF MakeOutput, Placeholder
    <3>2. Places' = Places /\ CallerPlaces' = CallerPlaces /\ SumsAreFed' = SumsAreFed
      BY <1>0, GraphStays
    <3> QED
      BY <1>0, <1>1, <3>1, <3>2, NodeFacts
      DEF EvalInductive, OneOwner, AllOwned, Contents, Numbered, NoneLostYet
  <2>2. CASE ~Placeholder
    <3> DEFINE got == Whole(OutputTypes[Kind][turn])
    <3>1. Fresh(got) /\ got # {}
      BY <1>1, NodeFacts, WholeIsFresh
    <3>2. Acquire(got, Output(turn)) /\ UNCHANGED <<graph, failures>>
      BY <1>0, <2>2 DEF MakeOutput
    <3> HIDE DEF got
    <3>3. /\ holds' \in [Places' -> SUBSET Textures] /\ allocated' \in [Shapes -> Nat]
          /\ OneOwner' /\ AllOwned' /\ Numbered' /\ NoneLostYet'
          /\ \A n \in NodesOf(graph) : holds'[Store(n)] \subseteq holds[Store(n)]
          /\ \A s \in Sockets(graph) : holds'[Produced(s)] = holds[Produced(s)]
          /\ \A p \in NodePlaces : p # Output(turn) => holds'[p] = holds[p]
          /\ holds'[Output(turn)] = holds[Output(turn)] \cup got
          /\ \A p \in CallerPlaces' : holds'[p] = {}
      BY <1>1, <3>1, <3>2, NodeAcquires
    <3> QED
      BY <3>1, <3>3
  <2> QED
    BY <2>1, <2>2
<1>3. RemainingIsExact' /\ NothingKeptInVain' /\ UsedIsThere'
  BY <1>0, <1>1, <1>2, ValuesStay
<1>4. EvalTypeOK'
  <2>1. turn' \in 1..(MaxOutputs + 1)
    BY <1>0, <1>1 DEF MaxOutputs
  <2> QED
    BY <1>0, <1>1, <1>2, <2>1 DEF EvalInductive, EvalTypeOK, Evaluating
<1>5. JustBegun' /\ TakenIsInHand' /\ ElsewhereIsEmpty'
  BY <1>0, <1>2 DEF JustBegun, TakenIsInHand, ElsewhereIsEmpty
<1>6. WantedIsMade'
  <2>1. Kind' = Kind /\ Result' = Result
    BY <1>0, GraphStays DEF Kind
  <2> DEFINE c == Len(OutputTypes[Kind])
  <2>2. c \in 1..MaxOutputs
    BY <1>1, NodeFacts, KindTables
  <2>3. ASSUME NEW j \in 1..c, j < turn + 1, IsWanted(<<at, j>>)
        PROVE  holds'[Output(j)] # {}
    <3>1. CASE j = turn
      BY <1>2, <2>3, <3>1
    <3>2. CASE j # turn
      <4> HIDE DEF c
      <4>1. j < turn /\ j \in 1..MaxOutputs
        BY <1>1, <2>2, <2>3, <3>2 DEF MaxOutputs
      <4>2. holds[Output(j)] # {}
        BY <1>0, <2>3, <4>1 DEF EvalInductive, WantedIsMade, c
      <4>3. Output(j) \in NodePlaces /\ Output(j) # Output(turn)
        BY <3>2, <4>1, PlaceFacts, Heads
      <4> QED
        BY <1>2, <4>2, <4>3
    <3> QED
      BY <3>1, <3>2
  <2>4. \A j \in 1..c : j < turn' /\ (<<at, j>> = Result \/ remaining[<<at, j>>] > 0)
                        => holds'[Output(j)] # {}
    BY <1>0, <2>3 DEF IsWanted
  <2> QED
    BY <1>0, <2>1, <2>4 DEF WantedIsMade, IsWanted
<1>7. NothingInTheWay'
  <2> DEFINE c == Len(OutputTypes[Kind])
  <2>1. c \in 1..MaxOutputs /\ turn \in 1..c
    BY <1>1, NodeFacts, KindTables
  <2> HIDE DEF c
  <2>2. ASSUME NEW j \in 1..MaxOutputs, j > c
        PROVE  holds'[Output(j)] \subseteq holds[Output(j)]
    <3>1. j # turn
      BY <2>1, <2>2 DEF MaxOutputs
    <3>2. Output(j) \in NodePlaces /\ Output(j) # Output(turn)
      BY <3>1, PlaceFacts, Heads
    <3> QED
      BY <1>2, <3>2
  <2> QED
    BY <1>0, <1>2, <2>2, WayStaysClear DEF c
<1> QED
  BY <1>2, <1>3, <1>4, <1>5, <1>6, <1>7 DEF EvalInductive

LEMMA AcquireOutputFailsStep ==
    ASSUME EvalInductive, AcquireOutputFails
    PROVE  EvalInductive'
<1> DEFINE type == OutputTypes[Kind][turn]
<1>1. Evaluating /\ type \in Types
  BY MadeNext DEF AcquireOutputFails, Making
<1>2. PICK n : /\ n \in FailedCopies(type) \/ n \in FailedAcquires(type)
               /\ Fail(First(n, type), First(n, type))
  BY DEF AcquireOutputFails
<1> HIDE DEF type
<1> DEFINE m == Len(ShapesOf[type])
<1>3. m \in Nat /\ (n \in 0..m \/ n \in 0..(m - 1))
  BY <1>1, <1>2, ShapeTables DEF FailedCopies, FailedAcquires
<1> HIDE DEF m
<1>4. n \in 0..m
  BY <1>3
<1>5. Fresh(First(n, type))
  BY <1>1, <1>4, NodeFacts, FirstIsFresh DEF m
<1> QED
  BY <1>1, <1>2, <1>5, ErrStep DEF Fail

LEMMA CopyOutputFailsStep ==
    ASSUME EvalInductive, CopyOutputFails
    PROVE  EvalInductive'
<1> DEFINE type == OutputTypes[Kind][turn]
<1>1. Evaluating /\ type \in Types
  BY MadeNext DEF CopyOutputFails, Making
<1>2. PICK n \in FailedCopies(type) :
          LET got == First(n, type)
          IN \/ Fail(got, (IF n = 0 THEN {} ELSE got \ First(n - 1, type))
                              \cup DroppedWithState)
             \/ /\ n > 0 /\ n < Len(ShapesOf[type]) /\ Exhausted(ShapesOf[type][n + 1])
                /\ Fail(got, DroppedWithState)
  BY DEF CopyOutputFails
<1> HIDE DEF type
<1>3. PICK gone : gone \subseteq First(n, type) \cup DroppedWithState /\ Fail(First(n, type), gone)
  BY <1>2
<1>4. n \in 0..Len(ShapesOf[type])
  BY DEF FailedCopies
<1>5. Fresh(First(n, type))
  BY <1>1, <1>4, NodeFacts, FirstIsFresh
<1>6. gone \subseteq First(n, type) \cup Contents(NodePlaces)
  BY <1>3, HeldByNode
<1> QED
  BY <1>1, <1>3, <1>5, <1>6, ErrStep DEF Fail

LEMMA FillFailsStep ==
    ASSUME EvalInductive, FillFails
    PROVE  EvalInductive'
<1>1. Evaluating
  BY DEF FillFails, Evaluating
<1>2. PICK gone : gone \subseteq Contents(NodePlaces) /\ Fail({}, gone)
  BY HeldByNode DEF FillFails
<1>3. gone \subseteq {} \cup Contents(NodePlaces)
  BY <1>2
<1> QED
  BY <1>1, <1>2, <1>3, NothingIsFresh, ErrStep DEF Fail

LEMMA MadeStep ==
    ASSUME EvalInductive, Made
    PROVE  EvalInductive'
<1>0. /\ phase = "outputs" /\ phase' = "publish" /\ Evaluating /\ Evaluating'
      /\ turn > Len(OutputTypes[Kind])
      /\ UNCHANGED <<graph, at, taken, turn, remaining, holds, allocated,
                     failures, full, settled>>
  BY DEF Made, Evaluating
<1>1. /\ Places' = Places /\ CallerPlaces' = CallerPlaces /\ SumsAreFed' = SumsAreFed
      /\ Result' = Result /\ Kind' = Kind
  BY <1>0, GraphStays DEF Kind
<1>2. RemainingIsExact' /\ NothingKeptInVain' /\ UsedIsThere'
  BY <1>0, ValuesStay
<1>3. EvalTypeOK'
  BY <1>0, <1>1 DEF EvalInductive, EvalTypeOK, Evaluating
<1>4. OneOwner' /\ AllOwned' /\ Numbered' /\ NoneLostYet'
  BY <1>0, <1>1 DEF EvalInductive, OneOwner, AllOwned, Contents, Numbered, NoneLostYet
<1>5. JustBegun' /\ TakenIsInHand' /\ ElsewhereIsEmpty'
  BY <1>0, <1>1 DEF EvalInductive, JustBegun, TakenIsInHand, ElsewhereIsEmpty
<1>6. WantedIsMade'
  <2> DEFINE c == Len(OutputTypes[Kind])
  <2>1. c \in 1..MaxOutputs /\ turn > c /\ turn \in Nat
    <3>1. c \in 1..MaxOutputs
      BY <1>0, NodeFacts, KindTables
    <3>2. turn \in 1..(MaxOutputs + 1)
      BY <1>0, NodeFacts DEF EvalTypeOK
    <3>3. turn \in Nat
      BY <3>2 DEF MaxOutputs
    <3> QED
      BY <1>0, <3>1, <3>3
  <2>2. \A j \in 1..c : IsWanted(<<at, j>>) => holds[Output(j)] # {}
    <3> SUFFICES ASSUME NEW j \in 1..c, IsWanted(<<at, j>>)
                 PROVE  holds[Output(j)] # {}
      OBVIOUS
    <3>1. j < turn
      <4> HIDE DEF c
      <4> QED
        BY <2>1 DEF MaxOutputs
    <3> QED
      BY <1>0, <3>1 DEF EvalInductive, WantedIsMade
  <2> QED
    BY <1>0, <1>1, <2>2 DEF WantedIsMade, IsWanted
<1>7. NothingInTheWay'
  BY <1>0, WayStaysClear
<1> QED
  BY <1>2, <1>3, <1>4, <1>5, <1>6, <1>7 DEF EvalInductive

-----------------------------------------------------------------------------
(***************************************************************************)
(* The steps of the frame and of its caller.                               *)
(***************************************************************************)
\* Between nodes, most of the invariant says nothing.
LEMMA OutsideNodes ==
    ASSUME phase' \in {"idle", "deliver", "returned", "failed"}
    PROVE  /\ ~Evaluating'
           /\ RemainingIsExact' /\ NothingKeptInVain' /\ UsedIsThere'
           /\ JustBegun' /\ TakenIsInHand' /\ WantedIsMade' /\ NothingInTheWay'
  BY DEF Evaluating, RemainingIsExact, NothingKeptInVain, UsedIsThere, JustBegun,
         TakenIsInHand, WantedIsMade, NothingInTheWay

LEMMA BeginStep ==
    ASSUME EvalInductive, Begin
    PROVE  EvalInductive'
<1>0. /\ phase = "idle" /\ remaining' = [s \in Sockets(graph) |-> UsesOf(s)]
      /\ at' = 1 /\ taken' = {} /\ turn' = 1
      /\ phase' = IF Stateful(1) THEN "state" ELSE "inputs"
      /\ UNCHANGED <<graph, holds, allocated, failures, settled>>
      /\ full' = (\A n \in NodesOf(graph) : Stateful(n) => holds[Store(n)] # {})
      /\ graph \in Graphs /\ 1 \in NodesOf(graph) /\ EvalTypeOK
  <2>1. graph \in Graphs /\ EvalTypeOK
    BY DEF EvalInductive, EvalTypeOK
  <2> DEFINE c == Len(graph.kind)
  <2>2. NodesOf(graph) = 1..c /\ c \in Nat \ {0}
    BY <2>1, GraphFacts
  <2> HIDE DEF c
  <2>3. 1 \in NodesOf(graph)
    BY <2>2
  <2> QED
    BY <2>1, <2>3 DEF Begin, EnterNode
<1>1. /\ Places' = Places /\ CallerPlaces' = CallerPlaces /\ SumsAreFed' = SumsAreFed
      /\ ProducedPlaces' = ProducedPlaces /\ NodePlaces' = NodePlaces /\ Result' = Result
      /\ \A s : Uses(s)' = Uses(s) /\ Extra(s)' = Extra(s)
      /\ Evaluating'
  BY <1>0, GraphStays DEF Evaluating
<1>2. ASSUME NEW s
      PROVE  Pending(s)' = Uses(s)
  <2>1. \A u \in Uses(s) : u[1] \in NodesOf(graph)
    BY <1>0, UsesAreFinite
  <2> DEFINE c == Len(graph.kind)
  <2>2. NodesOf(graph) = 1..c /\ c \in Nat
    BY <1>0, GraphFacts
  <2> HIDE DEF c
  <2>3. \A u \in Uses(s) : u[1] > 1 \/ u[1] = 1
    BY <2>1, <2>2
  <2> QED
    BY <1>0, <1>1, <2>3 DEF Pending
<1>3. ASSUME NEW s
      PROVE  Cardinality(Uses(s)) \in Nat /\ Extra(s) \in {0, 1}
  BY <1>0, UsesAreFinite DEF Extra
<1>4. RemainingIsExact'
  BY <1>0, <1>1, <1>2 DEF RemainingIsExact, UsesOf
<1>5. \A s \in Sockets(graph) : holds[Produced(s)] = {}
  BY <1>0, PlaceFacts DEF EvalInductive, ElsewhereIsEmpty
<1>6. NothingKeptInVain'
  BY <1>0, <1>5 DEF NothingKeptInVain
<1>7. UsedIsThere'
  <2> DEFINE c == Len(graph.kind)
  <2>1. \A s \in Sockets(graph) : s[1] \in 1..c
    BY <1>0, GraphFacts
  <2>2. c \in Nat
    BY <1>0, GraphFacts
  <2> HIDE DEF c
  <2>3. \A s \in Sockets(graph) : ~(s[1] < 1)
    BY <2>1, <2>2
  <2> QED
    BY <1>0, <2>3 DEF UsedIsThere
<1>8. JustBegun' /\ TakenIsInHand' /\ WantedIsMade'
  BY <1>0 DEF JustBegun, TakenIsInHand, WantedIsMade, Stateful
<1>9. ElsewhereIsEmpty'
  BY <1>0, <1>1 DEF EvalInductive, ElsewhereIsEmpty
<1>10. NoneLostYet' /\ Numbered' /\ OneOwner' /\ AllOwned'
  BY <1>0, <1>1 DEF EvalInductive, NoneLostYet, Numbered, OneOwner, AllOwned, Contents
<1>11. EvalTypeOK'
  <2>1. remaining' \in [Sockets(graph) -> Nat]
    <3>1. \A s \in Sockets(graph) : UsesOf(s) \in Nat
      BY <1>3 DEF UsesOf
    <3> QED
      BY <1>0, <3>1
  <2>2. full' \in BOOLEAN
    BY <1>0
  <2>3. at' \in 1..(Len(graph.kind) + 1)
    <3> DEFINE c == Len(graph.kind)
    <3>1. c \in Nat
      BY <1>0, GraphFacts
    <3> HIDE DEF c
    <3>2. 1 \in 1..(c + 1)
      BY <3>1
    <3> QED
      BY <1>0, <3>2 DEF c
  <2>4. turn' \in 1..(MaxOutputs + 1) /\ taken' \subseteq 1..MaxInputs
    BY <1>0 DEF MaxOutputs
  <2> QED
    BY <1>0, <1>1, <2>1, <2>2, <2>3, <2>4 DEF EvalTypeOK
<1>12. NothingInTheWay'
  <2>1. \A p \in NodePlaces : holds[p] = {}
    BY <1>0 DEF EvalInductive, ElsewhereIsEmpty
  <2>2. \A j \in 1..MaxOutputs : Output(j) \in NodePlaces
    BY PlaceFacts
  <2>3. phase' = "inputs" => ~Stateful(1)
    BY <1>0
  <2>4. Stateful(at)' = Stateful(1)
    BY <1>0 DEF Stateful
  <2> QED
    BY <1>0, <2>1, <2>2, <2>3, <2>4 DEF NothingInTheWay
<1> QED
  BY <1>4, <1>6, <1>7, <1>8, <1>9, <1>10, <1>11, <1>12 DEF EvalInductive

\* Everything at the places from goes to the pool, and evaluation is over.
LEMMA DrainingStep ==
    ASSUME EvalInductive, phase \in {"idle", "returned", "failed"}, phase' = "idle",
           NEW from, from \subseteq ProducedPlaces \cup CallerPlaces \cup StorePlaces,
           holds' = Moved(from, Pool),
           phase = "returned" => CallerPlaces \subseteq from,
           phase = "failed" => ProducedPlaces \subseteq from,
           UNCHANGED <<graph, at, taken, turn, remaining, allocated, failures, full, settled>>
    PROVE  EvalInductive'
<1>0. /\ EvalTypeOK /\ OneOwner /\ AllOwned /\ Numbered /\ ElsewhereIsEmpty /\ NoneLostYet
      /\ UNCHANGED <<graph, allocated>>
      /\ Places' = Places /\ CallerPlaces' = CallerPlaces /\ SumsAreFed' = SumsAreFed
      /\ ProducedPlaces' = ProducedPlaces /\ NodePlaces' = NodePlaces
  BY GraphStays DEF EvalInductive
<1>1. /\ from \in SUBSET Places /\ Pool \in Places
      /\ \A p \in from : p[1] \in {"produced", "caller", "store"}
  BY PlaceFacts, Heads
<1>2. /\ holds' \in [Places -> SUBSET Textures]
      /\ OneOwner' /\ AllOwned' /\ Numbered'
      /\ \A p \in from \ {Pool} : holds'[p] = {}
      /\ \A p \in Places \ from : p # Pool => holds'[p] = holds[p]
  BY <1>0, <1>1, MovedFacts
<1>3. \A p \in Places : p # Pool => holds'[p] \subseteq holds[p]
  BY <1>2
<1>4. ElsewhereIsEmpty'
  <2>1. \A p \in NodePlaces : holds'[p] = {}
    <3>1. \A p \in NodePlaces : p \in Places /\ p # Pool
      BY PlaceFacts, Heads
    <3> QED
      BY <1>0, <1>3, <3>1 DEF ElsewhereIsEmpty
  <2>2. \A p \in ProducedPlaces : p \in Places /\ p # Pool
    BY PlaceFacts, Heads
  <2>3. \A p \in ProducedPlaces : holds'[p] = {}
    BY <1>0, <1>2, <1>3, <2>2 DEF ElsewhereIsEmpty
  <2>4. \A p \in CallerPlaces : p \in Places /\ p # Pool
    BY PlaceFacts, Heads
  <2>5. \A p \in CallerPlaces : holds'[p] = {}
    BY <1>0, <1>2, <1>3, <2>4 DEF ElsewhereIsEmpty
  <2> QED
    BY <1>0, <2>1, <2>3, <2>5 DEF ElsewhereIsEmpty
<1>5. NoneLostYet'
  <2>1. Lost \in Places /\ Lost # Pool
    BY PlaceFacts, Heads
  <2> QED
    BY <1>0, <1>3, <2>1 DEF NoneLostYet
<1>6. /\ ~Evaluating'
      /\ RemainingIsExact' /\ NothingKeptInVain' /\ UsedIsThere'
      /\ JustBegun' /\ TakenIsInHand' /\ WantedIsMade' /\ NothingInTheWay'
  BY OutsideNodes
<1>7. EvalTypeOK'
  BY <1>0, <1>2, <1>6 DEF EvalTypeOK
<1> QED
  BY <1>2, <1>4, <1>5, <1>6, <1>7 DEF EvalInductive

LEMMA AbortStep ==
    ASSUME EvalInductive, Abort
    PROVE  EvalInductive'
  BY DrainingStep DEF Abort, Drained

LEMMA ReleaseEvaluatedStep ==
    ASSUME EvalInductive, ReleaseEvaluated
    PROVE  EvalInductive'
  BY DrainingStep DEF ReleaseEvaluated

LEMMA ClearStateStep ==
    ASSUME EvalInductive, ClearState
    PROVE  EvalInductive'
  BY DrainingStep DEF ClearState

LEMMA LacksResultStep ==
    ASSUME EvalInductive, LacksResult
    PROVE  EvalInductive'
<1>0. /\ phase = "deliver" /\ phase' = "failed"
      /\ UNCHANGED <<graph, at, taken, turn, remaining, holds, allocated,
                     failures, full, settled>>
  BY DEF LacksResult
<1>1. /\ Places' = Places /\ CallerPlaces' = CallerPlaces /\ SumsAreFed' = SumsAreFed
      /\ NodePlaces' = NodePlaces
  BY <1>0, GraphStays
<1>2. /\ ~Evaluating'
      /\ RemainingIsExact' /\ NothingKeptInVain' /\ UsedIsThere'
      /\ JustBegun' /\ TakenIsInHand' /\ WantedIsMade' /\ NothingInTheWay'
  BY <1>0, OutsideNodes
<1>3. OneOwner' /\ AllOwned' /\ Numbered' /\ NoneLostYet' /\ ElsewhereIsEmpty'
  BY <1>0, <1>1 DEF EvalInductive, OneOwner, AllOwned, Contents, Numbered, NoneLostYet,
                    ElsewhereIsEmpty
<1>4. EvalTypeOK'
  BY <1>0, <1>1, <1>2 DEF EvalInductive, EvalTypeOK
<1> QED
  BY <1>2, <1>3, <1>4 DEF EvalInductive

LEMMA DeliverStep ==
    ASSUME EvalInductive, Deliver
    PROVE  EvalInductive'
<1>0. /\ phase = "deliver" /\ phase' = "returned"
      /\ holds' = [p \in Places |->
            IF p = Pool
            THEN holds[Pool] \cup Contents({Produced(s) : s \in Sockets(graph) \ Returned})
            ELSE IF p \in ProducedPlaces THEN {}
            ELSE IF p[1] = "caller" /\ p[2] \in Returned THEN holds[Produced(p[2])]
            ELSE holds[p]]
      /\ settled' = (settled \/ full)
      /\ UNCHANGED <<graph, at, taken, turn, remaining, allocated, failures, full>>
  BY DEF Deliver
<1>1. /\ EvalTypeOK /\ OneOwner /\ AllOwned /\ Numbered /\ ElsewhereIsEmpty /\ NoneLostYet
      /\ graph \in Graphs /\ UNCHANGED <<graph, allocated>>
      /\ Places' = Places /\ SumsAreFed' = SumsAreFed
      /\ ProducedPlaces' = ProducedPlaces /\ NodePlaces' = NodePlaces
      /\ holds \in [Places -> SUBSET Textures]
  BY <1>0, GraphStays DEF EvalInductive, EvalTypeOK
<1>2. Returned \subseteq Sockets(graph)
  BY <1>1, GraphFacts DEF Returned
<1>3. /\ holds'[Pool] = holds[Pool] \cup Contents({Produced(s) : s \in Sockets(graph) \ Returned})
      /\ \A p \in ProducedPlaces : holds'[p] = {}
      /\ \A s \in Returned : holds'[Caller(s)] = holds[Produced(s)]
      /\ \A p \in Places \ ProducedPlaces : p # Pool
            => holds'[p] = holds[p] \/ (p[1] = "caller" /\ p[2] \in Returned)
      /\ holds'[Lost] = holds[Lost] /\ \A p \in NodePlaces : holds'[p] = holds[p]
  <2>1. \A p \in ProducedPlaces : p \in Places /\ p # Pool
    BY PlaceFacts, Heads
  <2>2. \A s \in Returned : /\ Caller(s) \in Places /\ Caller(s) # Pool
                            /\ Caller(s) \notin ProducedPlaces
                            /\ Caller(s)[1] = "caller" /\ Caller(s)[2] = s
    BY <1>2, PlaceFacts, Heads
  <2>3. /\ Lost \in Places /\ Lost # Pool /\ Lost \notin ProducedPlaces /\ Lost[1] # "caller"
        /\ \A p \in NodePlaces : /\ p \in Places /\ p # Pool
                                 /\ p \notin ProducedPlaces /\ p[1] # "caller"
    BY PlaceFacts, Heads
  <2> QED
    BY <1>0, <2>1, <2>2, <2>3, PlaceFacts
<1> DEFINE dest == [q \in Places |->
                      IF q \in ProducedPlaces
                      THEN IF q[2] \in Returned THEN Caller(q[2]) ELSE Pool
                      ELSE q]
<1>4. ASSUME NEW p \in Places, NEW t \in holds'[p]
      PROVE  \E q \in Places : t \in holds[q] /\ dest[q] = p
  <2>1. CASE p = Pool
    <3>1. t \in holds[Pool] \/ \E s \in Sockets(graph) \ Returned : t \in holds[Produced(s)]
      BY <1>3, <1>4, <2>1 DEF Contents
    <3>2. Pool \in Places /\ Pool \notin ProducedPlaces
      BY PlaceFacts, Heads
    <3>3. \A s \in Sockets(graph) : Produced(s) \in ProducedPlaces /\ Produced(s) \in Places
                                    /\ Produced(s)[2] = s
      BY PlaceFacts, Heads
    <3> QED
      BY <2>1, <3>1, <3>2, <3>3
  <2>2. CASE p # Pool /\ p[1] = "caller" /\ p[2] \in Returned
    <3>1. p \in CallerPlaces
      BY <2>2, PlaceFacts, Heads
    <3>2. p = Caller(p[2])
      BY <3>1, PlaceFacts, Heads
    <3>3. Produced(p[2]) \in ProducedPlaces /\ Produced(p[2]) \in Places
          /\ Produced(p[2])[2] = p[2]
      BY <1>2, <2>2, PlaceFacts, Heads
    <3>4. t \in holds[Produced(p[2])]
      BY <1>3, <1>4, <2>2, <3>2
    <3> QED
      BY <2>2, <3>2, <3>3, <3>4
  <2>3. CASE p # Pool /\ ~(p[1] = "caller" /\ p[2] \in Returned)
    <3>1. p \notin ProducedPlaces /\ t \in holds[p]
      BY <1>3, <1>4, <2>3
    <3> QED
      BY <3>1
  <2> QED
    BY <2>1, <2>2, <2>3
<1> HIDE DEF dest
<1>5. /\ \A p \in Places : holds'[p] \subseteq Textures
      /\ OneOwner' /\ Numbered'
  BY <1>1, <1>4, Moving
<1>6. holds' \in [Places -> SUBSET Textures]
  BY <1>0, <1>5
<1>7. ElsewhereIsEmpty' /\ NoneLostYet'
  BY <1>0, <1>1, <1>3 DEF ElsewhereIsEmpty, NoneLostYet
<1>8. /\ ~Evaluating'
      /\ RemainingIsExact' /\ NothingKeptInVain' /\ UsedIsThere'
      /\ JustBegun' /\ TakenIsInHand' /\ WantedIsMade' /\ NothingInTheWay'
  BY <1>0, OutsideNodes
<1>9. EvalTypeOK'
  <2>1. settled' \in BOOLEAN
    BY <1>0
  <2> QED
    BY <1>0, <1>1, <1>6, <1>8, <2>1 DEF EvalTypeOK
<1>10. AllOwned'
  <2>1. ASSUME NEW q \in Places, NEW t \in holds[q]
        PROVE  \E p \in Places : t \in holds'[p]
    <3>1. CASE q \in ProducedPlaces
      <4>1. PICK s \in Sockets(graph) : q = Produced(s)
        BY <3>1, PlaceFacts
      <4>2. CASE s \in Returned
        <5>1. t \in holds'[Caller(s)] /\ Caller(s) \in Places
          BY <1>3, <2>1, <4>1, <4>2, PlaceFacts
        <5> QED
          BY <5>1
      <4>3. CASE s \notin Returned
        <5>1. t \in Contents({Produced(r) : r \in Sockets(graph) \ Returned})
          BY <2>1, <4>1, <4>3 DEF Contents
        <5>2. t \in holds'[Pool] /\ Pool \in Places
          BY <1>3, <5>1, PlaceFacts
        <5> QED
          BY <5>2
      <4> QED
        BY <4>2, <4>3
    <3>2. CASE q = Pool
      BY <1>3, <2>1, <3>2
    <3>3. CASE q \notin ProducedPlaces /\ q # Pool
      <4>1. \A p \in CallerPlaces : holds[p] = {}
        BY <1>0, <1>1 DEF ElsewhereIsEmpty
      <4>2. q[1] # "caller"
        BY <2>1, <4>1, PlaceFacts, Heads
      <4>3. t \in holds'[q]
        BY <1>3, <2>1, <3>3, <4>2
      <4> QED
        BY <4>3
    <3> QED
      BY <3>1, <3>2, <3>3
  <2> QED
    BY <1>1, <2>1, Keeping
<1> QED
  BY <1>5, <1>7, <1>8, <1>9, <1>10 DEF EvalInductive

-----------------------------------------------------------------------------
(***************************************************************************)
(* A node that has returned.                                               *)
(***************************************************************************)
\* The uses of s by the nodes after the current one.
Later(s) == {u \in Uses(s) : u[1] > at}

\* Finishing with the borrowed inputs leaves the uses of the later nodes.
LEMMA ConsumedIsLater ==
    ASSUME EvalInductive, phase = "publish", NEW s \in Sockets(graph)
    PROVE  /\ Consumed[s] = Cardinality(Later(s)) + Extra(s)
           /\ Consumed[s] \in Nat /\ Consumed[s] <= remaining[s]
           /\ Borrowed(s) = {} => Consumed[s] = remaining[s]
           /\ ~(s[1] < at) => Borrowed(s) = {}
<1>0. /\ Evaluating /\ graph \in Graphs /\ at \in NodesOf(graph) /\ at \in Nat
      /\ remaining \in [Sockets(graph) -> Nat]
      /\ remaining[s] = Cardinality(Pending(s)) + Extra(s)
  <2>1. Evaluating
    BY DEF Evaluating
  <2> QED
    BY <2>1, NodeFacts, GraphFacts DEF EvalInductive, RemainingIsExact
<1>1. \A u \in Uses(s) : /\ u[1] \in NodesOf(graph) /\ u[1] \in Nat
                         /\ u[2] \in Connected(u[1]) /\ graph.source[u[1]][u[2]] = s
  BY <1>0, UsesAreFinite, GraphFacts
<1>2. Pending(s) = Later(s) \cup Borrowed(s) /\ Later(s) \cap Borrowed(s) = {}
  BY <1>0, <1>1 DEF Pending, Later, Borrowed
<1>3. /\ IsFiniteSet(Later(s)) /\ Cardinality(Later(s)) \in Nat
      /\ IsFiniteSet(Borrowed(s)) /\ Cardinality(Borrowed(s)) \in Nat
  BY <1>0, UsesAreFinite DEF Later, Borrowed
<1>4. Cardinality(Pending(s)) = Cardinality(Later(s)) + Cardinality(Borrowed(s))
  <2>1. Cardinality(Later(s) \cup Borrowed(s)) =
            Cardinality(Later(s)) + Cardinality(Borrowed(s))
                - Cardinality(Later(s) \cap Borrowed(s))
    BY <1>3, FS_Union
  <2>2. Cardinality(Later(s) \cap Borrowed(s)) = 0
    BY <1>2, FS_EmptySet
  <2> QED
    BY <1>2, <1>3, <2>1, <2>2
<1>5. Consumed[s] = remaining[s] - Cardinality(Borrowed(s))
  BY DEF Consumed
<1>6. Extra(s) \in {0, 1}
  BY DEF Extra
<1>7. Borrowed(s) = {} => Cardinality(Borrowed(s)) = 0
  BY FS_EmptySet
<1>8. ASSUME ~(s[1] < at)
      PROVE  Borrowed(s) = {}
  <2>1. \A u \in Uses(s) : u[1] # at
    BY <1>0, <1>1, <1>8, GraphFacts
  <2> QED
    BY <2>1 DEF Borrowed
<1> DEFINE l == Cardinality(Later(s))
           b == Cardinality(Borrowed(s))
           r == remaining[s]
           c == Consumed[s]
<1>9. l \in Nat /\ b \in Nat /\ r = l + b + Extra(s) /\ c = r - b /\ (Borrowed(s) = {} => b = 0)
  BY <1>0, <1>3, <1>4, <1>5, <1>7
<1> HIDE DEF l, b, r, c
<1>10. c = l + Extra(s) /\ c \in Nat /\ c <= r /\ (Borrowed(s) = {} => c = r)
  BY <1>6, <1>9
<1> QED
  BY <1>8, <1>10 DEF l, b, r, c

\* What Publish gives back to the pool.
Spent == {Produced(s) : s \in {t \in Sockets(graph) : Borrowed(t) # {} /\ Consumed[t] = 0}}
Scratch == IF Stateful(at) THEN {} ELSE {Kept}
GivenBack == InputPlaces \cup Scratch \cup Spent \cup {Output(j) : j \in Unwanted}

\* Where everything is once the node has returned.
LEMMA PublishMoves ==
    ASSUME EvalInductive, Publish
    PROVE  /\ holds' \in [Places -> SUBSET Textures]
           /\ OneOwner' /\ AllOwned' /\ Numbered'
           /\ holds'[Lost] = holds[Lost]
           /\ \A p \in NodePlaces \cup Spent : holds'[p] = {}
           /\ \A p \in CallerPlaces : holds'[p] = {}
           /\ \A s \in Sockets(graph) : Produced(s) \notin Spent =>
                holds'[Produced(s)] = IF s[1] = at /\ s[2] \notin Unwanted
                                      THEN holds[Output(s[2])] ELSE holds[Produced(s)]
<1>0. /\ phase = "publish" /\ Evaluating /\ UNCHANGED <<graph, allocated>>
      /\ EvalTypeOK /\ OneOwner /\ AllOwned /\ Numbered /\ graph \in Graphs /\ at \in NodesOf(graph)
      /\ \A p \in CallerPlaces : holds[p] = {}
  <2>1. phase = "publish" /\ Evaluating /\ UNCHANGED <<graph, allocated>>
    BY DEF Publish, Evaluating
  <2> QED
    BY <2>1, NodeFacts
<1>1. holds' = [p \in Places |->
            IF p = Pool THEN holds[Pool] \cup Contents(GivenBack)
            ELSE IF Stateful(at) /\ p = Store(at) THEN holds[Kept]
            ELSE IF p \in NodePlaces \cup Spent THEN {}
            ELSE IF p[1] = "produced" /\ p[2][1] = at /\ p[2][2] \notin Unwanted
                 THEN holds[Output(p[2][2])]
            ELSE holds[p]]
  BY DEF Publish, GivenBack, Scratch, Spent
<1>2. /\ Spent \subseteq ProducedPlaces
      /\ \A p \in NodePlaces \cup Spent : p \in Places /\ p # Pool /\ p # Store(at) /\ p # Lost
      /\ \A p \in Spent : p[1] = "produced"
      /\ \A p \in NodePlaces : p[1] \in {"kept", "input", "output"}
  <2>1. Spent \subseteq ProducedPlaces
    BY PlaceFacts DEF Spent
  <2> HIDE DEF Spent
  <2>2. \A p \in ProducedPlaces : p \in Places /\ p[1] = "produced"
    BY PlaceFacts, Heads
  <2>3. \A p \in NodePlaces : p \in Places /\ p[1] \in {"kept", "input", "output"}
    BY PlaceFacts
  <2>4. Pool[1] = "pool" /\ Lost[1] = "lost" /\ Store(at)[1] = "store"
    BY Heads
  <2> QED
    BY <2>1, <2>2, <2>3, <2>4
<1>3. /\ \A s : Output(s)[1] = "output" /\ Output(s)[2] = s
      /\ Kept[1] = "kept"
      /\ \A p \in GivenBack : /\ p \in NodePlaces \cup Spent
                              /\ p[1] = "kept" => ~Stateful(at)
                              /\ p[1] = "output" => p[2] \in Unwanted
  <2>1. InputPlaces \subseteq NodePlaces /\ \A p \in InputPlaces : p[1] = "input"
    BY PlaceFacts, Heads
  <2>2. \A p \in Scratch : p = Kept /\ p \in NodePlaces /\ ~Stateful(at)
    BY PlaceFacts DEF Scratch
  <2>3. \A j \in Unwanted : Output(j) \in NodePlaces
    <3> DEFINE c == Len(OutputTypes[Kind])
    <3>1. c \in 1..MaxOutputs /\ Unwanted \subseteq 1..c
      BY <1>0, NodeFacts, KindTables DEF Unwanted
    <3> HIDE DEF c
    <3>2. Unwanted \subseteq 1..MaxOutputs
      BY <3>1 DEF MaxOutputs
    <3> QED
      BY <3>2, PlaceFacts
  <2>4. /\ \A s : Output(s)[1] = "output" /\ Output(s)[2] = s
        /\ Kept[1] = "kept"
    BY Heads
  <2> HIDE DEF Unwanted, Scratch, Spent, InputPlaces
  <2> QED
    BY <1>2, <2>1, <2>2, <2>3, <2>4 DEF GivenBack
<1>4. /\ \A p \in NodePlaces \cup Spent : holds'[p] = {}
      /\ holds'[Lost] = holds[Lost]
      /\ \A p \in CallerPlaces : holds'[p] = {}
      /\ \A s \in Sockets(graph) : Produced(s) \notin Spent =>
            holds'[Produced(s)] = IF s[1] = at /\ s[2] \notin Unwanted
                                  THEN holds[Output(s[2])] ELSE holds[Produced(s)]
  <2>1. \A p \in NodePlaces \cup Spent : holds'[p] = {}
    BY <1>1, <1>2
  <2>2. /\ Lost \in Places /\ Lost # Pool /\ Lost # Store(at) /\ Lost[1] # "produced"
        /\ Lost \notin NodePlaces \cup Spent
    BY <1>2, PlaceFacts, Heads
  <2>3. \A p \in CallerPlaces : /\ p \in Places /\ p # Pool /\ p # Store(at)
                                /\ p[1] # "produced" /\ p \notin NodePlaces \cup Spent
    BY <1>2, PlaceFacts, Heads
  <2>4. \A s \in Sockets(graph) : /\ Produced(s) \in Places /\ Produced(s) # Pool
                                  /\ Produced(s) # Store(at) /\ Produced(s) \notin NodePlaces
                                  /\ Produced(s)[1] = "produced" /\ Produced(s)[2] = s
    BY PlaceFacts, Heads
  <2>5. holds'[Lost] = holds[Lost]
    BY <1>1, <2>2
  <2>6. \A p \in CallerPlaces : holds'[p] = {}
    BY <1>0, <1>1, <2>3
  <2>7. ASSUME NEW s \in Sockets(graph), Produced(s) \notin Spent
        PROVE  holds'[Produced(s)] = IF s[1] = at /\ s[2] \notin Unwanted
                                     THEN holds[Output(s[2])] ELSE holds[Produced(s)]
    BY <1>1, <2>4, <2>7
  <2> QED
    BY <2>1, <2>5, <2>6, <2>7
<1> DEFINE dest == [q \in Places |->
                      IF q \in GivenBack THEN Pool
                      ELSE IF q = Kept THEN Store(at)
                      ELSE IF q[1] = "output" THEN Produced(<<at, q[2]>>)
                      ELSE q]
<1>5. ASSUME NEW p \in Places, NEW t \in holds'[p]
      PROVE  \E q \in Places : t \in holds[q] /\ dest[q] = p
  <2>1. CASE p = Pool
    <3>1. t \in holds[Pool] \/ \E q \in GivenBack : t \in holds[q]
      BY <1>1, <1>5, <2>1 DEF Contents
    <3>2. Pool \in Places /\ Pool \notin GivenBack /\ Pool # Kept /\ Pool[1] # "output"
      BY <1>2, <1>3, PlaceFacts, Heads
    <3>3. \A q \in GivenBack : q \in Places
      BY <1>2, <1>3
    <3> QED
      BY <2>1, <3>1, <3>2, <3>3
  <2>2. CASE p # Pool /\ Stateful(at) /\ p = Store(at)
    <3>1. t \in holds[Kept]
      BY <1>1, <1>5, <2>2
    <3>2. Kept \in Places /\ Kept \notin GivenBack
      BY <1>3, <2>2, PlaceFacts
    <3> QED
      BY <2>2, <3>1, <3>2
  <2>3. CASE p # Pool /\ ~(Stateful(at) /\ p = Store(at))
    <3>1. p \notin NodePlaces \cup Spent
      BY <1>4, <1>5
    <3>2. CASE p[1] = "produced" /\ p[2][1] = at /\ p[2][2] \notin Unwanted
      <4>1. t \in holds[Output(p[2][2])]
        BY <1>1, <1>5, <2>3, <3>1, <3>2
      <4>2. p \in ProducedPlaces
        BY <3>2, PlaceFacts, Heads
      <4>3. PICK s \in Sockets(graph) : p = Produced(s)
        BY <4>2, PlaceFacts
      <4>4. p[2] = s /\ s = <<s[1], s[2]>> /\ s[2] \in 1..Len(OutputTypes[Kind])
        BY <1>0, <3>2, <4>3, Heads, GraphFacts DEF Kind
      <4>5. Output(s[2]) \in Places
        <5> DEFINE c == Len(OutputTypes[Kind])
        <5>1. c \in 1..MaxOutputs /\ s[2] \in 1..c
          BY <1>0, <4>4, NodeFacts, KindTables
        <5> HIDE DEF c
        <5>2. s[2] \in 1..MaxOutputs
          BY <5>1 DEF MaxOutputs
        <5> QED
          BY <5>2, PlaceFacts
      <4>6. Output(s[2]) \notin GivenBack /\ Output(s[2]) # Kept
            /\ Output(s[2])[1] = "output" /\ Output(s[2])[2] = s[2]
        BY <1>3, <3>2, <4>4
      <4>7. Produced(<<at, s[2]>>) = p
        BY <3>2, <4>3, <4>4
      <4> QED
        BY <4>1, <4>4, <4>5, <4>6, <4>7
    <3>3. CASE ~(p[1] = "produced" /\ p[2][1] = at /\ p[2][2] \notin Unwanted)
      <4>1. t \in holds[p]
        BY <1>1, <1>5, <2>3, <3>1, <3>3
      <4>2. p \notin GivenBack /\ p # Kept
        BY <1>3, <3>1, PlaceFacts
      <4>3. p[1] # "output"
        BY <3>1, PlaceFacts, Heads
      <4> QED
        BY <4>1, <4>2, <4>3
    <3> QED
      BY <3>2, <3>3
  <2> QED
    BY <2>1, <2>2, <2>3
<1> HIDE DEF dest
<1>6. /\ \A p \in Places : holds'[p] \subseteq Textures
      /\ OneOwner' /\ Numbered'
  BY <1>0, <1>5, Moving
<1>7. holds' \in [Places -> SUBSET Textures]
  BY <1>1, <1>6
\* Nothing is forgotten: what is overwritten was empty.
<1>8. ASSUME NEW q \in Places, NEW t \in holds[q]
      PROVE  \E p \in Places : t \in holds'[p]
  <2>0. /\ Pool \in Places /\ Kept \in Places /\ Store(at) \in Places
        /\ Pool # Store(at)
    BY <1>0, PlaceFacts, Heads
  <2>1. CASE q \in GivenBack \/ q = Pool
    <3>1. t \in holds'[Pool]
      BY <1>1, <1>8, <2>0, <2>1 DEF Contents
    <3> QED
      BY <2>0, <3>1
  <2>2. CASE q = Kept /\ q \notin GivenBack
    <3>1. Stateful(at)
      BY <2>2 DEF GivenBack, Scratch
    <3>2. holds'[Store(at)] = holds[Kept]
      BY <1>1, <2>0, <3>1
    <3> QED
      BY <1>8, <2>0, <2>2, <3>2
  <2>3. CASE q \in OutputPlaces /\ q \notin GivenBack
    <3>1. PICK j \in 1..MaxOutputs : q = Output(j)
      BY <2>3, PlaceFacts
    <3>2. j \in 1..Len(OutputTypes[Kind])
      <4> DEFINE c == Len(OutputTypes[Kind])
      <4>1. c \in 1..MaxOutputs
        BY <1>0, NodeFacts, KindTables
      <4>2. ~(j > c)
        BY <1>0, <1>8, <3>1 DEF EvalInductive, NothingInTheWay
      <4> HIDE DEF c
      <4>3. j \in 1..c
        BY <4>1, <4>2 DEF MaxOutputs
      <4> QED
        BY <4>3 DEF c
    <3>3. j \notin Unwanted
      BY <2>3, <3>1 DEF GivenBack
    <3> DEFINE s == <<at, j>>
    <3>4. s \in Sockets(graph) /\ s[1] = at /\ s[2] = j /\ ~(s[1] < at)
      BY <1>0, <3>2, GraphFacts DEF Kind
    <3>5. Borrowed(s) = {}
      BY <1>0, <3>4, ConsumedIsLater
    <3> HIDE DEF s
    <3>6. Produced(s) \notin Spent /\ Produced(s) \in Places
      <4>1. ASSUME Produced(s) \in Spent
            PROVE  FALSE
        <5>1. PICK r \in Sockets(graph) : Produced(s) = Produced(r) /\ Borrowed(r) # {}
          BY <4>1 DEF Spent
        <5>2. r = s
          BY <5>1, Heads
        <5> QED
          BY <3>5, <5>1, <5>2
      <4> QED
        BY <3>4, <4>1, PlaceFacts
    <3>7. holds'[Produced(s)] = holds[Output(j)]
      BY <1>4, <3>3, <3>4, <3>6
    <3> QED
      BY <1>8, <3>1, <3>6, <3>7
  <2>4. CASE q \notin GivenBack /\ q # Pool /\ q # Kept /\ q \notin OutputPlaces
    <3>1. q \notin NodePlaces \cup Spent
      BY <2>4 DEF GivenBack, NodePlaces
    <3>2. ~(Stateful(at) /\ q = Store(at))
      BY <1>0, <1>8 DEF EvalInductive, NothingInTheWay
    <3>3. ~(q[1] = "produced" /\ q[2][1] = at)
      <4> SUFFICES ASSUME q[1] = "produced", q[2][1] = at
                   PROVE  FALSE
        OBVIOUS
      <4>1. q \in ProducedPlaces
        BY PlaceFacts, Heads
      <4>2. PICK s \in Sockets(graph) : q = Produced(s)
        BY <4>1, PlaceFacts
      <4>3. s[1] = at /\ holds[Produced(s)] # {} /\ ~(s[1] < at)
        BY <1>0, <1>8, <4>2, Heads, GraphFacts
      <4> QED
        BY <1>0, <4>3 DEF EvalInductive, NothingKeptInVain
    <3>4. t \in holds'[q]
      BY <1>1, <1>8, <2>4, <3>1, <3>2, <3>3
    <3> QED
      BY <3>4
  <2> QED
    BY <2>1, <2>2, <2>3, <2>4
<1>9. AllOwned'
  BY <1>0, <1>8, Keeping
<1> QED
  BY <1>4, <1>6, <1>7, <1>9

LEMMA PublishStep ==
    ASSUME EvalInductive, Publish
    PROVE  EvalInductive'
<1>0. /\ phase = "publish" /\ Evaluating /\ EvalTypeOK /\ graph \in Graphs
      /\ at \in NodesOf(graph) /\ at \in Nat /\ Kind = graph.kind[at]
      /\ remaining \in [Sockets(graph) -> Nat] /\ allocated \in [Shapes -> Nat]
      /\ remaining' = Consumed /\ at' = at + 1 /\ taken' = {} /\ turn' = 1
      /\ phase' = IF at + 1 \notin NodesOf(graph) THEN "deliver"
                  ELSE IF Stateful(at + 1) THEN "state" ELSE "inputs"
      /\ phase' \in {"deliver", "state", "inputs"}
      /\ UNCHANGED <<graph, allocated, failures, full, settled>>
  <2>1. phase = "publish" /\ Evaluating
    BY DEF Publish, Evaluating
  <2> QED
    BY <2>1, NodeFacts, GraphFacts DEF Publish, EnterNode, Kind
<1>1. /\ Places' = Places /\ CallerPlaces' = CallerPlaces /\ SumsAreFed' = SumsAreFed
      /\ NodePlaces' = NodePlaces /\ Result' = Result
      /\ \A s : Uses(s)' = Uses(s) /\ Extra(s)' = Extra(s)
  BY <1>0, GraphStays
<1>2. /\ holds' \in [Places -> SUBSET Textures] /\ OneOwner' /\ AllOwned' /\ Numbered'
      /\ holds'[Lost] = holds[Lost]
      /\ \A p \in NodePlaces \cup Spent : holds'[p] = {}
      /\ \A p \in CallerPlaces : holds'[p] = {}
      /\ \A s \in Sockets(graph) : Produced(s) \notin Spent =>
            holds'[Produced(s)] = IF s[1] = at /\ s[2] \notin Unwanted
                                  THEN holds[Output(s[2])] ELSE holds[Produced(s)]
  BY PublishMoves
<1>3. ASSUME NEW s \in Sockets(graph)
      PROVE  /\ Consumed[s] = Cardinality(Later(s)) + Extra(s)
             /\ Consumed[s] \in Nat /\ Consumed[s] <= remaining[s] /\ remaining[s] \in Nat
             /\ Borrowed(s) = {} => Consumed[s] = remaining[s]
             /\ ~(s[1] < at) => Borrowed(s) = {}
             /\ Produced(s) \in Spent <=> Borrowed(s) # {} /\ Consumed[s] = 0
             /\ s[1] \in Nat
  <2>1. Produced(s) \in Spent <=> Borrowed(s) # {} /\ Consumed[s] = 0
    BY Heads DEF Spent
  <2>2. s[1] \in Nat
    BY <1>0, GraphFacts
  <2> QED
    BY <1>0, <2>1, <2>2, ConsumedIsLater
<1>4. RemainingIsExact'
  <2>1. ASSUME NEW s
        PROVE  Pending(s)' = Later(s)
    <3>1. \A u \in Uses(s) : u[1] \in Nat
      BY <1>0, UsesAreFinite, GraphFacts
    <3>2. \A u \in Uses(s) : u[1] > at <=> u[1] > at + 1 \/ u[1] = at + 1
      BY <1>0, <3>1
    <3> QED
      BY <1>0, <1>1, <3>2 DEF Pending, Later
  <2> QED
    BY <1>0, <1>1, <1>3, <2>1 DEF RemainingIsExact
\* At the next node, a value is kept if it is wanted and there if it is used.
<1>5. ASSUME NEW s \in Sockets(graph)
      PROVE  /\ holds'[Produced(s)] # {} => (s = Result \/ Consumed[s] > 0) /\ s[1] < at + 1
             /\ s[1] < at + 1 /\ Consumed[s] > 0 => holds'[Produced(s)] # {}
  <2>1. /\ holds[Produced(s)] # {} => (s = Result \/ remaining[s] > 0) /\ s[1] < at
        /\ s[1] < at /\ remaining[s] > 0 => holds[Produced(s)] # {}
    BY <1>0 DEF EvalInductive, NothingKeptInVain, UsedIsThere, IsWanted
  <2>2. CASE s[1] = at
    <3>1. /\ Borrowed(s) = {} /\ Consumed[s] = remaining[s] /\ Produced(s) \notin Spent
          /\ holds[Produced(s)] = {}
      BY <1>0, <1>3, <2>1, <2>2
    <3>2. s = <<at, s[2]>> /\ s[2] \in 1..Len(OutputTypes[Kind])
      BY <1>0, <2>2, GraphFacts
    <3>3. s[2] \in Unwanted <=> ~(s = Result \/ remaining[s] > 0)
      BY <3>2 DEF Unwanted, IsWanted
    <3>4. s = Result \/ remaining[s] > 0 => holds[Output(s[2])] # {}
      BY <1>0, <3>2 DEF EvalInductive, WantedIsMade, IsWanted
    <3>5. holds'[Produced(s)] = IF s[2] \in Unwanted THEN {} ELSE holds[Output(s[2])]
      BY <1>2, <2>2, <3>1
    <3> QED
      BY <1>0, <2>2, <3>1, <3>3, <3>4, <3>5
  <2>3. CASE s[1] # at /\ Produced(s) \in Spent
    <3>1. holds'[Produced(s)] = {} /\ Consumed[s] = 0
      BY <1>2, <1>3, <2>3
    <3> QED
      BY <3>1
  <2>4. CASE s[1] # at /\ Produced(s) \notin Spent
    <3>1. holds'[Produced(s)] = holds[Produced(s)]
      BY <1>2, <2>4
    <3>2. Consumed[s] = remaining[s] \/ Consumed[s] > 0
      BY <1>3, <2>4
    <3> QED
      BY <1>0, <1>3, <2>1, <2>4, <3>1, <3>2
  <2> QED
    BY <2>2, <2>3, <2>4
<1>6. NothingKeptInVain' /\ UsedIsThere'
  BY <1>0, <1>1, <1>5 DEF NothingKeptInVain, UsedIsThere, IsWanted
<1>7. JustBegun' /\ TakenIsInHand' /\ WantedIsMade'
  BY <1>0 DEF JustBegun, TakenIsInHand, WantedIsMade, Stateful
<1>8. ElsewhereIsEmpty'
  BY <1>0, <1>1, <1>2 DEF ElsewhereIsEmpty
<1>9. NoneLostYet'
  BY <1>0, <1>1, <1>2 DEF EvalInductive, NoneLostYet
<1>10. EvalTypeOK'
  <2>1. remaining' \in [Sockets(graph) -> Nat]
    <3>1. Consumed = [s \in Sockets(graph) |-> Consumed[s]]
      BY DEF Consumed
    <3> QED
      BY <1>0, <1>3, <3>1
  <2>2. at' \in 1..(Len(graph.kind) + 1) /\ (Evaluating' => at' \in NodesOf(graph))
    <3> DEFINE c == Len(graph.kind)
    <3>1. c \in Nat /\ NodesOf(graph) = 1..c
      BY <1>0, GraphFacts
    <3>2. Evaluating' => at' \in NodesOf(graph)
      BY <1>0 DEF Evaluating
    <3> HIDE DEF c
    <3>3. at' \in 1..(c + 1)
      BY <1>0, <3>1
    <3> QED
      BY <3>2, <3>3 DEF c
  <2>3. turn' \in 1..(MaxOutputs + 1) /\ taken' \subseteq 1..MaxInputs
    BY <1>0 DEF MaxOutputs
  <2> QED
    BY <1>0, <1>1, <1>2, <2>1, <2>2, <2>3 DEF EvalTypeOK
<1>11. NothingInTheWay'
  <2>1. phase' = "inputs" => ~Stateful(at + 1)
    BY <1>0
  <2>2. Stateful(at)' = Stateful(at + 1)
    BY <1>0 DEF Stateful
  <2>3. \A j \in 1..MaxOutputs : Output(j) \in NodePlaces
    BY PlaceFacts
  <2> QED
    BY <1>0, <1>2, <2>1, <2>2, <2>3 DEF NothingInTheWay
<1> QED
  BY <1>2, <1>4, <1>6, <1>7, <1>8, <1>9, <1>10, <1>11 DEF EvalInductive

-----------------------------------------------------------------------------
(***************************************************************************)
(* The evaluator.                                                          *)
(***************************************************************************)
LEMMA EvalStarts ==
    EvalInit => EvalInductive
<1> SUFFICES ASSUME EvalInit
             PROVE  EvalInductive
  OBVIOUS
<1>1. /\ graph \in Graphs /\ phase = "idle" /\ at = 1 /\ taken = {} /\ turn = 1
      /\ remaining = [s \in Sockets(graph) |-> 0]
      /\ holds = [p \in Places |-> {}]
      /\ allocated = [s \in Shapes |-> 0]
      /\ failures = 0 /\ full = FALSE /\ settled = FALSE
  BY DEF EvalInit
<1>2. \A p \in Places : holds[p] = {}
  BY <1>1
<1>3. EvalTypeOK
  <2>1. at \in 1..(Len(graph.kind) + 1)
    <3> DEFINE c == Len(graph.kind)
    <3>1. c \in Nat
      BY <1>1, GraphFacts
    <3> HIDE DEF c
    <3>2. 1 \in 1..(c + 1)
      BY <3>1
    <3> QED
      BY <1>1, <3>2 DEF c
  <2>2. turn \in 1..(MaxOutputs + 1)
    BY <1>1 DEF MaxOutputs
  <2>3. /\ remaining \in [Sockets(graph) -> Nat] /\ holds \in [Places -> SUBSET Textures]
        /\ allocated \in [Shapes -> Nat]
    BY <1>1
  <2> QED
    BY <1>1, <2>1, <2>2, <2>3 DEF EvalTypeOK, Evaluating
<1>4. /\ RemainingIsExact /\ NothingKeptInVain /\ UsedIsThere
      /\ JustBegun /\ TakenIsInHand /\ WantedIsMade /\ NothingInTheWay
  BY <1>1 DEF Evaluating, RemainingIsExact, NothingKeptInVain, UsedIsThere, JustBegun,
              TakenIsInHand, WantedIsMade, NothingInTheWay
<1>5. ElsewhereIsEmpty /\ NoneLostYet /\ Numbered /\ OneOwner /\ AllOwned
  BY <1>1, <1>2, PlaceFacts DEF ElsewhereIsEmpty, NoneLostYet, Numbered, OneOwner, AllOwned
<1> QED
  BY <1>3, <1>4, <1>5 DEF EvalInductive

LEMMA EvalSteps ==
    EvalInductive /\ [EvalNext]_evalVars => EvalInductive'
<1> SUFFICES ASSUME EvalInductive, [EvalNext]_evalVars
             PROVE  EvalInductive'
  OBVIOUS
<1>1. CASE Begin
  BY <1>1, BeginStep
<1>2. CASE TakeState \/ TakeStateFails \/ IncompletePair
  BY <1>2, TakeStateStep, TakeStateFailsStep, IncompletePairStep
<1>3. CASE \E i \in StillToTake :
              TakeInput(i) \/ CopyInput(i) \/ CopyInputFails(i) \/ MissingInput(i)
  BY <1>3, TakeInputStep, CopyInputStep, CopyInputFailsStep, MissingInputStep
<1>4. CASE Compute \/ ComputeFails
  BY <1>4, ComputeStep, ComputeFailsStep
<1>5. CASE MakeOutput \/ AcquireOutputFails \/ CopyOutputFails \/ FillFails \/ Made
  BY <1>5, MakeOutputStep, AcquireOutputFailsStep, CopyOutputFailsStep, FillFailsStep, MadeStep
<1>6. CASE Publish
  BY <1>6, PublishStep
<1>7. CASE Deliver \/ LacksResult \/ Abort
  BY <1>7, DeliverStep, LacksResultStep, AbortStep
<1>8. CASE ReleaseEvaluated \/ ClearState
  BY <1>8, ReleaseEvaluatedStep, ClearStateStep
<1>9. CASE UNCHANGED evalVars
  <2>1. UNCHANGED <<graph, phase, at, taken, turn, remaining, holds, allocated,
                    failures, full, settled>>
    BY <1>9 DEF evalVars
  <2>2. /\ Places' = Places /\ ProducedPlaces' = ProducedPlaces
        /\ CallerPlaces' = CallerPlaces /\ NodePlaces' = NodePlaces /\ Result' = Result
        /\ SumsAreFed' = SumsAreFed /\ Kind' = Kind
        /\ \A s : Uses(s)' = Uses(s) /\ Extra(s)' = Extra(s)
    BY <2>1, GraphStays DEF Kind
  <2>3. Evaluating' = Evaluating /\ \A s : Pending(s)' = Pending(s)
    BY <2>1, <2>2 DEF Evaluating, Pending
  <2>4. EvalTypeOK' /\ RemainingIsExact'
    BY <2>1, <2>2, <2>3 DEF EvalInductive, EvalTypeOK, RemainingIsExact
  <2>5. NothingKeptInVain' /\ UsedIsThere' /\ JustBegun' /\ TakenIsInHand' /\ WantedIsMade'
    BY <2>1, <2>2, <2>3 DEF EvalInductive, NothingKeptInVain, UsedIsThere, JustBegun,
                            TakenIsInHand, WantedIsMade, IsWanted, Stateful
  <2>6. ElsewhereIsEmpty' /\ NoneLostYet' /\ Numbered' /\ OneOwner' /\ AllOwned'
    BY <2>1, <2>2 DEF EvalInductive, ElsewhereIsEmpty, NoneLostYet, Numbered, OneOwner,
                      AllOwned, Contents
  <2>7. NothingInTheWay'
    BY <2>1, <2>2 DEF EvalInductive, NothingInTheWay, Stateful
  <2> QED
    BY <2>4, <2>5, <2>6, <2>7 DEF EvalInductive
<1> QED
  BY <1>1, <1>2, <1>3, <1>4, <1>5, <1>6, <1>7, <1>8, <1>9 DEF EvalNext, Evaluate

LEMMA EvalInvariant ==
    EvalSpec => []EvalInductive
<1>1. EvalInit => EvalInductive
  BY EvalStarts
<1>2. EvalInductive /\ [EvalNext]_evalVars => EvalInductive'
  BY EvalSteps
<1> QED
  BY <1>1, <1>2, PTL DEF EvalSpec

\* eval_frame counts the uses of every output exactly, whatever the graph: a
\* value is there for as long as something will use it, and no longer.
THEOREM UsesStayExact ==
    EvalSpec => []UsesAreExact
<1>1. EvalInductive => UsesAreExact
  BY InputsAreThere DEF EvalInductive, UsesAreExact
<1> QED
  BY <1>1, EvalInvariant, PTL

\* Whatever fails and wherever, a texture has one owner, the evaluator holds
\* none between evaluations, and loses one only where a GPU call failed or a
\* sum has no input.
THEOREM NothingIsStranded ==
    EvalSpec => []NothingStranded
<1>1. EvalInductive => NothingStranded
  <2> SUFFICES ASSUME EvalInductive
               PROVE  NothingStranded
    OBVIOUS
  <2>1. OneOwner /\ AllOwned /\ ElsewhereIsEmpty /\ NoneLostYet
    BY DEF EvalInductive
  <2>2. phase = "idle" => \A p \in Places \ ({Pool, Lost} \cup StorePlaces) : holds[p] = {}
    BY <2>1, PlaceFacts DEF ElsewhereIsEmpty
  <2> QED
    BY <2>1, <2>2 DEF NothingStranded, NoneLostYet
<1> QED
  BY <1>1, EvalInvariant, PTL

\* take_input copies a value only if a later use, or the caller, needs it too.
THEOREM CopiesAreNeeded ==
    EvalSpec => CopyIsNeeded
<1>1. ASSUME EvalInductive, [EvalNext]_evalVars
      PROVE  [\A i \in 1..MaxInputs : Copies(i) =>
                LET s == Source(i)
                IN s \in graph.extras \/ Pending(s) # {<<at, i>>}]_evalVars
  <2> SUFFICES ASSUME EvalNext, NEW i \in 1..MaxInputs, Copies(i)
               PROVE  Source(i) \in graph.extras \/ Pending(Source(i)) # {<<at, i>>}
    BY <1>1
  <2> DEFINE s == Source(i)
  <2>1. i \in taken' /\ i \notin taken /\ holds'[Produced(s)] # {}
    BY DEF Copies
  <2>2. \E k \in StillToTake : TakeInput(k) \/ CopyInput(k)
    BY <2>1 DEF EvalNext, Evaluate, Begin, EnterNode, TakeState, TakeStateFails, Fail, Err,
                IncompletePair, CopyInputFails, MissingInput, Compute, ComputeFails, MakeOutput,
                AcquireOutputFails, CopyOutputFails, FillFails, Made, Publish, Deliver,
                LacksResult, Abort, ReleaseEvaluated, ClearState
  <2>3. TakeInput(i) \/ CopyInput(i)
    BY <2>1, <2>2 DEF TakeInput, CopyInput
  <2>4. /\ Evaluating /\ RemainingIsExact /\ graph \in Graphs
        /\ s \in Sockets(graph) /\ Produced(s) \in Places /\ Produced(s) # Input(i)
    <3>1. Wants(i) /\ i \in Connected(at)
      BY <2>3 DEF TakeInput, CopyInput
    <3>2. Evaluating /\ s \in Sockets(graph) /\ Produced(s) \in ProducedPlaces
      BY <1>1, <3>1, WantedInput
    <3> QED
      BY <1>1, <3>2, NodeFacts, PlaceFacts, Heads DEF EvalInductive
  <2>5. ~TakeInput(i)
    <3>1. SUFFICES ASSUME holds' = Moved({Produced(s)}, Input(i))
                   PROVE  FALSE
      BY DEF TakeInput
    <3> QED
      BY <2>1, <2>4, <3>1 DEF Moved
  <2>6. remaining[s] = Cardinality(Pending(s)) + Extra(s) /\ ~(remaining[s] <= 1)
    BY <2>3, <2>4, <2>5 DEF CopyInput, LastUse, RemainingIsExact
  <2>7. Pending(s) = {<<at, i>>} => Cardinality(Pending(s)) = 1
    BY FS_Singleton
  <2> QED
    BY <2>6, <2>7 DEF Extra
<1> QED
  BY <1>1, EvalInvariant, PTL DEF CopyIsNeeded, EvalSpec

-----------------------------------------------------------------------------
(***************************************************************************)
(* Recycling.  What a frame holds at a point of it is a matter of the      *)
(* graph: of which values have uses left, and of how far the node has got. *)
(* So a frame that starts from a full store passes every point with that   *)
(* much, and no later frame holds more.  As long as nothing is lost, as    *)
(* many textures exist as any point needs; if none of a shape were left in *)
(* the pool, they would all be in use, one fewer than the point needs that *)
(* acquires the next.                                                      *)
(***************************************************************************)
\* The shapes at a place, and those of a value of a type.
ShapesAt(p) == {t[1] : t \in holds[p]}
ShapesIn(type) == {ShapesOf[type][k] : k \in 1..Len(ShapesOf[type])}

\* Where textures are in use.
InUse == Places \ {Pool, Lost}

\* What GraphEval says of its graph, of any graph.
ConnectedIn(g, n) == {i \in Inputs(g, n) : g.source[n][i] # Unconnected}

UsesIn(g, s) ==
    {u \in NodesOf(g) \X (1..MaxInputs) :
        u[2] \in ConnectedIn(g, u[1]) /\ g.source[u[1]][u[2]] = s}

ResultOf(g) == <<g.result, 1>>
KeepsState(g, n) == g.kind[n] \in DOMAIN StateType
HandsOn(g, n) == g.kind[n] \in DOMAIN PassedOn

TakesOf(g, n) ==
    IF g.kind[n] = "pick_second" THEN {2}
    ELSE {i \in Inputs(g, n) : i \in Optional[g.kind[n]] => i \in ConnectedIn(g, n)}

OneLoadOf(g, n) ==
    /\ g.kind[n] \in DOMAIN Loads
    /\ Cardinality(Loads[g.kind[n]] \cap ConnectedIn(g, n)) = 1

StateShapes(g, n) == IF KeepsState(g, n) THEN ShapesIn(StateType[g.kind[n]]) ELSE {}

\* A node does not make an output on demand that nobody ever wants.
EverWanted(g, s) == s = ResultOf(g) \/ s \in g.extras \/ UsesIn(g, s) # {}

ForNobody(g, n, j) ==
    /\ g.kind[n] \in DOMAIN OnDemand /\ j \in OnDemand[g.kind[n]]
    /\ ~EverWanted(g, <<n, j>>)

\* The inputs that a node no longer has once it has computed.
SpentBy(g, n) ==
    IF g.kind[n] = "accumulate" THEN {1}
    ELSE IF HandsOn(g, n) THEN {PassedOn[g.kind[n]]} ELSE {}

\* The uses of s to come when node n has taken tk.
ToCome(g, s, n, tk) == {u \in UsesIn(g, s) : u[1] > n \/ (u[1] = n /\ u[2] \notin tk)}

(***************************************************************************)
(* The shapes due at each place when node n is in phase ph, has taken tk   *)
(* and is to make output tn next.                                          *)
(***************************************************************************)
KeptDue(g, n, ph) ==
    IF ph \in {"inputs", "outputs", "publish"} /\ KeepsState(g, n) THEN StateShapes(g, n)
    ELSE IF ph \in {"outputs", "publish"} /\ OneLoadOf(g, n) THEN ShapesIn("field")
    ELSE {}

InputDue(g, n, ph, tk, i) ==
    IF \/ ph = "inputs" /\ i \in tk
       \/ ph \in {"outputs", "publish"} /\ i \in tk \ SpentBy(g, n)
    THEN ShapesIn(InputTypes[g.kind[n]][i]) ELSE {}

OutputDue(g, n, ph, tn, j) ==
    IF /\ ph \in {"outputs", "publish"} /\ j \in 1..Len(OutputTypes[g.kind[n]])
       /\ ph = "outputs" => j < tn
       /\ ~ForNobody(g, n, j)
    THEN ShapesIn(OutputTypes[g.kind[n]][j]) ELSE {}

ProducedDue(g, n, tk, s) ==
    IF /\ s[1] < n
       /\ \/ ToCome(g, s, n, tk) # {} \/ s \in g.extras
          \/ s = ResultOf(g) /\ UsesIn(g, s) = {}
    THEN ShapesIn(TypeOf(g, s)) ELSE {}

StoreDue(g, n, ph, m) == IF m # n \/ ph = "state" THEN StateShapes(g, m) ELSE {}

Due(g, n, ph, tk, tn, p) ==
    IF p[1] = "kept" THEN KeptDue(g, n, ph)
    ELSE IF p[1] = "input" THEN InputDue(g, n, ph, tk, p[2])
    ELSE IF p[1] = "output" THEN OutputDue(g, n, ph, tn, p[2])
    ELSE IF p[1] = "produced" THEN ProducedDue(g, n, tk, p[2])
    ELSE IF p[1] = "store" THEN StoreDue(g, n, ph, p[2])
    ELSE {}

(***************************************************************************)
(* The points of an evaluation at which something has just been acquired.  *)
(***************************************************************************)
InOrder(g, tk, n) ==
    /\ tk \subseteq TakesOf(g, n) \cap ConnectedIn(g, n)
    /\ \A i \in tk : \A k \in TakesOf(g, n) \ tk : i < k

IsPoint(g, n, ph, tk, tn) ==
    \/ ph = "inputs" /\ tn = 1 /\ InOrder(g, tk, n)
    \/ /\ ph = "outputs" /\ ~HandsOn(g, n) /\ tk = TakesOf(g, n)
       /\ tn \in 1..(Len(OutputTypes[g.kind[n]]) + 1)

\* The evaluation has left that point behind.
Passed(n, ph, tk, tn) ==
    \/ n < at
    \/ /\ n = at
       /\ \/ ph = "inputs" /\ phase = "inputs" /\ tk \subseteq taken /\ tk # taken
          \/ ph = "inputs" /\ phase \in {"outputs", "publish"}
          \/ ph = "outputs" /\ phase = "outputs" /\ tn < turn
          \/ ph = "outputs" /\ phase = "publish"

\* The places that need a texture of shape s there.
Claims(n, ph, tk, tn, s) == {p \in InUse : s \in Due(graph, n, ph, tk, tn, p)}

\* The textures of a shape that are not lost.
Live(s) == ({s} \X (0..(allocated[s] - 1))) \ holds[Lost]

\* There are enough textures for that point.
Room(n, ph, tk, tn) ==
    \A s \in Shapes :
        /\ IsFiniteSet(Claims(n, ph, tk, tn, s))
        /\ Cardinality(Claims(n, ph, tk, tn, s)) <= Cardinality(Live(s))

Going == phase \in {"state", "inputs", "outputs", "publish", "deliver"}

\* No place has two textures of a shape.
SingleTextures == \A p \in InUse : \A t, u \in holds[p] : t[1] = u[1] => t = u

StateIsWhole ==
    \A n \in NodesOf(graph) : ShapesAt(Store(n)) \in {{}, StateShapes(graph, n)}

DueIsThere ==
    Going =>
        /\ ShapesAt(Kept) = KeptDue(graph, at, phase)
        /\ \A i \in 1..MaxInputs : ShapesAt(Input(i)) = InputDue(graph, at, phase, taken, i)
        /\ \A j \in 1..MaxOutputs : ShapesAt(Output(j)) = OutputDue(graph, at, phase, turn, j)
        /\ \A s \in Sockets(graph) : ShapesAt(Produced(s)) = ProducedDue(graph, at, taken, s)
        /\ full => \A n \in NodesOf(graph) : ShapesAt(Store(n)) = StoreDue(graph, at, phase, n)

\* How far the node has got.
NodeIsAtWork ==
    /\ Evaluating => InOrder(graph, taken, at)
    /\ phase \in {"outputs", "publish"} => taken = TakesOf(graph, at)
    /\ phase = "outputs" => ~HandsOn(graph, at) /\ turn \in 1..(Len(OutputTypes[Kind]) + 1)
    /\ phase = "deliver" => at = Len(graph.kind) + 1

PassedHaveRoom ==
    Going /\ full =>
        \A n \in NodesOf(graph), ph \in {"inputs", "outputs"},
           tk \in SUBSET (1..MaxInputs), tn \in 1..(MaxOutputs + 1) :
            IsPoint(graph, n, ph, tk, tn) /\ Passed(n, ph, tk, tn) => Room(n, ph, tk, tn)

SettledHasRoom ==
    settled =>
        \A n \in NodesOf(graph), ph \in {"inputs", "outputs"},
           tk \in SUBSET (1..MaxInputs), tn \in 1..(MaxOutputs + 1) :
            IsPoint(graph, n, ph, tk, tn) => Room(n, ph, tk, tn)

Recycling ==
    /\ SingleTextures /\ StateIsWhole /\ DueIsThere /\ NodeIsAtWork
    /\ PassedHaveRoom /\ SettledHasRoom

-----------------------------------------------------------------------------
LEMMA OfThisGraph ==
    /\ \A n : Connected(n) = ConnectedIn(graph, n)
    /\ \A n : Takes(n) = TakesOf(graph, n)
    /\ \A s : Uses(s) = UsesIn(graph, s)
    /\ \A n : Stateful(n) <=> KeepsState(graph, n)
    /\ \A n : PassesOn(n) <=> HandsOn(graph, n)
    /\ Result = ResultOf(graph)
    /\ OneLoad <=> OneLoadOf(graph, at)
<1>1. \A n : Connected(n) = ConnectedIn(graph, n)
  BY DEF Connected, ConnectedIn
<1>2. ASSUME NEW n
      PROVE  Takes(n) = TakesOf(graph, n)
  <2>1. CASE graph.kind[n] = "pick_second"
    BY <2>1 DEF Takes, TakesOf
  <2>2. CASE graph.kind[n] # "pick_second"
    BY <1>1, <2>2 DEF Takes, TakesOf
  <2> QED
    BY <2>1, <2>2
<1>3. \A s : Uses(s) = UsesIn(graph, s)
  BY <1>1 DEF Uses, UsesIn
<1> QED
  BY <1>1, <1>2, <1>3 DEF Stateful, KeepsState, PassesOn, HandsOn, Result, ResultOf,
                         OneLoad, OneLoadOf, Kind

\* The shapes of a value are apart.
LEMMA ShapesInTable ==
    \A type \in Types :
        /\ ShapesIn(type) \subseteq Shapes /\ ShapesIn(type) # {}
        /\ Len(ShapesOf[type]) \in Nat
        /\ \A k \in 1..Len(ShapesOf[type]) : ShapesOf[type][k] \in ShapesIn(type)
<1> SUFFICES ASSUME NEW type \in Types
             PROVE  /\ ShapesIn(type) \subseteq Shapes /\ ShapesIn(type) # {}
                    /\ Len(ShapesOf[type]) \in Nat
                    /\ \A k \in 1..Len(ShapesOf[type]) : ShapesOf[type][k] \in ShapesIn(type)
  OBVIOUS
<1> DEFINE m == Len(ShapesOf[type])
<1>1. m \in Nat \ {0} /\ \A k \in 1..m : ShapesOf[type][k] \in Shapes
  BY ShapeTables
<1>2. ShapesIn(type) = {ShapesOf[type][k] : k \in 1..m}
  BY DEF ShapesIn
<1> HIDE DEF m
<1>3. 1 \in 1..m
  BY <1>1
<1> QED
  BY <1>1, <1>2, <1>3 DEF m

\* More of the tables.
LEMMA KindFacts ==
    \A k \in Kinds :
        /\ k \in DOMAIN PassedOn =>
              /\ k \notin DOMAIN Loads /\ k \notin DOMAIN OnDemand /\ k # "accumulate"
              /\ Len(OutputTypes[k]) = 1
              /\ InputTypes[k][PassedOn[k]] = OutputTypes[k][1]
        /\ k \in DOMAIN Loads => k \notin DOMAIN StateType /\ k # "accumulate"
        /\ k \in DOMAIN StateType => k \notin DOMAIN PassedOn
        /\ k = "accumulate" => k \in DOMAIN StateType
<1> SUFFICES ASSUME NEW k \in Kinds
             PROVE  /\ k \in DOMAIN PassedOn =>
                          /\ k \notin DOMAIN Loads /\ k \notin DOMAIN OnDemand
                          /\ k # "accumulate" /\ Len(OutputTypes[k]) = 1
                          /\ InputTypes[k][PassedOn[k]] = OutputTypes[k][1]
                    /\ k \in DOMAIN Loads => k \notin DOMAIN StateType /\ k # "accumulate"
                    /\ k \in DOMAIN StateType => k \notin DOMAIN PassedOn
                    /\ k = "accumulate" => k \in DOMAIN StateType
  OBVIOUS
<1>1. /\ DOMAIN PassedOn = {"output", "pick_second"}
      /\ DOMAIN Loads = {"collider_union"}
      /\ DOMAIN OnDemand = {"solver", "emitter", "emitter_union"}
      /\ DOMAIN StateType = {"accumulate", "solver"}
  BY DEF PassedOn, Loads, OnDemand, StateType
<1>2. k \in DOMAIN PassedOn => InputTypes[k][PassedOn[k]] = OutputTypes[k][1]
  <2>1. CASE k = "output"
    <3>1. PassedOn[k] = 1
      BY <2>1 DEF PassedOn
    <3>2. InputTypes[k] = <<"field">> /\ OutputTypes[k] = <<"field">>
      BY <2>1 DEF InputTypes, OutputTypes
    <3> QED
      BY <3>1, <3>2
  <2>2. CASE k = "pick_second"
    <3>1. PassedOn[k] = 2
      BY <2>2 DEF PassedOn
    <3>2. InputTypes[k] = <<"field", "field">> /\ OutputTypes[k] = <<"field">>
      BY <2>2 DEF InputTypes, OutputTypes
    <3> QED
      BY <3>1, <3>2
  <2> QED
    BY <1>1, <2>1, <2>2
<1> QED
  BY <1>1, <1>2, KindTables

\* An input has the type of its source.
LEMMA SourceFacts ==
    ASSUME graph \in Graphs, NEW n \in NodesOf(graph)
    PROVE  /\ \A i \in ConnectedIn(graph, n) :
                TypeOf(graph, graph.source[n][i]) = InputTypes[graph.kind[n]][i]
           /\ TakesOf(graph, n) \subseteq 1..MaxInputs
           /\ ConnectedIn(graph, n) \subseteq 1..MaxInputs
           /\ KeepsState(graph, n) => StateType[graph.kind[n]] \in Types
<1>1. IsGraph(graph) /\ graph.kind[n] \in Kinds /\ Inputs(graph, n) \subseteq 1..MaxInputs
  BY GraphEvalAssumption, GraphFacts
<1>2. \A i \in ConnectedIn(graph, n) :
          TypeOf(graph, graph.source[n][i]) = InputTypes[graph.kind[n]][i]
  BY <1>1 DEF IsGraph, ConnectedIn
<1>3. ConnectedIn(graph, n) \subseteq 1..MaxInputs
  BY <1>1 DEF ConnectedIn
<1>4. TakesOf(graph, n) \subseteq 1..MaxInputs
  BY <1>1 DEF TakesOf, MaxInputs
<1>5. KeepsState(graph, n) => StateType[graph.kind[n]] \in Types
  BY <1>1, KindTables DEF KeepsState
<1> QED
  BY <1>2, <1>3, <1>4, <1>5

-----------------------------------------------------------------------------
LEMMA DueAt ==
    \A g, n, ph, tk, tn :
        /\ Due(g, n, ph, tk, tn, Kept) = KeptDue(g, n, ph)
        /\ \A i : Due(g, n, ph, tk, tn, Input(i)) = InputDue(g, n, ph, tk, i)
        /\ \A j : Due(g, n, ph, tk, tn, Output(j)) = OutputDue(g, n, ph, tn, j)
        /\ \A s : Due(g, n, ph, tk, tn, Produced(s)) = ProducedDue(g, n, tk, s)
        /\ \A m : Due(g, n, ph, tk, tn, Store(m)) = StoreDue(g, n, ph, m)
        /\ \A s : Due(g, n, ph, tk, tn, Caller(s)) = {}
  BY Heads DEF Due

\* The places in use, one by one.
LEMMA UsedPlaces ==
    /\ InUse \subseteq Places
    /\ \A p \in InUse :
        \/ p = Kept
        \/ \E i \in 1..MaxInputs : p = Input(i)
        \/ \E j \in 1..MaxOutputs : p = Output(j)
        \/ \E s \in Sockets(graph) : p = Produced(s)
        \/ \E n \in NodesOf(graph) : p = Store(n)
        \/ \E s \in Sockets(graph) : p = Caller(s)
    /\ Kept \in InUse
    /\ \A i \in 1..MaxInputs : Input(i) \in InUse
    /\ \A j \in 1..MaxOutputs : Output(j) \in InUse
    /\ \A s \in Sockets(graph) : Produced(s) \in InUse /\ Caller(s) \in InUse
    /\ \A n \in NodesOf(graph) : Store(n) \in InUse
<1>1. \A p \in NodePlaces :
        \/ p = Kept
        \/ \E i \in 1..MaxInputs : p = Input(i)
        \/ \E j \in 1..MaxOutputs : p = Output(j)
  BY PlaceFacts DEF NodePlaces
<1>2. InUse \subseteq Places /\ \A p \in InUse : p # Pool /\ p # Lost
  BY DEF InUse
<1>3. \A p \in Places : p[1] \notin {"pool", "lost"} => p \in InUse
  BY Heads DEF InUse
<1>4. /\ Kept \in InUse
      /\ \A i \in 1..MaxInputs : Input(i) \in InUse
      /\ \A j \in 1..MaxOutputs : Output(j) \in InUse
      /\ \A s \in Sockets(graph) : Produced(s) \in InUse /\ Caller(s) \in InUse
      /\ \A n \in NodesOf(graph) : Store(n) \in InUse
  BY <1>3, PlaceFacts, Heads
<1> QED
  BY <1>1, <1>2, <1>4, PlaceFacts

\* While a node runs, a place holds what is due there; with a store that was
\* not full, perhaps less.
LEMMA DueIsHeld ==
    ASSUME EvalInductive, StateIsWhole, DueIsThere, Evaluating, NEW p \in InUse
    PROVE  /\ ShapesAt(p) \subseteq Due(graph, at, phase, taken, turn, p)
           /\ full => ShapesAt(p) = Due(graph, at, phase, taken, turn, p)
<1>0. Going /\ at \in NodesOf(graph) /\ graph \in Graphs
  BY NodeFacts DEF Going, Evaluating
<1>1. CASE p = Kept
  BY <1>0, <1>1, DueAt DEF DueIsThere
<1>2. CASE \E i \in 1..MaxInputs : p = Input(i)
  BY <1>0, <1>2, DueAt DEF DueIsThere
<1>3. CASE \E j \in 1..MaxOutputs : p = Output(j)
  BY <1>0, <1>3, DueAt DEF DueIsThere
<1>4. CASE \E s \in Sockets(graph) : p = Produced(s)
  BY <1>0, <1>4, DueAt DEF DueIsThere
<1>5. CASE \E n \in NodesOf(graph) : p = Store(n)
  <2>1. PICK n \in NodesOf(graph) : p = Store(n)
    BY <1>5
  <2>2. Due(graph, at, phase, taken, turn, p) = StoreDue(graph, at, phase, n)
    BY <2>1, DueAt
  <2>3. full => ShapesAt(p) = StoreDue(graph, at, phase, n)
    BY <1>0, <2>1 DEF DueIsThere
  <2>4. ShapesAt(p) \subseteq StoreDue(graph, at, phase, n)
    <3>1. ShapesAt(p) \subseteq StateShapes(graph, n)
      BY <2>1 DEF StateIsWhole
    <3>2. CASE n # at \/ phase = "state"
      BY <3>1, <3>2 DEF StoreDue
    <3>3. CASE n = at /\ phase # "state"
      <4>1. CASE KeepsState(graph, at)
        <5>1. phase \in {"inputs", "outputs", "publish"} /\ Stateful(at)
          BY <3>3, <4>1, OfThisGraph DEF Evaluating
        <5>2. holds[p] = {}
          BY <2>1, <3>3, <5>1 DEF EvalInductive, NothingInTheWay
        <5> QED
          BY <5>2 DEF ShapesAt
      <4>2. CASE ~KeepsState(graph, at)
        BY <3>1, <3>3, <4>2 DEF StateShapes
      <4> QED
        BY <4>1, <4>2
    <3> QED
      BY <3>2, <3>3
  <2> QED
    BY <2>2, <2>3, <2>4
<1>6. CASE \E s \in Sockets(graph) : p = Caller(s)
  <2>1. holds[p] = {}
    BY <1>6, NodeFacts, PlaceFacts
  <2> QED
    BY <1>6, <2>1, DueAt DEF ShapesAt
<1> QED
  BY <1>1, <1>2, <1>3, <1>4, <1>5, <1>6, UsedPlaces

LEMMA LiveIsFinite ==
    ASSUME EvalTypeOK, NEW s \in Shapes
    PROVE  IsFiniteSet(Live(s)) /\ Cardinality(Live(s)) \in Nat
<1>1. allocated[s] \in Nat
  BY DEF EvalTypeOK
<1>2. IsFiniteSet(0..(allocated[s] - 1))
  BY <1>1, FS_Interval
<1>3. IsFiniteSet({s})
  BY FS_Singleton
<1>4. IsFiniteSet({s} \X (0..(allocated[s] - 1)))
  BY <1>2, <1>3, FS_Product
<1>5. Live(s) \in SUBSET ({s} \X (0..(allocated[s] - 1)))
  BY DEF Live
<1> QED
  BY <1>4, <1>5, FS_Subset, FS_CardinalityType

\* A point that holds all that is due has room: what is due is there.
LEMMA HereHasRoom ==
    ASSUME EvalInductive, StateIsWhole, DueIsThere, Evaluating, full
    PROVE  Room(at, phase, taken, turn)
<1> SUFFICES ASSUME NEW s \in Shapes
             PROVE  /\ IsFiniteSet(Claims(at, phase, taken, turn, s))
                    /\ Cardinality(Claims(at, phase, taken, turn, s)) <= Cardinality(Live(s))
  BY DEF Room
<1> DEFINE C == Claims(at, phase, taken, turn, s)
           f == [p \in C |-> CHOOSE t \in holds[p] : t[1] = s]
<1>0. /\ EvalTypeOK /\ OneOwner /\ Numbered
      /\ holds \in [Places -> SUBSET Textures] /\ allocated \in [Shapes -> Nat]
      /\ Lost \in Places
  BY NodeFacts, PlaceFacts
<1>1. ASSUME NEW p \in C
      PROVE  /\ p \in Places /\ p # Lost /\ f[p] \in holds[p] /\ f[p][1] = s
             /\ f[p] \in Live(s)
  <2>1. p \in InUse /\ s \in Due(graph, at, phase, taken, turn, p)
    BY DEF Claims
  <2>2. s \in ShapesAt(p)
    BY <2>1, DueIsHeld
  <2>3. PICK t \in holds[p] : t[1] = s
    BY <2>2 DEF ShapesAt
  <2>4. f[p] \in holds[p] /\ f[p][1] = s
    BY <2>3
  <2>5. p \in Places /\ p # Lost
    BY <2>1 DEF InUse
  <2> HIDE DEF f
  <2>6. f[p] \in Textures /\ f[p][2] < allocated[s]
    BY <1>0, <2>4, <2>5 DEF Numbered
  <2>7. f[p] = <<s, f[p][2]>> /\ f[p][2] \in Nat
    BY <2>4, <2>6 DEF Textures
  <2>8. f[p][2] \in 0..(allocated[s] - 1)
    BY <1>0, <2>6, <2>7
  <2>9. f[p] \notin holds[Lost]
    BY <1>0, <2>4, <2>5 DEF OneOwner
  <2>10. f[p] \in {s} \X (0..(allocated[s] - 1))
    <3>1. \A k \in 0..(allocated[s] - 1) : <<s, k>> \in {s} \X (0..(allocated[s] - 1))
      OBVIOUS
    <3> QED
      BY <2>7, <2>8, <3>1, Zenon
  <2> QED
    BY <2>4, <2>5, <2>9, <2>10 DEF Live
<1>2. DOMAIN f = C /\ f = [p \in C |-> f[p]]
  OBVIOUS
<1> HIDE DEF f, C
<1>3. f \in [C -> Live(s)]
  BY <1>1, <1>2
<1>4. \A p, q \in C : f[p] = f[q] => p = q
  BY <1>0, <1>1 DEF OneOwner
<1>5. f \in Injection(C, Live(s))
  BY <1>3, <1>4, Fun_IsInj
<1>6. IsFiniteSet(C) /\ Cardinality(C) <= Cardinality(Live(s))
  BY <1>0, <1>5, LiveIsFinite, FS_Injection
<1> QED
  BY <1>6 DEF C

\* With a frame completed from a full store and nothing lost since, the pool
\* has a texture for whichever place is the last to be served at a point.
LEMMA PoolServes ==
    ASSUME EvalInductive, SingleTextures, SettledHasRoom, settled,
           NEW n \in NodesOf(graph), NEW ph \in {"inputs", "outputs"},
           NEW tk \in SUBSET (1..MaxInputs), NEW tn \in 1..(MaxOutputs + 1),
           IsPoint(graph, n, ph, tk, tn),
           \A p \in InUse : ShapesAt(p) \subseteq Due(graph, n, ph, tk, tn, p),
           NEW last \in InUse, holds[last] = {},
           NEW s \in Shapes, s \in Due(graph, n, ph, tk, tn, last)
    PROVE  ~Exhausted(s)
<1> SUFFICES ASSUME Exhausted(s)
             PROVE  FALSE
  OBVIOUS
<1> DEFINE C == Claims(n, ph, tk, tn, s)
           f == [t \in Live(s) |-> CHOOSE p \in InUse : t \in holds[p]]
<1>1. IsFiniteSet(C) /\ Cardinality(C) <= Cardinality(Live(s))
  BY DEF SettledHasRoom, Room
<1>2. ASSUME NEW t \in Live(s)
      PROVE  /\ f[t] \in InUse /\ t \in holds[f[t]] /\ t[1] = s
             /\ f[t] \in C \ {last}
  <2>1. t \in {s} \X (0..(allocated[s] - 1)) /\ t \notin holds[Lost]
    BY DEF Live
  <2>2. t[1] = s
    BY <2>1
  <2>3. \E p \in Places : t \in holds[p]
    BY <2>1 DEF EvalInductive, AllOwned, Contents
  <2>4. t \notin holds[Pool]
    BY <2>2 DEF Exhausted
  <2>5. \E p \in InUse : t \in holds[p]
    BY <2>1, <2>3, <2>4 DEF InUse
  <2>6. f[t] \in InUse /\ t \in holds[f[t]]
    BY <2>5
  <2> HIDE DEF f
  <2>7. s \in ShapesAt(f[t])
    BY <2>2, <2>6 DEF ShapesAt
  <2>8. f[t] # last
    BY <2>6
  <2>9. f[t] \in C
    BY <2>6, <2>7 DEF Claims
  <2> QED
    BY <2>2, <2>6, <2>8, <2>9
<1>3. f = [t \in Live(s) |-> f[t]]
  OBVIOUS
<1>4. last \in C
  BY DEF Claims
<1> HIDE DEF f, C
<1>5. f \in [Live(s) -> C \ {last}]
  BY <1>2, <1>3
<1>6. \A t, u \in Live(s) : f[t] = f[u] => t = u
  BY <1>2 DEF SingleTextures
<1>7. f \in Injection(Live(s), C \ {last})
  BY <1>5, <1>6, Fun_IsInj
<1>8. IsFiniteSet(C \ {last}) /\ Cardinality(C \ {last}) = Cardinality(C) - 1
  BY <1>1, <1>4, FS_RemoveElement
<1>9. Cardinality(Live(s)) <= Cardinality(C \ {last})
  BY <1>7, <1>8, FS_Injection
<1>10. Cardinality(C) \in Nat /\ Cardinality(Live(s)) \in Nat
  BY <1>1, FS_CardinalityType, LiveIsFinite DEF EvalInductive
<1> QED
  BY <1>1, <1>8, <1>9, <1>10

\* What Supply hands out has the shape asked for; it is new only if the pool
\* has none.
LEMMA Supplied ==
    ASSUME EvalTypeOK, Numbered, NEW s \in Shapes
    PROVE  /\ Supply(s)[1] = s
           /\ ~Exhausted(s) => Supply(s) # <<s, allocated[s]>>
<1> DEFINE free == {t \in holds[Pool] : t[1] = s}
<1>1. CASE free = {}
  <2>1. Supply(s) = <<s, allocated[s]>>
    BY <1>1 DEF Supply
  <2>2. Exhausted(s)
    BY <1>1 DEF Exhausted
  <2> QED
    BY <2>1, <2>2
<1>2. CASE free # {}
  <2>1. Supply(s) \in free
    BY <1>2 DEF Supply
  <2>2. Supply(s) \in holds[Pool] /\ Supply(s)[1] = s
    BY <2>1
  <2>3. Supply(s)[2] < allocated[s] /\ allocated[s] \in Nat
    BY <2>2, PlaceFacts DEF Numbered, EvalTypeOK
  <2>4. Supply(s) # <<s, allocated[s]>>
    BY <2>3
  <2> QED
    BY <2>2, <2>4
<1> QED
  BY <1>1, <1>2

\* A value acquired in part has one texture of each of its first shapes; no
\* texture is created if none of its shapes is missing from the pool.
LEMMA FirstFacts ==
    ASSUME EvalTypeOK, Numbered, NEW type \in Types, NEW n, n \in 0..Len(ShapesOf[type])
    PROVE  /\ \A t, u \in First(n, type) : t[1] = u[1] => t = u
           /\ \A t \in First(n, type) : t[1] \in ShapesIn(type)
           /\ (\A s \in ShapesIn(type) : ~Exhausted(s)) =>
                 \A s \in Shapes : <<s, allocated[s]>> \notin First(n, type)
           /\ {t[1] : t \in Whole(type)} = ShapesIn(type)
<1> DEFINE m == Len(ShapesOf[type])
<1>1. /\ m \in Nat /\ n \in 0..m
      /\ \A k \in 1..m : ShapesOf[type][k] \in ShapesIn(type)
      /\ ShapesIn(type) \subseteq Shapes
  BY ShapesInTable
<1>2. /\ Whole(type) = {Supply(ShapesOf[type][k]) : k \in 1..m}
      /\ First(n, type) = {Supply(ShapesOf[type][k]) : k \in 1..n}
      /\ ShapesIn(type) = {ShapesOf[type][k] : k \in 1..m}
  BY DEF Whole, First, ShapesIn
<1> HIDE DEF m
<1>3. \A k \in 1..n : k \in 1..m
  BY <1>1
<1>4. \A k \in 1..m :
          /\ Supply(ShapesOf[type][k])[1] = ShapesOf[type][k]
          /\ ShapesOf[type][k] \in ShapesIn(type)
          /\ ~Exhausted(ShapesOf[type][k]) =>
                Supply(ShapesOf[type][k]) # <<ShapesOf[type][k], allocated[ShapesOf[type][k]]>>
  BY <1>1, Supplied
<1>5. {t[1] : t \in Whole(type)} = ShapesIn(type)
  BY <1>2, <1>4
<1>6. ASSUME NEW t \in First(n, type)
      PROVE  t[1] \in ShapesIn(type) /\ t = Supply(t[1])
  BY <1>2, <1>3, <1>4
<1>7. \A t, u \in First(n, type) : t[1] = u[1] => t = u
  BY <1>6
<1>8. ASSUME \A s \in ShapesIn(type) : ~Exhausted(s), NEW s \in Shapes,
             <<s, allocated[s]>> \in First(n, type)
      PROVE  FALSE
  <2>1. s \in ShapesIn(type) /\ Supply(s) = <<s, allocated[s]>>
    BY <1>6, <1>8
  <2> QED
    BY <1>8, <2>1, Supplied
<1> QED
  BY <1>5, <1>6, <1>7, <1>8

\* Points that have been passed have room, whatever the step, if it loses no
\* texture and passes no point but the one it leaves.
LEMMA RoomStays ==
    ASSUME EvalInductive, PassedHaveRoom, SettledHasRoom, UNCHANGED graph,
           allocated' \in [Shapes -> Nat], \A s \in Shapes : allocated[s] <= allocated'[s],
           Going' \/ settled' => holds'[Lost] = holds[Lost],
           Going' => full' = full /\ Going,
           settled' => settled \/ (Going /\ full /\ \A n \in NodesOf(graph) : n < at),
           Going' /\ full => Room(at, phase, taken, turn),
           \A n \in NodesOf(graph), ph \in {"inputs", "outputs"},
              tk \in SUBSET (1..MaxInputs), tn \in 1..(MaxOutputs + 1) :
               Going' /\ IsPoint(graph, n, ph, tk, tn) /\ Passed(n, ph, tk, tn)' =>
                   \/ Passed(n, ph, tk, tn)
                   \/ n = at /\ ph = phase /\ tk = taken /\ tn = turn
    PROVE  PassedHaveRoom' /\ SettledHasRoom'
<1>0. /\ EvalTypeOK /\ allocated \in [Shapes -> Nat] /\ graph' = graph /\ Places' = Places
  BY GraphStays DEF EvalInductive, EvalTypeOK
<1>1. ASSUME NEW n, NEW ph, NEW tk, NEW tn,
             holds'[Lost] = holds[Lost], Room(n, ph, tk, tn)
      PROVE  Room(n, ph, tk, tn)'
  <2> SUFFICES ASSUME NEW s \in Shapes
               PROVE  /\ IsFiniteSet(Claims(n, ph, tk, tn, s)')
                      /\ Cardinality(Claims(n, ph, tk, tn, s)') <= Cardinality(Live(s)')
    BY DEF Room
  <2>1. Claims(n, ph, tk, tn, s)' = Claims(n, ph, tk, tn, s)
    BY <1>0 DEF Claims, InUse
  <2>2. IsFiniteSet(Claims(n, ph, tk, tn, s))
        /\ Cardinality(Claims(n, ph, tk, tn, s)) <= Cardinality(Live(s))
    BY <1>1 DEF Room
  <2>3. 0..(allocated[s] - 1) \subseteq 0..(allocated'[s] - 1)
    BY <1>0
  <2>4. Live(s) \in SUBSET Live(s)'
    BY <1>1, <2>3 DEF Live
  <2>5. IsFiniteSet(Live(s)')
    <3>1. IsFiniteSet(0..(allocated'[s] - 1))
      <4>1. 0 \in Int /\ allocated'[s] - 1 \in Int
        OBVIOUS
      <4> QED
        BY <4>1, FS_Interval
    <3>2. IsFiniteSet({s} \X (0..(allocated'[s] - 1)))
      BY <3>1, FS_Singleton, FS_Product
    <3>3. Live(s)' \in SUBSET ({s} \X (0..(allocated'[s] - 1)))
      BY DEF Live
    <3> QED
      BY <3>2, <3>3, FS_Subset
  <2>6. Cardinality(Live(s)) <= Cardinality(Live(s)')
    BY <2>4, <2>5, FS_Subset
  <2>7. /\ Cardinality(Live(s)) \in Nat /\ Cardinality(Live(s)') \in Nat
        /\ Cardinality(Claims(n, ph, tk, tn, s)) \in Nat
    BY <1>0, <2>2, <2>5, LiveIsFinite, FS_CardinalityType
  <2> QED
    BY <2>1, <2>2, <2>6, <2>7
<1>2. PassedHaveRoom'
  <2> SUFFICES ASSUME Going', full',
                      NEW n \in NodesOf(graph), NEW ph \in {"inputs", "outputs"},
                      NEW tk \in SUBSET (1..MaxInputs), NEW tn \in 1..(MaxOutputs + 1),
                      IsPoint(graph, n, ph, tk, tn), Passed(n, ph, tk, tn)'
               PROVE  Room(n, ph, tk, tn)'
    BY <1>0 DEF PassedHaveRoom
  <2>1. Going /\ full /\ holds'[Lost] = holds[Lost]
    OBVIOUS
  <2>2. CASE Passed(n, ph, tk, tn)
    <3>1. Room(n, ph, tk, tn)
      BY <2>1, <2>2 DEF PassedHaveRoom
    <3> QED
      BY <1>1, <2>1, <3>1
  <2>3. CASE n = at /\ ph = phase /\ tk = taken /\ tn = turn
    <3>1. Room(n, ph, tk, tn)
      BY <2>1, <2>3
    <3> QED
      BY <1>1, <2>1, <3>1
  <2> QED
    BY <2>2, <2>3
<1>3. SettledHasRoom'
  <2> SUFFICES ASSUME settled',
                      NEW n \in NodesOf(graph), NEW ph \in {"inputs", "outputs"},
                      NEW tk \in SUBSET (1..MaxInputs), NEW tn \in 1..(MaxOutputs + 1),
                      IsPoint(graph, n, ph, tk, tn)
               PROVE  Room(n, ph, tk, tn)'
    BY <1>0 DEF SettledHasRoom
  <2>1. holds'[Lost] = holds[Lost]
    OBVIOUS
  <2>2. Room(n, ph, tk, tn)
    <3>1. CASE settled
      BY <3>1 DEF SettledHasRoom
    <3>2. CASE Going /\ full /\ n < at
      <4>1. Passed(n, ph, tk, tn)
        BY <3>2 DEF Passed
      <4> QED
        BY <3>2, <4>1 DEF PassedHaveRoom
    <3> QED
      BY <3>1, <3>2
  <2> QED
    BY <1>1, <2>1, <2>2
<1> QED
  BY <1>2, <1>3

\* remaining tells which values are wanted, as the graph does.
LEMMA Wanting ==
    ASSUME EvalInductive, Evaluating, NEW s \in Sockets(graph)
    PROVE  /\ remaining[s] > 0 <=> ToCome(graph, s, at, taken) # {} \/ s \in graph.extras
           /\ ~(s[1] < at) => /\ IsWanted(s) <=> EverWanted(graph, s)
                              /\ ToCome(graph, s, at, taken) = UsesIn(graph, s)
<1>0. /\ graph \in Graphs /\ at \in NodesOf(graph) /\ at \in Nat
      /\ s[1] \in Nat /\ UsesIn(graph, s) = Uses(s) /\ Result = ResultOf(graph)
  BY NodeFacts, GraphFacts, OfThisGraph
<1>1. Pending(s) = ToCome(graph, s, at, taken)
  BY <1>0 DEF Pending, ToCome
<1>2. remaining[s] = Cardinality(Pending(s)) + Extra(s)
  BY DEF EvalInductive, RemainingIsExact
<1>3. /\ Cardinality(Pending(s)) \in Nat
      /\ Cardinality(Pending(s)) = 0 <=> Pending(s) = {}
  <2>1. Pending(s) \subseteq Uses(s)
    BY DEF Pending
  <2> QED
    BY <1>0, <2>1, UsesAreFinite, FS_EmptySet
<1>4. remaining[s] > 0 <=> ToCome(graph, s, at, taken) # {} \/ s \in graph.extras
  BY <1>1, <1>2, <1>3 DEF Extra
<1>5. ASSUME ~(s[1] < at)
      PROVE  ToCome(graph, s, at, taken) = UsesIn(graph, s)
  <2>1. ASSUME NEW u \in Uses(s)
        PROVE  u[1] > at
    <3>1. /\ u[1] \in NodesOf(graph) /\ u[2] \in Connected(u[1])
          /\ graph.source[u[1]][u[2]] = s
      BY <1>0, UsesAreFinite
    <3>2. u[1] \in Nat /\ s[1] < u[1]
      BY <1>0, <3>1, GraphFacts
    <3> QED
      BY <1>0, <1>5, <3>2
  <2> QED
    BY <1>0, <2>1 DEF ToCome
<1> QED
  BY <1>0, <1>4, <1>5 DEF IsWanted, EverWanted

-----------------------------------------------------------------------------
\* Nothing is put together that was apart.
LEMMA StaySingle ==
    ASSUME SingleTextures, UNCHANGED graph,
           \A p \in InUse : \/ holds'[p] = {}
                            \/ \E q \in InUse : holds'[p] \subseteq holds[q]
    PROVE  SingleTextures'
<1>1. InUse' = InUse
  BY GraphStays DEF InUse
<1> QED
  BY <1>1 DEF SingleTextures

\* What a frame that is not going has to show.
LEMMA NotGoing ==
    ASSUME EvalInductive, Recycling, UNCHANGED graph, ~Going',
           allocated' \in [Shapes -> Nat], \A s \in Shapes : allocated[s] <= allocated'[s],
           settled' => holds'[Lost] = holds[Lost],
           settled' => settled \/ (Going /\ full /\ \A n \in NodesOf(graph) : n < at),
           \A n \in NodesOf(graph) :
               holds'[Store(n)] = {} \/ holds'[Store(n)] = holds[Store(n)],
           SingleTextures'
    PROVE  Recycling'
<1>1. StateIsWhole'
  BY DEF Recycling, StateIsWhole, ShapesAt
<1>2. DueIsThere' /\ NodeIsAtWork'
  BY DEF DueIsThere, NodeIsAtWork, Going, Evaluating
<1>3. PassedHaveRoom' /\ SettledHasRoom'
  BY RoomStays DEF Recycling
<1> QED
  BY <1>1, <1>2, <1>3 DEF Recycling

LEMMA FailingRecycles ==
    ASSUME EvalInductive, Recycling, NEW got, NEW gone, Err(got, gone)
    PROVE  Recycling'
<1>0. /\ allocated \in [Shapes -> Nat] /\ holds \in [Places -> SUBSET Textures]
      /\ UNCHANGED graph /\ phase' = "failed" /\ settled' = (settled /\ gone = {})
  BY DEF EvalInductive, EvalTypeOK, Err
<1>1. /\ allocated' \in [Shapes -> Nat]
      /\ \A s \in Shapes : allocated[s] <= allocated'[s]
  BY <1>0 DEF Err
<1>2. \A p \in Places \ {Pool} :
          holds'[p] = IF p = Lost THEN holds[Lost] \cup gone
                      ELSE IF p \in NodePlaces THEN {} ELSE holds[p]
  BY DEF Err
<1>3. settled' => holds'[Lost] = holds[Lost]
  BY <1>0, <1>2, PlaceFacts, Heads
<1>4. \A p \in InUse : holds'[p] = {} \/ holds'[p] = holds[p]
  BY <1>2 DEF InUse
<1>5. SingleTextures'
  BY <1>0, <1>4, StaySingle DEF Recycling
<1>6. \A n \in NodesOf(graph) :
          holds'[Store(n)] = {} \/ holds'[Store(n)] = holds[Store(n)]
  BY <1>4, UsedPlaces
<1> QED
  BY <1>0, <1>1, <1>3, <1>5, <1>6, NotGoing DEF Going

LEMMA DrainingRecycles ==
    ASSUME EvalInductive, Recycling, UNCHANGED <<graph, allocated, settled>>, ~Going',
           NEW from \in SUBSET InUse, holds' = Moved(from, Pool)
    PROVE  Recycling'
<1>0. /\ allocated \in [Shapes -> Nat] /\ EvalTypeOK /\ OneOwner /\ AllOwned /\ Numbered
      /\ from \in SUBSET Places /\ Pool \in Places /\ Lost \notin from /\ Lost \in Places
      /\ Lost # Pool
  BY PlaceFacts, Heads DEF EvalInductive, EvalTypeOK, InUse
<1>1. /\ \A p \in from \ {Pool} : holds'[p] = {}
      /\ \A p \in Places \ from : p # Pool => holds'[p] = holds[p]
  BY <1>0, MovedFacts
<1>2. \A p \in InUse : holds'[p] = {} \/ holds'[p] = holds[p]
  BY <1>1 DEF InUse
<1>3. SingleTextures'
  BY <1>2, StaySingle DEF Recycling
<1>4. \A n \in NodesOf(graph) :
          holds'[Store(n)] = {} \/ holds'[Store(n)] = holds[Store(n)]
  BY <1>2, UsedPlaces
<1>5. holds'[Lost] = holds[Lost]
  BY <1>0, <1>1
<1>6. allocated' \in [Shapes -> Nat] /\ \A s \in Shapes : allocated[s] <= allocated'[s]
  BY <1>0
<1> QED
  BY <1>3, <1>4, <1>5, <1>6, NotGoing

LEMMA ReleasingRecycles ==
    ASSUME EvalInductive, Recycling, Abort \/ ReleaseEvaluated \/ ClearState
    PROVE  Recycling'
<1>1. ProducedPlaces \subseteq InUse /\ CallerPlaces \subseteq InUse /\ StorePlaces \subseteq InUse
  BY UsedPlaces, PlaceFacts
<1>2. CASE Abort
  BY <1>1, <1>2, DrainingRecycles DEF Abort, Drained, Going
<1>3. CASE ReleaseEvaluated
  BY <1>1, <1>3, DrainingRecycles DEF ReleaseEvaluated, Going
<1>4. CASE ClearState
  BY <1>1, <1>4, DrainingRecycles DEF ClearState, Going
<1> QED
  BY <1>2, <1>3, <1>4

LEMMA LacksResultRecycles ==
    ASSUME EvalInductive, Recycling, LacksResult
    PROVE  Recycling'
<1>1. UNCHANGED <<graph, allocated, holds, settled>> /\ ~Going' /\ allocated \in [Shapes -> Nat]
  BY DEF LacksResult, Going, EvalInductive, EvalTypeOK
<1>2. SingleTextures'
  BY <1>1, StaySingle DEF Recycling
<1>3. allocated' \in [Shapes -> Nat] /\ \A s \in Shapes : allocated[s] <= allocated'[s]
  BY <1>1
<1> QED
  BY <1>1, <1>2, <1>3, NotGoing

\* A frame that is delivered has passed every point.
LEMMA DeliverRecycles ==
    ASSUME EvalInductive, Recycling, Deliver
    PROVE  Recycling'
<1>0. /\ UNCHANGED <<graph, allocated>> /\ ~Going' /\ Going /\ phase = "deliver"
      /\ settled' = (settled \/ full) /\ allocated \in [Shapes -> Nat] /\ graph \in Graphs
  BY DEF Deliver, Going, EvalInductive, EvalTypeOK
<1>1. \A p \in Places \ {Pool} :
          holds'[p] = IF p \in ProducedPlaces THEN {}
                      ELSE IF p[1] = "caller" /\ p[2] \in Returned THEN holds[Produced(p[2])]
                      ELSE holds[p]
  BY DEF Deliver
<1>2. Returned \subseteq Sockets(graph)
  BY <1>0, GraphFacts DEF Returned
<1>3. \A p \in InUse : holds'[p] = {} \/ \E q \in InUse : holds'[p] \subseteq holds[q]
  BY <1>1, <1>2, UsedPlaces DEF InUse
<1>4. SingleTextures'
  BY <1>0, <1>3, StaySingle DEF Recycling
<1>5. \A n \in NodesOf(graph) : holds'[Store(n)] = holds[Store(n)]
  <2>1. ASSUME NEW n \in NodesOf(graph)
        PROVE  Store(n) \in Places \ {Pool} /\ Store(n) \notin ProducedPlaces
    BY PlaceFacts, Heads
  <2> QED
    BY <1>1, <2>1, Heads
<1>6. holds'[Lost] = holds[Lost]
  <2>1. Lost \in Places \ {Pool} /\ Lost \notin ProducedPlaces
    BY PlaceFacts, Heads
  <2> QED
    BY <1>1, <2>1, Heads
<1>7. \A n \in NodesOf(graph) : n < at
  <2> DEFINE c == Len(graph.kind)
  <2>1. NodesOf(graph) = 1..c /\ c \in Nat
    BY <1>0, GraphFacts
  <2>2. at = c + 1
    BY <1>0 DEF Recycling, NodeIsAtWork
  <2> HIDE DEF c
  <2> QED
    BY <2>1, <2>2
<1>8. allocated' \in [Shapes -> Nat] /\ \A s \in Shapes : allocated[s] <= allocated'[s]
  BY <1>0
<1> QED
  BY <1>0, <1>4, <1>5, <1>6, <1>7, <1>8, NotGoing

\* A frame begins with what the states hold.
LEMMA BeginRecycles ==
    ASSUME EvalInductive, Recycling, Begin
    PROVE  Recycling'
<1>0. /\ phase = "idle" /\ at' = 1 /\ taken' = {} /\ turn' = 1
      /\ phase' = IF KeepsState(graph, 1) THEN "state" ELSE "inputs"
      /\ UNCHANGED <<graph, holds, allocated, settled>>
      /\ full' = (\A n \in NodesOf(graph) : Stateful(n) => holds[Store(n)] # {})
      /\ graph \in Graphs /\ 1 \in NodesOf(graph) /\ allocated \in [Shapes -> Nat]
  <2>1. graph \in Graphs /\ allocated \in [Shapes -> Nat]
    BY DEF EvalInductive, EvalTypeOK
  <2> DEFINE c == Len(graph.kind)
  <2>2. NodesOf(graph) = 1..c /\ c \in Nat \ {0}
    BY <2>1, GraphFacts
  <2> HIDE DEF c
  <2>3. 1 \in NodesOf(graph)
    BY <2>2
  <2> QED
    BY <2>1, <2>3, OfThisGraph DEF Begin, EnterNode
<1>1. /\ \A p \in NodePlaces : ShapesAt(p)' = {}
      /\ \A s \in Sockets(graph) : ShapesAt(Produced(s))' = {}
      /\ \A n \in NodesOf(graph) : ShapesAt(Store(n))' = ShapesAt(Store(n))
  BY <1>0, PlaceFacts DEF EvalInductive, ElsewhereIsEmpty, ShapesAt
<1>2. SingleTextures' /\ StateIsWhole'
  BY <1>0, <1>1, StaySingle DEF Recycling, StateIsWhole
<1>3. \A s \in Sockets(graph) : ProducedDue(graph, 1, {}, s) = {}
  <2>1. \A s \in Sockets(graph) : s[1] \in Nat /\ s[1] >= 1
    BY <1>0, GraphFacts DEF NodesOf
  <2> QED
    BY <2>1 DEF ProducedDue
<1>4. KeptDue(graph, 1, phase') = {}
  BY <1>0, OfThisGraph DEF KeptDue
<1>5. /\ \A i : InputDue(graph, 1, phase', {}, i) = {}
      /\ \A j : OutputDue(graph, 1, phase', 1, j) = {}
  BY <1>0 DEF InputDue, OutputDue
<1>6. ASSUME full', NEW n \in NodesOf(graph)
      PROVE  ShapesAt(Store(n)) = StoreDue(graph, 1, phase', n)
  <2>1. ShapesAt(Store(n)) \in {{}, StateShapes(graph, n)}
    BY DEF Recycling, StateIsWhole
  <2>2. CASE KeepsState(graph, n)
    <3>1. holds[Store(n)] # {}
      BY <1>0, <1>6, <2>2, OfThisGraph
    <3>2. ShapesAt(Store(n)) = StateShapes(graph, n)
      BY <2>1, <3>1 DEF ShapesAt
    <3>3. n = 1 => phase' = "state"
      BY <1>0, <2>2
    <3> QED
      BY <3>2, <3>3 DEF StoreDue
  <2>3. CASE ~KeepsState(graph, n)
    BY <2>1, <2>3 DEF StateShapes, StoreDue
  <2> QED
    BY <2>2, <2>3
<1>7. DueIsThere'
  BY <1>0, <1>1, <1>3, <1>4, <1>5, <1>6, PlaceFacts DEF DueIsThere
<1>8. NodeIsAtWork'
  BY <1>0 DEF NodeIsAtWork, InOrder
<1>9. PassedHaveRoom' /\ SettledHasRoom'
  <2>1. SettledHasRoom'
    <3>2. Places' = Places /\ UNCHANGED <<graph, holds, allocated, settled>>
      BY <1>0, GraphStays
    <3>3. ASSUME NEW n, NEW ph, NEW tk, NEW tn
          PROVE  Room(n, ph, tk, tn)' = Room(n, ph, tk, tn)
      BY <3>2 DEF Room, Claims, InUse, Live
    <3> QED
      BY <3>2, <3>3 DEF Recycling, SettledHasRoom
  <2>2. PassedHaveRoom'
    <3>1. ASSUME NEW n \in NodesOf(graph), NEW ph \in {"inputs", "outputs"},
                 NEW tk, NEW tn
          PROVE  ~Passed(n, ph, tk, tn)'
      <4>1. n \in Nat /\ n >= 1
        BY DEF NodesOf
      <4> QED
        BY <1>0, <4>1 DEF Passed
    <3> QED
      BY <1>0, <3>1 DEF PassedHaveRoom
  <2> QED
    BY <2>1, <2>2
<1> QED
  BY <1>2, <1>7, <1>8, <1>9 DEF Recycling

-----------------------------------------------------------------------------
\* A node acquires a value where it has none.
LEMMA Drawn ==
    ASSUME EvalInductive, Recycling, Evaluating, NEW type \in Types, NEW place \in NodePlaces,
           holds[place] = {}, Acquire(Whole(type), place), UNCHANGED graph
    PROVE  /\ SingleTextures' /\ StateIsWhole'
           /\ \A p \in InUse :
                ShapesAt(p)' = IF p = place THEN ShapesIn(type) ELSE ShapesAt(p)
           /\ holds'[Lost] = holds[Lost]
           /\ allocated' \in [Shapes -> Nat] /\ \A s \in Shapes : allocated[s] <= allocated'[s]
<1>0. /\ EvalTypeOK /\ OneOwner /\ AllOwned /\ Numbered /\ allocated \in [Shapes -> Nat]
      /\ place \in Places \ {Pool} /\ place # Lost /\ place \in InUse /\ InUse' = InUse
      /\ \A n \in NodesOf(graph) : Store(n) \in InUse /\ Store(n) # place
      /\ Lost \in Places /\ Lost # Pool
  BY NodeFacts, UsedPlaces, PlaceFacts, Heads, GraphStays DEF InUse
<1>1. /\ holds'[place] = holds[place] \cup Whole(type)
      /\ \A p \in Places \ {Pool, place} : holds'[p] = holds[p]
      /\ allocated' \in [Shapes -> Nat]
  <2>1. Fresh(Whole(type))
    BY <1>0, WholeIsFresh
  <2> QED
    BY <1>0, <2>1, Acquiring
<1>2. \A p \in InUse : holds'[p] = IF p = place THEN Whole(type) ELSE holds[p]
  BY <1>0, <1>1 DEF InUse
<1>3. /\ \A t, u \in Whole(type) : t[1] = u[1] => t = u
      /\ {t[1] : t \in Whole(type)} = ShapesIn(type)
  <2> DEFINE m == Len(ShapesOf[type])
  <2>1. m \in Nat /\ Whole(type) = First(m, type)
    BY ShapesInTable DEF Whole
  <2>2. m \in 0..m
    BY <2>1
  <2>3. /\ \A t, u \in First(m, type) : t[1] = u[1] => t = u
        /\ {t[1] : t \in Whole(type)} = ShapesIn(type)
    BY <1>0, <2>2, FirstFacts
  <2> HIDE DEF m
  <2> QED
    BY <2>1, <2>3
<1>4. SingleTextures'
  BY <1>0, <1>2, <1>3 DEF Recycling, SingleTextures
<1>5. \A p \in InUse :
          ShapesAt(p)' = IF p = place THEN ShapesIn(type) ELSE ShapesAt(p)
  BY <1>2, <1>3 DEF ShapesAt
<1>6. StateIsWhole'
  BY <1>0, <1>5 DEF Recycling, StateIsWhole
<1>7. \A s \in Shapes : allocated[s] <= allocated'[s]
  BY <1>0 DEF Acquire
<1> QED
  BY <1>0, <1>1, <1>4, <1>5, <1>6, <1>7

\* What is at a place moves to another, or back to the pool.
LEMMA Carried ==
    ASSUME EvalInductive, Recycling, NEW from \in InUse, NEW to \in InUse \cup {Pool},
           from # to, to = Pool \/ holds[to] = {}, \A n : to # Store(n),
           holds' = Moved({from}, to), UNCHANGED <<graph, allocated>>
    PROVE  /\ SingleTextures' /\ StateIsWhole'
           /\ \A p \in InUse :
                ShapesAt(p)' = IF p = from THEN {} ELSE IF p = to THEN ShapesAt(from)
                               ELSE ShapesAt(p)
           /\ holds'[Lost] = holds[Lost]
           /\ allocated' \in [Shapes -> Nat] /\ \A s \in Shapes : allocated[s] <= allocated'[s]
<1>0. /\ EvalTypeOK /\ OneOwner /\ AllOwned /\ Numbered /\ allocated \in [Shapes -> Nat]
      /\ {from} \in SUBSET Places /\ to \in Places /\ from # Lost /\ to # Lost /\ from # Pool
      /\ InUse' = InUse
      /\ Lost \in Places /\ Contents({from}) = holds[from]
      /\ \A n \in NodesOf(graph) : Store(n) \in InUse
  BY UsedPlaces, PlaceFacts, Heads, GraphStays DEF InUse, EvalInductive, EvalTypeOK, Contents
<1>1. /\ holds'[to] = holds[to] \cup Contents({from})
      /\ \A p \in {from} \ {to} : holds'[p] = {}
      /\ \A p \in Places \ {from} : p # to => holds'[p] = holds[p]
  <2> DEFINE source == {from}
  <2>1. source \in SUBSET Places /\ holds' = Moved(source, to)
    BY <1>0
  <2> HIDE DEF source
  <2>2. /\ holds'[to] = holds[to] \cup Contents(source)
        /\ \A p \in source \ {to} : holds'[p] = {}
        /\ \A p \in Places \ source : p # to => holds'[p] = holds[p]
    <3>1. /\ EvalTypeOK /\ OneOwner /\ AllOwned /\ Numbered /\ UNCHANGED <<graph, allocated>>
          /\ to \in Places
      BY <1>0
    <3> QED
      BY <2>1, <3>1, MovedFacts
  <2> QED
    BY <2>2 DEF source
<1>2. \A p \in InUse :
          holds'[p] = IF p = from THEN {} ELSE IF p = to THEN holds[from] ELSE holds[p]
  BY <1>0, <1>1 DEF InUse
<1>3. SingleTextures'
  BY <1>2, StaySingle DEF Recycling
<1>4. \A p \in InUse :
          ShapesAt(p)' = IF p = from THEN {} ELSE IF p = to THEN ShapesAt(from)
                         ELSE ShapesAt(p)
  BY <1>2 DEF ShapesAt
<1>5. StateIsWhole'
  BY <1>0, <1>4 DEF Recycling, StateIsWhole
<1>6. holds'[Lost] = holds[Lost]
  BY <1>0, <1>1
<1>7. allocated' \in [Shapes -> Nat] /\ \A s \in Shapes : allocated[s] <= allocated'[s]
  BY <1>0
<1> QED
  BY <1>3, <1>4, <1>5, <1>6, <1>7

LEMMA TakeStateRecycles ==
    ASSUME EvalInductive, Recycling, TakeState
    PROVE  Recycling'
<1>0. /\ phase = "state" /\ phase' = "inputs" /\ Evaluating /\ Going /\ Going' /\ KeepsState(graph, at)
      /\ UNCHANGED <<graph, at, taken, turn, full, settled>> /\ taken = {} /\ turn = 1
      /\ at \in NodesOf(graph) /\ graph \in Graphs
      /\ \A p \in NodePlaces : holds[p] = {}
      /\ Kind = graph.kind[at] /\ StateType[Kind] \in Types
      /\ Store(at) \in InUse /\ Kept \in InUse /\ Store(at) # Kept /\ \A n : Kept # Store(n)
      /\ Kept \in NodePlaces
  <2>1. phase = "state" /\ Evaluating /\ UNCHANGED <<graph, at, taken, turn, full, settled>>
        /\ phase' = "inputs"
    BY DEF TakeState, Evaluating
  <2>2. at \in NodesOf(graph) /\ graph \in Graphs /\ Stateful(at) /\ taken = {} /\ turn = 1
    BY <2>1, NodeFacts DEF EvalInductive, JustBegun
  <2>3. KeepsState(graph, at) /\ Kind = graph.kind[at] /\ StateType[Kind] \in Types
    BY <2>2, OfThisGraph, SourceFacts DEF Kind
  <2>4. \A p \in NodePlaces : holds[p] = {}
    BY <2>1 DEF EvalInductive, ElsewhereIsEmpty
  <2> QED
    BY <2>1, <2>2, <2>3, <2>4, UsedPlaces, PlaceFacts, Heads DEF Going
<1>1. StateShapes(graph, at) = ShapesIn(StateType[Kind]) /\ StateShapes(graph, at) # {}
  BY <1>0, ShapesInTable DEF StateShapes
<1>2. /\ SingleTextures' /\ StateIsWhole'
      /\ ShapesAt(Kept)' = StateShapes(graph, at)
      /\ \A p \in InUse \ {Kept, Store(at)} : ShapesAt(p)' = ShapesAt(p)
      /\ full => \A p \in InUse : p = Store(at) => ShapesAt(p)' = {}
      /\ holds'[Lost] = holds[Lost]
      /\ allocated' \in [Shapes -> Nat] /\ \A s \in Shapes : allocated[s] <= allocated'[s]
  <2>1. CASE holds[Store(at)] # {}
    <3>1. holds' = Moved({Store(at)}, Kept) /\ UNCHANGED <<graph, allocated>>
      BY <1>0, <2>1 DEF TakeState
    <3>2. ShapesAt(Store(at)) = StateShapes(graph, at)
      <4>1. ShapesAt(Store(at)) # {}
        BY <2>1 DEF ShapesAt
      <4> QED
        BY <1>0, <4>1 DEF Recycling, StateIsWhole
    <3>3. /\ SingleTextures' /\ StateIsWhole'
          /\ \A p \in InUse :
                ShapesAt(p)' = IF p = Store(at) THEN {} ELSE IF p = Kept THEN ShapesAt(Store(at))
                               ELSE ShapesAt(p)
          /\ holds'[Lost] = holds[Lost]
          /\ allocated' \in [Shapes -> Nat] /\ \A s \in Shapes : allocated[s] <= allocated'[s]
      <4> DEFINE from == Store(at)
      <4>1. from \in InUse /\ Kept \in InUse \cup {Pool} /\ from # Kept /\ holds[Kept] = {}
            /\ holds' = Moved({from}, Kept)
        BY <1>0, <3>1
      <4> HIDE DEF from
      <4>2. /\ SingleTextures' /\ StateIsWhole'
            /\ \A p \in InUse :
                ShapesAt(p)' = IF p = from THEN {} ELSE IF p = Kept THEN ShapesAt(from)
                               ELSE ShapesAt(p)
            /\ holds'[Lost] = holds[Lost]
            /\ allocated' \in [Shapes -> Nat] /\ \A s \in Shapes : allocated[s] <= allocated'[s]
        BY <1>0, <3>1, <4>1, Carried
      <4> QED
        BY <4>2 DEF from
    <3> QED
      BY <1>0, <3>2, <3>3
  <2>2. CASE holds[Store(at)] = {}
    <3>1. Acquire(Whole(StateType[Kind]), Kept)
      BY <1>0, <2>2 DEF TakeState
    <3>2. /\ SingleTextures' /\ StateIsWhole'
          /\ \A p \in InUse :
                ShapesAt(p)' = IF p = Kept THEN ShapesIn(StateType[Kind]) ELSE ShapesAt(p)
          /\ holds'[Lost] = holds[Lost]
          /\ allocated' \in [Shapes -> Nat] /\ \A s \in Shapes : allocated[s] <= allocated'[s]
      BY <1>0, <3>1, Drawn
    <3>3. full => FALSE
      <4>1. ShapesAt(Store(at)) = {}
        BY <2>2 DEF ShapesAt
      <4>2. full => ShapesAt(Store(at)) = StateShapes(graph, at)
        BY <1>0 DEF Recycling, DueIsThere, StoreDue
      <4> QED
        BY <1>1, <4>1, <4>2
    <3> QED
      BY <1>0, <1>1, <3>2, <3>3
  <2> QED
    BY <2>1, <2>2
<1>3. \A n \in NodesOf(graph) : full => ShapesAt(Store(n))' = StoreDue(graph, at, "inputs", n)
  <2>1. ASSUME NEW n \in NodesOf(graph), full
        PROVE  ShapesAt(Store(n))' = StoreDue(graph, at, "inputs", n)
    <3>1. Store(n) \in InUse \ {Kept}
      BY UsedPlaces, Heads
    <3>2. CASE n = at
      <4>1. Store(n) = Store(at)
        BY <3>2
      <4>2. ShapesAt(Store(n))' = {}
        BY <1>2, <2>1, <3>1, <4>1
      <4> QED
        BY <3>2, <4>2 DEF StoreDue
    <3>3. CASE n # at
      <4>1. Store(n) # Store(at)
        BY <3>3, Heads
      <4>2. ShapesAt(Store(n))' = ShapesAt(Store(n))
        BY <1>2, <3>1, <4>1
      <4>3. ShapesAt(Store(n)) = StateShapes(graph, n)
        BY <1>0, <2>1, <3>3 DEF Recycling, DueIsThere, StoreDue
      <4> QED
        BY <3>3, <4>2, <4>3 DEF StoreDue
    <3> QED
      BY <3>2, <3>3
  <2> QED
    BY <2>1
<1>4. KeptDue(graph, at, "inputs") = StateShapes(graph, at)
  BY <1>0 DEF KeptDue
<1>5. ASSUME NEW i \in 1..MaxInputs
      PROVE  ShapesAt(Input(i))' = InputDue(graph, at, "inputs", taken, i)
  <2>1. Input(i) \in InUse \ {Kept, Store(at)} /\ Input(i) \in NodePlaces
    BY UsedPlaces, PlaceFacts, Heads
  <2>2. ShapesAt(Input(i))' = {}
    BY <1>0, <1>2, <2>1 DEF ShapesAt
  <2> QED
    BY <1>0, <2>2 DEF InputDue
<1>6. ASSUME NEW j \in 1..MaxOutputs
      PROVE  ShapesAt(Output(j))' = OutputDue(graph, at, "inputs", turn, j)
  <2>1. Output(j) \in InUse \ {Kept, Store(at)} /\ Output(j) \in NodePlaces
    BY UsedPlaces, PlaceFacts, Heads
  <2>2. ShapesAt(Output(j))' = {}
    BY <1>0, <1>2, <2>1 DEF ShapesAt
  <2> QED
    BY <1>0, <2>2 DEF OutputDue
<1>7. ASSUME NEW s \in Sockets(graph)
      PROVE  ShapesAt(Produced(s))' = ProducedDue(graph, at, taken, s)
  <2>1. Produced(s) \in InUse \ {Kept, Store(at)}
    BY UsedPlaces, Heads
  <2>2. ShapesAt(Produced(s))' = ShapesAt(Produced(s))
    BY <1>2, <2>1
  <2> QED
    BY <1>0, <2>2 DEF Recycling, DueIsThere
<1>8. DueIsThere'
  BY <1>0, <1>2, <1>3, <1>4, <1>5, <1>6, <1>7 DEF DueIsThere
<1>9. NodeIsAtWork'
  BY <1>0 DEF Recycling, NodeIsAtWork, Evaluating
<1>10. PassedHaveRoom' /\ SettledHasRoom'
  <2>1. full => Room(at, phase, taken, turn)
    BY <1>0, HereHasRoom DEF Recycling
  <2>2. \A n, ph, tk, tn : Passed(n, ph, tk, tn)' => Passed(n, ph, tk, tn) \/ (tk \subseteq {} /\ tk # {})
    BY <1>0 DEF Passed
  <2>3. \A tk : ~(tk \subseteq {} /\ tk # {})
    OBVIOUS
  <2> QED
    BY <1>0, <1>2, <2>1, <2>2, <2>3, RoomStays DEF Recycling
<1> QED
  BY <1>2, <1>8, <1>9, <1>10 DEF Recycling

\* What is due when the node has taken input i as well.
LEMMA TakingDue ==
    ASSUME EvalInductive, Recycling, NEW i, Wants(i), i \in Connected(at)
    PROVE  /\ InOrder(graph, taken \cup {i}, at)
           /\ \A tk : InOrder(graph, tk, at) /\ tk \subseteq taken \cup {i} /\ tk # taken \cup {i}
                        => tk \subseteq taken
           /\ \A s \in Sockets(graph) : s # Source(i) =>
                ProducedDue(graph, at, taken \cup {i}, s) = ProducedDue(graph, at, taken, s)
           /\ holds[Input(i)] = {}
           /\ ShapesIn(TypeOf(graph, Source(i))) = ShapesIn(InputTypes[graph.kind[at]][i])
           /\ ShapesAt(Produced(Source(i))) = ShapesIn(TypeOf(graph, Source(i)))
           /\ ProducedDue(graph, at, taken \cup {i}, Source(i)) =
                IF LastUse(Source(i)) THEN {} ELSE ShapesIn(TypeOf(graph, Source(i)))
<1>0. /\ phase = "inputs" /\ Evaluating /\ Going /\ i \in Connected(at) \ taken
      /\ i \in 1..MaxInputs /\ Source(i) \in Sockets(graph) /\ Source(i)[1] < at
      /\ i \in Takes(at) \ taken /\ \A k \in Takes(at) \ taken : i <= k
      /\ remaining[Source(i)] \in Nat \ {0}
      /\ at \in NodesOf(graph) /\ graph \in Graphs /\ at \in Nat
      /\ TypeOf(graph, Source(i)) = InputTypes[graph.kind[at]][i]
  <2>1. /\ phase = "inputs" /\ Evaluating /\ i \in Connected(at) \ taken
        /\ i \in 1..MaxInputs /\ Source(i) \in Sockets(graph) /\ Source(i)[1] < at
        /\ remaining[Source(i)] \in Nat \ {0}
    BY WantedInput
  <2>2. i \in Takes(at) \ taken /\ \A k \in Takes(at) \ taken : i <= k
    BY <2>1 DEF Wants, StillToTake
  <2>3. at \in NodesOf(graph) /\ graph \in Graphs /\ at \in Nat
    BY <2>1, NodeFacts, GraphFacts
  <2>4. TypeOf(graph, Source(i)) = InputTypes[graph.kind[at]][i]
    BY <2>1, <2>3, OfThisGraph, SourceFacts DEF Source
  <2> QED
    BY <2>1, <2>2, <2>3, <2>4 DEF Going
<1>1. /\ Takes(at) = TakesOf(graph, at) /\ Connected(at) = ConnectedIn(graph, at)
      /\ Uses(Source(i)) = UsesIn(graph, Source(i))
      /\ TakesOf(graph, at) \subseteq Nat
  <2>1. TakesOf(graph, at) \subseteq 1..MaxInputs
    BY <1>0, SourceFacts
  <2> QED
    BY <2>1, OfThisGraph
<1>2. InOrder(graph, taken, at)
  BY <1>0 DEF Recycling, NodeIsAtWork
<1>3. InOrder(graph, taken \cup {i}, at)
  <2>1. \A k \in TakesOf(graph, at) \ (taken \cup {i}) : i < k
    BY <1>0, <1>1
  <2> QED
    BY <1>0, <1>1, <1>2, <2>1 DEF InOrder
<1>4. ASSUME NEW tk, InOrder(graph, tk, at), tk \subseteq taken \cup {i}, tk # taken \cup {i}
      PROVE  tk \subseteq taken
  <2> SUFFICES ASSUME i \in tk
               PROVE  FALSE
    BY <1>4
  <2>1. PICK k \in taken : k \notin tk
    BY <1>4
  <2>2. k \in TakesOf(graph, at) \ tk /\ i \in TakesOf(graph, at) \ taken
    BY <1>0, <1>1, <1>2, <2>1 DEF InOrder
  <2>3. i < k /\ k < i
    BY <1>2, <1>4, <2>1, <2>2 DEF InOrder
  <2> QED
    BY <1>1, <2>2, <2>3
<1>5. ASSUME NEW s \in Sockets(graph), s # Source(i)
      PROVE  ProducedDue(graph, at, taken \cup {i}, s) = ProducedDue(graph, at, taken, s)
  <2>1. \A u \in UsesIn(graph, s) : ~(u[1] = at /\ u[2] = i)
    BY <1>5 DEF UsesIn, Source
  <2>2. ToCome(graph, s, at, taken \cup {i}) = ToCome(graph, s, at, taken)
    BY <2>1 DEF ToCome
  <2> QED
    BY <2>2 DEF ProducedDue
<1>6. holds[Input(i)] = {}
  <2>1. ShapesAt(Input(i)) = {}
    BY <1>0 DEF Recycling, DueIsThere, InputDue
  <2> QED
    BY <2>1 DEF ShapesAt
<1> DEFINE s == Source(i)
<1>7. /\ <<at, i>> \in UsesIn(graph, s)
      /\ <<at, i>> \in ToCome(graph, s, at, taken)
  <2>1. <<at, i>> \in UsesIn(graph, s)
    BY <1>0, <1>1 DEF UsesIn, Source
  <2> QED
    BY <1>0, <2>1 DEF ToCome
<1>8. ShapesAt(Produced(s)) = ShapesIn(TypeOf(graph, s))
  <2>1. ProducedDue(graph, at, taken, s) = ShapesIn(TypeOf(graph, s))
    BY <1>0, <1>7 DEF ProducedDue
  <2>2. \A t \in Sockets(graph) : ShapesAt(Produced(t)) = ProducedDue(graph, at, taken, t)
    BY <1>0 DEF Recycling, DueIsThere
  <2> QED
    BY <1>0, <2>1, <2>2
<1>9. ProducedDue(graph, at, taken \cup {i}, s) =
          IF LastUse(s) THEN {} ELSE ShapesIn(TypeOf(graph, s))
  <2>0. s \in Sockets(graph) /\ s[1] < at /\ remaining[s] \in Nat \ {0}
        /\ LastUse(s) = (remaining[s] <= 1)
    BY <1>0 DEF LastUse
  <2>1. Pending(s) = ToCome(graph, s, at, taken)
    BY <1>1 DEF Pending, ToCome
  <2> HIDE DEF s
  <2>2. ToCome(graph, s, at, taken \cup {i}) = Pending(s) \ {<<at, i>>}
    <3>1. \A u \in UsesIn(graph, s) : u = <<u[1], u[2]>>
      BY DEF UsesIn
    <3>2. \A u \in UsesIn(graph, s) : u[1] \in Nat
      BY <1>0, GraphFacts DEF UsesIn
    <3> QED
      BY <1>0, <2>1, <3>1, <3>2 DEF ToCome
  <2>3. remaining[s] = Cardinality(Pending(s)) + Extra(s)
    BY <1>0, <2>0 DEF EvalInductive, RemainingIsExact
  <2>4. /\ IsFiniteSet(Pending(s)) /\ Cardinality(Pending(s)) \in Nat
    <3>1. Pending(s) \subseteq Uses(s)
      BY DEF Pending
    <3> QED
      BY <1>0, <3>1, UsesAreFinite
  <2>5. /\ Cardinality(Pending(s) \ {<<at, i>>}) = Cardinality(Pending(s)) - 1
        /\ Cardinality(Pending(s) \ {<<at, i>>}) = 0 <=> Pending(s) \ {<<at, i>>} = {}
    <3> DEFINE P == Pending(s)
               u == <<at, i>>
    <3>1. IsFiniteSet(P) /\ u \in P
      BY <1>7, <2>1, <2>4
    <3> HIDE DEF P, u
    <3>2. IsFiniteSet(P \ {u}) /\ Cardinality(P \ {u}) = Cardinality(P) - 1
      BY <3>1, FS_RemoveElement
    <3>3. Cardinality(P \ {u}) = 0 <=> P \ {u} = {}
      BY <3>2, FS_EmptySet
    <3> QED
      BY <3>2, <3>3 DEF P, u
  <2>6. LastUse(s) <=> (Pending(s) \ {<<at, i>>} = {} /\ s \notin graph.extras)
    <3> DEFINE c == Cardinality(Pending(s))
               d == Cardinality(Pending(s) \ {<<at, i>>})
               e == Extra(s)
    <3>1. /\ c \in Nat /\ d = c - 1 /\ remaining[s] = c + e /\ remaining[s] \in Nat \ {0}
          /\ e = IF s \in graph.extras THEN 1 ELSE 0
      BY <2>0, <2>3, <2>4, <2>5 DEF Extra
    <3>2. (d = 0) <=> (Pending(s) \ {<<at, i>>} = {})
      BY <2>5
    <3>3. LastUse(s) <=> (remaining[s] <= 1)
      BY <2>0
    <3>4. c >= 1
      <4>1. Pending(s) # {}
        BY <1>7, <2>1
      <4> QED
        BY <2>4, <4>1, FS_EmptySet
    <3> HIDE DEF c, d, e
    <3>5. (remaining[s] <= 1) <=> (d = 0 /\ s \notin graph.extras)
      BY <3>1, <3>4
    <3> QED
      BY <3>2, <3>3, <3>5
  <2>7. UsesIn(graph, s) # {}
    BY <1>7
  <2> QED
    BY <2>0, <2>2, <2>6, <2>7 DEF ProducedDue
<1> QED
  BY <1>0, <1>3, <1>4, <1>5, <1>6, <1>8, <1>9

\* So where input i ends up in the node's hands and everything else is as due,
\* all is well.
LEMMA InputTaken ==
    ASSUME EvalInductive, Recycling, NEW i, Wants(i), i \in Connected(at),
           taken' = taken \cup {i}, UNCHANGED <<graph, phase, at, turn, full, settled>>,
           SingleTextures', StateIsWhole',
           \A p \in InUse : p # Input(i) /\ p # Produced(Source(i)) => ShapesAt(p)' = ShapesAt(p),
           ShapesAt(Input(i))' = ShapesIn(TypeOf(graph, Source(i))),
           \A p \in InUse : p = Produced(Source(i)) =>
               ShapesAt(p)' = ProducedDue(graph, at, taken \cup {i}, Source(i)),
           holds'[Lost] = holds[Lost], allocated' \in [Shapes -> Nat],
           \A s \in Shapes : allocated[s] <= allocated'[s]
    PROVE  Recycling'
<1>0. /\ phase = "inputs" /\ phase' = "inputs" /\ Evaluating /\ Evaluating' /\ Going /\ Going'
      /\ at \in NodesOf(graph) /\ graph \in Graphs /\ i \in 1..MaxInputs /\ turn = 1
      /\ UNCHANGED <<graph, phase, at, turn, full, settled>>
  <2>1. phase = "inputs" /\ Evaluating /\ i \in 1..MaxInputs
    BY WantedInput
  <2>2. at \in NodesOf(graph) /\ graph \in Graphs
    BY <2>1, NodeFacts
  <2> QED
    BY <2>1, <2>2 DEF Evaluating, Going, EvalInductive, JustBegun
<1>1. /\ InOrder(graph, taken \cup {i}, at)
      /\ \A tk : InOrder(graph, tk, at) /\ tk \subseteq taken \cup {i} /\ tk # taken \cup {i}
                        => tk \subseteq taken
      /\ \A s \in Sockets(graph) : s # Source(i) =>
                ProducedDue(graph, at, taken \cup {i}, s) = ProducedDue(graph, at, taken, s)
      /\ ShapesIn(TypeOf(graph, Source(i))) = ShapesIn(InputTypes[graph.kind[at]][i])
  BY TakingDue
<1>2. /\ ShapesAt(Kept) = KeptDue(graph, at, "inputs")
      /\ \A k \in 1..MaxInputs : ShapesAt(Input(k)) = InputDue(graph, at, "inputs", taken, k)
      /\ \A j \in 1..MaxOutputs : ShapesAt(Output(j)) = OutputDue(graph, at, "inputs", turn, j)
      /\ \A s \in Sockets(graph) : ShapesAt(Produced(s)) = ProducedDue(graph, at, taken, s)
      /\ full => \A n \in NodesOf(graph) : ShapesAt(Store(n)) = StoreDue(graph, at, "inputs", n)
  BY <1>0 DEF Recycling, DueIsThere
<1>3. /\ ShapesAt(Kept)' = ShapesAt(Kept)
      /\ \A k \in 1..MaxInputs : k # i => ShapesAt(Input(k))' = ShapesAt(Input(k))
      /\ \A j \in 1..MaxOutputs : ShapesAt(Output(j))' = ShapesAt(Output(j))
      /\ \A s \in Sockets(graph) : s # Source(i) => ShapesAt(Produced(s))' = ShapesAt(Produced(s))
      /\ \A n \in NodesOf(graph) : ShapesAt(Store(n))' = ShapesAt(Store(n))
  BY UsedPlaces, Heads
<1>4. ASSUME NEW s \in Sockets(graph)
      PROVE  ShapesAt(Produced(s))' = ProducedDue(graph, at, taken \cup {i}, s)
  <2>1. CASE s = Source(i)
    BY <2>1, UsedPlaces
  <2>2. CASE s # Source(i)
    BY <1>1, <1>2, <1>3, <2>2
  <2> QED
    BY <2>1, <2>2
<1>5. ASSUME NEW k \in 1..MaxInputs
      PROVE  ShapesAt(Input(k))' = InputDue(graph, at, "inputs", taken \cup {i}, k)
  <2>1. CASE k = i
    BY <1>1, <2>1 DEF InputDue
  <2>2. CASE k # i
    BY <1>2, <1>3, <2>2 DEF InputDue
  <2> QED
    BY <2>1, <2>2
<1>6. DueIsThere'
  BY <1>0, <1>2, <1>3, <1>4, <1>5 DEF DueIsThere
<1>7. NodeIsAtWork'
  BY <1>0, <1>1 DEF NodeIsAtWork
<1>8. PassedHaveRoom' /\ SettledHasRoom'
  <2>1. full => Room(at, phase, taken, turn)
    BY <1>0, HereHasRoom DEF Recycling
  <2>2. ASSUME NEW n, NEW ph, NEW tk, NEW tn, IsPoint(graph, n, ph, tk, tn), Passed(n, ph, tk, tn)'
        PROVE  \/ Passed(n, ph, tk, tn)
               \/ n = at /\ ph = phase /\ tk = taken /\ tn = turn
    <3>1. CASE n < at
      BY <3>1 DEF Passed
    <3>2. CASE n = at /\ ph = "inputs" /\ tk \subseteq taken \cup {i} /\ tk # taken \cup {i}
      <4>1. InOrder(graph, tk, at) /\ tn = 1
        BY <2>2, <3>2 DEF IsPoint
      <4>2. tk \subseteq taken
        BY <1>1, <3>2, <4>1
      <4> QED
        BY <1>0, <3>2, <4>1, <4>2 DEF Passed
    <3> QED
      BY <1>0, <2>2, <3>1, <3>2 DEF Passed
  <2> QED
    BY <1>0, <2>1, <2>2, RoomStays DEF Recycling
<1> QED
  BY <1>6, <1>7, <1>8 DEF Recycling

LEMMA TakeInputRecycles ==
    ASSUME EvalInductive, Recycling, NEW i, TakeInput(i)
    PROVE  Recycling'
<1>0. /\ Wants(i) /\ i \in Connected(at) /\ taken' = taken \cup {i} /\ LastUse(Source(i))
      /\ UNCHANGED <<graph, phase, at, turn, full, settled>> /\ UNCHANGED <<graph, allocated>>
      /\ holds' = Moved({Produced(Source(i))}, Input(i))
  BY DEF TakeInput
<1>1. /\ Input(i) \in NodePlaces /\ Source(i) \in Sockets(graph) /\ i \in 1..MaxInputs
  BY <1>0, WantedInput
<1>2. /\ Input(i) \in InUse /\ Input(i) \in InUse \cup {Pool} /\ \A n : Input(i) # Store(n)
      /\ Produced(Source(i)) \in InUse /\ Produced(Source(i)) # Input(i)
  BY <1>1, UsedPlaces, Heads
<1>3. /\ holds[Input(i)] = {}
      /\ ShapesAt(Produced(Source(i))) = ShapesIn(TypeOf(graph, Source(i)))
      /\ ProducedDue(graph, at, taken \cup {i}, Source(i)) = {}
  BY <1>0, TakingDue
<1> DEFINE from == Produced(Source(i))
<1>4. from \in InUse /\ from # Input(i) /\ holds' = Moved({from}, Input(i))
  BY <1>0, <1>2
<1> HIDE DEF from
<1>5. /\ SingleTextures' /\ StateIsWhole'
      /\ \A p \in InUse :
            ShapesAt(p)' = IF p = from THEN {} ELSE IF p = Input(i) THEN ShapesAt(from)
                           ELSE ShapesAt(p)
      /\ holds'[Lost] = holds[Lost]
      /\ allocated' \in [Shapes -> Nat] /\ \A s \in Shapes : allocated[s] <= allocated'[s]
  BY <1>0, <1>2, <1>3, <1>4, Carried
<1>6. /\ \A p \in InUse : p # Input(i) /\ p # Produced(Source(i)) => ShapesAt(p)' = ShapesAt(p)
      /\ ShapesAt(Input(i))' = ShapesIn(TypeOf(graph, Source(i)))
      /\ \A p \in InUse : p = Produced(Source(i)) =>
             ShapesAt(p)' = ProducedDue(graph, at, taken \cup {i}, Source(i))
  BY <1>2, <1>3, <1>5 DEF from
<1> QED
  BY <1>0, <1>5, <1>6, InputTaken

LEMMA CopyInputRecycles ==
    ASSUME EvalInductive, Recycling, NEW i, CopyInput(i)
    PROVE  Recycling'
<1>0. /\ Wants(i) /\ i \in Connected(at) /\ taken' = taken \cup {i} /\ ~LastUse(Source(i))
      /\ UNCHANGED <<graph, phase, at, turn, full, settled>> /\ UNCHANGED graph
      /\ Acquire(Whole(TypeOf(graph, Source(i))), Input(i))
  BY DEF CopyInput
<1>1. /\ Input(i) \in NodePlaces /\ Source(i) \in Sockets(graph) /\ i \in 1..MaxInputs
      /\ Evaluating /\ TypeOf(graph, Source(i)) \in Types
  BY <1>0, WantedInput
<1>2. /\ Input(i) \in InUse
      /\ Produced(Source(i)) \in InUse /\ Produced(Source(i)) # Input(i)
  BY <1>1, UsedPlaces, Heads
<1>3. /\ holds[Input(i)] = {}
      /\ ShapesAt(Produced(Source(i))) = ShapesIn(TypeOf(graph, Source(i)))
      /\ ProducedDue(graph, at, taken \cup {i}, Source(i)) = ShapesIn(TypeOf(graph, Source(i)))
  BY <1>0, TakingDue
<1>4. /\ SingleTextures' /\ StateIsWhole'
      /\ \A p \in InUse :
            ShapesAt(p)' = IF p = Input(i) THEN ShapesIn(TypeOf(graph, Source(i)))
                           ELSE ShapesAt(p)
      /\ holds'[Lost] = holds[Lost]
      /\ allocated' \in [Shapes -> Nat] /\ \A s \in Shapes : allocated[s] <= allocated'[s]
  BY <1>0, <1>1, <1>3, Drawn
<1>5. /\ \A p \in InUse : p # Input(i) /\ p # Produced(Source(i)) => ShapesAt(p)' = ShapesAt(p)
      /\ ShapesAt(Input(i))' = ShapesIn(TypeOf(graph, Source(i)))
      /\ \A p \in InUse : p = Produced(Source(i)) =>
             ShapesAt(p)' = ProducedDue(graph, at, taken \cup {i}, Source(i))
  BY <1>2, <1>3, <1>4
<1> QED
  BY <1>0, <1>4, <1>5, InputTaken

\* A node with all its inputs in hand: what it took, and what is due then.
LEMMA ReadyFacts ==
    ASSUME EvalInductive, Recycling, Ready
    PROVE  /\ phase = "inputs" /\ Evaluating /\ Going /\ turn = 1
           /\ at \in NodesOf(graph) /\ graph \in Graphs /\ Kind = graph.kind[at]
           /\ Kind \in Kinds
           /\ taken = TakesOf(graph, at) /\ InOrder(graph, taken, at)
           /\ ShapesAt(Kept) = KeptDue(graph, at, "inputs")
           /\ \A i \in 1..MaxInputs : ShapesAt(Input(i)) = InputDue(graph, at, "inputs", taken, i)
           /\ \A j \in 1..MaxOutputs : holds[Output(j)] = {}
           /\ \A s \in Sockets(graph) : ShapesAt(Produced(s)) = ProducedDue(graph, at, taken, s)
           /\ full => \A n \in NodesOf(graph) : ShapesAt(Store(n)) = StoreDue(graph, at, "inputs", n)
<1>1. phase = "inputs" /\ Evaluating /\ Going /\ Takes(at) \subseteq taken
  BY DEF Ready, Evaluating, Going
<1>2. at \in NodesOf(graph) /\ graph \in Graphs /\ Kind = graph.kind[at] /\ Kind \in Kinds
  BY <1>1, NodeFacts DEF Kind
<1>3. InOrder(graph, taken, at)
  BY <1>1 DEF Recycling, NodeIsAtWork
<1>4. taken = TakesOf(graph, at)
  BY <1>1, <1>3, OfThisGraph DEF InOrder
<1>5. \A j \in 1..MaxOutputs : holds[Output(j)] = {}
  <2>1. \A j \in 1..MaxOutputs : ShapesAt(Output(j)) = {}
    BY <1>1 DEF Recycling, DueIsThere, OutputDue
  <2> QED
    BY <2>1 DEF ShapesAt
<1>6. turn = 1
  BY <1>1 DEF EvalInductive, JustBegun
<1> QED
  BY <1>1, <1>2, <1>3, <1>4, <1>5, <1>6 DEF Recycling, DueIsThere

\* What is due once it has computed.
LEMMA ComputedDue ==
    ASSUME EvalInductive, Recycling, Ready
    PROVE  /\ ~HandsOn(graph, at) =>
                /\ KeptDue(graph, at, "outputs") =
                        IF OneLoad THEN ShapesIn("field") ELSE ShapesAt(Kept)
                /\ \A i \in 1..MaxInputs :
                      InputDue(graph, at, "outputs", taken, i) =
                        IF Kind = "accumulate" /\ i = 1 THEN {} ELSE ShapesAt(Input(i))
                /\ \A j \in 1..MaxOutputs : OutputDue(graph, at, "outputs", 1, j) = {}
           /\ HandsOn(graph, at) =>
                /\ ~OneLoad /\ Kind # "accumulate"
                /\ KeptDue(graph, at, "publish") = ShapesAt(Kept)
                /\ \A i \in 1..MaxInputs :
                      InputDue(graph, at, "publish", taken, i) =
                        IF i = PassedOn[Kind] THEN {} ELSE ShapesAt(Input(i))
                /\ \A j \in 1..MaxOutputs :
                      OutputDue(graph, at, "publish", 1, j) =
                        IF j = 1 THEN ShapesAt(Input(PassedOn[Kind])) ELSE {}
           /\ \A n : /\ StoreDue(graph, at, "outputs", n) = StoreDue(graph, at, "inputs", n)
                     /\ StoreDue(graph, at, "publish", n) = StoreDue(graph, at, "inputs", n)
           /\ OneLoad => ShapesAt(Kept) = {} /\ Kind # "accumulate"
<1>0. /\ at \in NodesOf(graph) /\ graph \in Graphs /\ Kind = graph.kind[at]
      /\ Kind \in Kinds /\ taken = TakesOf(graph, at)
      /\ ShapesAt(Kept) = KeptDue(graph, at, "inputs")
      /\ \A i \in 1..MaxInputs : ShapesAt(Input(i)) = InputDue(graph, at, "inputs", taken, i)
  BY ReadyFacts
<1>1. /\ OneLoad = OneLoadOf(graph, at)
      /\ OneLoad => Kind \in DOMAIN Loads
      /\ HandsOn(graph, at) = (Kind \in DOMAIN PassedOn)
      /\ KeepsState(graph, at) = (Kind \in DOMAIN StateType)
  BY <1>0, OfThisGraph DEF OneLoad, OneLoadOf, HandsOn, KeepsState
<1>2. /\ Kind \in DOMAIN PassedOn =>
              /\ Kind \notin DOMAIN Loads /\ Kind \notin DOMAIN OnDemand /\ Kind # "accumulate"
              /\ Len(OutputTypes[Kind]) = 1
              /\ InputTypes[Kind][PassedOn[Kind]] = OutputTypes[Kind][1]
      /\ Kind \in DOMAIN Loads => Kind \notin DOMAIN StateType /\ Kind # "accumulate"
      /\ Kind \in DOMAIN StateType => Kind \notin DOMAIN PassedOn
      /\ Kind = "accumulate" => Kind \in DOMAIN StateType
  BY <1>0, KindFacts
<1>3. /\ KeptDue(graph, at, "inputs") =
            IF KeepsState(graph, at) THEN StateShapes(graph, at) ELSE {}
      /\ \A ph \in {"outputs", "publish"} : KeptDue(graph, at, ph) =
            IF KeepsState(graph, at) THEN StateShapes(graph, at)
            ELSE IF OneLoadOf(graph, at) THEN ShapesIn("field") ELSE {}
  BY DEF KeptDue
<1>4. /\ \A i : InputDue(graph, at, "inputs", taken, i) =
                  IF i \in taken THEN ShapesIn(InputTypes[Kind][i]) ELSE {}
      /\ \A ph \in {"outputs", "publish"} : \A i : InputDue(graph, at, ph, taken, i) =
                  IF i \in taken \ SpentBy(graph, at) THEN ShapesIn(InputTypes[Kind][i]) ELSE {}
  BY <1>0 DEF InputDue
<1>5. SpentBy(graph, at) = IF Kind = "accumulate" THEN {1}
                           ELSE IF HandsOn(graph, at) THEN {PassedOn[Kind]} ELSE {}
  BY <1>0 DEF SpentBy
<1>6. ASSUME ~HandsOn(graph, at)
      PROVE  /\ KeptDue(graph, at, "outputs") =
                        IF OneLoad THEN ShapesIn("field") ELSE ShapesAt(Kept)
             /\ \A i \in 1..MaxInputs :
                      InputDue(graph, at, "outputs", taken, i) =
                        IF Kind = "accumulate" /\ i = 1 THEN {} ELSE ShapesAt(Input(i))
             /\ \A j \in 1..MaxOutputs : OutputDue(graph, at, "outputs", 1, j) = {}
  <2>1. KeptDue(graph, at, "outputs") =
                        IF OneLoad THEN ShapesIn("field") ELSE ShapesAt(Kept)
    BY <1>0, <1>1, <1>2, <1>3
  <2>2. \A i \in 1..MaxInputs :
                      InputDue(graph, at, "outputs", taken, i) =
                        IF Kind = "accumulate" /\ i = 1 THEN {} ELSE ShapesAt(Input(i))
    BY <1>0, <1>4, <1>5, <1>6
  <2>3. \A j \in 1..MaxOutputs : OutputDue(graph, at, "outputs", 1, j) = {}
    BY DEF OutputDue
  <2> QED
    BY <2>1, <2>2, <2>3
<1>7. ASSUME HandsOn(graph, at)
      PROVE  /\ ~OneLoad /\ Kind # "accumulate"
             /\ KeptDue(graph, at, "publish") = ShapesAt(Kept)
             /\ \A i \in 1..MaxInputs :
                      InputDue(graph, at, "publish", taken, i) =
                        IF i = PassedOn[Kind] THEN {} ELSE ShapesAt(Input(i))
             /\ \A j \in 1..MaxOutputs :
                      OutputDue(graph, at, "publish", 1, j) =
                        IF j = 1 THEN ShapesAt(Input(PassedOn[Kind])) ELSE {}
  <2>1. ~OneLoad /\ Kind # "accumulate" /\ ~KeepsState(graph, at) /\ ~OneLoadOf(graph, at)
    BY <1>1, <1>2, <1>7
  <2>2. KeptDue(graph, at, "publish") = ShapesAt(Kept)
    BY <1>0, <1>3, <2>1
  <2>3. \A i \in 1..MaxInputs :
                      InputDue(graph, at, "publish", taken, i) =
                        IF i = PassedOn[Kind] THEN {} ELSE ShapesAt(Input(i))
    BY <1>0, <1>4, <1>5, <1>7, <2>1
  <2>4. PassedOn[Kind] \in 1..MaxInputs /\ PassedOn[Kind] \in taken
    <3>1. PassesOn(at) /\ Takes(at) \subseteq taken
      BY <1>7, OfThisGraph DEF Ready
    <3>2. PassedOn[Kind] \in 1..MaxInputs
      BY <3>1, PassedInput
    <3>3. /\ PassedOn[Kind] \in Inputs(graph, at) /\ Optional[Kind] = {}
          /\ (Kind = "pick_second" => PassedOn[Kind] = 2)
      BY <1>0, <3>1, KindTables DEF PassesOn, Inputs
    <3>4. PassedOn[Kind] \in Takes(at)
      BY <1>0, <3>3 DEF Takes
    <3> QED
      BY <3>1, <3>2, <3>4
  <2>5. ShapesAt(Input(PassedOn[Kind])) = ShapesIn(OutputTypes[Kind][1])
    BY <1>0, <1>1, <1>2, <1>4, <1>7, <2>4
  <2>6. ASSUME NEW j \in 1..MaxOutputs
        PROVE  OutputDue(graph, at, "publish", 1, j) =
                        IF j = 1 THEN ShapesAt(Input(PassedOn[Kind])) ELSE {}
    <3> DEFINE c == Len(OutputTypes[Kind])
    <3>1. ~ForNobody(graph, at, j)
      BY <1>0, <1>1, <1>2, <1>7 DEF ForNobody
    <3>2. OutputDue(graph, at, "publish", 1, j) =
              IF j \in 1..c THEN ShapesIn(OutputTypes[Kind][j]) ELSE {}
      BY <1>0, <3>1 DEF OutputDue
    <3>3. c = 1
      BY <1>1, <1>2, <1>7
    <3> HIDE DEF c
    <3>4. j \in 1..c <=> j = 1
      BY <3>3
    <3> QED
      BY <2>5, <3>2, <3>4
  <2> QED
    BY <2>1, <2>2, <2>3, <2>6
<1>8. \A n : /\ StoreDue(graph, at, "outputs", n) = StoreDue(graph, at, "inputs", n)
             /\ StoreDue(graph, at, "publish", n) = StoreDue(graph, at, "inputs", n)
  BY DEF StoreDue
<1>9. OneLoad => ShapesAt(Kept) = {} /\ Kind # "accumulate"
  BY <1>0, <1>1, <1>2, <1>3
<1> QED
  BY <1>6, <1>7, <1>8, <1>9

LEMMA ComputeRecycles ==
    ASSUME EvalInductive, Recycling, Compute
    PROVE  Recycling'
<1>0. /\ Ready /\ UNCHANGED <<graph, at, taken, turn, full, settled>>
      /\ phase' = IF HandsOn(graph, at) THEN "publish" ELSE "outputs"
      /\ Evaluating' /\ Going' /\ (PassesOn(at) <=> HandsOn(graph, at))
  <2>1. Ready /\ UNCHANGED <<graph, at, taken, turn, full, settled>>
        /\ phase' = IF PassesOn(at) THEN "publish" ELSE "outputs"
    BY DEF Compute
  <2>2. PassesOn(at) <=> HandsOn(graph, at)
    BY OfThisGraph
  <2> QED
    BY <2>1, <2>2 DEF Evaluating, Going
<1>1. /\ phase = "inputs" /\ Evaluating /\ Going /\ turn = 1
      /\ at \in NodesOf(graph) /\ graph \in Graphs /\ Kind = graph.kind[at] /\ Kind \in Kinds
      /\ taken = TakesOf(graph, at) /\ InOrder(graph, taken, at)
      /\ \A j \in 1..MaxOutputs : holds[Output(j)] = {} /\ ShapesAt(Output(j)) = {}
      /\ \A s \in Sockets(graph) : ShapesAt(Produced(s)) = ProducedDue(graph, at, taken, s)
      /\ full => \A n \in NodesOf(graph) : ShapesAt(Store(n)) = StoreDue(graph, at, "inputs", n)
      /\ allocated \in [Shapes -> Nat] /\ at \in Nat
  BY <1>0, ReadyFacts, NodeFacts, GraphFacts DEF ShapesAt
<1>2. /\ OneLoad => holds[Kept] = {} /\ Kind # "accumulate" /\ ~HandsOn(graph, at)
      /\ Kind = "accumulate" => ~HandsOn(graph, at)
  <2>1. /\ OneLoad => ShapesAt(Kept) = {} /\ Kind # "accumulate"
        /\ HandsOn(graph, at) => ~OneLoad /\ Kind # "accumulate"
    BY <1>0, ComputedDue
  <2> QED
    BY <2>1 DEF ShapesAt
<1>3. /\ Kept \in InUse /\ Kept \in NodePlaces /\ \A n : Store(n) # Kept
      /\ \A i \in 1..MaxInputs :
            Input(i) \in InUse /\ Input(i) # Kept /\ Input(i) # Pool /\ \A j : Input(i) # Output(j)
      /\ \A j \in 1..MaxOutputs :
            Output(j) \in InUse /\ Output(j) # Kept /\ \A n : Output(j) # Store(n)
      /\ \A s \in Sockets(graph) : /\ Produced(s) \in InUse /\ Produced(s) # Kept
                                   /\ \A i : Produced(s) # Input(i) /\ Produced(s) # Output(i)
      /\ \A n \in NodesOf(graph) : /\ Store(n) \in InUse
                                   /\ \A i : Store(n) # Input(i) /\ Store(n) # Output(i)
      /\ \A i, j : /\ Input(i) = Input(j) => i = j
                   /\ Output(i) = Output(j) => i = j
      /\ \A n : Pool # Store(n)
  BY UsedPlaces, PlaceFacts, Heads
<1>4. /\ SingleTextures' /\ StateIsWhole'
      /\ ShapesAt(Kept)' = IF OneLoad THEN ShapesIn("field") ELSE ShapesAt(Kept)
      /\ \A i \in 1..MaxInputs :
            ShapesAt(Input(i))' =
                IF (Kind = "accumulate" /\ i = 1) \/ (HandsOn(graph, at) /\ i = PassedOn[Kind])
                THEN {} ELSE ShapesAt(Input(i))
      /\ \A j \in 1..MaxOutputs :
            ShapesAt(Output(j))' =
                IF HandsOn(graph, at) /\ j = 1 THEN ShapesAt(Input(PassedOn[Kind])) ELSE {}
      /\ \A s \in Sockets(graph) : ShapesAt(Produced(s))' = ShapesAt(Produced(s))
      /\ \A n \in NodesOf(graph) : ShapesAt(Store(n))' = ShapesAt(Store(n))
      /\ holds'[Lost] = holds[Lost]
      /\ allocated' \in [Shapes -> Nat] /\ \A s \in Shapes : allocated[s] <= allocated'[s]
  <2>1. CASE OneLoad
    <3>1. Acquire(Whole("field"), Kept)
      BY <2>1 DEF Compute
    <3>2. "field" \in Types
      BY DEF Types
    <3>3. /\ SingleTextures' /\ StateIsWhole'
          /\ \A p \in InUse :
                ShapesAt(p)' = IF p = Kept THEN ShapesIn("field") ELSE ShapesAt(p)
          /\ holds'[Lost] = holds[Lost]
          /\ allocated' \in [Shapes -> Nat] /\ \A s \in Shapes : allocated[s] <= allocated'[s]
      BY <1>0, <1>1, <1>2, <1>3, <2>1, <3>1, <3>2, Drawn
    <3> QED
      BY <1>1, <1>2, <1>3, <2>1, <3>3
  <2>2. CASE ~OneLoad /\ Kind = "accumulate"
    <3>1. holds' = Moved({Input(1)}, Pool) /\ UNCHANGED <<graph, allocated>>
      BY <1>0, <1>2, <2>2 DEF Compute, DoneWith
    <3>2. 1 \in 1..MaxInputs
      BY DEF MaxInputs
    <3>3. Input(1) \in InUse /\ Pool \in InUse \cup {Pool} /\ Input(1) # Pool
      BY <1>3, <3>2
    <3>4. /\ SingleTextures' /\ StateIsWhole'
          /\ \A p \in InUse :
                ShapesAt(p)' = IF p = Input(1) THEN {} ELSE IF p = Pool THEN ShapesAt(Input(1))
                               ELSE ShapesAt(p)
          /\ holds'[Lost] = holds[Lost]
          /\ allocated' \in [Shapes -> Nat] /\ \A s \in Shapes : allocated[s] <= allocated'[s]
      BY <1>3, <3>1, <3>3, Carried
    <3>5. \A p \in InUse : p # Pool
      BY DEF InUse
    <3>6. \A p \in InUse : ShapesAt(p)' = IF p = Input(1) THEN {} ELSE ShapesAt(p)
      BY <3>4, <3>5
    <3>7. \A i \in 1..MaxInputs :
              ShapesAt(Input(i))' = IF i = 1 THEN {} ELSE ShapesAt(Input(i))
      BY <1>3, <3>6
    <3>8. \A j \in 1..MaxOutputs : ShapesAt(Output(j))' = {}
      BY <1>1, <1>3, <3>2, <3>6
    <3>9. /\ ShapesAt(Kept)' = ShapesAt(Kept)
          /\ \A s \in Sockets(graph) : ShapesAt(Produced(s))' = ShapesAt(Produced(s))
          /\ \A n \in NodesOf(graph) : ShapesAt(Store(n))' = ShapesAt(Store(n))
      BY <1>3, <3>2, <3>6
    <3> QED
      BY <1>2, <2>2, <3>4, <3>7, <3>8, <3>9
  <2>3. CASE ~OneLoad /\ Kind # "accumulate" /\ HandsOn(graph, at)
    <3> DEFINE k == PassedOn[Kind]
               from == Input(k)
    <3>1. holds' = Moved({from}, Output(1)) /\ UNCHANGED <<graph, allocated>>
      BY <1>0, <2>3 DEF Compute
    <3>2. 1 \in 1..MaxOutputs /\ k \in 1..MaxInputs
      BY <1>0, <2>3, PassedInput DEF MaxOutputs
    <3>3. from \in InUse /\ Output(1) \in InUse \cup {Pool} /\ from # Output(1)
          /\ holds[Output(1)] = {} /\ \A n : Output(1) # Store(n)
      BY <1>1, <1>3, <3>2
    <3> HIDE DEF from
    <3>4. /\ SingleTextures' /\ StateIsWhole'
          /\ \A p \in InUse :
                ShapesAt(p)' = IF p = from THEN {} ELSE IF p = Output(1) THEN ShapesAt(from)
                               ELSE ShapesAt(p)
          /\ holds'[Lost] = holds[Lost]
          /\ allocated' \in [Shapes -> Nat] /\ \A s \in Shapes : allocated[s] <= allocated'[s]
      BY <3>1, <3>3, Carried
    <3>5. \A p \in InUse :
                ShapesAt(p)' = IF p = Input(k) THEN {}
                               ELSE IF p = Output(1) THEN ShapesAt(Input(k)) ELSE ShapesAt(p)
      BY <3>4 DEF from
    <3> HIDE DEF k
    <3>6. \A i \in 1..MaxInputs :
              ShapesAt(Input(i))' = IF i = k THEN {} ELSE ShapesAt(Input(i))
      BY <1>3, <3>5
    <3>7. \A j \in 1..MaxOutputs :
              ShapesAt(Output(j))' = IF j = 1 THEN ShapesAt(Input(k)) ELSE {}
      BY <1>1, <1>3, <3>2, <3>5
    <3>8. /\ ShapesAt(Kept)' = ShapesAt(Kept)
          /\ \A s \in Sockets(graph) : ShapesAt(Produced(s))' = ShapesAt(Produced(s))
          /\ \A n \in NodesOf(graph) : ShapesAt(Store(n))' = ShapesAt(Store(n))
      BY <1>3, <3>2, <3>5
    <3> QED
      BY <2>3, <3>4, <3>6, <3>7, <3>8 DEF k
  <2>4. CASE ~OneLoad /\ Kind # "accumulate" /\ ~HandsOn(graph, at)
    <3>1. holds' = holds /\ allocated' = allocated
      BY <1>0, <2>4 DEF Compute
    <3>2. \A p : ShapesAt(p)' = ShapesAt(p)
      BY <3>1 DEF ShapesAt
    <3>3. SingleTextures'
      BY <1>0, <3>1, StaySingle DEF Recycling
    <3>4. StateIsWhole'
      BY <1>0, <3>2 DEF Recycling, StateIsWhole
    <3> QED
      BY <1>1, <2>4, <3>1, <3>2, <3>3, <3>4
  <2> QED
    BY <2>1, <2>2, <2>3, <2>4
<1>5. \A n : /\ StoreDue(graph, at, "outputs", n) = StoreDue(graph, at, "inputs", n)
             /\ StoreDue(graph, at, "publish", n) = StoreDue(graph, at, "inputs", n)
  BY <1>0, ComputedDue
<1>6. DueIsThere'
  <2>1. CASE HandsOn(graph, at)
    <3>0. phase' = "publish" /\ ~OneLoad /\ Kind # "accumulate"
      BY <1>0, <1>2, <2>1
    <3>1. /\ KeptDue(graph, at, "publish") = ShapesAt(Kept)
          /\ \A i \in 1..MaxInputs :
                      InputDue(graph, at, "publish", taken, i) =
                        IF i = PassedOn[Kind] THEN {} ELSE ShapesAt(Input(i))
          /\ \A j \in 1..MaxOutputs :
                      OutputDue(graph, at, "publish", 1, j) =
                        IF j = 1 THEN ShapesAt(Input(PassedOn[Kind])) ELSE {}
      BY <1>0, <2>1, ComputedDue
    <3>2. ShapesAt(Kept)' = KeptDue(graph, at, "publish")
      BY <1>4, <3>0, <3>1
    <3>3. \A i \in 1..MaxInputs : ShapesAt(Input(i))' = InputDue(graph, at, "publish", taken, i)
      BY <1>4, <2>1, <3>0, <3>1
    <3>4. \A j \in 1..MaxOutputs : ShapesAt(Output(j))' = OutputDue(graph, at, "publish", 1, j)
      BY <1>4, <2>1, <3>1
    <3>5. \A s \in Sockets(graph) : ShapesAt(Produced(s))' = ProducedDue(graph, at, taken, s)
      BY <1>1, <1>4
    <3>6. full => \A n \in NodesOf(graph) :
                      ShapesAt(Store(n))' = StoreDue(graph, at, "publish", n)
      BY <1>1, <1>4, <1>5
    <3> QED
      BY <1>0, <1>1, <3>0, <3>2, <3>3, <3>4, <3>5, <3>6 DEF DueIsThere
  <2>2. CASE ~HandsOn(graph, at)
    <3>0. phase' = "outputs"
      BY <1>0, <2>2
    <3>1. /\ KeptDue(graph, at, "outputs") =
                IF OneLoad THEN ShapesIn("field") ELSE ShapesAt(Kept)
          /\ \A i \in 1..MaxInputs :
                      InputDue(graph, at, "outputs", taken, i) =
                        IF Kind = "accumulate" /\ i = 1 THEN {} ELSE ShapesAt(Input(i))
          /\ \A j \in 1..MaxOutputs : OutputDue(graph, at, "outputs", 1, j) = {}
      BY <1>0, <2>2, ComputedDue
    <3>2. ShapesAt(Kept)' = KeptDue(graph, at, "outputs")
      BY <1>4, <3>1
    <3>3. \A i \in 1..MaxInputs : ShapesAt(Input(i))' = InputDue(graph, at, "outputs", taken, i)
      BY <1>4, <2>2, <3>1
    <3>4. \A j \in 1..MaxOutputs : ShapesAt(Output(j))' = OutputDue(graph, at, "outputs", 1, j)
      BY <1>4, <2>2, <3>1
    <3>5. \A s \in Sockets(graph) : ShapesAt(Produced(s))' = ProducedDue(graph, at, taken, s)
      BY <1>1, <1>4
    <3>6. full => \A n \in NodesOf(graph) :
                      ShapesAt(Store(n))' = StoreDue(graph, at, "outputs", n)
      BY <1>1, <1>4, <1>5
    <3> QED
      BY <1>0, <1>1, <3>0, <3>2, <3>3, <3>4, <3>5, <3>6 DEF DueIsThere
  <2> QED
    BY <2>1, <2>2
<1>7. NodeIsAtWork'
  <2>1. Kind' = Kind
    BY <1>0 DEF Kind
  <2>2. 1 \in 1..(Len(OutputTypes[Kind]) + 1)
    <3> DEFINE c == Len(OutputTypes[Kind])
    <3>1. c \in 1..MaxOutputs
      BY <1>1, KindTables
    <3> HIDE DEF c
    <3>2. 1 \in 1..(c + 1)
      BY <3>1 DEF MaxOutputs
    <3> QED
      BY <3>2 DEF c
  <2> QED
    BY <1>0, <1>1, <2>1, <2>2 DEF NodeIsAtWork
<1>8. PassedHaveRoom' /\ SettledHasRoom'
  <2>1. full => Room(at, phase, taken, turn)
    BY <1>1, HereHasRoom DEF Recycling
  <2>2. ASSUME NEW n, NEW ph, NEW tk, NEW tn, tn \in 1..(MaxOutputs + 1),
               IsPoint(graph, n, ph, tk, tn), Passed(n, ph, tk, tn)'
        PROVE  \/ Passed(n, ph, tk, tn)
               \/ n = at /\ ph = phase /\ tk = taken /\ tn = turn
    <3>1. CASE n < at
      BY <3>1 DEF Passed
    <3>2. CASE n = at /\ ph = "inputs"
      <4>1. tk \subseteq taken /\ tn = 1
        BY <1>1, <2>2, <3>2 DEF IsPoint, InOrder
      <4> QED
        BY <1>1, <3>2, <4>1 DEF Passed
    <3>3. CASE n = at /\ ph = "outputs"
      <4>1. ~HandsOn(graph, at)
        BY <2>2, <3>3 DEF IsPoint
      <4>2. tn < 1
        BY <1>0, <1>1, <2>2, <3>3, <4>1 DEF Passed
      <4> QED
        BY <2>2, <4>2 DEF MaxOutputs
    <3> QED
      BY <1>0, <2>2, <3>1, <3>2, <3>3 DEF Passed
  <2> QED
    BY <1>0, <1>1, <1>4, <2>1, <2>2, RoomStays DEF Recycling
<1> QED
  BY <1>4, <1>6, <1>7, <1>8 DEF Recycling

\* A node making its outputs: what is due with the next of them.
LEMMA MakingFacts ==
    ASSUME EvalInductive, Recycling, Making
    PROVE  /\ phase = "outputs" /\ Evaluating /\ Going
           /\ at \in NodesOf(graph) /\ at \in Nat /\ graph \in Graphs /\ Kind = graph.kind[at]
           /\ turn \in 1..Len(OutputTypes[Kind]) /\ turn \in 1..MaxOutputs
           /\ turn + 1 \in 1..(Len(OutputTypes[Kind]) + 1) /\ turn + 1 \in 1..(MaxOutputs + 1)
           /\ OutputTypes[Kind][turn] \in Types
           /\ taken = TakesOf(graph, at) /\ ~HandsOn(graph, at)
           /\ holds[Output(turn)] = {} /\ Output(turn) \in NodePlaces
           /\ \A j \in 1..MaxOutputs :
                OutputDue(graph, at, "outputs", turn + 1, j) =
                    IF j = turn /\ ~Placeholder THEN ShapesIn(OutputTypes[Kind][turn])
                    ELSE OutputDue(graph, at, "outputs", turn, j)
           /\ OutputDue(graph, at, "outputs", turn, turn) = {}
<1>1. phase = "outputs" /\ Evaluating /\ Going /\ turn <= Len(OutputTypes[Kind])
  BY DEF Making, Evaluating, Going
<1>2. /\ at \in NodesOf(graph) /\ at \in Nat /\ graph \in Graphs /\ Kind = graph.kind[at]
      /\ Kind \in Kinds
  BY <1>1, NodeFacts, GraphFacts DEF Kind
<1>3. /\ turn \in 1..Len(OutputTypes[Kind]) /\ turn \in 1..MaxOutputs
      /\ OutputTypes[Kind][turn] \in Types /\ Output(turn) \in NodePlaces
  BY <1>1, MadeNext
<1>4. taken = TakesOf(graph, at) /\ ~HandsOn(graph, at)
  BY <1>1 DEF Recycling, NodeIsAtWork
<1>5. Placeholder <=> ForNobody(graph, at, turn)
  <2> DEFINE s == <<at, turn>>
  <2>1. s \in Sockets(graph) /\ s[1] = at
    BY <1>2, <1>3, GraphFacts
  <2> HIDE DEF s
  <2>2. ~(s[1] < at)
    BY <1>2, <2>1
  <2>3. IsWanted(s) <=> EverWanted(graph, s)
    BY <1>1, <2>1, <2>2, Wanting
  <2> QED
    BY <1>2, <2>3 DEF s, Placeholder, ForNobody
<1>6. OutputDue(graph, at, "outputs", turn, turn) = {}
  BY <1>3 DEF OutputDue
<1>7. holds[Output(turn)] = {}
  <2>1. \A j \in 1..MaxOutputs : ShapesAt(Output(j)) = OutputDue(graph, at, "outputs", turn, j)
    BY <1>1 DEF Recycling, DueIsThere
  <2>2. ShapesAt(Output(turn)) = {}
    BY <1>3, <1>6, <2>1
  <2> QED
    BY <2>2 DEF ShapesAt
<1>8. turn + 1 \in 1..(Len(OutputTypes[Kind]) + 1) /\ turn + 1 \in 1..(MaxOutputs + 1)
  <2> DEFINE c == Len(OutputTypes[Kind])
  <2>1. c \in 1..MaxOutputs
    BY <1>2, KindTables
  <2>2. turn \in 1..c /\ turn \in 1..MaxOutputs
    BY <1>3
  <2> HIDE DEF c
  <2>3. turn + 1 \in 1..(c + 1) /\ turn + 1 \in 1..(MaxOutputs + 1)
    BY <2>1, <2>2 DEF MaxOutputs
  <2> QED
    BY <2>3 DEF c
<1>9. ASSUME NEW j \in 1..MaxOutputs
      PROVE  OutputDue(graph, at, "outputs", turn + 1, j) =
                 IF j = turn /\ ~Placeholder THEN ShapesIn(OutputTypes[Kind][turn])
                 ELSE OutputDue(graph, at, "outputs", turn, j)
  <2> DEFINE R == 1..Len(OutputTypes[Kind])
  <2>1. \A k : OutputDue(graph, at, "outputs", k, j) =
            IF j \in R /\ j < k /\ ~ForNobody(graph, at, j)
            THEN ShapesIn(OutputTypes[Kind][j]) ELSE {}
    BY <1>2 DEF OutputDue
  <2>2. turn \in R /\ turn \in 1..MaxOutputs
    BY <1>3
  <2> HIDE DEF R
  <2>3. j \in Nat /\ turn \in Nat
    BY <2>2
  <2>4. (j < turn + 1) <=> (j < turn \/ j = turn)
    BY <2>3
  <2>5. ~(j = turn /\ j < turn)
    BY <2>3
  <2> QED
    BY <1>5, <2>1, <2>2, <2>4, <2>5
<1> QED
  BY <1>1, <1>2, <1>3, <1>4, <1>6, <1>7, <1>8, <1>9

LEMMA MakeOutputRecycles ==
    ASSUME EvalInductive, Recycling, MakeOutput
    PROVE  Recycling'
<1>0. /\ Making /\ turn' = turn + 1 /\ UNCHANGED <<graph, phase, at, taken, full, settled>>
  BY DEF MakeOutput, NextOutput
<1>1. /\ phase = "outputs" /\ phase' = "outputs" /\ Evaluating /\ Evaluating' /\ Going /\ Going'
      /\ at \in NodesOf(graph) /\ at \in Nat /\ graph \in Graphs /\ Kind = graph.kind[at]
      /\ turn \in 1..MaxOutputs /\ turn + 1 \in 1..(Len(OutputTypes[Kind]) + 1)
      /\ OutputTypes[Kind][turn] \in Types
      /\ taken = TakesOf(graph, at) /\ ~HandsOn(graph, at)
      /\ holds[Output(turn)] = {} /\ Output(turn) \in NodePlaces
      /\ \A j \in 1..MaxOutputs :
            OutputDue(graph, at, "outputs", turn + 1, j) =
                    IF j = turn /\ ~Placeholder THEN ShapesIn(OutputTypes[Kind][turn])
                    ELSE OutputDue(graph, at, "outputs", turn, j)
      /\ allocated \in [Shapes -> Nat]
  BY <1>0, MakingFacts, NodeFacts DEF Evaluating, Going
<1>2. /\ SingleTextures' /\ StateIsWhole'
      /\ \A p \in InUse :
            ShapesAt(p)' = IF p = Output(turn) /\ ~Placeholder
                           THEN ShapesIn(OutputTypes[Kind][turn]) ELSE ShapesAt(p)
      /\ holds'[Lost] = holds[Lost]
      /\ allocated' \in [Shapes -> Nat] /\ \A s \in Shapes : allocated[s] <= allocated'[s]
  <2>1. CASE Placeholder
    <3>1. holds' = holds /\ allocated' = allocated
      BY <2>1 DEF MakeOutput
    <3>2. \A p : ShapesAt(p)' = ShapesAt(p)
      BY <3>1 DEF ShapesAt
    <3>3. SingleTextures'
      BY <1>0, <3>1, StaySingle DEF Recycling
    <3>4. StateIsWhole'
      BY <1>0, <3>2 DEF Recycling, StateIsWhole
    <3> QED
      BY <1>1, <2>1, <3>1, <3>2, <3>3, <3>4
  <2>2. CASE ~Placeholder
    <3>1. Acquire(Whole(OutputTypes[Kind][turn]), Output(turn))
      BY <2>2 DEF MakeOutput
    <3>2. /\ SingleTextures' /\ StateIsWhole'
          /\ \A p \in InUse :
                ShapesAt(p)' = IF p = Output(turn)
                               THEN ShapesIn(OutputTypes[Kind][turn]) ELSE ShapesAt(p)
          /\ holds'[Lost] = holds[Lost]
          /\ allocated' \in [Shapes -> Nat] /\ \A s \in Shapes : allocated[s] <= allocated'[s]
      BY <1>0, <1>1, <3>1, Drawn
    <3> QED
      BY <2>2, <3>2
  <2> QED
    BY <2>1, <2>2
<1>3. /\ ShapesAt(Kept) = KeptDue(graph, at, "outputs")
      /\ \A k \in 1..MaxInputs : ShapesAt(Input(k)) = InputDue(graph, at, "outputs", taken, k)
      /\ \A j \in 1..MaxOutputs : ShapesAt(Output(j)) = OutputDue(graph, at, "outputs", turn, j)
      /\ \A s \in Sockets(graph) : ShapesAt(Produced(s)) = ProducedDue(graph, at, taken, s)
      /\ full => \A n \in NodesOf(graph) : ShapesAt(Store(n)) = StoreDue(graph, at, "outputs", n)
  BY <1>1 DEF Recycling, DueIsThere
<1>4. /\ ShapesAt(Kept)' = ShapesAt(Kept)
      /\ \A k \in 1..MaxInputs : ShapesAt(Input(k))' = ShapesAt(Input(k))
      /\ \A s \in Sockets(graph) : ShapesAt(Produced(s))' = ShapesAt(Produced(s))
      /\ \A n \in NodesOf(graph) : ShapesAt(Store(n))' = ShapesAt(Store(n))
  BY <1>2, UsedPlaces, Heads
<1>5. ASSUME NEW j \in 1..MaxOutputs
      PROVE  ShapesAt(Output(j))' = OutputDue(graph, at, "outputs", turn + 1, j)
  <2>1. Output(j) \in InUse /\ (Output(j) = Output(turn) <=> j = turn)
    BY UsedPlaces, Heads
  <2> QED
    BY <1>1, <1>2, <1>3, <2>1
<1>6. DueIsThere'
  BY <1>0, <1>1, <1>3, <1>4, <1>5 DEF DueIsThere
<1>7. NodeIsAtWork'
  <2>1. Kind' = Kind
    BY <1>0 DEF Kind
  <2>2. InOrder(graph, taken, at)
    BY <1>1 DEF Recycling, NodeIsAtWork
  <2> QED
    BY <1>0, <1>1, <2>1, <2>2 DEF NodeIsAtWork
<1>8. PassedHaveRoom' /\ SettledHasRoom'
  <2>1. full => Room(at, phase, taken, turn)
    BY <1>1, HereHasRoom DEF Recycling
  <2>2. ASSUME NEW n, NEW ph, NEW tk, NEW tn, tn \in 1..(MaxOutputs + 1),
               IsPoint(graph, n, ph, tk, tn), Passed(n, ph, tk, tn)'
        PROVE  \/ Passed(n, ph, tk, tn)
               \/ n = at /\ ph = phase /\ tk = taken /\ tn = turn
    <3>1. CASE n < at
      BY <3>1 DEF Passed
    <3>2. CASE n = at /\ ph = "inputs"
      BY <1>1, <3>2 DEF Passed
    <3>3. CASE n = at /\ ph = "outputs"
      <4>1. tk = taken
        BY <1>1, <2>2, <3>3 DEF IsPoint
      <4>2. tn < turn + 1
        BY <1>0, <1>1, <2>2, <3>3 DEF Passed
      <4>3. tn < turn \/ tn = turn
        BY <1>1, <2>2, <4>2
      <4> QED
        BY <1>1, <3>3, <4>1, <4>3 DEF Passed
    <3> QED
      BY <1>0, <2>2, <3>1, <3>2, <3>3 DEF Passed
  <2> QED
    BY <1>0, <1>1, <1>2, <2>1, <2>2, RoomStays DEF Recycling
<1> QED
  BY <1>2, <1>6, <1>7, <1>8 DEF Recycling

LEMMA MadeRecycles ==
    ASSUME EvalInductive, Recycling, Made
    PROVE  Recycling'
<1>0. /\ phase = "outputs" /\ phase' = "publish" /\ Evaluating /\ Evaluating' /\ Going /\ Going'
      /\ UNCHANGED <<graph, at, taken, turn, holds, allocated, full, settled>>
      /\ turn > Len(OutputTypes[Kind])
  BY DEF Made, Evaluating, Going
<1>1. /\ at \in NodesOf(graph) /\ at \in Nat /\ graph \in Graphs /\ Kind = graph.kind[at]
      /\ Kind \in Kinds /\ allocated \in [Shapes -> Nat] /\ Kind' = Kind
  BY <1>0, NodeFacts, GraphFacts DEF Kind
<1>2. /\ taken = TakesOf(graph, at) /\ ~HandsOn(graph, at)
      /\ turn \in 1..(Len(OutputTypes[Kind]) + 1) /\ InOrder(graph, taken, at)
  BY <1>0 DEF Recycling, NodeIsAtWork
<1>3. turn = Len(OutputTypes[Kind]) + 1
  <2> DEFINE c == Len(OutputTypes[Kind])
  <2>1. c \in 1..MaxOutputs
    BY <1>1, KindTables
  <2>2. turn \in 1..(c + 1) /\ turn > c
    BY <1>0, <1>2
  <2> HIDE DEF c
  <2>3. turn = c + 1
    BY <2>1, <2>2
  <2> QED
    BY <2>3 DEF c
<1>4. \A j \in 1..MaxOutputs :
          OutputDue(graph, at, "publish", turn, j) = OutputDue(graph, at, "outputs", turn, j)
  <2> DEFINE c == Len(OutputTypes[Kind])
  <2>1. c \in 1..MaxOutputs /\ turn = c + 1
    BY <1>1, <1>3, KindTables
  <2>2. \A j \in 1..MaxOutputs :
            /\ OutputDue(graph, at, "outputs", turn, j) =
                   IF j \in 1..c /\ j < turn /\ ~ForNobody(graph, at, j)
                   THEN ShapesIn(OutputTypes[Kind][j]) ELSE {}
            /\ OutputDue(graph, at, "publish", turn, j) =
                   IF j \in 1..c /\ ~ForNobody(graph, at, j)
                   THEN ShapesIn(OutputTypes[Kind][j]) ELSE {}
    BY <1>1 DEF OutputDue
  <2> HIDE DEF c
  <2>3. \A j \in 1..c : j < turn
    BY <2>1
  <2> QED
    BY <2>2, <2>3
<1>5. /\ KeptDue(graph, at, "publish") = KeptDue(graph, at, "outputs")
      /\ \A i : InputDue(graph, at, "publish", taken, i) = InputDue(graph, at, "outputs", taken, i)
      /\ \A n : StoreDue(graph, at, "publish", n) = StoreDue(graph, at, "outputs", n)
  BY DEF KeptDue, InputDue, StoreDue
<1>6. \A p : ShapesAt(p)' = ShapesAt(p)
  BY <1>0 DEF ShapesAt
<1>7. /\ ShapesAt(Kept) = KeptDue(graph, at, "outputs")
      /\ \A k \in 1..MaxInputs : ShapesAt(Input(k)) = InputDue(graph, at, "outputs", taken, k)
      /\ \A j \in 1..MaxOutputs : ShapesAt(Output(j)) = OutputDue(graph, at, "outputs", turn, j)
      /\ \A s \in Sockets(graph) : ShapesAt(Produced(s)) = ProducedDue(graph, at, taken, s)
      /\ full => \A n \in NodesOf(graph) : ShapesAt(Store(n)) = StoreDue(graph, at, "outputs", n)
  BY <1>0 DEF Recycling, DueIsThere
<1>8. /\ ShapesAt(Kept)' = KeptDue(graph, at, "publish")
      /\ \A k \in 1..MaxInputs : ShapesAt(Input(k))' = InputDue(graph, at, "publish", taken, k)
      /\ \A j \in 1..MaxOutputs : ShapesAt(Output(j))' = OutputDue(graph, at, "publish", turn, j)
      /\ \A s \in Sockets(graph) : ShapesAt(Produced(s))' = ProducedDue(graph, at, taken, s)
      /\ full => \A n \in NodesOf(graph) : ShapesAt(Store(n))' = StoreDue(graph, at, "publish", n)
  BY <1>4, <1>5, <1>6, <1>7
<1>9. DueIsThere'
  BY <1>0, <1>8 DEF DueIsThere
<1>10. NodeIsAtWork'
  BY <1>0, <1>2 DEF NodeIsAtWork
<1>11. SingleTextures'
  BY <1>0, StaySingle DEF Recycling
<1>12. StateIsWhole'
  BY <1>0, <1>6 DEF Recycling, StateIsWhole
<1>13. PassedHaveRoom' /\ SettledHasRoom'
  <2>1. full => Room(at, phase, taken, turn)
    BY <1>0, HereHasRoom DEF Recycling
  <2>2. ASSUME NEW n, NEW ph, NEW tk, NEW tn,
               IsPoint(graph, n, ph, tk, tn), Passed(n, ph, tk, tn)'
        PROVE  \/ Passed(n, ph, tk, tn)
               \/ n = at /\ ph = phase /\ tk = taken /\ tn = turn
    <3>1. CASE n < at
      BY <3>1 DEF Passed
    <3>2. CASE n = at /\ ph = "inputs"
      BY <1>0, <3>2 DEF Passed
    <3>3. CASE n = at /\ ph = "outputs"
      <4> DEFINE c == Len(OutputTypes[Kind])
      <4>1. tk = taken /\ tn \in 1..(c + 1) /\ turn = c + 1 /\ c \in 1..MaxOutputs
        BY <1>1, <1>2, <1>3, <2>2, <3>3, KindTables DEF IsPoint
      <4> HIDE DEF c
      <4>2. tn < turn \/ tn = turn
        BY <4>1
      <4> QED
        BY <1>0, <3>3, <4>1, <4>2 DEF Passed
    <3> QED
      BY <1>0, <2>2, <3>1, <3>2, <3>3 DEF Passed
  <2>3. allocated' \in [Shapes -> Nat] /\ \A s \in Shapes : allocated[s] <= allocated'[s]
    BY <1>0, <1>1
  <2> QED
    BY <1>0, <2>1, <2>2, <2>3, RoomStays DEF Recycling
<1> QED
  BY <1>9, <1>10, <1>11, <1>12, <1>13 DEF Recycling

\* What is due of a produced value once the node has returned.
LEMMA PublishedDue ==
    ASSUME EvalInductive, Recycling, Publish, NEW s \in Sockets(graph)
    PROVE  ShapesAt(Produced(s))' = ProducedDue(graph, at + 1, {}, s)
<1>0. /\ phase = "publish" /\ Evaluating /\ Going /\ graph \in Graphs
      /\ at \in NodesOf(graph) /\ at \in Nat /\ Kind = graph.kind[at]
      /\ s = <<s[1], s[2]>> /\ s[1] \in Nat
      /\ s[2] \in 1..Len(OutputTypes[graph.kind[s[1]]])
      /\ s[2] \in 1..MaxOutputs
  <2>1. phase = "publish" /\ Evaluating /\ Going
    BY DEF Publish, Evaluating, Going
  <2>2. graph \in Graphs /\ at \in NodesOf(graph) /\ at \in Nat /\ Kind = graph.kind[at]
    BY <2>1, NodeFacts, GraphFacts DEF Kind
  <2> QED
    BY <2>1, <2>2, GraphFacts DEF Sockets
<1>1. /\ ShapesAt(Produced(s)) = ProducedDue(graph, at, taken, s)
      /\ \A j \in 1..MaxOutputs : ShapesAt(Output(j)) = OutputDue(graph, at, "publish", turn, j)
  BY <1>0 DEF Recycling, DueIsThere
<1>2. /\ Produced(s) \in Spent => holds'[Produced(s)] = {}
      /\ Produced(s) \notin Spent =>
            holds'[Produced(s)] = IF s[1] = at /\ s[2] \notin Unwanted
                                  THEN holds[Output(s[2])] ELSE holds[Produced(s)]
  BY PublishMoves
<1>3. /\ Consumed[s] = Cardinality(Later(s)) + Extra(s)
      /\ ~(s[1] < at) => Borrowed(s) = {}
  BY <1>0, ConsumedIsLater
<1>4. Produced(s) \in Spent <=> (Borrowed(s) # {} /\ Consumed[s] = 0)
  BY Heads DEF Spent
<1>5. (Consumed[s] = 0) <=> (Later(s) = {} /\ s \notin graph.extras)
  <2>1. /\ Cardinality(Later(s)) \in Nat
        /\ Cardinality(Later(s)) = 0 <=> Later(s) = {}
    <3>1. Later(s) \subseteq Uses(s)
      BY DEF Later
    <3> QED
      BY <1>0, <3>1, UsesAreFinite, FS_EmptySet
  <2> QED
    BY <1>3, <2>1 DEF Extra
<1>6. /\ UsesIn(graph, s) = Uses(s)
      /\ ToCome(graph, s, at + 1, {}) = Later(s)
      /\ ToCome(graph, s, at, taken) = Later(s) \cup Borrowed(s)
  <2>1. UsesIn(graph, s) = Uses(s)
    BY OfThisGraph
  <2>2. \A u \in Uses(s) : u[1] \in Nat
    BY <1>0, UsesAreFinite, GraphFacts
  <2>3. \A u \in Uses(s) : (u[1] > at + 1 \/ u[1] = at + 1) <=> u[1] > at
    BY <1>0, <2>2
  <2> QED
    BY <2>1, <2>3 DEF ToCome, Later, Borrowed
<1>7. Later(s) \subseteq Uses(s) /\ Borrowed(s) \subseteq Uses(s)
  BY DEF Later, Borrowed
<1>8. CASE s[1] > at
  <2>1. ProducedDue(graph, at + 1, {}, s) = {} /\ ProducedDue(graph, at, taken, s) = {}
    BY <1>0, <1>8 DEF ProducedDue
  <2>2. Produced(s) \notin Spent /\ s[1] # at
    BY <1>0, <1>3, <1>4, <1>8
  <2>3. ShapesAt(Produced(s))' = ShapesAt(Produced(s))
    BY <1>2, <2>2 DEF ShapesAt
  <2> QED
    BY <1>1, <2>1, <2>3
<1>9. CASE s[1] = at
  <2>1. ~(s[1] < at) /\ s[1] < at + 1
    BY <1>0, <1>9
  <2>2. /\ IsWanted(s) <=> EverWanted(graph, s)
        /\ ToCome(graph, s, at, taken) = UsesIn(graph, s)
    BY <1>0, <2>1, Wanting
  <2>3. Produced(s) \notin Spent /\ Borrowed(s) = {}
    BY <1>3, <1>4, <2>1
  <2>4. ToCome(graph, s, at + 1, {}) = UsesIn(graph, s)
    BY <1>6, <2>2, <2>3
  <2>5. ProducedDue(graph, at + 1, {}, s) =
            IF EverWanted(graph, s) THEN ShapesIn(TypeOf(graph, s)) ELSE {}
    BY <2>1, <2>4 DEF ProducedDue, EverWanted
  <2>6. s = <<at, s[2]>>
    BY <1>0, <1>9
  <2>7. s[2] \in Unwanted <=> ~IsWanted(s)
    BY <1>0, <1>9, <2>6 DEF Unwanted
  <2>8. CASE IsWanted(s)
    <3>1. ShapesAt(Produced(s))' = ShapesAt(Output(s[2]))
      BY <1>2, <1>9, <2>3, <2>7, <2>8 DEF ShapesAt
    <3>2. ~ForNobody(graph, at, s[2])
      BY <2>2, <2>6, <2>8 DEF ForNobody
    <3>3. OutputDue(graph, at, "publish", turn, s[2]) = ShapesIn(TypeOf(graph, s))
      BY <1>0, <1>9, <3>2 DEF OutputDue, TypeOf
    <3> QED
      BY <1>0, <1>1, <2>2, <2>5, <2>8, <3>1, <3>3
  <2>9. CASE ~IsWanted(s)
    <3>1. ShapesAt(Produced(s))' = ShapesAt(Produced(s))
      BY <1>2, <2>3, <2>7, <2>9 DEF ShapesAt
    <3>2. ProducedDue(graph, at, taken, s) = {}
      BY <2>1 DEF ProducedDue
    <3> QED
      BY <1>1, <2>2, <2>5, <2>9, <3>1, <3>2
  <2> QED
    BY <2>8, <2>9
<1>10. CASE s[1] < at
  <2>1. s[1] < at + 1 /\ s[1] # at
    BY <1>0, <1>10
  <2>2. /\ ProducedDue(graph, at + 1, {}, s) =
               IF \/ Later(s) # {} \/ s \in graph.extras
                  \/ s = ResultOf(graph) /\ Uses(s) = {}
               THEN ShapesIn(TypeOf(graph, s)) ELSE {}
        /\ ProducedDue(graph, at, taken, s) =
               IF \/ Later(s) # {} \/ Borrowed(s) # {} \/ s \in graph.extras
                  \/ s = ResultOf(graph) /\ Uses(s) = {}
               THEN ShapesIn(TypeOf(graph, s)) ELSE {}
    BY <1>6, <1>10, <2>1 DEF ProducedDue
  <2>3. CASE Produced(s) \in Spent
    <3>1. ShapesAt(Produced(s))' = {}
      BY <1>2, <2>3 DEF ShapesAt
    <3> QED
      BY <1>4, <1>5, <1>7, <2>2, <2>3, <3>1
  <2>4. CASE Produced(s) \notin Spent
    <3>1. ShapesAt(Produced(s))' = ShapesAt(Produced(s))
      BY <1>2, <2>1, <2>4 DEF ShapesAt
    <3> QED
      BY <1>1, <1>4, <1>5, <2>2, <2>4, <3>1
  <2> QED
    BY <2>3, <2>4
<1> QED
  BY <1>0, <1>8, <1>9, <1>10

LEMMA PublishRecycles ==
    ASSUME EvalInductive, Recycling, Publish
    PROVE  Recycling'
<1>0. /\ phase = "publish" /\ Evaluating /\ Going /\ at' = at + 1 /\ taken' = {} /\ turn' = 1
      /\ phase' = IF at + 1 \notin NodesOf(graph) THEN "deliver"
                  ELSE IF KeepsState(graph, at + 1) THEN "state" ELSE "inputs"
      /\ UNCHANGED <<graph, allocated, full, settled>> /\ Going'
      /\ at \in NodesOf(graph) /\ at \in Nat /\ graph \in Graphs
      /\ allocated \in [Shapes -> Nat]
  <2>1. /\ phase = "publish" /\ at' = at + 1 /\ taken' = {} /\ turn' = 1
        /\ phase' = IF at + 1 \notin NodesOf(graph) THEN "deliver"
                    ELSE IF Stateful(at + 1) THEN "state" ELSE "inputs"
        /\ UNCHANGED <<graph, allocated, full, settled>>
    BY DEF Publish, EnterNode
  <2>2. Stateful(at + 1) <=> KeepsState(graph, at + 1)
    BY OfThisGraph
  <2>3. Evaluating
    BY <2>1 DEF Evaluating
  <2> QED
    BY <2>1, <2>2, <2>3, NodeFacts, GraphFacts DEF Going
<1>1. /\ holds'[Lost] = holds[Lost]
      /\ \A p \in NodePlaces \cup Spent : holds'[p] = {}
      /\ \A p \in CallerPlaces : holds'[p] = {}
      /\ \A s \in Sockets(graph) : Produced(s) \notin Spent =>
            holds'[Produced(s)] = IF s[1] = at /\ s[2] \notin Unwanted
                                  THEN holds[Output(s[2])] ELSE holds[Produced(s)]
  BY PublishMoves
<1>2. \A n \in NodesOf(graph) :
          holds'[Store(n)] = IF KeepsState(graph, at) /\ n = at THEN holds[Kept]
                             ELSE holds[Store(n)]
  <2>1. holds' = [p \in Places |->
            IF p = Pool THEN holds[Pool] \cup Contents(GivenBack)
            ELSE IF Stateful(at) /\ p = Store(at) THEN holds[Kept]
            ELSE IF p \in NodePlaces \cup Spent THEN {}
            ELSE IF p[1] = "produced" /\ p[2][1] = at /\ p[2][2] \notin Unwanted
                 THEN holds[Output(p[2][2])]
            ELSE holds[p]]
    BY DEF Publish, GivenBack, Scratch, Spent
  <2>2. ASSUME NEW n \in NodesOf(graph)
        PROVE  /\ Store(n) \in Places /\ Store(n) # Pool /\ Store(n) \notin NodePlaces \cup Spent
               /\ Store(n)[1] # "produced" /\ (Store(n) = Store(at) <=> n = at)
    BY PlaceFacts, Heads DEF Spent
  <2>3. Stateful(at) <=> KeepsState(graph, at)
    BY OfThisGraph
  <2> QED
    BY <2>1, <2>2, <2>3
<1>3. \A s \in Sockets(graph) : s[2] \in 1..MaxOutputs
  BY DEF Sockets
<1>4. SingleTextures'
  <2>1. ASSUME NEW p \in InUse
        PROVE  holds'[p] = {} \/ \E q \in InUse : holds'[p] \subseteq holds[q]
    <3>1. CASE p \in NodePlaces \/ p \in CallerPlaces
      BY <1>1, <3>1
    <3>2. CASE \E n \in NodesOf(graph) : p = Store(n)
      BY <1>2, <3>2, UsedPlaces
    <3>3. CASE \E s \in Sockets(graph) : p = Produced(s)
      <4>1. PICK s \in Sockets(graph) : p = Produced(s)
        BY <3>3
      <4>2. Output(s[2]) \in InUse
        BY <1>3, UsedPlaces
      <4> QED
        BY <1>1, <4>1, <4>2
    <3> QED
      BY <3>1, <3>2, <3>3, UsedPlaces, PlaceFacts
  <2> QED
    BY <1>0, <2>1, StaySingle DEF Recycling
<1>5. /\ ShapesAt(Kept) = KeptDue(graph, at, "publish")
      /\ full => \A n \in NodesOf(graph) : ShapesAt(Store(n)) = StoreDue(graph, at, "publish", n)
      /\ \A n \in NodesOf(graph) : ShapesAt(Store(n)) \in {{}, StateShapes(graph, n)}
  BY <1>0 DEF Recycling, DueIsThere, StateIsWhole
<1>6. \A n \in NodesOf(graph) :
          /\ KeepsState(graph, at) /\ n = at => ShapesAt(Store(n))' = StateShapes(graph, n)
          /\ ~(KeepsState(graph, at) /\ n = at) => ShapesAt(Store(n))' = ShapesAt(Store(n))
  <2>1. KeepsState(graph, at) => ShapesAt(Kept) = StateShapes(graph, at)
    BY <1>5 DEF KeptDue
  <2> QED
    BY <1>2, <2>1 DEF ShapesAt
<1>7. StateIsWhole'
  BY <1>0, <1>5, <1>6 DEF StateIsWhole
<1>8. ASSUME full, NEW n \in NodesOf(graph)
      PROVE  ShapesAt(Store(n))' = StoreDue(graph, at + 1, phase', n)
  <2>1. ShapesAt(Store(n))' = StateShapes(graph, n)
    <3>1. CASE n = at /\ KeepsState(graph, at)
      BY <1>6, <3>1
    <3>2. CASE n = at /\ ~KeepsState(graph, at)
      BY <1>5, <1>6, <3>2 DEF StateShapes
    <3>3. CASE n # at
      BY <1>5, <1>6, <1>8, <3>3 DEF StoreDue
    <3> QED
      BY <3>1, <3>2, <3>3
  <2>2. n = at + 1 /\ phase' # "state" => StateShapes(graph, n) = {}
    BY <1>0 DEF StateShapes
  <2> QED
    BY <2>1, <2>2 DEF StoreDue
<1>9. \A p \in NodePlaces : ShapesAt(p)' = {}
  BY <1>1 DEF ShapesAt
<1>10. /\ KeptDue(graph, at + 1, phase') = {}
       /\ \A i : InputDue(graph, at + 1, phase', {}, i) = {}
       /\ \A j : OutputDue(graph, at + 1, phase', 1, j) = {}
  BY <1>0 DEF KeptDue, InputDue, OutputDue
<1>11. \A s \in Sockets(graph) : ShapesAt(Produced(s))' = ProducedDue(graph, at + 1, {}, s)
  BY PublishedDue
<1>12. DueIsThere'
  BY <1>0, <1>8, <1>9, <1>10, <1>11, PlaceFacts DEF DueIsThere
<1>13. NodeIsAtWork'
  <2>1. at + 1 \notin NodesOf(graph) => at + 1 = Len(graph.kind) + 1
    <3> DEFINE c == Len(graph.kind)
    <3>1. NodesOf(graph) = 1..c /\ c \in Nat /\ at \in 1..c
      BY <1>0, GraphFacts
    <3> HIDE DEF c
    <3>2. at + 1 \notin 1..c => at + 1 = c + 1
      BY <3>1
    <3> QED
      BY <3>1, <3>2 DEF c
  <2> QED
    BY <1>0, <2>1 DEF NodeIsAtWork, InOrder
<1>14. PassedHaveRoom' /\ SettledHasRoom'
  <2>1. full => Room(at, phase, taken, turn)
    BY <1>0, HereHasRoom DEF Recycling
  <2>2. ASSUME NEW n \in NodesOf(graph), NEW ph \in {"inputs", "outputs"}, NEW tk, NEW tn,
               Passed(n, ph, tk, tn)'
        PROVE  Passed(n, ph, tk, tn)
    <3>1. n \in Nat
      BY <1>0, GraphFacts
    <3>2. CASE n < at + 1
      <4>1. n < at \/ n = at
        BY <1>0, <3>1, <3>2
      <4> QED
        BY <1>0, <4>1 DEF Passed
    <3>3. CASE n = at + 1
      <4>1. phase' \in {"state", "inputs"} /\ taken' = {}
        BY <1>0, <3>3
      <4>2. ~(n < at + 1)
        BY <1>0, <3>1, <3>3
      <4> QED
        BY <1>0, <2>2, <4>1, <4>2 DEF Passed
    <3> QED
      BY <1>0, <2>2, <3>2, <3>3 DEF Passed
  <2>3. allocated' \in [Shapes -> Nat] /\ \A s \in Shapes : allocated[s] <= allocated'[s]
    BY <1>0
  <2> QED
    BY <1>0, <1>1, <2>1, <2>2, <2>3, RoomStays DEF Recycling
<1> QED
  BY <1>4, <1>7, <1>12, <1>13, <1>14 DEF Recycling

\* An error, wherever it comes from.
LEMMA ErrorsRecycle ==
    ASSUME EvalInductive, Recycling,
           \/ TakeStateFails \/ IncompletePair \/ ComputeFails
           \/ AcquireOutputFails \/ CopyOutputFails \/ FillFails
           \/ \E i \in StillToTake : CopyInputFails(i) \/ MissingInput(i)
    PROVE  Recycling'
<1> SUFFICES \E got, gone : Err(got, gone)
  BY FailingRecycles
<1>1. CASE TakeStateFails
  BY <1>1 DEF TakeStateFails, Fail
<1>2. CASE IncompletePair
  BY <1>2 DEF IncompletePair
<1>3. CASE ComputeFails
  BY <1>3 DEF ComputeFails, Fail
<1>4. CASE AcquireOutputFails
  BY <1>4 DEF AcquireOutputFails, Fail
<1>5. CASE CopyOutputFails
  BY <1>5 DEF CopyOutputFails, Fail
<1>6. CASE FillFails
  BY <1>6 DEF FillFails, Fail
<1>7. CASE \E i \in StillToTake : CopyInputFails(i) \/ MissingInput(i)
  BY <1>7 DEF CopyInputFails, MissingInput, Fail
<1> QED
  BY <1>1, <1>2, <1>3, <1>4, <1>5, <1>6, <1>7

LEMMA RecyclingStarts ==
    ASSUME EvalInit
    PROVE  Recycling
<1>1. /\ phase = "idle" /\ settled = FALSE /\ \A p \in Places : holds[p] = {}
  BY DEF EvalInit
<1>2. \A p \in InUse : holds[p] = {} /\ ShapesAt(p) = {}
  BY <1>1, UsedPlaces DEF ShapesAt
<1>3. SingleTextures /\ StateIsWhole
  BY <1>2, UsedPlaces DEF SingleTextures, StateIsWhole
<1>4. DueIsThere /\ NodeIsAtWork /\ PassedHaveRoom /\ SettledHasRoom
  BY <1>1 DEF DueIsThere, NodeIsAtWork, PassedHaveRoom, SettledHasRoom, Going, Evaluating
<1> QED
  BY <1>3, <1>4 DEF Recycling

LEMMA RecyclingStays ==
    EvalInductive /\ Recycling /\ [EvalNext]_evalVars => Recycling'
<1> SUFFICES ASSUME EvalInductive, Recycling, [EvalNext]_evalVars
             PROVE  Recycling'
  OBVIOUS
<1>1. CASE Begin
  BY <1>1, BeginRecycles
<1>2. CASE TakeState \/ TakeStateFails \/ IncompletePair
  BY <1>2, TakeStateRecycles, ErrorsRecycle
<1>3. CASE \E i \in StillToTake :
              TakeInput(i) \/ CopyInput(i) \/ CopyInputFails(i) \/ MissingInput(i)
  BY <1>3, TakeInputRecycles, CopyInputRecycles, ErrorsRecycle
<1>4. CASE Compute \/ ComputeFails
  BY <1>4, ComputeRecycles, ErrorsRecycle
<1>5. CASE MakeOutput \/ AcquireOutputFails \/ CopyOutputFails \/ FillFails \/ Made
  BY <1>5, MakeOutputRecycles, MadeRecycles, ErrorsRecycle
<1>6. CASE Publish
  BY <1>6, PublishRecycles
<1>7. CASE Deliver \/ LacksResult \/ Abort
  BY <1>7, DeliverRecycles, LacksResultRecycles, ReleasingRecycles
<1>8. CASE ReleaseEvaluated \/ ClearState
  BY <1>8, ReleasingRecycles
<1>9. CASE UNCHANGED evalVars
  <2>1. UNCHANGED <<graph, phase, at, taken, turn, remaining, holds, allocated,
                    failures, full, settled>>
    BY <1>9 DEF evalVars
  <2>2. Places' = Places /\ InUse' = InUse /\ Kind' = Kind
    BY <2>1, GraphStays DEF InUse, Kind
  <2>3. Evaluating' = Evaluating /\ Going' = Going /\ \A p : ShapesAt(p)' = ShapesAt(p)
    BY <2>1 DEF Evaluating, Going, ShapesAt
  <2>4. SingleTextures' /\ StateIsWhole' /\ DueIsThere' /\ NodeIsAtWork'
    BY <2>1, <2>2, <2>3 DEF Recycling, SingleTextures, StateIsWhole, DueIsThere, NodeIsAtWork
  <2>5. \A n, ph, tk, tn : /\ Passed(n, ph, tk, tn)' = Passed(n, ph, tk, tn)
                           /\ Room(n, ph, tk, tn)' = Room(n, ph, tk, tn)
    BY <2>1, <2>2 DEF Passed, Room, Claims, Live
  <2>6. PassedHaveRoom' /\ SettledHasRoom'
    BY <2>1, <2>3, <2>5 DEF Recycling, PassedHaveRoom, SettledHasRoom
  <2> QED
    BY <2>4, <2>6 DEF Recycling
<1> QED
  BY <1>1, <1>2, <1>3, <1>4, <1>5, <1>6, <1>7, <1>8, <1>9 DEF EvalNext, Evaluate

LEMMA RecyclingInvariant ==
    EvalSpec => [](EvalInductive /\ Recycling)
<1>1. EvalInit => EvalInductive /\ Recycling
  BY EvalStarts, RecyclingStarts
<1>2. (EvalInductive /\ Recycling) /\ [EvalNext]_evalVars => (EvalInductive /\ Recycling)'
  BY EvalSteps, RecyclingStays
<1> QED
  BY <1>1, <1>2, PTL DEF EvalSpec

-----------------------------------------------------------------------------
\* Every texture of a value of this type comes from the pool.
FromThePool(type) ==
    \A k \in 0..Len(ShapesOf[type]) : \A s \in Shapes : <<s, allocated[s]>> \notin First(k, type)

\* Then no texture is created.
LEMMA NoneCreated ==
    ASSUME EvalTypeOK, NEW got, \A s \in Shapes : <<s, allocated[s]>> \notin got,
           allocated' = [s \in Shapes |-> IF <<s, allocated[s]>> \in got
                                          THEN allocated[s] + 1 ELSE allocated[s]]
    PROVE  allocated' = allocated
<1>1. allocated \in [Shapes -> Nat]
  BY DEF EvalTypeOK
<1>2. allocated' = [s \in Shapes |-> allocated[s]]
  OBVIOUS
<1> QED
  BY <1>1, <1>2

LEMMA PoolSupplies ==
    ASSUME EvalInductive, Recycling, settled, Evaluating,
           NEW ph \in {"inputs", "outputs"},
           NEW tk \in SUBSET (1..MaxInputs), NEW tn \in 1..(MaxOutputs + 1),
           IsPoint(graph, at, ph, tk, tn),
           NEW last \in InUse, holds[last] = {}, NEW type \in Types,
           Due(graph, at, ph, tk, tn, last) = ShapesIn(type),
           \A p \in InUse : p # last =>
               Due(graph, at, phase, taken, turn, p) \subseteq Due(graph, at, ph, tk, tn, p)
                   \/ holds[p] = {}
    PROVE  FromThePool(type)
<1>0. at \in NodesOf(graph) /\ EvalTypeOK /\ Numbered
  BY NodeFacts
<1>1. \A p \in InUse : ShapesAt(p) \subseteq Due(graph, at, ph, tk, tn, p)
  <2>1. \A p \in InUse : ShapesAt(p) \subseteq Due(graph, at, phase, taken, turn, p)
    BY DueIsHeld DEF Recycling
  <2>2. \A p \in InUse : holds[p] = {} => ShapesAt(p) = {}
    BY DEF ShapesAt
  <2> QED
    BY <2>1, <2>2
<1>2. \A s \in ShapesIn(type) : ~Exhausted(s)
  <2>1. ShapesIn(type) \subseteq Shapes
    BY ShapesInTable
  <2> QED
    BY <1>0, <1>1, <2>1, PoolServes DEF Recycling
<1> QED
  BY <1>0, <1>2, FirstFacts DEF FromThePool

LEMMA StateFromThePool ==
    ASSUME EvalInductive, Recycling, settled, phase = "state", holds[Store(at)] = {}
    PROVE  FromThePool(StateType[Kind])
<1>0. /\ Evaluating /\ at \in NodesOf(graph) /\ graph \in Graphs /\ taken = {} /\ turn = 1
      /\ KeepsState(graph, at) /\ StateType[Kind] \in Types
      /\ StateShapes(graph, at) = ShapesIn(StateType[Kind])
  <2>1. Evaluating
    BY DEF Evaluating
  <2>2. at \in NodesOf(graph) /\ graph \in Graphs /\ taken = {} /\ turn = 1 /\ Stateful(at)
    BY <2>1, NodeFacts DEF EvalInductive, JustBegun
  <2>3. KeepsState(graph, at) /\ StateType[graph.kind[at]] \in Types
    BY <2>2, OfThisGraph, SourceFacts
  <2> QED
    BY <2>1, <2>2, <2>3 DEF StateShapes, Kind
<1>1. IsPoint(graph, at, "inputs", {}, 1)
  BY DEF IsPoint, InOrder
<1>2. Kept \in InUse /\ holds[Kept] = {}
  BY UsedPlaces, PlaceFacts DEF EvalInductive, ElsewhereIsEmpty
<1>3. Due(graph, at, "inputs", {}, 1, Kept) = ShapesIn(StateType[Kind])
  BY <1>0, DueAt DEF KeptDue
<1>4. ASSUME NEW p \in InUse, p # Kept
      PROVE  \/ Due(graph, at, phase, taken, turn, p) \subseteq Due(graph, at, "inputs", {}, 1, p)
             \/ holds[p] = {}
  <2>1. CASE \E i \in 1..MaxInputs : p = Input(i)
    BY <2>1, DueAt DEF InputDue
  <2>2. CASE \E j \in 1..MaxOutputs : p = Output(j)
    BY <2>2, DueAt DEF OutputDue
  <2>3. CASE \E s \in Sockets(graph) : p = Produced(s)
    BY <1>0, <2>3, DueAt
  <2>4. CASE \E n \in NodesOf(graph) : p = Store(n)
    <3>1. PICK n \in NodesOf(graph) : p = Store(n)
      BY <2>4
    <3>2. CASE n = at
      BY <3>1, <3>2
    <3>3. CASE n # at
      BY <3>1, <3>3, DueAt DEF StoreDue
    <3> QED
      BY <3>2, <3>3
  <2>5. CASE \E s \in Sockets(graph) : p = Caller(s)
    BY <2>5, DueAt
  <2> QED
    BY <1>4, <2>1, <2>2, <2>3, <2>4, <2>5, UsedPlaces
<1>5. {} \in SUBSET (1..MaxInputs) /\ 1 \in 1..(MaxOutputs + 1)
  BY DEF MaxOutputs
<1> QED
  BY <1>0, <1>1, <1>2, <1>3, <1>4, <1>5, PoolSupplies

LEMMA CopyFromThePool ==
    ASSUME EvalInductive, Recycling, settled, NEW i, Wants(i), i \in Connected(at),
           ~LastUse(Source(i))
    PROVE  FromThePool(TypeOf(graph, Source(i)))
<1>0. /\ phase = "inputs" /\ Evaluating /\ i \in 1..MaxInputs /\ turn = 1
      /\ Source(i) \in Sockets(graph) /\ TypeOf(graph, Source(i)) \in Types
      /\ taken \subseteq 1..MaxInputs
  BY WantedInput DEF EvalInductive, JustBegun, EvalTypeOK
<1> DEFINE tk == taken \cup {i}
<1>1. /\ InOrder(graph, tk, at) /\ holds[Input(i)] = {}
      /\ ShapesIn(TypeOf(graph, Source(i))) = ShapesIn(InputTypes[graph.kind[at]][i])
      /\ \A s \in Sockets(graph) : s # Source(i) =>
            ProducedDue(graph, at, tk, s) = ProducedDue(graph, at, taken, s)
      /\ ShapesAt(Produced(Source(i))) = ShapesIn(TypeOf(graph, Source(i)))
      /\ ProducedDue(graph, at, tk, Source(i)) = ShapesIn(TypeOf(graph, Source(i)))
  BY TakingDue
<1>2. /\ tk \in SUBSET (1..MaxInputs) /\ 1 \in 1..(MaxOutputs + 1)
      /\ i \in tk /\ taken \subseteq tk
  BY <1>0 DEF MaxOutputs
<1> HIDE DEF tk
<1>3. IsPoint(graph, at, "inputs", tk, 1)
  BY <1>1 DEF IsPoint
<1>4. Input(i) \in InUse
  BY <1>0, UsedPlaces
<1>5. Due(graph, at, "inputs", tk, 1, Input(i)) = ShapesIn(TypeOf(graph, Source(i)))
  BY <1>1, <1>2, DueAt DEF InputDue
<1>6. \A s \in Sockets(graph) :
          ProducedDue(graph, at, taken, s) \subseteq ProducedDue(graph, at, tk, s)
  <2>1. \A s : ProducedDue(graph, at, taken, s) \subseteq ShapesIn(TypeOf(graph, s))
    BY DEF ProducedDue
  <2>2. ASSUME NEW s \in Sockets(graph)
        PROVE  ProducedDue(graph, at, taken, s) \subseteq ProducedDue(graph, at, tk, s)
    <3>1. CASE s = Source(i)
      BY <1>1, <2>1, <3>1
    <3>2. CASE s # Source(i)
      BY <1>1, <3>2
    <3> QED
      BY <3>1, <3>2
  <2> QED
    BY <2>2
<1>7. ASSUME NEW p \in InUse, p # Input(i)
      PROVE  Due(graph, at, phase, taken, turn, p) \subseteq Due(graph, at, "inputs", tk, 1, p)
  <2>1. CASE p = Kept
    BY <1>0, <2>1, DueAt
  <2>2. CASE \E k \in 1..MaxInputs : p = Input(k)
    <3>1. PICK k \in 1..MaxInputs : p = Input(k)
      BY <2>2
    <3>2. InputDue(graph, at, "inputs", taken, k) \subseteq InputDue(graph, at, "inputs", tk, k)
      BY <1>2 DEF InputDue
    <3> QED
      BY <1>0, <3>1, <3>2, DueAt
  <2>3. CASE \E j \in 1..MaxOutputs : p = Output(j)
    BY <1>0, <2>3, DueAt
  <2>4. CASE \E s \in Sockets(graph) : p = Produced(s)
    BY <1>0, <1>6, <2>4, DueAt
  <2>5. CASE \E n \in NodesOf(graph) : p = Store(n)
    BY <1>0, <2>5, DueAt
  <2>6. CASE \E s \in Sockets(graph) : p = Caller(s)
    BY <2>6, DueAt
  <2> QED
    BY <2>1, <2>2, <2>3, <2>4, <2>5, <2>6, UsedPlaces
<1> QED
  BY <1>0, <1>1, <1>2, <1>3, <1>4, <1>5, <1>7, PoolSupplies

LEMMA LoadFromThePool ==
    ASSUME EvalInductive, Recycling, settled, Ready, OneLoad
    PROVE  FromThePool("field")
<1>0. /\ phase = "inputs" /\ Evaluating /\ turn = 1 /\ at \in NodesOf(graph) /\ graph \in Graphs
      /\ Kind = graph.kind[at] /\ Kind \in Kinds
      /\ taken = TakesOf(graph, at) /\ taken \subseteq 1..MaxInputs
      /\ "field" \in Types
  BY ReadyFacts DEF EvalInductive, EvalTypeOK, Types
<1>1. /\ ShapesAt(Kept) = {} /\ Kind # "accumulate" /\ ~HandsOn(graph, at)
      /\ KeptDue(graph, at, "outputs") = ShapesIn("field")
      /\ \A i \in 1..MaxInputs : InputDue(graph, at, "outputs", taken, i) = ShapesAt(Input(i))
      /\ \A n : StoreDue(graph, at, "outputs", n) = StoreDue(graph, at, "inputs", n)
  BY ComputedDue
<1>2. holds[Kept] = {} /\ Kept \in InUse
  BY <1>1, UsedPlaces DEF ShapesAt
<1>3. 1 \in 1..(Len(OutputTypes[Kind]) + 1) /\ 1 \in 1..(MaxOutputs + 1)
  <2> DEFINE c == Len(OutputTypes[Kind])
  <2>1. c \in 1..MaxOutputs
    BY <1>0, KindTables
  <2> HIDE DEF c
  <2>2. 1 \in 1..(c + 1) /\ 1 \in 1..(MaxOutputs + 1)
    BY <2>1 DEF MaxOutputs
  <2> QED
    BY <2>2 DEF c
<1>4. IsPoint(graph, at, "outputs", taken, 1)
  BY <1>0, <1>1, <1>3 DEF IsPoint
<1>5. Due(graph, at, "outputs", taken, 1, Kept) = ShapesIn("field")
  BY <1>1, DueAt
<1>6. \A i \in 1..MaxInputs : ShapesAt(Input(i)) = InputDue(graph, at, "inputs", taken, i)
  BY ReadyFacts
<1>7. ASSUME NEW p \in InUse, p # Kept
      PROVE  Due(graph, at, phase, taken, turn, p) \subseteq Due(graph, at, "outputs", taken, 1, p)
  <2>2. CASE \E k \in 1..MaxInputs : p = Input(k)
    BY <1>0, <1>1, <1>6, <2>2, DueAt
  <2>3. CASE \E j \in 1..MaxOutputs : p = Output(j)
    BY <1>0, <2>3, DueAt DEF OutputDue
  <2>4. CASE \E s \in Sockets(graph) : p = Produced(s)
    BY <1>0, <2>4, DueAt
  <2>5. CASE \E n \in NodesOf(graph) : p = Store(n)
    BY <1>0, <1>1, <2>5, DueAt
  <2>6. CASE \E s \in Sockets(graph) : p = Caller(s)
    BY <2>6, DueAt
  <2> QED
    BY <1>7, <2>2, <2>3, <2>4, <2>5, <2>6, UsedPlaces
<1> QED
  BY <1>0, <1>2, <1>3, <1>4, <1>5, <1>7, PoolSupplies

LEMMA OutputFromThePool ==
    ASSUME EvalInductive, Recycling, settled, Making, ~Placeholder
    PROVE  FromThePool(OutputTypes[Kind][turn])
<1>0. /\ phase = "outputs" /\ Evaluating /\ graph \in Graphs /\ Kind = graph.kind[at]
      /\ turn \in 1..MaxOutputs /\ turn + 1 \in 1..(MaxOutputs + 1)
      /\ turn + 1 \in 1..(Len(OutputTypes[Kind]) + 1)
      /\ OutputTypes[Kind][turn] \in Types /\ taken \subseteq 1..MaxInputs
      /\ taken = TakesOf(graph, at) /\ ~HandsOn(graph, at) /\ holds[Output(turn)] = {}
      /\ \A j \in 1..MaxOutputs :
            OutputDue(graph, at, "outputs", turn + 1, j) =
                    IF j = turn /\ ~Placeholder THEN ShapesIn(OutputTypes[Kind][turn])
                    ELSE OutputDue(graph, at, "outputs", turn, j)
  BY MakingFacts DEF EvalInductive, EvalTypeOK
<1> DEFINE tn == turn + 1
<1>1. IsPoint(graph, at, "outputs", taken, tn)
  BY <1>0 DEF IsPoint
<1>2. Output(turn) \in InUse
  BY <1>0, UsedPlaces
<1>3. Due(graph, at, "outputs", taken, tn, Output(turn)) = ShapesIn(OutputTypes[Kind][turn])
  BY <1>0, DueAt
<1>4. ASSUME NEW p \in InUse, p # Output(turn)
      PROVE  Due(graph, at, phase, taken, turn, p) \subseteq Due(graph, at, "outputs", taken, tn, p)
  <2>1. CASE p = Kept
    BY <1>0, <2>1, DueAt
  <2>2. CASE \E k \in 1..MaxInputs : p = Input(k)
    BY <1>0, <2>2, DueAt
  <2>3. CASE \E j \in 1..MaxOutputs : p = Output(j)
    <3>1. PICK j \in 1..MaxOutputs : p = Output(j)
      BY <2>3
    <3>2. j # turn
      BY <1>4, <3>1
    <3> QED
      BY <1>0, <3>1, <3>2, DueAt
  <2>4. CASE \E s \in Sockets(graph) : p = Produced(s)
    BY <1>0, <2>4, DueAt
  <2>5. CASE \E n \in NodesOf(graph) : p = Store(n)
    BY <1>0, <2>5, DueAt
  <2>6. CASE \E s \in Sockets(graph) : p = Caller(s)
    BY <2>6, DueAt
  <2> QED
    BY <2>1, <2>2, <2>3, <2>4, <2>5, <2>6, UsedPlaces
<1>5. tn \in 1..(MaxOutputs + 1)
  BY <1>0
<1> HIDE DEF tn
<1> QED
  BY <1>0, <1>1, <1>2, <1>3, <1>4, <1>5, PoolSupplies

\* What a call that fails has acquired is part of a value.
LEMMA PartsOfValues ==
    ASSUME NEW type \in Types
    PROVE  /\ FailedCopies(type) \subseteq 0..Len(ShapesOf[type])
           /\ FailedAcquires(type) \subseteq 0..Len(ShapesOf[type])
           /\ Len(ShapesOf[type]) \in 0..Len(ShapesOf[type])
<1> DEFINE m == Len(ShapesOf[type])
<1>1. m \in Nat
  BY ShapesInTable
<1>2. FailedCopies(type) \subseteq 0..m /\ FailedAcquires(type) \subseteq 0..(m - 1)
  BY DEF FailedCopies, FailedAcquires
<1> HIDE DEF m
<1>3. 0..(m - 1) \subseteq 0..m /\ m \in 0..m
  BY <1>1
<1> QED
  BY <1>2, <1>3 DEF m

\* So acquiring a value from the pool creates none, whether it succeeds or not.
LEMMA NothingCreated ==
    ASSUME EvalInductive, NEW type \in Types, FromThePool(type),
           \/ \E place : Acquire(Whole(type), place)
           \/ \E n \in FailedCopies(type) \cup FailedAcquires(type) : \E gone :
                  Err(First(n, type), gone)
    PROVE  allocated' = allocated
<1>1. \E n \in 0..Len(ShapesOf[type]) :
          allocated' = [s \in Shapes |-> IF <<s, allocated[s]>> \in First(n, type)
                                         THEN allocated[s] + 1 ELSE allocated[s]]
  <2>1. CASE \E place : Acquire(Whole(type), place)
    BY <2>1, PartsOfValues DEF Acquire, Whole
  <2>2. CASE \E n \in FailedCopies(type) \cup FailedAcquires(type) : \E gone :
                  Err(First(n, type), gone)
    BY <2>2, PartsOfValues DEF Err
  <2> QED
    BY <2>1, <2>2
<1>2. PICK n \in 0..Len(ShapesOf[type]) :
          allocated' = [s \in Shapes |-> IF <<s, allocated[s]>> \in First(n, type)
                                         THEN allocated[s] + 1 ELSE allocated[s]]
  BY <1>1
<1>3. \A s \in Shapes : <<s, allocated[s]>> \notin First(n, type)
  BY DEF FromThePool
<1> DEFINE got == First(n, type)
<1>4. \A s \in Shapes : <<s, allocated[s]>> \notin got
  BY <1>3
<1>5. allocated' = [s \in Shapes |-> IF <<s, allocated[s]>> \in got
                                     THEN allocated[s] + 1 ELSE allocated[s]]
  BY <1>2
<1> HIDE DEF got
<1> QED
  BY <1>4, <1>5, NoneCreated DEF EvalInductive

\* An error at a point where nothing is acquired.
LEMMA NothingGot ==
    ASSUME EvalInductive, NEW gone, Err({}, gone)
    PROVE  allocated' = allocated
<1>1. allocated \in [Shapes -> Nat]
  BY DEF EvalInductive, EvalTypeOK
<1>2. allocated' = [s \in Shapes |-> allocated[s]]
  BY DEF Err
<1> QED
  BY <1>1, <1>2

LEMMA StateTyped ==
    ASSUME EvalInductive, phase = "state"
    PROVE  StateType[Kind] \in Types
<1>1. Evaluating
  BY DEF Evaluating
<1>2. at \in NodesOf(graph) /\ graph \in Graphs /\ KeepsState(graph, at)
  BY <1>1, NodeFacts, OfThisGraph DEF EvalInductive, JustBegun
<1> QED
  BY <1>2, SourceFacts DEF Kind

LEMMA SettledCreatesNone ==
    ASSUME EvalInductive, Recycling, settled, [EvalNext]_evalVars
    PROVE  allocated' = allocated
<1>1. CASE TakeState
  <2>0. phase = "state"
    BY <1>1 DEF TakeState
  <2>1. CASE holds[Store(at)] # {}
    BY <1>1, <2>1 DEF TakeState
  <2>2. CASE holds[Store(at)] = {}
    <3>1. Acquire(Whole(StateType[Kind]), Kept)
      BY <1>1, <2>2 DEF TakeState
    <3>2. FromThePool(StateType[Kind]) /\ StateType[Kind] \in Types
      BY <2>0, <2>2, StateFromThePool, StateTyped
    <3> QED
      BY <3>1, <3>2, NothingCreated
  <2> QED
    BY <2>1, <2>2
<1>2. CASE TakeStateFails
  <2>1. /\ phase = "state" /\ holds[Store(at)] = {}
        /\ \E n \in FailedCopies(StateType[Kind]) : \E gone :
               Err(First(n, StateType[Kind]), gone)
    BY <1>2 DEF TakeStateFails, Fail
  <2>2. FromThePool(StateType[Kind]) /\ StateType[Kind] \in Types
    BY <2>1, StateFromThePool, StateTyped
  <2> QED
    BY <2>1, <2>2, NothingCreated
<1>3. CASE \E i \in StillToTake : CopyInput(i) \/ CopyInputFails(i)
  <2>1. PICK i \in StillToTake : CopyInput(i) \/ CopyInputFails(i)
    BY <1>3
  <2> DEFINE type == TypeOf(graph, Source(i))
  <2>2. Wants(i) /\ i \in Connected(at) /\ ~LastUse(Source(i))
    BY <2>1 DEF CopyInput, CopyInputFails
  <2>3. FromThePool(type) /\ type \in Types
    BY <2>2, CopyFromThePool, WantedInput
  <2>4. \/ Acquire(Whole(type), Input(i))
        \/ \E n \in FailedCopies(type) : \E gone : Err(First(n, type), gone)
    BY <2>1 DEF CopyInput, CopyInputFails, Fail
  <2> HIDE DEF type
  <2> QED
    BY <2>3, <2>4, NothingCreated
<1>4. CASE Compute
  <2>1. CASE OneLoad
    <3>1. Acquire(Whole("field"), Kept) /\ Ready
      BY <1>4, <2>1 DEF Compute
    <3>2. FromThePool("field") /\ "field" \in Types
      BY <2>1, <3>1, LoadFromThePool DEF Types
    <3> QED
      BY <3>1, <3>2, NothingCreated
  <2>2. CASE ~OneLoad
    BY <1>4, <2>2 DEF Compute
  <2> QED
    BY <2>1, <2>2
<1>5. CASE ComputeFails
  <2>1. CASE \E gone : Err({}, gone)
    BY <2>1, NothingGot
  <2>2. CASE /\ Ready /\ OneLoad
             /\ \E n \in FailedCopies("field") : \E gone : Err(First(n, "field"), gone)
    <3>1. FromThePool("field") /\ "field" \in Types
      BY <2>2, LoadFromThePool DEF Types
    <3> QED
      BY <2>2, <3>1, NothingCreated
  <2> QED
    BY <1>5, <2>1, <2>2 DEF ComputeFails, Fail
<1>6. CASE MakeOutput
  <2>1. CASE Placeholder
    BY <1>6, <2>1 DEF MakeOutput
  <2>2. CASE ~Placeholder
    <3> DEFINE type == OutputTypes[Kind][turn]
    <3>1. Making /\ Acquire(Whole(type), Output(turn))
      BY <1>6, <2>2 DEF MakeOutput
    <3>2. FromThePool(type) /\ type \in Types
      BY <2>2, <3>1, OutputFromThePool, MakingFacts
    <3> HIDE DEF type
    <3> QED
      BY <3>1, <3>2, NothingCreated
  <2> QED
    BY <2>1, <2>2
<1>7. CASE AcquireOutputFails \/ CopyOutputFails
  <2> DEFINE type == OutputTypes[Kind][turn]
  <2>1. Making /\ ~Placeholder
    BY <1>7 DEF AcquireOutputFails, CopyOutputFails
  <2>2. \E n \in FailedCopies(type) \cup FailedAcquires(type) : \E gone : Err(First(n, type), gone)
    BY <1>7 DEF AcquireOutputFails, CopyOutputFails, Fail
  <2>3. FromThePool(type) /\ type \in Types
    BY <2>1, OutputFromThePool, MakingFacts
  <2> HIDE DEF type
  <2> QED
    BY <2>2, <2>3, NothingCreated
<1>8. CASE IncompletePair \/ FillFails \/ \E i \in StillToTake : MissingInput(i)
  <2>1. \E gone : Err({}, gone)
    BY <1>8 DEF IncompletePair, FillFails, MissingInput, Fail
  <2> QED
    BY <2>1, NothingGot
<1>9. CASE \E i \in StillToTake : TakeInput(i)
  BY <1>9 DEF TakeInput
<1>10. CASE Begin \/ Made \/ Publish \/ Deliver \/ LacksResult \/ Abort
  BY <1>10 DEF Begin, Made, Publish, Deliver, LacksResult, Abort
<1>11. CASE ReleaseEvaluated \/ ClearState \/ UNCHANGED evalVars
  BY <1>11 DEF ReleaseEvaluated, ClearState, evalVars
<1> QED
  BY <1>1, <1>2, <1>3, <1>4, <1>5, <1>6, <1>7, <1>8, <1>9, <1>10, <1>11 DEF EvalNext, Evaluate

\* Once a frame has completed from a full state store, and as long as no
\* failure drops a texture, evaluating the graph again creates none, whatever
\* the graph and wherever a frame stops: everything eval_frame acquires comes
\* from the pool.
THEOREM EverythingIsRecycled == EvalSpec => RecyclesEverything
<1>1. EvalSpec => [](EvalInductive /\ Recycling)
  BY RecyclingInvariant
<1>2. (EvalInductive /\ Recycling) /\ [EvalNext]_evalVars
          => [settled => allocated' = allocated]_evalVars
  BY SettledCreatesNone
<1> QED
  BY <1>1, <1>2, PTL DEF EvalSpec, RecyclesEverything
=============================================================================
