--------------------------- MODULE ScheduleProofs ---------------------------
(***************************************************************************)
(* The schedule of an evaluation, for every graph of formulas and areas:   *)
(* it follows the dependencies, with or without areas, and when it is done *)
(* every formula is ordered, circular or blocked, as it should be.  The    *)
(* last part is the correctness of the two depth first searches that find  *)
(* the cycles (Kosaraju's algorithm, without recursion).                   *)
(***************************************************************************)
EXTENDS EvaluationSchedule, FiniteSetTheorems, WellFoundedInduction, TLAPS

(* What the schedule has ordered.                                          *)
Ordered == {order[i] : i \in DOMAIN order}

(* What is complete, its dependents included: the ordered formulas, and    *)
(* the areas that wait for nothing and are not to be completed any more.   *)
Settled == Ordered \union {a \in AreaNodes : remaining[a] = 0 /\ a \notin completed}

ScheduleType ==
  /\ graph \in [Node -> SUBSET Node]
  /\ remaining \in [Node -> Nat]
  /\ ready \subseteq FormulaNode
  /\ completed \subseteq AreaNodes
  /\ order \in Seq(FormulaNode)

(***************************************************************************)
(* The inductive invariant: remaining counts what is not settled, and what *)
(* is ordered, ready or just completed waits for nothing.                  *)
(***************************************************************************)
ScheduleInv ==
  /\ ScheduleType
  /\ \A n \in Node : remaining[n] = Cardinality(graph[n] \ Settled)
  /\ \A f \in ready : remaining[f] = 0 /\ f \notin Ordered
  /\ \A f \in Ordered : remaining[f] = 0
  /\ \A a \in completed : remaining[a] = 0
  /\ OrderFollowsWaits

(* Nodes are natural numbers, and there are finitely many of them.         *)
LEMMA NodesAreFinite ==
  /\ IsFiniteSet(Node) /\ Node \subseteq Nat
  /\ FormulaNode \subseteq Node /\ AreaNodes \subseteq Node /\ FormulaNode \intersect AreaNodes = {}
<1>1. FormulaCount \in Nat /\ AreaCount \in Nat
  BY ScheduleAssumption
<1>2. IsFiniteSet(Node)
  BY <1>1, FS_Interval DEF Node
<1> QED
  BY <1>1, <1>2 DEF Node, FormulaNode, AreaNodes

(* A node whose open dependencies are counted as none has none.            *)
LEMMA NothingRemains ==
  ASSUME ScheduleInv, NEW n \in Node, remaining[n] = 0
  PROVE  graph[n] \subseteq Settled
<1>1. graph[n] \subseteq Node /\ Cardinality(graph[n] \ Settled) = 0
  BY DEF ScheduleInv, ScheduleType
<1>2. IsFiniteSet(graph[n] \ Settled)
  BY <1>1, NodesAreFinite, FS_Subset
<1>3. graph[n] \ Settled = {}
  BY <1>1, <1>2, FS_EmptySet
<1> QED
  BY <1>3

(* A formula that waits for nothing any more comes after all it awaits.    *)
LEMMA AwaitedAreOrdered ==
  ASSUME ScheduleInv, NEW n \in Node, remaining[n] = 0
  PROVE  FormulasAwaited(n) \subseteq Ordered
<1>1. graph[n] \subseteq Settled
  BY NothingRemains
<1>2. ASSUME NEW a \in Settled \intersect AreaNodes
      PROVE  graph[a] \subseteq Settled
  <2>1. a \in Node /\ remaining[a] = 0
    BY <1>2, NodesAreFinite DEF Settled, ScheduleInv
  <2> QED
    BY <2>1, NothingRemains
<1>3. Settled \in SUBSET Node
  <2>1. \A i \in DOMAIN order : order[i] \in FormulaNode
    BY DEF ScheduleInv, ScheduleType
  <2> QED
    BY <2>1, NodesAreFinite DEF Settled, Ordered
<1>4. FormulasAwaited(n) \subseteq Settled \intersect FormulaNode
  BY <1>1, <1>2, <1>3 DEF FormulasAwaited
<1> QED
  BY <1>4, NodesAreFinite DEF Settled

(* At the start nothing is settled.                                        *)
LEMMA InitInv == ScheduleInit => ScheduleInv
<1> SUFFICES ASSUME ScheduleInit PROVE ScheduleInv
  OBVIOUS
<1>1. PICK g \in Graphs : graph = DenseGraph(g)
  BY DEF ScheduleInit, ScheduleStarts
<1>2. graph \in [Node -> SUBSET Node]
  BY <1>1 DEF DenseGraph
<1>3. \A n \in Node : IsFiniteSet(graph[n])
  BY <1>2, NodesAreFinite, FS_Subset
<1>4. remaining \in [Node -> Nat]
  BY <1>2, <1>3, FS_CardinalityType DEF ScheduleInit, ScheduleStarts
<1>5. order = <<>> /\ Ordered = {}
  BY DEF ScheduleInit, ScheduleStarts, Ordered
<1>6. ScheduleType
  BY <1>2, <1>4, <1>5 DEF ScheduleInit, ScheduleStarts, ScheduleType
<1>7. Settled = {}
  BY <1>5 DEF Settled, ScheduleInit, ScheduleStarts
<1>8. \A n \in Node : remaining[n] = Cardinality(graph[n] \ Settled)
  <2> SUFFICES ASSUME NEW n \in Node PROVE remaining[n] = Cardinality(graph[n] \ Settled)
    OBVIOUS
  <2>1. graph[n] \ Settled = graph[n]
    BY <1>7
  <2> QED
    BY <2>1 DEF ScheduleInit, ScheduleStarts
<1>9. OrderFollowsWaits
  BY <1>5 DEF OrderFollowsWaits
<1> QED
  BY <1>5, <1>6, <1>8, <1>9 DEF ScheduleInv, ScheduleInit, ScheduleStarts

(* Completing a node settles it and nothing else.                          *)
LEMMA CompleteSettles ==
  ASSUME ScheduleInv, NEW n \in Node, remaining[n] = 0, n \notin Settled,
         NEW formulas, NEW areas,
         Complete(n, formulas, areas), graph' = graph,
         Settled' = Settled \union {n}
  PROVE  /\ remaining' \in [Node -> Nat]
         /\ \A m \in Node : remaining'[m] = Cardinality(graph[m] \ Settled')
         /\ \A m \in Node : remaining[m] = 0 => remaining'[m] = 0
         /\ \A m \in ready' : m \in formulas \/ (remaining'[m] = 0 /\ remaining[m] = 1)
<1> DEFINE open(m) == graph[m] \ Settled
<1>1. /\ graph \in [Node -> SUBSET Node] /\ remaining \in [Node -> Nat]
      /\ \A m \in Node : remaining[m] = Cardinality(open(m))
  BY DEF ScheduleInv, ScheduleType
<1>2. remaining' = [m \in Node |-> IF n \in graph[m] THEN remaining[m] - 1 ELSE remaining[m]]
  BY DEF Complete
<1>3. ASSUME NEW m \in Node
      PROVE  /\ remaining'[m] \in Nat /\ remaining'[m] = Cardinality(graph[m] \ Settled')
             /\ remaining[m] = 0 => remaining'[m] = 0
  <2>1. IsFiniteSet(open(m))
    BY <1>1, NodesAreFinite, FS_Subset
  <2>2. CASE n \in graph[m]
    <3>1. n \in open(m) /\ graph[m] \ Settled' = open(m) \ {n}
      BY <2>2
    <3>2. Cardinality(open(m) \ {n}) = Cardinality(open(m)) - 1 /\ Cardinality(open(m)) \in Nat
      BY <2>1, <3>1, FS_RemoveElement, FS_CardinalityType
    <3>3. Cardinality(open(m)) # 0
      BY <2>1, <3>1, FS_EmptySet
    <3>4. remaining'[m] = remaining[m] - 1
      BY <1>2, <2>2
    <3>5. remaining[m] = Cardinality(open(m))
      BY <1>1
    <3> HIDE DEF open
    <3>6. Cardinality(graph[m] \ Settled') = Cardinality(open(m)) - 1
      BY <3>1, <3>2
    <3> QED
      BY <3>2, <3>3, <3>4, <3>5, <3>6
  <2>3. CASE n \notin graph[m]
    <3>1. graph[m] \ Settled' = open(m)
      BY <2>3
    <3> QED
      BY <1>1, <1>2, <2>3, <3>1
  <2> QED
    BY <2>2, <2>3
<1>4. \A m \in ready' : m \in formulas \/ (remaining'[m] = 0 /\ remaining[m] = 1)
  BY <1>1, <1>2 DEF Complete, ReadyBy
<1>5. remaining' \in [Node -> Nat]
  BY <1>2, <1>3
<1> QED
  BY <1>3, <1>4, <1>5

(* A step that settles one node more.                                      *)
SettlesOne ==
  /\ graph' = graph
  /\ \E n \in Node : n \notin Settled /\ remaining[n] = 0 /\ Settled' = Settled \union {n}

(* A completed area tells its dependents (complete_area).                  *)
LEMMA CompleteAreaInv ==
  ASSUME ScheduleInv, CompleteArea
  PROVE  ScheduleInv' /\ SettlesOne
<1>1. PICK a \in completed : Complete(a, ready, completed \ {a})
  BY DEF CompleteArea
<1>2. graph' = graph /\ order' = order
  BY DEF CompleteArea
<1>3. a \in Node /\ a \in AreaNodes /\ remaining[a] = 0 /\ a \notin FormulaNode
  BY <1>1, NodesAreFinite DEF ScheduleInv, ScheduleType
<1>4. Ordered' = Ordered /\ Ordered \subseteq FormulaNode
  BY <1>2 DEF Ordered, ScheduleInv, ScheduleType
<1>5. a \notin Settled
  BY <1>1, <1>3, <1>4 DEF Settled
<1>6. /\ graph \in [Node -> SUBSET Node] /\ remaining \in [Node -> Nat]
      /\ ready \subseteq FormulaNode /\ completed \subseteq AreaNodes /\ order \in Seq(FormulaNode)
      /\ \A b \in completed : remaining[b] = 0
  BY DEF ScheduleInv, ScheduleType
<1>7. /\ remaining' = [m \in Node |-> IF a \in graph[m] THEN remaining[m] - 1 ELSE remaining[m]]
      /\ completed' = (completed \ {a}) \union ({m \in Node : a \in graph[m] /\ remaining[m] = 1} \intersect AreaNodes)
      /\ ready' = ready \union ({m \in Node : a \in graph[m] /\ remaining[m] = 1} \intersect FormulaNode)
  BY <1>1 DEF Complete, ReadyBy
<1>8. \A m \in Node : a \in graph[m] => remaining[m] # 0
  <2> SUFFICES ASSUME NEW m \in Node, a \in graph[m], remaining[m] = 0 PROVE FALSE
    OBVIOUS
  <2> QED
    BY <1>5, NothingRemains
<1>9. \A b \in AreaNodes : (remaining'[b] = 0 /\ b \notin completed')
                             <=> (b = a \/ (remaining[b] = 0 /\ b \notin completed))
  BY <1>1, <1>3, <1>6, <1>7, <1>8, NodesAreFinite
<1>10. Settled' = Settled \union {a}
  BY <1>3, <1>4, <1>9 DEF Settled
<1>11. /\ remaining' \in [Node -> Nat]
       /\ \A m \in Node : remaining'[m] = Cardinality(graph[m] \ Settled')
       /\ \A m \in Node : remaining[m] = 0 => remaining'[m] = 0
       /\ \A m \in ready' : m \in ready \/ (remaining'[m] = 0 /\ remaining[m] = 1)
  BY <1>1, <1>2, <1>3, <1>5, <1>10, CompleteSettles
<1>12. ScheduleType'
  BY <1>2, <1>6, <1>7, <1>11 DEF ScheduleType
<1>13. /\ \A f \in ready : remaining[f] = 0 /\ f \notin Ordered
       /\ \A f \in Ordered : remaining[f] = 0
       /\ OrderFollowsWaits
  BY DEF ScheduleInv
<1>14. /\ \A f \in ready' : remaining'[f] = 0 /\ f \notin Ordered'
       /\ \A f \in Ordered' : remaining'[f] = 0
  <2>1. \A f \in Ordered : remaining'[f] = 0
    BY <1>4, <1>11, <1>13, NodesAreFinite
  <2>2. ASSUME NEW f \in ready'
        PROVE  remaining'[f] = 0 /\ f \notin Ordered
    <3>1. CASE f \in ready
      BY <1>6, <1>11, <1>13, <3>1, NodesAreFinite
    <3>2. CASE remaining'[f] = 0 /\ remaining[f] = 1
      BY <1>13, <3>2
    <3> QED
      BY <1>11, <3>1, <3>2
  <2> QED
    BY <1>4, <2>1, <2>2
<1>15. \A b \in completed' : remaining'[b] = 0
  BY <1>6, <1>7, <1>11, NodesAreFinite
<1>16. OrderFollowsWaits'
  BY <1>2, <1>13 DEF OrderFollowsWaits, FormulasAwaited
<1>17. SettlesOne
  BY <1>2, <1>3, <1>5, <1>10 DEF SettlesOne
<1> QED
  BY <1>2, <1>11, <1>12, <1>14, <1>15, <1>16, <1>17 DEF ScheduleInv

(* An ordered formula tells its dependents (complete_formula).             *)
LEMMA TakeFormulaInv ==
  ASSUME ScheduleInv, TakeFormula
  PROVE  ScheduleInv' /\ SettlesOne
<1>1. PICK f \in ready : order' = Append(order, f) /\ Complete(f, ready \ {f}, completed)
  BY DEF TakeFormula
<1>2. graph' = graph
  BY DEF TakeFormula
<1>3. /\ graph \in [Node -> SUBSET Node] /\ remaining \in [Node -> Nat]
      /\ ready \subseteq FormulaNode /\ completed \subseteq AreaNodes /\ order \in Seq(FormulaNode)
      /\ \A b \in completed : remaining[b] = 0
  BY DEF ScheduleInv, ScheduleType
<1>4. /\ \A g \in ready : remaining[g] = 0 /\ g \notin Ordered
      /\ \A g \in Ordered : remaining[g] = 0
      /\ OrderFollowsWaits
  BY DEF ScheduleInv
<1>5. f \in Node /\ f \in FormulaNode /\ f \notin AreaNodes /\ remaining[f] = 0 /\ f \notin Ordered
  BY <1>1, <1>3, <1>4, NodesAreFinite
<1>6. f \notin Settled
  BY <1>5 DEF Settled
<1>7. /\ DOMAIN order' = 1..(Len(order) + 1) /\ DOMAIN order = 1..Len(order) /\ Len(order) \in Nat
      /\ \A i \in 1..Len(order) : order'[i] = order[i]
      /\ order'[Len(order) + 1] = f
      /\ order' \in Seq(FormulaNode)
  BY <1>1, <1>3, <1>5
<1>8. Ordered' = Ordered \union {f} /\ Ordered \subseteq FormulaNode
  <2>1. \A i \in 1..(Len(order) + 1) : i \in 1..Len(order) \/ i = Len(order) + 1
    BY <1>7
  <2>2. Ordered' = {order'[i] : i \in 1..(Len(order) + 1)} /\ Ordered = {order[i] : i \in 1..Len(order)}
    BY <1>7 DEF Ordered
  <2>3. Ordered' \subseteq Ordered \union {f}
    BY <1>7, <2>1, <2>2
  <2>4. Ordered \subseteq Ordered'
    BY <1>7, <2>2
  <2>5. f \in Ordered'
    BY <1>7, <2>2
  <2>6. Ordered \subseteq FormulaNode
    BY <1>3 DEF Ordered
  <2> QED
    BY <2>3, <2>4, <2>5, <2>6
<1>9. /\ remaining' = [m \in Node |-> IF f \in graph[m] THEN remaining[m] - 1 ELSE remaining[m]]
      /\ completed' = completed \union ({m \in Node : f \in graph[m] /\ remaining[m] = 1} \intersect AreaNodes)
      /\ ready' = (ready \ {f}) \union ({m \in Node : f \in graph[m] /\ remaining[m] = 1} \intersect FormulaNode)
  BY <1>1 DEF Complete, ReadyBy
<1>10. \A m \in Node : f \in graph[m] => remaining[m] # 0
  <2> SUFFICES ASSUME NEW m \in Node, f \in graph[m], remaining[m] = 0 PROVE FALSE
    OBVIOUS
  <2> QED
    BY <1>6, NothingRemains
<1>11. \A b \in AreaNodes : (remaining'[b] = 0 /\ b \notin completed')
                              <=> (remaining[b] = 0 /\ b \notin completed)
  BY <1>3, <1>9, <1>10, NodesAreFinite
<1>12. Settled' = Settled \union {f}
  BY <1>8, <1>11 DEF Settled
<1>13. /\ remaining' \in [Node -> Nat]
       /\ \A m \in Node : remaining'[m] = Cardinality(graph[m] \ Settled')
       /\ \A m \in Node : remaining[m] = 0 => remaining'[m] = 0
       /\ \A m \in ready' : m \in (ready \ {f}) \/ (remaining'[m] = 0 /\ remaining[m] = 1)
  BY <1>1, <1>2, <1>5, <1>6, <1>12, CompleteSettles
<1>14. ScheduleType'
  BY <1>2, <1>3, <1>7, <1>9, <1>13 DEF ScheduleType
<1>15. \A g \in Ordered' : remaining'[g] = 0
  BY <1>4, <1>5, <1>8, <1>13, NodesAreFinite
<1>16. ASSUME NEW g \in ready'
       PROVE  remaining'[g] = 0 /\ g \notin Ordered'
  <2>1. CASE g \in ready \ {f}
    BY <1>3, <1>4, <1>8, <1>13, <2>1, NodesAreFinite
  <2>2. CASE remaining'[g] = 0 /\ remaining[g] = 1
    BY <1>4, <1>5, <1>8, <2>2
  <2> QED
    BY <1>13, <2>1, <2>2
<1>17. \A b \in completed' : remaining'[b] = 0
  BY <1>3, <1>9, <1>13, NodesAreFinite
<1>18. OrderFollowsWaits'
  <2>1. FormulasAwaited(f) \subseteq Ordered
    BY <1>5, AwaitedAreOrdered
  <2> SUFFICES ASSUME NEW i \in DOMAIN order'
               PROVE  FormulasAwaited(order'[i]) \subseteq {order'[j] : j \in 1..(i - 1)}
    BY <1>2 DEF OrderFollowsWaits, FormulasAwaited
  <2>2. CASE i \in 1..Len(order)
    <3>1. FormulasAwaited(order[i]) \subseteq {order[j] : j \in 1..(i - 1)}
      BY <1>4, <1>7, <2>2 DEF OrderFollowsWaits
    <3>2. \A j \in 1..(i - 1) : order'[j] = order[j]
      BY <1>7, <2>2
    <3>3. order'[i] = order[i]
      BY <1>7, <2>2
    <3> QED
      BY <3>1, <3>2, <3>3
  <2>3. CASE i = Len(order) + 1
    <3>1. order'[i] = f /\ i - 1 = Len(order)
      BY <1>7, <2>3
    <3>2. Ordered = {order'[j] : j \in 1..(i - 1)}
      BY <1>7, <3>1 DEF Ordered
    <3> QED
      BY <2>1, <3>1, <3>2
  <2> QED
    BY <1>7, <2>2, <2>3
<1>19. SettlesOne
  BY <1>2, <1>5, <1>6, <1>12 DEF SettlesOne
<1> QED
  BY <1>2, <1>13, <1>14, <1>15, <1>16, <1>17, <1>18, <1>19 DEF ScheduleInv

(* The later stages change nothing of this.                                *)
LEMMA ScheduleStep == ScheduleInv /\ [ScheduleNext]_scheduleVars => ScheduleInv'
<1> SUFFICES ASSUME ScheduleInv, [ScheduleNext]_scheduleVars PROVE ScheduleInv'
  OBVIOUS
<1>1. CASE CompleteArea
  BY <1>1, CompleteAreaInv
<1>2. CASE TakeFormula
  BY <1>2, TakeFormulaInv
<1>3. CASE UNCHANGED <<graph, remaining, ready, completed, order>>
  <2>1. Ordered' = Ordered /\ ScheduleType' = ScheduleType
    BY <1>3 DEF Ordered, ScheduleType
  <2>2. Settled' = Settled
    BY <1>3, <2>1 DEF Settled
  <2>3. OrderFollowsWaits' = OrderFollowsWaits
    BY <1>3 DEF OrderFollowsWaits, FormulasAwaited
  <2> QED
    BY <1>3, <2>1, <2>2, <2>3 DEF ScheduleInv
<1>4. CASE EndOrder \/ EndVisit \/ EndSchedule \/ CancelSchedule
  BY <1>3, <1>4 DEF EndOrder, EndVisit, EndSchedule, CancelSchedule
<1>5. CASE VisitNext
  BY <1>3, <1>5 DEF VisitNext
<1>6. CASE VisitPop
  BY <1>3, <1>6 DEF VisitPop
<1>7. CASE NextComponent
  BY <1>3, <1>7 DEF NextComponent
<1>8. CASE UNCHANGED scheduleVars
  BY <1>3, <1>8 DEF scheduleVars
<1> QED
  BY <1>1, <1>2, <1>4, <1>5, <1>6, <1>7, <1>8 DEF ScheduleNext

(***************************************************************************)
(* For every dependency graph, with however many formulas and areas, the   *)
(* order of schedule_cancellable has every formula after all those it      *)
(* waits for.                                                              *)
(***************************************************************************)
THEOREM SchedulesFollowWaits == ScheduleSpec => []OrderFollowsWaits
<1>1. ScheduleInv => OrderFollowsWaits
  BY DEF ScheduleInv
<1> QED
  BY <1>1, InitInv, ScheduleStep, PTL DEF ScheduleSpec

-----------------------------------------------------------------------------
(* A set of natural numbers that is not empty has a least element.         *)
LEMMA LeastNatural ==
  ASSUME NEW S, S \subseteq Nat, S # {}
  PROVE  \E m \in S : \A n \in S : m <= n
<1> DEFINE R == OpToRel(<, Nat)
<1>1. IsWellFoundedOn(R, Nat)
  BY NatLessThanWellFounded
<1>2. \A x, y \in Nat : x < y => <<x, y>> \in R
  BY DEF OpToRel
<1> HIDE DEF R
<1>3. PICK m \in S : \A n \in S : ~(<<n, m>> \in R)
  BY <1>1, WFMin
<1>4. ASSUME NEW n \in S PROVE m <= n
  <2>1. m \in Nat /\ n \in Nat
    OBVIOUS
  <2>2. ~(n < m)
    BY <1>2, <1>3, <2>1, Zenon
  <2> QED
    BY <2>1, <2>2
<1> QED
  BY <1>4

(***************************************************************************)
(* What makes the order independent of the areas: no formula that waits    *)
(* for nothing is forgotten, and areas hold areas added before them.       *)
(***************************************************************************)
ReadyInv ==
  /\ \A a \in AreaNodes : \A b \in graph[a] \intersect AreaNodes : b < a
  /\ \A f \in FormulaNode : remaining[f] = 0 => f \in ready \union Ordered

(* Formulas that wait for nothing are ready at once.                       *)
LEMMA ReadyInit == ScheduleInit => ReadyInv
<1> SUFFICES ASSUME ScheduleInit PROVE ReadyInv
  OBVIOUS
<1>1. PICK g \in Graphs : ScheduleStarts(g)
  BY DEF ScheduleInit
<1>2. graph = DenseGraph(g) /\ ready = {f \in FormulaNode : remaining[f] = 0}
  BY <1>1 DEF ScheduleStarts
<1>3. \A a \in AreaNodes : \A b \in g[a] \intersect AreaNodes : b < a
  BY ScheduleAssumption
<1>4. \A a \in AreaNodes : graph[a] = g[a] \intersect Node
  BY <1>2, NodesAreFinite DEF DenseGraph
<1> QED
  BY <1>2, <1>3, <1>4 DEF ReadyInv

(* A formula whose last open dependency completes is ready.                *)
LEMMA CompleteReady ==
  ASSUME ScheduleInv, ReadyInv, NEW n \in Node, NEW formulas, NEW areas,
         Complete(n, formulas, areas), graph' = graph,
         ready \subseteq formulas \union Ordered', Ordered \subseteq Ordered'
  PROVE  ReadyInv'
<1>1. graph \in [Node -> SUBSET Node] /\ remaining \in [Node -> Nat]
  BY DEF ScheduleInv, ScheduleType
<1>2. /\ remaining' = [m \in Node |-> IF n \in graph[m] THEN remaining[m] - 1 ELSE remaining[m]]
      /\ ready' = formulas \union ({m \in Node : n \in graph[m] /\ remaining[m] = 1} \intersect FormulaNode)
  BY DEF Complete, ReadyBy
<1>3. ASSUME NEW f \in FormulaNode, remaining'[f] = 0 PROVE f \in ready' \union Ordered'
  <2>1. f \in Node /\ remaining[f] \in Nat
    BY <1>1, NodesAreFinite
  <2>2. CASE remaining[f] = 0
    BY <1>2, <2>2 DEF ReadyInv
  <2>3. CASE remaining[f] # 0
    <3>1. n \in graph[f] /\ remaining[f] = 1
      BY <1>2, <1>3, <2>1, <2>3
    <3> QED
      BY <1>2, <2>1, <3>1
  <2> QED
    BY <2>2, <2>3
<1> QED
  BY <1>3 DEF ReadyInv

(* A formula whose last wait ends is made ready.                           *)
LEMMA ReadyStep == ScheduleInv /\ ReadyInv /\ [ScheduleNext]_scheduleVars => ReadyInv'
<1> SUFFICES ASSUME ScheduleInv, ReadyInv, [ScheduleNext]_scheduleVars PROVE ReadyInv'
  OBVIOUS
<1>1. CASE CompleteArea
  <2>1. PICK a \in completed : Complete(a, ready, completed \ {a})
    BY <1>1 DEF CompleteArea
  <2>2. a \in Node /\ graph' = graph /\ Ordered' = Ordered
    BY <1>1, NodesAreFinite DEF CompleteArea, Ordered, ScheduleInv, ScheduleType
  <2> QED
    BY <2>1, <2>2, CompleteReady
<1>2. CASE TakeFormula
  <2>1. PICK f \in ready : order' = Append(order, f) /\ Complete(f, ready \ {f}, completed)
    BY <1>2 DEF TakeFormula
  <2>2. f \in Node /\ graph' = graph
    BY <1>2, NodesAreFinite DEF TakeFormula, ScheduleInv, ScheduleType
  <2>3. Ordered \subseteq Ordered' /\ f \in Ordered'
    <3>1. order \in Seq(FormulaNode) /\ f \in FormulaNode
      BY DEF ScheduleInv, ScheduleType
    <3>2. /\ DOMAIN order' = 1..(Len(order) + 1) /\ DOMAIN order = 1..Len(order) /\ Len(order) \in Nat
          /\ \A i \in 1..Len(order) : order'[i] = order[i]
          /\ order'[Len(order) + 1] = f
      BY <2>1, <3>1
    <3> QED
      BY <3>2 DEF Ordered
  <2> QED
    BY <2>1, <2>2, <2>3, CompleteReady
<1>3. CASE UNCHANGED <<graph, remaining, ready, order>>
  BY <1>3 DEF ReadyInv, Ordered
<1>4. CASE EndOrder \/ EndVisit \/ EndSchedule \/ CancelSchedule
  BY <1>3, <1>4 DEF EndOrder, EndVisit, EndSchedule, CancelSchedule
<1>5. CASE VisitNext
  BY <1>3, <1>5 DEF VisitNext
<1>6. CASE VisitPop
  BY <1>3, <1>6 DEF VisitPop
<1>7. CASE NextComponent
  BY <1>3, <1>7 DEF NextComponent
<1>8. CASE UNCHANGED scheduleVars
  BY <1>3, <1>8 DEF scheduleVars
<1> QED
  BY <1>1, <1>2, <1>4, <1>5, <1>6, <1>7, <1>8 DEF ScheduleNext

(* A node that is not done waits for one that is not settled.              *)
LEMMA SomethingRemains ==
  ASSUME ScheduleInv, NEW n \in Node, remaining[n] # 0
  PROVE  \E d \in graph[n] : d \notin Settled
<1>1. remaining[n] = Cardinality(graph[n] \ Settled)
  BY DEF ScheduleInv
<1>2. graph[n] \ Settled # {}
  BY <1>1, FS_EmptySet
<1> QED
  BY <1>2

(***************************************************************************)
(* When no area is left to complete, the ready formulas are exactly the    *)
(* unordered ones whose awaited formulas are all ordered.  A formula that  *)
(* is not ready waits for something unsettled; following the areas down to *)
(* the least unsettled one ends at an unordered formula.                   *)
(***************************************************************************)
LEMMA ReadyIsAwaitedOrdered ==
  ASSUME ScheduleInv, ReadyInv, completed = {}
  PROVE  ready = {g \in FormulaNode \ Ordered : FormulasAwaited(g) \subseteq Ordered}
<1>1. ASSUME NEW g \in ready PROVE g \in FormulaNode \ Ordered /\ FormulasAwaited(g) \subseteq Ordered
  BY <1>1, AwaitedAreOrdered, NodesAreFinite DEF ScheduleInv, ScheduleType
<1>2. ASSUME NEW g \in FormulaNode \ Ordered, FormulasAwaited(g) \subseteq Ordered, g \notin ready
      PROVE  FALSE
  <2>1. g \in Node /\ remaining[g] # 0 /\ graph \in [Node -> SUBSET Node]
    BY <1>2, NodesAreFinite DEF ReadyInv, ScheduleInv, ScheduleType
  <2> DEFINE Closed(U) == graph[g] \subseteq U /\ \A a \in U \intersect AreaNodes : graph[a] \subseteq U
             W == {n \in Node : \A U \in SUBSET Node : Closed(U) => n \in U}
             A == {a \in W \intersect AreaNodes : a \notin Settled}
  <2>2. graph[g] \subseteq W
    BY <2>1
  <2>3. ASSUME NEW a \in W \intersect AreaNodes PROVE graph[a] \subseteq W
    BY <2>1, <2>3
  <2>4. FormulasAwaited(g) = W \intersect FormulaNode
    BY NodesAreFinite DEF FormulasAwaited
  <2> HIDE DEF W
  <2>5. ASSUME NEW d \in W, d \notin Settled PROVE d \in A
    <3>1. d \notin FormulaNode
      BY <1>2, <2>4, <2>5 DEF Settled
    <3>2. d \in Node
      BY DEF W
    <3> QED
      BY <2>5, <3>1, <3>2 DEF AreaNodes
  <2>6. A # {}
    <3>1. PICK d \in graph[g] : d \notin Settled
      BY <2>1, SomethingRemains
    <3> QED
      BY <2>2, <2>5, <3>1
  <2>7. A \subseteq Nat
    BY NodesAreFinite DEF W
  <2>8. PICK a \in A : \A b \in A : a <= b
    <3> HIDE DEF A
    <3> QED
      BY <2>6, <2>7, LeastNatural
  <2>9. a \in Node /\ a \in AreaNodes /\ a \in W /\ a \notin Settled
    BY <2>8, NodesAreFinite
  <2>10. remaining[a] # 0
    BY <2>9 DEF Settled
  <2>11. PICK d \in graph[a] : d \notin Settled
    BY <2>9, <2>10, SomethingRemains
  <2>12. d \in A
    BY <2>3, <2>5, <2>9, <2>11
  <2>13. d < a /\ a <= d
    BY <2>8, <2>9, <2>11, <2>12 DEF ReadyInv
  <2>14. a \in Nat /\ d \in Nat
    BY <2>7, <2>8, <2>12
  <2> HIDE DEF A
  <2> QED
    BY <2>13, <2>14
<1> QED
  BY <1>1, <1>2

(***************************************************************************)
(* For every dependency graph: the next formula schedule_cancellable       *)
(* orders is the first in cell order of those whose awaited formulas are   *)
(* all ordered, so the areas they wait through do not change the order.    *)
(***************************************************************************)
THEOREM SchedulesIgnoreAreas == ScheduleSpec => OrderIgnoresAreas
<1> DEFINE Free == {f \in FormulaNode \ Ordered : FormulasAwaited(f) \subseteq Ordered}
<1>1. ASSUME ScheduleInv, ReadyInv, [ScheduleNext]_scheduleVars, order' # order
      PROVE  order'[Len(order')] = Min(Free)
  <2>1. TakeFormula
    <3>1. ~UNCHANGED order
      BY <1>1
    <3>2. ~(CompleteArea \/ EndOrder \/ EndVisit \/ EndSchedule \/ CancelSchedule)
      BY <3>1 DEF CompleteArea, EndOrder, EndVisit, EndSchedule, CancelSchedule
    <3>3. ~(VisitNext \/ NextComponent)
      BY <3>1 DEF VisitNext, NextComponent
    <3>4. ~VisitPop
      BY <3>1 DEF VisitPop
    <3> QED
      BY <1>1, <3>1, <3>2, <3>3, <3>4 DEF ScheduleNext, scheduleVars
  <2>2. PICK f \in ready : (\A g \in ready : f <= g) /\ order' = Append(order, f)
    BY <2>1 DEF TakeFormula
  <2>3. ready = Free
    BY <1>1, <2>1, ReadyIsAwaitedOrdered DEF TakeFormula, MayTake
  <2>4. order \in Seq(FormulaNode) /\ ready \subseteq FormulaNode /\ FormulaNode \subseteq Nat
    BY <1>1, NodesAreFinite DEF ScheduleInv, ScheduleType
  <2>5. order'[Len(order')] = f
    BY <2>2, <2>4
  <2> HIDE DEF Free
  <2>6. \A x \in Free : (\A y \in Free : x <= y) => x = f
    BY <2>2, <2>3, <2>4
  <2>7. Min(Free) = f
    BY <2>2, <2>3, <2>6 DEF Min
  <2> QED
    BY <2>5, <2>7
<1>2. ASSUME ScheduleInv, ReadyInv, [ScheduleNext]_scheduleVars
      PROVE  order' # order =>
               LET before == {order[i] : i \in DOMAIN order} IN
               order'[Len(order')] = Min({f \in FormulaNode \ before : FormulasAwaited(f) \subseteq before})
  BY <1>1, <1>2 DEF Ordered
<1> QED
  BY <1>2, InitInv, ScheduleStep, ReadyInit, ReadyStep, PTL DEF ScheduleSpec, OrderIgnoresAreas

-----------------------------------------------------------------------------
(* What a set of nodes waits for is in the set.                            *)
Closed(g, S) == \A u \in S : g[u] \subseteq S

(* The nodes reached from n by waiting, n among them.                      *)
Reach(g, n) == {m \in Node : \A S \in SUBSET Node : (n \in S /\ Closed(g, S)) => m \in S}

(* The nodes reached from n by waiting at least once.                      *)
Behind(g, n) == {m \in Node : \E d \in g[n] : m \in Reach(g, d)}

(* Nodes that wait for one another.                                        *)
Mutual(g, m, n) == n \in Reach(g, m) /\ m \in Reach(g, n)

(* What is reached from n is the least closed set with n.                  *)
LEMMA ReachIsLeast ==
  ASSUME NEW g \in [Node -> SUBSET Node], NEW n \in Node
  PROVE  /\ n \in Reach(g, n) /\ Reach(g, n) \subseteq Node /\ Closed(g, Reach(g, n))
         /\ \A S \in SUBSET Node : n \in S /\ Closed(g, S) => Reach(g, n) \subseteq S
<1>1. n \in Reach(g, n) /\ Reach(g, n) \subseteq Node
  BY DEF Reach
<1>2. ASSUME NEW u \in Reach(g, n), NEW d \in g[u] PROVE d \in Reach(g, n)
  <2>1. u \in Node /\ d \in Node
    BY DEF Reach
  <2>2. ASSUME NEW S \in SUBSET Node, n \in S, Closed(g, S) PROVE d \in S
    <3>1. u \in S
      BY <2>2 DEF Reach
    <3>2. QED
      BY <2>2, <3>1 DEF Closed
  <2>3. QED
    BY <2>1, <2>2 DEF Reach
<1>3. QED
  BY <1>1, <1>2 DEF Reach, Closed

(* From what is reached no more is reached.                                *)
LEMMA ReachIsTransitive ==
  ASSUME NEW g \in [Node -> SUBSET Node], NEW n \in Node, NEW m \in Reach(g, n)
  PROVE  Reach(g, m) \subseteq Reach(g, n)
<1>1. m \in Node
  BY DEF Reach
<1>2. QED
  BY <1>1, ReachIsLeast

(* What n waits for, and what that reaches, is behind n.                   *)
LEMMA BehindIsLeast ==
  ASSUME NEW g \in [Node -> SUBSET Node], NEW n \in Node
  PROVE  /\ g[n] \subseteq Behind(g, n) /\ Behind(g, n) \subseteq Reach(g, n)
         /\ Closed(g, Behind(g, n))
         /\ Reach(g, n) = {n} \union Behind(g, n)
         /\ \A S \in SUBSET Node : g[n] \subseteq S /\ Closed(g, S) => Behind(g, n) \subseteq S
<1>1. g[n] \subseteq Node /\ Behind(g, n) \subseteq Node
  BY DEF Behind
<1>2. g[n] \subseteq Behind(g, n)
  BY <1>1, ReachIsLeast DEF Behind
<1>3. \A d \in g[n] : d \in Reach(g, n) /\ Reach(g, d) \subseteq Reach(g, n)
  <2>1. \A d \in g[n] : d \in Reach(g, n)
    BY ReachIsLeast DEF Closed
  <2>2. QED
    BY <2>1, ReachIsTransitive
<1>4. Behind(g, n) \subseteq Reach(g, n)
  BY <1>3 DEF Behind
<1>5. Closed(g, Behind(g, n))
  <2>1. ASSUME NEW u \in Behind(g, n), NEW v \in g[u] PROVE v \in Behind(g, n)
    <3>1. PICK d \in g[n] : u \in Reach(g, d)
      BY DEF Behind
    <3>2. d \in Node /\ u \in Node
      BY <1>1
    <3>3. v \in Node
      BY <3>2
    <3>4. v \in Reach(g, d)
      BY <3>1, <3>2, ReachIsLeast DEF Closed
    <3>5. QED
      BY <3>1, <3>3, <3>4 DEF Behind
  <2>2. QED
    BY <2>1 DEF Closed
<1>6. Reach(g, n) \subseteq {n} \union Behind(g, n)
  <2>1. Closed(g, {n} \union Behind(g, n))
    BY <1>2, <1>5 DEF Closed
  <2>2. {n} \union Behind(g, n) \in SUBSET Node
    BY <1>1
  <2>3. QED
    BY <2>1, <2>2, ReachIsLeast
<1>7. ASSUME NEW S \in SUBSET Node, g[n] \subseteq S, Closed(g, S) PROVE Behind(g, n) \subseteq S
  <2>1. \A d \in g[n] : Reach(g, d) \subseteq S
    BY <1>1, <1>7, ReachIsLeast
  <2>2. QED
    BY <2>1 DEF Behind
<1>8. QED
  BY <1>2, <1>4, <1>5, <1>6, <1>7, ReachIsLeast

(* Waiting for one another is an equivalence, and from such nodes the same *)
(* is reached.                                                             *)
LEMMA MutualNodes ==
  ASSUME NEW g \in [Node -> SUBSET Node], NEW m \in Node, NEW n \in Node, Mutual(g, m, n)
  PROVE  /\ Mutual(g, n, m) /\ Reach(g, m) = Reach(g, n)
         /\ \A k \in Node : Mutual(g, n, k) <=> Mutual(g, m, k)
<1>1. Mutual(g, n, m)
  BY DEF Mutual
<1>2. Reach(g, m) = Reach(g, n)
  BY ReachIsTransitive DEF Mutual
<1>3. \A k \in Node : n \in Reach(g, k) <=> m \in Reach(g, k)
  BY ReachIsTransitive DEF Mutual
<1>4. QED
  BY <1>1, <1>2, <1>3 DEF Mutual

(* The formulas behind n are those FormulasBehind names.                   *)
LEMMA FormulasBehindNode ==
  ASSUME graph \in [Node -> SUBSET Node], NEW n \in Node, FormulaNode \subseteq Node
  PROVE  FormulasBehind(n) = Behind(graph, n) \intersect FormulaNode
<1>1. /\ graph[n] \subseteq Behind(graph, n) /\ Closed(graph, Behind(graph, n))
      /\ Behind(graph, n) \in SUBSET Node
      /\ \A S \in SUBSET Node : graph[n] \subseteq S /\ Closed(graph, S) => Behind(graph, n) \subseteq S
  BY BehindIsLeast DEF Behind
<1>2. QED
  BY <1>1, Zenon DEF FormulasBehind, Closed

(* A node that is behind itself waits for one that waits for it.           *)
LEMMA CircularNodes ==
  ASSUME NEW g \in [Node -> SUBSET Node], NEW n \in Node
  PROVE  n \in Behind(g, n) <=> \E d \in g[n] : Mutual(g, n, d)
<1>1. \A d \in g[n] : d \in Reach(g, n)
  BY BehindIsLeast
<1>2. QED
  BY <1>1 DEF Behind, Mutual

(* Each node that waits for n, and that n waits for, waits directly for    *)
(* another such node.                                                      *)
LEMMA CycleGoesOn ==
  ASSUME NEW g \in [Node -> SUBSET Node], NEW n \in Node, n \in Behind(g, n),
         NEW m \in Node, Mutual(g, n, m)
  PROVE  \E d \in g[m] : d \in Node /\ Mutual(g, n, d)
<1>1. CASE m = n
  BY <1>1, CircularNodes
<1>2. CASE m # n
  <2>1. n \in Behind(g, m)
    BY <1>2, BehindIsLeast DEF Mutual
  <2>2. PICK d \in g[m] : n \in Reach(g, d)
    BY <2>1 DEF Behind
  <2>3. d \in Node /\ d \in Reach(g, m)
    BY BehindIsLeast
  <2>4. d \in Reach(g, n)
    BY <2>3, ReachIsTransitive DEF Mutual
  <2>5. QED
    BY <2>2, <2>3, <2>4 DEF Mutual
<1>3. QED
  BY <1>1, <1>2

-----------------------------------------------------------------------------
(***************************************************************************)
(* Settled nodes wait for settled nodes only, and never in a circle: of    *)
(* any of them, one waits for none of the others.                          *)
(***************************************************************************)
SettledInv == \A T \in SUBSET Settled : T # {} => \E n \in T : graph[n] \intersect T = {}

(* Nothing is settled at the start.                                        *)
LEMMA SettledInit == ScheduleInit => SettledInv
<1> SUFFICES ASSUME ScheduleInit PROVE SettledInv
  OBVIOUS
<1>1. Ordered = {} /\ \A a \in AreaNodes : remaining[a] = 0 => a \in completed
  BY DEF ScheduleInit, ScheduleStarts, Ordered
<1>2. Settled = {}
  BY <1>1 DEF Settled
<1>3. QED
  BY <1>2 DEF SettledInv

(* A node is settled after all it waits for.                               *)
LEMMA SettledStep == ScheduleInv /\ SettledInv /\ [ScheduleNext]_scheduleVars => SettledInv'
<1> SUFFICES ASSUME ScheduleInv, SettledInv, [ScheduleNext]_scheduleVars PROVE SettledInv'
  OBVIOUS
<1>1. CASE SettlesOne
  <2>1. PICK x \in Node : x \notin Settled /\ remaining[x] = 0 /\ Settled' = Settled \union {x}
    BY <1>1 DEF SettlesOne
  <2>2. graph' = graph /\ graph[x] \subseteq Settled
    BY <1>1, <2>1, NothingRemains DEF SettlesOne
  <2>3. \A n \in Settled : graph[n] \subseteq Settled
    <3>1. \A n \in Settled : n \in Node /\ remaining[n] = 0
      <4>1. Ordered \subseteq FormulaNode
        BY DEF ScheduleInv, ScheduleType, Ordered
      <4>2. QED
        BY <4>1, NodesAreFinite DEF ScheduleInv, Settled
    <3>2. QED
      BY <3>1, NothingRemains
  <2>4. ASSUME NEW T \in SUBSET Settled', T # {} PROVE \E n \in T : graph[n] \intersect T = {}
    <3> DEFINE R == T \ {x}
    <3>1. R \in SUBSET Settled
      BY <2>1
    <3>2. CASE R = {}
      BY <2>1, <2>2, <2>4, <3>2
    <3>3. CASE R # {}
      <4>1. PICK n \in R : graph[n] \intersect R = {}
        BY <3>1, <3>3 DEF SettledInv
      <4>2. x \notin graph[n]
        BY <2>1, <2>3, <3>1
      <4>3. QED
        BY <4>1, <4>2
    <3>4. QED
      BY <3>2, <3>3
  <2>5. QED
    BY <2>2, <2>4 DEF SettledInv
<1>2. CASE UNCHANGED <<graph, remaining, completed, order>>
  <2>1. Settled' = Settled
    BY <1>2 DEF Settled, Ordered
  <2>2. QED
    BY <1>2, <2>1 DEF SettledInv
<1>3. CASE EndOrder \/ EndVisit \/ EndSchedule \/ CancelSchedule
  BY <1>2, <1>3 DEF EndOrder, EndVisit, EndSchedule, CancelSchedule
<1>4. CASE VisitNext
  BY <1>2, <1>4 DEF VisitNext
<1>5. CASE VisitPop
  BY <1>2, <1>5 DEF VisitPop
<1>6. CASE NextComponent
  BY <1>2, <1>6 DEF NextComponent
<1>7. CASE UNCHANGED scheduleVars
  BY <1>2, <1>7 DEF scheduleVars
<1>8. QED
  BY <1>1, <1>3, <1>4, <1>5, <1>6, <1>7, CompleteAreaInv, TakeFormulaInv DEF ScheduleNext

(***************************************************************************)
(* When the order has ended, the nodes that wait for nothing are the       *)
(* settled ones, and every other node waits for another such.              *)
(***************************************************************************)
OrderEnded ==
  /\ graph \in [Node -> SUBSET Node] /\ Unresolved \subseteq Node
  /\ Ordered = FormulaNode \ Unresolved
  /\ \A n \in Node \ Unresolved : graph[n] \subseteq Node \ Unresolved
  /\ \A n \in Unresolved : graph[n] \intersect Unresolved # {}
  /\ \A T \in SUBSET (Node \ Unresolved) : T # {} => \E n \in T : graph[n] \intersect T = {}
  /\ \A a \in AreaNodes : \A b \in graph[a] \intersect AreaNodes : b < a

(* That is so when nothing is ready and no area has just completed.        *)
LEMMA OrderEnds ==
  ASSUME ScheduleInv, ReadyInv, SettledInv, ready = {}, completed = {}
  PROVE  OrderEnded
<1>1. /\ graph \in [Node -> SUBSET Node] /\ remaining \in [Node -> Nat]
      /\ Ordered \subseteq FormulaNode /\ \A f \in Ordered : remaining[f] = 0
  BY DEF ScheduleInv, ScheduleType, Ordered
<1>2. \A n \in Node : n \in Unresolved <=> remaining[n] # 0
  BY <1>1 DEF Unresolved
<1>3. Unresolved \subseteq Node
  BY DEF Unresolved
<1>4. Ordered = FormulaNode \ Unresolved
  BY <1>1, <1>2, NodesAreFinite DEF ReadyInv
<1>5. Settled = Node \ Unresolved
  <2>1. Settled = (FormulaNode \ Unresolved) \union (AreaNodes \ Unresolved)
    BY <1>2, <1>4, NodesAreFinite DEF Settled
  <2>2. QED
    BY <2>1, NodesAreFinite DEF AreaNodes
<1>6. \A n \in Node \ Unresolved : graph[n] \subseteq Node \ Unresolved
  BY <1>2, <1>5, NothingRemains
<1>7. \A n \in Unresolved : graph[n] \intersect Unresolved # {}
  <2> SUFFICES ASSUME NEW n \in Unresolved PROVE graph[n] \intersect Unresolved # {}
    OBVIOUS
  <2>1. n \in Node /\ remaining[n] # 0
    BY <1>2, <1>3
  <2>2. PICK d \in graph[n] : d \notin Settled
    BY <2>1, SomethingRemains
  <2>3. QED
    BY <1>1, <1>5, <2>1, <2>2
<1>8. QED
  BY <1>1, <1>3, <1>4, <1>5, <1>6, <1>7 DEF OrderEnded, SettledInv, ReadyInv

(* From unresolved nodes to unresolved nodes there are no resolved ones.   *)
LEMMA ResolvedReachResolved ==
  ASSUME OrderEnded, NEW n \in Node \ Unresolved
  PROVE  Reach(graph, n) \subseteq Node \ Unresolved
<1>1. Closed(graph, Node \ Unresolved)
  BY DEF OrderEnded, Closed
<1>2. QED
  BY <1>1, ReachIsLeast DEF OrderEnded

(* A resolved node is on no cycle.                                         *)
LEMMA ResolvedAreNotCircular ==
  ASSUME OrderEnded, NEW n \in Node \ Unresolved
  PROVE  n \notin Behind(graph, n)
<1> SUFFICES ASSUME n \in Behind(graph, n) PROVE FALSE
  OBVIOUS
<1> DEFINE T == {m \in Node : Mutual(graph, n, m)}
<1>1. graph \in [Node -> SUBSET Node]
  BY DEF OrderEnded
<1>2. n \in T
  BY <1>1, ReachIsLeast DEF Mutual
<1>3. T \in SUBSET (Node \ Unresolved)
  BY ResolvedReachResolved DEF Mutual
<1>4. \A m \in T : \E d \in graph[m] : d \in T
  BY <1>1, CycleGoesOn
<1> HIDE DEF T
<1>5. QED
  BY <1>2, <1>3, <1>4 DEF OrderEnded

(* A finite set of sets that is not empty has a smallest member.           *)
LEMMA SmallestReach ==
  ASSUME NEW g \in [Node -> SUBSET Node], NEW T, T \subseteq Node, T # {}
  PROVE  \E n \in T : \A m \in T : Reach(g, m) \subseteq Reach(g, n) => Reach(g, m) = Reach(g, n)
<1> DEFINE size(n) == Cardinality(Reach(g, n))
           S == {size(n) : n \in T}
<1>1. \A n \in T : IsFiniteSet(Reach(g, n))
  BY NodesAreFinite, ReachIsLeast, FS_Subset
<1>2. \A n \in T : size(n) \in Nat
  BY <1>1, FS_CardinalityType
<1>3. S \subseteq Nat /\ S # {}
  BY <1>2
<1>4. PICK k \in S : \A j \in S : k <= j
  <2> HIDE DEF S
  <2> QED
    BY <1>3, LeastNatural
<1>5. PICK n \in T : k = size(n)
  OBVIOUS
<1>6. ASSUME NEW m \in T, Reach(g, m) \subseteq Reach(g, n) PROVE Reach(g, m) = Reach(g, n)
  <2>1. size(n) <= size(m) /\ size(n) \in Nat /\ size(m) \in Nat
    BY <1>2, <1>4, <1>5
  <2>2. IsFiniteSet(Reach(g, n))
    BY <1>1
  <2>3. size(m) <= size(n) /\ (size(n) = size(m) => Reach(g, n) = Reach(g, m))
    BY <1>6, <2>2, FS_Subset
  <2> HIDE DEF size
  <2>4. QED
    BY <2>1, <2>3
<1>7. QED
  BY <1>6

(***************************************************************************)
(* Every unresolved node is on a cycle or behind one, and the cycle goes   *)
(* through a formula: what areas hold are formulas and smaller areas.      *)
(***************************************************************************)
LEMMA UnresolvedReachCycles ==
  ASSUME OrderEnded, NEW n \in Unresolved
  PROVE  \E f \in FormulaNode : f \in Behind(graph, n) /\ f \in Behind(graph, f)
<1>1. graph \in [Node -> SUBSET Node] /\ n \in Node /\ Unresolved \subseteq Node
  BY DEF OrderEnded
<1> DEFINE T == Reach(graph, n) \intersect Unresolved
<1>2. T \subseteq Node /\ n \in T
  BY <1>1, ReachIsLeast
<1>3. PICK m \in T : \A k \in T : Reach(graph, k) \subseteq Reach(graph, m) => Reach(graph, k) = Reach(graph, m)
  <2> HIDE DEF T
  <2>1. QED
    BY <1>1, <1>2, SmallestReach
<1>4. m \in Node /\ m \in Unresolved /\ m \in Reach(graph, n)
  BY <1>2, <1>3
<1>5. PICK c \in graph[m] : c \in Unresolved
  BY <1>4 DEF OrderEnded
<1>6. c \in Node /\ c \in Reach(graph, m)
  BY <1>1, <1>4, BehindIsLeast
<1>7. c \in Reach(graph, n) /\ Reach(graph, c) \subseteq Reach(graph, m)
  BY <1>1, <1>4, <1>6, ReachIsTransitive
<1>8. Reach(graph, c) = Reach(graph, m)
  BY <1>3, <1>5, <1>7
<1>9. m \in Reach(graph, c)
  BY <1>1, <1>4, <1>8, ReachIsLeast
<1>10. m \in Behind(graph, m) /\ m \in Behind(graph, n)
  <2>1. m \in Behind(graph, m)
    BY <1>4, <1>5, <1>9 DEF Behind
  <2>2. CASE m = n
    BY <2>1, <2>2
  <2>3. CASE m # n
    <3>1. Reach(graph, n) = {n} \union Behind(graph, n)
      BY <1>1, BehindIsLeast
    <3>2. QED
      BY <1>4, <2>1, <2>3, <3>1
  <2>4. QED
    BY <2>1, <2>2, <2>3
<1> DEFINE C == {k \in Node : Mutual(graph, m, k)}
<1>11. C \subseteq Nat /\ C # {}
  BY <1>1, <1>4, NodesAreFinite, ReachIsLeast DEF Mutual
<1>12. PICK a \in C : \A b \in C : a <= b
  <2> HIDE DEF C
  <2>1. QED
    BY <1>11, LeastNatural
<1>13. PICK b \in graph[a] : b \in C
  BY <1>1, <1>4, <1>10, <1>12, CycleGoesOn
<1>14. a \in FormulaNode \/ b \in FormulaNode
  <2> SUFFICES ASSUME a \notin FormulaNode, b \notin FormulaNode PROVE FALSE
    OBVIOUS
  <2>1. a \in AreaNodes /\ b \in AreaNodes /\ a <= b /\ a \in Nat /\ b \in Nat
    BY <1>11, <1>12, <1>13 DEF AreaNodes
  <2>2. b < a
    BY <1>13, <2>1 DEF OrderEnded
  <2> HIDE DEF C
  <2>3. QED
    BY <2>1, <2>2
<1>15. PICK f \in C : f \in FormulaNode
  BY <1>12, <1>13, <1>14
<1>16. f \in Node /\ f \in Reach(graph, m) /\ m \in Reach(graph, f)
  BY <1>15 DEF Mutual
<1>17. f \in Behind(graph, n)
  BY <1>1, <1>10, <1>16, BehindIsLeast, ReachIsLeast DEF Closed
<1>18. f \in Behind(graph, f)
  <2>1. PICK d \in graph[f] : d \in Node /\ Mutual(graph, m, d)
    BY <1>1, <1>4, <1>10, <1>15, CycleGoesOn
  <2>2. f \in Reach(graph, d)
    BY <1>1, <1>4, <1>16, <2>1, ReachIsTransitive DEF Mutual
  <2>3. QED
    BY <1>16, <2>1, <2>2 DEF Behind
<1>19. QED
  BY <1>15, <1>17, <1>18

(* A set of nodes can be listed from the last on.                          *)
LEMMA DescendingExists ==
  ASSUME NEW S, S \subseteq Node
  PROVE  \E s \in [1..Cardinality(S) -> S] : \A i, j \in DOMAIN s : i < j => s[j] < s[i]
<1> DEFINE Listed(T) == \E s \in [1..Cardinality(T) -> T] : \A i, j \in DOMAIN s : i < j => s[j] < s[i]
           Bad == {T \in SUBSET Node : ~Listed(T)}
           Sizes == {Cardinality(T) : T \in Bad}
<1> SUFFICES ASSUME S \in Bad PROVE FALSE
  OBVIOUS
<1>1. \A T \in SUBSET Node : IsFiniteSet(T) /\ Cardinality(T) \in Nat
  BY NodesAreFinite, FS_Subset, FS_CardinalityType
<1>2. Sizes \subseteq Nat /\ Sizes # {}
  BY <1>1
<1>3. PICK n \in Sizes : \A k \in Sizes : n <= k
  <2> HIDE DEF Sizes
  <2>1. QED
    BY <1>2, LeastNatural
<1>4. PICK T \in Bad : n = Cardinality(T)
  OBVIOUS
<1>5. T \in SUBSET Node /\ IsFiniteSet(T) /\ n \in Nat /\ ~Listed(T)
  BY <1>1, <1>4
<1>6. T # {}
  <2> SUFFICES ASSUME T = {} PROVE FALSE
    OBVIOUS
  <2>1. n = 0
    BY <1>4, FS_EmptySet
  <2>2. <<>> \in [1..0 -> T] /\ \A i, j \in DOMAIN <<>> : i < j => (<<>>)[j] < (<<>>)[i]
    OBVIOUS
  <2>3. QED
    BY <1>4, <1>5, <2>1, <2>2
<1>7. PICK x \in T : \A y \in T : x <= y
  BY <1>5, <1>6, NodesAreFinite, LeastNatural
<1> DEFINE R == T \ {x}
<1>8. Cardinality(R) = n - 1 /\ R \in SUBSET Node
  BY <1>4, <1>5, FS_RemoveElement
<1>9. Cardinality(R) \in Nat
  BY <1>1, <1>8
<1>10. Listed(R)
  <2>1. R \notin Bad
    <3> SUFFICES ASSUME R \in Bad PROVE FALSE
      OBVIOUS
    <3>1. Cardinality(R) \in Sizes
      OBVIOUS
    <3> HIDE DEF Sizes, R
    <3>2. QED
      BY <1>3, <1>5, <1>8, <3>1
  <2>2. QED
    BY <1>8, <2>1
<1>11. PICK r \in [1..(n - 1) -> R] : \A i, j \in DOMAIN r : i < j => r[j] < r[i]
  BY <1>8, <1>10
<1> DEFINE s == [i \in 1..n |-> IF i = n THEN x ELSE r[i]]
<1>12. n \in Nat /\ n - 1 \in Nat
  BY <1>5, <1>8, <1>9
<1>13. s \in [1..n -> T]
  <2>1. \A i \in 1..n : i # n => i \in 1..(n - 1)
    BY <1>12
  <2>2. \A i \in 1..(n - 1) : r[i] \in T
    BY <1>11
  <2>3. QED
    BY <2>1, <2>2
<1>14. ASSUME NEW i \in 1..n, NEW j \in 1..n, i < j PROVE s[j] < s[i]
  <2>1. i \in 1..(n - 1) /\ s[i] = r[i] /\ r[i] \in R
    BY <1>11, <1>12, <1>14
  <2>2. CASE j = n
    <3>1. s[j] = x /\ r[i] \in T /\ r[i] # x
      BY <2>1, <2>2
    <3>2. x \in Nat /\ r[i] \in Nat /\ x <= r[i]
      BY <1>5, <1>7, <3>1, NodesAreFinite
    <3> HIDE DEF s
    <3>3. QED
      BY <2>1, <3>1, <3>2
  <2>3. CASE j # n
    <3>1. j \in 1..(n - 1) /\ s[j] = r[j]
      BY <1>12, <2>3
    <3>2. r[j] < r[i]
      BY <1>11, <1>14, <2>1, <3>1
    <3> HIDE DEF s
    <3>3. QED
      BY <2>1, <3>1, <3>2
  <2>4. QED
    BY <2>2, <2>3
<1>15. DOMAIN s = 1..n
  OBVIOUS
<1> HIDE DEF s
<1>16. QED
  BY <1>4, <1>5, <1>13, <1>14, <1>15

(* LastToFirst lists the nodes of a set, each of them.                     *)
LEMMA ListsAll ==
  ASSUME NEW S, S \subseteq Node
  PROVE  /\ Cardinality(S) \in Nat
         /\ LastToFirst(S) \in [1..Cardinality(S) -> S]
         /\ \A x \in S : \E i \in 1..Cardinality(S) : LastToFirst(S)[i] = x
<1> DEFINE n == Cardinality(S)
           s == LastToFirst(S)
<1>1. IsFiniteSet(S) /\ n \in Nat
  BY NodesAreFinite, FS_Subset, FS_CardinalityType
<1>2. s \in [1..n -> S] /\ \A i, j \in DOMAIN s : i < j => s[j] < s[i]
  BY DescendingExists, Zenon DEF LastToFirst
<1> HIDE DEF s
<1>3. ASSUME NEW i \in 1..n, NEW j \in 1..n, s[i] = s[j] PROVE i = j
  <2>1. s[i] \in Nat /\ s[j] \in Nat
    BY <1>2, NodesAreFinite
  <2>2. ~(i < j) /\ ~(j < i)
    BY <1>2, <1>3, <2>1
  <2>3. QED
    BY <1>1, <2>2
<1>4. s \in Injection(1..n, S)
  BY <1>2, <1>3 DEF Injection, IsInjective
<1>5. Cardinality(1..n) = n
  BY <1>1, FS_Interval
<1>6. s \in Surjection(1..n, S)
  BY <1>1, <1>4, <1>5, FS_Injection
<1>7. QED
  BY <1>1, <1>2, <1>6 DEF s, Surjection

-----------------------------------------------------------------------------
(* The nodes the first search is at, and those it is done with.            *)
Gray == {pending[i].node : i \in {j \in DOMAIN pending : pending[j].expanded}}

Black == {finished[i] : i \in DOMAIN finished}

Entry == [node : Unresolved, expanded : BOOLEAN]

SearchShape ==
  /\ pending \in Seq(Entry) /\ finished \in Seq(Unresolved)
  /\ visited = Gray \union Black /\ Gray \intersect Black = {}
  /\ \A i, j \in DOMAIN pending :
       i # j /\ pending[i].expanded /\ pending[j].expanded => pending[i].node # pending[j].node

(* What lies on the stack above a node the search is at, it reaches.       *)
StackIsReached ==
  \A i, j \in DOMAIN pending :
    i < j /\ pending[i].expanded => pending[j].node \in Reach(graph, pending[i].node)

(* Dependencies of a node were met when it is finished, and are met or on  *)
(* the stack above it before.                                              *)
DependenciesAreMet ==
  /\ \A n \in Black : graph[n] \intersect Unresolved \subseteq visited
  /\ \A i \in DOMAIN pending : pending[i].expanded =>
       \A d \in graph[pending[i].node] \intersect Unresolved :
         d \in visited \/ \E j \in DOMAIN pending : i < j /\ pending[j].node = d

(* All that n reaches is finished, and a node of its component came last.  *)
ReachedBefore(n) ==
  /\ Reach(graph, n) \intersect Unresolved \subseteq Black
  /\ \A i \in DOMAIN finished : finished[i] \in Reach(graph, n) =>
       \/ Mutual(graph, n, finished[i])
       \/ \E j \in DOMAIN finished : i < j /\ Mutual(graph, n, finished[j])

(***************************************************************************)
(* The invariant of the first search.  The last conjunct is what the       *)
(* second search relies on: unless the search is still at a node of its    *)
(* component, all that a finished node reaches was finished before the     *)
(* last node of that component.                                            *)
(***************************************************************************)
SearchInv ==
  /\ SearchShape /\ StackIsReached /\ DependenciesAreMet
  /\ \A n \in Black : (\E g \in Gray : Mutual(graph, n, g)) \/ ReachedBefore(n)

(* A search that has not begun.                                            *)
LEMMA SearchBegins ==
  ASSUME visited = {}, pending = <<>>, finished = <<>>
  PROVE  SearchInv
<1>1. Gray = {} /\ Black = {} /\ DOMAIN pending = {}
  BY DEF Gray, Black
<1>2. pending \in Seq(Entry) /\ finished \in Seq(Unresolved)
  OBVIOUS
<1>3. QED
  BY <1>1, <1>2 DEF SearchInv, SearchShape, StackIsReached, DependenciesAreMet

(* The stack without its top.                                              *)
LEMMA StackWithoutTop ==
  ASSUME NEW E, NEW s \in Seq(E), s # <<>>,
         NEW n, n = Len(s), NEW rest, rest = SubSeq(s, 1, n - 1)
  PROVE  /\ n \in Nat \ {0} /\ DOMAIN s = 1..n /\ n \in 1..n /\ s[n] \in E
         /\ rest \in Seq(E) /\ Len(rest) = n - 1 /\ DOMAIN rest = 1..(n - 1)
         /\ \A i \in 1..(n - 1) : i \in 1..n /\ i < n /\ rest[i] = s[i]
         /\ \A i \in 1..n : i = n \/ i \in 1..(n - 1)
<1>1. n \in Nat \ {0} /\ DOMAIN s = 1..n /\ s \in [1..n -> E]
  OBVIOUS
<1>2. n \in 1..n /\ s[n] \in E
  BY <1>1
<1>3. \A i \in 1..(n - 1) : i \in 1..n /\ i < n
  BY <1>1
<1>4. \A i \in 1..n : i = n \/ i \in 1..(n - 1)
  BY <1>1
<1>5. rest \in Seq(E) /\ Len(rest) = n - 1 /\ \A i \in 1..(n - 1) : rest[i] = s[i]
  BY <1>1, <1>3
<1>6. DOMAIN rest = 1..(n - 1)
  BY <1>5
<1>7. QED
  BY <1>1, <1>2, <1>3, <1>4, <1>5, <1>6

(* Gray without the top of the stack.                                      *)
LEMMA GrayWithoutTop ==
  ASSUME pending \in Seq(Entry), pending # <<>>, pending' = SubSeq(pending, 1, Len(pending) - 1)
  PROVE  LET top == pending[Len(pending)] IN
         /\ ~top.expanded => Gray' = Gray
         /\ top.expanded => top.node \in Gray /\ Gray = Gray' \union {top.node}
         /\ (\A i, j \in DOMAIN pending :
               i # j /\ pending[i].expanded /\ pending[j].expanded => pending[i].node # pending[j].node)
            => (top.expanded => top.node \notin Gray')
<1> DEFINE n == Len(pending)
           top == pending[n]
<1>1. /\ n \in Nat \ {0} /\ DOMAIN pending = 1..n /\ DOMAIN pending' = 1..(n - 1)
      /\ \A i \in 1..(n - 1) : i \in 1..n /\ i < n /\ pending'[i] = pending[i]
      /\ \A i \in 1..n : i = n \/ i \in 1..(n - 1)
      /\ n \in 1..n
  BY StackWithoutTop
<1>2. \A i \in 1..n : i = n \/ i \in 1..(n - 1)
  BY <1>1
<1>3. n \in 1..n
  BY <1>1
<1> HIDE DEF n
<1>4. Gray = {pending[i].node : i \in {j \in 1..n : pending[j].expanded}}
  BY <1>1 DEF Gray
<1>5. Gray' = {pending[i].node : i \in {j \in 1..(n - 1) : pending[j].expanded}}
  BY <1>1 DEF Gray
<1>6. ~top.expanded => Gray' = Gray
  BY <1>1, <1>2, <1>4, <1>5
<1>7. top.expanded => top.node \in Gray /\ Gray = Gray' \union {top.node}
  BY <1>1, <1>2, <1>3, <1>4, <1>5
<1>8. ASSUME \A i, j \in DOMAIN pending :
               i # j /\ pending[i].expanded /\ pending[j].expanded => pending[i].node # pending[j].node,
             top.expanded
      PROVE  top.node \notin Gray'
  <2>1. SUFFICES ASSUME NEW i \in 1..(n - 1), pending[i].expanded, pending[i].node = top.node
                 PROVE  FALSE
    BY <1>5
  <2>2. i \in DOMAIN pending /\ n \in DOMAIN pending /\ i # n
    BY <1>1, <1>3
  <2>3. QED
    BY <1>8, <2>1, <2>2
<1>9. QED
  BY <1>6, <1>7, <1>8 DEF n

(* The search meets unresolved nodes only.                                 *)
LEMMA MetNodes ==
  ASSUME SearchShape
  PROVE  Gray \subseteq Unresolved /\ Black \subseteq Unresolved
<1>1. \A i \in DOMAIN pending : pending[i] \in Entry
  BY DEF SearchShape
<1>2. \A i \in DOMAIN finished : finished[i] \in Unresolved
  BY DEF SearchShape
<1>3. QED
  BY <1>1, <1>2 DEF Gray, Black, Entry

(* A node that was met comes off the stack again.                          *)
LEMMA SearchSkips ==
  ASSUME OrderEnded, SearchInv, pending # <<>>, UNCHANGED <<graph, remaining, finished>>,
         pending' = SubSeq(pending, 1, Len(pending) - 1), visited' = visited,
         ~pending[Len(pending)].expanded, pending[Len(pending)].node \in visited
  PROVE  SearchInv'
<1> DEFINE n == Len(pending)
           top == pending[n]
<1>1. pending \in Seq(Entry) /\ finished \in Seq(Unresolved)
  BY DEF SearchInv, SearchShape
<1>2. /\ n \in Nat \ {0} /\ DOMAIN pending = 1..n /\ pending' \in Seq(Entry) /\ DOMAIN pending' = 1..(n - 1)
      /\ \A i \in 1..(n - 1) : i \in 1..n /\ i < n /\ pending'[i] = pending[i]
      /\ \A i \in 1..n : i = n \/ i \in 1..(n - 1)
  BY <1>1, StackWithoutTop
<1>3. /\ Gray' = Gray /\ Black' = Black /\ Unresolved' = Unresolved /\ Entry' = Entry
  BY <1>1, GrayWithoutTop DEF Black, Unresolved, Entry
<1>4. \A i \in 1..n : i = n \/ i \in 1..(n - 1)
  BY <1>2
<1> HIDE DEF n
<1>5. SearchShape'
  BY <1>1, <1>2, <1>3 DEF SearchInv, SearchShape
<1>6. StackIsReached'
  BY <1>2 DEF SearchInv, StackIsReached
<1>7. DependenciesAreMet'
  <2>1. \A m \in Black' : graph'[m] \intersect Unresolved' \subseteq visited'
    BY <1>3 DEF SearchInv, DependenciesAreMet
  <2>2. ASSUME NEW i \in DOMAIN pending', pending'[i].expanded,
               NEW d \in graph'[pending'[i].node] \intersect Unresolved'
        PROVE  d \in visited' \/ \E j \in DOMAIN pending' : i < j /\ pending'[j].node = d
    <3>1. CASE d \in visited
      BY <3>1
    <3>2. CASE d \notin visited
      <4>1. /\ i \in DOMAIN pending /\ pending[i].expanded
            /\ d \in graph[pending[i].node] \intersect Unresolved
        BY <1>2, <1>3, <2>2
      <4>2. PICK j \in 1..n : i < j /\ pending[j].node = d
        BY <1>2, <3>2, <4>1 DEF SearchInv, DependenciesAreMet
      <4>3. j # n
        BY <3>2, <4>2 DEF n
      <4>4. j \in 1..(n - 1)
        BY <1>2, <4>3
      <4>5. QED
        BY <1>2, <4>2, <4>4
    <3>3. QED
      BY <3>1, <3>2
  <2>3. QED
    BY <2>1, <2>2 DEF DependenciesAreMet
<1>8. \A m \in Black' : (\E g \in Gray' : Mutual(graph', m, g)) \/ ReachedBefore(m)'
  BY <1>3 DEF SearchInv, ReachedBefore
<1>9. QED
  BY <1>5, <1>6, <1>7, <1>8 DEF SearchInv

(***************************************************************************)
(* A node the search is done with.  No node the search is still at is in   *)
(* its component unless all it reaches is finished.                        *)
(***************************************************************************)
LEMMA FinishedNode ==
  ASSUME OrderEnded, SearchInv, pending # <<>>, pending[Len(pending)].expanded,
         NEW t, t = pending[Len(pending)].node, NEW G, NEW B,
         G \subseteq Gray, Gray = G \union {t}, B = Black \union {t},
         \A g \in G : ~Mutual(graph, t, g)
  PROVE  Reach(graph, t) \intersect Unresolved \subseteq B
<1> DEFINE n == Len(pending)
<1>1. pending \in Seq(Entry) /\ finished \in Seq(Unresolved) /\ graph \in [Node -> SUBSET Node]
  BY DEF SearchInv, SearchShape, OrderEnded
<1>2. /\ n \in Nat \ {0} /\ DOMAIN pending = 1..n /\ n \in 1..n /\ pending[n] \in Entry
      /\ \A i \in 1..n : i = n \/ i \in 1..(n - 1)
      /\ \A i \in 1..(n - 1) : i < n
  BY <1>1, StackWithoutTop
<1>3. t \in Unresolved /\ t \in Node /\ Unresolved \subseteq Node
  BY <1>2 DEF Entry, OrderEnded
<1>4. visited = G \union B
  BY DEF SearchInv, SearchShape
<1>5. ASSUME NEW g \in G, g \in Reach(graph, t) PROVE g = t
  <2>1. PICK i \in DOMAIN pending : pending[i].expanded /\ pending[i].node = g
    BY DEF Gray
  <2>2. CASE i = n
    BY <2>1, <2>2
  <2>3. CASE i # n
    <3>1. t \in Reach(graph, g)
      BY <1>2, <2>1, <2>3 DEF SearchInv, StackIsReached
    <3>2. QED
      BY <1>5, <3>1 DEF Mutual
  <2>4. QED
    BY <2>2, <2>3
<1>6. graph[t] \intersect Unresolved \subseteq visited
  <2> HIDE DEF n
  <2>1. \A j \in 1..n : ~(n < j)
    BY <1>2
  <2>2. QED
    BY <1>2, <2>1 DEF SearchInv, DependenciesAreMet, n
<1>7. \A b \in B : graph[b] \intersect Unresolved \subseteq visited
  BY <1>6 DEF SearchInv, DependenciesAreMet
<1> DEFINE K == (B \intersect Reach(graph, t)) \union (Node \ Unresolved)
<1>8. Reach(graph, t) \subseteq Node /\ t \in Reach(graph, t) /\ Closed(graph, Reach(graph, t))
  BY <1>1, <1>3, ReachIsLeast
<1>9. Closed(graph, K)
  <2>1. ASSUME NEW u \in K, NEW d \in graph[u] PROVE d \in K
    <3>1. u \in Node /\ d \in Node
      BY <1>1, <1>8
    <3>2. CASE u \notin Unresolved
      BY <3>1, <3>2 DEF OrderEnded
    <3>3. CASE d \notin Unresolved
      BY <3>1, <3>3
    <3>4. CASE u \in Unresolved /\ d \in Unresolved
      <4>1. u \in B /\ d \in Reach(graph, t)
        BY <1>8, <3>4 DEF Closed
      <4>2. d \in G \union B
        BY <1>4, <1>7, <3>4, <4>1
      <4>3. d \in B
        BY <1>5, <4>1, <4>2
      <4>4. QED
        BY <4>1, <4>3
    <3>5. QED
      BY <3>2, <3>3, <3>4
  <2>2. QED
    BY <2>1 DEF Closed
<1>10. K \in SUBSET Node /\ t \in K
  BY <1>8
<1>11. Reach(graph, t) \subseteq K
  BY <1>1, <1>3, <1>9, <1>10, ReachIsLeast
<1>12. QED
  BY <1>11

(* The search is done with the node on top of the stack.                   *)
LEMMA SearchFinishes ==
  ASSUME OrderEnded, SearchInv, pending # <<>>, UNCHANGED <<graph, remaining>>,
         pending' = SubSeq(pending, 1, Len(pending) - 1), visited' = visited,
         pending[Len(pending)].expanded,
         finished' = Append(finished, pending[Len(pending)].node)
  PROVE  SearchInv'
<1> DEFINE n == Len(pending)
           k == Len(finished)
<1> PICK t : t = pending[n].node
  OBVIOUS
<1>1. pending \in Seq(Entry) /\ finished \in Seq(Unresolved) /\ graph \in [Node -> SUBSET Node]
  BY DEF SearchInv, SearchShape, OrderEnded
<1>2. /\ n \in Nat \ {0} /\ DOMAIN pending = 1..n /\ n \in 1..n /\ pending[n] \in Entry
      /\ pending' \in Seq(Entry) /\ DOMAIN pending' = 1..(n - 1)
      /\ \A i \in 1..(n - 1) : i \in 1..n /\ i < n /\ pending'[i] = pending[i]
      /\ \A i \in 1..n : i = n \/ i \in 1..(n - 1)
  BY <1>1, StackWithoutTop
<1>3. t \in Unresolved /\ t \in Node /\ Unresolved \subseteq Node
  BY <1>2 DEF Entry, OrderEnded
<1>4. /\ k \in Nat /\ DOMAIN finished = 1..k /\ DOMAIN finished' = 1..(k + 1)
      /\ finished' \in Seq(Unresolved) /\ finished'[k + 1] = t
      /\ \A i \in 1..k : finished'[i] = finished[i] /\ i \in 1..(k + 1) /\ i < k + 1
      /\ \A i \in 1..(k + 1) : i \in 1..k \/ i = k + 1
      /\ k + 1 \in 1..(k + 1)
  <2>1. k \in Nat /\ DOMAIN finished = 1..k
    BY <1>1
  <2>2. /\ DOMAIN finished' = 1..(k + 1) /\ finished' \in Seq(Unresolved) /\ finished'[k + 1] = t
        /\ \A i \in 1..k : finished'[i] = finished[i]
    BY <1>1, <1>3
  <2> HIDE DEF k
  <2>3. /\ \A i \in 1..k : i \in 1..(k + 1) /\ i < k + 1
        /\ \A i \in 1..(k + 1) : i \in 1..k \/ i = k + 1
        /\ k + 1 \in 1..(k + 1)
    BY <2>1
  <2>4. QED
    BY <2>1, <2>2, <2>3
<1>5. Gray = Gray' \union {t} /\ t \notin Gray' /\ t \in Gray
  BY <1>1, GrayWithoutTop DEF SearchInv, SearchShape
<1>6. Unresolved' = Unresolved /\ Entry' = Entry
  BY DEF Unresolved, Entry
<1> HIDE DEF n, k
<1>7. Black' = Black \union {t}
  BY <1>4 DEF Black
<1>8. visited = Gray \union Black /\ Gray \intersect Black = {}
  BY DEF SearchInv, SearchShape
<1>9. SearchShape'
  <2>1. visited' = Gray' \union Black' /\ Gray' \intersect Black' = {}
    BY <1>5, <1>7, <1>8
  <2>2. QED
    BY <1>2, <1>4, <1>6, <2>1 DEF SearchInv, SearchShape
<1>10. StackIsReached'
  BY <1>2 DEF SearchInv, StackIsReached
<1>11. graph[t] \intersect Unresolved \subseteq visited
  <2>1. \A j \in 1..n : ~(n < j)
    BY <1>2
  <2>2. pending[n].expanded
    BY DEF n
  <2>3. QED
    BY <1>2, <2>1, <2>2 DEF SearchInv, DependenciesAreMet
<1>12. DependenciesAreMet'
  <2>1. \A m \in Black' : graph'[m] \intersect Unresolved' \subseteq visited'
    BY <1>6, <1>7, <1>11 DEF SearchInv, DependenciesAreMet
  <2>2. ASSUME NEW i \in DOMAIN pending', pending'[i].expanded,
               NEW d \in graph'[pending'[i].node] \intersect Unresolved'
        PROVE  d \in visited' \/ \E j \in DOMAIN pending' : i < j /\ pending'[j].node = d
    <3>1. CASE d \in visited
      BY <3>1
    <3>2. CASE d \notin visited
      <4>1. /\ i \in DOMAIN pending /\ pending[i].expanded
            /\ d \in graph[pending[i].node] \intersect Unresolved
        BY <1>2, <1>6, <2>2
      <4>2. PICK j \in 1..n : i < j /\ pending[j].node = d
        BY <1>2, <3>2, <4>1 DEF SearchInv, DependenciesAreMet
      <4>3. j # n
        BY <1>5, <1>8, <3>2, <4>2
      <4>4. j \in 1..(n - 1)
        BY <1>2, <4>3
      <4>5. QED
        BY <1>2, <4>2, <4>4
    <3>3. QED
      BY <3>1, <3>2
  <2>3. QED
    BY <2>1, <2>2 DEF DependenciesAreMet
<1>13. (\E g \in Gray' : Mutual(graph, t, g)) \/ ReachedBefore(t)'
  <2> SUFFICES ASSUME \A g \in Gray' : ~Mutual(graph, t, g) PROVE ReachedBefore(t)'
    OBVIOUS
  <2>1. Reach(graph, t) \intersect Unresolved \subseteq Black'
    BY <1>5, <1>7, FinishedNode DEF n
  <2>2. Mutual(graph, t, finished'[k + 1])
    BY <1>1, <1>3, <1>4, ReachIsLeast DEF Mutual
  <2>3. QED
    BY <1>4, <1>6, <2>1, <2>2 DEF ReachedBefore
<1>14. ASSUME NEW m \in Black' PROVE (\E g \in Gray' : Mutual(graph', m, g)) \/ ReachedBefore(m)'
  <2>1. CASE m = t
    BY <1>13, <2>1
  <2>2. CASE m # t /\ Mutual(graph, m, t)
    <3>1. m \in Black /\ m \in Node
      BY <1>3, <1>7, <2>2, MetNodes DEF SearchInv
    <3>2. Reach(graph, m) = Reach(graph, t) /\ \A x \in Node : Mutual(graph, t, x) <=> Mutual(graph, m, x)
      BY <1>1, <1>3, <2>2, <3>1, MutualNodes
    <3>3. \A i \in DOMAIN finished' : finished'[i] \in Node
      BY <1>3, <1>4
    <3>4. \A g \in Gray' : g \in Node
      <4>1. Gray \subseteq Unresolved
        BY MetNodes DEF SearchInv
      <4>2. QED
        BY <1>3, <1>5, <4>1
    <3>5. CASE \E g \in Gray' : Mutual(graph, t, g)
      BY <3>2, <3>4, <3>5
    <3>6. CASE ReachedBefore(t)'
      <4>1. Reach(graph, m) \intersect Unresolved' \subseteq Black'
        BY <3>2, <3>6 DEF ReachedBefore
      <4>2. \A i \in DOMAIN finished' : finished'[i] \in Reach(graph, m) =>
              \/ Mutual(graph, m, finished'[i])
              \/ \E j \in DOMAIN finished' : i < j /\ Mutual(graph, m, finished'[j])
        BY <3>2, <3>3, <3>6 DEF ReachedBefore
      <4>3. QED
        BY <4>1, <4>2 DEF ReachedBefore
    <3>7. QED
      BY <1>13, <3>5, <3>6
  <2>3. CASE m # t /\ ~Mutual(graph, m, t)
    <3>1. m \in Black
      BY <1>7, <2>3
    <3>2. CASE \E g \in Gray : Mutual(graph, m, g)
      BY <1>5, <2>3, <3>2
    <3>3. CASE ReachedBefore(m)
      <4>1. Reach(graph, m) \intersect Unresolved \subseteq Black
        BY <3>3 DEF ReachedBefore
      <4>2. t \notin Reach(graph, m)
        BY <1>3, <1>5, <1>8, <4>1
      <4>3. ASSUME NEW i \in 1..(k + 1), finished'[i] \in Reach(graph, m)
            PROVE  \/ Mutual(graph, m, finished'[i])
                   \/ \E j \in 1..(k + 1) : i < j /\ Mutual(graph, m, finished'[j])
        <5>1. i \in 1..k
          BY <1>4, <4>2, <4>3
        <5>2. \/ Mutual(graph, m, finished[i])
              \/ \E j \in 1..k : i < j /\ Mutual(graph, m, finished[j])
          BY <1>4, <3>3, <4>3, <5>1 DEF ReachedBefore
        <5>3. QED
          BY <1>4, <5>1, <5>2
      <4>4. QED
        BY <1>4, <1>6, <1>7, <4>1, <4>3 DEF ReachedBefore
    <3>4. QED
      BY <3>1, <3>2, <3>3 DEF SearchInv
  <2>4. QED
    BY <2>1, <2>2, <2>3
<1>15. QED
  BY <1>9, <1>10, <1>12, <1>14 DEF SearchInv

(* Two sequences put together.                                             *)
LEMMA Joined ==
  ASSUME NEW E, NEW s \in Seq(E), NEW n \in Nat, Len(s) = n,
         NEW p \in Seq(E), NEW k \in Nat, Len(p) = k
  PROVE  /\ s \o p \in Seq(E) /\ Len(s \o p) = n + k
         /\ \A i \in 1..n : (s \o p)[i] = s[i]
         /\ \A i \in 1..k : (s \o p)[n + i] = p[i]
<1>1. s \o p \in Seq(E) /\ Len(s \o p) = n + k
  OBVIOUS
<1>2. \A i \in 1..n : (s \o p)[i] = s[i]
  OBVIOUS
<1>3. \A i \in 1..k : (s \o p)[n + i] = p[i]
  OBVIOUS
<1>4. QED
  BY <1>1, <1>2, <1>3

(* A sequence, an element and another sequence, put together.              *)
LEMMA PutTogether ==
  ASSUME NEW E, NEW s \in Seq(E), NEW n \in Nat, Len(s) = n, NEW x \in E,
         NEW p \in Seq(E), NEW k \in Nat, Len(p) = k
  PROVE  LET r == s \o <<x>> \o p IN
         /\ r \in Seq(E) /\ DOMAIN r = 1..(n + 1 + k)
         /\ \A i \in 1..n : r[i] = s[i]
         /\ r[n + 1] = x
         /\ \A i \in 1..k : r[n + 1 + i] = p[i]
<1> DEFINE q == s \o <<x>>
           r == q \o p
<1>1. <<x>> \in Seq(E) /\ Len(<<x>>) = 1 /\ <<x>>[1] = x /\ 1 \in 1..1
  OBVIOUS
<1>2. q \in Seq(E) /\ Len(q) = n + 1
  BY <1>1, Joined
<1>3. \A i \in 1..n : q[i] = s[i]
  BY <1>1, Joined
<1>4. q[n + 1] = x
  OBVIOUS
<1> HIDE DEF q
<1>5. r \in Seq(E) /\ Len(r) = n + 1 + k
  BY <1>2
<1>6. \A i \in 1..(n + 1) : r[i] = q[i]
  BY <1>2
<1>7. \A i \in 1..k : r[n + 1 + i] = p[i]
  BY <1>2
<1> HIDE DEF r
<1>8. (\A i \in 1..n : i \in 1..(n + 1)) /\ n + 1 \in 1..(n + 1)
  OBVIOUS
<1>9. DOMAIN r = 1..(n + 1 + k)
  BY <1>5
<1>10. /\ r \in Seq(E) /\ DOMAIN r = 1..(n + 1 + k)
       /\ \A i \in 1..n : r[i] = s[i]
       /\ r[n + 1] = x
       /\ \A i \in 1..k : r[n + 1 + i] = p[i]
  BY <1>3, <1>4, <1>5, <1>6, <1>7, <1>8, <1>9
<1>11. QED
  BY <1>10 DEF r, q

(* A function on 1..k is a sequence.                                       *)
LEMMA IsSequence ==
  ASSUME NEW E, NEW k \in Nat, NEW p \in [1..k -> E]
  PROVE  p \in Seq(E) /\ Len(p) = k
OBVIOUS

(* An entry that is entered.                                               *)
LEMMA EnteredEntry ==
  ASSUME NEW e \in Entry
  PROVE  LET f == [e EXCEPT !.expanded = TRUE] IN f \in Entry /\ f.node = e.node /\ f.expanded
BY Zenon DEF Entry

(* The entries put above a node that is entered, for the nodes of S.       *)
Pushed(S) == [i \in 1..Cardinality(S) |-> [node |-> LastToFirst(S)[i], expanded |-> FALSE]]

(* They are not entered themselves, and there is one for each node.        *)
LEMMA PushedEntries ==
  ASSUME NEW S, S \subseteq Unresolved, Unresolved \subseteq Node
  PROVE  /\ Cardinality(S) \in Nat /\ Pushed(S) \in Seq(Entry) /\ Len(Pushed(S)) = Cardinality(S)
         /\ \A i \in 1..Cardinality(S) : Pushed(S)[i].node \in S /\ ~Pushed(S)[i].expanded
         /\ \A d \in S : \E i \in 1..Cardinality(S) : Pushed(S)[i].node = d
<1> DEFINE k == Cardinality(S)
           p == Pushed(S)
<1>1. /\ k \in Nat
      /\ \A i \in 1..k : LastToFirst(S)[i] \in S
      /\ \A d \in S : \E i \in 1..k : LastToFirst(S)[i] = d
  BY ListsAll
<1>2. /\ \A i \in 1..k : p[i] = [node |-> LastToFirst(S)[i], expanded |-> FALSE] /\ p[i] \in Entry
      /\ p = [i \in 1..k |-> p[i]]
  BY <1>1 DEF Entry, Pushed
<1> HIDE DEF p
<1>3. p \in Seq(Entry) /\ Len(p) = k
  <2>1. p \in [1..k -> Entry]
    BY <1>2
  <2>2. QED
    BY <1>1, <2>1, IsSequence
<1>4. \A i \in 1..k : p[i].node \in S /\ ~p[i].expanded /\ p[i].node = LastToFirst(S)[i]
  BY <1>1, <1>2
<1>5. \A d \in S : \E i \in 1..k : p[i].node = d
  BY <1>1, <1>4
<1>6. QED
  BY <1>1, <1>3, <1>4, <1>5 DEF p

(* The stack when the node on top is entered: its dependencies that were   *)
(* not met are put above it.                                               *)
LEMMA StackGrows ==
  ASSUME NEW s \in Seq(Entry), NEW n \in Nat \ {0}, Len(s) = n - 1, NEW e \in Entry,
         NEW p \in Seq(Entry), NEW k \in Nat, Len(p) = k
  PROVE  LET r == s \o <<e>> \o p IN
         /\ r \in Seq(Entry) /\ DOMAIN r = 1..(n + k)
         /\ \A i \in 1..(n - 1) : r[i] = s[i]
         /\ r[n] = e
         /\ \A i \in 1..k : r[n + i] = p[i]
<1>1. PICK m \in Nat : m = n - 1
  OBVIOUS
<1>2. Len(s) = m /\ m + 1 = n
  BY <1>1
<1> DEFINE r == s \o <<e>> \o p
<1>3. /\ r \in Seq(Entry) /\ DOMAIN r = 1..(m + 1 + k)
      /\ \A i \in 1..m : r[i] = s[i]
      /\ r[m + 1] = e
      /\ \A i \in 1..k : r[m + 1 + i] = p[i]
  BY <1>2, PutTogether, SMTT(30)
<1> HIDE DEF r
<1>4. /\ r \in Seq(Entry) /\ DOMAIN r = 1..(n + k)
      /\ \A i \in 1..(n - 1) : r[i] = s[i]
      /\ r[n] = e
      /\ \A i \in 1..k : r[n + i] = p[i]
  BY <1>1, <1>2, <1>3, Zenon
<1>5. QED
  BY <1>4 DEF r

(* The search enters the node t on top of the stack of n entries, and puts *)
(* k entries above it, for the nodes of S.                                 *)
Enters(n, t, S, k) ==
  /\ n = Len(pending) /\ t = pending[n].node /\ ~pending[n].expanded /\ k \in Nat
  /\ pending' \in Seq(Entry) /\ DOMAIN pending' = 1..(n + k)
  /\ \A i \in 1..(n - 1) : pending'[i] = pending[i]
  /\ pending'[n].node = t /\ pending'[n].expanded
  /\ \A i \in 1..k : pending'[n + i].node \in S /\ ~pending'[n + i].expanded
  /\ \A d \in S : \E i \in 1..k : pending'[n + i].node = d

(* The search enters a node.                                               *)
LEMMA SearchEnters ==
  ASSUME OrderEnded, SearchInv, pending # <<>>, graph' = graph, remaining' = remaining, finished' = finished,
         NEW n, NEW t, NEW open, NEW k, Enters(n, t, open, k), t \notin visited,
         visited' = visited \union {t}, open = (graph[t] \intersect Unresolved) \ visited'
  PROVE  SearchInv'
<1>1. pending \in Seq(Entry) /\ finished \in Seq(Unresolved) /\ graph \in [Node -> SUBSET Node]
  BY DEF SearchInv, SearchShape, OrderEnded
<1>2. /\ n \in Nat \ {0} /\ DOMAIN pending = 1..n /\ n \in 1..n /\ pending[n] \in Entry
      /\ \A i \in 1..(n - 1) : i \in 1..n /\ i < n
      /\ \A i \in 1..n : i = n \/ i \in 1..(n - 1)
  <2>1. n = Len(pending)
    BY DEF Enters
  <2>2. QED
    BY <1>1, <2>1, StackWithoutTop
<1>3. t \in Unresolved /\ t \in Node /\ Unresolved \subseteq Node /\ t = pending[n].node /\ ~pending[n].expanded
  BY <1>2 DEF Entry, OrderEnded, Enters
<1>4. /\ k \in Nat /\ pending' \in Seq(Entry) /\ DOMAIN pending' = 1..(n + k)
      /\ \A i \in 1..(n - 1) : pending'[i] = pending[i]
      /\ pending'[n].node = t /\ pending'[n].expanded
      /\ \A i \in 1..k : pending'[n + i].node \in open /\ ~pending'[n + i].expanded
      /\ \A d \in open : \E i \in 1..k : pending'[n + i].node = d
  BY DEF Enters
<1>5. /\ \A i \in 1..(n + k) : i \in 1..(n - 1) \/ i = n \/ (i > n /\ \E x \in 1..k : i = n + x)
      /\ \A i \in 1..(n - 1) : i \in 1..(n + k)
      /\ \A x \in 1..k : n + x \in 1..(n + k) /\ n < n + x /\ \A i \in 1..(n - 1) : i < n + x
      /\ n \in 1..(n + k)
  <2>1. ASSUME NEW i \in 1..(n + k) PROVE i \in 1..(n - 1) \/ i = n \/ (i > n /\ \E x \in 1..k : i = n + x)
    <3>1. i > n => i - n \in 1..k /\ i = n + (i - n)
      BY <1>2, <1>4
    <3>2. i > n \/ i = n \/ i \in 1..(n - 1)
      BY <1>2, <1>4
    <3>3. QED
      BY <3>1, <3>2
  <2>2. QED
    BY <1>2, <1>4, <2>1
<1>6. \A i \in 1..(n + k) : pending'[i].expanded => i = n \/ (i \in 1..(n - 1) /\ pending[i].expanded)
  BY <1>4, <1>5
<1>7. Unresolved' = Unresolved /\ Entry' = Entry /\ Black' = Black
  BY DEF Unresolved, Entry, Black
<1>8. visited = Gray \union Black /\ Gray \intersect Black = {}
  BY DEF SearchInv, SearchShape
<1>9. Gray' = Gray \union {t}
  <2>1. Gray' \subseteq Gray \union {t}
    BY <1>2, <1>4, <1>6 DEF Gray
  <2>2. t \in Gray'
    BY <1>4, <1>5 DEF Gray
  <2>3. ASSUME NEW g \in Gray PROVE g \in Gray'
    <3>1. PICK i \in DOMAIN pending : pending[i].expanded /\ g = pending[i].node
      BY DEF Gray
    <3>2. i \in 1..(n - 1)
      BY <1>2, <1>3, <3>1
    <3>3. QED
      BY <1>4, <1>5, <3>1, <3>2 DEF Gray
  <2>4. QED
    BY <2>1, <2>2, <2>3
<1>10. \A i \in 1..(n - 1) : pending[i].expanded => pending[i].node \in visited /\ pending[i].node # t
  <2> SUFFICES ASSUME NEW i \in 1..(n - 1), pending[i].expanded
               PROVE  pending[i].node \in visited /\ pending[i].node # t
    OBVIOUS
  <2>1. i \in DOMAIN pending
    BY <1>2
  <2>2. pending[i].node \in Gray
    BY <2>1 DEF Gray
  <2>3. QED
    BY <1>8, <2>2
<1>11. SearchShape'
  <2>1. visited' = Gray' \union Black' /\ Gray' \intersect Black' = {}
    BY <1>7, <1>8, <1>9
  <2>2. ASSUME NEW i \in 1..(n + k), NEW j \in 1..(n + k), i # j, pending'[i].expanded, pending'[j].expanded
        PROVE  pending'[i].node # pending'[j].node
    <3>1. /\ i = n \/ (i \in 1..(n - 1) /\ pending[i].expanded)
          /\ j = n \/ (j \in 1..(n - 1) /\ pending[j].expanded)
      BY <1>6, <2>2
    <3>2. CASE i = n
      BY <1>4, <1>10, <2>2, <3>1, <3>2
    <3>3. CASE j = n
      BY <1>4, <1>10, <2>2, <3>1, <3>3
    <3>4. CASE i # n /\ j # n
      <4>1. /\ i \in DOMAIN pending /\ j \in DOMAIN pending /\ pending[i].expanded /\ pending[j].expanded
            /\ pending'[i] = pending[i] /\ pending'[j] = pending[j]
        BY <1>2, <1>4, <3>1, <3>4
      <4>2. QED
        BY <2>2, <4>1 DEF SearchInv, SearchShape
    <3>5. QED
      BY <3>2, <3>3, <3>4
  <2>3. QED
    BY <1>1, <1>4, <1>7, <2>1, <2>2 DEF SearchShape
<1>12. StackIsReached'
  <2>1. \A d \in open : d \in Reach(graph, t)
    BY <1>1, <1>3, BehindIsLeast
  <2>2. ASSUME NEW i \in 1..(n + k), NEW j \in 1..(n + k), i < j, pending'[i].expanded
        PROVE  pending'[j].node \in Reach(graph, pending'[i].node)
    <3>1. CASE i = n
      <4>1. ~(j \in 1..(n - 1)) /\ j # n
        BY <1>2, <2>2, <3>1
      <4>2. PICK x \in 1..k : j = n + x
        BY <1>5, <4>1, Zenon
      <4>3. pending'[j].node \in open /\ pending'[i].node = t
        BY <1>4, <3>1, <4>2
      <4>4. QED
        BY <2>1, <4>3
    <3>2. CASE i \in 1..(n - 1) /\ pending[i].expanded
      <4> DEFINE g == pending[i].node
      <4>1. g \in Node /\ pending'[i].node = g /\ t \in Reach(graph, g)
        <5>1. pending[i] \in Entry
          BY <1>1, <1>2, <3>2
        <5>2. t \in Reach(graph, g)
          BY <1>2, <1>3, <3>2 DEF SearchInv, StackIsReached
        <5>3. QED
          BY <1>3, <1>4, <3>2, <5>1, <5>2 DEF Entry
      <4>2. CASE j = n
        BY <1>4, <4>1, <4>2
      <4>3. CASE j \in 1..(n - 1)
        <5>1. i \in DOMAIN pending /\ j \in DOMAIN pending /\ pending'[j] = pending[j]
          BY <1>2, <1>4, <3>2, <4>3
        <5>2. pending[j].node \in Reach(graph, g)
          BY <2>2, <3>2, <5>1 DEF SearchInv, StackIsReached
        <5>3. QED
          BY <4>1, <5>1, <5>2
      <4>4. CASE \E x \in 1..k : j = n + x
        <5>1. pending'[j].node \in Reach(graph, t)
          BY <1>4, <2>1, <4>4
        <5> HIDE DEF g
        <5>2. QED
          BY <1>1, <4>1, <5>1, ReachIsTransitive
      <4>5. QED
        BY <1>5, <4>2, <4>3, <4>4
    <3>3. QED
      BY <1>6, <2>2, <3>1, <3>2
  <2>3. QED
    BY <1>4, <2>2 DEF StackIsReached
<1>13. DependenciesAreMet'
  <2>1. \A m \in Black' : graph'[m] \intersect Unresolved' \subseteq visited'
    BY <1>7 DEF SearchInv, DependenciesAreMet
  <2>2. ASSUME NEW i \in DOMAIN pending', pending'[i].expanded,
               NEW d \in graph'[pending'[i].node] \intersect Unresolved', d \notin visited'
        PROVE  \E j \in DOMAIN pending' : i < j /\ pending'[j].node = d
    <3>1. CASE i = n
      <4>1. d \in open
        BY <1>4, <1>7, <2>2, <3>1
      <4>2. PICK x \in 1..k : pending'[n + x].node = d
        BY <1>4, <4>1
      <4>3. QED
        BY <1>4, <1>5, <3>1, <4>2
    <3>2. CASE i \in 1..(n - 1) /\ pending[i].expanded
      <4>1. d \in graph[pending[i].node] \intersect Unresolved /\ d \notin visited /\ i \in DOMAIN pending
        BY <1>2, <1>4, <1>7, <2>2, <3>2
      <4>2. PICK j \in 1..n : i < j /\ pending[j].node = d
        <5>1. \E j \in DOMAIN pending : i < j /\ pending[j].node = d
          BY <3>2, <4>1 DEF SearchInv, DependenciesAreMet
        <5>2. QED
          BY <1>2, <5>1
      <4>3. pending'[j].node = d /\ j \in DOMAIN pending'
        BY <1>2, <1>3, <1>4, <1>5, <4>2
      <4>4. QED
        BY <4>2, <4>3
    <3>3. QED
      BY <1>4, <1>6, <2>2, <3>1, <3>2
  <2>3. QED
    BY <2>1, <2>2 DEF DependenciesAreMet
<1>14. \A m \in Black' : (\E g \in Gray' : Mutual(graph', m, g)) \/ ReachedBefore(m)'
  BY <1>7, <1>9 DEF SearchInv, ReachedBefore
<1>15. QED
  BY <1>11, <1>12, <1>13, <1>14 DEF SearchInv


(* A pop of the stack keeps the invariant of the search.                   *)
LEMMA SearchPops ==
  ASSUME OrderEnded, SearchInv, VisitPop
  PROVE  SearchInv'
<1> DEFINE n == Len(pending)
           top == pending[n]
           rest == SubSeq(pending, 1, n - 1)
           open == (graph[top.node] \intersect Unresolved) \ (visited \union {top.node})
           k == Cardinality(open)
           pushed == Pushed(open)
           entered == [top EXCEPT !.expanded = TRUE]
<1>1. pending # <<>> /\ graph' = graph /\ remaining' = remaining /\ visited' = visited \union {top.node}
  BY DEF VisitPop
<1>2. pending \in Seq(Entry) /\ finished \in Seq(Unresolved) /\ Unresolved \subseteq Node
  BY DEF SearchInv, SearchShape, OrderEnded
<1>3. /\ n \in Nat \ {0} /\ DOMAIN pending = 1..n /\ n \in 1..n /\ top \in Entry
      /\ rest \in Seq(Entry) /\ Len(rest) = n - 1
      /\ \A i \in 1..(n - 1) : rest[i] = pending[i]
  <2>1. n \in Nat \ {0} /\ DOMAIN pending = 1..n /\ n \in 1..n /\ pending[n] \in Entry
    BY <1>1, <1>2, StackWithoutTop
  <2>2. rest \in Seq(Entry) /\ Len(rest) = n - 1
    BY <1>2, <2>1
  <2>3. \A i \in 1..(n - 1) : rest[i] = pending[i]
    BY <1>1, <1>2, StackWithoutTop
  <2>4. QED
    BY <2>1, <2>2, <2>3
<1>4. CASE top.expanded
  <2>1. pending' = rest /\ finished' = Append(finished, top.node)
    BY <1>4 DEF VisitPop
  <2>2. top.node \in Gray
    BY <1>3, <1>4 DEF Gray
  <2>3. visited' = visited
    BY <1>1, <2>2 DEF SearchInv, SearchShape
  <2>4. QED
    BY <1>1, <1>4, <2>1, <2>3, SearchFinishes
<1>5. CASE ~top.expanded /\ top.node \in visited
  <2>1. pending' = rest /\ finished' = finished
    BY <1>5 DEF VisitPop
  <2>2. visited' = visited
    BY <1>1, <1>5
  <2>3. QED
    BY <1>1, <1>5, <2>1, <2>2, SearchSkips
<1>6. CASE ~top.expanded /\ top.node \notin visited
  <2>1. finished' = finished
    BY <1>6 DEF VisitPop
  <2>2. pending' = rest \o <<entered>> \o pushed
    BY <1>6 DEF VisitPop, Pushed
  <2>3. entered \in Entry /\ entered.node = top.node /\ entered.expanded
    BY <1>3, EnteredEntry
  <2>4. open \subseteq Unresolved /\ open = (graph[top.node] \intersect Unresolved) \ visited'
    BY <1>1
  <2>5. /\ k \in Nat /\ pushed \in Seq(Entry) /\ Len(pushed) = k
        /\ \A i \in 1..k : pushed[i].node \in open /\ ~pushed[i].expanded
        /\ \A d \in open : \E i \in 1..k : pushed[i].node = d
    <3>1. open \subseteq Unresolved /\ Unresolved \subseteq Node
      BY <1>2, <2>4
    <3> HIDE DEF open
    <3>2. k \in Nat /\ pushed \in Seq(Entry) /\ Len(pushed) = k
      BY <3>1, PushedEntries, Zenon
    <3>3. \A i \in 1..k : pushed[i].node \in open /\ ~pushed[i].expanded
      BY <3>1, PushedEntries
    <3>4. \A d \in open : \E i \in 1..k : pushed[i].node = d
      BY <3>1, PushedEntries
    <3>5. QED
      BY <3>2, <3>3, <3>4
  <2> HIDE DEF top, rest, open, k, pushed, entered, n
  <2>6. /\ pending' \in Seq(Entry) /\ DOMAIN pending' = 1..(n + k)
        /\ \A i \in 1..(n - 1) : pending'[i] = rest[i]
        /\ pending'[n] = entered
        /\ \A i \in 1..k : pending'[n + i] = pushed[i]
    <3> DEFINE r == rest \o <<entered>> \o pushed
    <3>1. /\ r \in Seq(Entry) /\ DOMAIN r = 1..(n + k)
          /\ \A i \in 1..(n - 1) : r[i] = rest[i]
          /\ r[n] = entered
          /\ \A i \in 1..k : r[n + i] = pushed[i]
      BY <1>3, <2>3, <2>5, StackGrows
    <3>2. QED
      BY <2>2, <3>1
  <2>7. \A i \in 1..(n - 1) : pending'[i] = pending[i]
    BY <1>3, <2>6
  <2>8. pending'[n].node = top.node /\ pending'[n].expanded
    BY <2>3, <2>6
  <2>9. /\ \A i \in 1..k : pending'[n + i].node \in open /\ ~pending'[n + i].expanded
        /\ \A d \in open : \E i \in 1..k : pending'[n + i].node = d
    BY <2>5, <2>6
  <2>10. n = Len(pending) /\ top.node = pending[n].node /\ ~pending[n].expanded
    BY <1>6 DEF n, top
  <2>11. Enters(n, top.node, open, k)
    BY <2>5, <2>6, <2>7, <2>8, <2>9, <2>10 DEF Enters
  <2>12. QED
    BY <1>1, <1>6, <2>1, <2>4, <2>11, SearchEnters
<1>7. QED
  BY <1>4, <1>5, <1>6

(* The search begins at a node it has not met.                             *)
LEMMA SearchGoesOn ==
  ASSUME OrderEnded, SearchInv, VisitNext
  PROVE  SearchInv'
<1>1. /\ pending = <<>> /\ Unresolved \ visited # {} /\ graph' = graph /\ remaining' = remaining
      /\ visited' = visited /\ finished' = finished
      /\ pending' = <<[node |-> Min(Unresolved \ visited), expanded |-> FALSE]>>
  BY DEF VisitNext
<1>2. Unresolved \subseteq Node /\ Unresolved' = Unresolved /\ Entry' = Entry /\ Black' = Black
  BY <1>1 DEF OrderEnded, Unresolved, Entry, Black
<1> DEFINE T == Unresolved \ visited
<1>3. Min(T) \in T
  <2>1. T \subseteq Nat /\ T # {}
    BY <1>1, <1>2, NodesAreFinite
  <2>2. PICK x \in T : \A y \in T : x <= y
    <3> HIDE DEF T
    <3>1. QED
      BY <2>1, LeastNatural
  <2> HIDE DEF T
  <2>3. QED
    BY <2>2 DEF Min
<1>4. [node |-> Min(T), expanded |-> FALSE] \in Entry
  BY <1>3 DEF Entry
<1>5. pending' \in Seq(Entry) /\ DOMAIN pending' = {1} /\ ~pending'[1].expanded /\ DOMAIN pending = {}
  BY <1>1, <1>4
<1>6. Gray = {} /\ Gray' = {}
  BY <1>5 DEF Gray
<1>7. SearchShape'
  BY <1>1, <1>2, <1>5, <1>6 DEF SearchInv, SearchShape
<1>8. StackIsReached'
  BY <1>5 DEF StackIsReached
<1>9. DependenciesAreMet'
  BY <1>1, <1>2, <1>5 DEF SearchInv, DependenciesAreMet
<1>10. \A m \in Black' : (\E g \in Gray' : Mutual(graph', m, g)) \/ ReachedBefore(m)'
  BY <1>1, <1>2, <1>6 DEF SearchInv, ReachedBefore
<1>11. QED
  BY <1>7, <1>8, <1>9, <1>10 DEF SearchInv

-----------------------------------------------------------------------------
(* The nodes that wait for n and that n waits for, and n.                  *)
ComponentWith(n) == {m \in Node : Mutual(graph, n, m)}

(* Of what n reaches, a node of its component was finished last.           *)
ComesLast(n) ==
  \A i \in DOMAIN finished : finished[i] \in Reach(graph, n) =>
    \/ Mutual(graph, n, finished[i])
    \/ \E j \in DOMAIN finished : i < j /\ Mutual(graph, n, finished[j])

(***************************************************************************)
(* The invariant of the second search: whole components are assigned, the  *)
(* other unresolved nodes are finished and not looked at yet, and the      *)
(* cycles are the assigned nodes that wait for themselves.                 *)
(***************************************************************************)
ComponentsInv ==
  /\ finished \in Seq(Unresolved) /\ assigned \subseteq Unresolved
  /\ \A n \in assigned : ComponentWith(n) \subseteq assigned
  /\ Unresolved \ assigned \subseteq Black
  /\ \A n \in Unresolved \ assigned : ComesLast(n)
  /\ cycles = {n \in assigned : n \in Behind(graph, n)}

(* It holds when the first search has met all nodes.                       *)
LEMMA ComponentsBegin ==
  ASSUME SearchInv, pending = <<>>, Unresolved \subseteq visited, assigned = {}, cycles = {}
  PROVE  ComponentsInv
<1>1. Gray = {}
  BY DEF Gray
<1>2. finished \in Seq(Unresolved) /\ Unresolved \subseteq Black
  BY <1>1 DEF SearchInv, SearchShape
<1>3. \A n \in Unresolved : ComesLast(n)
  BY <1>1, <1>2 DEF SearchInv, ReachedBefore, ComesLast
<1>4. QED
  BY <1>2, <1>3 DEF ComponentsInv

(* A component is one for all its nodes.                                   *)
LEMMA OneComponent ==
  ASSUME graph \in [Node -> SUBSET Node], NEW n \in Node
  PROVE  n \in ComponentWith(n) /\ \A m \in ComponentWith(n) : ComponentWith(m) = ComponentWith(n)
<1>1. n \in ComponentWith(n)
  BY ReachIsLeast DEF ComponentWith, Mutual
<1>2. ASSUME NEW m \in ComponentWith(n) PROVE ComponentWith(m) = ComponentWith(n)
  <2>1. m \in Node /\ Mutual(graph, n, m)
    BY DEF ComponentWith
  <2>2. \A k \in Node : Mutual(graph, m, k) <=> Mutual(graph, n, k)
    BY <2>1, MutualNodes
  <2>3. QED
    BY <2>2 DEF ComponentWith
<1>3. QED
  BY <1>1, <1>2

(***************************************************************************)
(* Going along dependents from the last finished node, the second search   *)
(* meets its component and nothing else: a node of no component yet that   *)
(* leads to it would have been finished later, were it not of it too.      *)
(***************************************************************************)
LEMMA ComponentIsFound ==
  ASSUME OrderEnded, ComponentsInv, finished # <<>>, NEW s, s = finished[Len(finished)], s \notin assigned
  PROVE  ComponentOf(s) = ComponentWith(s)
<1> DEFINE free == Unresolved \ assigned
           k == Len(finished)
           C == ComponentWith(s)
<1>1. graph \in [Node -> SUBSET Node] /\ Unresolved \subseteq Node /\ finished \in Seq(Unresolved)
  BY DEF OrderEnded, ComponentsInv
<1>2. k \in Nat \ {0} /\ DOMAIN finished = 1..k /\ k \in 1..k /\ s \in Unresolved
  BY <1>1, StackWithoutTop
<1>3. s \in Node /\ s \in free /\ \A j \in 1..k : ~(k < j)
  <2>1. s \in Node /\ s \in free
    BY <1>1, <1>2
  <2> HIDE DEF k
  <2>2. QED
    BY <1>2, <2>1
<1>4. s \in C /\ C \subseteq Node
  BY <1>1, <1>3, OneComponent DEF ComponentWith
<1>5. ASSUME NEW u \in C, NEW d \in free, u \in graph[d] PROVE d \in C
  <2>1. d \in Node /\ u \in Node /\ s \in Reach(graph, u)
    BY <1>1, <1>5 DEF ComponentWith, Mutual
  <2>2. u \in Reach(graph, d)
    BY <1>1, <1>5, <2>1, BehindIsLeast
  <2>3. s \in Reach(graph, d)
    BY <1>1, <2>1, <2>2, ReachIsTransitive
  <2>4. Mutual(graph, d, s)
    <3>1. ComesLast(d)
      BY <1>5 DEF ComponentsInv
    <3> HIDE DEF k
    <3>2. s = finished[k]
      BY DEF k
    <3>3. QED
      BY <1>2, <1>3, <2>3, <3>1, <3>2 DEF ComesLast
  <2>5. QED
    BY <2>1, <2>4 DEF ComponentWith, Mutual
<1>6. ComponentOf(s) \subseteq C
  <2>1. ASSUME NEW m \in ComponentOf(s) PROVE m \in C
    <3>1. \A U \in SUBSET Node : (s \in U /\ \A u \in U, d \in free : u \in graph[d] => d \in U) => m \in U
      BY DEF ComponentOf
    <3> HIDE DEF C, free
    <3>2. QED
      BY <1>4, <1>5, <3>1
  <2>2. QED
    BY <2>1
<1>7. C \subseteq free
  <2> SUFFICES ASSUME NEW m \in C PROVE m \in free
    OBVIOUS
  <2>1. m \in Node /\ s \in Reach(graph, m) /\ s \in ComponentWith(m)
    BY <1>3 DEF ComponentWith, Mutual
  <2>2. m \in Unresolved
    BY <1>2, <2>1, ResolvedReachResolved
  <2>3. m \notin assigned
    BY <2>1 DEF ComponentsInv
  <2>4. QED
    BY <2>2, <2>3
<1>8. ASSUME NEW m \in C, NEW U \in SUBSET Node, s \in U,
             \A u \in U, d \in free : u \in graph[d] => d \in U
      PROVE  m \in U
  <2> SUFFICES ASSUME m \notin U PROVE FALSE
    OBVIOUS
  <2> DEFINE Q == C \ U
             K == Q \union {y \in Node : s \notin Reach(graph, y)}
  <2>1. ASSUME NEW x \in K, NEW y \in graph[x] PROVE y \in K
    <3>1. x \in Node /\ y \in Node /\ y \in Reach(graph, x)
      BY <1>1, <1>4, BehindIsLeast
    <3>2. CASE s \notin Reach(graph, x)
      BY <1>1, <3>1, <3>2, ReachIsTransitive
    <3>3. CASE x \in Q /\ s \in Reach(graph, y)
      <4>1. x \in free /\ x \notin U
        BY <1>7, <3>3
      <4>2. y \notin U
        BY <1>8, <4>1
      <4>3. x \in Reach(graph, s)
        BY <3>3 DEF ComponentWith, Mutual
      <4>4. y \in Reach(graph, s)
        BY <1>1, <1>3, <3>1, <4>3, ReachIsTransitive
      <4>5. QED
        BY <3>1, <3>3, <4>2, <4>4 DEF ComponentWith, Mutual
    <3>4. CASE s \notin Reach(graph, y)
      BY <3>1, <3>4
    <3>5. QED
      BY <3>2, <3>3, <3>4
  <2>2. Closed(graph, K) /\ K \in SUBSET Node /\ m \in K /\ m \in Node
    BY <1>4, <1>8, <2>1 DEF Closed
  <2>3. Reach(graph, m) \subseteq K
    <3> HIDE DEF K
    <3>1. QED
      BY <1>1, <2>2, ReachIsLeast
  <2>4. s \in Reach(graph, m) /\ s \in Reach(graph, s)
    BY <1>1, <1>3, ReachIsLeast DEF ComponentWith, Mutual
  <2>5. QED
    BY <1>8, <2>3, <2>4
<1>9. C \subseteq ComponentOf(s)
  <2> HIDE DEF C
  <2>1. QED
    BY <1>7, <1>8 DEF ComponentOf
<1>10. QED
  BY <1>6, <1>9

(***************************************************************************)
(* A component has a cycle when it has more than one node, or its node     *)
(* waits for itself, and then all its nodes wait for themselves.           *)
(***************************************************************************)
LEMMA CyclicComponent ==
  ASSUME graph \in [Node -> SUBSET Node], NEW s \in Node, NEW n \in ComponentWith(s)
  PROVE  n \in Behind(graph, n) <=> Cardinality(ComponentWith(s)) > 1 \/ s \in graph[s]
<1> DEFINE C == ComponentWith(s)
<1>1. C \subseteq Node /\ s \in C /\ n \in Node
  BY OneComponent DEF ComponentWith
<1>2. IsFiniteSet(C) /\ Cardinality(C) \in Nat
  BY <1>1, NodesAreFinite, FS_Subset, FS_CardinalityType
<1>3. \A a, b \in C : Mutual(graph, a, b)
  <2> SUFFICES ASSUME NEW a \in C, NEW b \in C PROVE Mutual(graph, a, b)
    OBVIOUS
  <2>1. b \in ComponentWith(a)
    BY OneComponent
  <2>2. QED
    BY <2>1 DEF ComponentWith
<1>4. Cardinality(C) > 1 <=> \E m \in C : m # s
  <2>1. Cardinality(C) = 0 <=> C = {}
    BY <1>2, FS_EmptySet
  <2>2. Cardinality(C) = 1 <=> \E x : C = {x}
    BY <1>2, FS_Singleton
  <2> HIDE DEF C
  <2>3. (\E m \in C : m # s) <=> ~(\E x : C = {x})
    <3>1. (\E x : C = {x}) => C = {s}
      BY <1>1
    <3>2. C = {s} <=> \A m \in C : m = s
      BY <1>1
    <3>3. QED
      BY <3>1, <3>2
  <2>4. Cardinality(C) # 0
    BY <1>1, <2>1
  <2>5. QED
    BY <1>2, <2>2, <2>3, <2>4
<1>5. ASSUME NEW m \in C, m # n PROVE n \in Behind(graph, n)
  <2>1. m \in Reach(graph, n) /\ n \in Reach(graph, m) /\ m \in Node
    BY <1>1, <1>3 DEF Mutual
  <2>2. m \in Behind(graph, n)
    BY <1>1, <1>5, <2>1, BehindIsLeast
  <2>3. Reach(graph, m) \subseteq Behind(graph, n)
    <3>1. Closed(graph, Behind(graph, n)) /\ Behind(graph, n) \in SUBSET Node
      BY <1>1, BehindIsLeast DEF Behind
    <3>2. QED
      BY <2>1, <2>2, <3>1, ReachIsLeast
  <2>4. QED
    BY <2>1, <2>3
<1>6. CASE Cardinality(C) > 1
  <2>1. PICK m \in C : m # s
    BY <1>4, <1>6
  <2>2. \E x \in C : x # n
    BY <1>1, <2>1
  <2>3. QED
    BY <1>5, <1>6, <2>2
<1>7. CASE ~(Cardinality(C) > 1)
  <2>1. C = {s} /\ n = s
    BY <1>1, <1>4, <1>7
  <2>2. s \in graph[s] => s \in Behind(graph, s)
    BY BehindIsLeast
  <2>3. s \in Behind(graph, s) => s \in graph[s]
    <3> SUFFICES ASSUME s \in Behind(graph, s) PROVE s \in graph[s]
      OBVIOUS
    <3>1. PICK d \in graph[s] : Mutual(graph, s, d)
      BY CircularNodes
    <3>2. d \in ComponentWith(s)
      BY <3>1 DEF ComponentWith
    <3>3. QED
      BY <2>1, <3>2
  <2>4. QED
    BY <1>7, <2>1, <2>2, <2>3
<1>8. QED
  BY <1>6, <1>7

(* What the loop over the finished nodes keeps.                            *)
LEMMA ComponentsGoOn ==
  ASSUME OrderEnded, ComponentsInv, NextComponent
  PROVE  ComponentsInv'
<1> DEFINE k == Len(finished)
           rest == SubSeq(finished, 1, k - 1)
<1> PICK s : s = finished[k]
  OBVIOUS
<1>1. graph \in [Node -> SUBSET Node] /\ Unresolved \subseteq Node /\ finished \in Seq(Unresolved)
  BY DEF OrderEnded, ComponentsInv
<1>2. finished # <<>> /\ finished' = rest /\ graph' = graph /\ remaining' = remaining
  BY DEF NextComponent
<1>3. Unresolved' = Unresolved /\ \A n : ComponentWith(n)' = ComponentWith(n)
  BY <1>2 DEF Unresolved, ComponentWith
<1>4. /\ k \in Nat \ {0} /\ DOMAIN finished = 1..k /\ k \in 1..k /\ s \in Unresolved
      /\ \A i \in 1..k : i = k \/ i \in 1..(k - 1)
  BY <1>1, <1>2, StackWithoutTop
<1>5. /\ finished' \in Seq(Unresolved) /\ DOMAIN finished' = 1..(k - 1)
      /\ \A i \in 1..(k - 1) : i \in 1..k /\ i < k /\ finished'[i] = finished[i]
  <2>1. /\ rest \in Seq(Unresolved) /\ DOMAIN rest = 1..(k - 1)
        /\ \A i \in 1..(k - 1) : i \in 1..k /\ i < k /\ rest[i] = finished[i]
    BY <1>1, <1>2, StackWithoutTop
  <2>2. QED
    BY <1>2, <2>1, Zenon
<1> HIDE DEF k, rest
<1>6. s \in Node
  BY <1>1, <1>4
<1>7. ASSUME NEW A, A \subseteq Unresolved, assigned \subseteq A, ComponentWith(s) \subseteq A,
             \A n \in A : ComponentWith(n) \subseteq A, assigned' = A, cycles' = {n \in A : n \in Behind(graph, n)}
      PROVE  ComponentsInv'
  <2>1. s \in A
    BY <1>1, <1>6, <1>7, OneComponent
  <2>2. ASSUME NEW n \in Unresolved \ A PROVE n \in Black'
    <3>1. n \in Black
      BY <1>7 DEF ComponentsInv
    <3>2. PICK i \in 1..k : n = finished[i]
      BY <1>4, <3>1 DEF Black
    <3>3. i # k
      BY <2>1, <3>2
    <3>4. i \in 1..(k - 1)
      BY <1>4, <3>3
    <3>5. QED
      BY <1>5, <3>2, <3>4 DEF Black
  <2>3. ASSUME NEW n \in Unresolved \ A PROVE ComesLast(n)'
    <3>1. ~Mutual(graph, n, s)
      <4> SUFFICES ASSUME Mutual(graph, n, s) PROVE FALSE
        OBVIOUS
      <4>1. n \in ComponentWith(s)
        BY <1>1 DEF ComponentWith, Mutual
      <4>2. QED
        BY <1>7, <4>1
    <3>2. ComesLast(n)
      BY <1>7 DEF ComponentsInv
    <3>3. ASSUME NEW i \in 1..(k - 1), finished'[i] \in Reach(graph, n)
          PROVE  \/ Mutual(graph, n, finished'[i])
                 \/ \E j \in 1..(k - 1) : i < j /\ Mutual(graph, n, finished'[j])
      <4>1. \/ Mutual(graph, n, finished[i])
            \/ \E j \in 1..k : i < j /\ Mutual(graph, n, finished[j])
        BY <1>4, <1>5, <3>2, <3>3 DEF ComesLast
      <4>2. CASE Mutual(graph, n, finished[i])
        BY <1>5, <4>2
      <4>3. ASSUME NEW j \in 1..k, i < j, Mutual(graph, n, finished[j])
            PROVE  \E l \in 1..(k - 1) : i < l /\ Mutual(graph, n, finished'[l])
        <5>1. j # k
          BY <3>1, <4>3 DEF k
        <5>2. j \in 1..(k - 1)
          BY <1>4, <5>1
        <5>3. QED
          BY <1>5, <4>3, <5>2
      <4>4. QED
        BY <4>1, <4>2, <4>3
    <3>4. QED
      BY <1>2, <1>5, <3>3 DEF ComesLast
  <2>4. QED
    BY <1>2, <1>3, <1>5, <1>7, <2>2, <2>3 DEF ComponentsInv
<1>8. CASE s \in assigned
  <2>1. assigned' = assigned /\ cycles' = cycles
    BY <1>8 DEF NextComponent, k
  <2>2. /\ assigned \subseteq Unresolved /\ ComponentWith(s) \subseteq assigned
        /\ \A n \in assigned : ComponentWith(n) \subseteq assigned
        /\ cycles = {n \in assigned : n \in Behind(graph, n)}
    BY <1>8 DEF ComponentsInv
  <2>3. QED
    BY <1>7, <2>1, <2>2
<1>9. CASE s \notin assigned
  <2> DEFINE C == ComponentWith(s)
             A == assigned \union C
             cyclic == Cardinality(C) > 1 \/ s \in graph[s]
  <2>1. ComponentOf(s) = C
    BY <1>2, <1>9, ComponentIsFound DEF k
  <2>2. assigned' = A /\ cycles' = IF cyclic THEN cycles \union C ELSE cycles
    BY <1>9, <2>1 DEF NextComponent, k
  <2>3. C \subseteq Unresolved
    <3> SUFFICES ASSUME NEW m \in C PROVE m \in Unresolved
      OBVIOUS
    <3>1. m \in Node /\ s \in Reach(graph, m)
      BY DEF ComponentWith, Mutual
    <3>2. QED
      BY <1>4, <3>1, ResolvedReachResolved
  <2>4. \A n \in A : ComponentWith(n) \subseteq A
    BY <1>1, <1>6, OneComponent DEF ComponentsInv
  <2>5. \A n \in C : n \in Behind(graph, n) <=> cyclic
    BY <1>1, <1>6, CyclicComponent
  <2>6. cycles = {n \in assigned : n \in Behind(graph, n)} /\ assigned \subseteq Unresolved
    BY DEF ComponentsInv
  <2> HIDE DEF C, cyclic
  <2>7. cycles' = {n \in A : n \in Behind(graph, n)}
    BY <2>2, <2>5, <2>6
  <2>8. assigned \subseteq A /\ C \subseteq A /\ A \subseteq Unresolved
    BY <2>3, <2>6
  <2> HIDE DEF A
  <2>9. QED
    BY <1>7, <2>2, <2>4, <2>7, <2>8 DEF C
<1>10. QED
  BY <1>8, <1>9

-----------------------------------------------------------------------------
(***************************************************************************)
(* What holds in each stage: nothing is searched while the order is made,  *)
(* the first search and then the second search go on, and nothing is left  *)
(* to look at when all is done.                                            *)
(***************************************************************************)
StageInv ==
  /\ stage \in {"order", "visit"} => assigned = {} /\ cycles = {}
  /\ stage = "order" => visited = {} /\ pending = <<>> /\ finished = <<>>
  /\ stage \in {"visit", "components", "done"} => OrderEnded
  /\ stage = "visit" => SearchInv
  /\ stage \in {"components", "done"} => ComponentsInv
  /\ stage = "done" => finished = <<>>

(* The searches have not begun at the start.                               *)
LEMMA StageInit == ScheduleInit => StageInv
BY DEF ScheduleInit, ScheduleStarts, StageInv

(* Each step keeps what holds in its stage.                                *)
LEMMA StageStep ==
  ScheduleInv /\ ReadyInv /\ SettledInv /\ StageInv /\ [ScheduleNext]_scheduleVars => StageInv'
<1> SUFFICES ASSUME ScheduleInv, ReadyInv, SettledInv, StageInv, [ScheduleNext]_scheduleVars PROVE StageInv'
  OBVIOUS
<1>1. ASSUME UNCHANGED <<graph, remaining, order>>, OrderEnded PROVE OrderEnded'
  BY <1>1 DEF OrderEnded, Unresolved, Ordered
<1>2. ASSUME UNCHANGED <<graph, remaining, finished, assigned, cycles>>, ComponentsInv PROVE ComponentsInv'
  BY <1>2 DEF ComponentsInv, Unresolved, ComponentWith, Black, ComesLast
<1>3. ASSUME UNCHANGED <<graph, remaining, visited, pending, finished>>, SearchInv PROVE SearchInv'
  <2>1. Unresolved' = Unresolved /\ Gray' = Gray /\ Black' = Black
    BY <1>3 DEF Unresolved, Gray, Black
  <2>2. Entry' = Entry
    BY <2>1 DEF Entry
  <2>3. SearchShape' /\ StackIsReached' /\ DependenciesAreMet'
    BY <1>3, <2>1, <2>2 DEF SearchInv, SearchShape, StackIsReached, DependenciesAreMet
  <2>4. \A n \in Black' : (\E g \in Gray' : Mutual(graph', n, g)) \/ ReachedBefore(n)'
    BY <1>3, <2>1 DEF SearchInv, ReachedBefore
  <2>5. QED
    BY <2>3, <2>4 DEF SearchInv
<1>4. CASE CompleteArea
  BY <1>4 DEF CompleteArea, StageInv
<1>5. CASE TakeFormula
  BY <1>5 DEF TakeFormula, StageInv
<1>6. CASE EndOrder
  <2>1. OrderEnded
    BY <1>6, OrderEnds DEF EndOrder
  <2>2. SearchInv
    BY <1>6, SearchBegins DEF EndOrder, StageInv
  <2>3. OrderEnded' /\ SearchInv'
    BY <1>1, <1>3, <1>6, <2>1, <2>2 DEF EndOrder
  <2>4. QED
    BY <1>6, <2>3 DEF EndOrder, StageInv
<1>7. CASE VisitNext
  <2>1. stage = "visit" /\ stage' = "visit" /\ assigned' = assigned /\ cycles' = cycles
    BY <1>7 DEF VisitNext
  <2>2. OrderEnded /\ SearchInv /\ assigned = {} /\ cycles = {}
    BY <2>1 DEF StageInv
  <2>3. OrderEnded'
    BY <1>1, <1>7, <2>2 DEF VisitNext
  <2>4. SearchInv'
    BY <1>7, <2>2, SearchGoesOn
  <2>5. QED
    BY <2>1, <2>2, <2>3, <2>4 DEF StageInv
<1>8. CASE VisitPop
  <2>1. stage = "visit" /\ stage' = "visit" /\ assigned' = assigned /\ cycles' = cycles
    BY <1>8 DEF VisitPop
  <2>2. OrderEnded /\ SearchInv /\ assigned = {} /\ cycles = {}
    BY <2>1 DEF StageInv
  <2>3. OrderEnded'
    BY <1>1, <1>8, <2>2 DEF VisitPop
  <2>4. SearchInv'
    BY <1>8, <2>2, SearchPops
  <2>5. QED
    BY <2>1, <2>2, <2>3, <2>4 DEF StageInv
<1>9. CASE EndVisit
  <2>1. /\ stage' = "components" /\ OrderEnded /\ SearchInv /\ assigned = {} /\ cycles = {}
        /\ pending = <<>> /\ Unresolved \subseteq visited
    BY <1>9 DEF EndVisit, StageInv
  <2>2. ComponentsInv
    BY <2>1, ComponentsBegin
  <2>3. OrderEnded' /\ ComponentsInv'
    BY <1>1, <1>2, <1>9, <2>1, <2>2 DEF EndVisit
  <2>4. QED
    BY <2>1, <2>3 DEF StageInv
<1>10. CASE NextComponent
  <2>1. stage' = "components" /\ OrderEnded /\ ComponentsInv
    BY <1>10 DEF NextComponent, StageInv
  <2>2. OrderEnded'
    BY <1>1, <1>10, <2>1 DEF NextComponent
  <2>3. ComponentsInv'
    BY <1>10, <2>1, ComponentsGoOn
  <2>4. QED
    BY <2>1, <2>2, <2>3 DEF StageInv
<1>11. CASE EndSchedule
  <2>1. stage' = "done" /\ OrderEnded /\ ComponentsInv /\ finished' = <<>>
    BY <1>11 DEF EndSchedule, StageInv
  <2>2. OrderEnded' /\ ComponentsInv'
    BY <1>1, <1>2, <1>11, <2>1 DEF EndSchedule
  <2>3. QED
    BY <2>1, <2>2 DEF StageInv
<1>12. CASE CancelSchedule
  BY <1>12 DEF CancelSchedule, StageInv
<1>13. CASE UNCHANGED scheduleVars
  <2>1. /\ UNCHANGED <<graph, remaining, order, visited, pending, finished, assigned, cycles>>
        /\ UNCHANGED stage
    BY <1>13 DEF scheduleVars
  <2>2. QED
    BY <1>1, <1>2, <1>3, <2>1 DEF StageInv
<1>14. QED
  BY <1>4, <1>5, <1>6, <1>7, <1>8, <1>9, <1>10, <1>11, <1>12, <1>13 DEF ScheduleNext

(* The classes when all is done.                                           *)
LEMMA ClassesAreRight ==
  ASSUME StageInv
  PROVE  FormulasAreClassified
<1> SUFFICES ASSUME stage = "done" PROVE FormulasAreClassified
  BY DEF FormulasAreClassified
<1> DEFINE circular == {f \in FormulaNode : f \in FormulasBehind(f)}
           blocked == {f \in FormulaNode \ circular : FormulasBehind(f) \intersect circular # {}}
<1>1. OrderEnded /\ ComponentsInv /\ finished = <<>>
  BY DEF StageInv
<1>2. graph \in [Node -> SUBSET Node] /\ Unresolved \subseteq Node /\ FormulaNode \subseteq Node
  BY <1>1, NodesAreFinite DEF OrderEnded
<1>3. assigned = Unresolved
  <2>1. Black = {}
    BY <1>1 DEF Black
  <2>2. QED
    BY <1>1, <2>1 DEF ComponentsInv
<1>4. cycles = {n \in Unresolved : n \in Behind(graph, n)}
  BY <1>1, <1>3 DEF ComponentsInv
<1>5. \A f \in FormulaNode : FormulasBehind(f) = Behind(graph, f) \intersect FormulaNode
  BY <1>2, FormulasBehindNode
<1>6. circular = {f \in FormulaNode : f \in Behind(graph, f)}
  BY <1>5
<1>7. \A n \in Node \ Unresolved : n \notin Behind(graph, n)
  BY <1>1, ResolvedAreNotCircular
<1>8. cycles \intersect FormulaNode = circular
  BY <1>2, <1>4, <1>6, <1>7
<1>9. ASSUME NEW f \in FormulaNode, f \in Unresolved PROVE FormulasBehind(f) \intersect circular # {}
  <2>1. PICK g \in FormulaNode : g \in Behind(graph, f) /\ g \in Behind(graph, g)
    BY <1>1, <1>9, UnresolvedReachCycles
  <2>2. g \in circular /\ g \in FormulasBehind(f)
    BY <1>5, <1>6, <2>1
  <2> HIDE DEF circular
  <2>3. QED
    BY <2>2
<1>10. ASSUME NEW f \in FormulaNode, f \notin Unresolved PROVE FormulasBehind(f) \intersect circular = {}
  <2>1. Behind(graph, f) \subseteq Node \ Unresolved
    <3>1. f \in Node \ Unresolved
      BY <1>2, <1>10
    <3>2. QED
      BY <1>1, <1>2, <3>1, ResolvedReachResolved, BehindIsLeast
  <2>2. \A g \in FormulasBehind(f) : g \in Node \ Unresolved
    BY <1>5, <2>1
  <2>3. QED
    BY <1>6, <1>7, <2>2
<1>11. circular \subseteq Unresolved
  BY <1>2, <1>6, <1>7
<1> HIDE DEF circular
<1>12. (Unresolved \intersect FormulaNode) \ cycles = blocked
  BY <1>8, <1>9, <1>10
<1>13. Ordered = FormulaNode \ (circular \union blocked)
  <2>1. Ordered = FormulaNode \ Unresolved
    BY <1>1 DEF OrderEnded
  <2>2. Unresolved \intersect FormulaNode = circular \union blocked
    BY <1>8, <1>11, <1>12
  <2>3. QED
    BY <2>1, <2>2
<1>14. QED
  BY <1>8, <1>12, <1>13 DEF FormulasAreClassified, circular, Ordered

(***************************************************************************)
(* Every formula is ordered, circular or blocked, as it should be, when    *)
(* the schedule is done, for every graph of formulas and areas.            *)
(***************************************************************************)
THEOREM FormulasGetTheirClass == ScheduleSpec => []FormulasAreClassified
<1>1. ScheduleInit => ScheduleInv /\ ReadyInv /\ SettledInv /\ StageInv
  BY InitInv, ReadyInit, SettledInit, StageInit
<1>2. ScheduleInv /\ ReadyInv /\ SettledInv /\ StageInv /\ [ScheduleNext]_scheduleVars
      => ScheduleInv' /\ ReadyInv' /\ SettledInv' /\ StageInv'
  BY ScheduleStep, ReadyStep, SettledStep, StageStep
<1>3. StageInv => FormulasAreClassified
  BY ClassesAreRight
<1>4. QED
  BY <1>1, <1>2, <1>3, PTL DEF ScheduleSpec
=============================================================================
