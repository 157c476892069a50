------------------------- MODULE EvaluationSchedule -------------------------
(***************************************************************************)
(* schedule_cancellable (graph.rs): the order in which the formulas of a   *)
(* dependency graph are evaluated, and which of them are on a cycle or     *)
(* wait for one.  Formulas wait for other formulas and for areas, which    *)
(* hold formulas and smaller areas.  The models of what builds the graph   *)
(* and of what evaluates it are DependencyAreas and Workbook.              *)
(***************************************************************************)
EXTENDS Integers, Sequences, FiniteSets, FiniteSetsExt

CONSTANTS
  FormulaCount,  \* the calculated formulas, in cell order
  AreaCount,     \* the areas, which are numbered after the formulas
  Graphs         \* the dependency graphs: what every formula and area waits for

FormulaNode == 1..FormulaCount

Node == 1..(FormulaCount + AreaCount)

AreaNodes == Node \ FormulaNode

(* A graph may name other formula cells, which are not calculated: 0.  An  *)
(* area holds areas that were added before it.                             *)
ASSUME ScheduleAssumption ==
  /\ FormulaCount \in Nat /\ AreaCount \in Nat
  /\ Graphs \subseteq [Node -> SUBSET (Node \union {0})]
  /\ \A g \in Graphs : \A a \in AreaNodes : \A b \in g[a] \intersect AreaNodes : b < a

VARIABLES
  graph,      \* DenseGraph: what each node waits for
  remaining,  \* how many of those are not complete
  ready,      \* the formulas that wait for nothing any more, a heap
  completed,  \* the areas that just completed, in the stack's order or any other
  order,      \* the formulas in the order of evaluation
  stage,      \* "order", "visit", "components", and how it ended
  visited,    \* the unresolved nodes the first search has met
  pending,    \* its stack: nodes, and whether their dependencies were pushed
  finished,   \* the nodes it is done with
  assigned,   \* the nodes that have got their component
  cycles      \* the nodes on a cycle

scheduleVars == <<graph, remaining, ready, completed, order, stage, visited, pending, finished,
                  assigned, cycles>>

(* DenseGraph::build: nothing waits for a cell that is never calculated.   *)
DenseGraph(g) == [n \in Node |-> g[n] \intersect Node]

ScheduleStarts(g) ==
  /\ graph = DenseGraph(g)
  /\ remaining = [n \in Node |-> Cardinality(graph[n])]
  /\ ready = {f \in FormulaNode : remaining[f] = 0}
  /\ completed = {a \in AreaNodes : remaining[a] = 0}
  /\ order = <<>> /\ stage = "order"
  /\ visited = {} /\ pending = <<>> /\ finished = <<>> /\ assigned = {} /\ cycles = {}

ScheduleInit == \E g \in Graphs : ScheduleStarts(g)

-----------------------------------------------------------------------------
(* Mutant: a dependent is ready once one of its dependencies is complete.  *)
ReadyByAny(n) == {m \in Node : n \in graph[m]}

(* The nodes whose last open dependency is n.                              *)
ReadyBy(n) == {m \in Node : n \in graph[m] /\ remaining[m] = 1}

(* complete: the dependents of n have one dependency less to wait for.     *)
Complete(n, formulas, areas) ==
  /\ remaining' = [m \in Node |-> IF n \in graph[m] THEN remaining[m] - 1 ELSE remaining[m]]
  /\ ready' = formulas \union (ReadyBy(n) \intersect FormulaNode)
  /\ completed' = areas \union (ReadyBy(n) \intersect AreaNodes)

CompleteArea ==
  /\ stage = "order"
  /\ \E a \in completed : Complete(a, ready, completed \ {a})
  /\ UNCHANGED <<graph, order, stage, visited, pending, finished, assigned, cycles>>

(* Mutant: a formula may run before the areas that completed are looked at. *)
MayTakeEarly == ready # {}

MayTake == completed = {} /\ ready # {}

(* The first ready formula in cell order is next.                          *)
TakeFormula ==
  /\ stage = "order" /\ MayTake
  /\ \E f \in ready :
     /\ \A g \in ready : f <= g
     /\ order' = Append(order, f)
     /\ Complete(f, ready \ {f}, completed)
  /\ UNCHANGED <<graph, stage, visited, pending, finished, assigned, cycles>>

EndOrder ==
  /\ stage = "order" /\ completed = {} /\ ready = {}
  /\ stage' = "visit"
  /\ UNCHANGED <<graph, remaining, ready, completed, order, visited, pending, finished, assigned, cycles>>

-----------------------------------------------------------------------------
(* What was never complete: on a cycle, or behind one.                     *)
Unresolved == {n \in Node : remaining[n] > 0}

(* The first search of cycle_members starts again at the first node it has *)
(* not met.                                                                *)
VisitNext ==
  /\ stage = "visit" /\ pending = <<>> /\ Unresolved \ visited # {}
  /\ pending' = <<[node |-> Min(Unresolved \ visited), expanded |-> FALSE]>>
  /\ UNCHANGED <<graph, remaining, ready, completed, order, stage, visited, finished, assigned, cycles>>

(* Dependencies are pushed in reverse, to be popped in order.              *)
LastToFirst(S) ==
  CHOOSE s \in [1..Cardinality(S) -> S] : \A i, j \in DOMAIN s : i < j => s[j] < s[i]

(* It goes along dependencies, depth first, and finishes a node after all  *)
(* it leads to.                                                            *)
VisitPop ==
  LET top == pending[Len(pending)]
      rest == SubSeq(pending, 1, Len(pending) - 1)
      open == (graph[top.node] \intersect Unresolved) \ (visited \union {top.node})
      pushed == [i \in 1..Cardinality(open) |-> [node |-> LastToFirst(open)[i], expanded |-> FALSE]]
      again == ~top.expanded /\ top.node \in visited
  IN  /\ stage = "visit" /\ pending # <<>>
      /\ finished' = IF top.expanded THEN Append(finished, top.node) ELSE finished
      /\ visited' = visited \union {top.node}
      /\ pending' = IF top.expanded \/ again THEN rest
                    ELSE rest \o <<[top EXCEPT !.expanded = TRUE]>> \o pushed
      /\ UNCHANGED <<graph, remaining, ready, completed, order, stage, assigned, cycles>>

EndVisit ==
  /\ stage = "visit" /\ pending = <<>> /\ Unresolved \subseteq visited
  /\ stage' = "components"
  /\ UNCHANGED <<graph, remaining, ready, completed, order, visited, pending, finished, assigned, cycles>>

(* Mutant: nodes that have their component are met again.                  *)
AssignedAgain(n) ==
  {m \in Unresolved : \A U \in SUBSET Node :
     (n \in U /\ \A u \in U, d \in Unresolved : u \in graph[d] => d \in U) => m \in U}

(* The second search goes along dependents: the nodes of no component yet  *)
(* that it meets from n are the component of n.                            *)
ComponentOf(n) ==
  LET free == Unresolved \ assigned IN
  {m \in free : \A U \in SUBSET Node :
     (n \in U /\ \A u \in U, d \in free : u \in graph[d] => d \in U) => m \in U}

(* Components are found from the last finished node back.                  *)
NextComponent ==
  LET start == finished[Len(finished)]
      component == ComponentOf(start)
      cyclic == Cardinality(component) > 1 \/ start \in graph[start]
  IN  /\ stage = "components" /\ finished # <<>>
      /\ finished' = SubSeq(finished, 1, Len(finished) - 1)
      /\ assigned' = IF start \in assigned THEN assigned ELSE assigned \union component
      /\ cycles' = IF start \notin assigned /\ cyclic THEN cycles \union component ELSE cycles
      /\ UNCHANGED <<graph, remaining, ready, completed, order, stage, visited, pending>>

EndSchedule ==
  /\ stage = "components" /\ finished = <<>>
  /\ stage' = "done"
  /\ UNCHANGED <<graph, remaining, ready, completed, order, visited, pending, finished, assigned, cycles>>

(* Every loop asks whether the calculation was cancelled.                  *)
CancelSchedule ==
  /\ stage \notin {"done", "cancelled"}
  /\ stage' = "cancelled"
  /\ UNCHANGED <<graph, remaining, ready, completed, order, visited, pending, finished, assigned, cycles>>

ScheduleNext ==
  \/ CompleteArea \/ TakeFormula \/ EndOrder
  \/ VisitNext \/ VisitPop \/ EndVisit
  \/ NextComponent \/ EndSchedule \/ CancelSchedule

ScheduleSpec == ScheduleInit /\ [][ScheduleNext]_scheduleVars

-----------------------------------------------------------------------------
(* The formulas that n waits for, directly or through areas: those in all  *)
(* the sets that hold what n waits for and, with an area, what it holds.   *)
FormulasAwaited(n) ==
  {f \in FormulaNode : \A U \in SUBSET Node :
     (graph[n] \subseteq U /\ \A a \in U \intersect AreaNodes : graph[a] \subseteq U) => f \in U}

(***************************************************************************)
(* Every formula comes after all the formulas it waits for, directly or    *)
(* through areas: none is evaluated from results that are still missing    *)
(* ("Orders formulas so each follows everything it waits for").            *)
(***************************************************************************)
OrderFollowsWaits ==
  \A i \in DOMAIN order : FormulasAwaited(order[i]) \subseteq {order[j] : j \in 1..(i - 1)}

(***************************************************************************)
(* The next formula is the first one in cell order of those whose awaited  *)
(* formulas are all ordered, whatever areas they wait through: "a formula  *)
(* becomes ready at the same step as if it waited for every cell of its    *)
(* areas directly", so the order does not depend on how areas were built.  *)
(***************************************************************************)
OrderIgnoresAreas ==
  [][order' # order =>
       LET before == {order[i] : i \in DOMAIN order} IN
       order'[Len(order')] = Min({f \in FormulaNode \ before : FormulasAwaited(f) \subseteq before})]_scheduleVars

(* The formulas reached from n by waiting, n itself only around a cycle.   *)
FormulasBehind(n) ==
  {f \in FormulaNode : \A U \in SUBSET Node :
     (graph[n] \subseteq U /\ \A u \in U : graph[u] \subseteq U) => f \in U}

(***************************************************************************)
(* When it is done, every formula is ordered, circular (it waits for       *)
(* itself, through other formulas and areas or not) or blocked (it waits   *)
(* for a circular one), and only one of them.                              *)
(***************************************************************************)
FormulasAreClassified ==
  LET circular == {f \in FormulaNode : f \in FormulasBehind(f)}
      blocked == {f \in FormulaNode \ circular : FormulasBehind(f) \intersect circular # {}}
  IN  stage = "done" =>
        /\ {order[i] : i \in DOMAIN order} = FormulaNode \ (circular \union blocked)
        /\ cycles \intersect FormulaNode = circular
        /\ (Unresolved \intersect FormulaNode) \ cycles = blocked
=============================================================================
