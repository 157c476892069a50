--------------------------- MODULE TargetPlanner ---------------------------
(***************************************************************************)
(* Engine::calculate_targets (eval/targeted.rs): the calculation of some   *)
(* requested cells and of what they need, and no other formula.  A search  *)
(* from each target goes along dependencies, depth first, and evaluates a  *)
(* formula once all it waits for is done.  References may depend on values *)
(* (INDIRECT), so a formula can turn out to need more before it is         *)
(* evaluated or even while it is.  Formulas here fill no cells but their   *)
(* own: with undeclared spills the code goes through the targets twice.    *)
(***************************************************************************)
EXTENDS Integers, Sequences, FiniteSets, SequencesExt

CONSTANTS
  FormulaCells,  \* the formula cells, as numbers in cell order
  Requests       \* the requests

(***************************************************************************)
(* A workbook: the formulas a formula refers to (reads), those it refers   *)
(* to as well once another has a value (later: pairs of the selecting      *)
(* formula and the one selected), and those only its evaluation shows to   *)
(* be read (hidden).  A selecting formula is one of reads.                 *)
(***************************************************************************)
Workbooks == [reads  : [FormulaCells -> SUBSET FormulaCells],
              later  : [FormulaCells -> SUBSET (FormulaCells \X FormulaCells)],
              hidden : [FormulaCells -> SUBSET FormulaCells]]

(* The cells asked for, TargetCalculationLimits::max_evaluated_cells and    *)
(* CalculationLimits::max_dependency_edges.                                *)
Request == [workbook : Workbooks, targets : SUBSET FormulaCells, maxCells : Nat, maxReads : Nat]

ASSUME PlannerAssumption ==
  /\ FormulaCells \subseteq Nat /\ IsFiniteSet(FormulaCells)
  /\ \A r \in Requests :
       /\ r \in Request
       /\ \A f \in FormulaCells : \A p \in r.workbook.later[f] : p[1] \in r.workbook.reads[f]

VARIABLES
  request,    \* the request
  targets,    \* the targets still to go through
  stack,      \* the frames of the search: a cell, its dependencies, and the next one
  loaded,     \* the formulas parsed
  done,       \* the formulas the search has left
  recorded,   \* the dependencies of the loaded formulas (engine.dependencies)
  readCount,  \* the recorded dependencies counted (edges)
  attempts,   \* the evaluations
  results,    \* the formulas with a value
  limited,    \* the formulas over a limit, which have an error as their value
  circular,   \* cycle_cells
  blocked,    \* blocked_cells
  ended       \* "no", or how the request ended

plannerVars == <<request, targets, stack, loaded, done, recorded, readCount, attempts, results,
                 limited, circular, blocked, ended>>

PlannerStarts(r) ==
  /\ request = r
  /\ targets = SetToSortSeq(request.targets, <)
  /\ stack = <<>> /\ loaded = {} /\ done = {}
  /\ recorded = [f \in FormulaCells |-> {}]
  /\ readCount = 0 /\ attempts = 0
  /\ results = {} /\ limited = {} /\ circular = {} /\ blocked = {}
  /\ ended = "no"

PlannerInit == \E r \in Requests : PlannerStarts(r)

-----------------------------------------------------------------------------
(* What the references of f reach with the values there are.               *)
Reached(f) ==
  request.workbook.reads[f] \union {p[2] : p \in {q \in request.workbook.later[f] : q[1] \in results}}

(* Planner::dependencies: what f reaches, and what it was found to read.   *)
Found(f) == recorded[f] \union Reached(f)

(* The dependencies counted with those of f, and whether they are too many. *)
CountWith(f) == readCount - Cardinality(recorded[f]) + Cardinality(Found(f))

OverLimit(f) == CountWith(f) > request.maxReads

Recorded(f) == IF OverLimit(f) THEN {} ELSE Found(f)

RecordDependencies(f) ==
  /\ recorded' = [recorded EXCEPT ![f] = Recorded(f)]
  /\ readCount' = IF OverLimit(f) THEN readCount ELSE CountWith(f)
  /\ limited' = IF OverLimit(f) THEN limited \union {f} ELSE limited

(* Planner::prepare: f is loaded, and its frame goes onto the stack above. *)
Prepare(f, frames) ==
  IF Cardinality(loaded \union {f}) > request.maxCells
  THEN /\ loaded' = loaded \union {f} /\ ended' = "limit"
       /\ UNCHANGED <<stack, recorded, readCount, limited>>
  ELSE /\ loaded' = loaded \union {f}
       /\ RecordDependencies(f)
       /\ stack' = Append(frames, [cell |-> f, dependencies |-> SetToSortSeq(Recorded(f), <), next |-> 1])
       /\ UNCHANGED ended

(* The search starts at the next target, unless it was there.              *)
StartTarget ==
  /\ ended = "no" /\ stack = <<>> /\ targets # <<>>
  /\ targets' = Tail(targets)
  /\ IF Head(targets) \in done
     THEN UNCHANGED <<stack, loaded, recorded, readCount, limited, ended>>
     ELSE Prepare(Head(targets), <<>>)
  /\ UNCHANGED <<request, done, attempts, results, circular, blocked>>

-----------------------------------------------------------------------------
Frame == Last(stack)

Known == {Frame.dependencies[i] : i \in DOMAIN Frame.dependencies}

(* The cells on the stack from d on: the cycle d closes.                   *)
CycleThrough(d) ==
  LET start == CHOOSE i \in DOMAIN stack : stack[i].cell = d IN
  {stack[i].cell : i \in start..Len(stack)}

(* The next dependency: on the stack it closes a cycle; else the search    *)
(* goes there, unless it was there.                                        *)
FollowDependency ==
  /\ ended = "no" /\ stack # <<>> /\ Frame.next <= Len(Frame.dependencies)
  /\ LET d == Frame.dependencies[Frame.next]
         frames == Front(stack) \o <<[Frame EXCEPT !.next = @ + 1]>>
     IN  \/ /\ \E i \in DOMAIN stack : stack[i].cell = d
            /\ circular' = circular \union CycleThrough(d)
            /\ stack' = frames
            /\ UNCHANGED <<loaded, recorded, readCount, limited, ended>>
         \/ /\ \A i \in DOMAIN stack : stack[i].cell # d
            /\ d \in done
            /\ stack' = frames
            /\ UNCHANGED <<circular, loaded, recorded, readCount, limited, ended>>
         \/ /\ \A i \in DOMAIN stack : stack[i].cell # d
            /\ d \notin done
            /\ Prepare(d, frames)
            /\ UNCHANGED circular
  /\ UNCHANGED <<request, targets, done, attempts, results, blocked>>

(* The search leaves the cell of the frame.                                *)
Leave ==
  /\ done' = done \union {Frame.cell}
  /\ stack' = Front(stack)

AtEnd == ended = "no" /\ stack # <<>> /\ Frame.next > Len(Frame.dependencies)

MoreDependencies(cells) ==
  stack' = [stack EXCEPT ![Len(stack)].dependencies = @ \o SetToSortSeq(cells, <)]

(* A formula on a cycle or over the limit is not evaluated.                *)
LeaveUnevaluated ==
  /\ AtEnd /\ Frame.cell \in circular \union limited
  /\ Leave
  /\ UNCHANGED <<request, targets, loaded, recorded, readCount, attempts, results, limited, circular,
                 blocked, ended>>

(* Its references are resolved again with the values there are now; they   *)
(* may reach more, or so much more that the formula is over the limit.     *)
Refresh ==
  LET f == Frame.cell
      added == Recorded(f) \ Known
  IN  /\ AtEnd /\ f \notin circular \union limited
      /\ RecordDependencies(f)
      /\ \/ added # {} /\ MoreDependencies(added) /\ UNCHANGED done
         \/ added = {} /\ OverLimit(f) /\ Leave
      /\ UNCHANGED <<request, targets, loaded, attempts, results, circular, blocked, ended>>

Refreshed == /\ AtEnd /\ Frame.cell \notin circular \union limited
             /\ ~OverLimit(Frame.cell) /\ Found(Frame.cell) \subseteq Known

BlockedByKnown == Known \intersect (circular \union blocked) # {}

Block ==
  /\ Refreshed /\ BlockedByKnown
  /\ RecordDependencies(Frame.cell)
  /\ blocked' = blocked \union {Frame.cell}
  /\ Leave
  /\ UNCHANGED <<request, targets, loaded, attempts, results, circular, ended>>

(* What an evaluation of f reads.                                          *)
ReadByEvaluation(f) == Reached(f) \union request.workbook.hidden[f]

(* Mutant: an evaluation takes a missing value for an error.               *)
NothingPending(f) == {}

(* target_pending: the formulas it reads that have neither a value nor a   *)
(* reason not to have one.                                                 *)
Pending(f) == ReadByEvaluation(f) \ (results \union limited \union circular \union blocked)

(* evaluate_one, after which f has its value, or needs more and waits for  *)
(* that.  An evaluation that needs too much more puts f over the limit.    *)
Evaluate ==
  LET f == Frame.cell
      added == Pending(f) \ Known
  IN  /\ Refreshed /\ ~BlockedByKnown /\ attempts < request.maxCells
      /\ attempts' = attempts + 1
      /\ \/ /\ added = {}
            /\ RecordDependencies(f)
            /\ results' = IF Pending(f) = {} THEN results \union {f} ELSE results
            /\ Leave
         \/ /\ added # {} /\ CountWith(f) + Cardinality(added) > request.maxReads
            /\ recorded' = [recorded EXCEPT ![f] = Found(f)]
            /\ readCount' = CountWith(f) + Cardinality(added)
            /\ limited' = limited \union {f}
            /\ Leave
            /\ UNCHANGED results
         \/ /\ added # {} /\ CountWith(f) + Cardinality(added) <= request.maxReads
            /\ recorded' = [recorded EXCEPT ![f] = Known \union added]
            /\ readCount' = CountWith(f) + Cardinality(added)
            /\ MoreDependencies(added)
            /\ UNCHANGED <<results, limited, done>>
      /\ UNCHANGED <<request, targets, loaded, circular, blocked, ended>>

EvaluationLimit ==
  /\ Refreshed /\ ~BlockedByKnown /\ attempts >= request.maxCells
  /\ ended' = "limit"
  /\ UNCHANGED <<request, targets, stack, loaded, done, recorded, readCount, attempts, results,
                 limited, circular, blocked>>

-----------------------------------------------------------------------------
(* The formulas reached from f along the dependencies in deps.             *)
ReachedAlong(deps, f) ==
  {g \in FormulaCells : \A U \in SUBSET FormulaCells :
     (deps[f] \subseteq U /\ \A u \in U : deps[u] \subseteq U) => g \in U}

CircularIn(deps) == {f \in FormulaCells : f \in ReachedAlong(deps, f)}

BlockedIn(deps) ==
  {f \in FormulaCells \ CircularIn(deps) : ReachedAlong(deps, f) \intersect CircularIn(deps) # {}}

(* Mutant: the formulas stay classified as the search left them.           *)
AsSearched == UNCHANGED <<circular, blocked>>

(* schedule_cancellable classifies the formulas once more, by all that is  *)
(* recorded: the search does not see cycles through formulas it had left.  *)
Classify == circular' = CircularIn(recorded) /\ blocked' = BlockedIn(recorded)

EndPlan ==
  /\ ended = "no" /\ stack = <<>> /\ targets = <<>>
  /\ Classify
  /\ ended' = "results"
  /\ UNCHANGED <<request, targets, stack, loaded, done, recorded, readCount, attempts, results, limited>>

CancelPlan ==
  /\ ended = "no"
  /\ ended' = "cancelled"
  /\ UNCHANGED <<request, targets, stack, loaded, done, recorded, readCount, attempts, results,
                 limited, circular, blocked>>

PlannerNext ==
  \/ StartTarget \/ FollowDependency \/ LeaveUnevaluated \/ Refresh \/ Block \/ Evaluate
  \/ EvaluationLimit \/ EndPlan \/ CancelPlan

PlannerSpec == PlannerInit /\ [][PlannerNext]_plannerVars

-----------------------------------------------------------------------------
(***************************************************************************)
(* A full calculation: the formulas with a value are those that wait only  *)
(* for formulas with one, and selected formulas count once their selector  *)
(* has its value.                                                          *)
(***************************************************************************)
Evaluable ==
  LET w == request.workbook
      waits(f) == w.reads[f] \union {p[2] : p \in w.later[f]}
      after[n \in 0..Cardinality(FormulaCells)] ==
        IF n = 0 THEN {} ELSE {f \in FormulaCells : waits(f) \subseteq after[n - 1]}
  IN  after[Cardinality(FormulaCells)]

FullDependencies ==
  LET w == request.workbook
      valued == Evaluable
  IN  [f \in FormulaCells |->
         w.reads[f] \union {p[2] : p \in {q \in w.later[f] : q[1] \in valued}}]

NothingHidden == \A f \in FormulaCells : request.workbook.hidden[f] = {}

NothingSelected == \A f \in FormulaCells : request.workbook.later[f] = {}

(***************************************************************************)
(* Unless a limit stepped in, a request answers for every target what a    *)
(* full calculation would: a value, a circular reference, or blocked by    *)
(* one.  The order of the search, and which targets it began with, do not  *)
(* show ("cycles_with_cross_edges_classify_all_members_and_consumers_like_ *)
(* full", tests/targeted_calculation.rs).  Formulas whose reads show only  *)
(* when they are evaluated are left out: a full calculation classifies     *)
(* nothing by such reads.  Where a formula on a cycle selects others by a  *)
(* value, the search, which does not resolve that formula again, may       *)
(* answer blocked for circular.                                            *)
(***************************************************************************)
TargetsAgreeWithFullCalculation ==
  (ended = "results" /\ limited = {} /\ NothingHidden) =>
    LET onCycle == CircularIn(FullDependencies) IN
    \A t \in request.targets :
      /\ t \in results \ (circular \union blocked) <=> t \in Evaluable
      /\ t \in circular => t \in onCycle
      /\ NothingSelected => (t \in circular <=> t \in onCycle)
      /\ t \in circular \union blocked <=> t \in onCycle \union BlockedIn(FullDependencies)

(***************************************************************************)
(* A formula gets its value only after all the formulas it reads have      *)
(* theirs or are known to have none: evaluate_one stores nothing while it  *)
(* read a formula the search has not come to.                              *)
(***************************************************************************)
InputsComeFirst ==
  \A f \in results : ReadByEvaluation(f) \subseteq results \union limited \union circular \union blocked
=============================================================================
