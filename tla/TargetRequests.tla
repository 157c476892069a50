--------------------------- MODULE TargetRequests ---------------------------
(***************************************************************************)
(* Requests for the values of some cells of a CalculationSession, which    *)
(* calculate outside the session and change nothing in it: prepare_target_ *)
(* calculation, run, finish_target_calculation.  What the planner computes *)
(* for the targets is the module TargetPlanner's; here it is the result of *)
(* a calculation from scratch, for every cell.                             *)
(***************************************************************************)
EXTENDS CalculationSession

VARIABLE asked  \* the request in flight: what it captured, or NotAsked

NotAsked == [options |-> None]

TargetInit == asked = NotAsked

(* Mutant: an installed calculation is reused whatever its options.        *)
ReusedWithoutOptions(o) == calculation # None /\ calculation.revision = draft.revision

(* The installed calculation answers a request with the options o.         *)
Reused(o) ==
  calculation # None /\ calculation.revision = draft.revision /\ calculation.options = o

PrepareTargets(o) ==
  /\ asked = NotAsked
  /\ asked' = [options |-> o, draft |-> draft, cursor |-> nextCursor,
               previous |-> IF Reused(o) THEN calculation.results ELSE None]
  /\ UNCHANGED vars

(* PreparedTargetCalculation::run reads only what was captured.            *)
TargetValues ==
  IF asked.previous # None THEN asked.previous ELSE FreshResults(asked.draft.book, asked.options)

(* The checks of finish_target_calculation.  The identity of the workbook  *)
(* changes with every batch installed.                                     *)
TargetsCurrent == nextCursor = asked.cursor /\ draft = asked.draft

(* The client gets the values TargetValues.                                *)
FinishTargets ==
  /\ asked # NotAsked
  /\ TargetsCurrent
  /\ asked' = NotAsked
  /\ UNCHANGED vars

(* Cancelled, over a limit or StaleResult: nothing is answered.            *)
DropTargets ==
  /\ asked # NotAsked
  /\ asked' = NotAsked
  /\ UNCHANGED vars

TargetNext == (\E o \in Options : PrepareTargets(o)) \/ FinishTargets \/ DropTargets

TargetSpec == Init /\ TargetInit /\ [][(Next /\ UNCHANGED asked) \/ TargetNext]_<<vars, asked>>

-----------------------------------------------------------------------------
(***************************************************************************)
(* A request answers with the values of the workbook the session holds at  *)
(* that moment, whatever was installed while it ran and whether it reused  *)
(* an installed calculation (prepare_target_calculation, cached, finish_   *)
(* target_calculation).                                                    *)
(***************************************************************************)
AnswersAreCurrent ==
  asked # NotAsked /\ TargetsCurrent => TargetValues = FreshResults(draft.book, asked.options)
=============================================================================
