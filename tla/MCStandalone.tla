---------------------------- MODULE MCStandalone ----------------------------
(***************************************************************************)
(* The components that need no other: each on its own, chosen by the       *)
(* initial state, while the others stay in a small initial state.          *)
(***************************************************************************)
EXTENDS MCAtomicSave, MCSheetGrid, MCDependencyAreas, MCEvaluationSchedule, MCTargetPlanner

VARIABLE subject  \* the component that runs

SaveRests == SaveStarts([links |-> TRUE, unix |-> TRUE, replacing |-> {w1}, exists |-> FALSE])

GridRests == GridStarts([cells |-> <<>>, merged |-> {}, rules |-> {}])

AreasRest == AreasStart([names |-> <<"A", "B">>, formulas |-> <<>>])

ScheduleRests == ScheduleStarts([n \in 1 .. FormulaCount + AreaCount |-> {}])

PlannerRests ==
  PlannerStarts([workbook |-> [reads |-> NoPairs, later |-> NoPairs, hidden |-> NoPairs],
                 targets |-> {}, maxCells |-> 1, maxReads |-> 1])

StandaloneInit ==
  \/ subject = "save" /\ SaveInit /\ GridRests /\ AreasRest /\ ScheduleRests /\ PlannerRests
  \/ subject = "grid" /\ SaveRests /\ GridInit /\ AreasRest /\ ScheduleRests /\ PlannerRests
  \/ subject = "areas" /\ SaveRests /\ GridRests /\ AreaInit /\ ScheduleRests /\ PlannerRests
  \/ subject = "schedule" /\ SaveRests /\ GridRests /\ AreasRest /\ ScheduleInit /\ PlannerRests
  \/ subject = "planner" /\ SaveRests /\ GridRests /\ AreasRest /\ ScheduleRests /\ PlannerInit

standaloneVars == <<saveVars, gridVars, areaVars, scheduleVars, plannerVars, subject>>

StandaloneNext ==
  /\ \/ /\ subject = "save" /\ SaveNext
        /\ UNCHANGED <<gridVars, areaVars, scheduleVars, plannerVars>>
     \/ /\ subject = "grid" /\ GridNext
        /\ UNCHANGED <<saveVars, areaVars, scheduleVars, plannerVars>>
     \/ /\ subject = "areas" /\ AreaNext
        /\ UNCHANGED <<saveVars, gridVars, scheduleVars, plannerVars>>
     \/ /\ subject = "schedule" /\ ScheduleNext
        /\ UNCHANGED <<saveVars, gridVars, areaVars, plannerVars>>
     \/ /\ subject = "planner" /\ PlannerNext
        /\ UNCHANGED <<saveVars, gridVars, areaVars, scheduleVars>>
  /\ UNCHANGED subject

StandaloneSpec == StandaloneInit /\ [][StandaloneNext]_standaloneVars

(***************************************************************************)
(* A Save As call that has yet to move its document still has its          *)
(* temporary file (write_bytes_to_path), a sheet has its cells, merged     *)
(* ranges and validations within its bounds (apply_grid_edit), and the     *)
(* rest of their state has its type.                                       *)
(***************************************************************************)
StandaloneTypeOK == SaveTypeOK /\ GridTypeOK
=============================================================================
