---------------------------- MODULE AtomicSession ----------------------------
(***************************************************************************)
(* What a calculation session promises its clients: an edit batch and a    *)
(* calculation each happen at one moment, a calculation is of the workbook *)
(* of that moment and computes what a calculation from scratch computes,   *)
(* and its delta is exactly the difference to the calculation before.      *)
(* How the session gets there (compiled formulas, dirty cells, jobs that   *)
(* run outside the session) is not visible.                                *)
(***************************************************************************)
EXTENDS Workbook

CONSTANTS Batch, Options, InitialBook, InitialLayout, MaxRetained

VARIABLES draft, calculation, nextCursor, history

atomicVars == <<draft, calculation, nextCursor, history>>

AtomicInit ==
  /\ draft = [book |-> InitialBook, layout |-> InitialLayout, revision |-> 0, presentation |-> 0]
  /\ calculation = None
  /\ nextCursor = 1
  /\ history = <<>>

(* A batch applies to the current draft as a whole.                        *)
AtomicEdit ==
  /\ UNCHANGED <<calculation, nextCursor, history>>
  /\ \E batch \in Batch : draft' = ApplyBatch(draft, batch)

(* A calculation from scratch of the current workbook, and its exact delta. *)
AtomicCalculate ==
  /\ nextCursor' = nextCursor + 1
  /\ UNCHANGED draft
  /\ \E o \in Options :
       LET calc == [source |-> draft.book, revision |-> draft.revision, options |-> o,
                    results |-> FreshResults(draft.book, o)]
           delta == Delta(calculation, calc, Cell)
       IN  /\ calculation' = calc
           /\ history' = Retain(history, [cursor |-> nextCursor, delta |-> delta], MaxRetained)

AtomicNext == AtomicEdit \/ AtomicCalculate

AtomicSpec == AtomicInit /\ [][AtomicNext]_atomicVars
=============================================================================
