------------------------- MODULE AtomicTransactions -------------------------
(***************************************************************************)
(* What a session with workbook transactions promises: AtomicSession, and  *)
(* that a committed transaction edits the workbook and installs the        *)
(* calculation of the edited workbook at one moment, with one delta to the *)
(* calculation that was installed before.                                  *)
(***************************************************************************)
EXTENDS AtomicSession

AtomicCommit ==
  /\ nextCursor' = nextCursor + 1
  /\ \E batch \in Batch, o \in Options :
       LET next == ApplyBatch(draft, batch)
           calc == [source |-> next.book, revision |-> next.revision, options |-> o,
                    results |-> FreshResults(next.book, o)]
           delta == [Delta(calculation, calc, Cell) EXCEPT
                       !.base = IF calculation = None THEN draft.revision ELSE calculation.revision]
       IN  /\ draft' = next
           /\ calculation' = calc
           /\ history' = Retain(history, [cursor |-> nextCursor, delta |-> delta], MaxRetained)

TransactionalSpec == AtomicInit /\ [][AtomicNext \/ AtomicCommit]_atomicVars
=============================================================================
