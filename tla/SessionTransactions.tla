------------------------- MODULE SessionTransactions -------------------------
(***************************************************************************)
(* Workbook transactions on a CalculationSession.                          *)
(*                                                                         *)
(* A transaction calculates a base (the workbook before its edit batch)    *)
(* and a candidate (the workbook after it) outside the session, reports    *)
(* what the batch would change, and installs edit and calculation together *)
(* if the session is still the one that was captured.  Edits, calculations *)
(* and other transactions interleave with it.                              *)
(***************************************************************************)
EXTENDS CalculationSession

CONSTANT Transaction  \* the transactions in flight at any time: a bound

VARIABLE transactions  \* the prepared and the completed transactions

transactionVars == <<vars, transactions>>

Absent == [state |-> "absent"]

TransactionInit ==
  /\ Init
  /\ transactions = [t \in Transaction |-> Absent]

-----------------------------------------------------------------------------
(* prepare_transaction: captures the session and the edited draft.         *)
PrepareTransaction(t, batch, mode, o) ==
  LET next == ApplyBatch(draft, batch) IN
  /\ transactions[t] = Absent
  /\ next.revision <= MaxRevision /\ next.presentation <= MaxPresentation
  /\ nextCursor < MaxCursor
  /\ transactions' = [transactions EXCEPT ![t] =
       [state |-> "prepared", base |-> Live, batch |-> batch, draft |-> next,
        mode |-> mode, options |-> o]]
  /\ UNCHANGED vars

(* base_calculation_reused: the captured calculation is of the captured    *)
(* workbook and of the requested options.                                  *)
BaseReused(s, o) ==
  /\ s.calculation # None /\ s.compiled # None
  /\ s.calculation.revision = s.draft.revision
  /\ s.calculation.source = s.draft.book
  /\ s.calculation.options = o

(* The base: what the session had, or an Auto calculation of what it had.  *)
BaseExecution(s, o, takes, follows) ==
  IF BaseReused(s, o)
  THEN [scope |-> {}, compiled |-> s.compiled, results |-> s.calculation.results, failed |-> FALSE]
  ELSE Execute(s.draft.book, s.compiled, s.calculation, PlanCalculation(s, "Auto", o), o,
               takes, follows)

BasePlanEdits(s, o) ==
  IF BaseReused(s, o) THEN {TRUE} ELSE TakesEdits(PlanCalculation(s, "Auto", o))

ReadsChangedFormats(k, before, after) ==
  after.format # before.format /\ ReadersOf(k, FormatReader) # {}

(* conservative_impact: the batch may reach formulas the compiled          *)
(* references do not lead to.                                              *)
ConservativeImpact(cw, before, after) ==
  \/ TopologyOrMetadata(before, after)
  \/ /\ ~IncrementalSafe(cw)
     /\ ChangedCells(before, after) # {} \/ ReadsChangedFormats(cw.formulas, before, after)

(* Mutant: the readers of a changed number format are left out.            *)
ImpactWithoutFormats(cw, before, after) ==
  IF ConservativeImpact(cw, before, after)
  THEN {c \in Cell : after.content[c] \in Formula}
  ELSE Affected(cw.formulas, ChangedCells(before, after))

(* The formulas reported as affected: all of the candidate, or the exact   *)
(* direct and transitive ones.                                             *)
Impact(cw, before, after) ==
  IF ConservativeImpact(cw, before, after)
  THEN {c \in Cell : after.content[c] \in Formula}
  ELSE Affected(cw.formulas, ChangedCells(before, after))
         \union (IF ReadsChangedFormats(cw.formulas, before, after)
                 THEN Dependents(cw.formulas, ReadersOf(cw.formulas, FormatReader)) ELSE {})

(* The session the candidate is calculated in: calculated as the base is,  *)
(* then edited.                                                            *)
CandidateSession(s, next, cw, calc) ==
  LET before == s.draft.book
      after  == next.book
  IN  [draft        |-> next,
       compiled     |-> cw,
       calculation  |-> calc,
       dirty        |-> Impact(cw, before, after),
       formulaEdits |-> {},
       pending      |-> ChangedCells(before, after) # {} \/ ReadsChangedFormats(cw.formulas, before, after),
       rebuild      |-> TopologyOrMetadata(before, after),
       cursor       |-> s.cursor]

CalculationOf(d, o, out) ==
  [source |-> d.book, revision |-> d.revision, options |-> o, results |-> out.results]

EvaluatedCount(out) ==
  LET k == out.compiled.formulas IN
  Cardinality((out.scope \intersect FormulaCells(k)) \ Unevaluated(k))

(* Mutant: the delta to install is taken against the base of the preview.  *)
DeltaFromBase(s, base, calc) == Delta(base, calc, Cell)

(* The delta that joins the history: to the calculation the session has,   *)
(* which may be older than the base or of other options.                   *)
InstallDelta(s, base, calc) ==
  [Delta(s.calculation, calc, Cell) EXCEPT
     !.base = IF s.calculation = None THEN s.draft.revision ELSE s.calculation.revision]

(* What is left of a transaction that ran: nothing if the mode is refused  *)
(* or a limit on evaluations or deltas is passed; the limits count the     *)
(* work of both calculations and the cells of both deltas.                 *)
RunOutcome(tx, base, cs, plan, out, calc, preview, delta) ==
  IF \/ base.failed
     \/ Refused(cs, tx.mode, tx.options)
     \/ EvaluatedCount(base) + Cardinality(plan.dirty) > MaxEvaluated
     \/ out.failed
     \/ EvaluatedCount(base) + EvaluatedCount(out) > MaxEvaluated
     \/ DeltaSize(preview) + DeltaSize(delta) > MaxDeltaCells
  THEN Absent
  ELSE [state |-> "completed", base |-> tx.base, batch |-> tx.batch, draft |-> tx.draft,
        compiled |-> out.compiled, calculation |-> calc, preview |-> preview,
        delta |-> delta, impact |-> cs.dirty]

(***************************************************************************)
(* PreparedWorkbookTransaction::run: calculates the base and the candidate *)
(* and compares them.                                                      *)
(***************************************************************************)
RunTransaction(t) ==
  LET tx == transactions[t]
      s  == tx.base
      o  == tx.options
  IN
  /\ tx.state = "prepared"
  /\ \E takes \in BasePlanEdits(s, o), follows \in GraphFollows(s.draft.book),
        candidateFollows \in GraphFollows(tx.draft.book) :
     \E base \in {BaseExecution(s, o, takes, follows)} :
     \E baseCalc \in {CalculationOf(s.draft, o, base)} :
     \E cs \in {CandidateSession(s, tx.draft, base.compiled, baseCalc)} :
     \E plan \in {PlanCalculation(cs, tx.mode, o)} :
     \E candidateTakes \in TakesEdits(plan) :
     \E out \in {Execute(tx.draft.book, cs.compiled, baseCalc, plan, o, candidateTakes,
                         candidateFollows)} :
     \E calc \in {CalculationOf(tx.draft, o, out)} :
     \E preview \in {Delta(baseCalc, calc, Cell)}, delta \in {InstallDelta(s, baseCalc, calc)} :
       transactions' = [transactions EXCEPT ![t] =
                          RunOutcome(tx, base, cs, plan, out, calc, preview, delta)]
  /\ UNCHANGED vars

(* A run that is cancelled, or that passes the limit on parsed formulas,   *)
(* iterations, references or details.                                      *)
FailTransaction(t) ==
  /\ transactions[t].state = "prepared"
  /\ transactions' = [transactions EXCEPT ![t] = Absent]
  /\ UNCHANGED vars

(***************************************************************************)
(* The checks of validate_transaction.  The identities of the calculation  *)
(* and of the compiled workbook, which the code also compares, change only *)
(* with the cursor.                                                        *)
(***************************************************************************)
TransactionCurrent(tx) ==
  /\ draft.revision = tx.base.draft.revision
  /\ draft.presentation = tx.base.draft.presentation
  /\ nextCursor = tx.base.cursor
  /\ draft.book = tx.base.draft.book
  /\ calculation = tx.base.calculation
  /\ compiled = tx.base.compiled

(* install_transaction: the candidate becomes the session.  Cancelled      *)
(* before this step it stays as it is.                                     *)
InstallTransaction(t) ==
  LET tx == transactions[t] IN
  /\ tx.state = "completed"
  /\ TransactionCurrent(tx)
  /\ draft' = tx.draft
  /\ compiled' = tx.compiled
  /\ calculation' = tx.calculation
  /\ dirty' = {}
  /\ formulaEdits' = {}
  /\ pending' = FALSE
  /\ rebuild' = FALSE
  /\ nextCursor' = tx.base.cursor + 1
  /\ history' = Retain(history, [cursor |-> tx.base.cursor, delta |-> tx.delta], MaxRetained)
  /\ transactions' = [transactions EXCEPT ![t] = Absent]
  /\ UNCHANGED jobs

(* mark_stale, found by validate_transaction or install_transaction.       *)
StaleTransaction(t) ==
  /\ transactions[t].state = "completed"
  /\ ~TransactionCurrent(transactions[t])
  /\ transactions' = [transactions EXCEPT ![t] = Absent]
  /\ UNCHANGED vars

(* discard.                                                                *)
DiscardTransaction(t) ==
  /\ transactions[t].state = "completed"
  /\ transactions' = [transactions EXCEPT ![t] = Absent]
  /\ UNCHANGED vars

-----------------------------------------------------------------------------
TransactionNext ==
  \/ Next /\ UNCHANGED transactions
  \/ \E t \in Transaction :
       \/ \E batch \in Batch, mode \in Modes, o \in Options : PrepareTransaction(t, batch, mode, o)
       \/ RunTransaction(t)
       \/ FailTransaction(t)
       \/ InstallTransaction(t)
       \/ StaleTransaction(t)
       \/ DiscardTransaction(t)

TransactionSpec == TransactionInit /\ [][TransactionNext]_transactionVars

-----------------------------------------------------------------------------
(***************************************************************************)
(* The session with transactions implements AtomicTransactions: a commit   *)
(* is one edit and one calculation from scratch of the edited workbook at  *)
(* the moment of the commit, whatever the base was calculated from and     *)
(* whatever was installed while the transaction ran; the delta it installs *)
(* is exact with respect to the calculation clients had before, not to the *)
(* base of the preview (install_transaction).                              *)
(***************************************************************************)
Transactional == INSTANCE AtomicTransactions WITH
  draft <- draft, calculation <- calculation, nextCursor <- nextCursor, history <- history

ImplementsAtomicTransactions == Transactional!TransactionalSpec

(* The preview of a completed transaction is the difference between two    *)
(* calculations from scratch, and its impact names every formula in it.    *)
ExactPreview(tx) ==
  LET o == tx.calculation.options
      before == FreshResults(tx.base.draft.book, o)
      after == FreshResults(tx.draft.book, o)
  IN  /\ \A c \in Cell : tx.preview.changed[c] = IF after[c] = before[c] THEN None ELSE after[c]
      /\ tx.preview.removed = {c \in Cell : after[c] = None /\ before[c] # None}
      /\ \A c \in Cell : tx.preview.changed[c] # None => c \in tx.impact

(***************************************************************************)
(* A completed transaction reports what its batch changes: its preview is  *)
(* the difference between calculations from scratch of the workbook before *)
(* and after the batch, with the same options, and every formula with      *)
(* another result is listed as affected (run_inner).                       *)
(***************************************************************************)
PreviewIsExact ==
  \A t \in Transaction : transactions[t].state = "completed" => ExactPreview(transactions[t])
=============================================================================
