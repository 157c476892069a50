-------------------------- MODULE TransactionProofs --------------------------
(***************************************************************************)
(* Workbook transactions, beside the edits and calculations of a session.  *)
(* As for the session, for every set of cells, formulas, batches, jobs and *)
(* transactions in flight, provided that no reference depends on the       *)
(* options (LocaleDynamic = {}).                                           *)
(***************************************************************************)
EXTENDS CalculationSessionProofs, SessionTransactions

-----------------------------------------------------------------------------
(* Drafts only grow: a draft with the revisions of an earlier one is it.   *)
Grows(d, e) ==
  /\ d.revision <= e.revision
  /\ d.presentation <= e.presentation
  /\ d.revision = e.revision /\ d.presentation = e.presentation => d = e

(* What a transaction holds until it runs.                                 *)
PreparedOK(tx) ==
  /\ Consistent(tx.base)
  /\ tx.mode \in Modes
  /\ tx.options \in Options

(* What a run leaves: the edited workbook calculated from scratch, the     *)
(* delta to the captured calculation, and an exact preview.                *)
CompletedOK(tx) ==
  LET o == tx.calculation.options IN
  /\ o \in Options
  /\ tx.calculation = [source |-> tx.draft.book, revision |-> tx.draft.revision, options |-> o,
                       results |-> FreshResults(tx.draft.book, o)]
  /\ tx.compiled \in CompiledWorkbook
  /\ tx.compiled.formulas = CompileAll(tx.draft.book, o)
  /\ tx.delta = InstallDelta(tx.base, None, tx.calculation)
  /\ ExactPreview(tx)

TransactionOK(tx) ==
  /\ tx.state \in {"absent", "prepared", "completed"}
  /\ tx.state # "absent" =>
       /\ tx.base \in SessionRecord
       /\ tx.batch \in Batch
       /\ tx.draft = ApplyBatch(tx.base.draft, tx.batch)
       /\ Grows(tx.base.draft, draft)
  /\ tx.state = "prepared" => PreparedOK(tx)
  /\ tx.state = "completed" => CompletedOK(tx)

(* The inductive invariant of a session with transactions.                 *)
TransactionInv ==
  /\ SessionInvariant
  /\ DOMAIN transactions = Transaction
  /\ \A t \in Transaction : TransactionOK(transactions[t])

(* Draft counters that never go back over two stretches never go back over both. *)
LEMMA GrowsTransitive ==
  ASSUME NEW a \in Draft, NEW b \in Draft, NEW c \in Draft, Grows(a, b), Grows(b, c)
  PROVE  Grows(a, c)
  BY DEF Grows, Draft

(* A batch advances a revision with every change it makes (apply_batch).   *)
LEMMA BatchGrows ==
  ASSUME NEW d \in Draft, NEW batch \in Batch
  PROVE  ApplyBatch(d, batch) \in Draft /\ Grows(d, ApplyBatch(d, batch))
<1> DEFINE e == ApplyBatch(d, batch)
<1>1. /\ e \in Draft
      /\ \/ e.book = d.book /\ e.revision = d.revision
         \/ e.book # d.book /\ e.revision = d.revision + 1
      /\ \/ e.layout = d.layout /\ e.presentation = d.presentation
         \/ e.layout # d.layout /\ e.presentation = d.presentation + 1
  BY ApplyBatchFacts
<1> HIDE DEF e
<1>2. Grows(d, e)
  BY <1>1 DEF Grows, Draft
<1> QED
  BY <1>1, <1>2 DEF e

(* So does every step of the session.                                      *)
LEMMA SessionGrows ==
  ASSUME SessionInvariant, [Next]_vars
  PROVE  Grows(draft, draft')
<1>1. draft \in Draft
  BY DEF SessionInvariant, TypeOK
<1>2. CASE draft' = draft
  BY <1>1, <1>2 DEF Grows, Draft
<1>3. ASSUME NEW j \in Job, InstallChanges(j)
      PROVE  Grows(draft, draft')
  <2>1. draft' = ApplyBatch(draft, jobs[j].batch) /\ jobs[j].batch \in Batch
    BY <1>3, InstallChangesStep
  <2> QED
    BY <1>1, <2>1, BatchGrows
<1>4. ASSUME NEW j \in Job,
             \/ \E batch \in Batch : PrepareChanges(j, batch)
             \/ RejectChanges(j) \/ InstallCalculation(j)
             \/ \E mode \in Modes, o \in Options : PrepareCalculation(j, mode, o)
             \/ RunCalculation(j) \/ Cancel(j) \/ RejectCalculation(j)
      PROVE  draft' = draft
  BY <1>4, Zenon DEF PrepareChanges, RejectChanges, PrepareCalculation, RunCalculation, Cancel,
              RejectCalculation, InstallCalculation, session
<1>5. CASE UNCHANGED vars
  BY <1>2, <1>5 DEF vars, session
<1> QED
  BY <1>2, <1>3, <1>4, <1>5 DEF Next

-----------------------------------------------------------------------------
(* A calculation of the current revision in a consistent session is that   *)
(* of the workbook from scratch, and so are the compiled formulas.         *)
LEMMA CurrentIsFresh ==
  ASSUME NEW s \in SessionRecord, Consistent(s), s.calculation # None,
         s.calculation.revision = s.draft.revision
  PROVE  /\ s.calculation.results = FreshResults(s.draft.book, s.calculation.options)
         /\ s.compiled \in CompiledWorkbook
         /\ s.compiled.formulas = CompileAll(s.draft.book, s.calculation.options)
<1> DEFINE o == s.calculation.options
           b == s.draft.book
           fresh == FreshResults(b, o)
           f == CompileAll(b, o)
<1>1. KeptState(b, o, s.compiled.formulas, s.calculation.results, {}, s.formulaEdits)
  BY DEF Consistent
<1>2. s.compiled \in CompiledWorkbook /\ s.calculation \in Calculation
  BY DEF Consistent, SessionRecord
<1>3. s.compiled.formulas \in [Cell -> Compiled \union {None}] /\ s.calculation.results \in Results
  BY <1>2 DEF CompiledWorkbook, Calculation
<1>4. f = [c \in Cell |-> f[c]] /\ \A c \in Cell : s.compiled.formulas[c] = f[c]
  BY <1>1, Zenon DEF CompileAll, KeptState
<1>5. fresh = [c \in Cell |-> fresh[c]] /\ \A c \in Cell : s.calculation.results[c] = fresh[c]
  BY <1>1 DEF FreshResults, FullResults, KeptState
<1> HIDE DEF f, fresh
<1>6. s.compiled.formulas = f /\ s.calculation.results = fresh
  BY <1>3, <1>4, <1>5 DEF Results
<1> QED
  BY <1>2, <1>6 DEF f, fresh

(* The base of a transaction, reused or calculated, is fresh (base_calculation). *)
LEMMA BaseIsFresh ==
  ASSUME LocaleDynamic = {}, NEW s \in SessionRecord, Consistent(s), NEW o \in OptionSet,
         NEW takes \in BOOLEAN, NEW follows \in BOOLEAN
  PROVE  LET out == BaseExecution(s, o, takes, follows) IN
         /\ out.results = FreshResults(s.draft.book, o)
         /\ out.compiled \in CompiledWorkbook
         /\ out.compiled.formulas = CompileAll(s.draft.book, o)
<1> DEFINE out == BaseExecution(s, o, takes, follows)
<1>1. CASE BaseReused(s, o)
  <2>1. /\ s.calculation # None /\ s.calculation.revision = s.draft.revision
        /\ s.calculation.options = o
    BY <1>1 DEF BaseReused
  <2>2. out.results = s.calculation.results /\ out.compiled = s.compiled
    BY <1>1 DEF BaseExecution
  <2> HIDE DEF out
  <2>3. /\ s.calculation.results = FreshResults(s.draft.book, o)
        /\ s.compiled \in CompiledWorkbook
        /\ s.compiled.formulas = CompileAll(s.draft.book, o)
    BY <2>1, CurrentIsFresh
  <2>4. /\ out.results = FreshResults(s.draft.book, o) /\ out.compiled \in CompiledWorkbook
        /\ out.compiled.formulas = CompileAll(s.draft.book, o)
    BY <2>2, <2>3
  <2> QED
    BY <2>4 DEF out
<1>2. CASE ~BaseReused(s, o)
  <2> DEFINE run == Execute(s.draft.book, s.compiled, s.calculation, PlanCalculation(s, "Auto", o), o,
                            takes, follows)
  <2>1. out = run
    BY <1>2 DEF BaseExecution
  <2>2. ~Refused(s, "Auto", o) /\ "Auto" \in Modes
    BY DEF Refused, Modes
  <2>3. /\ run.results = FreshResults(s.draft.book, o)
        /\ run.compiled \in CompiledWorkbook
        /\ run.compiled.formulas = CompileAll(s.draft.book, o)
    BY <2>2, ExecuteIsFresh
  <2> HIDE DEF out, run
  <2>4. /\ out.results = FreshResults(s.draft.book, o) /\ out.compiled \in CompiledWorkbook
        /\ out.compiled.formulas = CompileAll(s.draft.book, o)
    BY <2>1, <2>3
  <2> QED
    BY <2>4 DEF out
<1> QED
  BY <1>1, <1>2

(***************************************************************************)
(* The session in which a candidate is calculated is consistent, although  *)
(* the impact that becomes its dirty set is found from the references of   *)
(* the base alone; and the impact covers every other result (run_inner).   *)
(***************************************************************************)
LEMMA CandidateIsConsistent ==
  ASSUME NEW s \in SessionRecord, NEW o \in OptionSet, NEW batch \in Batch,
         NEW cw \in CompiledWorkbook, cw.formulas = CompileAll(s.draft.book, o),
         NEW calc \in Calculation, calc.revision = s.draft.revision, calc.options = o,
         calc.results = FreshResults(s.draft.book, o)
  PROVE  LET next == ApplyBatch(s.draft, batch)
             cs == CandidateSession(s, next, cw, calc)
             fresh == FreshResults(next.book, o)
         IN  /\ cs \in SessionRecord /\ Consistent(cs)
             /\ cs.draft = next /\ cs.compiled = cw /\ cs.calculation = calc
             /\ cs.dirty = Impact(cw, s.draft.book, next.book)
             /\ \A c \in Cell \ cs.dirty : fresh[c] = None \/ fresh[c] = calc.results[c]
<1> DEFINE next == ApplyBatch(s.draft, batch)
           cs == CandidateSession(s, next, cw, calc)
           b == s.draft.book
           b2 == next.book
           k == cw.formulas
           fresh == FreshResults(b2, o)
           X == ChangedCells(b, b2)
           topology == TopologyOrMetadata(b, b2)
           formats == ReadsChangedFormats(k, b, b2)
           P == IF formats THEN ReadersOf(k, FormatReader) ELSE {}
           D0 == Affected(k, X) \union Dependents(k, P)
           all == {c \in Cell : b2.content[c] \in Formula}
           D == Impact(cw, b, b2)
           changed == X # {} \/ formats
<1>1. s.draft \in Draft /\ s.cursor \in Nat \ {0}
  BY DEF SessionRecord
<1>2. /\ next \in Draft
      /\ \/ b2 = b /\ next.revision = s.draft.revision
         \/ b2 # b /\ next.revision = s.draft.revision + 1
  BY <1>1, ApplyBatchFacts
<1>3. b \in Book /\ b2 \in Book /\ k \in [Cell -> Compiled \union {None}]
  BY <1>1, <1>2 DEF Draft, CompiledWorkbook
<1>4. /\ cs.draft = next /\ cs.compiled = cw /\ cs.calculation = calc /\ cs.dirty = D
      /\ cs.formulaEdits = {} /\ cs.cursor = s.cursor
  BY DEF CandidateSession
<1>5. /\ cs.rebuild = topology /\ cs.pending = changed
  BY DEF CandidateSession
<1>6. D = IF ConservativeImpact(cw, b, b2) THEN all ELSE D0
  BY Zenon DEF Impact, Dependents
<1>7. topology \in BOOLEAN /\ changed \in BOOLEAN /\ formats \in BOOLEAN
  BY DEF TopologyOrMetadata, TablesChanged, ReadsChangedFormats
<1>8. P \subseteq Cell /\ X \subseteq Cell
  BY DEF ReadersOf, ChangedCells
<1>9. D \subseteq Cell
  BY <1>6 DEF Affected, Dependents
<1>10. cs \in SessionRecord
  <2>1. cs = [draft |-> next, compiled |-> cw, calculation |-> calc, dirty |-> D,
              formulaEdits |-> {}, pending |-> changed, rebuild |-> topology, cursor |-> s.cursor]
    BY DEF CandidateSession
  <2> HIDE DEF cs, next, changed, topology, D
  <2> QED
    BY <1>1, <1>2, <1>7, <1>9, <2>1 DEF SessionRecord
<1>11. KeptState(b, o, k, calc.results, {}, {})
  BY DEF KeptState, FreshResults
<1>12. ~topology => KeptState(b2, o, k, calc.results, D0, {})
  <2> SUFFICES ASSUME ~topology
               PROVE  KeptState(b2, o, k, calc.results, D0, {})
    OBVIOUS
  <2>1. b2.names = b.names /\ b2.tables = b.tables /\ FormulaEditCells(b, b2) = {}
    BY DEF TopologyOrMetadata, TablesChanged
  <2>2. \A c \in Cell \ X : b2.content[c] = b.content[c]
    BY DEF ChangedCells
  <2>3. \A c \in Cell \ {} : (b.content[c] \in Formula \/ b2.content[c] \in Formula)
                               => b2.content[c] = b.content[c]
    BY <2>1 DEF FormulaEditCells, ChangedCells
  <2>4. b2.format # b.format => ReadersOf(k, FormatReader) \subseteq P
    BY DEF ReadsChangedFormats
  <2> HIDE DEF b, b2, k, X, P
  <2>5. KeptState(b2, o, k, calc.results, {} \union Affected(k, X) \union {} \union Dependents(k, P),
                  {} \union {})
    BY <1>3, <1>8, <1>11, <2>1, <2>2, <2>3, <2>4, LocalEditKeeps, Zenon
  <2>6. {} \union Affected(k, X) \union {} \union Dependents(k, P) = D0 /\ {} \union {} = {}
    OBVIOUS
  <2> QED
    BY <2>5, <2>6
<1>13. ~topology => KeptState(b2, o, k, calc.results, D, {})
  <2> SUFFICES ASSUME ~topology, D = all
               PROVE  KeptState(b2, o, k, calc.results, D, {})
    BY <1>6, <1>12
  <2> DEFINE f == CompileAll(b2, o)
  <2>1. b2.names = b.names /\ b2.tables = b.tables /\ FormulaEditCells(b, b2) = {}
    BY DEF TopologyOrMetadata, TablesChanged
  <2>2. \A c \in Cell : f[c] = None <=> b2.content[c] \notin Formula
    BY <1>3, CompileType
  <2>3. \A c \in Cell : k[c] = None <=> b.content[c] \notin Formula
    BY <1>3, CompileType
  <2>4. \A c \in Cell \ D : b2.content[c] \notin Formula /\ b.content[c] \notin Formula
    BY <2>1 DEF FormulaEditCells, ChangedCells
  <2>5. \A c \in Cell \ D : k[c] = None /\ f[c] = None /\ Reads(k, c) \intersect D = {}
    BY <2>2, <2>3, <2>4 DEF Reads
  <2>6. \A c \in Cell \ D : calc.results[c] = None /\ FullResults(f, b2, o)[c] = None
    BY <2>4 DEF FreshResults, FullResults
  <2>7. KeptState(b2, o, k, calc.results, D0, {})
    BY <1>12
  <2> QED
    BY <2>5, <2>6, <2>7, Zenon DEF KeptState
<1>14. b2 = b => ~topology /\ D = {} /\ ~changed
  BY <1>6 DEF TopologyOrMetadata, TablesChanged, FormulaEditCells, ChangedCells, Affected,
              Dependents, ReadsChangedFormats, ConservativeImpact
<1>15. ~topology /\ ~changed => D = {}
  BY <1>6 DEF ConservativeImpact, Affected, Dependents
<1>16. ASSUME NEW c \in Cell \ D
       PROVE  fresh[c] = None \/ fresh[c] = calc.results[c]
  <2>1. CASE topology
    <3>1. b2.content[c] \notin Formula
      BY <1>6, <2>1 DEF ConservativeImpact
    <3> QED
      BY <3>1 DEF FreshResults, FullResults
  <2>2. CASE ~topology
    BY <1>13, <2>2 DEF KeptState, FreshResults
  <2> QED
    BY <2>1, <2>2
<1>17. Consistent(cs)
  <2>1. calc # None /\ cw # None /\ calc.revision \in Nat /\ next.revision \in Nat
    BY <1>2, WorkbookAssumption DEF Calculation, Draft
  <2>2. calc.revision <= next.revision /\ (calc.revision = next.revision => b2 = b)
    BY <1>2, <2>1
  <2> HIDE DEF cs, next, topology, changed, D, k
  <2>3. ~topology => KeptState(cs.draft.book, calc.options, cw.formulas, calc.results, D, {})
    BY <1>4, <1>13 DEF k
  <2> QED
    BY <1>4, <1>5, <1>14, <1>15, <2>1, <2>2, <2>3 DEF Consistent
<1> QED
  BY <1>4, <1>10, <1>16, <1>17

-----------------------------------------------------------------------------
(* A new session has no transactions.                                      *)
LEMMA TransactionInitInv ==
  ASSUME TransactionInit
  PROVE  TransactionInv
<1>1. SessionInvariant
  BY InitInvariant DEF TransactionInit
<1>2. \A t \in Transaction : transactions[t] = Absent
  BY DEF TransactionInit
<1>3. TransactionOK(Absent)
  BY DEF TransactionOK, Absent
<1> QED
  BY <1>1, <1>2, <1>3 DEF TransactionInv, TransactionInit

(* A transaction stays what it is when the draft grows.                    *)
LEMMA TransactionStays ==
  ASSUME NEW tx, TransactionOK(tx), draft \in Draft, draft' \in Draft, Grows(draft, draft')
  PROVE  TransactionOK(tx)'
<1>1. tx.state # "absent" => tx.base.draft \in Draft
  BY DEF TransactionOK, SessionRecord
<1>2. tx.state # "absent" => Grows(tx.base.draft, draft')
  BY <1>1, GrowsTransitive DEF TransactionOK
<1> QED
  BY <1>2 DEF TransactionOK

(* A step of one transaction that leaves the session alone.                *)
LEMMA TransactionStep ==
  ASSUME TransactionInv, UNCHANGED vars, NEW t \in Transaction, NEW tx, TransactionOK(tx),
         transactions' = [transactions EXCEPT ![t] = tx]
  PROVE  TransactionInv'
<1>1. draft' = draft /\ SessionInvariant' /\ draft \in Draft
  <2>1. UNCHANGED session /\ jobs' = jobs
    BY DEF vars
  <2>2. TypeOK' /\ Live' = Live /\ draft' = draft /\ nextCursor' = nextCursor
        /\ calculation' = calculation
    BY <2>1 DEF session, Live, TypeOK, SessionInvariant, TransactionInv
  <2>3. SessionInvariant'
    BY <2>1, <2>2 DEF SessionInvariant, TransactionInv, JobOK, EditJobOK, CalculationJobOK, DoneJobOK,
                      ChangesCurrent
  <2> QED
    BY <2>2, <2>3 DEF SessionInvariant, TransactionInv, TypeOK
<1>2. ASSUME NEW u \in Transaction
      PROVE  TransactionOK(transactions[u])'
  <2>1. transactions'[u] = transactions[u] \/ transactions'[u] = tx
    BY DEF TransactionInv
  <2>2. TransactionOK(transactions[u])
    BY DEF TransactionInv
  <2> QED
    BY <1>1, <2>1, <2>2 DEF TransactionOK
<1> QED
  BY <1>1, <1>2 DEF TransactionInv

(* A transaction that fails, is found stale or is discarded is forgotten.  *)
LEMMA ForgetStep ==
  ASSUME TransactionInv, UNCHANGED vars, NEW t \in Transaction,
         transactions' = [transactions EXCEPT ![t] = Absent]
  PROVE  TransactionInv'
<1>1. TransactionOK(Absent)
  BY DEF TransactionOK, Absent
<1> QED
  BY <1>1, TransactionStep, Zenon

(* prepare_transaction captures a consistent session.                      *)
LEMMA PrepareTransactionStep ==
  ASSUME TransactionInv, NEW t \in Transaction, NEW batch \in Batch, NEW mode \in Modes,
         NEW o \in Options, PrepareTransaction(t, batch, mode, o)
  PROVE  TransactionInv'
<1> DEFINE tx == [state |-> "prepared", base |-> Live, batch |-> batch,
                  draft |-> ApplyBatch(draft, batch), mode |-> mode, options |-> o]
<1>1. transactions' = [transactions EXCEPT ![t] = tx] /\ UNCHANGED vars
  BY DEF PrepareTransaction
<1>2. Live \in SessionRecord /\ Live.draft = draft /\ Consistent(Live) /\ draft \in Draft
  BY LiveType DEF TransactionInv, SessionInvariant, TypeOK
<1>3. /\ tx.state = "prepared" /\ tx.base = Live /\ tx.batch = batch /\ tx.mode = mode
      /\ tx.options = o /\ tx.draft = ApplyBatch(draft, batch)
  OBVIOUS
<1> HIDE DEF tx
<1>4. Grows(draft, draft)
  BY <1>2 DEF Grows, Draft
<1>5. TransactionOK(tx)
  BY <1>2, <1>3, <1>4 DEF TransactionOK, PreparedOK
<1> QED
  BY <1>1, <1>5, TransactionStep, Zenon

(* The exact delta between two calculations.                               *)
LEMMA DeltaFields ==
  ASSUME NEW previous \in Calculation \union {None}, NEW calc \in Calculation
  PROVE  LET old(c) == IF previous = None THEN None ELSE previous.results[c]
             delta == Delta(previous, calc, Cell)
         IN  /\ delta \in DeltaRecord
             /\ delta.changed = [c \in Cell |-> IF calc.results[c] # old(c) THEN calc.results[c] ELSE None]
             /\ delta.removed = {c \in Cell : calc.results[c] = None /\ old(c) # None}
             /\ delta.result = calc.revision
<1>1. Delta(previous, calc, Cell \intersect Cell) \in DeltaRecord
  BY ScopedDelta
<1>2. Cell \intersect Cell = Cell
  OBVIOUS
<1>3. Delta(previous, calc, Cell) \in DeltaRecord
  BY <1>1, <1>2
<1> QED
  BY <1>3 DEF Delta

(* A run completes with fresh results, the delta to install and an exact   *)
(* preview, or leaves nothing (PreparedWorkbookTransaction::run).          *)
LEMMA RunTransactionStep ==
  ASSUME LocaleDynamic = {}, TransactionInv, NEW t \in Transaction, RunTransaction(t)
  PROVE  TransactionInv'
<1> DEFINE tx == transactions[t]
           s == tx.base
           o == tx.options
           before == s.draft.book
           after == tx.draft.book
<1> DEFINE Last(out, baseCalc, cs, plan, result, calc, preview, delta) ==
             transactions' = [transactions EXCEPT ![t] =
                                RunOutcome(tx, out, cs, plan, result, calc, preview, delta)]
           Compare(out, baseCalc, cs, plan, result, calc) ==
             \E preview \in {Delta(baseCalc, calc, Cell)}, delta \in {InstallDelta(s, baseCalc, calc)} :
               Last(out, baseCalc, cs, plan, result, calc, preview, delta)
           Ran(follows, out, baseCalc, cs, plan) ==
             \E takes \in TakesEdits(plan) :
             \E result \in {Execute(after, cs.compiled, baseCalc, plan, o, takes, follows)} :
             \E calc \in {CalculationOf(tx.draft, o, result)} :
               Compare(out, baseCalc, cs, plan, result, calc)
           Base(follows, out) ==
             \E baseCalc \in {CalculationOf(s.draft, o, out)} :
             \E cs \in {CandidateSession(s, tx.draft, out.compiled, baseCalc)} :
             \E plan \in {PlanCalculation(cs, tx.mode, o)} :
               Ran(follows, out, baseCalc, cs, plan)
<1>a1. PICK takes \in BasePlanEdits(s, o), follows \in GraphFollows(before),
           candidateFollows \in GraphFollows(after) :
        \E out \in {BaseExecution(s, o, takes, follows)} : Base(candidateFollows, out)
  BY Zenon DEF RunTransaction
<1> HIDE DEF Base
<1>a2. PICK out : out = BaseExecution(s, o, takes, follows) /\ Base(candidateFollows, out)
  BY <1>a1
<1> HIDE DEF Ran
<1>a3. PICK baseCalc, cs, plan :
        /\ baseCalc = CalculationOf(s.draft, o, out)
        /\ cs = CandidateSession(s, tx.draft, out.compiled, baseCalc)
        /\ plan = PlanCalculation(cs, tx.mode, o)
        /\ Ran(candidateFollows, out, baseCalc, cs, plan)
  BY <1>a2, Zenon DEF Base
<1> HIDE DEF Compare
<1>a4. PICK candidateTakes, result, calc :
        /\ candidateTakes \in TakesEdits(plan)
        /\ result = Execute(after, cs.compiled, baseCalc, plan, o, candidateTakes, candidateFollows)
        /\ calc = CalculationOf(tx.draft, o, result)
        /\ Compare(out, baseCalc, cs, plan, result, calc)
  BY <1>a3, Zenon DEF Ran
<1> HIDE DEF Last
<1>a5. PICK preview, delta :
        /\ preview = Delta(baseCalc, calc, Cell) /\ delta = InstallDelta(s, baseCalc, calc)
        /\ Last(out, baseCalc, cs, plan, result, calc, preview, delta)
  BY <1>a4 DEF Compare
<1>1. /\ out = BaseExecution(s, o, takes, follows)
      /\ baseCalc = CalculationOf(s.draft, o, out)
      /\ cs = CandidateSession(s, tx.draft, out.compiled, baseCalc)
      /\ plan = PlanCalculation(cs, tx.mode, o)
      /\ candidateTakes \in TakesEdits(plan)
      /\ result = Execute(after, cs.compiled, baseCalc, plan, o, candidateTakes, candidateFollows)
      /\ calc = CalculationOf(tx.draft, o, result)
      /\ preview = Delta(baseCalc, calc, Cell)
      /\ delta = InstallDelta(s, baseCalc, calc)
      /\ transactions' = [transactions EXCEPT ![t] =
                            RunOutcome(tx, out, cs, plan, result, calc, preview, delta)]
  BY <1>a2, <1>a3, <1>a4, <1>a5, Zenon DEF Last
<1> DEFINE new == [state |-> "completed", base |-> s, batch |-> tx.batch, draft |-> tx.draft,
                   compiled |-> result.compiled, calculation |-> calc, preview |-> preview,
                   delta |-> delta, impact |-> cs.dirty]
<1>2. UNCHANGED vars /\ tx.state = "prepared"
  BY Zenon DEF RunTransaction
<1>3. TransactionOK(tx)
  BY DEF TransactionInv
<1>4. /\ s \in SessionRecord /\ Consistent(s) /\ tx.mode \in Modes /\ o \in Options
      /\ tx.batch \in Batch /\ tx.draft = ApplyBatch(s.draft, tx.batch)
      /\ Grows(s.draft, draft)
  BY <1>2, <1>3 DEF TransactionOK, PreparedOK
<1>5. o \in OptionSet /\ s.draft \in Draft
  BY <1>4, SessionAssumption DEF SessionRecord
<1>6. /\ takes \in BOOLEAN /\ follows \in BOOLEAN /\ candidateFollows \in BOOLEAN
      /\ candidateTakes \in BOOLEAN
  BY <1>1, Zenon DEF BasePlanEdits, TakesEdits, GraphFollows
<1>7. tx.draft \in Draft
  BY <1>4, <1>5, BatchGrows
<1>8. before \in Book /\ after \in Book /\ s.draft.revision \in Nat /\ tx.draft.revision \in Nat
  BY <1>5, <1>7 DEF Draft
<1>9. /\ out.results = FreshResults(before, o)
      /\ out.compiled \in CompiledWorkbook
      /\ out.compiled.formulas = CompileAll(before, o)
  BY <1>1, <1>4, <1>5, <1>6, BaseIsFresh, ZenonT(60)
<1>10. FreshResults(before, o) \in Results /\ FreshResults(after, o) \in Results
  <2>1. \A b \in Book : FreshResults(b, o) \in Results
    BY <1>5, CompileType, FullType DEF FreshResults
  <2> QED
    BY <1>8, <2>1
<1>11. /\ baseCalc \in Calculation /\ baseCalc.revision = s.draft.revision /\ baseCalc.options = o
       /\ baseCalc.results = FreshResults(before, o)
  BY <1>1, <1>5, <1>8, <1>9, <1>10, Zenon DEF Calculation, CalculationOf
<1>12. /\ cs \in SessionRecord /\ Consistent(cs)
       /\ cs.draft = tx.draft /\ cs.compiled = out.compiled /\ cs.calculation = baseCalc
       /\ \A c \in Cell \ cs.dirty :
            FreshResults(after, o)[c] = None \/ FreshResults(after, o)[c] = baseCalc.results[c]
  <2>1. cs = CandidateSession(s, ApplyBatch(s.draft, tx.batch), out.compiled, baseCalc)
    BY <1>1, <1>4, Zenon
  <2>2. after = ApplyBatch(s.draft, tx.batch).book
    BY <1>4, Zenon
  <2> HIDE DEF s, o, tx, after
  <2> QED
    BY <1>4, <1>5, <1>9, <1>11, <2>1, <2>2, CandidateIsConsistent DEF before
<1>13. transactions' = [transactions EXCEPT ![t] = Absent]
       \/ (transactions' = [transactions EXCEPT ![t] = new] /\ ~Refused(cs, tx.mode, o))
  BY <1>1, Zenon DEF RunOutcome
<1>14. CASE transactions' = [transactions EXCEPT ![t] = Absent]
  BY <1>2, <1>14, ForgetStep, Zenon
<1>15. CASE transactions' = [transactions EXCEPT ![t] = new] /\ ~Refused(cs, tx.mode, o)
  <2>1. /\ result.results = FreshResults(after, o) /\ result.compiled \in CompiledWorkbook
        /\ result.compiled.formulas = CompileAll(after, o)
    <3>1. result = Execute(cs.draft.book, cs.compiled, cs.calculation, PlanCalculation(cs, tx.mode, o),
                           o, candidateTakes, candidateFollows)
      BY <1>1, <1>12, Zenon
    <3>2. after = cs.draft.book
      BY <1>12
    <3>3. /\ cs \in SessionRecord /\ Consistent(cs) /\ tx.mode \in Modes /\ o \in OptionSet
          /\ ~Refused(cs, tx.mode, o) /\ candidateTakes \in BOOLEAN /\ candidateFollows \in BOOLEAN
      BY <1>4, <1>5, <1>6, <1>12, <1>15, Zenon
    <3> HIDE DEF s, o, tx, after
    <3>4. /\ result.results = FreshResults(cs.draft.book, o) /\ result.compiled \in CompiledWorkbook
          /\ result.compiled.formulas = CompileAll(cs.draft.book, o)
      BY <3>1, <3>3, ExecuteIsFresh
    <3> QED
      BY <3>2, <3>4, Zenon
  <2>2. calc = [source |-> after, revision |-> tx.draft.revision, options |-> o,
                results |-> FreshResults(after, o)]
    BY <1>1, <2>1, Zenon DEF CalculationOf
  <2>3. calc \in Calculation /\ calc.options = o /\ calc.results = FreshResults(after, o)
    BY <1>5, <1>8, <1>10, <2>2, Zenon DEF Calculation
  <2>4. /\ preview.changed = [c \in Cell |-> IF calc.results[c] # baseCalc.results[c]
                                             THEN calc.results[c] ELSE None]
        /\ preview.removed = {c \in Cell : calc.results[c] = None /\ baseCalc.results[c] # None}
    <3>1. baseCalc # None /\ preview = Delta(baseCalc, calc, Cell)
      BY <1>1, <1>11, WorkbookAssumption, Zenon
    <3> QED
      BY <1>11, <2>3, <3>1, DeltaFields
  <2>5. delta = InstallDelta(s, None, calc)
    BY <1>1, Zenon DEF InstallDelta
  <2>6. /\ new.state = "completed" /\ new.base = s /\ new.batch = tx.batch /\ new.draft = tx.draft
        /\ new.compiled = result.compiled /\ new.calculation = calc /\ new.preview = preview
        /\ new.delta = delta /\ new.impact = cs.dirty
    OBVIOUS
  <2> HIDE DEF new
  <2>7. ExactPreview(new)
    <3>1. \A c \in Cell : preview.changed[c] = IF FreshResults(after, o)[c] = FreshResults(before, o)[c]
                                              THEN None ELSE FreshResults(after, o)[c]
      <4> DEFINE A == FreshResults(after, o)
                 B == FreshResults(before, o)
      <4>1. calc.results = A /\ baseCalc.results = B
        BY <1>11, <2>3, Zenon
      <4> HIDE DEF A, B
      <4>2. preview.changed = [c \in Cell |-> IF A[c] # B[c] THEN A[c] ELSE None]
        BY <2>4, <4>1, Zenon
      <4>3. \A c \in Cell : preview.changed[c] = IF A[c] = B[c] THEN None ELSE A[c]
        BY ONLY <4>2
      <4> QED
        BY <4>3, Zenon DEF A, B
    <3>2. preview.removed = {c \in Cell : FreshResults(after, o)[c] = None
                                          /\ FreshResults(before, o)[c] # None}
      BY <1>11, <2>3, <2>4
    <3>3. \A c \in Cell : preview.changed[c] # None => c \in cs.dirty
      BY <1>11, <1>12, <3>1
    <3> QED
      BY <2>3, <2>6, <3>1, <3>2, <3>3, Zenon DEF ExactPreview
  <2>8. CompletedOK(new)
    BY <1>4, <2>1, <2>2, <2>3, <2>5, <2>6, <2>7, Zenon DEF CompletedOK
  <2>9. TransactionOK(new)
    BY <1>4, <2>6, <2>8, Zenon DEF TransactionOK
  <2> QED
    BY <1>2, <1>15, <2>9, TransactionStep, Zenon
<1> QED
  BY <1>13, <1>14, <1>15

(***************************************************************************)
(* install_transaction: the session is as consistent as after an edit and  *)
(* a calculation, whatever jobs and transactions are in flight; and what   *)
(* it installs is the edit of the current draft, calculated from scratch.  *)
(***************************************************************************)
LEMMA InstallTransactionStep ==
  ASSUME TransactionInv, NEW t \in Transaction, InstallTransaction(t)
  PROVE  LET tx == transactions[t]
             o == tx.calculation.options
         IN  /\ TransactionInv'
             /\ tx.batch \in Batch /\ o \in Options
             /\ tx.draft = ApplyBatch(draft, tx.batch)
             /\ tx.calculation = [source |-> tx.draft.book, revision |-> tx.draft.revision,
                                  options |-> o, results |-> FreshResults(tx.draft.book, o)]
             /\ tx.delta = [Delta(calculation, tx.calculation, Cell) EXCEPT
                  !.base = IF calculation = None THEN draft.revision ELSE calculation.revision]
             /\ tx.base.cursor = nextCursor
             /\ tx.calculation \in Calculation /\ tx.delta \in DeltaRecord
<1> DEFINE tx == transactions[t]
           calc == tx.calculation
           o == calc.options
           new == tx.draft
           s == tx.base
<1>1. TypeOK /\ TransactionOK(tx) /\ draft \in Draft /\ nextCursor \in Nat \ {0}
  BY DEF TransactionInv, SessionInvariant, TypeOK
<1>2. tx.state = "completed" /\ TransactionCurrent(tx)
  BY DEF InstallTransaction
<1>3. /\ s \in SessionRecord /\ tx.batch \in Batch /\ new = ApplyBatch(s.draft, tx.batch)
      /\ Grows(s.draft, draft) /\ CompletedOK(tx)
  BY <1>1, <1>2 DEF TransactionOK
<1>4. /\ s.draft = draft /\ s.calculation = calculation /\ s.cursor = nextCursor
  BY <1>2, <1>3 DEF TransactionCurrent, Grows
<1>5. new = ApplyBatch(draft, tx.batch) /\ new \in Draft /\ Grows(draft, new)
  BY <1>1, <1>3, <1>4, BatchGrows
<1>6. /\ o \in Options /\ tx.compiled \in CompiledWorkbook
      /\ calc = [source |-> new.book, revision |-> new.revision, options |-> o,
                 results |-> FreshResults(new.book, o)]
      /\ tx.compiled.formulas = CompileAll(new.book, o)
      /\ tx.delta = InstallDelta(s, None, calc)
  BY <1>3 DEF CompletedOK
<1>7. o \in OptionSet /\ new.book \in Book /\ new.revision \in Nat /\ new.presentation \in Nat
  BY <1>5, <1>6, SessionAssumption DEF Draft
<1>8. FreshResults(new.book, o) \in Results
  BY <1>7, CompileType, FullType DEF FreshResults
<1>9. tx.delta = [Delta(calculation, calc, Cell) EXCEPT
                    !.base = IF calculation = None THEN draft.revision ELSE calculation.revision]
  BY <1>4, <1>6 DEF InstallDelta
<1> HIDE DEF calc, o, new, s
<1>10. calc \in Calculation /\ calc.options = o /\ calc.revision = new.revision
       /\ calc.results = FreshResults(new.book, o)
  BY <1>6, <1>7, <1>8 DEF Calculation
<1>11. tx.delta \in DeltaRecord
  <2>1. calculation \in Calculation \union {None}
    BY <1>1 DEF TypeOK
  <2>2. Delta(calculation, calc, Cell) \in DeltaRecord
    BY <1>10, <2>1, DeltaFields, Zenon
  <2> DEFINE first == IF calculation = None THEN draft.revision ELSE calculation.revision
             delta == Delta(calculation, calc, Cell)
  <2>3. first \in Nat
    BY <1>1, <2>1 DEF Draft, Calculation
  <2> HIDE DEF first, delta
  <2>4. [delta EXCEPT !.base = first] \in DeltaRecord
    BY <2>2, <2>3 DEF DeltaRecord, delta
  <2> QED
    BY <1>9, <2>4 DEF first, delta
<1>12. /\ draft' = new /\ compiled' = tx.compiled /\ calculation' = calc /\ dirty' = {}
       /\ formulaEdits' = {} /\ nextCursor' = nextCursor + 1
       /\ history' = Retain(history, [cursor |-> nextCursor, delta |-> tx.delta], MaxRetained)
       /\ jobs' = jobs /\ transactions' = [transactions EXCEPT ![t] = Absent]
  BY <1>4 DEF InstallTransaction, calc, new, s
<1>13. pending' = FALSE /\ rebuild' = FALSE
  BY DEF InstallTransaction
<1> HIDE DEF tx
<1>14. TypeOK'
  <2>1. history' \in Seq([cursor : Nat, delta : DeltaRecord])
    <3> DEFINE S == [cursor : Nat, delta : DeltaRecord]
               d == [cursor |-> nextCursor, delta |-> tx.delta]
    <3>1. history \in Seq(S) /\ MaxRetained \in Nat \ {0}
      BY <1>1, SessionAssumption DEF TypeOK
    <3>2. d \in S
      BY <1>1, <1>11
    <3> HIDE DEF S, d
    <3>3. Retain(history, d, MaxRetained) \in Seq(S)
      BY <3>1, <3>2, RetainType
    <3> QED
      BY <1>12, <3>3 DEF S, d
  <2>2. pending' \in BOOLEAN /\ rebuild' \in BOOLEAN
    BY <1>13, Zenon
  <2>3. nextCursor' \in Nat \ {0}
    BY <1>1, <1>12
  <2>4. /\ compiled' \in CompiledWorkbook \union {None} /\ calculation' \in Calculation \union {None}
        /\ dirty' \subseteq Cell /\ formulaEdits' \subseteq Cell /\ draft' \in Draft
    BY <1>5, <1>6, <1>10, <1>12
  <2>5. jobs' \in [Job -> {Idle} \union EditJob \union CalculationJob \union DoneJob]
    BY <1>1, <1>12 DEF TypeOK
  <2> QED
    BY <2>1, <2>2, <2>3, <2>4, <2>5 DEF TypeOK
<1>15. Consistent(Live)'
  <2>1. /\ Live'.draft = new /\ Live'.compiled = tx.compiled /\ Live'.calculation = calc
        /\ Live'.dirty = {} /\ Live'.formulaEdits = {}
        /\ Live'.pending = FALSE /\ Live'.rebuild = FALSE
    BY <1>12, <1>13 DEF Live
  <2>2. calc # None /\ tx.compiled # None
    BY <1>6, <1>10, WorkbookAssumption
  <2>3. KeptState(new.book, calc.options, tx.compiled.formulas, calc.results, {}, {})
    BY <1>6, <1>10 DEF KeptState, FreshResults
  <2> HIDE DEF Live
  <2>4. Consistent(Live')
    BY <1>7, <1>10, <2>1, <2>2, <2>3 DEF Consistent
  <2> QED
    BY <2>4
<1>16. ASSUME NEW i \in Job
       PROVE  JobOK(jobs[i])'
  <2>1. JobOK(jobs[i]) /\ jobs'[i] = jobs[i]
    BY <1>12 DEF TransactionInv, SessionInvariant
  <2>2. /\ draft.revision \in Nat /\ draft.presentation \in Nat
        /\ draft.revision <= draft'.revision /\ draft.presentation <= draft'.presentation
    BY <1>1, <1>5, <1>12 DEF Grows, Draft
  <2>3. draft'.revision \in Nat /\ draft'.presentation \in Nat
    BY <1>7, <1>12
  <2>a. nextCursor \in Nat /\ nextCursor' = nextCursor + 1
    BY <1>1, <1>12
  <2>4. ASSUME jobs[i].kind = "edit"
        PROVE  EditJobOK(jobs[i])'
    <3>1. EditJobOK(jobs[i]) /\ jobs[i] \in EditJob
      BY <1>1, <2>1, <2>4, JobKinds DEF JobOK
    <3>2. /\ jobs[i].baseCursor \in Nat /\ jobs[i].baseRevision \in Nat
          /\ jobs[i].basePresentation \in Nat
      BY <3>1 DEF EditJob
    <3>3. jobs[i].baseCursor <= nextCursor' /\ jobs[i].baseCursor # nextCursor'
      BY <1>1, <1>12, <3>1, <3>2 DEF EditJobOK
    <3>4. /\ jobs[i].baseRevision <= draft'.revision
          /\ jobs[i].basePresentation <= draft'.presentation
      BY <2>2, <2>3, <3>1, <3>2 DEF EditJobOK
    <3> QED
      BY <2>1, <3>3, <3>4 DEF EditJobOK, ChangesCurrent
  <2>5. ASSUME jobs[i].kind = "calc"
        PROVE  CalculationJobOK(jobs[i])'
    <3>1. CalculationJobOK(jobs[i]) /\ jobs[i].cursor \in Nat /\ jobs[i].revision \in Nat
      BY <1>1, <2>1, <2>5, JobKinds DEF JobOK, CalculationJob
    <3>a. jobs[i].cursor <= nextCursor
      BY <3>1, Zenon DEF CalculationJobOK
    <3>2. jobs[i].cursor <= nextCursor' /\ jobs[i].cursor # nextCursor'
      BY <2>a, <3>1, <3>a
    <3>3. jobs[i].revision <= draft'.revision
      BY <2>2, <2>3, <3>1 DEF CalculationJobOK
    <3>4. \A takes, follows \in BOOLEAN :
            RunsFresh(jobs[i], Execute(jobs[i].book, jobs[i].compiled, jobs[i].previous,
                                       jobs[i].plan, jobs[i].options, takes, follows))
      BY <3>1 DEF CalculationJobOK
    <3> QED
      BY <2>1, <3>2, <3>3, <3>4 DEF CalculationJobOK
  <2>6. ASSUME jobs[i].kind = "done"
        PROVE  DoneJobOK(jobs[i])'
    <3>1. /\ DoneJobOK(jobs[i]) /\ jobs[i].cursor \in Nat
          /\ jobs[i].calculation.revision \in Nat
      BY <1>1, <2>1, <2>6, JobKinds DEF JobOK, DoneJob, Calculation
    <3>a. jobs[i].cursor <= nextCursor
      BY <3>1, Zenon DEF DoneJobOK
    <3>2. jobs[i].cursor <= nextCursor' /\ jobs[i].cursor # nextCursor'
      BY <2>a, <3>1, <3>a
    <3>3. jobs[i].calculation.revision <= draft'.revision
      BY <2>2, <2>3, <3>1 DEF DoneJobOK
    <3> QED
      BY <2>1, <3>1, <3>2, <3>3 DEF DoneJobOK
  <2> QED
    BY <2>1, <2>4, <2>5, <2>6 DEF JobOK
<1>17. ASSUME NEW u \in Transaction
       PROVE  TransactionOK(transactions[u])'
  <2>1. transactions'[u] = transactions[u] \/ transactions'[u] = Absent
    BY <1>12 DEF TransactionInv
  <2>2. CASE transactions'[u] = Absent
    BY <2>2 DEF TransactionOK, Absent
  <2>3. CASE transactions'[u] = transactions[u]
    <3>1. TransactionOK(transactions[u]) /\ draft' \in Draft /\ Grows(draft, draft')
      BY <1>5, <1>12 DEF TransactionInv
    <3> DEFINE w == transactions[u]
    <3>2. w.state # "absent" => Grows(w.base.draft, draft')
      <4>1. w.state # "absent" => w.base.draft \in Draft /\ Grows(w.base.draft, draft)
        BY <3>1 DEF TransactionOK, SessionRecord
      <4> QED
        BY <1>1, <3>1, <4>1, GrowsTransitive
    <3> QED
      BY <2>3, <3>1, <3>2 DEF TransactionOK
  <2> QED
    BY <2>1, <2>2, <2>3
<1>18. TransactionInv'
  BY <1>12, <1>14, <1>15, <1>16, <1>17 DEF TransactionInv, SessionInvariant
<1> QED
  BY <1>3, <1>4, <1>5, <1>6, <1>9, <1>10, <1>11, <1>18 DEF tx, calc, o, new, s

(* The invariant is inductive.                                             *)
LEMMA TransactionNextInv ==
  ASSUME LocaleDynamic = {}, TransactionInv, [TransactionNext]_transactionVars
  PROVE  TransactionInv'
<1>1. ASSUME [Next]_vars, UNCHANGED transactions
      PROVE  TransactionInv'
  <2>1. SessionInvariant' /\ Grows(draft, draft')
    BY <1>1, NextInvariant, SessionGrows DEF TransactionInv
  <2>2. draft \in Draft /\ draft' \in Draft
    BY <2>1 DEF TransactionInv, SessionInvariant, TypeOK
  <2>3. ASSUME NEW u \in Transaction
        PROVE  TransactionOK(transactions[u])'
    <3> DEFINE w == transactions[u]
    <3>1. TransactionOK(w) /\ transactions'[u] = w
      BY <1>1 DEF TransactionInv
    <3>2. w.state # "absent" => Grows(w.base.draft, draft')
      <4>1. w.state # "absent" => w.base.draft \in Draft /\ Grows(w.base.draft, draft)
        BY <3>1 DEF TransactionOK, SessionRecord
      <4> QED
        BY <2>1, <2>2, <4>1, GrowsTransitive
    <3> QED
      BY <3>1, <3>2 DEF TransactionOK
  <2> QED
    BY <1>1, <2>1, <2>3 DEF TransactionInv
<1>2. CASE UNCHANGED transactionVars
  BY <1>1, <1>2 DEF transactionVars
<1>3. CASE Next /\ UNCHANGED transactions
  BY <1>1, <1>3
<1>4. ASSUME NEW t \in Transaction, NEW batch \in Batch, NEW mode \in Modes, NEW o \in Options,
             PrepareTransaction(t, batch, mode, o)
      PROVE  TransactionInv'
  BY <1>4, PrepareTransactionStep
<1>5. ASSUME NEW t \in Transaction, RunTransaction(t)
      PROVE  TransactionInv'
  BY <1>5, RunTransactionStep
<1>6. ASSUME NEW t \in Transaction, InstallTransaction(t)
      PROVE  TransactionInv'
  BY <1>6, InstallTransactionStep, Zenon
<1>7. ASSUME NEW t \in Transaction, FailTransaction(t) \/ StaleTransaction(t) \/ DiscardTransaction(t)
      PROVE  TransactionInv'
  BY <1>7, ForgetStep DEF FailTransaction, StaleTransaction, DiscardTransaction
<1> QED
  BY <1>2, <1>3, <1>4, <1>5, <1>6, <1>7 DEF TransactionNext

(* A commit appends the delta of its calculation to the one before.        *)
LEMMA CommitAppends ==
  ASSUME TransactionInv, NEW t \in Transaction, InstallTransaction(t)
  PROVE  \E d : /\ Appends(d)
               /\ d.delta.changed = Delta(calculation, calculation', Cell).changed
               /\ d.delta.removed = Delta(calculation, calculation', Cell).removed
<1> DEFINE tx == transactions[t]
           calc == tx.calculation
           base == IF calculation = None THEN draft.revision ELSE calculation.revision
           exact == Delta(calculation, calc, Cell)
           d == [cursor |-> nextCursor, delta |-> tx.delta]
<1>1. /\ tx.delta = [exact EXCEPT !.base = base] /\ tx.base.cursor = nextCursor
      /\ calc \in Calculation /\ tx.delta \in DeltaRecord
  BY InstallTransactionStep, Zenon
<1>2. TypeOK
  BY DEF TransactionInv, SessionInvariant
<1>3. calculation' = calc /\ nextCursor' = nextCursor + 1 /\ history' = Retain(history, d, MaxRetained)
  BY <1>1 DEF InstallTransaction
<1>4. calc # None
  BY <1>1, WorkbookAssumption
<1>5. d \in [cursor : Nat, delta : DeltaRecord] /\ d.cursor = nextCursor /\ d.delta = tx.delta
  BY <1>1, <1>2 DEF TypeOK
<1>6. exact \in DeltaRecord /\ exact.result = calc.revision
  BY <1>1, <1>2, DeltaFields, Zenon DEF TypeOK
<1> HIDE DEF d, calc, exact, base
<1>7. /\ tx.delta.result = calc.revision /\ tx.delta.base = base
      /\ tx.delta.changed = exact.changed /\ tx.delta.removed = exact.removed
  BY <1>1, <1>6 DEF DeltaRecord
<1>8. calculation # None => tx.delta.base = calculation.revision
  BY <1>7 DEF base
<1>9. Appends(d)
  BY <1>3, <1>4, <1>5, <1>7, <1>8 DEF Appends
<1>10. exact = Delta(calculation, calculation', Cell)
  BY <1>3 DEF exact
<1> QED
  BY <1>5, <1>7, <1>9, <1>10

(* Transactions keep the history contiguous.                               *)
LEMMA TransactionHistory ==
  ASSUME TransactionInv, HistoryInv, [TransactionNext]_transactionVars
  PROVE  HistoryInv'
<1>1. CASE [Next]_vars
  BY <1>1, HistoryStep DEF TransactionInv
<1>2. ASSUME NEW t \in Transaction, InstallTransaction(t)
      PROVE  HistoryInv'
  BY <1>2, CommitAppends, HistoryAppend DEF TransactionInv, SessionInvariant
<1>3. ASSUME NEW t \in Transaction,
             \/ \E batch \in Batch, mode \in Modes, o \in Options : PrepareTransaction(t, batch, mode, o)
             \/ RunTransaction(t) \/ FailTransaction(t) \/ StaleTransaction(t) \/ DiscardTransaction(t)
      PROVE  UNCHANGED vars
  BY <1>3, Zenon DEF PrepareTransaction, RunTransaction, FailTransaction, StaleTransaction, DiscardTransaction
<1>4. CASE UNCHANGED transactionVars
  BY <1>1, <1>4 DEF transactionVars
<1> QED
  BY <1>1, <1>2, <1>3, <1>4 DEF TransactionNext

(***************************************************************************)
(* With transactions too, the session and its jobs stay consistent: a      *)
(* commit in between leaves no job with a stale capture that passes for    *)
(* current, and the deltas retained are those of one calculation after the *)
(* other (install_transaction, install_changes, install).                  *)
(***************************************************************************)
THEOREM TransactionsKeepTheSession ==
  ASSUME LocaleDynamic = {}
  PROVE  TransactionSpec => [](SessionInvariant /\ CurrentCalculationIsFresh /\ HistoryIsContiguous)
<1>1. TransactionInit => TransactionInv /\ HistoryInv
  BY TransactionInitInv, HistoryStart DEF TransactionInit
<1>2. TransactionInv /\ HistoryInv /\ [TransactionNext]_transactionVars => TransactionInv' /\ HistoryInv'
  BY TransactionNextInv, TransactionHistory
<1>3. TransactionInv /\ HistoryInv =>
        SessionInvariant /\ CurrentCalculationIsFresh /\ HistoryIsContiguous
  BY InvariantIsFresh DEF TransactionInv, HistoryInv
<1> QED
  BY <1>1, <1>2, <1>3, PTL DEF TransactionSpec

(***************************************************************************)
(* A completed transaction reports exactly what its batch changes, and     *)
(* lists every formula with another result (run_inner).                    *)
(***************************************************************************)
THEOREM PreviewsAreExact ==
  ASSUME LocaleDynamic = {}
  PROVE  TransactionSpec => []PreviewIsExact
<1>1. TransactionInit => TransactionInv
  BY TransactionInitInv
<1>2. TransactionInv /\ [TransactionNext]_transactionVars => TransactionInv'
  BY TransactionNextInv
<1>3. TransactionInv => PreviewIsExact
  BY Zenon DEF TransactionInv, TransactionOK, CompletedOK, PreviewIsExact
<1> QED
  BY <1>1, <1>2, <1>3, PTL DEF TransactionSpec

(* AtomicTransactions sees the same workbooks as the session.              *)
LEMMA SameTransactionOperators ==
  /\ \A d, batch : Transactional!ApplyBatch(d, batch) = ApplyBatch(d, batch)
  /\ \A b, o : Transactional!FreshResults(b, o) = FreshResults(b, o)
  /\ \A p, c, s : Transactional!Delta(p, c, s) = Delta(p, c, s)
  /\ \A s, d, m : Transactional!Retain(s, d, m) = Retain(s, d, m)
<1>1. \A d, batch : Transactional!ApplyBatch(d, batch) = ApplyBatch(d, batch)
  BY DEF Transactional!ApplyBatch, ApplyBatch, Transactional!Keep, Keep
<1>2. \A k, c : Transactional!Reach(k, c) = Reach(k, c)
  BY DEF Transactional!Reach, Reach, Transactional!ReachIn, ReachIn, Transactional!ClosedIn, ClosedIn,
         Transactional!Reads, Reads
<1>3. \A k, b, o, c : Transactional!Item(k, b, o, c) = Item(k, b, o, c)
  BY DEF Transactional!Item, Item
<1>4. \A k, b, o : Transactional!FullResults(k, b, o) = FullResults(k, b, o)
  BY <1>2, <1>3 DEF Transactional!FullResults, FullResults
<1>5. \A b, o : Transactional!CompileAll(b, o) = CompileAll(b, o)
  BY DEF Transactional!CompileAll, CompileAll, Transactional!CompileCell, CompileCell
<1>6. \A b, o : Transactional!FreshResults(b, o) = FreshResults(b, o)
  BY <1>4, <1>5 DEF Transactional!FreshResults, FreshResults
<1>7. \A p, c, s : Transactional!Delta(p, c, s) = Delta(p, c, s)
  BY DEF Transactional!Delta, Delta
<1>8. \A s, d, m : Transactional!Retain(s, d, m) = Retain(s, d, m)
  BY DEF Transactional!Retain, Retain
<1> QED
  BY <1>1, <1>6, <1>7, <1>8

(***************************************************************************)
(* The session with transactions implements AtomicTransactions: a commit   *)
(* is one edit of the draft of that moment and one calculation from        *)
(* scratch, with an exact delta to the calculation installed before        *)
(* (install_transaction).                                                  *)
(***************************************************************************)
THEOREM TransactionsAreAtomic ==
  ASSUME LocaleDynamic = {}
  PROVE  TransactionSpec => ImplementsAtomicTransactions
<1>1. TransactionInit => TransactionInv /\ Transactional!AtomicInit
  BY TransactionInitInv, Zenon DEF TransactionInit, Init, Transactional!AtomicInit
<1>2. TransactionInv /\ [TransactionNext]_transactionVars => TransactionInv'
  BY TransactionNextInv
<1>3. TransactionInv /\ [TransactionNext]_transactionVars =>
        [Transactional!AtomicNext \/ Transactional!AtomicCommit]_(Transactional!atomicVars)
  <2> SUFFICES ASSUME TransactionInv, [TransactionNext]_transactionVars
               PROVE  [Transactional!AtomicNext \/ Transactional!AtomicCommit]_(Transactional!atomicVars)
    OBVIOUS
  <2>1. SessionInvariant
    BY DEF TransactionInv
  <2>2. CASE UNCHANGED vars
    BY <2>2 DEF vars, session, Transactional!atomicVars
  <2>3. ASSUME NEW j \in Job, InstallChanges(j)
        PROVE  Transactional!AtomicEdit
    <3>1. jobs[j].batch \in Batch /\ draft' = ApplyBatch(draft, jobs[j].batch)
      BY <2>1, <2>3, InstallChangesStep
    <3> QED
      BY <2>3, <3>1, SameTransactionOperators DEF InstallChanges, Transactional!AtomicEdit
  <2>4. ASSUME NEW j \in Job, InstallCalculation(j)
        PROVE  Transactional!AtomicCalculate
    <3> DEFINE o == jobs[j].calculation.options
               calc == [source |-> draft.book, revision |-> draft.revision, options |-> o,
                        results |-> FreshResults(draft.book, o)]
    <3>1. o \in Options /\ jobs[j].calculation = calc /\ jobs[j].delta = Delta(calculation, calc, Cell)
      BY <2>1, <2>4, InstallCalculationStep, Zenon
    <3>2. /\ calculation' = calc
          /\ nextCursor' = nextCursor + 1
          /\ history' = Retain(history, [cursor |-> nextCursor, delta |-> Delta(calculation, calc, Cell)],
                               MaxRetained)
          /\ draft' = draft
      BY <2>4, <3>1, Zenon DEF InstallCalculation
    <3> QED
      BY <3>1, <3>2, SameTransactionOperators, Zenon DEF Transactional!AtomicCalculate
  <2>5. ASSUME NEW j \in Job,
               \/ \E batch \in Batch : PrepareChanges(j, batch)
               \/ RejectChanges(j)
               \/ \E mode \in Modes, o \in Options : PrepareCalculation(j, mode, o)
               \/ RunCalculation(j) \/ Cancel(j) \/ RejectCalculation(j)
        PROVE  UNCHANGED Transactional!atomicVars
    BY <2>5, Zenon DEF PrepareChanges, RejectChanges, PrepareCalculation, RunCalculation, Cancel,
                RejectCalculation, session, Transactional!atomicVars
  <2>6. ASSUME NEW t \in Transaction, InstallTransaction(t)
        PROVE  Transactional!AtomicCommit
    <3> DEFINE tx == transactions[t]
               o == tx.calculation.options
               next == ApplyBatch(draft, tx.batch)
               calc == [source |-> next.book, revision |-> next.revision, options |-> o,
                        results |-> FreshResults(next.book, o)]
               delta == [Delta(calculation, calc, Cell) EXCEPT
                           !.base = IF calculation = None THEN draft.revision ELSE calculation.revision]
    <3>1. /\ tx.batch \in Batch /\ o \in Options /\ tx.draft = next /\ tx.calculation = calc
          /\ tx.delta = delta /\ tx.base.cursor = nextCursor
      BY <2>6, InstallTransactionStep, Zenon
    <3>2. /\ nextCursor' = nextCursor + 1 /\ draft' = next /\ calculation' = calc
          /\ history' = Retain(history, [cursor |-> nextCursor, delta |-> delta], MaxRetained)
      BY <2>6, <3>1 DEF InstallTransaction
    <3> QED
      BY <3>1, <3>2, SameTransactionOperators, Zenon DEF Transactional!AtomicCommit
  <2>7. ASSUME NEW t \in Transaction,
               \/ \E batch \in Batch, mode \in Modes, o \in Options : PrepareTransaction(t, batch, mode, o)
               \/ RunTransaction(t) \/ FailTransaction(t) \/ StaleTransaction(t) \/ DiscardTransaction(t)
        PROVE  UNCHANGED vars
    BY <2>7, Zenon DEF PrepareTransaction, RunTransaction, FailTransaction, StaleTransaction, DiscardTransaction
  <2>8. CASE UNCHANGED transactionVars
    BY <2>2, <2>8 DEF transactionVars
  <2> QED
    BY <2>2, <2>3, <2>4, <2>5, <2>6, <2>7, <2>8 DEF TransactionNext, Next, Transactional!AtomicNext
<1> QED
  BY <1>1, <1>2, <1>3, PTL
     DEF TransactionSpec, ImplementsAtomicTransactions, Transactional!TransactionalSpec
=============================================================================
