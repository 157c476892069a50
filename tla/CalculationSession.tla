-------------------------- MODULE CalculationSession --------------------------
(***************************************************************************)
(* WorkbookCalculationSession: the editor of one workbook and its          *)
(* persistent calculation.  Every operation that takes time is split in    *)
(* three: a prepare step that captures the session, a run that works on    *)
(* what was captured without holding the session, and an install step that *)
(* publishes the outcome if what was captured is still current.  Several   *)
(* clients interleave these steps; between two steps of one client the     *)
(* others may edit, calculate and cancel.                                  *)
(*                                                                         *)
(* An operation that answers with an error and changes nothing is no step. *)
(***************************************************************************)
EXTENDS Workbook

CONSTANTS
  Job,            \* the operations in flight at any time: a bound
  Batch,          \* the edit batches clients submit
  Options,        \* the calculation options clients request
  InitialBook,    \* the workbook the session is opened on
  InitialLayout,
  MaxRevision,    \* bound on the semantic revision
  MaxPresentation,\* bound on the presentation revision
  MaxCursor,      \* bound on the delta cursor
  MaxEvaluated,   \* SessionLimits::max_evaluated_cells
  MaxDeltaCells,  \* SessionLimits::max_delta_cells
  MaxRetained     \* SessionLimits::max_retained_deltas

(***************************************************************************)
(* Batches and options are well formed.  A cell that selects the target of *)
(* a reference holds literals: its value is its content.                   *)
(***************************************************************************)
ASSUME SessionAssumption ==
  /\ Batch \subseteq EditBatch
  /\ Options \subseteq OptionSet
  /\ InitialBook \in Book /\ InitialLayout \in Layouts
  /\ MaxRetained \in Nat \ {0}
  /\ \A f \in Dynamic :
       /\ InitialBook.content[Selector[f]] \in Literal
       /\ \A batch \in Batch : batch.content[Selector[f]] \in Literal \union {None}

VARIABLES
  draft,          \* the workbook, its presentation and their revisions
  compiled,       \* the compiled workbook, or None
  calculation,    \* the installed calculation, or None
  dirty,          \* formulas whose installed result may be outdated
  formulaEdits,   \* cells whose formula changed since compiled was built
  pending,        \* calculation_changes_pending
  rebuild,        \* requires_full_rebuild
  nextCursor,     \* the cursor the next installed delta takes
  history,        \* the retained deltas, oldest first
  jobs            \* the operations in flight

session == <<draft, compiled, calculation, dirty, formulaEdits, pending, rebuild,
             nextCursor, history>>
vars == <<session, jobs>>

Modes == {"Auto", "Incremental", "Full"}

(* The session as a record, for the operators that read all of it.         *)
Live == [draft |-> draft, compiled |-> compiled, calculation |-> calculation,
         dirty |-> dirty, formulaEdits |-> formulaEdits, pending |-> pending,
         rebuild |-> rebuild, cursor |-> nextCursor]

Idle == [kind |-> "idle"]

Init ==
  /\ draft = [book |-> InitialBook, layout |-> InitialLayout, revision |-> 0, presentation |-> 0]
  /\ compiled = None
  /\ calculation = None
  /\ dirty = {}
  /\ formulaEdits = {}
  /\ pending = FALSE
  /\ rebuild = TRUE
  /\ nextCursor = 1
  /\ history = <<>>
  /\ jobs = [j \in Job |-> Idle]

-----------------------------------------------------------------------------
(* Edit batches.                                                           *)

(* calculation_changed_cells of the receipt: the cells whose content changed. *)
ChangedCells(before, after) == {c \in Cell : after.content[c] # before.content[c]}

(* formula_edit_cells: the changed cells that held or now hold a formula.  *)
FormulaEditCells(before, after) ==
  {c \in ChangedCells(before, after) :
     before.content[c] \in Formula \/ after.content[c] \in Formula}

TablesChanged(before, after) == after.tables # before.tables

(* topology_changed or calculation_metadata_changed of the receipt.        *)
TopologyOrMetadata(before, after) ==
  \/ after.names # before.names
  \/ TablesChanged(before, after)
  \/ FormulaEditCells(before, after) # {}

(***************************************************************************)
(* The changed formulas can be told apart, so that they may be recompiled  *)
(* in place: no defined name and no date system changed, and no defined    *)
(* name reads a changed table.                                             *)
(***************************************************************************)
EditsAreLocal(s, after) ==
  /\ after.names = s.draft.book.names
  /\ ~s.rebuild
  /\ s.compiled # None
  /\ TablesChanged(s.draft.book, after) => after.names \notin TableNames

(* table_readers: compiled formulas that read a changed table.             *)
ChangedTableReaders(s, after) ==
  IF EditsAreLocal(s, after) /\ TablesChanged(s.draft.book, after)
  THEN ReadersOf(s.compiled.formulas, TableReader) ELSE {}

(* The cells to recompile, if the edits are local: edited_formulas.        *)
EditedFormulas(s, after) ==
  FormulaEditCells(s.draft.book, after) \union ChangedTableReaders(s, after)

(* Recompiling most formulas one by one costs more than compiling them all. *)
CompilesInPlace(s, after) ==
  /\ EditsAreLocal(s, after)
  /\ ~ (/\ TablesChanged(s.draft.book, after)
        /\ 2 * Cardinality(EditedFormulas(s, after)) > Cardinality(FormulaCells(s.compiled.formulas)))

(* number_format_formulas: the formulas a changed number format reaches.   *)
ChangedFormatReaders(s, after) ==
  IF after.format # s.draft.book.format /\ s.compiled # None
  THEN ReadersOf(s.compiled.formulas, FormatReader) ELSE {}

(***************************************************************************)
(* What prepare_changes stages: the edited draft, and the invalidation     *)
(* state that goes with it.                                                *)
(***************************************************************************)
StageChanges(s, batch) ==
  LET next    == ApplyBatch(s.draft, batch)
      after   == next.book
      k       == s.compiled.formulas
      local   == CompilesInPlace(s, after)
      changed == ChangedCells(s.draft.book, after) \union ChangedTableReaders(s, after)
      edited  == IF local THEN EditedFormulas(s, after) ELSE {}
      keeps   == ~TopologyOrMetadata(s.draft.book, after) \/ local
      readers == ChangedFormatReaders(s, after)
  IN  [draft   |-> next,
       rebuild |-> s.rebuild \/ ~keeps,
       dirty   |-> IF keeps /\ s.compiled # None
                   THEN s.dirty \union Affected(k, changed) \union edited \union Dependents(k, readers)
                   ELSE s.dirty,
       formulaEdits |-> IF s.rebuild \/ ~keeps THEN {} ELSE s.formulaEdits \union edited,
       pending |-> s.pending \/ changed # {} \/ edited # {} \/ readers # {}]

(* prepare_changes: stages the batch and records what it was staged on.    *)
PrepareChanges(j, batch) ==
  LET staged == StageChanges(Live, batch) IN
  /\ jobs[j] = Idle
  /\ staged.draft.revision <= MaxRevision
  /\ staged.draft.presentation <= MaxPresentation
  /\ jobs' = [jobs EXCEPT ![j] = [kind |-> "edit", batch |-> batch,
                                  baseRevision |-> draft.revision,
                                  basePresentation |-> draft.presentation,
                                  baseCursor |-> nextCursor,
                                  staged |-> staged]]
  /\ UNCHANGED session

(* Mutant: a presentation edit installed in between goes unnoticed.        *)
PresentationIgnored(job) == draft.revision = job.baseRevision /\ nextCursor = job.baseCursor

(* The checks of install_changes: nothing was installed since the prepare. *)
ChangesCurrent(job) ==
  /\ draft.revision = job.baseRevision
  /\ nextCursor = job.baseCursor
  /\ draft.presentation = job.basePresentation

(* install_changes publishes the staged draft and invalidation state.  The *)
(* compiled workbook changes only when sheets move: see DependencyAreas.   *)
InstallChanges(j) ==
  /\ jobs[j].kind = "edit"
  /\ ChangesCurrent(jobs[j])
  /\ draft' = jobs[j].staged.draft
  /\ rebuild' = jobs[j].staged.rebuild
  /\ dirty' = jobs[j].staged.dirty
  /\ formulaEdits' = jobs[j].staged.formulaEdits
  /\ pending' = jobs[j].staged.pending
  /\ jobs' = [jobs EXCEPT ![j] = Idle]
  /\ UNCHANGED <<compiled, calculation, nextCursor, history>>

(* RevisionMismatch or StaleResult: the batch is dropped, the session kept. *)
RejectChanges(j) ==
  /\ jobs[j].kind = "edit"
  /\ ~ChangesCurrent(jobs[j])
  /\ jobs' = [jobs EXCEPT ![j] = Idle]
  /\ UNCHANGED session

-----------------------------------------------------------------------------
(* Recalculation.                                                          *)

(* incremental_safe: no compiled reference depends on values.              *)
IncrementalSafe(cw) == ReadersOf(cw.formulas, Dynamic) = {}

(* Mutant: a reference behind a cycle is taken to follow the edits.        *)
CyclesFollow(cw) == ReadersOf(cw.formulas, Dynamic) = {} \/ cw.follows

(***************************************************************************)
(* follows_edits: references that depend on values are all evaluated again *)
(* with every edit, so that a moved one is noticed.  cw.follows stands for *)
(* graph_follows_values and no formula left out at the dependency limit.   *)
(***************************************************************************)
FollowsEdits(cw) ==
  LET dynamic == ReadersOf(cw.formulas, Dynamic) IN
  dynamic = {} \/ (cw.follows /\ dynamic \intersect Unevaluated(cw.formulas) = {})

FullReasons == {"InitialCalculation", "FullRequested", "TopologyChanged", "OptionsChanged",
                "DynamicTopology", "DirtySetCoversWorkbook"}

PartialReasons == {"NoDirtyFormulas", "IncrementalRequested", "DirtySubset"}

(* What prepare_recalculation finds out about the session s, for the mode  *)
(* and the options o requested.                                            *)
NoState(s) == s.calculation = None \/ s.compiled = None

(* Mutant: only changed limits count as changed options.                   *)
SemanticsIgnored(s, o) == s.calculation # None /\ s.calculation.options.limits # o.limits

OptionsChanged(s, o) ==
  /\ s.calculation # None
  /\ \/ s.calculation.options.semantics # o.semantics
     \/ s.calculation.options.limits # o.limits

LimitChanged(s, o) == s.compiled # None /\ s.compiled.limits # o.limits

(* A compiled table is outdated and not all its readers get recompiled.    *)
TableChanged(s) ==
  /\ s.compiled # None
  /\ \E c \in FormulaCells(s.compiled.formulas) \ s.formulaEdits :
       s.compiled.formulas[c].tables \notin {None, s.draft.book.tables}

Structural(s, o) == NoState(s) \/ s.rebuild \/ LimitChanged(s, o) \/ TableChanged(s)

(* volatile_input_formulas: the readers of changed volatile inputs.        *)
VolatileDirty(s, o) ==
  IF ~Structural(s, o) /\ ~OptionsChanged(s, o) /\ s.calculation.options.volatile # o.volatile
  THEN Dependents(s.compiled.formulas, ReadersOf(s.compiled.formulas, VolatileReader))
  ELSE {}

ChangesPending(s, o) == s.pending \/ VolatileDirty(s, o) # {}

UnsafeDynamic(s, mode, o) ==
  /\ ChangesPending(s, o)
  /\ s.compiled # None
  /\ IF mode = "Incremental" THEN ~IncrementalSafe(s.compiled) ELSE ~FollowsEdits(s.compiled)

(* value_dependent_formulas, evaluated again with every change.            *)
ValueDirty(s, mode, o) ==
  IF ChangesPending(s, o) /\ ~Structural(s, o) /\ ~UnsafeDynamic(s, mode, o)
  THEN Dependents(s.compiled.formulas, ReadersOf(s.compiled.formulas, Dynamic))
  ELSE {}

PendingDirty(s, mode, o) == s.dirty \union VolatileDirty(s, o) \union ValueDirty(s, mode, o)

(* Only an Auto calculation recompiles formula edits in place.             *)
MustCompile(s, mode, o) ==
  Structural(s, o) \/ UnsafeDynamic(s, mode, o) \/ (s.formulaEdits # {} /\ mode # "Auto")

DecisionReason(s, mode, o) ==
  CASE mode = "Full" -> "FullRequested"
    [] mode = "Incremental" ->
         IF PendingDirty(s, mode, o) = {} THEN "NoDirtyFormulas" ELSE "IncrementalRequested"
    [] mode = "Auto" ->
         IF NoState(s) THEN "InitialCalculation"
         ELSE IF s.rebuild \/ TableChanged(s) THEN "TopologyChanged"
         ELSE IF OptionsChanged(s, o) \/ LimitChanged(s, o) THEN "OptionsChanged"
         ELSE IF UnsafeDynamic(s, mode, o) THEN "DynamicTopology"
         ELSE IF PendingDirty(s, mode, o) = {} THEN "NoDirtyFormulas"
         ELSE IF Cardinality(PendingDirty(s, mode, o)) >= Cardinality(FormulaCells(s.compiled.formulas))
              THEN "DirtySetCoversWorkbook"
         ELSE "DirtySubset"

(* Incremental mode answers CalculationUninitialized or IncrementalUnsafe. *)
Refused(s, mode, o) ==
  mode = "Incremental" /\ (NoState(s) \/ MustCompile(s, mode, o) \/ OptionsChanged(s, o))

(* The decision of prepare_recalculation.                                  *)
PlanCalculation(s, mode, o) ==
  LET reason == DecisionReason(s, mode, o)
      compileRequired ==
        MustCompile(s, mode, o) \/ (s.formulaEdits # {} /\ reason \in FullReasons)
  IN  [reason |-> reason,
       compileRequired |-> compileRequired,
       formulaEdits |-> IF compileRequired THEN {} ELSE s.formulaEdits,
       dirty |-> IF reason \notin FullReasons THEN PendingDirty(s, mode, o)
                 ELSE IF compileRequired THEN FormulaCells(CompileAll(s.draft.book, o))
                 ELSE FormulaCells(s.compiled.formulas)]

(* prepare_recalculation: captures the session and the decision.           *)
PrepareCalculation(j, mode, o) ==
  LET plan == PlanCalculation(Live, mode, o) IN
  /\ jobs[j] = Idle
  /\ nextCursor < MaxCursor
  /\ ~Refused(Live, mode, o)
  /\ jobs' = [jobs EXCEPT ![j] = [kind |-> "calc", cancelled |-> FALSE,
                                  book |-> draft.book, revision |-> draft.revision,
                                  cursor |-> nextCursor, compiled |-> compiled,
                                  previous |-> calculation, options |-> o, plan |-> plan]]
  /\ UNCHANGED session

(* recompile_formula_edits: the compiled workbook with the edits of plan.  *)
Recompiled(book, cw, plan, o) ==
  IF plan.formulaEdits = {} THEN cw
  ELSE [cw EXCEPT !.formulas = [c \in Cell |-> IF c \in plan.formulaEdits
                                               THEN CompileCell(book, o, c) ELSE cw.formulas[c]]]

(***************************************************************************)
(* A pass can start from the compiled workbook cw.  takes: cw can take the *)
(* formula edits (no array formula among them, no limit reached).          *)
(***************************************************************************)
Usable(book, cw, plan, o, takes) ==
  /\ ~plan.compileRequired
  /\ plan.formulaEdits # {} => /\ takes
                               /\ FollowsEdits(cw)
                               /\ cw.limits = o.limits
                               /\ FollowsEdits(Recompiled(book, cw, plan, o))

(* The formulas a pass from the compiled workbook evaluates.               *)
Evaluated(plan) == IF plan.reason \in FullReasons THEN Cell ELSE plan.dirty

Moved(book, cw, plan, o) ==
  TargetsMoved(Recompiled(book, cw, plan, o).formulas, book, o, Evaluated(plan))

(***************************************************************************)
(* PreparedCalculation::execute on the captured workbook, compiled         *)
(* workbook cw and previous calculation: nothing to evaluate, a pass from  *)
(* the compiled workbook, or, if that is unusable or the pass finds that   *)
(* references moved, a compilation and a full pass.  follows: a graph      *)
(* compiled here follows the values.                                       *)
(***************************************************************************)
Execute(book, cw, previous, plan, o, takes, follows) ==
  LET kept == Recompiled(book, cw, plan, o)
      fresh == [formulas |-> CompileAll(book, o), follows |-> follows, limits |-> o.limits]
      usable == Usable(book, cw, plan, o, takes)
      moved == usable /\ Moved(book, cw, plan, o)
  IN  IF ~plan.compileRequired /\ plan.reason = "NoDirtyFormulas"
      THEN [scope |-> {}, compiled |-> cw, results |-> previous.results, failed |-> FALSE]
      ELSE IF ~usable \/ moved
      THEN [scope |-> Cell, compiled |-> fresh, results |-> FreshResults(book, o),
            failed |-> \/ Cardinality(plan.dirty) > MaxEvaluated
                       \/ Cardinality(FormulaCells(fresh.formulas) \ Unevaluated(fresh.formulas))
                            > MaxEvaluated
                       \/ moved /\ plan.reason = "IncrementalRequested"]
      ELSE [scope |-> Evaluated(plan), compiled |-> kept,
            results |-> IF plan.reason \in FullReasons THEN FullResults(kept.formulas, book, o)
                        ELSE IncrementalResults(kept.formulas, book, o, previous.results, plan.dirty),
            failed |-> Cardinality(plan.dirty) > MaxEvaluated]

(* What with_formula_edits and a compilation may turn out to be, where the *)
(* model abstracts from what decides it.                                   *)
TakesEdits(plan) == IF plan.formulaEdits = {} THEN {TRUE} ELSE BOOLEAN

GraphFollows(book) == IF \E c \in Cell : book.content[c] \in Dynamic THEN BOOLEAN ELSE {TRUE}

(***************************************************************************)
(* PreparedCalculation::run, outside the session: it completes with a      *)
(* result and a delta, or ends with an error if it was cancelled or passed *)
(* a limit.                                                                *)
(***************************************************************************)
RunCalculation(j) ==
  /\ jobs[j].kind = "calc"
  /\ \E takes \in TakesEdits(jobs[j].plan), follows \in GraphFollows(jobs[j].book) :
       LET job   == jobs[j]
           out   == Execute(job.book, job.compiled, job.previous, job.plan, job.options,
                            takes, follows)
           calc  == [source |-> job.book, revision |-> job.revision, options |-> job.options,
                     results |-> out.results]
           delta == Delta(job.previous, calc, out.scope)
       IN  jobs' = [jobs EXCEPT ![j] =
             IF job.cancelled \/ out.failed \/ DeltaSize(delta) > MaxDeltaCells THEN Idle
             ELSE [kind |-> "done", cancelled |-> FALSE, cursor |-> job.cursor,
                   compiled |-> out.compiled, calculation |-> calc, delta |-> delta]]
  /\ UNCHANGED session

(* CancellationToken::cancel, at any moment before the install.            *)
Cancel(j) ==
  /\ jobs[j].kind \in {"calc", "done"}
  /\ jobs' = [jobs EXCEPT ![j].cancelled = TRUE]
  /\ UNCHANGED session

(* Mutants: an edit, or another calculation, installed since the prepare   *)
(* goes unnoticed.                                                         *)
RevisionIgnored(job) == ~job.cancelled /\ job.cursor = nextCursor

CursorIgnored(job) == ~job.cancelled /\ job.calculation.revision = draft.revision

(* The checks of preview_install.                                          *)
CalculationCurrent(job) ==
  /\ ~job.cancelled
  /\ job.calculation.revision = draft.revision
  /\ job.cursor = nextCursor

(* install: the calculation becomes current and its delta joins the history. *)
InstallCalculation(j) ==
  /\ jobs[j].kind = "done"
  /\ CalculationCurrent(jobs[j])
  /\ compiled' = jobs[j].compiled
  /\ calculation' = jobs[j].calculation
  /\ dirty' = {}
  /\ formulaEdits' = {}
  /\ pending' = FALSE
  /\ rebuild' = FALSE
  /\ nextCursor' = nextCursor + 1
  /\ history' = Retain(history, [cursor |-> nextCursor, delta |-> jobs[j].delta], MaxRetained)
  /\ jobs' = [jobs EXCEPT ![j] = Idle]
  /\ UNCHANGED draft

(* StaleResult or Cancelled: the result is dropped, the session kept.      *)
RejectCalculation(j) ==
  /\ jobs[j].kind = "done"
  /\ ~CalculationCurrent(jobs[j])
  /\ jobs' = [jobs EXCEPT ![j] = Idle]
  /\ UNCHANGED session

-----------------------------------------------------------------------------
Next ==
  \E j \in Job :
    \/ \E batch \in Batch : PrepareChanges(j, batch)
    \/ InstallChanges(j)
    \/ RejectChanges(j)
    \/ \E mode \in Modes, o \in Options : PrepareCalculation(j, mode, o)
    \/ RunCalculation(j)
    \/ Cancel(j)
    \/ InstallCalculation(j)
    \/ RejectCalculation(j)

Spec == Init /\ [][Next]_vars

-----------------------------------------------------------------------------
Draft == [book : Book, layout : Layouts, revision : Nat, presentation : Nat]

Staged == [draft : Draft, rebuild : BOOLEAN, dirty : SUBSET Cell, formulaEdits : SUBSET Cell,
           pending : BOOLEAN]

Plan == [reason : FullReasons \union PartialReasons, compileRequired : BOOLEAN,
         formulaEdits : SUBSET Cell, dirty : SUBSET Cell]

DeltaRecord == [base : Nat, result : Nat, changed : Results, removed : SUBSET Cell]

EditJob == [kind : {"edit"}, batch : Batch, baseRevision : Nat, basePresentation : Nat,
            baseCursor : Nat, staged : Staged]

CalculationJob == [kind : {"calc"}, cancelled : BOOLEAN, book : Book, revision : Nat, cursor : Nat,
                   compiled : CompiledWorkbook \union {None},
                   previous : Calculation \union {None}, options : Options, plan : Plan]

DoneJob == [kind : {"done"}, cancelled : BOOLEAN, cursor : Nat, compiled : CompiledWorkbook,
            calculation : Calculation, delta : DeltaRecord]

(* Every part of the session and every job in flight has its type.         *)
TypeOK ==
  /\ draft \in Draft
  /\ compiled \in CompiledWorkbook \union {None}
  /\ calculation \in Calculation \union {None}
  /\ dirty \subseteq Cell
  /\ formulaEdits \subseteq Cell
  /\ pending \in BOOLEAN
  /\ rebuild \in BOOLEAN
  /\ nextCursor \in Nat \ {0}
  /\ history \in Seq([cursor : Nat, delta : DeltaRecord])
  /\ jobs \in [Job -> {Idle} \union EditJob \union CalculationJob \union DoneJob]

(***************************************************************************)
(* An installed calculation of the current revision holds exactly what a   *)
(* calculation from scratch would compute, whichever of the incremental,   *)
(* recompiled and full passes produced it (prepare_recalculation, execute, *)
(* install).                                                               *)
(***************************************************************************)
CurrentCalculationIsFresh ==
  calculation # None /\ calculation.revision = draft.revision =>
    calculation.results = FreshResults(draft.book, calculation.options)

(***************************************************************************)
(* Between an edit and the next calculation, every cell outside the dirty  *)
(* set still shows what a calculation from scratch of the edited workbook  *)
(* would show: the invalidation of prepare_changes misses no reader, over  *)
(* any number of batches.                                                  *)
(***************************************************************************)
CleanResultsAreFresh ==
  calculation # None /\ ~rebuild =>
    \A c \in Cell \ dirty :
      calculation.results[c] = FreshResults(draft.book, calculation.options)[c]

(***************************************************************************)
(* The compiled workbook that the next pass reuses differs from the edited *)
(* workbook only at cells listed for local recompilation or at dirty       *)
(* formulas whose references depend on values.                             *)
(***************************************************************************)
CompiledIsCurrent ==
  calculation # None /\ ~rebuild =>
    LET k == CompileAll(draft.book, calculation.options) IN
    /\ formulaEdits \subseteq dirty
    /\ \A c \in Cell \ formulaEdits :
         compiled.formulas[c] # k[c] => c \in dirty /\ draft.book.content[c] \in Dynamic

(***************************************************************************)
(* Installing a staged batch has the effect of preparing and installing it *)
(* in one step at that moment: no edit, presentation edit or calculation   *)
(* installed since the batch was prepared is lost (install_changes).       *)
(***************************************************************************)
InstalledEditsAreAtomic ==
  [][\A j \in Job : InstallChanges(j) =>
       LET now == StageChanges(Live, jobs[j].batch) IN
       /\ draft' = now.draft
       /\ dirty' = now.dirty
       /\ formulaEdits' = now.formulaEdits
       /\ pending' = now.pending
       /\ rebuild' = now.rebuild]_vars

(***************************************************************************)
(* The retained deltas carry consecutive cursors up to the last one issued *)
(* and consecutive revisions up to the installed calculation's, so that a  *)
(* client that follows cursors skips nothing (install, changes_since).     *)
(***************************************************************************)
HistoryIsContiguous ==
  /\ Len(history) <= MaxRetained
  /\ calculation # None => Len(history) > 0
  /\ \A i \in 1 .. Len(history) :
       /\ history[i].cursor = nextCursor - Len(history) + i - 1
       /\ i < Len(history) => history[i].delta.result = history[i + 1].delta.base
       /\ i = Len(history) => history[i].delta.result = calculation.revision

(***************************************************************************)
(* The session implements AtomicSession: whatever the jobs interleave, its *)
(* clients see edits and calculations that happen at one moment, results   *)
(* of a calculation from scratch, and exact deltas, although the delta of  *)
(* an incremental pass looks only at the dirty cells.                      *)
(***************************************************************************)
Atomic == INSTANCE AtomicSession WITH
  draft <- draft, calculation <- calculation, nextCursor <- nextCursor, history <- history

ImplementsAtomicSession == Atomic!AtomicSpec

(***************************************************************************)
(* After a calculation the compiled references are those of the workbook   *)
(* and options calculated: a job "in which a formula's references move to  *)
(* other targets [...] compiles the workbook again" (execution_mode).      *)
(***************************************************************************)
InstalledTargetsAreCurrent ==
  calculation # None /\ calculation.revision = draft.revision =>
    compiled.formulas = CompileAll(draft.book, calculation.options)
=============================================================================
