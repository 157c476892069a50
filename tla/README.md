# Verification of CellRune

CellRune is a headless engine that opens, edits, calculates and writes XLSX workbooks: a Rust core
(`crates/cellrune`), a session layer shared by every host (`crates/cellrune-interop`), a local MCP
server (`crates/cellrune-mcp`) and Node and Python bindings (`bindings/`). This directory holds TLA+
models of the stateful parts, the TLC runs that check them on small instances, and TLAPS proofs of
the core's properties for every instance. `PROJECT.json` maps every definition to the source lines
it stands for.

## The system

All of CellRune follows one pattern: work is *prepared* under a lock from captured state, *runs*
outside the lock, and is *installed* under the lock if what it was prepared from is still current.

| part | state | operations that change it | module |
| --- | --- | --- | --- |
| calculation session (`calculation/session`) | draft, compiled workbook, calculation and its options, dirty cells, formula edits, rebuild flags, delta history and cursor | prepare and install edits; prepare, run, cancel and install calculations | `CalculationSession` |
| draft, compilation, evaluation, deltas | (values) | apply a batch, resolve references, impact closure, full and incremental evaluation, delta, history retention | `Workbook` |
| transactions (`session/transaction*`) | captured base, candidate, report | prepare, run, validate, install, discard | `SessionTransactions` |
| delta paging, requests for single cells (`changes_since`, `session/targeted.rs`) | the client's cursor and copy; what a request captured | follow; prepare, finish | `DeltaClient`, `TargetRequests` |
| planning of single cells (`eval/targeted.rs`) | search stack, loaded and finished formulas, recorded dependencies | follow, refresh, evaluate, block, classify | `TargetPlanner` |
| dependency graph (`graph.rs`, `eval/dependency_areas.rs`, `eval/recompile.rs`, `eval/sheet_remap.rs`) | what formulas wait for, shared areas, areas remembered by range and block | compile in full, take formula edits in place, follow sheets | `DependencyAreas` |
| evaluation order (`graph.rs`) | open dependencies, ready formulas, search stacks | complete, take, visit, find components | `EvaluationSchedule` |
| structural edits (`grid.rs`, `draft/batch/grid_edit.rs`, `grid_rewrite.rs`, `grid_transform.rs`) | sheet, edit history, mutations kept for the writer | insert, delete and move lines, move ranges; set and clear cells | `GridEdits`, `SheetGrid` |
| atomic file output (`xlsx/write/path_output.rs`) | destination, temporary files, what is synced | write, link, rename, reserve, undo, clean up, sync | `AtomicSave` |
| interop session (`cellrune-interop/service`) | engine, active request, published preview, id counters | prepare, install, finish, publish, commit, discard, cancel, abandon | `WorkbookSession` |
| MCP handlers (`cellrune-mcp/tools.rs`) | one handler and worker per request, the session lock | recalculate, calculate targets, preview, apply, commit, discard; cancellation by the client | `McpRequests` |
| MCP session cache (`cellrune-mcp/session.rs`) | resident sessions, last access, ids, handles | get, touch, insert with eviction, close, list, expiry | `SessionCache` |
| binding support (`bindings/common`, Node and Python tasks) | closed flag, registry of cancellable operations, shared session | tasks, synchronous calls, abort, cancel, close | `BindingTasks` |
| parser, functions, XLSX and CSV input and output, tables, presentation | none of their own | pure or sequential | not modelled |

How they interact: an MCP handler gets a session from the cache, takes its lock, calls the interop
session, which calls the calculation session; the binding tasks do the same through
`SharedWorkbookSession`. Transactions, followers of deltas and requests for single cells run against
the calculation session itself, and their modules extend `CalculationSession`. The layers above it are
modelled over an abstraction of the one below: `SessionCache` knows only that a handler takes locks,
and `McpRequests` and `BindingTasks` know of the engine only what its guards compare (draft identity,
semantic and presentation revision, cursor). Below the session, `Workbook` says that an evaluation
reaches all that a formula depends on and evaluates inputs first. Three modules show why it may:
`DependencyAreas` that the graph, kept up to date in place, flattens to the references of the formulas;
`EvaluationSchedule` that the order over any such graph is one in which inputs come first and cycles
are told apart; `TargetPlanner` that a search from some targets agrees with that on the targets.

What is hard in this code, and so what the properties are about: results that arrive after the
workbook, the options or another calculation changed; incremental passes and graphs edited in place
that must equal full ones after any sequence of edits; references that move when a value, a line or a
sheet does; a writer that replays edits on a source document; two requests that supersede, cancel or
invalidate one another at any moment; a cancellation that races a commit; eviction and expiry decided
by reference counts; close while everything runs; a crash in the middle of a save. The list, with
source lines, is under `hazards` in `PROJECT.json`.

## Modules

* `Workbook` has workbooks as values: cells with literals or formulas, defined names, tables and
  number formats. What a formula computes is uninterpreted: a result is a term that records the
  formula, the results it read and the options, so that two results are equal only if every correct
  evaluator must agree. References are resolved by a constant; a *dynamic* formula reads a cell that a
  value selects. Cycles, impact closure, full and restricted evaluation, deltas and retention are
  operators.
* `CalculationSession` is `WorkbookCalculationSession`: `PrepareChanges`/`InstallChanges` for edits and
  `PrepareCalculation`/`RunCalculation`/`InstallCalculation` for calculations, with the whole decision
  between full, recompiled and incremental passes (`DecisionReason`), the limits, cancellation and
  refusals. Any number of jobs are in flight.
* `AtomicSession` is what the session promises: edits and calculations take effect at one moment,
  results are those of a calculation from scratch, and the delta is exactly the difference.
  `CalculationSession` refines it (`ImplementsAtomicSession`).
* `SessionTransactions` adds transactions. The base and the candidate are calculated with the same
  operators as the session's own calculations (`PlanCalculation`, `Execute`), on session records that
  `run_inner` builds. `AtomicTransactions` adds an atomic commit to `AtomicSession`;
  `ImplementsAtomicTransactions` is the refinement.
* `DeltaClient` is a client that keeps a copy of the results from the pages of `changes_since`, and
  `TargetRequests` one that asks for values without installing anything. The values a request computes
  are those of a calculation from scratch there; `TargetPlanner` is about how they are computed.
* `GridEdits` has the structural edits as functions on lines, addresses, intervals and ranges.
  `SheetGrid` is one sheet under them: cells with their style, one formula reference, array formulas,
  merged ranges, validations, every reference another sheet can hold, and the mutations and the history
  from which the writer reproduces the sheet. The history is kept as what it maps, in both directions,
  since the code only ever maps addresses through it.
* `DependencyAreas` is the graph: how ranges become blocks of formulas that later ranges share, what is
  forgotten when a cell becomes a formula or stops being one, and the retention and renumbering of
  areas. Formula edits and changes of sheets come as batches with the invalidation of
  `prepare_changes`; `Recalculate` takes them in place or compiles in full.
* `EvaluationSchedule` is `schedule_cancellable` on any graph, one step per area completed, formula
  taken or stack entry popped. The stack of completed areas is a set: the order in which it is emptied
  does not matter to anything.
* `TargetPlanner` is `calculate_targets`, one step per turn of its loop. References that depend on
  values are pairs of a selecting and a selected formula; reads that only an evaluation shows are given
  per formula.
* `AtomicSave` has any number of Save As calls on one destination. `data` and `outlives` say what of a
  document and of the directory survives a power loss. `SavedFile` is the promise, and
  `ImplementsSavedFile` the refinement, in which an empty reservation counts as no file.
* `WorkbookSession` has the interop session as a record and one operator per operation;
  `McpRequests` and `BindingTasks` extend it with the handlers of the two kinds of host. Every
  request is served once and names its cancellation token, so all bounds follow from the number of
  requests. One step is one section under the session lock; only `workbook_apply_changes` keeps the
  lock over two steps (`holder`).
* `SessionCache` has the cache, with a clock, and handlers as holders of handles that take the lock of
  their session one to three times. `workbook_import_sheet` takes two sessions.
* The theorems are in `SessionPlanProofs`, `CalculationSessionProofs` (which extends it),
  `TransactionProofs` and `ClientProofs` (which both extend that); in `SheetGridProofs`, about
  `GridEdits` and `SheetGrid`; in `ScheduleProofs`; in `McpProofs`, about requests and the cache; and in
  `HostProofs`, about Save As and binding calls. The `MC` modules define the small instances; `MCHosts`,
  `MCSessionClients` and `MCStandalone` put several components into one run, in which the
  initial state chooses the one that moves, or the one client beside the jobs of a session.
  Operators commented "Mutant" are plausible faults of the definition that follows them; they show that
  a property can fail.

## Runs

| run | instance | shows |
| --- | --- | --- |
| `session` | 3 cells, 2 jobs, 10 batches: values, chained, value-dependent and circular formulas, names, tables, formats, layout | results kept outside the dirty set are fresh, compiled formulas and targets are tracked, the session refines `AtomicSession`, an installed batch equals one applied in a single step |
| `clients` | 2 jobs, 2 sets of options, history of 2, pages of 2, and a follower or a request; or one transaction beside one job, 3 batches, limits of 3 evaluations and 3 delta cells | current results are fresh, the history has no gap, the follower misses nothing unnoticed, answers are current; the preview is exact, the session with commits refines `AtomicTransactions` |
| `mcp` | 3 MCP requests of any kinds | a published preview is current, no orphaned active request, a cancelled request changed nothing, a staged batch stays current, consumed previews do not return |
| `hosts` | 2 binding calls and close, or 2 cache clients (capacity 2, 3 ids, time to live 1), or 2 MCP requests | when close returns everything still running has been cancelled, and all calls end; the cache keeps its bound and what handlers hold; every handler and every request is answered |
| `standalone` | 3 writers; sheets of 4 by 2 cells, 2 structural edits and a cell edit; 2 sheets of 4 by 2 cells and 3 batches; 3 formulas and 2 areas; 3 formulas to plan | the properties of `AtomicSave`, `SheetGrid`, `DependencyAreas`, `EvaluationSchedule` and `TargetPlanner` |
| `options` | a locale-dependent reference behind a cycle | **violation**: compiled targets of earlier options survive |
| `busy` | 2 clients of the cache | **violation**: a session is removed underneath an import |
| `orphan` | 2 binding calls | **violation**: a cancelled calculation remains the active request |
| `clobber` | calls with and without `replace_existing`, no hard links | **violation**: a rename replaces another call's document |
| `rules` | a validation on a whole column | **violation**: it reads another row after an insertion |
| `arrays` | an array formula of which only the first cell is stored | **violation**: an insertion cuts it at the end of the sheet |
| `rename` | one batch that renames and moves a sheet | **violation**: a formula keeps waiting for nothing |

What the properties of `standalone` say:

* `DestinationIsWhole`, `SavedOutlivesPowerLoss`, `ImplementsSavedFile`: whatever fails and whenever
  power is lost, the destination names the old file or one whole document, a reported save survives, and
  only calls that may replace do. On a file system without links the refinement is checked for calls that
  all replace or all do not; `clobber` shows the mixed case.
* `WriterReproducesSheet`: source document, history and mutations determine the sheet.
  `ReferencesKeepTheirCells`: a reference follows its cells and nothing else.
  `MergedAndArrayRangesStayWhole`, `LineEditsCanBeUndone`, `PartialRulesFollowTheirCells`: merged ranges
  never come to overlap and an array formula read with the last cell of its range is never torn, the
  undo of a line edit is accepted and puts the cells back, and a validation that does not span the sheet
  reads on from each cell what it read. `arrays` shows what becomes of other array formulas.
* `GraphFollowsFormulas`, `RememberedAreasHold`, `EdgesAreThoseOfFullCompilation`: a graph edited in
  place lets formulas wait for exactly what they read, holds no area that lies, and has as many edges as
  one compiled in full.
* `OrderFollowsWaits`, `OrderIgnoresAreas`, `FormulasAreClassified`: the order is topological and the one
  of the graph without areas; circular and blocked are what their definitions say.
* `TargetsAgreeWithFullCalculation`, `InputsComeFirst`: a request for targets agrees with a full
  calculation and evaluates nothing early. A formula on a cycle is not resolved again, so that where
  such a formula selects others by a value, the answer may be blocked for circular; the property says
  which answers may differ.

### Bounds

The calculation session needs two jobs for every race (one overtakes the other) and three cells for a
chain behind an edit and a cycle with a reader. Revisions and cursors go past the retained history, so
that deltas are dropped under a follower. A transaction evaluates a base and a candidate, of two formulas
each, and passes the limit of three; a single calculation does not reach it there and ends, where the
code passes a limit, as a cancelled one does. The theorems hold for every limit. Two clients fill the cache with sessions in use, as an import
holds two, and one id more than its capacity makes eviction happen. Three requests are a preview, the
one that supersedes it and a third that consumes or invalidates. Three writers are one that installs,
one that replaces it and one that fails or is refused. Four rows hold a range, a line before and one
after it, and an edit of two lines; all small structural edits are tried, two in a row. In
`DependencyAreas` a leaf holds one member, so that blocks split as they do in the code past
`LEAF_MEMBERS`, and the edge limit is reached. `EvaluationSchedule` takes all graphs of three formulas
with at most two dependencies each over nested areas; `TargetPlanner` all references among three
formulas. Jobs and requests are interchangeable, so the safety runs of the sessions use
symmetry; runs with liveness do not.

### Deadlock

Deadlock is checked in the runs of the calculation session, `session` and `clients`. It is not in the
others, where the system stops by design: every request, call and save is served once, a schedule or plan
ends, and the edits of a sheet are bounded.

### Fairness

`HandlersAnswer` and `ServerRequestsAreAnswered` assume that every handler that can take a step takes
one: tokio runs ready tasks, workers run on their own threads and its mutex is a queue.
`ClosedWorkEnds` assumes this of the binding threads, but of a calculation only that it ends once its
token is cancelled, which the engine polls; an uncancelled one may run for ever.

## Findings

* `options`: a calculation with other options and no pending edits reuses compiled targets that an
  unevaluated dynamic formula resolved under the earlier locale.
* `busy`: the worker of `workbook_import_sheet` gives up its handles before the handler has answered,
  so the session can be closed, evicted or expired under it, and the answer is an error although the
  import was installed.
* `orphan`: `install_recalculation` returns early for a cancelled request without clearing it and the
  bindings do not abandon it, so that `calculation_active` stays true with nothing running.
* `clobber`: without hard links, `reserve_and_rename` may replace a document that another call renamed
  over its reservation.
* `rules`: a validation over a whole column keeps its range when a row is inserted before the first; its
  formula is not shifted, so every cell reads the row below its own.
* `arrays`: a legacy array formula need not have all its cells stored, and for an insertion
  `validate_sheet` looks at stored cells, merged ranges and tables only. It accepts one that cuts the
  formula's range at the end of the sheet, although it is to refuse "changing part of a legacy array
  formula".
* `rename`: `prepare_changes` finds the readers of a renamed sheet with the old sheet indices of the
  compiled workbook and the new order of the draft; a batch that also moves sheets misses some.

Observed while modelling, without a run of their own: a merged range over a whole axis blocks every
insertion, also the one that undoes a deletion, which is why `LineEditsCanBeUndone` excepts it; and a
range over a whole axis keeps its ends through every line edit, which for a table means that it keeps
its columns. A request for single targets may report a formula as blocked that a full calculation
reports as circular: a formula on a cycle that selects others by a value is not resolved again. The
property `TargetsAgreeWithFullCalculation` lets exactly these answers differ.

## Proofs

The theorems about the session hold for every set of cells, formulas, names, batches, options and jobs
and every limit that satisfies the named assumptions of `Workbook` and `CalculationSession`, and with
any number of transactions, requests and clients beside; those about sheets for axes of every length
and all structural edits; those about schedules for every graph; those about Save As for any number of
calls and power losses; those about MCP handlers, cache clients and binding calls for any number of
them.

**Session.** `SessionPlanProofs` begins with values. `LocalEditKeeps`: a formula outside the affected
set of an edit reads nothing that the edit touched, so its result stays. `IncrementalIsFull`:
evaluating a set closed under dependents, with fresh results elsewhere, gives the full results. Then
comes what one operation computes from a consistent session: `StageIsConsistent` for a batch and
`ExecuteIsFresh` for a pass, whichever is chosen.

`CalculationSessionProofs` has the inductive invariant `SessionInvariant`, one lemma per action, and
proves from it `TypeCorrect`, `InvalidationIsComplete`, `CompiledStateIsTracked`,
`CurrentResultsAreFresh`, `HistoryHasNoGaps`, `EditsAreAtomic`, `TargetsAreCurrent` and the refinement
`SessionImplementsAtomic`. The properties are not inductive alone: that a cell outside the dirty set is
fresh after an install depends on what the staged batch or the running job captured, so the invariant
also says of every job in flight that its captured state was consistent and, as long as the guards
would accept it, is the session's own. Then `ExecuteIsFresh` covers the pass and the guards carry it
over to the install. The theorems about the session assume that no reference depends on the options
(`LocaleDynamic = {}`); the `options` run shows why.

`TransactionProofs` adds transactions. `TransactionsKeepTheSession`: the invariant of the session
survives commits, and every transaction was prepared from a consistent session; while the checks of
`validate_transaction` would pass, that session is the present one. `PreviewsAreExact` rests on the
impact of a batch, which covers every cell whose result differs. `TransactionsAreAtomic` is the
refinement of `AtomicTransactions`.

`ClientProofs` adds those who read. `TargetAnswersAreCurrent`: an answer that is accepted is of the
present revision, and its results are those of the workbook. `FollowersMissNothing`: the view of a
follower that is not lost is the calculation at its cursor. The invariant says what the view must be
at every cursor that is still retained; that a page applied to it gives the view at the page's end is
shown by looking at the least cursor for which it would not, since a proof by induction is out of reach.

**Sheets**, in `SheetGridProofs`. The first part is about the operators of `GridEdits`. Of lines, then
of addresses, mapping and unmapping are inverse to one another and to the inverse edit
(`LineEditsAreReversible`); of intervals, an insertion or deletion loses no line of a reference and
takes none in (`IntervalsKeepTheirLines`). Lines of a range that stay together move by one distance
(`LinesTogether`), ranges that have no cell in common keep none (`RangesStayApart`), and the four pieces
of a range without another cover exactly the difference.

The second part proves four properties of a sheet under any sequence of edits.

* `WriterAlwaysReproducesSheet`. The property itself is the heart of the inductive invariant
  `WriterInv`, as it says for every address what the source, the history and the mutation there mean
  together; what has to be added is the shape of the variables. A structural edit keeps it because
  mapping is injective on the lines it keeps.
* `ReferencesFollowTheirCells`. `RefsInv` says that the reference to a single cell is the one to where
  that cell is now. Of ranges it speaks only while nothing was moved: a move takes the ends of a range
  along, not its cells, so from then on the property is about single cells.
* `RangesStayWhole`. `RangesInv` says that merged ranges meet no other, and of every array formula that
  was read with its last cell that it still has it and the extent it was read with: with its first and
  its last cell stored, an insertion that would push a part of it off the sheet is refused, and what an
  accepted edit does not split it moves as a whole. If all array formulas were read so and apart from
  the merged ranges and each other, they stay apart.
* `LineEditsAreUndone`. The inverse of an accepted line edit is accepted, because what it would split
  the edit itself would have split, and it maps every cell, style and array formula back. It is about
  sheets whose array formulas have their last cells, and where no merged range spans the axis.

`DocumentAssumption` says of documents what the reader ensures: merged ranges do not overlap
(`xlsx/reader/merge.rs` reports and drops those that do) and an array formula is in the first cell of its
range (`require_master_at_range_start` in `xlsx/reader/formula_cell.rs`). Nothing is assumed of the
other cells of an array formula, nor that array formulas keep apart. `GridAssumption` wants at least two
rows and columns.

**Schedules**, in `ScheduleProofs`. `ScheduleInv` says that `remaining` counts exactly the dependencies
that are not settled, where an area is settled once its dependents were told, and that all that is
ordered, ready or completed waits for nothing. An area holds only smaller nodes, so everything awaited
through settled areas is ordered (`SchedulesFollowWaits`). `ReadyInv` adds that a formula that waits for
nothing is ready or ordered; then `SchedulesIgnoreAreas` holds, since a formula all of whose awaited
formulas are ordered, with an unsettled area behind it, would have a least such area, and that waits for
nothing but what is settled.

`FormulasGetTheirClass` is about the two depth-first searches after the order: a formula ends as circular
exactly if it waits for itself, as blocked exactly if it does not but waits for a circular one, and in the
order otherwise. What a node reaches is defined as the least closed set (`Reach`), without recursion, and
every argument along a path is one about closed sets. `SettledInv` says that every set of settled nodes
has one that waits for none of the others, so nothing in the order is circular. `SearchInv` is about the
first search, with its stack of entered and unentered nodes: all above an entered node is reached from it,
dependencies were met or lie above, and, unless the search is still inside its component, all that a
finished node reaches was finished before the last node of that component. So the node the second search
starts from, the last that is finished and unassigned, is of a component that no other unassigned one
waits for, and what that search collects is exactly the component (`ComponentIsFound`); `ComponentsInv`
says that whole components are assigned and that the cycles are the assigned nodes that wait for
themselves. That a node left over waits for a circular one (`UnresolvedReachCycles`) comes from a smallest
set among those reached: a node that reaches least reaches itself.

**Save As**, in `HostProofs`: any number of calls, with errors at every step, crashes and power
losses. `SavesAreWhole` (the destination never names a partly written document) rests on `WholeInv`: every
document the destination names, or may name after a power loss, is synced, and was before anything named
it. `SavedDocumentsSurvive` and `SavesImplementSavedFile` assume `CallsAgree`: where hard links fail, the
calls on one destination all replace or all do not. `clobber` shows why they must. Their invariant
`AgreeInv` says that the destination still names the reservation of a call that has yet to rename over
it, that each call installs its document once and under a greater number than all before it, and that
after an install the destination names that document or a later one. Then a sync leaves nothing older for
a power loss to bring back.

**Binding calls**, in `HostProofs`. `ReleasedSessionsRunNothing` and `BindingPreviewsAreCurrent`
hold for any number of calls, whenever the session is closed. That a calculation superseded by a newer
one was told to stop as well takes two calculations and a close, one call more than the `hosts` run has:
it is this theorem that shows it.

**MCP handlers**, in `McpProofs`. The five invariants of the `mcp` run hold for any number of requests,
of any kinds, interleaved and cancelled in any way. `ActionEffects` sorts the handlers' steps into eight
effects on the request and the session; one lemma per effect shows that `RequestInv` stays. What it adds
to the properties: a request has an id exactly while its calculation is prepared and unanswered, ids and
preview ids are below the next ones, a staged batch means that its request holds the lock, and the
preview of the active request is later than the published one and all that were consumed. The last is
why `ConsumedPreviewsNeverReturn` holds: only the active request can publish, and a request that lost its
place never gets it back. `HeldSessionsAreResident` and `CacheKeepsItsBound` are about the cache: what a
handler holds is counted by the handles of its entry, and an entry with handles outside the cache is
never a victim.

### Only model-checked

`DependencyAreas`, whose blocks are recursive operators; `TargetPlanner`; the types of rules on a sheet
and `PartialRulesFollowTheirCells`, which filter sequences; the types of MCP requests; and every
liveness property, which the prover cannot treat.

## Not modelled

The map covers the stateful core, about 7,500 of the repository's 175,000 lines; most of the rest are
function libraries, file formats, conformance data and formatting, which compute values from values.
They are without interleavings and without state that outlives a call, and tests against recorded
values suit them better than a model of a few small inputs.

* Spilled arrays, and with them the second pass of the planner and provisional regions of the graph.
* What a batch that inserts, deletes or moves lines and ranges does to the dirty set: the session takes
  the cells that moved as cells edited where they left and where they landed (`moved_cells`), unless a
  name or table changed with them. What a batch that moves sheets does to the compiled workbook is in
  `DependencyAreas`, not in `CalculationSession`.
* Structural edits of tables, data tables, dynamic arrays, filters, conditional formats, panes, row and
  column properties and shared formulas; references to whole rows or columns, such as `A:A`, which keep
  their text through range moves that do not take all their cells along.
* Dynamic references whose selecting cell holds a formula (`SessionAssumption` wants literals there) or
  that depend on volatile inputs; names and tables as sources of areas.
* Poisoned locks, panics and `try_lock`; what an import installs; byte limits of answers other than as
  a failure; the paging of report details.
* File systems on which hard links work for one call and fail for the next: in `AtomicSave` they either
  work or do not.
* Lexer, parser, rewriter, functions, defined-name analysis, XLSX and CSV reader and writer, resources
  and schemas of the MCP server: sequential, without state of their own.
