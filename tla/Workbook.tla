------------------------------ MODULE Workbook ------------------------------
(***************************************************************************)
(* Workbooks, what a calculation of one computes, and the two ways the     *)
(* engine computes it: from scratch (calculate_and_compile) and from the   *)
(* formulas compiled earlier, for every formula or only the dirty ones     *)
(* (calculate_from_compiled).                                              *)
(*                                                                         *)
(* The arithmetic of formulas is left uninterpreted.  The result of a      *)
(* formula is the set of everything it was computed from: for each cell it *)
(* reads, directly or through other formulas, the literal or the compiled  *)
(* formula there together with the inputs that formula consults.  Two      *)
(* results are equal only if no evaluator could tell the computations      *)
(* apart, so equality here implies equality of the values in the code.     *)
(***************************************************************************)
EXTENDS Naturals, FiniteSets, Sequences

CONSTANTS
  Cell,           \* cells, by their stable identity (CalculationCellId)
  Literal,        \* literal contents, one of which stands for a blank cell
  Formula,        \* formula texts
  Names,          \* defined names and the date system, taken together
  Tables,         \* the geometry of tables and the names of sheets
  Formats,        \* number formats
  Layouts,        \* presentation: styles, widths, heights, panes, phonetics
  VolatileInput,  \* today, now and the random seed, taken together
  Semantics,      \* locale, arithmetic and solver options, taken together
  EvalLimits,     \* CalculationLimits, which the compiled state records
  TableReader,    \* the formulas that read a table or name a sheet
  FormatReader,   \* the formulas that read number formats
  VolatileReader, \* the formulas that read the volatile inputs
  Dynamic,        \* the formulas whose references depend on values (INDIRECT)
  LocaleDynamic,  \* those of Dynamic whose references depend on Semantics too
  TableNames,     \* the values of Names in which a defined name reads a table
  Selector,       \* the cell whose value selects the target of a Dynamic formula
  Resolve(_, _, _, _, _),
                  \* the cells a formula reads, given its text and the names,
                  \* tables, selecting content and semantics it depends on
  None            \* no value

Content == Literal \union Formula

Book == [content : [Cell -> Content], names : Names, tables : Tables, format : Formats]

OptionSet == [volatile : VolatileInput, semantics : Semantics, limits : EvalLimits]

(***************************************************************************)
(* A compiled formula: its text, the defined names and, if it or a defined *)
(* name reads them, the tables it was compiled with, and the cells its     *)
(* references resolved to.  References that depend on values resolve with  *)
(* the content of the selecting cell.                                      *)
(***************************************************************************)
Compiled == [formula : Formula, names : Names, tables : Tables \union {None},
             reads : SUBSET Cell]

(* What a cell contributes to the results computed from it.                *)
Contribution == [cell : Cell, source : Content \union Compiled, format : Formats \union {None},
                 volatile : VolatileInput \union {None}, semantics : Semantics \union {None}]

(* The result of a formula, and the results of all cells: None at a literal. *)
Value == [inputs : SUBSET Contribution]

Results == [Cell -> Value \union {None}]

(* An installed calculation: of which workbook and revision, with which options. *)
Calculation == [source : Book, revision : Nat, options : OptionSet, results : Results]

(* The compiled workbook: follows is graph_follows_values and no formula   *)
(* left out at the dependency limit; limits are those compiled with.       *)
CompiledWorkbook == [formulas : [Cell -> Compiled \union {None}], follows : BOOLEAN,
                     limits : EvalLimits]

(***************************************************************************)
(* Contents, inputs and results differ from None, a formula reads cells    *)
(* only, and one whose references depend on values reads the cell that     *)
(* selects its target.                                                     *)
(***************************************************************************)
ASSUME WorkbookAssumption ==
  /\ \A S \in {Content, Names, Tables, Formats, Layouts, VolatileInput, Semantics} : None \notin S
  /\ None \notin Compiled /\ None \notin Value /\ None \notin Calculation
  /\ None \notin CompiledWorkbook
  /\ Literal \intersect Formula = {}
  /\ Dynamic \subseteq Formula /\ LocaleDynamic \subseteq Dynamic
  /\ Selector \in [Dynamic -> Cell]

ASSUME ResolveAssumption ==
  \A f \in Formula, n \in Names, t \in Tables \union {None}, s \in Content \union {None},
     l \in Semantics \union {None} :
    /\ Resolve(f, n, t, s, l) \subseteq Cell
    /\ f \in Dynamic => Selector[f] \in Resolve(f, n, t, s, l)

(* The compiled form of the formula at c, or None if c holds a literal.    *)
CompileCell(b, o, c) ==
  LET f == b.content[c]
      tables == IF f \in TableReader \/ b.names \in TableNames THEN b.tables ELSE None
      selected == IF f \in Dynamic THEN b.content[Selector[f]] ELSE None
      locale == IF f \in LocaleDynamic THEN o.semantics ELSE None
  IN  IF f \notin Formula THEN None
      ELSE [formula |-> f, names |-> b.names, tables |-> tables,
            reads |-> Resolve(f, b.names, tables, selected, locale)]

(* The formulas of the whole workbook, compiled with the options o.        *)
CompileAll(b, o) == [c \in Cell |-> CompileCell(b, o, c)]

Reads(k, c) == IF k[c] = None THEN {} ELSE k[c].reads

FormulaCells(k) == {c \in Cell : k[c] # None}

(***************************************************************************)
(* The cells reached from c by reads that stay in S: the intersection of   *)
(* all the sets that contain c and are closed under such reads.            *)
(***************************************************************************)
ClosedIn(k, S, U) == \A u \in U : Reads(k, u) \intersect S \subseteq U

ReachIn(k, S, c) ==
  {d \in Cell : \A U \in SUBSET Cell : (c \in U /\ ClosedIn(k, S, U)) => d \in U}

Reach(k, c) == ReachIn(k, Cell, c)

(* close_over_dependents: S and every formula that depends on a cell of S. *)
Dependents(k, S) == {c \in Cell : \E d \in S : d \in Reach(k, c)}

(* Formulas on a cycle, and formulas on or behind one: neither is evaluated. *)
CycleCells(k) == {c \in Cell : \E d \in Reads(k, c) : c \in Reach(k, d)}

Unevaluated(k) == Dependents(k, CycleCells(k))

ReadersOf(k, kind) == {c \in Cell : k[c] # None /\ k[c].formula \in kind}

(* What the cell c contributes to every result computed from it.           *)
Item(k, b, o, c) ==
  IF k[c] = None
  THEN [cell |-> c, source |-> b.content[c], format |-> None, volatile |-> None,
        semantics |-> None]
  ELSE [cell      |-> c,
        source    |-> k[c],
        format    |-> IF k[c].formula \in FormatReader THEN b.format ELSE None,
        volatile  |-> IF k[c].formula \in VolatileReader THEN o.volatile ELSE None,
        semantics |-> o.semantics]

(* The results of evaluating every formula of b with the compiled formulas k. *)
FullResults(k, b, o) ==
  [c \in Cell |-> IF b.content[c] \in Formula
                  THEN [inputs |-> {Item(k, b, o, d) : d \in Reach(k, c)}]
                  ELSE None]

(* What a calculation of b that knows nothing of earlier ones computes.    *)
FreshResults(b, o) == FullResults(CompileAll(b, o), b, o)

(***************************************************************************)
(* The results of evaluating only the formulas in dirty: a dirty formula   *)
(* is computed from the dirty ones it reads, from the kept results of the  *)
(* others and from literals; every other cell keeps its previous result,   *)
(* and a dirty cell that holds no formula any more loses its result.       *)
(***************************************************************************)
DirtyResult(k, b, o, previous, dirty, c) ==
  LET inner == ReachIn(k, dirty, c)
      outer == (UNION {Reads(k, d) : d \in inner}) \ dirty
      kept(d) == IF previous[d] = None THEN {Item(k, b, o, d)} ELSE previous[d].inputs
  IN  [inputs |-> {Item(k, b, o, d) : d \in inner} \union UNION {kept(d) : d \in outer}]

IncrementalResults(k, b, o, previous, dirty) ==
  [c \in Cell |-> IF c \notin dirty THEN previous[c]
                  ELSE IF b.content[c] \notin Formula THEN None
                  ELSE DirtyResult(k, b, o, previous, dirty, c)]

(* Mutant: only the direct readers of a changed cell.                      *)
AffectedDirectly(k, changed) ==
  {c \in FormulaCells(k) : c \in changed \/ Reads(k, c) \intersect changed # {}}

(***************************************************************************)
(* affected_formulas: the compiled formulas that read a changed cell or    *)
(* are one, and every formula that depends on them.                        *)
(***************************************************************************)
Affected(k, changed) ==
  Dependents(k, {c \in FormulaCells(k) : c \in changed \/ Reads(k, c) \intersect changed # {}})

(* Mutant: a pass never looks whether references moved.                    *)
TargetsNeverMoved(k, b, o, evaluated) == FALSE

(***************************************************************************)
(* targets_moved: a pass over compiled formulas finds, at a formula it     *)
(* evaluates, that the references resolve to other targets than compiled.  *)
(***************************************************************************)
TargetsMoved(k, b, o, evaluated) ==
  \E c \in (evaluated \intersect ReadersOf(k, Dynamic)) \ Unevaluated(k) :
    Reads(CompileAll(b, o), c) # Reads(k, c)

-----------------------------------------------------------------------------
(* An edit batch: the new value of everything it sets, None for the rest.  *)
EditBatch == [content : [Cell -> Content \union {None}], names : Names \union {None},
              tables : Tables \union {None}, format : Formats \union {None},
              layout : Layouts \union {None}]

(* Mutant: what a batch leaves out is erased.                              *)
Overwrite(new, old) == new

Keep(new, old) == IF new = None THEN old ELSE new

(***************************************************************************)
(* WorkbookDraft::apply_batch: every change of the batch or none.  The     *)
(* semantic revision advances once if the batch changed the workbook, the  *)
(* presentation revision if it changed the presentation.                   *)
(***************************************************************************)
ApplyBatch(d, batch) ==
  LET book == [content |-> [c \in Cell |-> Keep(batch.content[c], d.book.content[c])],
               names   |-> Keep(batch.names, d.book.names),
               tables  |-> Keep(batch.tables, d.book.tables),
               format  |-> Keep(batch.format, d.book.format)]
      layout == Keep(batch.layout, d.layout)
  IN  [book |-> book, layout |-> layout,
       revision |-> d.revision + (IF book # d.book THEN 1 ELSE 0),
       presentation |-> d.presentation + (IF layout # d.layout THEN 1 ELSE 0)]

(***************************************************************************)
(* build_delta, build_incremental_delta and build_empty_delta: which cells *)
(* of the scope have another result now (and which), and which lost it.    *)
(***************************************************************************)
Delta(previous, calc, scope) ==
  LET old(c) == IF previous = None THEN None ELSE previous.results[c] IN
  [base    |-> IF previous = None THEN calc.revision ELSE previous.revision,
   result  |-> calc.revision,
   changed |-> [c \in Cell |-> IF c \in scope /\ calc.results[c] # old(c) THEN calc.results[c] ELSE None],
   removed |-> {c \in scope : calc.results[c] = None /\ old(c) # None}]

DeltaSize(delta) ==
  Cardinality({c \in Cell : delta.changed[c] # None}) + Cardinality(delta.removed)

(* The retained deltas after one more: at most max of them, the newest.    *)
Retain(deltas, delta, max) ==
  LET all == Append(deltas, delta) IN
  IF Len(all) > max THEN Tail(all) ELSE all
=============================================================================
