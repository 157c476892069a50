------------------------------ MODULE SheetGrid ------------------------------
(***************************************************************************)
(* One worksheet of a draft under structural edits and cell edits: its     *)
(* cells, merged ranges and data validations, the references other sheets  *)
(* hold to it, and the bookkeeping from which the writer reproduces it     *)
(* from the source document: the structural edits in their order and one   *)
(* mutation per touched cell, in the coordinates of now.                   *)
(***************************************************************************)
EXTENDS GridEdits

CONSTANTS
  Sheets,     \* the worksheets documents may hold
  Edits,      \* the structural edits callers ask for
  Targets,    \* the cells callers write and clear
  MaxEdits,   \* bound on the structural edits of a draft
  MaxWrites   \* bound on the cell edits of a draft

(***************************************************************************)
(* A sheet: its cells, a function on the addresses that hold one, its      *)
(* merged ranges and its data validations.  A cell of a source document    *)
(* has its own style.                                                      *)
(***************************************************************************)
ASSUME SheetAssumption ==
  /\ Edits \subseteq GridEdit /\ Targets \subseteq Address
  /\ MaxEdits \in Nat /\ MaxWrites \in Nat
  /\ \A s \in Sheets :
       /\ s = [cells |-> s.cells, merged |-> s.merged, rules |-> s.rules]
       /\ DOMAIN s.cells \subseteq Address
       /\ \A a \in DOMAIN s.cells : s.cells[a] = [content |-> s.cells[a].content, style |-> a]

Occupied(s) == DOMAIN s.cells

ArrayAnchors(s) == {a \in Occupied(s) : s.cells[a].content.array # None}

ArrayRanges(s) == {s.cells[a].content.array : a \in ArrayAnchors(s)}

(***************************************************************************)
(* What the reader makes of a document: merged ranges of more than one     *)
(* cell, apart from one another, and array formulas in the first cell of   *)
(* their range.  The other cells of that range may be missing, and array   *)
(* ranges may overlap merged ranges and each other.                        *)
(***************************************************************************)
MergesApart(s) == \A r, q \in s.merged : r # q => Intersect(r, q) = None

ASSUME DocumentAssumption ==
  \A s \in Sheets :
    /\ \A r \in s.merged : r \in CellRange /\ r.first # r.last
    /\ MergesApart(s)
    /\ \A a \in Occupied(s) :
         LET content == s.cells[a].content IN
         /\ content = [at |-> a, reads |-> content.reads, array |-> content.array]
         /\ content.array # None => content.array \in CellRange /\ content.array.first = a

VARIABLES
  source,     \* the worksheet of the source document
  sheet,      \* the worksheet of the draft
  mutations,  \* DraftCellMutationStore: what the draft did to each cell
  history,    \* GridHistory, by what its edits do together
  refs,       \* what each reference of another sheet has become
  writes      \* how many cell edits there were

gridVars == <<source, sheet, mutations, history, refs, writes>>

(***************************************************************************)
(* A cell: what it holds, the source cell whose style it has (None for the *)
(* style of new cells), for a formula the range it reads and for a legacy  *)
(* array formula its range.                                                *)
(***************************************************************************)
CellContent == [at : Address, reads : CellRange \union {None}, array : CellRange \union {None}]

Typed == [at |-> None, reads |-> None, array |-> None]

Cell == [content : CellContent \union {Typed}, style : Address \union {None}]

(* A validation: its ranges and the cell its formula reads, as written for *)
(* the first cell of the first range; None is #REF!.                       *)
Rule == [ranges : Seq(CellRange), reads : Address \union {None}]

(* DraftCellMutation: "replaced" is an Upsert with replaces_source_cell.   *)
Mutation == {"none", "removed", "upserted", "replaced"}

GridStarts(s) ==
  /\ source = s
  /\ sheet = source
  /\ mutations = [a \in Address |-> "none"]
  /\ history = NoEdits
  /\ refs = [r \in CellRange |-> r]
  /\ writes = 0

GridInit == \E s \in Sheets : GridStarts(s)

-----------------------------------------------------------------------------
(***************************************************************************)
(* validate_sheet: an insertion must not push a cell or a merged range off *)
(* the sheet, no edit may split a legacy array formula, and no move a      *)
(* merged range.  The sheets have no tables, data tables or dynamic        *)
(* arrays, which it looks at too.                                          *)
(***************************************************************************)
KeepsContent(s, e) ==
  LET kept == AxisMax(e.axis) - e.count IN
  /\ \A a \in Occupied(s) : Coordinate(e.axis, a) <= kept
  /\ \A r \in s.merged : Coordinate(e.axis, r.last) <= kept

(* Mutant: any edit may split a merged range.                              *)
AcceptsMergeSplits(s, e) ==
  /\ e.kind = "insert" => KeepsContent(s, e)
  /\ \A r \in ArrayRanges(s) : ~Splits(e, r)

Accepts(s, e) ==
  /\ e.kind = "insert" => KeepsContent(s, e)
  /\ \A r \in ArrayRanges(s) : ~Splits(e, r)
  /\ e.kind \in {"move", "range"} => \A r \in s.merged : ~Splits(e, r)

-----------------------------------------------------------------------------
(***************************************************************************)
(* outcome: what becomes of a reference to a cell or an area (not of one   *)
(* to whole rows or columns, such as A:A); None is #REF!.  Through a range *)
(* move, a reference inside the moved cells follows them, one that a piece *)
(* of the overwritten cells covers is gone, and one that a piece covers in *)
(* its whole width or height, running past one of its ends, shrinks.       *)
(***************************************************************************)
Shrunk(start, end, from, to) ==
  IF start < from /\ from <= end /\ end < to THEN <<start, from - 1>>
  ELSE IF from < start /\ start <= to /\ to < end THEN <<to + 1, end>>
  ELSE <<start, end>>

ShrunkBy(r, p) ==
  LET rows == Shrunk(r.first.row, r.last.row, p.first.row, p.last.row)
      columns == Shrunk(r.first.column, r.last.column, p.first.column, p.last.column)
  IN  IF RangeContains(p, r) THEN None
      ELSE IF p.first.column <= r.first.column /\ r.last.column <= p.last.column
      THEN Piece(rows[1], r.first.column, rows[2], r.last.column)
      ELSE IF p.first.row <= r.first.row /\ r.last.row <= p.last.row
      THEN Piece(r.first.row, columns[1], r.last.row, columns[2])
      ELSE r

(* What a piece of the overwritten cells leaves of a reference.            *)
LeftBy(r, p) == IF r = None \/ p \notin CellRange THEN r ELSE ShrunkBy(r, p)

Outcome(e, r) ==
  LET p == Overwritten(e) IN
  IF e.kind # "range" THEN MapRange(e, r, "reference")
  ELSE IF RangeContains(e.source, r) THEN OffsetRange(r, RowOffset(e), ColumnOffset(e))
  ELSE LeftBy(LeftBy(LeftBy(LeftBy(r, p[1]), p[2]), p[3]), p[4])

Rewritten(e, r) == IF r = None THEN None ELSE Outcome(e, r)

(* grid_metadata: the range of an array formula whose anchor is now at a.  *)
MovedArray(e, r, a) ==
  LET mapped == MapRange(e, r, "reference")
      translated == Piece(a.row, a.column, a.row + Height(r) - 1, a.column + Width(r) - 1)
  IN  IF r = None THEN None
      ELSE IF mapped # None /\ mapped.first = a THEN mapped
      ELSE IF translated \in CellRange THEN translated
      ELSE r

(* Sheet::apply_grid_edit: a cell, now at a, with its formula rewritten.   *)
MovedCell(e, c, a) ==
  [content |-> [at    |-> c.content.at,
                reads |-> Rewritten(e, c.content.reads),
                array |-> MovedArray(e, c.content.array, a)],
   style   |-> c.style]

MovedCells(s, e) ==
  [a \in {MapAddress(e, b) : b \in Occupied(s)} \ {None} |->
     MovedCell(e, s.cells[CHOOSE b \in Occupied(s) : MapAddress(e, b) = a], a)]

(* Merged ranges follow their cells; an overwritten one, or one left with  *)
(* a single cell, is merged no longer.                                     *)
MovedMerges(s, e) ==
  LET mapped == {MapRange(e, r, "reference") : r \in {m \in s.merged : ~Overwrites(e, m)}} IN
  {r \in mapped \ {None} : r.first # r.last}

-----------------------------------------------------------------------------
(***************************************************************************)
(* move_anchored_formulas: the ranges of a validation that stay and, for a *)
(* range move, the ones cut away, which become a validation of their own.  *)
(* A formula is first shifted, as if copied, to the cell that will come    *)
(* first, if that cell had another before it, and then follows the edit.   *)
(***************************************************************************)
AnchorOf(ranges) == ranges[1].first

ReadFrom(rule, a) ==
  IF rule.reads = None THEN None
  ELSE OffsetAddress(rule.reads, a.row - AnchorOf(rule.ranges).row,
                     a.column - AnchorOf(rule.ranges).column)

RewrittenCell(e, a) ==
  IF a = None THEN None
  ELSE LET r == Outcome(e, [first |-> a, last |-> a]) IN IF r = None THEN None ELSE r.first

KeptRanges(e, ranges) ==
  LET p == Overwritten(e) IN
  IF e.kind # "range" THEN MapRanges(e, ranges, "format")
  ELSE Subtract(Subtract(Subtract(Subtract(Subtract(ranges, e.source), p[1]), p[2]), p[3]), p[4])

CutRanges(e, ranges) ==
  IF e.kind # "range" THEN <<>>
  ELSE SelectSeq([i \in DOMAIN ranges |-> Intersect(ranges[i], e.source)], LAMBDA r : r # None)

(* Mutant: the formula is never shifted to another first cell.             *)
NeverRebased(e, old, new) == old

(* The cell, before the edit, that the formula is shifted to.              *)
Origin(e, old, new) ==
  LET from == IF e.kind = "range" THEN new
              ELSE IF MapAddress(e, old) # new THEN UnmapAddress(e, new) ELSE None
  IN  IF from = None THEN old ELSE from

MovedRules(rule, e) ==
  LET kept == KeptRanges(e, rule.ranges)
      cut == CutRanges(e, rule.ranges)
      old == AnchorOf(rule.ranges)
      stays == [ranges |-> kept,
                reads |-> RewrittenCell(e, ReadFrom(rule, Origin(e, old, AnchorOf(kept))))]
      moves == [ranges |-> [i \in DOMAIN cut |-> OffsetRange(cut[i], RowOffset(e), ColumnOffset(e))],
                reads |-> RewrittenCell(e, ReadFrom(rule, AnchorOf(cut)))]
  IN  (IF kept = <<>> THEN {} ELSE {stays}) \union (IF cut = <<>> THEN {} ELSE {moves})

MovedSheet(s, e) ==
  [cells |-> MovedCells(s, e), merged |-> MovedMerges(s, e),
   rules |-> UNION {MovedRules(rule, e) : rule \in s.rules}]

-----------------------------------------------------------------------------
(* mark_upsert: a cell written where the draft had removed one is new.     *)
MarkUpsert(m) == IF m \in {"removed", "replaced"} THEN "replaced" ELSE "upserted"

(* The formulas whose text or range an edit changed, where they are now.   *)
ChangedFormulas(s, e) ==
  {a \in Address : \E b \in Occupied(s) :
     MapAddress(e, b) = a /\ MovedCell(e, s.cells[b], a) # s.cells[b]}

(* Mutant: the mutations stay where they were recorded.                    *)
MutationsStay(m, e) == m

(* remap_sheet: each mutation follows its cell, or goes with it.           *)
Remapped(m, e) ==
  [a \in Address |->
     IF \E b \in Address : MapAddress(e, b) = a
     THEN m[CHOOSE b \in Address : MapAddress(e, b) = a] ELSE "none"]

(* apply_grid_edit.                                                        *)
EditGrid(e) ==
  /\ history.count < MaxEdits
  /\ Accepts(sheet, e)
  /\ sheet' = MovedSheet(sheet, e)
  /\ mutations' = [a \in Address |->
       IF a \in ChangedFormulas(sheet, e) THEN MarkUpsert(Remapped(mutations, e)[a])
       ELSE Remapped(mutations, e)[a]]
  /\ history' = Push(history, e)
  /\ refs' = [r \in CellRange |-> Rewritten(e, refs[r])]
  /\ UNCHANGED <<source, writes>>

(* ensure_not_array_formula_part: a cell of an array formula's range is    *)
(* edited at the anchor only, where the edit replaces the formula.         *)
Editable(a) == \A b \in ArrayAnchors(sheet) \ {a} : ~HasCell(sheet.cells[b].content.array, a)

(* The cells of the sheet with c at a.                                     *)
WithCell(a, c) == [b \in Occupied(sheet) \union {a} |-> IF b = a THEN c ELSE sheet.cells[b]]

(* SetCellValue with a value: an existing cell keeps its style.            *)
SetCell(a) ==
  /\ writes < MaxWrites
  /\ Editable(a)
  /\ a \in Occupied(sheet) => sheet.cells[a].content # Typed
  /\ sheet' = [sheet EXCEPT !.cells = WithCell(a,
       [content |-> Typed, style |-> IF a \in Occupied(sheet) THEN sheet.cells[a].style ELSE None])]
  /\ mutations' = [mutations EXCEPT ![a] = MarkUpsert(@)]
  /\ writes' = writes + 1
  /\ UNCHANGED <<source, history, refs>>

(* SourceCells::cell: the source document holds the cell that is now at a. *)
InSource(a) == history.origin[a] # None /\ history.origin[a] \in Occupied(source)

(* mark_removed: a removal is recorded only of a cell of the source.       *)
MarkRemoved(a) == IF InSource(a) THEN "removed" ELSE "none"

(* SetCellValue with a blank.                                              *)
ClearCell(a) ==
  /\ writes < MaxWrites
  /\ Editable(a)
  /\ a \in Occupied(sheet)
  /\ sheet' = [sheet EXCEPT !.cells = [b \in Occupied(sheet) \ {a} |-> sheet.cells[b]]]
  /\ mutations' = [mutations EXCEPT ![a] = MarkRemoved(a)]
  /\ writes' = writes + 1
  /\ UNCHANGED <<source, history, refs>>

GridNext ==
  \/ \E e \in Edits : EditGrid(e)
  \/ \E a \in Targets : SetCell(a)
  \/ \E a \in Targets : ClearCell(a)

GridSpec == GridInit /\ [][GridNext]_gridVars

-----------------------------------------------------------------------------
(* The sheet, its mutations and its history stay within the bounds of the  *)
(* sheet, and no single cell is a merged range.                            *)
GridTypeOK ==
  /\ Occupied(sheet) \subseteq Address /\ sheet.cells \in [Occupied(sheet) -> Cell]
  /\ \A r \in sheet.merged : r \in CellRange /\ r.first # r.last
  /\ \A rule \in sheet.rules : rule.ranges # <<>> /\ rule \in Rule
  /\ mutations \in [Address -> Mutation]
  /\ refs \in [CellRange -> CellRange \union {None}]
  /\ history.origin \in [Address -> Address \union {None}]
  /\ history.current \in [Address -> Address \union {None}]

(***************************************************************************)
(* What the document writer puts at a: it replays the structural edits on  *)
(* the source part, then removes or writes the cells with a mutation, and  *)
(* takes the style of the source cell unless the cell replaces it.         *)
(***************************************************************************)
Written == {a \in Address : IF mutations[a] = "none" THEN InSource(a) ELSE mutations[a] # "removed"}

WrittenCell(a) ==
  IF mutations[a] = "none" THEN source.cells[history.origin[a]]
  ELSE [content |-> sheet.cells[a].content,
        style |-> IF InSource(a) /\ mutations[a] # "replaced"
                  THEN source.cells[history.origin[a]].style ELSE None]

(***************************************************************************)
(* The package the writer produces from the source document, the history   *)
(* of structural edits and the mutations holds the cells of the draft, at  *)
(* their places and with their styles: however writes, removals and        *)
(* structural edits follow each other, no removed cell comes back, no      *)
(* edit is lost and no new cell takes the style of a removed one.          *)
(***************************************************************************)
WriterReproducesSheet ==
  Written = Occupied(sheet) /\ \A a \in Written : WrittenCell(a) = sheet.cells[a]

(***************************************************************************)
(* A reference to one cell follows that cell through every structural      *)
(* edit and is #REF! exactly when the cell is gone.  A reference to a      *)
(* range, through insertions and deletions, covers every cell left of the  *)
(* range and no cell of the source outside it, and is #REF! only when no   *)
(* cell is left.                                                           *)
(***************************************************************************)
Survivors(r) == {history.current[a] : a \in CellsOf(r)} \ {None}

ReferencesKeepTheirCells ==
  history.count > 0 =>
    \A r \in CellRange :
      /\ r.first = r.last =>
           (IF refs[r] = None THEN {} ELSE CellsOf(refs[r])) = Survivors(r)
      /\ ~history.moves =>
           IF refs[r] = None THEN Survivors(r) = {}
           ELSE /\ Survivors(r) \subseteq CellsOf(refs[r])
                /\ \A a \in CellsOf(refs[r]) : history.origin[a] \in CellsOf(r) \union {None}

(* The array formula at a is in the first cell of a range of its size.     *)
KeepsExtent(a) ==
  LET r == sheet.cells[a].content.array
      read == source.cells[sheet.cells[a].content.at].content.array
  IN  r.first = a /\ Height(r) = Height(read) /\ Width(r) = Width(read)

(***************************************************************************)
(* validate_sheet: "Refuses an edit Excel does not make, or makes in a way *)
(* not yet measured: [...] changing part of a legacy array formula".  An   *)
(* array formula stays in the first cell of a range of its size.           *)
(***************************************************************************)
ArrayFormulasStayWhole == \A a \in ArrayAnchors(sheet) : KeepsExtent(a)

(* The sheet holds the last cell of the array formula at a, as in a        *)
(* document in which every cell of the formula has its saved result.       *)
StoredWhole(s, a) ==
  LET r == s.cells[a].content.array IN r.first = a /\ r.last \in Occupied(s)

ArraysStoredWhole(s) == \A a \in ArrayAnchors(s) : StoredWhole(s, a)

RangesApart(s) == \A r, q \in s.merged \union ArrayRanges(s) : r # q => Intersect(r, q) = None

(***************************************************************************)
(* No accepted structural edit makes two merged ranges share a cell, tears *)
(* an array formula that was read with its last cell, or, in a document    *)
(* with all of them, makes a merged range and an array formula, or two     *)
(* array formulas, share a cell if none did (validate_sheet with splits,   *)
(* map_range, grid_metadata).                                              *)
(***************************************************************************)
MergedAndArrayRangesStayWhole ==
  /\ MergesApart(sheet)
  /\ \A a \in ArrayAnchors(sheet) : StoredWhole(source, sheet.cells[a].content.at) => KeepsExtent(a)
  /\ ArraysStoredWhole(source) /\ RangesApart(source) => RangesApart(sheet)

(* The structural edit of a step.                                          *)
Edited == history'.count > history.count
LastEdit == history'.last

NoMergeSpans(s, axis) ==
  \A r \in s.merged : ~WholeAxis(axis, Span(r, axis)[1], Span(r, axis)[2])

UndoPutsCellsBack(e) ==
  LET undone == MovedCells(sheet', InverseEdit(e)) IN
  /\ Accepts(sheet', InverseEdit(e))
  /\ DOMAIN undone = {a \in Occupied(sheet) : MapAddress(e, a) # None}
  /\ \A a \in DOMAIN undone :
       /\ undone[a].content.at = sheet.cells[a].content.at
       /\ undone[a].content.array = sheet.cells[a].content.array
       /\ undone[a].style = sheet.cells[a].style

(***************************************************************************)
(* The edit that undoes an insertion, a deletion or a move of lines is     *)
(* accepted right after it, and puts every cell that is left back where it *)
(* was.  A merged range over the whole axis is excepted: it blocks every   *)
(* insertion, also the one that undoes a deletion.  So are sheets with an  *)
(* array formula whose last cell is not stored, which an insertion cuts at *)
(* the end of the sheet.                                                   *)
(***************************************************************************)
LineEditsCanBeUndone ==
  [][/\ Edited /\ LastEdit.kind # "range"
     /\ NoMergeSpans(sheet', LastEdit.axis) /\ ArraysStoredWhole(sheet)
     => UndoPutsCellsBack(LastEdit)]_gridVars

(* A validation that reads a cell of the row it validates.                 *)
ReadsOwnRow(rule) == rule.reads # None /\ rule.reads.row = AnchorOf(rule.ranges).row

KeepsReading(rule, e) ==
  \A new \in MovedRules(rule, e), i \in DOMAIN rule.ranges :
    \A a \in CellsOf(rule.ranges[i]), j \in DOMAIN new.ranges :
      MapAddress(e, a) # None /\ HasCell(new.ranges[j], MapAddress(e, a)) =>
        ReadFrom(new, MapAddress(e, a)) = RewrittenCell(e, ReadFrom(rule, a))

RowEdit(e) == e.kind # "range" /\ e.axis = "rows"

(***************************************************************************)
(* A validation whose formula reads a cell of the row it validates goes on *)
(* reading the same cell for every cell that rows inserted, deleted or     *)
(* moved leave in it (move_anchored_formulas: "so each cell keeps reading  *)
(* the cells it read").                                                    *)
(***************************************************************************)
RulesFollowTheirCells ==
  [][Edited /\ RowEdit(LastEdit) =>
       \A rule \in sheet.rules : ReadsOwnRow(rule) => KeepsReading(rule, LastEdit)]_gridVars

SpansRows(rule) ==
  \E i \in DOMAIN rule.ranges : WholeAxis("rows", rule.ranges[i].first.row, rule.ranges[i].last.row)

(* The same for validations that do not span every row.                    *)
PartialRulesFollowTheirCells ==
  [][Edited /\ RowEdit(LastEdit) =>
       \A rule \in sheet.rules :
         ReadsOwnRow(rule) /\ ~SpansRows(rule) => KeepsReading(rule, LastEdit)]_gridVars
=============================================================================
