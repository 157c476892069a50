-------------------------- MODULE DependencyAreas --------------------------
(***************************************************************************)
(* The dependency graph of a compiled workbook and the areas that the      *)
(* ranges of its formulas share (graph.rs, eval/dependency_areas.rs): how  *)
(* a full compilation collects it, how with_formula_edits brings it up to  *)
(* date with the formulas edited since, reusing every area that still      *)
(* holds, and how it follows sheets that were deleted, added or reordered. *)
(***************************************************************************)
EXTENDS Integers, Sequences, SequencesExt, FiniteSets

CONSTANTS
  SheetCount, LastRow, LastColumn,
                 \* the sheets, by their index, and the cells of each
  LeafMembers,   \* LEAF_MEMBERS: a block with at most so many members is not split
  MaxEdges,      \* CalculationLimits::max_dependency_edges
  Books,         \* the workbooks to begin with
  FormulaEdits,  \* the formula edits a batch may make
  SheetEdits,    \* the changes of sheets a batch may make
  MaxBatches     \* bound on the edit batches

ASSUME AreaAssumption ==
  /\ {SheetCount, LastRow, LastColumn, LeafMembers} \subseteq Nat \ {0}
  /\ {MaxEdges, MaxBatches} \subseteq Nat

VARIABLES
  book,      \* the names of the sheets and the formulas of the workbook
  compiled,  \* the compiled workbook, see CompileAll
  edits,     \* the cells whose formula was edited since (formula_edits)
  gone,      \* whether an edited cell was on a sheet deleted since
  rebuild,   \* whether the next calculation compiles in full (requires_full_rebuild)
  batches    \* the edit batches so far

areaVars == <<book, compiled, edits, gone, rebuild, batches>>

SheetIndex == 1..SheetCount

CellId == SheetIndex \X (1..LastRow) \X (1..LastColumn)

(* A cell or range of a sheet.                                             *)
RectAt(sheet, r) ==
  [sheet |-> sheet, top |-> r.top, left |-> r.left, bottom |-> r.bottom, right |-> r.right]

CellsIn(r) ==
  {c \in CellId : c[1] = r.sheet /\ c[2] \in r.top..r.bottom /\ c[3] \in r.left..r.right}

(***************************************************************************)
(* A workbook: the name of each sheet, and at each formula cell whether    *)
(* the formula parses, the references in its text, and the range of its    *)
(* results if it is an array formula.  A reference names a sheet or means  *)
(* "own", the sheet of the formula.                                        *)
(***************************************************************************)
Parsed(b) == {c \in DOMAIN b.formulas : b.formulas[c].parsed}

SheetsNamed(b, name) == {s \in SheetIndex : b.names[s] = name}

(* resolve_reference_span: what the references of the formula at c reach;  *)
(* one that names no sheet of the workbook reaches nothing.                *)
ReferenceTargets(b, c) ==
  LET found == SelectSeq(b.formulas[c].refs,
                         LAMBDA r : r.sheet = "own" \/ SheetsNamed(b, r.sheet) # {})
      sheet(r) == IF r.sheet = "own" THEN c[1] ELSE CHOOSE s \in SheetsNamed(b, r.sheet) : TRUE
  IN  [i \in DOMAIN found |-> RectAt(sheet(found[i]), found[i])]

(* collect_workbook_layout: the ranges the array formulas fill.            *)
ArrayRegions(b) ==
  UNION {{[anchor |-> c, rect |-> RectAt(c[1], r)] : r \in b.formulas[c].array} :
           c \in DOMAIN b.formulas}

-----------------------------------------------------------------------------
(* Graph nodes: formula cells, and areas by their position in the graph.   *)
CellNode(c) == <<"cell", c>>

AreaNode(a) == <<"area", a>>

IsArea(n) == n[1] = "area"

AreasOf(nodes) == {n[2] : n \in {m \in nodes : IsArea(m)}}

CellsOfNodes(nodes) == {n[2] : n \in {m \in nodes : ~IsArea(m)}}

With(f, x, y) == [z \in DOMAIN f \union {x} |-> IF z = x THEN y ELSE f[z]]

Without(f, S) == [z \in DOMAIN f \ S |-> f[z]]

(* The nodes found so far, and those of the next part, which had the graph *)
(* g and what was built before it.                                         *)
Added(found, part) == [g |-> part.g, node |-> found.node \union part.node]

(* One node over the nodes found, if there are any: the only one, or a new *)
(* area that holds them (add_area).                                        *)
Gather(found) ==
  IF Cardinality(found.node) <= 1 THEN found
  ELSE [g    |-> [found.g EXCEPT !.areas = Append(@, found.node)],
        node |-> {AreaNode(Len(found.g.areas) + 1)}]

(***************************************************************************)
(* Bands and blocks: a range is cut along its longer axis into blocks of   *)
(* 2^level positions, each beginning at a multiple of its length.          *)
(***************************************************************************)
BandOf(r) ==
  IF r.bottom - r.top >= r.right - r.left
  THEN [band |-> [sheet |-> r.sheet, axis |-> "rows", start |-> r.left, end |-> r.right],
        first |-> r.top, last |-> r.bottom]
  ELSE [band |-> [sheet |-> r.sheet, axis |-> "columns", start |-> r.top, end |-> r.bottom],
        first |-> r.left, last |-> r.right]

BandRect(band, first, last) ==
  IF band.axis = "rows"
  THEN [sheet |-> band.sheet, top |-> first, left |-> band.start, bottom |-> last, right |-> band.end]
  ELSE [sheet |-> band.sheet, top |-> band.start, left |-> first, bottom |-> band.end, right |-> last]

Position(band, c) == IF band.axis = "rows" THEN c[2] ELSE c[3]

BlockFirst(block) == block.index * 2^block.level

BlockLast(block) == BlockFirst(block) + 2^block.level - 1

Middle(block) == BlockFirst(block) + 2^(block.level - 1)

Half(block, upper) ==
  [band |-> block.band, level |-> block.level - 1, index |-> 2 * block.index + upper]

BlockRect(block) == BandRect(block.band, BlockFirst(block), BlockLast(block))

(* The largest aligned block that begins at first and ends by last.        *)
LevelAt(first, last) ==
  CHOOSE l \in 0..last : /\ first % 2^l = 0 /\ first + 2^l - 1 <= last
                         /\ \A m \in (l + 1)..last : first % 2^m # 0 \/ first + 2^m - 1 > last

RECURSIVE Blocks(_, _, _)
Blocks(band, first, last) ==
  IF first > last THEN <<>>
  ELSE LET l == LevelAt(first, last) IN
       <<[band |-> band, level |-> l, index |-> first \div 2^l]>> \o Blocks(band, first + 2^l, last)

RectsIntersect(r, q) ==
  /\ r.sheet = q.sheet
  /\ r.top <= q.bottom /\ q.top <= r.bottom /\ r.left <= q.right /\ q.left <= r.right

(* Where along the band the results of an array formula begin and end.     *)
RegionFirst(band, region) == IF band.axis = "rows" THEN region.rect.top ELSE region.rect.left

RegionLast(band, region) == IF band.axis = "rows" THEN region.rect.bottom ELSE region.rect.right

UpperRegions(block, regions) ==
  {a \in regions : RegionLast(block.band, a) >= Middle(block)}

RememberBlock(block, made) ==
  [made EXCEPT !.g.blocks = With(@, block, made.node)]

(* AreaNodes::build: the node of a block, which is remembered.             *)
RECURSIVE BuildBlock(_, _, _, _)
BuildBlock(g, block, members, regions) ==
  LET lower == BuildBlock(g, Half(block, 0),
                          {c \in members : Position(block.band, c) < Middle(block)},
                          {a \in regions : RegionFirst(block.band, a) < Middle(block)})
      upper(below) == BuildBlock(below, Half(block, 1),
                                 {c \in members : Position(block.band, c) >= Middle(block)},
                                 UpperRegions(block, regions))
      halves(low) == Added(low, upper(low.g))
      leaf == [g |-> g, node |-> {CellNode(c) : c \in members \union {a.anchor : a \in regions}}]
  IN  IF block \in DOMAIN g.blocks THEN [g |-> g, node |-> g.blocks[block]]
      ELSE IF block.level = 0 \/ Cardinality(members) + Cardinality(regions) <= LeafMembers
      THEN RememberBlock(block, Gather(leaf))
      ELSE RememberBlock(block, Gather(halves(lower)))

(***************************************************************************)
(* AreaNodes::range: the node a formula reading the range r waits for.     *)
(* formulas are the formula cells, regions the array results, of the       *)
(* workbook that is compiled.                                              *)
(***************************************************************************)
RangeNode(g, formulas, regions, r) ==
  LET along == BandOf(r)
      step(found, block) ==
        Added(found, BuildBlock(found.g, block, formulas \intersect CellsIn(BlockRect(block)),
                                {a \in regions : RectsIntersect(a.rect, BlockRect(block))}))
      parts == FoldLeft(step, [g |-> g, node |-> {}], Blocks(along.band, along.first, along.last))
      remember(made) == [made EXCEPT !.g.ranges = With(@, r, made.node)]
  IN  IF r \in DOMAIN g.ranges THEN [g |-> g, node |-> g.ranges[r]]
      ELSE remember(Gather(parts))

(* push_cell_dependency: the formula at c and the array formula over it.   *)
CellNodes(formulas, regions, c) ==
  {CellNode(d) : d \in (formulas \intersect {c})
                         \union {a.anchor : a \in {b \in regions : c \in CellsIn(b.rect)}}}

SingleCell(r) == r.top = r.bottom /\ r.left = r.right

(* dependency_nodes: what a formula with these targets waits for.          *)
DependencyNodes(g, formulas, regions, targets) ==
  LET step(found, r) ==
        IF SingleCell(r)
        THEN [found EXCEPT !.node = @ \union CellNodes(formulas, regions, <<r.sheet, r.top, r.left>>)]
        ELSE Added(found, RangeNode(found.g, formulas, regions, r))
  IN  FoldLeft(step, [g |-> g, node |-> {}], targets)

-----------------------------------------------------------------------------
(* The cells the nodes reach through their areas (DependencyGraph::cells). *)
(* The areas an area holds were added before it.                           *)
ReachedCells(areas, nodes) ==
  LET held[a \in 1..Len(areas)] ==
        CellsOfNodes(areas[a]) \union UNION {held[b] : b \in AreasOf(areas[a])}
  IN  CellsOfNodes(nodes) \union UNION {held[a] : a \in AreasOf(nodes)}

AreaEdges(areas) == MapThenSumSet(LAMBDA a : Cardinality(areas[a]), DOMAIN areas)

EdgeCount(k) ==
  MapThenSumSet(LAMBDA f : Cardinality(k.waits[f]), DOMAIN k.waits) + AreaEdges(k.areas)

(* The order of cells: by sheet, row and column.                           *)
Before(c, d) ==
  \/ c[1] < d[1]
  \/ c[1] = d[1] /\ (c[2] < d[2] \/ (c[2] = d[2] /\ c[3] < d[3]))

RECURSIVE CellOrder(_)
CellOrder(S) ==
  IF S = {} THEN <<>>
  ELSE LET c == CHOOSE d \in S : \A e \in S \ {d} : Before(d, e) IN <<c>> \o CellOrder(S \ {c})

NoAreas == [areas |-> <<>>, ranges |-> <<>>, blocks |-> <<>>]

(* The edges a formula that waits for these nodes adds to the areas there  *)
(* were, but never more than the cells it waits for.                       *)
EdgesAdded(areas, nodes) ==
  LET added == Cardinality(nodes.node) + AreaEdges(nodes.g.areas) - AreaEdges(areas)
      reached == Cardinality(ReachedCells(nodes.g.areas, nodes.node))
  IN  IF added <= reached THEN added ELSE reached

(***************************************************************************)
(* collect_dependencies: the graph of every formula of b.  The formula     *)
(* that would cross MaxEdges, and all after it, are left out.              *)
(***************************************************************************)
Collected(b) ==
  LET admit(acc, c, nodes, edges) ==
        IF acc.limited # {}
        THEN [acc EXCEPT !.limited = @ \union {c}, !.waits = With(@, c, {})]
        ELSE IF acc.edges + edges > MaxEdges
        THEN [acc EXCEPT !.g = nodes.g, !.limited = {c}, !.waits = With(@, c, {})]
        ELSE [acc EXCEPT !.g = nodes.g, !.edges = @ + edges, !.waits = With(@, c, nodes.node)]
      weigh(acc, c, nodes) == admit(acc, c, nodes, EdgesAdded(acc.g.areas, nodes))
      step(acc, c) ==
        weigh(acc, c, DependencyNodes(acc.g, DOMAIN b.formulas, ArrayRegions(b), ReferenceTargets(b, c)))
  IN  FoldLeft(step, [g |-> NoAreas, waits |-> <<>>, edges |-> 0, limited |-> {}],
               CellOrder(Parsed(b)))

(***************************************************************************)
(* CompiledWorkbook, as far as dependencies go: its formula cells, the     *)
(* references of the parsed ones (asts) and what they reach (targets), the *)
(* array results, the graph (waits, areas), the areas it remembers by      *)
(* range and by block, and the formulas left out at the limit.             *)
(***************************************************************************)
CompiledWith(b, all) ==
  [formulas |-> DOMAIN b.formulas,
   asts |-> [c \in Parsed(b) |-> b.formulas[c].refs],
   targets |-> [c \in Parsed(b) |-> ReferenceTargets(b, c)],
   regions |-> ArrayRegions(b),
   waits |-> all.waits, areas |-> all.g.areas, ranges |-> all.g.ranges, blocks |-> all.g.blocks,
   limited |-> all.limited]

CompileAll(b) == CompiledWith(b, Collected(b))

-----------------------------------------------------------------------------
(* Mutant: only the ranges over the cell are forgotten, not the blocks.    *)
ForgetRanges(g, c) ==
  [g EXCEPT !.ranges = Without(@, {r \in DOMAIN @ : c \in CellsIn(r)})]

(* AreaNodes::forget: no range or block over c, which became a formula or  *)
(* stopped being one, is used again.                                       *)
Forget(g, c) ==
  [g EXCEPT !.ranges = Without(@, {r \in DOMAIN @ : c \in CellsIn(r)}),
            !.blocks = Without(@, {b \in DOMAIN @ : c \in CellsIn(BlockRect(b))})]

(* The areas some formula waits for, directly or through other areas.      *)
Referenced(waits, areas) ==
  LET direct == UNION {AreasOf(waits[f]) : f \in DOMAIN waits}
      kept[a \in 1..Len(areas)] ==
        a \in direct \/ \E b \in (a + 1)..Len(areas) : a \in AreasOf(areas[b]) /\ kept[b]
  IN  {a \in 1..Len(areas) : kept[a]}

(* The nodes under the numbers their areas get when only kept are left.    *)
Renumbered(kept, nodes) ==
  {IF IsArea(n) THEN AreaNode(Cardinality({a \in kept : a <= n[2]})) ELSE n : n \in nodes}

(* AreaNodes::renumber: a range or block is forgotten with its area.       *)
Remembered(kept, f) ==
  [x \in {y \in DOMAIN f : AreasOf(f[y]) \subseteq kept} |-> Renumbered(kept, f[x])]

(* Mutant: no area ever leaves the graph.                                  *)
RetainAll(k) == k

(***************************************************************************)
(* retain_referenced_areas: the areas no formula waits for leave the       *)
(* graph, and the rest are numbered again in their order.                  *)
(***************************************************************************)
RetainReferenced(k) ==
  LET kept == Referenced(k.waits, k.areas)
      old == SelectSeq([a \in 1..Len(k.areas) |-> a], LAMBDA a : a \in kept)
  IN  [k EXCEPT !.waits = [f \in DOMAIN @ |-> Renumbered(kept, @[f])],
                !.areas = [i \in 1..Len(old) |-> Renumbered(kept, k.areas[old[i]])],
                !.ranges = Remembered(kept, @), !.blocks = Remembered(kept, @)]

(* Whether the compiled workbook k can take these edits (the first half of *)
(* with_formula_edits): no edited cell is or was part of an array formula. *)
Takes(k, b, edited) ==
  /\ k.limited = {}
  /\ \A c \in edited :
       /\ \A a \in k.regions : c \notin CellsIn(a.rect)
       /\ c \in DOMAIN b.formulas => b.formulas[c].array = {}

(* Mutant: only the edited formulas collect their dependencies again.      *)
CollectEdited(k, b, edited, changed) == edited \intersect Parsed(b)

(* The formulas that collect their dependencies again: the edited ones and *)
(* those that refer to a cell that became or stopped being a formula.      *)
CollectAgain(k, b, edited, changed) ==
  (edited \intersect Parsed(b))
    \union {f \in DOMAIN k.targets \intersect Parsed(b) :
              \E i \in DOMAIN k.targets[f] : CellsIn(k.targets[f][i]) \intersect changed # {}}

(***************************************************************************)
(* with_formula_edits: the compiled workbook k brought up to date with the *)
(* edited formulas of b.                                                   *)
(***************************************************************************)
WithFormulaEdits(k, b, edited) ==
  LET changed == {c \in edited : (c \in k.formulas) # (c \in DOMAIN b.formulas)}
      parsed == edited \intersect Parsed(b)
      targets == [c \in (DOMAIN k.targets \ edited) \union parsed |->
                    IF c \in edited THEN ReferenceTargets(b, c) ELSE k.targets[c]]
      kept == [k EXCEPT !.formulas = DOMAIN b.formulas, !.targets = targets,
                        !.asts = [c \in (DOMAIN @ \ edited) \union parsed |->
                                    IF c \in edited THEN b.formulas[c].refs ELSE @[c]],
                        !.waits = Without(@, edited \ parsed)]
      forgot == FoldLeft(Forget, kept, CellOrder(changed))
      waiting(c, nodes) == [nodes.g EXCEPT !.waits = With(@, c, nodes.node)]
      collect(acc, c) == waiting(c, DependencyNodes(acc, DOMAIN b.formulas, k.regions, targets[c]))
  IN  RetainReferenced(FoldLeft(collect, forgot, CellOrder(CollectAgain(k, b, edited, changed))))

-----------------------------------------------------------------------------
(***************************************************************************)
(* A change of sheets sends each sheet to a new index, or deletes it (0);  *)
(* an index no sheet goes to gets a new, empty sheet.  named has the names *)
(* of the sheets added or renamed, by their new index.                     *)
(***************************************************************************)
KeepsSheet(ch, c) == ch.to[c[1]] # 0

MovedCellId(ch, c) == <<ch.to[c[1]], c[2], c[3]>>

MovedSet(ch, S) == {MovedCellId(ch, c) : c \in {d \in S : KeepsSheet(ch, d)}}

MovedTable(ch, f) ==
  [c \in MovedSet(ch, DOMAIN f) |-> f[CHOOSE d \in DOMAIN f : KeepsSheet(ch, d) /\ MovedCellId(ch, d) = c]]

MovedRect(ch, r) == [r EXCEPT !.sheet = ch.to[@]]

AddedSheets(ch) == SheetIndex \ {ch.to[s] : s \in SheetIndex}

NamesAfter(ch, b) ==
  [s \in SheetIndex |-> IF s \in DOMAIN ch.named THEN ch.named[s]
                        ELSE b.names[CHOOSE t \in SheetIndex : ch.to[t] = s]]

Reordered(ch) == \E s \in SheetIndex : ch.to[s] # s

(* rename_sheet and delete_sheet rewrite the references that name a sheet. *)
RewrittenRefs(ch, b, refs) ==
  LET named(r) == IF r.sheet = "own" THEN {} ELSE SheetsNamed(b, r.sheet)
      left == SelectSeq(refs, LAMBDA r : \A s \in named(r) : ch.to[s] # 0)
      name(r) == IF named(r) = {} THEN r.sheet ELSE NamesAfter(ch, b)[ch.to[CHOOSE s \in named(r) : TRUE]]
  IN  [i \in DOMAIN left |-> [left[i] EXCEPT !.sheet = name(left[i])]]

BookAfter(ch, b) ==
  [names |-> NamesAfter(ch, b),
   formulas |-> MovedTable(ch, [c \in DOMAIN b.formulas |->
                                  [b.formulas[c] EXCEPT !.refs = RewrittenRefs(ch, b, @)]])]

(* CompiledWorkbook::sheet_name_readers: the formulas naming such a sheet. *)
Naming(k, names) ==
  {c \in DOMAIN k.asts : \E i \in DOMAIN k.asts[c] : k.asts[c][i].sheet \in names}

(* sheet_names_changed: the names that find another sheet than before.     *)
ChangedNames(ch, b) ==
  LET renamed == {s \in SheetIndex : ch.to[s] # 0 /\ NamesAfter(ch, b)[ch.to[s]] # b.names[s]} IN
  {b.names[s] : s \in renamed} \union {NamesAfter(ch, b)[ch.to[s]] : s \in renamed}
    \union {ch.named[s] : s \in AddedSheets(ch)}

(* The readers of changed names, by the indices of the sheets after the batch. *)
NameReaders(ch, b, k) == Naming(k, ChangedNames(ch, b))

(* sheet_order_change: the readers of the sheets that moved, left or came, *)
(* by the indices before the batch.                                        *)
OrderReaders(ch, b, k) ==
  IF ~Reordered(ch) THEN {}
  ELSE Naming(k, {b.names[s] : s \in {t \in SheetIndex : ch.to[t] # t}}
                   \union {ch.named[s] : s \in AddedSheets(ch)})

(* The formulas whose text the batch rewrites, by the indices after it.    *)
RewrittenCells(ch, b) ==
  MovedSet(ch, {c \in Parsed(b) : RewrittenRefs(ch, b, b.formulas[c].refs) # b.formulas[c].refs})

(* with_sheets_moved: whether k can follow the sheets, given the formulas  *)
(* that are compiled again anyway.                                         *)
FollowsSheets(k, ch, recompiled) ==
  /\ k.limited = {}
  /\ \A f \in DOMAIN k.targets \ recompiled :
       KeepsSheet(ch, f) => \A i \in DOMAIN k.targets[f] : ch.to[k.targets[f][i].sheet] # 0
  /\ \A a \in k.regions : KeepsSheet(ch, a.anchor)

(* The nodes with their cells at the new indices, without the deleted ones. *)
MovedNodes(ch, nodes) ==
  {IF IsArea(n) THEN n ELSE CellNode(MovedCellId(ch, n[2])) :
     n \in {m \in nodes : IsArea(m) \/ KeepsSheet(ch, m[2])}}

(* AreaNodes::with_sheets: the remembered blocks go with their sheets.     *)
MovedBlocks(ch, blocks) ==
  LET to(b) == [b EXCEPT !.band.sheet = ch.to[@]]
      kept == {b \in DOMAIN blocks : ch.to[b.band.sheet] # 0}
  IN  [x \in {to(b) : b \in kept} |->
         MovedNodes(ch, blocks[CHOOSE b \in kept : to(b) = x])]

MovedRanges(ch, ranges) ==
  LET kept == {r \in DOMAIN ranges : ch.to[r.sheet] # 0} IN
  [x \in {MovedRect(ch, r) : r \in kept} |->
     MovedNodes(ch, ranges[CHOOSE r \in kept : MovedRect(ch, r) = x])]

WithSheetsMoved(k, ch, recompiled) ==
  LET targets == [f \in {g \in DOMAIN k.targets \ recompiled : KeepsSheet(ch, g)} |->
                    [i \in DOMAIN k.targets[f] |-> MovedRect(ch, k.targets[f][i])]]
      waits == [f \in DOMAIN k.waits |-> MovedNodes(ch, k.waits[f])]
  IN  [formulas |-> MovedSet(ch, k.formulas),
       asts     |-> MovedTable(ch, k.asts),
       targets  |-> MovedTable(ch, targets),
       regions  |-> {[anchor |-> MovedCellId(ch, a.anchor), rect |-> MovedRect(ch, a.rect)] : a \in k.regions},
       waits    |-> MovedTable(ch, waits),
       areas    |-> [a \in DOMAIN k.areas |-> MovedNodes(ch, k.areas[a])],
       ranges   |-> MovedRanges(ch, k.ranges),
       blocks   |-> MovedBlocks(ch, k.blocks),
       limited  |-> {}]

-----------------------------------------------------------------------------
(* A calculated workbook.                                                  *)
AreasStart(b) ==
  /\ book = b
  /\ compiled = CompileAll(book)
  /\ edits = {} /\ gone = FALSE /\ rebuild = FALSE /\ batches = 0

AreaInit == \E b \in Books : AreasStart(b)

(* A batch that only edits a formula: e.text has the new one, or is empty  *)
(* if the cell stops being one.                                            *)
EditFormula(e) ==
  /\ batches < MaxBatches
  /\ book' = [book EXCEPT !.formulas = IF e.text = {} THEN Without(@, {e.cell})
                                       ELSE With(@, e.cell, CHOOSE t \in e.text : TRUE)]
  /\ book' # book
  /\ edits' = IF rebuild THEN {} ELSE edits \union {e.cell}
  /\ batches' = batches + 1
  /\ UNCHANGED <<compiled, gone, rebuild>>

(* A batch that changes sheets: prepare_changes keeps the compiled state,  *)
(* with the readers of the sheets to be compiled again, or gives it up.    *)
ChangeSheets(ch) ==
  LET moved == OrderReaders(ch, book, compiled)
      edited == RewrittenCells(ch, book) \union NameReaders(ch, book, compiled) \union MovedSet(ch, moved)
      lost == {c \in moved : ~KeepsSheet(ch, c)}
      recompiled == moved \union {c \in CellId : KeepsSheet(ch, c) /\ MovedCellId(ch, c) \in edited}
      local == /\ ~rebuild
               /\ 2 * (Cardinality(edited) + Cardinality(lost)) <= Cardinality(compiled.formulas)
               /\ Reordered(ch) => FollowsSheets(compiled, ch, recompiled)
  IN  /\ batches < MaxBatches
      /\ IsInjective(NamesAfter(ch, book))
      /\ book' = BookAfter(ch, book)
      /\ rebuild' = ~local
      /\ compiled' = IF local /\ Reordered(ch) THEN WithSheetsMoved(compiled, ch, recompiled) ELSE compiled
      /\ edits' = IF local THEN MovedSet(ch, edits) \union edited ELSE {}
      /\ gone' = (local /\ (gone \/ lost # {} \/ \E c \in edits : ~KeepsSheet(ch, c)))
      /\ batches' = batches + 1

(* What was recompiled, or the workbook compiled in full at the limit.     *)
WithinLimit(recompiled, b) ==
  IF EdgeCount(recompiled) <= MaxEdges THEN recompiled ELSE CompileAll(b)

(* The next automatic calculation brings the compiled workbook up to date  *)
(* (recompile_formula_edits), or compiles the workbook in full.            *)
Recalculate ==
  /\ rebuild \/ gone \/ edits # {}
  /\ compiled' = IF ~rebuild /\ ~gone /\ Takes(compiled, book, edits)
                 THEN WithinLimit(WithFormulaEdits(compiled, book, edits), book)
                 ELSE CompileAll(book)
  /\ edits' = {} /\ gone' = FALSE /\ rebuild' = FALSE
  /\ UNCHANGED <<book, batches>>

AreaNext ==
  \/ \E e \in FormulaEdits : EditFormula(e)
  \/ \E ch \in SheetEdits : ChangeSheets(ch)
  \/ Recalculate

AreaSpec == AreaInit /\ [][AreaNext]_areaVars

-----------------------------------------------------------------------------
Settled == edits = {} /\ ~gone /\ ~rebuild

(* The formulas whose results the references of the formula at c read.     *)
FormulasRead(b, c) ==
  LET targets == ReferenceTargets(b, c) IN
  UNION {(DOMAIN b.formulas \intersect CellsIn(targets[i]))
           \union {a.anchor : a \in {g \in ArrayRegions(b) : CellsIn(g.rect) \intersect CellsIn(targets[i]) # {}}} :
           i \in DOMAIN targets}

(***************************************************************************)
(* However it was reached, through edits taken in place and sheets that    *)
(* moved, a compiled workbook that is up to date lets every formula wait   *)
(* for exactly the formulas whose results it reads (with_formula_edits:    *)
(* "Returns this state updated for `workbook`").                           *)
(***************************************************************************)
GraphFollowsFormulas ==
  Settled =>
    /\ compiled.formulas = DOMAIN book.formulas
    /\ DOMAIN compiled.waits = Parsed(book)
    /\ \A c \in Parsed(book) \ compiled.limited :
         ReachedCells(compiled.areas, compiled.waits[c]) = FormulasRead(book, c)

(***************************************************************************)
(* A range or block that is remembered, for formulas still to come, covers *)
(* exactly the formula cells and array results in it, whatever cells       *)
(* became formulas or stopped being ones and whatever areas were dropped.  *)
(***************************************************************************)
RememberedAreasHold ==
  LET holds(r, nodes) ==
        ReachedCells(compiled.areas, nodes)
          = (compiled.formulas \intersect CellsIn(r))
              \union {a.anchor : a \in {g \in compiled.regions : RectsIntersect(g.rect, r)}}
  IN  ~rebuild => /\ \A r \in DOMAIN compiled.ranges : holds(r, compiled.ranges[r])
                  /\ \A b \in DOMAIN compiled.blocks : holds(BlockRect(b), compiled.blocks[b])

(***************************************************************************)
(* A calculation that takes edits in place leaves the edges of a graph     *)
(* compiled in full, which leaves no formula out ("below it, no full       *)
(* compilation could leave a formula out either"), and no more: the graph  *)
(* does not "grow with every area ever built".                             *)
(***************************************************************************)
EdgesAreThoseOfFullCompilation ==
  [][(~Settled /\ Settled' /\ compiled'.limited = {}) =>
       LET full == CompileAll(book') IN
       full.limited = {} /\ EdgeCount(full) = EdgeCount(compiled')]_areaVars
=============================================================================
