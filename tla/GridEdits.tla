------------------------------ MODULE GridEdits ------------------------------
(***************************************************************************)
(* Structural edits of a worksheet's grid and how they move coordinates:   *)
(* insertions, deletions and moves of whole rows or columns, and moves of  *)
(* a rectangle.  Every edit is stated in the coordinates before it.        *)
(***************************************************************************)
EXTENDS Integers, Sequences

CONSTANTS
  MaxRow,     \* the last row of a sheet (EXCEL_MAX_ROWS)
  MaxColumn,  \* the last column of a sheet (EXCEL_MAX_COLUMNS)
  None        \* no line, no cell, no range

Axis == {"rows", "columns"}

AxisMax(axis) == IF axis = "rows" THEN MaxRow ELSE MaxColumn

Line(axis) == 1..AxisMax(axis)

Address == [row : 1..MaxRow, column : 1..MaxColumn]

Coordinate(axis, a) == IF axis = "rows" THEN a.row ELSE a.column

(* GridAxis::with: the address with another coordinate; None off the sheet. *)
WithCoordinate(axis, a, value) ==
  IF value \notin Line(axis) THEN None
  ELSE IF axis = "rows" THEN [a EXCEPT !.row = value] ELSE [a EXCEPT !.column = value]

(* A rectangle of cells, by its first and its last cell.                   *)
CellRange == {r \in [first : Address, last : Address] :
            r.first.row <= r.last.row /\ r.first.column <= r.last.column}

(* A sheet has more than one row and column: the reference to a cell is    *)
(* never one to a whole axis.                                              *)
ASSUME GridAssumption ==
  /\ MaxRow \in Nat \ {0, 1} /\ MaxColumn \in Nat \ {0, 1}
  /\ None \notin Int /\ None \notin Address /\ None \notin Int \X Int /\ None \notin CellRange

Span(r, axis) == <<Coordinate(axis, r.first), Coordinate(axis, r.last)>>

CellsOf(r) == [row : r.first.row..r.last.row, column : r.first.column..r.last.column]

Height(r) == r.last.row - r.first.row + 1
Width(r) == r.last.column - r.first.column + 1

-----------------------------------------------------------------------------
(* The edits grid_change accepts: none is empty, none leaves the sheet.    *)
Insertion(axis) ==
  {e \in [kind : {"insert"}, axis : {axis}, at : Line(axis), count : Line(axis)] :
     e.at + e.count - 1 <= AxisMax(axis)}

Deletion(axis) ==
  {e \in [kind : {"delete"}, axis : {axis}, first : Line(axis), last : Line(axis)] :
     e.first <= e.last}

LineMove(axis) ==
  {e \in [kind : {"move"}, axis : {axis}, first : Line(axis), last : Line(axis),
          destination : Line(axis)] :
     e.first <= e.last /\ e.destination + (e.last - e.first) <= AxisMax(axis)}

RangeMove ==
  {e \in [kind : {"range"}, source : CellRange, destination : Address] :
     /\ e.destination.row + Height(e.source) - 1 <= MaxRow
     /\ e.destination.column + Width(e.source) - 1 <= MaxColumn}

LineEdit == UNION {Insertion(axis) \union Deletion(axis) \union LineMove(axis) : axis \in Axis}

GridEdit == LineEdit \union RangeMove

(* The edit that undoes this one.                                          *)
DestinationRange(e) ==
  [first |-> e.destination,
   last  |-> [row    |-> e.destination.row + Height(e.source) - 1,
              column |-> e.destination.column + Width(e.source) - 1]]

(* Mutant: a move is undone from where its lines were, not where they are. *)
InverseFromSource(e) ==
  CASE e.kind = "insert" -> [kind |-> "delete", axis |-> e.axis, first |-> e.at,
                             last |-> e.at + e.count - 1]
    [] e.kind = "delete" -> [kind |-> "insert", axis |-> e.axis, at |-> e.first,
                             count |-> e.last - e.first + 1]
    [] e.kind = "move"   -> [kind |-> "move", axis |-> e.axis, first |-> e.destination,
                             last |-> e.destination, destination |-> e.first]
    [] e.kind = "range"  -> [kind |-> "range", source |-> DestinationRange(e),
                             destination |-> e.source.first]

InverseEdit(e) ==
  CASE e.kind = "insert" -> [kind |-> "delete", axis |-> e.axis, first |-> e.at,
                             last |-> e.at + e.count - 1]
    [] e.kind = "delete" -> [kind |-> "insert", axis |-> e.axis, at |-> e.first,
                             count |-> e.last - e.first + 1]
    [] e.kind = "move"   -> [kind |-> "move", axis |-> e.axis, first |-> e.destination,
                             last |-> e.destination + (e.last - e.first),
                             destination |-> e.first]
    [] e.kind = "range"  -> [kind |-> "range", source |-> DestinationRange(e),
                             destination |-> e.source.first]

-----------------------------------------------------------------------------
(* Where a line goes: None when it is deleted or pushed off the sheet.     *)
InsertedLine(e, v) ==
  IF v < e.at THEN v
  ELSE IF v + e.count <= AxisMax(e.axis) THEN v + e.count ELSE None

DeletedLine(e, v) ==
  IF v < e.first THEN v
  ELSE IF v <= e.last THEN None
  ELSE v - (e.last - e.first + 1)

MovedLine(e, v) ==
  LET count == e.last - e.first + 1 IN
  IF v \in e.first..e.last THEN e.destination + (v - e.first)
  ELSE IF v \in e.destination..(e.first - 1) THEN v + count
  ELSE IF v \in (e.last + 1)..(e.destination + count - 1) THEN v - count
  ELSE v

MapLine(e, v) ==
  CASE e.kind = "insert" -> InsertedLine(e, v)
    [] e.kind = "delete" -> DeletedLine(e, v)
    [] e.kind = "move"   -> MovedLine(e, v)

(* Where a line came from: None for one inserted, or vacated at the end.   *)
UnmapInserted(e, v) ==
  IF v < e.at THEN v
  ELSE IF v < e.at + e.count THEN None
  ELSE v - e.count

UnmapDeleted(e, v) ==
  LET from == v + (e.last - e.first + 1) IN
  IF v < e.first THEN v
  ELSE IF from <= AxisMax(e.axis) THEN from ELSE None

UnmapLine(e, v) ==
  CASE e.kind = "insert" -> UnmapInserted(e, v)
    [] e.kind = "delete" -> UnmapDeleted(e, v)
    [] e.kind = "move"   -> MapLine(InverseEdit(e), v)

HasCell(r, a) == a \in CellsOf(r)

RowOffset(e) == e.destination.row - e.source.first.row
ColumnOffset(e) == e.destination.column - e.source.first.column

OffsetAddress(a, rows, columns) ==
  LET moved == [row |-> a.row + rows, column |-> a.column + columns] IN
  IF moved \in Address THEN moved ELSE None

(* map_address: where a cell goes: None when it is deleted or overwritten. *)
MapAddress(e, a) ==
  IF e.kind = "range"
  THEN IF HasCell(e.source, a) THEN OffsetAddress(a, RowOffset(e), ColumnOffset(e))
       ELSE IF HasCell(DestinationRange(e), a) THEN None
       ELSE a
  ELSE LET line == MapLine(e, Coordinate(e.axis, a)) IN
       IF line = None THEN None ELSE WithCoordinate(e.axis, a, line)

(* unmap_address: where a cell came from.                                  *)
UnmapAddress(e, a) ==
  IF e.kind = "range"
  THEN IF HasCell(DestinationRange(e), a) THEN OffsetAddress(a, -RowOffset(e), -ColumnOffset(e))
       ELSE IF HasCell(e.source, a) THEN None
       ELSE a
  ELSE LET line == UnmapLine(e, Coordinate(e.axis, a)) IN
       IF line = None THEN None ELSE WithCoordinate(e.axis, a, line)

-----------------------------------------------------------------------------
(* intersect: the cells two ranges share, None if they share none.         *)
Least(i, j) == IF i <= j THEN i ELSE j
Greatest(i, j) == IF i >= j THEN i ELSE j

Intersect(r, q) ==
  LET shared == [first |-> [row    |-> Greatest(r.first.row, q.first.row),
                            column |-> Greatest(r.first.column, q.first.column)],
                 last  |-> [row    |-> Least(r.last.row, q.last.row),
                            column |-> Least(r.last.column, q.last.column)]]
  IN  IF shared \in CellRange THEN shared ELSE None

Piece(top, left, bottom, right) ==
  [first |-> [row |-> top, column |-> left], last |-> [row |-> bottom, column |-> right]]

(***************************************************************************)
(* subtract: the cells of r outside removed, as the ranges above, to the   *)
(* left, to the right and below, in this order; those that are not in      *)
(* CellRange are empty and left out.                                       *)
(***************************************************************************)
Pieces(r, removed) ==
  LET o == Intersect(r, removed)
      empty == Piece(1, 1, 0, 0)
  IN  IF o = None THEN <<r, empty, empty, empty>>
      ELSE << Piece(r.first.row, r.first.column, o.first.row - 1, r.last.column),
              Piece(o.first.row, r.first.column, o.last.row, o.first.column - 1),
              Piece(o.first.row, o.last.column + 1, o.last.row, r.last.column),
              Piece(o.last.row + 1, r.first.column, r.last.row, r.last.column) >>

(* What ranges leave outside removed, in their order.                      *)
Subtract(ranges, removed) ==
  LET pieces == [k \in 1..(4 * Len(ranges)) |->
                   Pieces(ranges[1 + ((k - 1) \div 4)], removed)[1 + ((k - 1) % 4)]]
  IN  SelectSeq(pieces, LAMBDA p : p \in CellRange)

RangeContains(outer, inner) == HasCell(outer, inner.first) /\ HasCell(outer, inner.last)

PartiallyOverlaps(r, other) == Intersect(r, other) # None /\ ~RangeContains(other, r)

OffsetRange(r, rows, columns) ==
  LET first == OffsetAddress(r.first, rows, columns)
      last == OffsetAddress(r.last, rows, columns)
  IN  IF first = None \/ last = None THEN None ELSE [first |-> first, last |-> last]

(* overwritten: what a range move pastes over and does not move.           *)
Overwritten(e) == Pieces(DestinationRange(e), e.source)

Overwrites(e, r) ==
  /\ e.kind = "range"
  /\ LET overlap == Intersect(r, DestinationRange(e)) IN
     overlap # None /\ \E i \in 1..4 : Pieces(overlap, e.source)[i] \in CellRange

-----------------------------------------------------------------------------
(***************************************************************************)
(* map_interval: where a line edit puts the lines start..end, None when it *)
(* deletes them all.  Lines inserted strictly inside widen the interval,   *)
(* and under the rule "format" lines inserted right after it too; a        *)
(* deletion of some narrows it; a move takes each end with its line, or,   *)
(* if the ends would cross, deletes the moved lines and makes room for     *)
(* them at their destination.  A whole axis never changes.                 *)
(***************************************************************************)
WholeAxis(axis, start, end) == start = 1 /\ end = AxisMax(axis)

InsertedInterval(e, start, end, rule) ==
  LET max == AxisMax(e.axis)
      grows == end >= e.at \/ (rule = "format" /\ end + 1 = e.at)
      from == IF start >= e.at THEN start + e.count ELSE start
  IN  IF from > max THEN None
      ELSE <<from, Least(IF grows THEN end + e.count ELSE end, max)>>

(* Mutant: an interval that loses its last lines keeps one of them.        *)
DeletedIntervalKeepsEnd(e, start, end) ==
  LET count == e.last - e.first + 1 IN
  IF start >= e.first /\ end <= e.last THEN None
  ELSE << IF start < e.first THEN start ELSE IF start <= e.last THEN e.first ELSE start - count,
          IF end < e.first THEN end ELSE IF end <= e.last THEN e.first ELSE end - count >>

DeletedInterval(e, start, end) ==
  LET count == e.last - e.first + 1 IN
  IF start >= e.first /\ end <= e.last THEN None
  ELSE << IF start < e.first THEN start ELSE IF start <= e.last THEN e.first ELSE start - count,
          IF end < e.first THEN end ELSE IF end <= e.last THEN e.first - 1 ELSE end - count >>

MovedInterval(e, start, end, rule) ==
  LET from == MapLine(e, start)
      to == MapLine(e, end)
      left == DeletedInterval(e, start, end)
      room == [kind |-> "insert", axis |-> e.axis, at |-> e.destination,
               count |-> e.last - e.first + 1]
  IN  IF from <= to THEN <<from, to>>
      ELSE IF left = None \/ WholeAxis(e.axis, left[1], left[2]) THEN left
      ELSE InsertedInterval(room, left[1], left[2], "reference")

MapInterval(e, start, end, rule) ==
  IF WholeAxis(e.axis, start, end) THEN <<start, end>>
  ELSE CASE e.kind = "insert" -> InsertedInterval(e, start, end, rule)
         [] e.kind = "delete" -> DeletedInterval(e, start, end)
         [] e.kind = "move"   -> MovedInterval(e, start, end, rule)

(* map_range: a range move takes along the ranges wholly inside its source. *)
MapRange(e, r, rule) ==
  IF e.kind = "range"
  THEN IF RangeContains(e.source, r) THEN OffsetRange(r, RowOffset(e), ColumnOffset(e)) ELSE r
  ELSE LET span == Span(r, e.axis)
           mapped == MapInterval(e, span[1], span[2], rule)
       IN  IF mapped = None THEN None
           ELSE [first |-> WithCoordinate(e.axis, r.first, mapped[1]),
                 last  |-> WithCoordinate(e.axis, r.last, mapped[2])]

(* map_ranges of a line edit: the ranges left, in their order.             *)
MapRanges(e, ranges, rule) ==
  SelectSeq([i \in DOMAIN ranges |-> MapRange(e, ranges[i], rule)], LAMBDA r : r # None)

(***************************************************************************)
(* splits: the edit changes r only in part.                                *)
(***************************************************************************)
Splits(e, r) ==
  IF e.kind = "range"
  THEN \/ PartiallyOverlaps(r, e.source)
       \/ ~RangeContains(e.source, r) /\ PartiallyOverlaps(r, DestinationRange(e))
  ELSE LET start == Span(r, e.axis)[1]
           end == Span(r, e.axis)[2]
           overlaps == start <= e.last /\ e.first <= end
           contains == e.first <= start /\ end <= e.last
           insertion == IF e.destination > e.first
                        THEN e.destination + (e.last - e.first + 1) ELSE e.destination
       IN  CASE e.kind = "insert" -> start < e.at /\ e.at <= end
             [] e.kind = "delete" -> overlaps /\ ~contains
             [] e.kind = "move"   -> ~contains /\ (overlaps \/ (start < insertion /\ insertion <= end))

-----------------------------------------------------------------------------
(***************************************************************************)
(* GridHistory, by what its edits do together: the source cell that is now *)
(* at each address (to_source), and where each source cell is now          *)
(* (current_address), None if there is none.  With them: whether lines or  *)
(* cells were moved, how many edits there were, and the last one.          *)
(***************************************************************************)
NoEdits ==
  [origin |-> [a \in Address |-> a], current |-> [a \in Address |-> a], moves |-> FALSE,
   count |-> 0, last |-> None]

Push(h, e) ==
  [origin  |-> [a \in Address |-> IF UnmapAddress(e, a) = None THEN None ELSE h.origin[UnmapAddress(e, a)]],
   current |-> [a \in Address |-> IF h.current[a] = None THEN None ELSE MapAddress(e, h.current[a])],
   moves   |-> h.moves \/ e.kind \in {"move", "range"},
   count   |-> h.count + 1, last |-> e]
=============================================================================
