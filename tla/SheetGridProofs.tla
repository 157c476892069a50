--------------------------- MODULE SheetGridProofs ---------------------------
(***************************************************************************)
(* What structural edits do to lines, intervals, cells and ranges, for     *)
(* sheets of every size: lemmas about the operators of GridEdits.  Then a  *)
(* worksheet under structural edits and cell edits, for sheets of every    *)
(* size and every document: the writer reproduces the sheet, references    *)
(* follow their cells, merged ranges and array formulas stay whole, and    *)
(* edits of lines can be undone.                                           *)
(***************************************************************************)
EXTENDS SheetGrid, TLAPS

(* The edits of a kind, and what they are made of.                         *)
LEMMA LineEditCases ==
  ASSUME NEW e \in LineEdit
  PROVE  \E axis \in Axis : e.axis = axis /\
           (e \in Insertion(axis) \/ e \in Deletion(axis) \/ e \in LineMove(axis))
BY DEF LineEdit, Insertion, Deletion, LineMove

(* Both axes have lines.                                                   *)
LEMMA AxisMaxType == \A axis \in Axis : AxisMax(axis) \in Nat \ {0}
BY GridAssumption DEF AxisMax, Axis

(* Where a line edit puts a line is a line, from which unmap_line leads    *)
(* back, and the edit that undoes it too: no two lines share a place.      *)
LEMMA InsertionLines ==
  ASSUME NEW axis \in Axis, NEW e \in Insertion(axis), NEW v \in Line(axis)
  PROVE  /\ MapLine(e, v) # None => /\ MapLine(e, v) \in Line(axis)
                                    /\ UnmapLine(e, MapLine(e, v)) = v
                                    /\ MapLine(InverseEdit(e), MapLine(e, v)) = v
         /\ UnmapLine(e, v) # None => /\ UnmapLine(e, v) \in Line(axis)
                                      /\ MapLine(e, UnmapLine(e, v)) = v
<1>1. AxisMax(axis) \in Nat \ {0}
  BY AxisMaxType
<1>2. /\ e.kind = "insert" /\ e.axis = axis /\ e.at \in Line(axis) /\ e.count \in Line(axis)
      /\ e.at + e.count - 1 <= AxisMax(axis)
  BY DEF Insertion
<1>3. /\ InverseEdit(e).kind = "delete" /\ InverseEdit(e).axis = axis
      /\ InverseEdit(e).first = e.at /\ InverseEdit(e).last = e.at + e.count - 1
  BY <1>2 DEF InverseEdit
<1>4. None \notin Int
  BY GridAssumption
<1>5. /\ MapLine(e, v) = InsertedLine(e, v)
      /\ \A w : MapLine(InverseEdit(e), w) = DeletedLine(InverseEdit(e), w)
      /\ \A w : UnmapLine(e, w) = UnmapInserted(e, w)
      /\ \A w : MapLine(e, w) = InsertedLine(e, w)
  BY <1>2, <1>3 DEF MapLine, UnmapLine
<1>6. QED
  BY <1>1, <1>2, <1>3, <1>4, <1>5, SMTT(30) DEF InsertedLine, DeletedLine, UnmapInserted, Line

(* The same for a deletion.                                                *)
LEMMA DeletionLines ==
  ASSUME NEW axis \in Axis, NEW e \in Deletion(axis), NEW v \in Line(axis)
  PROVE  /\ MapLine(e, v) # None => /\ MapLine(e, v) \in Line(axis)
                                    /\ UnmapLine(e, MapLine(e, v)) = v
                                    /\ MapLine(InverseEdit(e), MapLine(e, v)) = v
         /\ UnmapLine(e, v) # None => /\ UnmapLine(e, v) \in Line(axis)
                                      /\ MapLine(e, UnmapLine(e, v)) = v
<1>1. AxisMax(axis) \in Nat \ {0}
  BY AxisMaxType
<1>2. /\ e.kind = "delete" /\ e.axis = axis /\ e.first \in Line(axis) /\ e.last \in Line(axis)
      /\ e.first <= e.last
  BY DEF Deletion
<1>3. /\ InverseEdit(e).kind = "insert" /\ InverseEdit(e).axis = axis
      /\ InverseEdit(e).at = e.first /\ InverseEdit(e).count = e.last - e.first + 1
  BY <1>2 DEF InverseEdit
<1>4. None \notin Int
  BY GridAssumption
<1>5. /\ \A w : MapLine(InverseEdit(e), w) = InsertedLine(InverseEdit(e), w)
      /\ \A w : UnmapLine(e, w) = UnmapDeleted(e, w)
      /\ \A w : MapLine(e, w) = DeletedLine(e, w)
  BY <1>2, <1>3 DEF MapLine, UnmapLine
<1>6. QED
  BY <1>1, <1>2, <1>3, <1>4, <1>5, SMTT(30) DEF InsertedLine, DeletedLine, UnmapDeleted, Line

(* The same for a move of lines, which loses none.                         *)
LEMMA MoveLines ==
  ASSUME NEW axis \in Axis, NEW e \in LineMove(axis), NEW v \in Line(axis)
  PROVE  /\ MapLine(e, v) \in Line(axis)
         /\ UnmapLine(e, MapLine(e, v)) = v
         /\ MapLine(InverseEdit(e), MapLine(e, v)) = v
         /\ UnmapLine(e, v) \in Line(axis)
         /\ MapLine(e, UnmapLine(e, v)) = v
<1>1. AxisMax(axis) \in Nat \ {0}
  BY AxisMaxType
<1>2. /\ e.kind = "move" /\ e.axis = axis /\ e.first \in Line(axis) /\ e.last \in Line(axis)
      /\ e.destination \in Line(axis)
      /\ e.first <= e.last /\ e.destination + (e.last - e.first) <= AxisMax(axis)
  BY DEF LineMove
<1>3. /\ InverseEdit(e).kind = "move" /\ InverseEdit(e).axis = axis
      /\ InverseEdit(e).first = e.destination
      /\ InverseEdit(e).last = e.destination + (e.last - e.first)
      /\ InverseEdit(e).destination = e.first
  BY <1>2 DEF InverseEdit
<1>5. /\ \A w : MapLine(InverseEdit(e), w) = MovedLine(InverseEdit(e), w)
      /\ \A w : UnmapLine(e, w) = MovedLine(InverseEdit(e), w)
      /\ \A w : MapLine(e, w) = MovedLine(e, w)
  BY <1>2, <1>3 DEF MapLine, UnmapLine
<1>6. QED
  BY <1>1, <1>2, <1>3, <1>5, SMTT(60) DEF MovedLine, Line

(***************************************************************************)
(* No line edit loses track of a line: a line that is not deleted or       *)
(* pushed off the sheet stays on it, unmap_line leads back to where it     *)
(* was, and so does the edit that undoes it; and a line that has a source  *)
(* is where its source was moved to.                                       *)
(***************************************************************************)
THEOREM LineEditsAreReversible ==
  \A e \in LineEdit : \A v \in Line(e.axis) :
    /\ MapLine(e, v) # None => /\ MapLine(e, v) \in Line(e.axis)
                               /\ UnmapLine(e, MapLine(e, v)) = v
                               /\ MapLine(InverseEdit(e), MapLine(e, v)) = v
    /\ UnmapLine(e, v) # None => /\ UnmapLine(e, v) \in Line(e.axis)
                                 /\ MapLine(e, UnmapLine(e, v)) = v
<1> TAKE e \in LineEdit
<1> TAKE v \in Line(e.axis)
<1>1. PICK axis \in Axis : e.axis = axis /\
        (e \in Insertion(axis) \/ e \in Deletion(axis) \/ e \in LineMove(axis))
  BY LineEditCases
<1>2. CASE e \in Insertion(axis)
  BY <1>1, <1>2, InsertionLines
<1>3. CASE e \in Deletion(axis)
  BY <1>1, <1>3, DeletionLines
<1>4. CASE e \in LineMove(axis)
  BY <1>1, <1>4, MoveLines
<1>5. QED
  BY <1>1, <1>2, <1>3, <1>4

(* An address and its coordinate along an axis.                            *)
LEMMA Coordinates ==
  ASSUME NEW axis \in Axis, NEW a \in Address, NEW v \in Line(axis)
  PROVE  /\ Coordinate(axis, a) \in Line(axis)
         /\ WithCoordinate(axis, a, v) \in Address
         /\ Coordinate(axis, WithCoordinate(axis, a, v)) = v
         /\ \A w \in Line(axis) :
              WithCoordinate(axis, WithCoordinate(axis, a, v), w) = WithCoordinate(axis, a, w)
         /\ WithCoordinate(axis, a, Coordinate(axis, a)) = a
<1>1. CASE axis = "rows"
  BY <1>1, GridAssumption DEF Axis, Address, Coordinate, WithCoordinate, Line, AxisMax
<1>2. CASE axis = "columns"
  BY <1>2, GridAssumption DEF Axis, Address, Coordinate, WithCoordinate, Line, AxisMax
<1>3. QED
  BY <1>1, <1>2 DEF Axis

(* A line edit puts the cells that stay at addresses of their own, and     *)
(* unmap leads back.                                                       *)
LEMMA LineEditAddresses ==
  ASSUME NEW e \in LineEdit, NEW a \in Address
  PROVE  /\ MapAddress(e, a) # None =>
              MapAddress(e, a) \in Address /\ UnmapAddress(e, MapAddress(e, a)) = a
         /\ UnmapAddress(e, a) # None =>
              UnmapAddress(e, a) \in Address /\ MapAddress(e, UnmapAddress(e, a)) = a
<1>1. e.kind # "range" /\ e.axis \in Axis
  BY DEF LineEdit, Insertion, Deletion, LineMove
<1> DEFINE c == Coordinate(e.axis, a)
<1>2. c \in Line(e.axis) /\ c # None
  BY <1>1, Coordinates, GridAssumption, AxisMaxType DEF Line
<1>3. /\ \A b : MapAddress(e, b) = IF MapLine(e, Coordinate(e.axis, b)) = None THEN None
                    ELSE WithCoordinate(e.axis, b, MapLine(e, Coordinate(e.axis, b)))
      /\ \A b : UnmapAddress(e, b) = IF UnmapLine(e, Coordinate(e.axis, b)) = None THEN None
                    ELSE WithCoordinate(e.axis, b, UnmapLine(e, Coordinate(e.axis, b)))
  BY <1>1 DEF MapAddress, UnmapAddress
<1>4. ASSUME MapAddress(e, a) # None
      PROVE  MapAddress(e, a) \in Address /\ UnmapAddress(e, MapAddress(e, a)) = a
  <2>1. MapLine(e, c) # None
    BY <1>3, <1>4
  <2>2. MapLine(e, c) \in Line(e.axis) /\ UnmapLine(e, MapLine(e, c)) = c
    BY <1>2, <2>1, LineEditsAreReversible
  <2>3. MapAddress(e, a) = WithCoordinate(e.axis, a, MapLine(e, c))
    BY <1>3, <2>1
  <2>4. MapAddress(e, a) \in Address /\ Coordinate(e.axis, MapAddress(e, a)) = MapLine(e, c)
    BY <1>1, <2>2, <2>3, Coordinates
  <2>5. UnmapAddress(e, MapAddress(e, a)) = WithCoordinate(e.axis, MapAddress(e, a), c)
    BY <1>2, <1>3, <2>2, <2>4
  <2>6. WithCoordinate(e.axis, MapAddress(e, a), c) = a
    BY <1>1, <1>2, <2>2, <2>3, Coordinates
  <2>7. QED
    BY <2>4, <2>5, <2>6
<1>5. ASSUME UnmapAddress(e, a) # None
      PROVE  UnmapAddress(e, a) \in Address /\ MapAddress(e, UnmapAddress(e, a)) = a
  <2>1. UnmapLine(e, c) # None
    BY <1>3, <1>5
  <2>2. UnmapLine(e, c) \in Line(e.axis) /\ MapLine(e, UnmapLine(e, c)) = c
    BY <1>2, <2>1, LineEditsAreReversible
  <2>3. UnmapAddress(e, a) = WithCoordinate(e.axis, a, UnmapLine(e, c))
    BY <1>3, <2>1
  <2>4. UnmapAddress(e, a) \in Address /\ Coordinate(e.axis, UnmapAddress(e, a)) = UnmapLine(e, c)
    BY <1>1, <2>2, <2>3, Coordinates
  <2>5. MapAddress(e, UnmapAddress(e, a)) = WithCoordinate(e.axis, UnmapAddress(e, a), c)
    BY <1>2, <1>3, <2>2, <2>4
  <2>6. WithCoordinate(e.axis, UnmapAddress(e, a), c) = a
    BY <1>1, <1>2, <2>2, <2>3, Coordinates
  <2>7. QED
    BY <2>4, <2>5, <2>6
<1>6. QED
  BY <1>4, <1>5

(* So does a range move, for the cells it does not paste over.             *)
LEMMA RangeMoveAddresses ==
  ASSUME NEW e \in RangeMove, NEW a \in Address
  PROVE  /\ MapAddress(e, a) # None =>
              MapAddress(e, a) \in Address /\ UnmapAddress(e, MapAddress(e, a)) = a
         /\ UnmapAddress(e, a) # None =>
              UnmapAddress(e, a) \in Address /\ MapAddress(e, UnmapAddress(e, a)) = a
<1>1. /\ e.kind = "range" /\ e.source \in CellRange /\ e.destination \in Address
      /\ e.destination.row + Height(e.source) - 1 <= MaxRow
      /\ e.destination.column + Width(e.source) - 1 <= MaxColumn
  BY DEF RangeMove
<1>2. /\ e.source.first \in Address /\ e.source.last \in Address
      /\ e.source.first.row <= e.source.last.row
      /\ e.source.first.column <= e.source.last.column
  BY <1>1 DEF CellRange
<1> DEFINE r == RowOffset(e)
           c == ColumnOffset(e)
           In(b) == HasCell(e.source, b)
           Out(b) == HasCell(DestinationRange(e), b)
           Shift(b) == [row |-> b.row + r, column |-> b.column + c]
           Back(b) == [row |-> b.row - r, column |-> b.column - c]
<1>3. r \in Int /\ c \in Int
  BY <1>1, <1>2, GridAssumption DEF RowOffset, ColumnOffset, Address
<1>4. \A b \in Address : In(b) => Shift(b) \in Address /\ Out(Shift(b)) /\ Back(Shift(b)) = b
  BY <1>1, <1>2, GridAssumption, SMTT(30)
     DEF RowOffset, ColumnOffset, Address, HasCell, CellsOf, DestinationRange, Height, Width
<1>5. \A b \in Address : Out(b) => Back(b) \in Address /\ In(Back(b)) /\ Shift(Back(b)) = b
  BY <1>1, <1>2, GridAssumption, SMTT(30)
     DEF RowOffset, ColumnOffset, Address, HasCell, CellsOf, DestinationRange, Height, Width
<1>6. \A b \in Address :
        /\ MapAddress(e, b) = IF In(b) THEN Shift(b) ELSE IF Out(b) THEN None ELSE b
        /\ UnmapAddress(e, b) = IF Out(b) THEN Back(b) ELSE IF In(b) THEN None ELSE b
  <2> TAKE b \in Address
  <2>1. In(b) => OffsetAddress(b, RowOffset(e), ColumnOffset(e)) = Shift(b)
    BY <1>4 DEF OffsetAddress
  <2>2. Back(b) = [row |-> b.row + (-r), column |-> b.column + (-c)]
    BY <1>3, GridAssumption DEF Address
  <2>3. Out(b) => OffsetAddress(b, -RowOffset(e), -ColumnOffset(e)) = Back(b)
    BY <1>5, <2>2 DEF OffsetAddress
  <2>4. QED
    BY <1>1, <2>1, <2>3 DEF MapAddress, UnmapAddress
<1> HIDE DEF r, c, In, Out, Shift, Back
<1>7. a # None
  BY GridAssumption
<1>8. QED
  BY <1>4, <1>5, <1>6, <1>7

(* No structural edit loses track of a cell, and no two cells share one.   *)
LEMMA AddressesAreReversible ==
  ASSUME NEW e \in GridEdit, NEW a \in Address
  PROVE  /\ MapAddress(e, a) # None =>
              MapAddress(e, a) \in Address /\ UnmapAddress(e, MapAddress(e, a)) = a
         /\ UnmapAddress(e, a) # None =>
              UnmapAddress(e, a) \in Address /\ MapAddress(e, UnmapAddress(e, a)) = a
BY LineEditAddresses, RangeMoveAddresses DEF GridEdit

(***************************************************************************)
(* An interval through insertions and deletions (map_interval): it is gone *)
(* only if every line of it is; otherwise every line left of it is in its  *)
(* new interval, and every line of that one was in it or is new.  So a     *)
(* reference neither loses a cell nor takes in one it did not cover.       *)
(***************************************************************************)
THEOREM IntervalsKeepTheirLines ==
  ASSUME NEW axis \in Axis, NEW e \in Insertion(axis) \union Deletion(axis),
         NEW start \in Line(axis), NEW end \in Line(axis), start <= end,
         NEW rule \in {"reference", "format"}
  PROVE  LET mapped == MapInterval(e, start, end, rule) IN
         IF mapped = None THEN \A v \in start..end : MapLine(e, v) = None
         ELSE /\ mapped[1] \in Line(axis) /\ mapped[2] \in Line(axis) /\ mapped[1] <= mapped[2]
              /\ \A v \in start..end : MapLine(e, v) # None => MapLine(e, v) \in mapped[1]..mapped[2]
              /\ \A w \in mapped[1]..mapped[2] : UnmapLine(e, w) # None => UnmapLine(e, w) \in start..end
<1>1. AxisMax(axis) \in Nat \ {0}
  BY AxisMaxType
<1>2. None \notin Int /\ \A i, j \in Int : <<i, j>> # None
  BY GridAssumption
<1>3. e.axis = axis
  BY DEF Insertion, Deletion
<1>4. CASE WholeAxis(axis, start, end)
  <2>1. MapInterval(e, start, end, rule) = <<start, end>>
    BY <1>3, <1>4 DEF MapInterval
  <2>2. start..end = Line(axis)
    BY <1>4 DEF WholeAxis, Line
  <2>3. \A v \in Line(axis) :
          /\ MapLine(e, v) # None => MapLine(e, v) \in Line(axis)
          /\ UnmapLine(e, v) # None => UnmapLine(e, v) \in Line(axis)
    BY InsertionLines, DeletionLines
  <2>4. <<start, end>> # None
    BY <1>1, <1>2 DEF Line
  <2>5. \A v \in start..end :
          /\ MapLine(e, v) # None => MapLine(e, v) \in start..end
          /\ UnmapLine(e, v) # None => UnmapLine(e, v) \in start..end
    BY <2>2, <2>3
  <2>6. QED
    BY <2>1, <2>4, <2>5
<1>5. CASE e \in Insertion(axis) /\ ~WholeAxis(axis, start, end)
  <2>1. /\ e.kind = "insert" /\ e.at \in Line(axis) /\ e.count \in Line(axis)
        /\ e.at + e.count - 1 <= AxisMax(axis)
    BY <1>5 DEF Insertion
  <2>2. /\ MapInterval(e, start, end, rule) = InsertedInterval(e, start, end, rule)
        /\ \A v : MapLine(e, v) = InsertedLine(e, v)
        /\ \A v : UnmapLine(e, v) = UnmapInserted(e, v)
    BY <1>3, <1>5, <2>1 DEF MapInterval, MapLine, UnmapLine
  <2> DEFINE from == IF start >= e.at THEN start + e.count ELSE start
             grows == end >= e.at \/ (rule = "format" /\ end + 1 = e.at)
             to == Least(IF grows THEN end + e.count ELSE end, AxisMax(axis))
  <2>3. InsertedInterval(e, start, end, rule) = IF from > AxisMax(axis) THEN None ELSE <<from, to>>
    BY <1>3 DEF InsertedInterval
  <2>4. from \in Int /\ to \in Int
    BY <1>1, <2>1 DEF Line, Least
  <2>5. CASE from > AxisMax(axis)
    BY <1>1, <1>3, <2>1, <2>2, <2>3, <2>5 DEF InsertedLine, Line
  <2>6. CASE ~(from > AxisMax(axis))
    <3>1. MapInterval(e, start, end, rule) = <<from, to>> /\ <<from, to>> # None
      BY <1>2, <2>2, <2>3, <2>4, <2>6
    <3>2. from \in Line(axis) /\ to \in Line(axis) /\ from <= to
      BY <1>1, <2>1, <2>6 DEF Line, Least
    <3>3. \A v \in start..end : InsertedLine(e, v) # None => InsertedLine(e, v) \in from..to
      BY <1>1, <1>2, <1>3, <2>1, <2>6 DEF Line, Least, InsertedLine
    <3>4. \A w \in from..to : UnmapInserted(e, w) # None => UnmapInserted(e, w) \in start..end
      BY <1>1, <1>2, <1>3, <2>1, <2>6 DEF Line, Least, UnmapInserted
    <3> HIDE DEF from, to
    <3>5. QED
      BY <2>2, <3>1, <3>2, <3>3, <3>4
  <2>7. QED
    BY <2>5, <2>6
<1>6. CASE e \in Deletion(axis) /\ ~WholeAxis(axis, start, end)
  <2>1. e.kind = "delete" /\ e.first \in Line(axis) /\ e.last \in Line(axis) /\ e.first <= e.last
    BY <1>6 DEF Deletion
  <2>2. /\ MapInterval(e, start, end, rule) = DeletedInterval(e, start, end)
        /\ \A v : MapLine(e, v) = DeletedLine(e, v)
        /\ \A v : UnmapLine(e, v) = UnmapDeleted(e, v)
    BY <1>3, <1>6, <2>1 DEF MapInterval, MapLine, UnmapLine
  <2> DEFINE count == e.last - e.first + 1
             from == IF start < e.first THEN start ELSE IF start <= e.last THEN e.first ELSE start - count
             to == IF end < e.first THEN end ELSE IF end <= e.last THEN e.first - 1 ELSE end - count
  <2>3. DeletedInterval(e, start, end) =
          IF start >= e.first /\ end <= e.last THEN None ELSE <<from, to>>
    BY DEF DeletedInterval
  <2>4. from \in Int /\ to \in Int
    BY <1>1, <2>1 DEF Line
  <2>5. CASE start >= e.first /\ end <= e.last
    BY <1>1, <1>3, <2>1, <2>2, <2>3, <2>5 DEF DeletedLine, Line
  <2>6. CASE ~(start >= e.first /\ end <= e.last)
    <3>1. MapInterval(e, start, end, rule) = <<from, to>> /\ <<from, to>> # None
      BY <1>2, <2>2, <2>3, <2>4, <2>6
    <3>2. from \in Line(axis) /\ to \in Line(axis) /\ from <= to
      BY <1>1, <2>1, <2>6 DEF Line
    <3>3. \A v \in start..end : DeletedLine(e, v) # None => DeletedLine(e, v) \in from..to
      BY <1>1, <1>2, <1>3, <2>1, <2>6 DEF Line, DeletedLine
    <3>4. \A w \in from..to : UnmapDeleted(e, w) # None => UnmapDeleted(e, w) \in start..end
      BY <1>1, <1>2, <1>3, <2>1, <2>6 DEF Line, UnmapDeleted
    <3> HIDE DEF from, to, count
    <3>5. QED
      BY <2>2, <3>1, <3>2, <3>3, <3>4
  <2>7. QED
    BY <2>5, <2>6
<1>7. QED
  BY <1>4, <1>5, <1>6

-----------------------------------------------------------------------------
(* The range of one cell.                                                  *)
CellRangeOf(a) == [first |-> a, last |-> a]

(* It is a range, and the only one with these corners.                     *)
LEMMA CellRanges ==
  ASSUME NEW a \in Address
  PROVE  /\ CellRangeOf(a) \in CellRange /\ CellRangeOf(a) # None
         /\ CellsOf(CellRangeOf(a)) = {a}
         /\ \A r \in CellRange : r.first = a /\ r.last = a => r = CellRangeOf(a)
<1>1. CellRangeOf(a) \in CellRange
  BY GridAssumption DEF CellRangeOf, CellRange, Address
<1>2. CellsOf(CellRangeOf(a)) = {a}
  <2>1. CellsOf(CellRangeOf(a)) = [row : a.row..a.row, column : a.column..a.column]
    BY DEF CellRangeOf, CellsOf
  <2>2. a.row..a.row = {a.row} /\ a.column..a.column = {a.column}
    BY GridAssumption DEF Address
  <2>3. a = [row |-> a.row, column |-> a.column]
    BY DEF Address
  <2>4. \A b \in [row : {a.row}, column : {a.column}] : b = a
    BY <2>3
  <2>6. a \in [row : {a.row}, column : {a.column}]
    BY <2>3
  <2>5. QED
    BY <2>1, <2>2, <2>4, <2>6
<1>3. QED
  BY <1>1, <1>2, GridAssumption DEF CellRangeOf, CellRange

(* A single line is an interval that goes where the line goes.             *)
LEMMA SingleLines ==
  ASSUME NEW axis \in Axis, NEW e \in Insertion(axis) \union Deletion(axis) \union LineMove(axis),
         NEW v \in Line(axis)
  PROVE  MapInterval(e, v, v, "reference") =
           IF MapLine(e, v) = None THEN None ELSE <<MapLine(e, v), MapLine(e, v)>>
<1>1. AxisMax(axis) \in Nat \ {0, 1} /\ None \notin Int
  BY GridAssumption DEF AxisMax, Axis
<1>2. e.axis = axis /\ ~WholeAxis(axis, v, v)
  BY <1>1 DEF Insertion, Deletion, LineMove, WholeAxis
<1>3. CASE e \in Insertion(axis)
  <2>1. /\ e.kind = "insert" /\ e.at \in Line(axis) /\ e.count \in Line(axis)
    BY <1>3 DEF Insertion
  <2>2. /\ MapInterval(e, v, v, "reference") = InsertedInterval(e, v, v, "reference")
        /\ MapLine(e, v) = InsertedLine(e, v)
    BY <1>2, <2>1 DEF MapInterval, MapLine
  <2>3. QED
    BY <1>1, <1>2, <2>1, <2>2 DEF InsertedInterval, InsertedLine, Line, Least
<1>4. CASE e \in Deletion(axis)
  <2>1. e.kind = "delete" /\ e.first \in Line(axis) /\ e.last \in Line(axis) /\ e.first <= e.last
    BY <1>4 DEF Deletion
  <2>2. /\ MapInterval(e, v, v, "reference") = DeletedInterval(e, v, v)
        /\ MapLine(e, v) = DeletedLine(e, v)
    BY <1>2, <2>1 DEF MapInterval, MapLine
  <2>3. QED
    BY <1>1, <1>2, <2>1, <2>2 DEF DeletedInterval, DeletedLine, Line
<1>5. CASE e \in LineMove(axis)
  <2>1. e.kind = "move"
    BY <1>5 DEF LineMove
  <2>2. MapLine(e, v) \in Line(axis)
    BY <1>5, MoveLines
  <2>3. MapInterval(e, v, v, "reference") = MovedInterval(e, v, v, "reference")
    BY <1>2, <2>1 DEF MapInterval
  <2>4. MapLine(e, v) \in Int /\ MapLine(e, v) # None
    BY <1>1, <2>2 DEF Line
  <2>5. QED
    BY <2>3, <2>4 DEF MovedInterval
<1>6. QED
  BY <1>3, <1>4, <1>5

(* The cells of a range and of a piece, by their coordinates.              *)
LEMMA RangeCells ==
  ASSUME NEW r \in CellRange, NEW a \in Address
  PROVE  HasCell(r, a) <=> /\ r.first.row <= a.row /\ a.row <= r.last.row
                           /\ r.first.column <= a.column /\ a.column <= r.last.column
BY GridAssumption DEF HasCell, CellsOf, CellRange, Address

(* A piece of a range is empty, or covers the cells between its borders.   *)
LEMMA PieceCells ==
  ASSUME NEW t, NEW l, NEW b, NEW s, t \in Int, l \in Int, b \in Int, s \in Int,
         1 <= t, b <= MaxRow, 1 <= l, s <= MaxColumn,
         NEW p, p = Piece(t, l, b, s), NEW a \in Address
  PROVE  p \in CellRange /\ HasCell(p, a) <=>
           t <= a.row /\ a.row <= b /\ l <= a.column /\ a.column <= s
<1>1. p.first.row = t /\ p.first.column = l /\ p.last.row = b /\ p.last.column = s
  BY DEF Piece
<1>2. p \in CellRange <=> t <= b /\ l <= s
  BY GridAssumption DEF Piece, CellRange, Address
<1>3. p \in CellRange => (HasCell(p, a) <=> t <= a.row /\ a.row <= b /\ l <= a.column /\ a.column <= s)
  BY <1>1, RangeCells
<1>4. a.row \in Int /\ a.column \in Int
  BY GridAssumption DEF Address
<1>5. QED
  BY <1>2, <1>3, <1>4

(* The four pieces of subtract hold the cells outside the removed range.   *)
LEMMA PiecesHoldTheRest ==
  ASSUME NEW r \in CellRange, NEW removed \in CellRange, NEW a \in Address
  PROVE  (\E i \in 1..4 : Pieces(r, removed)[i] \in CellRange /\ HasCell(Pieces(r, removed)[i], a))
           <=> HasCell(r, a) /\ ~HasCell(removed, a)
<1> DEFINE o == Intersect(r, removed)
           p == Pieces(r, removed)
<1>1. /\ MaxRow \in Nat /\ MaxColumn \in Nat /\ None \notin CellRange
  BY GridAssumption
<1>2. /\ r.first.row \in 1..MaxRow /\ r.last.row \in 1..MaxRow
      /\ r.first.column \in 1..MaxColumn /\ r.last.column \in 1..MaxColumn
      /\ r.first.row <= r.last.row /\ r.first.column <= r.last.column
      /\ removed.first.row \in 1..MaxRow /\ removed.last.row \in 1..MaxRow
      /\ removed.first.column \in 1..MaxColumn /\ removed.last.column \in 1..MaxColumn
      /\ removed.first.row <= removed.last.row /\ removed.first.column <= removed.last.column
      /\ a.row \in 1..MaxRow /\ a.column \in 1..MaxColumn
      /\ a = [row |-> a.row, column |-> a.column]
  BY DEF CellRange, Address
<1> DEFINE top == Greatest(r.first.row, removed.first.row)
           left == Greatest(r.first.column, removed.first.column)
           bottom == Least(r.last.row, removed.last.row)
           right == Least(r.last.column, removed.last.column)
<1>5. /\ top \in 1..MaxRow /\ left \in 1..MaxColumn /\ bottom \in 1..MaxRow /\ right \in 1..MaxColumn
      /\ r.first.row <= top /\ r.first.column <= left /\ bottom <= r.last.row /\ right <= r.last.column
      /\ HasCell(r, a) /\ HasCell(removed, a) <=>
           top <= a.row /\ a.row <= bottom /\ left <= a.column /\ a.column <= right
  BY <1>1, <1>2, RangeCells DEF Greatest, Least
<1>5a. top \in Int /\ left \in Int /\ bottom \in Int /\ right \in Int
  BY <1>1, <1>5
<1>6. o = IF Piece(top, left, bottom, right) \in CellRange THEN Piece(top, left, bottom, right) ELSE None
  BY DEF Intersect, Piece
<1> HIDE DEF top, left, bottom, right
<1> DEFINE q == Piece(top, left, bottom, right)
<1>6a. /\ q.first.row = top /\ q.first.column = left /\ q.last.row = bottom /\ q.last.column = right
       /\ q \in CellRange <=> 1 <= top /\ top <= bottom /\ bottom <= MaxRow
                             /\ 1 <= left /\ left <= right /\ right <= MaxColumn
  BY <1>5a, GridAssumption DEF q, Piece, CellRange, Address
<1>6b. q \in CellRange <=> top <= bottom /\ left <= right
  BY <1>1, <1>5, <1>6a
<1> HIDE DEF q
<1>7. CASE o = None
  <2>1. p = <<r, Piece(1, 1, 0, 0), Piece(1, 1, 0, 0), Piece(1, 1, 0, 0)>>
    BY <1>7 DEF Pieces
  <2>2. Piece(1, 1, 0, 0) \notin CellRange
    BY DEF Piece, CellRange
  <2>3. ~(top <= bottom /\ left <= right)
    BY <1>1, <1>6, <1>6b, <1>7 DEF q
  <2>4. ~(HasCell(r, a) /\ HasCell(removed, a))
    BY <1>1, <1>2, <1>5, <2>3
  <2>5. p[1] = r /\ \A i \in 1..4 : i # 1 => p[i] = Piece(1, 1, 0, 0)
    BY <2>1
  <2>6. QED
    BY <2>2, <2>4, <2>5
<1>8. CASE o # None
  <2>1. o = q /\ top <= bottom /\ left <= right
    BY <1>1, <1>6, <1>6b, <1>8 DEF q
  <2>2. o.first.row = top /\ o.first.column = left /\ o.last.row = bottom /\ o.last.column = right
    BY <1>6a, <2>1
  <2>3. /\ p[1] = Piece(r.first.row, r.first.column, top - 1, r.last.column)
        /\ p[2] = Piece(top, r.first.column, bottom, left - 1)
        /\ p[3] = Piece(top, right + 1, bottom, r.last.column)
        /\ p[4] = Piece(bottom + 1, r.first.column, r.last.row, r.last.column)
    BY <1>8, <2>2 DEF Pieces
  <2> DEFINE C1 == r.first.row <= a.row /\ a.row <= top - 1 /\ r.first.column <= a.column /\ a.column <= r.last.column
             C2 == top <= a.row /\ a.row <= bottom /\ r.first.column <= a.column /\ a.column <= left - 1
             C3 == top <= a.row /\ a.row <= bottom /\ right + 1 <= a.column /\ a.column <= r.last.column
             C4 == bottom + 1 <= a.row /\ a.row <= r.last.row /\ r.first.column <= a.column /\ a.column <= r.last.column
  <2>4. p[1] \in CellRange /\ HasCell(p[1], a) <=> C1
    <3>1. /\ r.first.row \in Int /\ r.first.column \in Int /\ top - 1 \in Int /\ r.last.column \in Int
          /\ 1 <= r.first.row /\ top - 1 <= MaxRow /\ 1 <= r.first.column /\ r.last.column <= MaxColumn
      BY <1>1, <1>2, <1>5
    <3>2. p[1] = Piece(r.first.row, r.first.column, top - 1, r.last.column)
      BY <2>3
    <3>3. QED
      BY <3>1, <3>2, PieceCells
  <2>5. p[2] \in CellRange /\ HasCell(p[2], a) <=> C2
    <3>1. /\ top \in Int /\ r.first.column \in Int /\ bottom \in Int /\ left - 1 \in Int
          /\ 1 <= top /\ bottom <= MaxRow /\ 1 <= r.first.column /\ left - 1 <= MaxColumn
      BY <1>1, <1>2, <1>5
    <3>2. p[2] = Piece(top, r.first.column, bottom, left - 1)
      BY <2>3
    <3>3. QED
      BY <3>1, <3>2, PieceCells
  <2>6. p[3] \in CellRange /\ HasCell(p[3], a) <=> C3
    <3>1. /\ top \in Int /\ right + 1 \in Int /\ bottom \in Int /\ r.last.column \in Int
          /\ 1 <= top /\ bottom <= MaxRow /\ 1 <= right + 1 /\ r.last.column <= MaxColumn
      BY <1>1, <1>2, <1>5
    <3>2. p[3] = Piece(top, right + 1, bottom, r.last.column)
      BY <2>3
    <3>3. QED
      BY <3>1, <3>2, PieceCells
  <2>7. p[4] \in CellRange /\ HasCell(p[4], a) <=> C4
    <3>1. /\ bottom + 1 \in Int /\ r.first.column \in Int /\ r.last.row \in Int /\ r.last.column \in Int
          /\ 1 <= bottom + 1 /\ r.last.row <= MaxRow /\ 1 <= r.first.column /\ r.last.column <= MaxColumn
      BY <1>1, <1>2, <1>5
    <3>2. p[4] = Piece(bottom + 1, r.first.column, r.last.row, r.last.column)
      BY <2>3
    <3>3. QED
      BY <3>1, <3>2, PieceCells
  <2>8. (C1 \/ C2 \/ C3 \/ C4) <=> HasCell(r, a) /\ ~HasCell(removed, a)
    BY <1>1, <1>2, <1>5, <2>1, RangeCells
  <2> HIDE DEF C1, C2, C3, C4, p
  <2>9. (\E i \in 1..4 : p[i] \in CellRange /\ HasCell(p[i], a)) <=> C1 \/ C2 \/ C3 \/ C4
    BY <2>4, <2>5, <2>6, <2>7
  <2>10. QED
    BY <2>8, <2>9 DEF p
<1>9. QED
  BY <1>7, <1>8

(* A range through an insertion or a deletion of lines, by its cells.      *)
LEMMA RangesKeepTheirCells ==
  ASSUME NEW axis \in Axis, NEW e \in Insertion(axis) \union Deletion(axis), NEW r \in CellRange
  PROVE  LET q == MapRange(e, r, "reference") IN
         IF q = None THEN \A a \in CellsOf(r) : MapAddress(e, a) = None
         ELSE /\ q \in CellRange
              /\ \A a \in CellsOf(r) : MapAddress(e, a) # None => MapAddress(e, a) \in CellsOf(q)
              /\ \A b \in CellsOf(q) : UnmapAddress(e, b) # None => UnmapAddress(e, b) \in CellsOf(r)
<1> DEFINE start == Coordinate(axis, r.first)
           end == Coordinate(axis, r.last)
           mapped == MapInterval(e, start, end, "reference")
           q == MapRange(e, r, "reference")
<1>1. e.axis = axis /\ e.kind # "range"
  BY DEF Insertion, Deletion
<1>2. r.first \in Address /\ r.last \in Address /\ r = [first |-> r.first, last |-> r.last]
  BY DEF CellRange
<1>3. start \in Line(axis) /\ end \in Line(axis)
  BY <1>2, Coordinates, AxisMaxType DEF Line
<1>4. start <= end
  BY DEF CellRange, Coordinate
<1>5. q = IF mapped = None THEN None
          ELSE [first |-> WithCoordinate(axis, r.first, mapped[1]),
                last |-> WithCoordinate(axis, r.last, mapped[2])]
  <2>1. Span(r, axis)[1] = start /\ Span(r, axis)[2] = end
    BY DEF Span
  <2>2. QED
    BY <1>1, <2>1 DEF MapRange
<1>6. IF mapped = None THEN \A v \in start..end : MapLine(e, v) = None
      ELSE /\ mapped[1] \in Line(axis) /\ mapped[2] \in Line(axis) /\ mapped[1] <= mapped[2]
           /\ \A v \in start..end : MapLine(e, v) # None => MapLine(e, v) \in mapped[1]..mapped[2]
           /\ \A w \in mapped[1]..mapped[2] : UnmapLine(e, w) # None => UnmapLine(e, w) \in start..end
  BY <1>3, <1>4, IntervalsKeepTheirLines
<1>7. \A a \in CellsOf(r) : Coordinate(axis, a) \in start..end
  BY DEF CellsOf, Coordinate, Axis
<1>8. \A b : /\ MapAddress(e, b) = IF MapLine(e, Coordinate(axis, b)) = None THEN None
                  ELSE WithCoordinate(axis, b, MapLine(e, Coordinate(axis, b)))
             /\ UnmapAddress(e, b) = IF UnmapLine(e, Coordinate(axis, b)) = None THEN None
                  ELSE WithCoordinate(axis, b, UnmapLine(e, Coordinate(axis, b)))
  BY <1>1 DEF MapAddress, UnmapAddress
<1> HIDE DEF mapped, q
<1>9. CASE mapped = None
  BY <1>5, <1>6, <1>7, <1>8, <1>9 DEF q
<1>10. CASE mapped # None
  <2> DEFINE m == mapped[1]
             n == mapped[2]
  <2>1. /\ m \in Line(axis) /\ n \in Line(axis) /\ m <= n
        /\ \A v \in start..end : MapLine(e, v) # None => MapLine(e, v) \in m..n
        /\ \A w \in m..n : UnmapLine(e, w) # None => UnmapLine(e, w) \in start..end
    BY <1>6, <1>10
  <2>2. q = [first |-> WithCoordinate(axis, r.first, m), last |-> WithCoordinate(axis, r.last, n)]
    BY <1>5, <1>10
  <2> HIDE DEF m, n
  <2>3. q \in CellRange
    BY <1>2, <2>1, <2>2, GridAssumption DEF CellRange, WithCoordinate, Address, Line, AxisMax, Axis
  <2>4. \A a : \A v \in m..n : a \in CellsOf(r) => WithCoordinate(axis, a, v) \in CellsOf(q)
    BY <1>2, <2>1, <2>2, GridAssumption
       DEF CellsOf, WithCoordinate, Address, Line, AxisMax, Axis
  <2>5. \A b : \A v \in start..end : b \in CellsOf(q) => WithCoordinate(axis, b, v) \in CellsOf(r)
    BY <1>2, <1>3, <2>1, <2>2, GridAssumption
       DEF CellsOf, WithCoordinate, Coordinate, Address, Line, AxisMax, Axis
  <2>6. \A b \in CellsOf(q) : Coordinate(axis, b) \in m..n
    BY <1>2, <2>1, <2>2 DEF CellsOf, Coordinate, WithCoordinate, Axis
  <2>7. q # None
    BY <2>3, GridAssumption
  <2>8. ASSUME NEW a \in CellsOf(r), MapAddress(e, a) # None PROVE MapAddress(e, a) \in CellsOf(q)
    BY <1>7, <1>8, <2>1, <2>4, <2>8
  <2>9. ASSUME NEW b \in CellsOf(q), UnmapAddress(e, b) # None PROVE UnmapAddress(e, b) \in CellsOf(r)
    BY <1>8, <2>1, <2>5, <2>6, <2>9
  <2>10. QED
    BY <2>3, <2>7, <2>8, <2>9 DEF q
<1>11. QED
  BY <1>9, <1>10

(* Ranges have cells of the sheet only.                                    *)
LEMMA RangeCellsAreAddresses == \A r \in CellRange : CellsOf(r) \subseteq Address
BY GridAssumption DEF CellRange, CellsOf, Address

-----------------------------------------------------------------------------
(* The lines start..end are not split by the edit (splits), and lines      *)
(* inserted do not push the last of them off the sheet.                    *)
LinesStayTogether(e, start, end) ==
  CASE e.kind = "insert" -> ~(start < e.at /\ e.at <= end) /\ end <= AxisMax(e.axis) - e.count
    [] e.kind = "delete" -> ~(start <= e.last /\ e.first <= end) \/ (e.first <= start /\ end <= e.last)
    [] e.kind = "move"   ->
         \/ e.first <= start /\ end <= e.last
         \/ /\ ~(start <= e.last /\ e.first <= end)
            /\ LET insertion == IF e.destination > e.first
                                THEN e.destination + (e.last - e.first + 1) ELSE e.destination
               IN ~(start < insertion /\ insertion <= end)

(* Lines that are not split are moved as a block, or all of them are gone. *)
(* The edit that undoes the edit does not split them either.               *)
LEMMA TogetherInserted ==
  ASSUME NEW axis \in Axis, NEW e \in Insertion(axis),
         NEW start \in Line(axis), NEW end \in Line(axis), start <= end,
         LinesStayTogether(e, start, end), MapLine(e, start) # None
  PROVE  LET d == MapLine(e, start) - start IN
         /\ \A v \in start..end : MapLine(e, v) = v + d
         /\ MapInterval(e, start, end, "reference") = <<start + d, end + d>>
         /\ LinesStayTogether(InverseEdit(e), start + d, end + d)
<1>1. AxisMax(axis) \in Nat \ {0} /\ None \notin Int
  BY AxisMaxType, GridAssumption
<1>2. /\ e.kind = "insert" /\ e.axis = axis /\ e.at \in Line(axis) /\ e.count \in Line(axis)
      /\ e.at + e.count - 1 <= AxisMax(axis)
  BY DEF Insertion
<1>3. /\ InverseEdit(e).kind = "delete" /\ InverseEdit(e).axis = axis
      /\ InverseEdit(e).first = e.at /\ InverseEdit(e).last = e.at + e.count - 1
  BY <1>2 DEF InverseEdit
<1>4. ~(start < e.at /\ e.at <= end) /\ end <= AxisMax(axis) - e.count
  BY <1>2 DEF LinesStayTogether
<1>5. ~WholeAxis(axis, start, end)
  BY <1>1, <1>2, <1>4 DEF WholeAxis, Line
<1>6. /\ MapInterval(e, start, end, "reference") = InsertedInterval(e, start, end, "reference")
      /\ \A v : MapLine(e, v) = InsertedLine(e, v)
  BY <1>2, <1>5 DEF MapInterval, MapLine
<1> DEFINE d == IF start < e.at THEN 0 ELSE e.count
<1>7. d \in Int /\ \A v \in start..end : InsertedLine(e, v) = v + d
  BY <1>1, <1>2, <1>4 DEF InsertedLine, Line
<1>8. InsertedInterval(e, start, end, "reference") = <<start + d, end + d>>
  BY <1>1, <1>2, <1>4 DEF InsertedInterval, Line, Least
<1>9. LinesStayTogether(InverseEdit(e), start + d, end + d)
  <2>1. ~(start + d <= e.at + e.count - 1 /\ e.at <= end + d)
    BY <1>1, <1>2, <1>4 DEF Line
  <2> HIDE DEF d
  <2>2. QED
    BY <1>3, <2>1 DEF LinesStayTogether
<1> HIDE DEF d
<1>10. MapLine(e, start) - start = d
  BY <1>1, <1>6, <1>7 DEF Line
<1>11. QED
  BY <1>6, <1>7, <1>8, <1>9, <1>10

(* The same for lines that a deletion spares.                              *)
LEMMA TogetherDeleted ==
  ASSUME NEW axis \in Axis, NEW e \in Deletion(axis),
         NEW start \in Line(axis), NEW end \in Line(axis), start <= end,
         LinesStayTogether(e, start, end), MapLine(e, start) # None
  PROVE  LET d == MapLine(e, start) - start IN
         /\ \A v \in start..end : MapLine(e, v) = v + d
         /\ MapInterval(e, start, end, "reference") = <<start + d, end + d>>
         /\ LinesStayTogether(InverseEdit(e), start + d, end + d)
<1>1. AxisMax(axis) \in Nat \ {0} /\ None \notin Int
  BY AxisMaxType, GridAssumption
<1>2. /\ e.kind = "delete" /\ e.axis = axis /\ e.first \in Line(axis) /\ e.last \in Line(axis)
      /\ e.first <= e.last
  BY DEF Deletion
<1>3. /\ InverseEdit(e).kind = "insert" /\ InverseEdit(e).axis = axis
      /\ InverseEdit(e).at = e.first /\ InverseEdit(e).count = e.last - e.first + 1
  BY <1>2 DEF InverseEdit
<1>4. ~(start <= e.last /\ e.first <= end) \/ (e.first <= start /\ end <= e.last)
  BY <1>2 DEF LinesStayTogether
<1>5. \A v : MapLine(e, v) = DeletedLine(e, v)
  BY <1>2 DEF MapLine
<1>6. start > e.last \/ end < e.first
  BY <1>1, <1>2, <1>4, <1>5 DEF DeletedLine, Line
<1>7. ~WholeAxis(axis, start, end)
  BY <1>1, <1>2, <1>6 DEF WholeAxis, Line
<1>8. MapInterval(e, start, end, "reference") = DeletedInterval(e, start, end)
  BY <1>2, <1>7 DEF MapInterval
<1> DEFINE d == IF end < e.first THEN 0 ELSE -(e.last - e.first + 1)
<1>9. d \in Int /\ \A v \in start..end : DeletedLine(e, v) = v + d
  BY <1>1, <1>2, <1>6 DEF DeletedLine, Line
<1>10. DeletedInterval(e, start, end) = <<start + d, end + d>>
  BY <1>1, <1>2, <1>6 DEF DeletedInterval, Line
<1>11. LinesStayTogether(InverseEdit(e), start + d, end + d)
  <2>1. ~(start + d < e.first /\ e.first <= end + d) /\ end + d <= AxisMax(axis) - (e.last - e.first + 1)
    BY <1>1, <1>2, <1>6 DEF Line
  <2> HIDE DEF d
  <2>2. QED
    BY <1>3, <2>1 DEF LinesStayTogether
<1> HIDE DEF d
<1>12. MapLine(e, start) - start = d
  BY <1>1, <1>5, <1>9 DEF Line
<1>13. QED
  BY <1>5, <1>8, <1>9, <1>10, <1>11, <1>12

(* The same for lines on one side of those that a move takes or passes.    *)
LEMMA TogetherMoved ==
  ASSUME NEW axis \in Axis, NEW e \in LineMove(axis),
         NEW start \in Line(axis), NEW end \in Line(axis), start <= end,
         LinesStayTogether(e, start, end)
  PROVE  LET d == MapLine(e, start) - start IN
         /\ \A v \in start..end : MapLine(e, v) = v + d
         /\ MapInterval(e, start, end, "reference") = <<start + d, end + d>>
         /\ LinesStayTogether(InverseEdit(e), start + d, end + d)
<1>1. AxisMax(axis) \in Nat \ {0} /\ None \notin Int
  BY AxisMaxType, GridAssumption
<1>2. /\ e.kind = "move" /\ e.axis = axis /\ e.first \in Line(axis) /\ e.last \in Line(axis)
      /\ e.destination \in Line(axis)
      /\ e.first <= e.last /\ e.destination + (e.last - e.first) <= AxisMax(axis)
  BY DEF LineMove
<1>3. /\ InverseEdit(e).kind = "move" /\ InverseEdit(e).axis = axis
      /\ InverseEdit(e).first = e.destination
      /\ InverseEdit(e).last = e.destination + (e.last - e.first)
      /\ InverseEdit(e).destination = e.first
  BY <1>2 DEF InverseEdit
<1> DEFINE count == e.last - e.first + 1
           insertion == IF e.destination > e.first THEN e.destination + count ELSE e.destination
<1>4. \/ e.first <= start /\ end <= e.last
      \/ ~(start <= e.last /\ e.first <= end) /\ ~(start < insertion /\ insertion <= end)
  BY <1>2 DEF LinesStayTogether
<1>5. \A v : MapLine(e, v) = MovedLine(e, v)
  BY <1>2 DEF MapLine
<1> DEFINE d == IF e.first <= start /\ end <= e.last THEN e.destination - e.first
                ELSE IF start >= e.destination /\ end < e.first THEN count
                ELSE IF start > e.last /\ end < e.destination + count THEN -count
                ELSE 0
<1>6. d \in Int /\ \A v \in start..end : MovedLine(e, v) = v + d
  BY <1>1, <1>2, <1>4 DEF MovedLine, Line
<1>7. LinesStayTogether(InverseEdit(e), start + d, end + d)
  <2> DEFINE until == e.destination + (e.last - e.first)
             back == IF e.first > e.destination THEN e.first + (until - e.destination + 1) ELSE e.first
  <2>1. \/ e.destination <= start + d /\ end + d <= until
        \/ ~(start + d <= until /\ e.destination <= end + d) /\ ~(start + d < back /\ back <= end + d)
    BY <1>1, <1>2, <1>4 DEF Line
  <2> HIDE DEF d
  <2>2. QED
    BY <1>3, <2>1 DEF LinesStayTogether
<1>8. WholeAxis(axis, start, end) => d = 0
  BY <1>1, <1>2, <1>4 DEF WholeAxis, Line
<1> HIDE DEF d
<1>9. MapLine(e, start) = start + d /\ MapLine(e, end) = end + d
  BY <1>1, <1>5, <1>6 DEF Line
<1>10. MapInterval(e, start, end, "reference") = <<start + d, end + d>>
  <2>1. CASE WholeAxis(axis, start, end)
    <3>1. MapInterval(e, start, end, "reference") = <<start, end>>
      BY <1>2, <2>1 DEF MapInterval
    <3>2. start + d = start /\ end + d = end
      BY <1>1, <1>8, <2>1 DEF Line
    <3>3. QED
      BY <3>1, <3>2
  <2>2. CASE ~WholeAxis(axis, start, end)
    <3>1. MapInterval(e, start, end, "reference") = MovedInterval(e, start, end, "reference")
      BY <1>2, <2>2 DEF MapInterval
    <3>2. start + d <= end + d
      BY <1>1, <1>6 DEF Line
    <3>3. QED
      BY <1>9, <3>1, <3>2 DEF MovedInterval
  <2>3. QED
    BY <2>1, <2>2
<1>11. MapLine(e, start) - start = d
  BY <1>1, <1>6, <1>9 DEF Line
<1>12. QED
  BY <1>5, <1>6, <1>7, <1>10, <1>11

(* The edit neither splits the range nor pushes a part of it off the sheet. *)
StaysWhole(e, r) ==
  /\ ~Splits(e, r)
  /\ e.kind = "insert" => Coordinate(e.axis, r.last) <= AxisMax(e.axis) - e.count

(* It stays whole exactly when its lines along the edited axis stay        *)
(* together.                                                               *)
LEMMA LinesOfWhole ==
  ASSUME NEW e \in LineEdit, NEW r
  PROVE  LET start == Coordinate(e.axis, r.first)
             end == Coordinate(e.axis, r.last) IN
         StaysWhole(e, r) <=> LinesStayTogether(e, start, end)
<1>1. e.kind \in {"insert", "delete", "move"}
  BY DEF LineEdit, Insertion, Deletion, LineMove
<1>2. /\ Span(r, e.axis)[1] = Coordinate(e.axis, r.first)
      /\ Span(r, e.axis)[2] = Coordinate(e.axis, r.last)
  BY DEF Span
<1> DEFINE start == Coordinate(e.axis, r.first)
           end == Coordinate(e.axis, r.last)
<1>3. CASE e.kind = "insert"
  <2>1. Splits(e, r) <=> start < e.at /\ e.at <= end
    BY <1>2, <1>3 DEF Splits
  <2>2. QED
    BY <1>3, <2>1 DEF StaysWhole, LinesStayTogether
<1>4. CASE e.kind = "delete"
  <2>1. Splits(e, r) <=> (start <= e.last /\ e.first <= end) /\ ~(e.first <= start /\ end <= e.last)
    BY <1>2, <1>4 DEF Splits
  <2>2. QED
    BY <1>4, <2>1 DEF StaysWhole, LinesStayTogether
<1>5. CASE e.kind = "move"
  <2> DEFINE insertion == IF e.destination > e.first
                          THEN e.destination + (e.last - e.first + 1) ELSE e.destination
  <2>1. Splits(e, r) <=> /\ ~(e.first <= start /\ end <= e.last)
                         /\ (start <= e.last /\ e.first <= end) \/ (start < insertion /\ insertion <= end)
    BY <1>2, <1>5 DEF Splits
  <2>2. LinesStayTogether(e, start, end) <=>
          \/ e.first <= start /\ end <= e.last
          \/ ~(start <= e.last /\ e.first <= end) /\ ~(start < insertion /\ insertion <= end)
    BY <1>5 DEF LinesStayTogether
  <2>3. QED
    BY <1>5, <2>1, <2>2 DEF StaysWhole
<1>6. QED
  BY <1>1, <1>3, <1>4, <1>5

(* Lines that stay together are shifted by one distance, as intervals too, *)
(* and stay together when the edit is undone.                              *)
LEMMA LinesTogether ==
  ASSUME NEW e \in LineEdit, NEW start \in Line(e.axis), NEW end \in Line(e.axis), start <= end,
         LinesStayTogether(e, start, end), MapLine(e, start) # None
  PROVE  \E d \in Int :
           /\ \A v \in start..end : MapLine(e, v) = v + d
           /\ MapInterval(e, start, end, "reference") = <<start + d, end + d>>
           /\ LinesStayTogether(InverseEdit(e), start + d, end + d)
<1>1. PICK axis \in Axis : e.axis = axis /\
        (e \in Insertion(axis) \/ e \in Deletion(axis) \/ e \in LineMove(axis))
  BY LineEditCases
<1> DEFINE d == MapLine(e, start) - start
<1>2. MapLine(e, start) \in Line(e.axis)
  BY LineEditsAreReversible
<1>3. d \in Int
  BY <1>1, <1>2, AxisMaxType DEF Line
<1>4. /\ \A v \in start..end : MapLine(e, v) = v + d
      /\ MapInterval(e, start, end, "reference") = <<start + d, end + d>>
      /\ LinesStayTogether(InverseEdit(e), start + d, end + d)
  <2>1. CASE e \in Insertion(axis)
    BY <1>1, <2>1, TogetherInserted
  <2>2. CASE e \in Deletion(axis)
    BY <1>1, <2>2, TogetherDeleted
  <2>3. CASE e \in LineMove(axis)
    BY <1>1, <2>3, TogetherMoved
  <2>4. QED
    BY <1>1, <2>1, <2>2, <2>3
<1> HIDE DEF d
<1>5. QED
  BY <1>3, <1>4

(* What undoes a line edit is a line edit along the same axis.             *)
LEMMA InverseIsLineEdit ==
  ASSUME NEW e \in LineEdit
  PROVE  InverseEdit(e) \in LineEdit /\ InverseEdit(e).axis = e.axis
<1>1. PICK axis \in Axis : e.axis = axis /\
        (e \in Insertion(axis) \/ e \in Deletion(axis) \/ e \in LineMove(axis))
  BY LineEditCases
<1>2. AxisMax(axis) \in Nat \ {0}
  BY AxisMaxType
<1>3. CASE e \in Insertion(axis)
  <2>1. /\ e.kind = "insert" /\ e.at \in Line(axis) /\ e.count \in Line(axis)
        /\ e.at + e.count - 1 <= AxisMax(axis)
    BY <1>3 DEF Insertion
  <2>2. InverseEdit(e) = [kind |-> "delete", axis |-> axis, first |-> e.at, last |-> e.at + e.count - 1]
    BY <1>1, <2>1 DEF InverseEdit
  <2>3. e.at + e.count - 1 \in Line(axis) /\ e.at <= e.at + e.count - 1
    BY <1>2, <2>1 DEF Line
  <2>4. InverseEdit(e) \in Deletion(axis)
    BY <2>1, <2>2, <2>3 DEF Deletion
  <2>5. QED
    BY <1>1, <2>2, <2>4 DEF LineEdit
<1>4. CASE e \in Deletion(axis)
  <2>1. e.kind = "delete" /\ e.first \in Line(axis) /\ e.last \in Line(axis) /\ e.first <= e.last
    BY <1>4 DEF Deletion
  <2>2. InverseEdit(e) = [kind |-> "insert", axis |-> axis, at |-> e.first, count |-> e.last - e.first + 1]
    BY <1>1, <2>1 DEF InverseEdit
  <2>3. e.last - e.first + 1 \in Line(axis) /\ e.first + (e.last - e.first + 1) - 1 <= AxisMax(axis)
    BY <1>2, <2>1 DEF Line
  <2>4. InverseEdit(e) \in Insertion(axis)
    BY <2>1, <2>2, <2>3 DEF Insertion
  <2>5. QED
    BY <1>1, <2>2, <2>4 DEF LineEdit
<1>5. CASE e \in LineMove(axis)
  <2>1. /\ e.kind = "move" /\ e.first \in Line(axis) /\ e.last \in Line(axis)
        /\ e.destination \in Line(axis)
        /\ e.first <= e.last /\ e.destination + (e.last - e.first) <= AxisMax(axis)
    BY <1>5 DEF LineMove
  <2> DEFINE until == e.destination + (e.last - e.first)
  <2>2. InverseEdit(e) = [kind |-> "move", axis |-> axis, first |-> e.destination, last |-> until,
                          destination |-> e.first]
    BY <1>1, <2>1 DEF InverseEdit
  <2>3. until \in Line(axis) /\ e.destination <= until /\ e.first + (until - e.destination) <= AxisMax(axis)
    BY <1>2, <2>1 DEF Line
  <2> HIDE DEF until
  <2>4. InverseEdit(e) \in LineMove(axis)
    BY <2>1, <2>2, <2>3 DEF LineMove
  <2>5. QED
    BY <1>1, <2>2, <2>4 DEF LineEdit
<1>6. QED
  BY <1>1, <1>3, <1>4, <1>5

(* A range that stays whole through a line edit moves with its first cell. *)
LEMMA WholeRangeLines ==
  ASSUME NEW e \in LineEdit, NEW r \in CellRange, StaysWhole(e, r), MapAddress(e, r.first) # None
  PROVE  LET q == MapRange(e, r, "reference") IN
         /\ q \in CellRange /\ q.first = MapAddress(e, r.first) /\ q.last = MapAddress(e, r.last)
         /\ Height(q) = Height(r) /\ Width(q) = Width(r)
         /\ StaysWhole(InverseEdit(e), q)
<1>0. e.kind # "range" /\ e.axis \in Axis
  BY DEF LineEdit, Insertion, Deletion, LineMove
<1> DEFINE axis == e.axis
           start == Coordinate(axis, r.first)
           end == Coordinate(axis, r.last)
           q == MapRange(e, r, "reference")
<1>1. r.first \in Address /\ r.last \in Address /\ r = [first |-> r.first, last |-> r.last]
      /\ r.first.row <= r.last.row /\ r.first.column <= r.last.column
  BY DEF CellRange
<1>2. start \in Line(axis) /\ end \in Line(axis)
  BY <1>0, <1>1, Coordinates, AxisMaxType DEF Line
<1>3. start <= end
  BY <1>1 DEF Coordinate
<1>4. LinesStayTogether(e, start, end)
  BY LinesOfWhole
<1>5. \A b : MapAddress(e, b) = IF MapLine(e, Coordinate(axis, b)) = None THEN None
                ELSE WithCoordinate(axis, b, MapLine(e, Coordinate(axis, b)))
  BY <1>0 DEF MapAddress
<1>6. MapLine(e, start) # None
  BY <1>5
<1>7. PICK d \in Int :
        /\ \A v \in start..end : MapLine(e, v) = v + d
        /\ MapInterval(e, start, end, "reference") = <<start + d, end + d>>
        /\ LinesStayTogether(InverseEdit(e), start + d, end + d)
  BY <1>2, <1>3, <1>4, <1>6, LinesTogether
<1>8. start \in Int /\ end \in Int
  BY <1>0, <1>2, AxisMaxType DEF Line
<1>9. MapLine(e, start) = start + d /\ MapLine(e, end) = end + d
  BY <1>3, <1>7, <1>8
<1>10. start + d # None /\ end + d # None /\ <<start + d, end + d>> # None
  BY <1>7, <1>8, GridAssumption
<1>11. start + d \in Line(axis) /\ end + d \in Line(axis)
  BY <1>2, <1>9, <1>10, LineEditsAreReversible
<1>12. /\ MapAddress(e, r.first) = WithCoordinate(axis, r.first, start + d)
       /\ MapAddress(e, r.last) = WithCoordinate(axis, r.last, end + d)
  BY <1>5, <1>9, <1>10
<1>13. q = [first |-> MapAddress(e, r.first), last |-> MapAddress(e, r.last)]
  <2>1. Span(r, axis)[1] = start /\ Span(r, axis)[2] = end
    BY DEF Span
  <2>2. q = [first |-> WithCoordinate(axis, r.first, start + d), last |-> WithCoordinate(axis, r.last, end + d)]
    BY <1>0, <1>7, <1>10, <2>1 DEF MapRange
  <2>3. QED
    BY <1>12, <2>2
<1>14. /\ MapAddress(e, r.first) \in Address /\ Coordinate(axis, MapAddress(e, r.first)) = start + d
       /\ MapAddress(e, r.last) \in Address /\ Coordinate(axis, MapAddress(e, r.last)) = end + d
  BY <1>0, <1>1, <1>11, <1>12, Coordinates
<1>15. /\ q \in CellRange /\ Height(q) = Height(r) /\ Width(q) = Width(r)
  <2>1. CASE axis = "rows"
    <3>1. /\ MapAddress(e, r.first) = [r.first EXCEPT !.row = r.first.row + d]
          /\ MapAddress(e, r.last) = [r.last EXCEPT !.row = r.last.row + d]
      BY <1>11, <1>12, <2>1 DEF WithCoordinate, Coordinate
    <3>2. /\ q.first.row = r.first.row + d /\ q.last.row = r.last.row + d
          /\ q.first.column = r.first.column /\ q.last.column = r.last.column
      BY <1>1, <1>13, <3>1 DEF Address
    <3>3. QED
      BY <1>1, <1>7, <1>13, <1>14, <3>2, GridAssumption DEF CellRange, Height, Width, Address
  <2>2. CASE axis = "columns"
    <3>1. /\ MapAddress(e, r.first) = [r.first EXCEPT !.column = r.first.column + d]
          /\ MapAddress(e, r.last) = [r.last EXCEPT !.column = r.last.column + d]
      BY <1>11, <1>12, <2>2 DEF WithCoordinate, Coordinate
    <3>2. /\ q.first.column = r.first.column + d /\ q.last.column = r.last.column + d
          /\ q.first.row = r.first.row /\ q.last.row = r.last.row
      BY <1>1, <1>13, <3>1 DEF Address
    <3>3. QED
      BY <1>1, <1>7, <1>13, <1>14, <3>2, GridAssumption DEF CellRange, Height, Width, Address
  <2>3. QED
    BY <1>0, <2>1, <2>2 DEF Axis
<1>16. StaysWhole(InverseEdit(e), q)
  <2>1. InverseEdit(e) \in LineEdit /\ InverseEdit(e).axis = axis
    BY InverseIsLineEdit
  <2>2. Coordinate(axis, q.first) = start + d /\ Coordinate(axis, q.last) = end + d
    BY <1>13, <1>14
  <2>3. QED
    BY <1>7, <2>1, <2>2, LinesOfWhole
<1>17. QED
  BY <1>13, <1>15, <1>16

-----------------------------------------------------------------------------
(* Two ranges without a common cell lie beside or above each other.        *)
Apart(r, q) ==
  \/ r.last.row < q.first.row \/ q.last.row < r.first.row
  \/ r.last.column < q.first.column \/ q.last.column < r.first.column

(* That is what intersect tests.                                           *)
LEMMA ApartIsDisjoint ==
  ASSUME NEW r \in CellRange, NEW q \in CellRange
  PROVE  Intersect(r, q) = None <=> Apart(r, q)
<1>1. /\ r.first.row \in 1..MaxRow /\ r.last.row \in 1..MaxRow
      /\ r.first.column \in 1..MaxColumn /\ r.last.column \in 1..MaxColumn
      /\ r.first.row <= r.last.row /\ r.first.column <= r.last.column
      /\ q.first.row \in 1..MaxRow /\ q.last.row \in 1..MaxRow
      /\ q.first.column \in 1..MaxColumn /\ q.last.column \in 1..MaxColumn
      /\ q.first.row <= q.last.row /\ q.first.column <= q.last.column
      /\ MaxRow \in Nat /\ MaxColumn \in Nat
  BY GridAssumption DEF CellRange, Address
<1> DEFINE top == Greatest(r.first.row, q.first.row)
           left == Greatest(r.first.column, q.first.column)
           bottom == Least(r.last.row, q.last.row)
           right == Least(r.last.column, q.last.column)
           shared == [first |-> [row |-> top, column |-> left], last |-> [row |-> bottom, column |-> right]]
<1>2. /\ top \in 1..MaxRow /\ bottom \in 1..MaxRow /\ left \in 1..MaxColumn /\ right \in 1..MaxColumn
      /\ top <= bottom /\ left <= right <=> ~Apart(r, q)
  BY <1>1 DEF Greatest, Least, Apart
<1>3. Intersect(r, q) = IF shared \in CellRange THEN shared ELSE None
  BY DEF Intersect
<1> HIDE DEF top, left, bottom, right
<1>4. shared \in CellRange <=> top <= bottom /\ left <= right
  BY <1>2 DEF CellRange, Address
<1>5. QED
  BY <1>2, <1>3, <1>4, GridAssumption

(* Intervals of lines without a common line have none after a line edit:   *)
(* through a move, if it splits neither.                                   *)
LEMMA LinesStayApart ==
  ASSUME NEW e \in LineEdit,
         NEW s \in Line(e.axis), NEW t \in Line(e.axis), NEW u \in Line(e.axis), NEW v \in Line(e.axis),
         s <= t, u <= v, t < u,
         e.kind = "move" => LinesStayTogether(e, s, t) /\ LinesStayTogether(e, u, v),
         MapInterval(e, s, t, "reference") # None, MapInterval(e, u, v, "reference") # None
  PROVE  LET i == MapInterval(e, s, t, "reference")
             j == MapInterval(e, u, v, "reference") IN
         /\ i[1] \in Line(e.axis) /\ i[2] \in Line(e.axis) /\ i[1] <= i[2]
         /\ j[1] \in Line(e.axis) /\ j[2] \in Line(e.axis) /\ j[1] <= j[2]
         /\ i[2] < j[1] \/ j[2] < i[1]
<1>1. PICK axis \in Axis : e.axis = axis /\
        (e \in Insertion(axis) \/ e \in Deletion(axis) \/ e \in LineMove(axis))
  BY LineEditCases
<1>2. AxisMax(axis) \in Nat \ {0} /\ None \notin Int
  BY AxisMaxType, GridAssumption
<1>3. s \in Int /\ t \in Int /\ u \in Int /\ v \in Int
  BY <1>1, <1>2 DEF Line
<1>4. ~WholeAxis(axis, s, t) /\ ~WholeAxis(axis, u, v)
  BY <1>1, <1>2 DEF Line, WholeAxis
<1>5. CASE e \in Insertion(axis)
  <2>1. e.kind = "insert" /\ e.at \in Line(axis) /\ e.count \in Line(axis)
    BY <1>5 DEF Insertion
  <2>2. /\ MapInterval(e, s, t, "reference") = InsertedInterval(e, s, t, "reference")
        /\ MapInterval(e, u, v, "reference") = InsertedInterval(e, u, v, "reference")
    BY <1>1, <1>4, <2>1 DEF MapInterval
  <2>3. MapInterval(e, s, t, "reference")[2] < MapInterval(e, u, v, "reference")[1]
    BY <1>1, <1>2, <2>1, <2>2 DEF InsertedInterval, Least, Line
  <2>4. QED
    BY <1>1, <1>5, <2>3, IntervalsKeepTheirLines
<1>6. CASE e \in Deletion(axis)
  <2>1. e.kind = "delete" /\ e.first \in Line(axis) /\ e.last \in Line(axis) /\ e.first <= e.last
    BY <1>6 DEF Deletion
  <2>2. /\ MapInterval(e, s, t, "reference") = DeletedInterval(e, s, t)
        /\ MapInterval(e, u, v, "reference") = DeletedInterval(e, u, v)
    BY <1>1, <1>4, <2>1 DEF MapInterval
  <2>3. MapInterval(e, s, t, "reference")[2] < MapInterval(e, u, v, "reference")[1]
    BY <1>1, <1>2, <2>1, <2>2 DEF DeletedInterval, Line
  <2>4. QED
    BY <1>1, <1>6, <2>3, IntervalsKeepTheirLines
<1>7. CASE e \in LineMove(axis)
  <2>0. e.kind = "move"
    BY <1>7 DEF LineMove
  <2>1. \A w \in Line(axis) : MapLine(e, w) \in Line(axis) /\ MapLine(e, w) # None /\ UnmapLine(e, MapLine(e, w)) = w
    BY <1>2, <1>7, MoveLines DEF Line
  <2>2. PICK d \in Int :
          /\ \A w \in s..t : MapLine(e, w) = w + d
          /\ MapInterval(e, s, t, "reference") = <<s + d, t + d>>
    BY <1>1, <2>0, <2>1, LinesTogether
  <2>3. PICK f \in Int :
          /\ \A w \in u..v : MapLine(e, w) = w + f
          /\ MapInterval(e, u, v, "reference") = <<u + f, v + f>>
    BY <1>1, <2>0, <2>1, LinesTogether
  <2>4. \A x \in s..t, y \in u..v : x + d # y + f
    <3> SUFFICES ASSUME NEW x \in s..t, NEW y \in u..v, x + d = y + f PROVE FALSE
      OBVIOUS
    <3>1. x \in Line(axis) /\ y \in Line(axis) /\ x # y
      BY <1>1, <1>2, <1>3 DEF Line
    <3>2. QED
      BY <2>1, <2>2, <2>3, <3>1
  <2>5. t + d < u + f \/ v + f < s + d
    <3> SUFFICES ASSUME ~(t + d < u + f), ~(v + f < s + d) PROVE FALSE
      OBVIOUS
    <3> DEFINE w == IF s + d >= u + f THEN s + d ELSE u + f
    <3>1. w - d \in s..t /\ w - f \in u..v /\ (w - d) + d = (w - f) + f
      BY <1>3, <2>2, <2>3
    <3> HIDE DEF w
    <3>2. QED
      BY <2>4, <3>1
  <2>6. /\ s + d \in Line(axis) /\ t + d \in Line(axis) /\ u + f \in Line(axis) /\ v + f \in Line(axis)
    <3>1. s \in s..t /\ t \in s..t /\ u \in u..v /\ v \in u..v
      BY <1>3
    <3>2. QED
      BY <1>1, <2>1, <2>2, <2>3, <3>1
  <2>7. s + d <= t + d /\ u + f <= v + f
    BY <1>3, <2>2, <2>3
  <2>8. QED
    BY <1>1, <2>2, <2>3, <2>5, <2>6, <2>7
<1>8. QED
  BY <1>1, <1>5, <1>6, <1>7

(* The other axis, along which a line edit changes nothing.                *)
OtherAxis(axis) == IF axis = "rows" THEN "columns" ELSE "rows"

(* map_range moves the lines of a range along the edited axis and keeps    *)
(* the others.                                                             *)
LEMMA MappedRange ==
  ASSUME NEW e \in LineEdit, NEW r \in CellRange, e.kind = "move" => StaysWhole(e, r),
         MapRange(e, r, "reference") # None
  PROVE  LET q == MapRange(e, r, "reference")
             lines == MapInterval(e, Coordinate(e.axis, r.first), Coordinate(e.axis, r.last), "reference")
             other == OtherAxis(e.axis) IN
         /\ q \in CellRange /\ lines # None
         /\ Coordinate(e.axis, q.first) = lines[1] /\ Coordinate(e.axis, q.last) = lines[2]
         /\ Coordinate(other, q.first) = Coordinate(other, r.first)
         /\ Coordinate(other, q.last) = Coordinate(other, r.last)
<1>0. e.kind # "range" /\ e.axis \in Axis
  BY DEF LineEdit, Insertion, Deletion, LineMove
<1> DEFINE axis == e.axis
           q == MapRange(e, r, "reference")
           lines == MapInterval(e, Coordinate(axis, r.first), Coordinate(axis, r.last), "reference")
<1>1. r.first \in Address /\ r.last \in Address
  BY DEF CellRange
<1>2. q \in CellRange
  <2>1. PICK ax \in Axis : e.axis = ax /\ (e \in Insertion(ax) \/ e \in Deletion(ax) \/ e \in LineMove(ax))
    BY LineEditCases
  <2>2. CASE e \in Insertion(ax) \/ e \in Deletion(ax)
    BY <2>2, RangesKeepTheirCells
  <2>3. CASE e \in LineMove(ax)
    <3>1. e.kind = "move"
      BY <2>3 DEF LineMove
    <3>2. Coordinate(axis, r.first) \in Line(axis)
      BY <1>0, <1>1, Coordinates, AxisMaxType DEF Line
    <3>3. MapLine(e, Coordinate(axis, r.first)) \in Line(axis)
      BY <2>1, <2>3, <3>2, MoveLines
    <3>4. MapAddress(e, r.first) = WithCoordinate(axis, r.first, MapLine(e, Coordinate(axis, r.first)))
      BY <1>0, <3>3, AxisMaxType, GridAssumption DEF MapAddress, Line
    <3>5. MapAddress(e, r.first) # None
      BY <1>0, <1>1, <3>3, <3>4, Coordinates, GridAssumption
    <3>6. QED
      BY <3>1, <3>5, WholeRangeLines
  <2>4. QED
    BY <2>1, <2>2, <2>3
<1>3. Span(r, axis)[1] = Coordinate(axis, r.first) /\ Span(r, axis)[2] = Coordinate(axis, r.last)
  BY DEF Span
<1>4. q = IF lines = None THEN None
          ELSE [first |-> WithCoordinate(axis, r.first, lines[1]), last |-> WithCoordinate(axis, r.last, lines[2])]
  BY <1>0, <1>3 DEF MapRange
<1> HIDE DEF lines, q
<1>5. lines # None
  BY <1>2, <1>4, GridAssumption
<1>6. q.first = WithCoordinate(axis, r.first, lines[1]) /\ q.last = WithCoordinate(axis, r.last, lines[2])
  BY <1>4, <1>5
<1>7. q.first \in Address /\ q.last \in Address
  BY <1>2 DEF CellRange
<1>8. lines[1] \in Line(axis) /\ lines[2] \in Line(axis)
  BY <1>6, <1>7, GridAssumption DEF WithCoordinate
<1>9. CASE axis = "rows"
  BY <1>1, <1>2, <1>5, <1>6, <1>8, <1>9 DEF WithCoordinate, Coordinate, OtherAxis, Address, lines, q
<1>10. CASE axis = "columns"
  BY <1>1, <1>2, <1>5, <1>6, <1>8, <1>10 DEF WithCoordinate, Coordinate, OtherAxis, Address, lines, q
<1>11. QED
  BY <1>0, <1>9, <1>10 DEF Axis

(* Apart, whichever axis is looked at first.                               *)
LEMMA ApartByAxis ==
  ASSUME NEW r, NEW q, NEW axis \in Axis
  PROVE  Apart(r, q) <=>
           \E x \in {axis, OtherAxis(axis)} :
             \/ Coordinate(x, r.last) < Coordinate(x, q.first)
             \/ Coordinate(x, q.last) < Coordinate(x, r.first)
BY DEF Axis, Apart, Coordinate, OtherAxis

(* Ranges without a common cell have none after a line edit.               *)
LEMMA RangesStayApart ==
  ASSUME NEW e \in LineEdit, NEW r \in CellRange, NEW q \in CellRange, Apart(r, q),
         e.kind = "move" => StaysWhole(e, r) /\ StaysWhole(e, q),
         MapRange(e, r, "reference") # None, MapRange(e, q, "reference") # None
  PROVE  Apart(MapRange(e, r, "reference"), MapRange(e, q, "reference"))
<1>0. e.axis \in Axis
  BY DEF LineEdit, Insertion, Deletion, LineMove
<1> DEFINE axis == e.axis
           other == OtherAxis(axis)
           R == MapRange(e, r, "reference")
           Q == MapRange(e, q, "reference")
           I == MapInterval(e, Coordinate(axis, r.first), Coordinate(axis, r.last), "reference")
           J == MapInterval(e, Coordinate(axis, q.first), Coordinate(axis, q.last), "reference")
<1>1. /\ I # None /\ Coordinate(axis, R.first) = I[1] /\ Coordinate(axis, R.last) = I[2]
      /\ Coordinate(other, R.first) = Coordinate(other, r.first)
      /\ Coordinate(other, R.last) = Coordinate(other, r.last)
  BY MappedRange
<1>2. /\ J # None /\ Coordinate(axis, Q.first) = J[1] /\ Coordinate(axis, Q.last) = J[2]
      /\ Coordinate(other, Q.first) = Coordinate(other, q.first)
      /\ Coordinate(other, Q.last) = Coordinate(other, q.last)
  BY MappedRange
<1>3. \A x \in CellRange : /\ Coordinate(axis, x.first) \in Line(axis) /\ Coordinate(axis, x.last) \in Line(axis)
                           /\ Coordinate(axis, x.first) <= Coordinate(axis, x.last)
  <2> TAKE x \in CellRange
  <2>1. x.first \in Address /\ x.last \in Address
    BY DEF CellRange
  <2>2. Coordinate(axis, x.first) \in Line(axis) /\ Coordinate(axis, x.last) \in Line(axis)
    BY <1>0, <2>1, Coordinates, AxisMaxType DEF Line
  <2>3. Coordinate(axis, x.first) <= Coordinate(axis, x.last)
    BY DEF CellRange, Coordinate
  <2>4. QED
    BY <2>2, <2>3
<1>4. e.kind = "move" => /\ LinesStayTogether(e, Coordinate(axis, r.first), Coordinate(axis, r.last))
                         /\ LinesStayTogether(e, Coordinate(axis, q.first), Coordinate(axis, q.last))
  BY LinesOfWhole
<1> HIDE DEF R, Q
<1>5. CASE Coordinate(axis, r.last) < Coordinate(axis, q.first)
  <2>1. I[2] < J[1] \/ J[2] < I[1]
    BY <1>1, <1>2, <1>3, <1>4, <1>5, LinesStayApart
  <2>2. QED
    BY <1>0, <1>1, <1>2, <2>1, ApartByAxis DEF R, Q
<1>6. CASE Coordinate(axis, q.last) < Coordinate(axis, r.first)
  <2>1. J[2] < I[1] \/ I[2] < J[1]
    BY <1>1, <1>2, <1>3, <1>4, <1>6, LinesStayApart
  <2>2. QED
    BY <1>0, <1>1, <1>2, <2>1, ApartByAxis DEF R, Q
<1>7. CASE \/ Coordinate(other, r.last) < Coordinate(other, q.first)
           \/ Coordinate(other, q.last) < Coordinate(other, r.first)
  BY <1>0, <1>1, <1>2, <1>7, ApartByAxis DEF R, Q
<1>8. QED
  BY <1>0, <1>5, <1>6, <1>7, ApartByAxis

(* What a range move keeps of a range it does not split: it takes it along *)
(* or leaves it untouched, apart from its destination.                     *)
LEMMA WholeRangeMoves ==
  ASSUME NEW e \in RangeMove, NEW r \in CellRange, ~Splits(e, r)
  PROVE  LET q == MapRange(e, r, "reference") IN
         \/ /\ q \in CellRange /\ q.first = MapAddress(e, r.first) /\ q.last = MapAddress(e, r.last)
            /\ RangeContains(e.source, r) /\ RangeContains(DestinationRange(e), q)
            /\ q.first.row = r.first.row + RowOffset(e) /\ q.last.row = r.last.row + RowOffset(e)
            /\ q.first.column = r.first.column + ColumnOffset(e)
            /\ q.last.column = r.last.column + ColumnOffset(e)
         \/ /\ q = r /\ MapAddress(e, r.first) = r.first /\ MapAddress(e, r.last) = r.last
            /\ ~RangeContains(e.source, r) /\ Apart(r, DestinationRange(e))
         \/ /\ q = r /\ MapAddress(e, r.first) = None /\ Overwrites(e, r)
<1>1. /\ e.kind = "range" /\ e.source \in CellRange /\ e.destination \in Address
      /\ e.destination.row + Height(e.source) - 1 <= MaxRow
      /\ e.destination.column + Width(e.source) - 1 <= MaxColumn
  BY DEF RangeMove
<1>2. DestinationRange(e) \in CellRange
  BY <1>1, GridAssumption DEF DestinationRange, CellRange, Address, Height, Width
<1>3. r.first \in Address /\ r.last \in Address /\ r = [first |-> r.first, last |-> r.last]
      /\ r.first.row <= r.last.row /\ r.first.column <= r.last.column
  BY DEF CellRange
<1>4. RowOffset(e) \in Int /\ ColumnOffset(e) \in Int
  BY <1>1, GridAssumption DEF RowOffset, ColumnOffset, CellRange, Address
<1> DEFINE q == MapRange(e, r, "reference")
           Shift(b) == [row |-> b.row + RowOffset(e), column |-> b.column + ColumnOffset(e)]
<1>5. CASE RangeContains(e.source, r)
  <2>1. HasCell(e.source, r.first) /\ HasCell(e.source, r.last)
    BY <1>5 DEF RangeContains
  <2>2. ASSUME NEW b \in Address, HasCell(e.source, b)
        PROVE  Shift(b) \in Address /\ HasCell(DestinationRange(e), Shift(b))
    BY <1>1, <2>2, GridAssumption, SMTT(30)
       DEF RowOffset, ColumnOffset, Address, HasCell, CellsOf, CellRange, DestinationRange, Height, Width
  <2>3. \A b \in Address : HasCell(e.source, b) => MapAddress(e, b) = Shift(b)
                              /\ OffsetAddress(b, RowOffset(e), ColumnOffset(e)) = Shift(b)
    BY <1>1, <2>2 DEF MapAddress, OffsetAddress
  <2>4. q = [first |-> Shift(r.first), last |-> Shift(r.last)]
    <3>1. q = OffsetRange(r, RowOffset(e), ColumnOffset(e))
      BY <1>1, <1>5 DEF MapRange
    <3>2. Shift(r.first) # None /\ Shift(r.last) # None
      BY <1>3, <2>1, <2>2, GridAssumption
    <3>3. QED
      BY <1>3, <2>1, <2>3, <3>1, <3>2 DEF OffsetRange
  <2>5. q \in CellRange
    BY <1>3, <1>4, <2>1, <2>2, <2>4, GridAssumption DEF CellRange, Address
  <2>6. RangeContains(DestinationRange(e), q)
    BY <1>3, <2>1, <2>2, <2>4 DEF RangeContains
  <2>7. QED
    BY <1>3, <1>5, <2>1, <2>3, <2>4, <2>5, <2>6
<1>6. CASE ~RangeContains(e.source, r)
  <2>1. q = r
    BY <1>1, <1>6 DEF MapRange
  <2>2. Intersect(r, e.source) = None
    BY <1>1, <1>6 DEF Splits, PartiallyOverlaps
  <2>3. Intersect(r, DestinationRange(e)) = None \/ RangeContains(DestinationRange(e), r)
    BY <1>1, <1>6 DEF Splits, PartiallyOverlaps
  <2>4. Apart(r, e.source)
    BY <1>1, <2>2, ApartIsDisjoint
  <2>5. \A x \in CellRange : Apart(r, x) => ~HasCell(x, r.first) /\ ~HasCell(x, r.last)
    BY <1>3, RangeCells, GridAssumption DEF Apart, CellRange, Address
  <2>6. ~HasCell(e.source, r.first) /\ ~HasCell(e.source, r.last)
    BY <1>1, <2>4, <2>5
  <2>7. CASE Intersect(r, DestinationRange(e)) = None
    <3>1. Apart(r, DestinationRange(e))
      BY <1>2, <2>7, ApartIsDisjoint
    <3>2. MapAddress(e, r.first) = r.first /\ MapAddress(e, r.last) = r.last
      BY <1>1, <1>2, <2>5, <2>6, <3>1 DEF MapAddress
    <3>3. QED
      BY <1>6, <2>1, <3>1, <3>2
  <2>8. CASE RangeContains(DestinationRange(e), r)
    <3>1. MapAddress(e, r.first) = None
      BY <1>1, <2>6, <2>8 DEF MapAddress, RangeContains
    <3>2. Intersect(r, DestinationRange(e)) = r
      <4>1. /\ DestinationRange(e).first.row <= r.first.row /\ r.last.row <= DestinationRange(e).last.row
            /\ DestinationRange(e).first.column <= r.first.column
            /\ r.last.column <= DestinationRange(e).last.column
        BY <1>2, <1>3, <2>8, RangeCells DEF RangeContains
      <4>2. /\ Greatest(r.first.row, DestinationRange(e).first.row) = r.first.row
            /\ Greatest(r.first.column, DestinationRange(e).first.column) = r.first.column
            /\ Least(r.last.row, DestinationRange(e).last.row) = r.last.row
            /\ Least(r.last.column, DestinationRange(e).last.column) = r.last.column
        BY <1>2, <1>3, <4>1, GridAssumption DEF Greatest, Least, CellRange, Address
      <4>3. /\ r.first = [row |-> r.first.row, column |-> r.first.column]
            /\ r.last = [row |-> r.last.row, column |-> r.last.column]
        BY <1>3 DEF Address
      <4>4. QED
        BY <1>3, <4>2, <4>3 DEF Intersect
    <3>3. Pieces(r, e.source)[1] = r
      BY <2>2 DEF Pieces
    <3>4. QED
      BY <1>1, <2>1, <3>1, <3>2, <3>3, GridAssumption DEF Overwrites
  <2>9. QED
    BY <2>3, <2>7, <2>8
<1>7. QED
  BY <1>5, <1>6

-----------------------------------------------------------------------------
(* The inductive invariant behind WriterReproducesSheet: the shape of the  *)
(* state, and the property itself.                                         *)
ShapeOf(s) ==
  /\ s = [cells |-> s.cells, merged |-> s.merged, rules |-> s.rules]
  /\ DOMAIN s.cells \subseteq Address
  /\ \A a \in DOMAIN s.cells :
       s.cells[a] = [content |-> s.cells[a].content, style |-> s.cells[a].style]

(* The state of the sheet, its mutations and where its cells come from.    *)
GridShape ==
  /\ ShapeOf(source) /\ ShapeOf(sheet)
  /\ mutations \in [Address -> Mutation]
  /\ history.origin \in [Address -> Address \union {None}]

(* What every step keeps.                                                  *)
WriterInv == GridShape /\ WriterReproducesSheet

(* A document that was just read is written as it is.                      *)
LEMMA WriterInit == GridInit => WriterInv
<1> SUFFICES ASSUME GridInit PROVE WriterInv
  OBVIOUS
<1>1. /\ source \in Sheets /\ sheet = source /\ mutations = [a \in Address |-> "none"]
      /\ history = NoEdits
  BY DEF GridInit, GridStarts
<1>2. /\ source = [cells |-> source.cells, merged |-> source.merged, rules |-> source.rules]
      /\ DOMAIN source.cells \subseteq Address
      /\ \A a \in DOMAIN source.cells :
           source.cells[a] = [content |-> source.cells[a].content, style |-> a]
  BY <1>1, SheetAssumption
<1>3. ShapeOf(source) /\ ShapeOf(sheet)
  BY <1>1, <1>2 DEF ShapeOf
<1>4. history.origin = [a \in Address |-> a]
  BY <1>1 DEF NoEdits
<1>5. GridShape
  BY <1>1, <1>3, <1>4 DEF GridShape, Mutation
<1>6. \A a \in Address : InSource(a) <=> a \in DOMAIN source.cells
  BY <1>4, GridAssumption DEF InSource, Occupied
<1>7. Written = Occupied(sheet)
  BY <1>1, <1>2, <1>6 DEF Written, Occupied
<1>8. \A a \in Written : WrittenCell(a) = sheet.cells[a]
  BY <1>1, <1>4 DEF Written, WrittenCell
<1>9. QED
  BY <1>5, <1>7, <1>8 DEF WriterInv, WriterReproducesSheet

(* What a cell edit does to the mutations keeps the writer's view right.   *)
LEMMA SetCellStep ==
  ASSUME WriterInv, NEW x \in Targets, SetCell(x)
  PROVE  WriterInv'
<1>1. /\ ShapeOf(source) /\ ShapeOf(sheet) /\ mutations \in [Address -> Mutation]
      /\ history.origin \in [Address -> Address \union {None}]
      /\ Written = Occupied(sheet) /\ \A a \in Written : WrittenCell(a) = sheet.cells[a]
  BY DEF WriterInv, GridShape, WriterReproducesSheet
<1>2. x \in Address
  BY SheetAssumption
<1> DEFINE style == IF x \in Occupied(sheet) THEN sheet.cells[x].style ELSE None
           cell == [content |-> Typed, style |-> style]
           cells == WithCell(x, cell)
<1>3. /\ sheet' = [sheet EXCEPT !.cells = cells]
      /\ mutations' = [mutations EXCEPT ![x] = MarkUpsert(@)]
      /\ source' = source /\ history' = history
  BY DEF SetCell
<1>4. /\ sheet'.cells = cells
      /\ sheet' = [cells |-> sheet'.cells, merged |-> sheet'.merged, rules |-> sheet'.rules]
  BY <1>1, <1>3 DEF ShapeOf
<1>5. /\ DOMAIN cells = Occupied(sheet) \union {x} /\ cells[x] = cell
      /\ \A a \in Occupied(sheet) : a # x => cells[a] = sheet.cells[a]
  BY DEF WithCell
<1>6. ShapeOf(sheet')
  <2>1. DOMAIN sheet'.cells \subseteq Address
    BY <1>1, <1>2, <1>4, <1>5 DEF ShapeOf, Occupied
  <2>2. \A a \in DOMAIN sheet'.cells :
          sheet'.cells[a] = [content |-> sheet'.cells[a].content, style |-> sheet'.cells[a].style]
    BY <1>1, <1>4, <1>5 DEF ShapeOf, Occupied
  <2>3. QED
    BY <1>4, <2>1, <2>2 DEF ShapeOf
<1>7. mutations' \in [Address -> Mutation]
  BY <1>1, <1>2, <1>3 DEF MarkUpsert, Mutation
<1>8. \A a \in Address : InSource(a)' <=> InSource(a)
  BY <1>3 DEF InSource, Occupied
<1>9. \A a \in Address : a # x => mutations'[a] = mutations[a]
  BY <1>1, <1>2, <1>3
<1>10. mutations'[x] = MarkUpsert(mutations[x])
  BY <1>1, <1>2, <1>3
<1>11. Written' = Occupied(sheet')
  <2>1. \A a \in Address : a # x => (a \in Written' <=> a \in Written)
    BY <1>8, <1>9 DEF Written
  <2>2. x \in Written'
    BY <1>2, <1>10 DEF Written, MarkUpsert
  <2>3. Occupied(sheet') = Occupied(sheet) \union {x}
    BY <1>4, <1>5 DEF Occupied
  <2>4. Written' \subseteq Address
    BY DEF Written
  <2>5. Written \subseteq Address
    BY DEF Written
  <2>6. QED
    BY <1>1, <1>2, <2>1, <2>2, <2>3, <2>4, <2>5
<1>12. ASSUME NEW a \in Written' PROVE WrittenCell(a)' = sheet'.cells[a]
  <2>1. a \in Address
    BY DEF Written
  <2>2. CASE a # x
    <3>1. a \in Written /\ a \in Occupied(sheet)
      BY <1>1, <1>8, <1>9, <2>1, <2>2 DEF Written
    <3>2. sheet'.cells[a] = sheet.cells[a]
      BY <1>4, <1>5, <2>2, <3>1
    <3>3. WrittenCell(a)' = WrittenCell(a)
      BY <1>3, <1>8, <1>9, <2>1, <2>2, <3>2 DEF WrittenCell
    <3>4. QED
      BY <1>1, <3>1, <3>2, <3>3
  <2>3. CASE a = x
    <3>1. sheet'.cells[x] = cell /\ cell.content = Typed /\ cell.style = style
      BY <1>4, <1>5
    <3>2. mutations'[x] \in {"upserted", "replaced"}
      BY <1>10 DEF MarkUpsert
    <3>3. WrittenCell(x)' = [content |-> Typed,
            style |-> IF InSource(x) /\ mutations'[x] # "replaced"
                      THEN source.cells[history.origin[x]].style ELSE None]
      BY <1>2, <1>3, <1>8, <3>1, <3>2 DEF WrittenCell
    <3>4. CASE x \in Written
      <4>1. WrittenCell(x) = sheet.cells[x] /\ style = sheet.cells[x].style
        BY <1>1, <3>4
      <4>2. mutations[x] \in {"none", "upserted", "replaced"}
        BY <1>1, <1>2, <3>4 DEF Written, Mutation
      <4>3. mutations'[x] = "replaced" <=> mutations[x] = "replaced"
        BY <1>10, <4>2 DEF MarkUpsert
      <4>4. mutations[x] = "none" => InSource(x)
        BY <3>4 DEF Written
      <4>5. WrittenCell(x).style = IF InSource(x) /\ mutations[x] # "replaced"
                                   THEN source.cells[history.origin[x]].style ELSE None
        BY <4>2, <4>4 DEF WrittenCell
      <4>6. QED
        BY <2>3, <3>1, <3>3, <4>1, <4>3, <4>5
    <3>5. CASE x \notin Written
      <4>1. style = None
        BY <1>1, <3>5
      <4>2. ~InSource(x) \/ mutations'[x] = "replaced"
        BY <1>1, <1>2, <1>10, <3>5 DEF Written, Mutation, MarkUpsert
      <4>3. QED
        BY <2>3, <3>1, <3>3, <4>1, <4>2
    <3>6. QED
      BY <3>4, <3>5
  <2>4. QED
    BY <2>2, <2>3
<1>13. QED
  BY <1>1, <1>3, <1>6, <1>7, <1>11, <1>12 DEF WriterInv, GridShape, WriterReproducesSheet, ShapeOf

(* Clearing a cell keeps it.                                               *)
LEMMA ClearCellStep ==
  ASSUME WriterInv, NEW x \in Targets, ClearCell(x)
  PROVE  WriterInv'
<1>1. /\ ShapeOf(source) /\ ShapeOf(sheet) /\ mutations \in [Address -> Mutation]
      /\ history.origin \in [Address -> Address \union {None}]
      /\ Written = Occupied(sheet) /\ \A a \in Written : WrittenCell(a) = sheet.cells[a]
  BY DEF WriterInv, GridShape, WriterReproducesSheet
<1>2. x \in Address
  BY SheetAssumption
<1> DEFINE cells == [b \in Occupied(sheet) \ {x} |-> sheet.cells[b]]
<1>3. /\ sheet' = [sheet EXCEPT !.cells = cells]
      /\ mutations' = [mutations EXCEPT ![x] = MarkRemoved(x)]
      /\ source' = source /\ history' = history
  BY DEF ClearCell
<1>4. /\ sheet'.cells = cells
      /\ sheet' = [cells |-> sheet'.cells, merged |-> sheet'.merged, rules |-> sheet'.rules]
  BY <1>1, <1>3 DEF ShapeOf
<1>5. ShapeOf(sheet')
  <2>1. DOMAIN sheet'.cells \subseteq Address
    BY <1>1, <1>4 DEF ShapeOf, Occupied
  <2>2. \A a \in DOMAIN sheet'.cells :
          sheet'.cells[a] = [content |-> sheet'.cells[a].content, style |-> sheet'.cells[a].style]
    BY <1>1, <1>4 DEF ShapeOf, Occupied
  <2>3. QED
    BY <1>4, <2>1, <2>2 DEF ShapeOf
<1>6. mutations' \in [Address -> Mutation]
  BY <1>1, <1>2, <1>3 DEF MarkRemoved, Mutation
<1>7. \A a \in Address : InSource(a)' <=> InSource(a)
  BY <1>3 DEF InSource, Occupied
<1>8. \A a \in Address : a # x => mutations'[a] = mutations[a]
  BY <1>1, <1>2, <1>3
<1>9. mutations'[x] = MarkRemoved(x)
  BY <1>1, <1>2, <1>3
<1>10. Written' = Occupied(sheet')
  <2>1. \A a \in Address : a # x => (a \in Written' <=> a \in Written)
    BY <1>7, <1>8 DEF Written
  <2>2. x \notin Written'
    BY <1>2, <1>7, <1>9 DEF Written, MarkRemoved
  <2>3. Occupied(sheet') = Occupied(sheet) \ {x}
    BY <1>4 DEF Occupied
  <2>4. Written' \subseteq Address /\ Written \subseteq Address
    BY DEF Written
  <2>5. QED
    BY <1>1, <2>1, <2>2, <2>3, <2>4
<1>11. ASSUME NEW a \in Written' PROVE WrittenCell(a)' = sheet'.cells[a]
  <2>1. a \in Address
    BY DEF Written
  <2>2. a # x /\ a \in Occupied(sheet)
    BY <1>4, <1>10 DEF Occupied
  <2>3. sheet'.cells[a] = sheet.cells[a]
    BY <1>4, <2>2
  <2>4. WrittenCell(a)' = WrittenCell(a)
    BY <1>3, <1>7, <1>8, <2>1, <2>2, <2>3 DEF WrittenCell
  <2>5. QED
    BY <1>1, <2>2, <2>3, <2>4
<1>12. QED
  BY <1>1, <1>3, <1>5, <1>6, <1>10, <1>11, Zenon DEF WriterInv, GridShape, WriterReproducesSheet, ShapeOf

(***************************************************************************)
(* The cells and mutations after a structural edit, by the cell that was   *)
(* moved to an address: there is at most one, by AddressesAreReversible.   *)
(***************************************************************************)
LEMMA MovedTo ==
  ASSUME NEW e \in GridEdit, NEW s, DOMAIN s.cells \subseteq Address,
         NEW m \in [Address -> Mutation], NEW a \in Address
  PROVE  LET b == UnmapAddress(e, a) IN
         /\ a \in DOMAIN MovedCells(s, e) <=> b # None /\ b \in Occupied(s)
         /\ a \in DOMAIN MovedCells(s, e) => MovedCells(s, e)[a] = MovedCell(e, s.cells[b], a)
         /\ Remapped(m, e)[a] = IF b = None THEN "none" ELSE m[b]
         /\ a \in ChangedFormulas(s, e) <=>
              b # None /\ b \in Occupied(s) /\ MovedCell(e, s.cells[b], a) # s.cells[b]
<1> DEFINE b == UnmapAddress(e, a)
<1>1. \A c \in Address : MapAddress(e, c) = a <=> b # None /\ c = b
  BY AddressesAreReversible, GridAssumption
<1>2. b # None => b \in Address
  BY AddressesAreReversible
<1>3. a # None
  BY GridAssumption
<1> HIDE DEF b
<1>4. a \in DOMAIN MovedCells(s, e) <=> b # None /\ b \in Occupied(s)
  BY <1>1, <1>2, <1>3 DEF MovedCells, Occupied
<1>5. ASSUME a \in DOMAIN MovedCells(s, e)
      PROVE  MovedCells(s, e)[a] = MovedCell(e, s.cells[b], a)
  <2>1. (CHOOSE c \in Occupied(s) : MapAddress(e, c) = a) = b
    BY <1>1, <1>2, <1>4, <1>5 DEF Occupied
  <2>2. QED
    BY <1>5, <2>1 DEF MovedCells
<1>6. Remapped(m, e)[a] = IF b = None THEN "none" ELSE m[b]
  <2>1. CASE b = None
    BY <1>1, <2>1 DEF Remapped
  <2>2. CASE b # None
    <3>1. (CHOOSE c \in Address : MapAddress(e, c) = a) = b
      BY <1>1, <1>2, <2>2
    <3>2. QED
      BY <1>1, <1>2, <2>2, <3>1 DEF Remapped
  <2>3. QED
    BY <2>1, <2>2
<1>7. a \in ChangedFormulas(s, e) <=>
        b # None /\ b \in Occupied(s) /\ MovedCell(e, s.cells[b], a) # s.cells[b]
  BY <1>1, <1>2 DEF ChangedFormulas, Occupied
<1>8. QED
  BY <1>4, <1>5, <1>6, <1>7 DEF b

(* A structural edit keeps it: the mutations move with the cells.          *)
LEMMA EditGridStep ==
  ASSUME WriterInv, NEW e \in Edits, EditGrid(e)
  PROVE  WriterInv'
<1>1. /\ ShapeOf(source) /\ ShapeOf(sheet) /\ mutations \in [Address -> Mutation]
      /\ history.origin \in [Address -> Address \union {None}]
      /\ Written = Occupied(sheet) /\ \A a \in Written : WrittenCell(a) = sheet.cells[a]
  BY DEF WriterInv, GridShape, WriterReproducesSheet
<1>2. e \in GridEdit /\ DOMAIN sheet.cells \subseteq Address
  BY <1>1, SheetAssumption DEF ShapeOf
<1> DEFINE Was(a) == UnmapAddress(e, a)
           Changed(a) == a \in ChangedFormulas(sheet, e)
<1>3. /\ sheet'.cells = MovedCells(sheet, e)
      /\ sheet' = [cells |-> sheet'.cells, merged |-> sheet'.merged, rules |-> sheet'.rules]
      /\ source' = source
  BY DEF EditGrid, MovedSheet
<1>4. \A a \in Address :
        /\ Was(a) # None => Was(a) \in Address
        /\ a \in Occupied(sheet') <=> Was(a) # None /\ Was(a) \in Occupied(sheet)
        /\ a \in Occupied(sheet') => sheet'.cells[a] = MovedCell(e, sheet.cells[Was(a)], a)
        /\ Remapped(mutations, e)[a] = IF Was(a) = None THEN "none" ELSE mutations[Was(a)]
        /\ Changed(a) <=> /\ Was(a) # None /\ Was(a) \in Occupied(sheet)
                          /\ MovedCell(e, sheet.cells[Was(a)], a) # sheet.cells[Was(a)]
  BY <1>1, <1>2, <1>3, MovedTo, AddressesAreReversible DEF Occupied
<1>5. \A a \in Address :
        mutations'[a] = IF Changed(a) THEN MarkUpsert(Remapped(mutations, e)[a])
                        ELSE Remapped(mutations, e)[a]
  BY DEF EditGrid
<1>6. /\ history'.origin \in [Address -> Address \union {None}]
      /\ \A a \in Address :
           history'.origin[a] = IF Was(a) = None THEN None ELSE history.origin[Was(a)]
  <2>1. history'.origin =
          [a \in Address |-> IF Was(a) = None THEN None ELSE history.origin[Was(a)]]
    BY DEF EditGrid, Push
  <2>2. QED
    BY <1>1, <1>4, <2>1
<1>7. Occupied(sheet') \subseteq Address
  <2>1. Occupied(sheet') = {MapAddress(e, b) : b \in Occupied(sheet)} \ {None}
    BY <1>3 DEF Occupied, MovedCells
  <2>2. QED
    BY <1>2, <2>1, AddressesAreReversible DEF Occupied
<1>8. mutations' \in [Address -> Mutation]
  <2>1. \A a \in Address : mutations'[a] \in Mutation
    BY <1>1, <1>4, <1>5 DEF MarkUpsert, Mutation
  <2>2. mutations' = [a \in Address |-> mutations'[a]]
    BY DEF EditGrid
  <2>3. QED
    BY <2>1, <2>2
<1> HIDE DEF Was, Changed
<1>9. \A a \in Address : InSource(a)' <=> Was(a) # None /\ InSource(Was(a))
  BY <1>3, <1>4, <1>6 DEF InSource, Occupied
<1>10. \A a \in Address : Was(a) = None => a \notin Written' /\ a \notin Occupied(sheet')
  BY <1>4, <1>5, <1>9 DEF Written
<1>11. \A a \in Address : Was(a) # None => (a \in Written' <=> Was(a) \in Written)
  <2> SUFFICES ASSUME NEW a \in Address, Was(a) # None
               PROVE  a \in Written' <=> Was(a) \in Written
    OBVIOUS
  <2>1. Was(a) \in Address /\ mutations[Was(a)] \in Mutation
    BY <1>1, <1>4
  <2>2. CASE Changed(a)
    <3>1. mutations'[a] \in {"upserted", "replaced"} /\ Was(a) \in Occupied(sheet)
      BY <1>4, <1>5, <2>2 DEF MarkUpsert
    <3>2. QED
      BY <1>1, <3>1 DEF Written
  <2>3. CASE ~Changed(a)
    BY <1>4, <1>5, <1>9, <2>1, <2>3 DEF Written
  <2>4. QED
    BY <2>2, <2>3
<1>12. Written' = Occupied(sheet')
  <2>1. Written' \subseteq Address
    BY DEF Written
  <2>2. ASSUME NEW a \in Address PROVE a \in Written' <=> a \in Occupied(sheet')
    <3>1. CASE Was(a) = None
      BY <1>10, <3>1
    <3>2. CASE Was(a) # None
      BY <1>1, <1>4, <1>11, <3>2
    <3>3. QED
      BY <3>1, <3>2
  <2>3. QED
    BY <1>7, <2>1, <2>2
<1>13. ASSUME NEW a \in Written' PROVE WrittenCell(a)' = sheet'.cells[a]
  <2> DEFINE b == Was(a)
             c == sheet.cells[b]
             m == mutations[b]
  <2>1. a \in Address /\ b # None /\ b \in Address /\ b \in Written /\ b \in Occupied(sheet)
    BY <1>1, <1>4, <1>10, <1>11 DEF Written
  <2>2. /\ sheet'.cells[a] = MovedCell(e, c, a)
        /\ sheet'.cells[a] = [content |-> sheet'.cells[a].content, style |-> c.style]
    <3>1. sheet'.cells[a] = MovedCell(e, c, a)
      BY <1>4, <1>12, <2>1
    <3>2. QED
      BY <3>1 DEF MovedCell
  <2>3. WrittenCell(b) = c /\ m \in Mutation /\ m # "removed"
    BY <1>1, <2>1 DEF Written
  <2>4. InSource(a)' <=> InSource(b)
    BY <1>9, <2>1
  <2>5. source'.cells[history'.origin[a]] = source.cells[history.origin[b]]
    BY <1>3, <1>6, <2>1
  <2>6. mutations'[a] = IF Changed(a) THEN MarkUpsert(m) ELSE m
    BY <1>4, <1>5, <2>1
  <2>7. CASE mutations'[a] = "none"
    <3>1. m = "none" /\ MovedCell(e, c, a) = c
      BY <1>4, <2>1, <2>6, <2>7 DEF MarkUpsert
    <3>2. WrittenCell(b) = source.cells[history.origin[b]]
      BY <3>1 DEF WrittenCell
    <3>3. WrittenCell(a)' = source.cells[history.origin[b]]
      BY <2>5, <2>7 DEF WrittenCell
    <3>4. QED
      BY <2>2, <2>3, <3>1, <3>2, <3>3
  <2>8. CASE mutations'[a] # "none"
    <3>1. WrittenCell(a)' = [content |-> sheet'.cells[a].content,
            style |-> IF InSource(b) /\ mutations'[a] # "replaced"
                      THEN source.cells[history.origin[b]].style ELSE None]
      BY <2>4, <2>5, <2>8 DEF WrittenCell
    <3>2. mutations'[a] = "replaced" <=> m = "replaced"
      BY <2>3, <2>6 DEF MarkUpsert, Mutation
    <3>3. c.style = IF InSource(b) /\ m # "replaced"
                    THEN source.cells[history.origin[b]].style ELSE None
      <4>1. CASE m = "none"
        BY <2>1, <2>3, <4>1 DEF Written, WrittenCell
      <4>2. CASE m # "none"
        BY <2>3, <4>2 DEF WrittenCell
      <4>3. QED
        BY <4>1, <4>2
    <3>4. QED
      BY <2>2, <3>1, <3>2, <3>3
  <2>9. QED
    BY <2>7, <2>8
<1>14. ShapeOf(sheet')
  <2>1. \A a \in DOMAIN sheet'.cells :
          sheet'.cells[a] = [content |-> sheet'.cells[a].content, style |-> sheet'.cells[a].style]
    <3> SUFFICES ASSUME NEW a \in DOMAIN sheet'.cells
                 PROVE  sheet'.cells[a] = [content |-> sheet'.cells[a].content,
                                           style |-> sheet'.cells[a].style]
      BY Zenon
    <3>1. sheet'.cells[a] = MovedCell(e, sheet.cells[Was(a)], a)
      BY <1>4, <1>7 DEF Occupied
    <3>2. QED
      BY <3>1 DEF MovedCell
  <2>2. QED
    BY <1>3, <1>7, <2>1 DEF ShapeOf, Occupied
<1>15. QED
  BY <1>1, <1>3, <1>6, <1>8, <1>12, <1>13, <1>14
     DEF WriterInv, GridShape, WriterReproducesSheet, ShapeOf

(***************************************************************************)
(* For sheets of every size, all structural edits and every order of them  *)
(* with writes and removals: the document the writer makes from the source *)
(* document, the history and the mutations holds exactly the cells of the  *)
(* draft, at their places and with their styles.                           *)
(***************************************************************************)
THEOREM WriterAlwaysReproducesSheet == GridSpec => []WriterReproducesSheet
<1>1. WriterInv /\ [GridNext]_gridVars => WriterInv'
  <2> SUFFICES ASSUME WriterInv, [GridNext]_gridVars PROVE WriterInv'
    OBVIOUS
  <2>1. ASSUME NEW e \in Edits, EditGrid(e) PROVE WriterInv'
    BY <2>1, EditGridStep
  <2>2. ASSUME NEW a \in Targets, SetCell(a) PROVE WriterInv'
    BY <2>2, SetCellStep
  <2>3. ASSUME NEW a \in Targets, ClearCell(a) PROVE WriterInv'
    BY <2>3, ClearCellStep
  <2>4. CASE UNCHANGED gridVars
    BY <2>4 DEF gridVars, WriterInv, GridShape, ShapeOf, WriterReproducesSheet, Written,
               WrittenCell, InSource, Occupied
  <2>5. QED
    BY <2>1, <2>2, <2>3, <2>4 DEF GridNext
<1>2. WriterInv => WriterReproducesSheet
  BY DEF WriterInv
<1>3. QED
  BY WriterInit, <1>1, <1>2, PTL DEF GridSpec

-----------------------------------------------------------------------------
(* What is left of the reference to one cell by a piece.                   *)
LEMMA CellsAreNotShrunk ==
  ASSUME NEW a \in Address, NEW p
  PROVE  /\ LeftBy(CellRangeOf(a), p) =
              IF p \in CellRange /\ HasCell(p, a) THEN None ELSE CellRangeOf(a)
         /\ LeftBy(None, p) = None
<1> DEFINE r == CellRangeOf(a)
<1>1. r # None /\ r.first = a /\ r.last = a /\ r = Piece(a.row, a.column, a.row, a.column)
      /\ a.row \in Int /\ a.column \in Int
  BY CellRanges, GridAssumption DEF CellRangeOf, Piece, Address
<1> HIDE DEF r
<1>2. ASSUME p \notin CellRange PROVE LeftBy(r, p) = r
  BY <1>1, <1>2 DEF LeftBy
<1>3. ASSUME p \in CellRange, HasCell(p, a) PROVE LeftBy(r, p) = None
  <2>1. RangeContains(p, r)
    BY <1>1, <1>3 DEF RangeContains
  <2>2. ShrunkBy(r, p) = None
    BY <2>1 DEF ShrunkBy
  <2>3. QED
    BY <1>1, <1>3, <2>2 DEF LeftBy
<1>4. ASSUME p \in CellRange, ~HasCell(p, a) PROVE LeftBy(r, p) = r
  <2>1. /\ p.first.row \in Int /\ p.last.row \in Int /\ p.first.column \in Int /\ p.last.column \in Int
    BY <1>4, GridAssumption DEF CellRange, Address
  <2>2. \A v, from, to \in Int : Shrunk(v, v, from, to) = <<v, v>>
    BY DEF Shrunk
  <2>3. ~RangeContains(p, r)
    BY <1>1, <1>4 DEF RangeContains
  <2>5. /\ Shrunk(a.row, a.row, p.first.row, p.last.row) = <<a.row, a.row>>
        /\ Shrunk(a.column, a.column, p.first.column, p.last.column) = <<a.column, a.column>>
    BY <1>1, <2>1, <2>2, Zenon
  <2>6. ShrunkBy(r, p) = r
    BY <1>1, <2>3, <2>5 DEF ShrunkBy
  <2>4. QED
    BY <1>1, <1>4, <2>6 DEF LeftBy
<1>5. LeftBy(None, p) = None
  BY DEF LeftBy
<1>6. QED
  BY <1>2, <1>3, <1>4, <1>5 DEF r

(* A reference to one cell follows it and is #REF! when the cell is gone.  *)
LEMMA CellOutcome ==
  ASSUME NEW e \in GridEdit, NEW a \in Address
  PROVE  Outcome(e, CellRangeOf(a)) =
           IF MapAddress(e, a) = None THEN None ELSE CellRangeOf(MapAddress(e, a))
<1>0. CellRangeOf(a).first = a /\ CellRangeOf(a).last = a
  BY DEF CellRangeOf
<1>1. CASE e \in LineEdit
  <2>1. PICK axis \in Axis : e.axis = axis /\
          (e \in Insertion(axis) \/ e \in Deletion(axis) \/ e \in LineMove(axis))
    BY <1>1, LineEditCases
  <2>2. e.kind # "range"
    BY <2>1 DEF Insertion, Deletion, LineMove
  <2> DEFINE v == Coordinate(axis, a)
             w == MapLine(e, v)
  <2>3. v \in Line(axis)
    BY Coordinates, AxisMaxType DEF Line
  <2>4. MapInterval(e, v, v, "reference") = IF w = None THEN None ELSE <<w, w>>
    BY <2>1, <2>3, SingleLines
  <2>5. Span(CellRangeOf(a), axis) = <<v, v>>
    BY <1>0 DEF Span
  <2>6. MapAddress(e, a) = IF w = None THEN None ELSE WithCoordinate(axis, a, w)
    BY <2>1, <2>2 DEF MapAddress
  <2>7. Outcome(e, CellRangeOf(a)) = MapRange(e, CellRangeOf(a), "reference")
    BY <2>2 DEF Outcome, Overwritten
  <2>8. w # None => w \in Line(axis)
    BY <1>1, <2>1, <2>3, LineEditsAreReversible
  <2> HIDE DEF v, w
  <2>9. CASE w = None
    BY <2>1, <2>2, <2>4, <2>5, <2>6, <2>7, <2>9 DEF MapRange
  <2>10. CASE w # None
    <3>1. <<w, w>> # None /\ <<v, v>>[1] = v /\ <<v, v>>[2] = v /\ <<w, w>>[1] = w /\ <<w, w>>[2] = w
      BY <2>8, <2>10, GridAssumption, AxisMaxType DEF Line
    <3>2. Outcome(e, CellRangeOf(a)) =
            [first |-> WithCoordinate(axis, a, w), last |-> WithCoordinate(axis, a, w)]
      BY <1>0, <2>1, <2>2, <2>4, <2>5, <2>7, <2>10, <3>1 DEF MapRange
    <3>3. WithCoordinate(axis, a, w) \in Address
      BY <2>8, <2>10, Coordinates
    <3>4. MapAddress(e, a) = WithCoordinate(axis, a, w) /\ MapAddress(e, a) # None
      BY <2>6, <2>10, <3>3, GridAssumption
    <3>5. QED
      BY <3>2, <3>4 DEF CellRangeOf
  <2>11. QED
    BY <2>9, <2>10
<1>2. CASE e \in RangeMove
  <2>1. /\ e.kind = "range" /\ e.source \in CellRange /\ e.destination \in Address
        /\ e.destination.row + Height(e.source) - 1 <= MaxRow
        /\ e.destination.column + Width(e.source) - 1 <= MaxColumn
    BY <1>2 DEF RangeMove
  <2>2. DestinationRange(e) \in CellRange
    BY <2>1, GridAssumption DEF DestinationRange, CellRange, Address, Height, Width
  <2>3. RangeContains(e.source, CellRangeOf(a)) <=> HasCell(e.source, a)
    BY <1>0 DEF RangeContains
  <2>4. CASE HasCell(e.source, a)
    <3>1. Outcome(e, CellRangeOf(a)) = OffsetRange(CellRangeOf(a), RowOffset(e), ColumnOffset(e))
      BY <2>1, <2>3, <2>4 DEF Outcome, Overwritten
    <3>2. MapAddress(e, a) = OffsetAddress(a, RowOffset(e), ColumnOffset(e))
      BY <2>1, <2>4 DEF MapAddress
    <3>3. QED
      BY <1>0, <3>1, <3>2 DEF OffsetRange, CellRangeOf
  <2>5. CASE ~HasCell(e.source, a)
    <3> DEFINE p == Pieces(DestinationRange(e), e.source)
               Covers(i) == p[i] \in CellRange /\ HasCell(p[i], a)
    <3>1. Outcome(e, CellRangeOf(a)) =
            LeftBy(LeftBy(LeftBy(LeftBy(CellRangeOf(a), p[1]), p[2]), p[3]), p[4])
      BY <2>1, <2>3, <2>5 DEF Outcome, Overwritten
    <3>2. MapAddress(e, a) = IF HasCell(DestinationRange(e), a) THEN None ELSE a
      BY <2>1, <2>5 DEF MapAddress
    <3>3. (\E i \in 1..4 : Covers(i)) <=> HasCell(DestinationRange(e), a)
      BY <2>1, <2>2, <2>5, PiecesHoldTheRest
    <3>4. \A q : /\ LeftBy(CellRangeOf(a), q) = IF q \in CellRange /\ HasCell(q, a) THEN None ELSE CellRangeOf(a)
                 /\ LeftBy(None, q) = None
      BY CellsAreNotShrunk
    <3> HIDE DEF p
    <3>5. Outcome(e, CellRangeOf(a)) =
            IF Covers(1) \/ Covers(2) \/ Covers(3) \/ Covers(4) THEN None ELSE CellRangeOf(a)
      BY <3>1, <3>4, Zenon
    <3> HIDE DEF Covers
    <3>6. Covers(1) \/ Covers(2) \/ Covers(3) \/ Covers(4) <=> \E i \in 1..4 : Covers(i)
      OBVIOUS
    <3>7. a # None
      BY GridAssumption
    <3>8. QED
      BY <3>2, <3>3, <3>5, <3>6, <3>7
  <2>6. QED
    BY <2>4, <2>5
<1>3. QED
  BY <1>1, <1>2 DEF GridEdit

(***************************************************************************)
(* The inductive invariant behind ReferencesKeepTheirCells: the reference  *)
(* to a cell is that to where the cell is now, and the references to       *)
(* ranges are as the property says for as long as nothing was moved.       *)
(***************************************************************************)
RefsInv ==
  /\ DOMAIN refs = CellRange
  /\ history.moves \in BOOLEAN
  /\ history.origin \in [Address -> Address \union {None}]
  /\ history.current \in [Address -> Address \union {None}]
  /\ \A a \in Address : refs[CellRangeOf(a)] =
       IF history.current[a] = None THEN None ELSE CellRangeOf(history.current[a])
  /\ ~history.moves => \A r \in CellRange :
       IF refs[r] = None THEN Survivors(r) = {}
       ELSE /\ refs[r] \in CellRange /\ Survivors(r) \subseteq CellsOf(refs[r])
            /\ \A a \in CellsOf(refs[r]) : history.origin[a] \in CellsOf(r) \union {None}

(* Before any edit references are the ranges they were read as.            *)
LEMMA RefsInit == GridInit => RefsInv
<1> SUFFICES ASSUME GridInit PROVE RefsInv
  OBVIOUS
<1>1. refs = [r \in CellRange |-> r] /\ history = NoEdits
  BY DEF GridInit, GridStarts
<1>2. /\ history.origin = [a \in Address |-> a] /\ history.current = [a \in Address |-> a]
      /\ history.moves = FALSE
  BY <1>1 DEF NoEdits
<1>3. \A a \in Address : refs[CellRangeOf(a)] = CellRangeOf(history.current[a]) /\ history.current[a] # None
  BY <1>1, <1>2, CellRanges, GridAssumption
<1>4. \A r \in CellRange : Survivors(r) = CellsOf(r)
  BY <1>2, RangeCellsAreAddresses, GridAssumption DEF Survivors
<1>5. \A r \in CellRange : refs[r] = r /\ r # None
  BY <1>1, GridAssumption
<1>6. \A r \in CellRange : \A a \in CellsOf(r) : history.origin[a] = a
  BY <1>2, RangeCellsAreAddresses
<1>7. QED
  BY <1>1, <1>2, <1>3, <1>4, <1>5, <1>6, Zenon DEF RefsInv

(* A structural edit moves references as it moves cells.                   *)
LEMMA RefsStep ==
  ASSUME RefsInv, NEW e \in Edits, EditGrid(e)
  PROVE  RefsInv'
<1>1. /\ DOMAIN refs = CellRange /\ history.moves \in BOOLEAN
      /\ history.origin \in [Address -> Address \union {None}]
      /\ history.current \in [Address -> Address \union {None}]
      /\ \A a \in Address : refs[CellRangeOf(a)] =
           IF history.current[a] = None THEN None ELSE CellRangeOf(history.current[a])
  BY DEF RefsInv
<1>2. e \in GridEdit
  BY SheetAssumption
<1>3. refs' = [r \in CellRange |-> Rewritten(e, refs[r])] /\ history' = Push(history, e)
  BY DEF EditGrid
<1> DEFINE Was(a) == UnmapAddress(e, a)
           Goes(a) == MapAddress(e, a)
<1>4. /\ history'.origin = [a \in Address |-> IF Was(a) = None THEN None ELSE history.origin[Was(a)]]
      /\ history'.current =
           [a \in Address |-> IF history.current[a] = None THEN None ELSE Goes(history.current[a])]
      /\ history'.moves = (history.moves \/ e.kind \in {"move", "range"})
  BY <1>3 DEF Push
<1>5. \A a \in Address : (Was(a) # None => Was(a) \in Address) /\ (Goes(a) # None => Goes(a) \in Address)
  BY <1>2, AddressesAreReversible
<1> HIDE DEF Was, Goes
<1>6. history'.origin \in [Address -> Address \union {None}]
  BY <1>1, <1>4, <1>5
<1>7. history'.current \in [Address -> Address \union {None}]
  BY <1>1, <1>4, <1>5
<1>8. ASSUME NEW a \in Address
      PROVE  refs'[CellRangeOf(a)] =
               IF history'.current[a] = None THEN None ELSE CellRangeOf(history'.current[a])
  <2>1. refs'[CellRangeOf(a)] = Rewritten(e, refs[CellRangeOf(a)])
    BY <1>3, CellRanges
  <2>2. CASE history.current[a] = None
    BY <1>1, <1>4, <2>1, <2>2 DEF Rewritten
  <2>3. CASE history.current[a] # None
    <3> DEFINE c == history.current[a]
    <3>1. c \in Address /\ refs[CellRangeOf(a)] = CellRangeOf(c)
      BY <1>1, <2>3
    <3>2. CellRangeOf(c) # None
      BY <3>1, CellRanges
    <3>3. refs'[CellRangeOf(a)] = Outcome(e, CellRangeOf(c))
      BY <2>1, <3>1, <3>2 DEF Rewritten
    <3>4. history'.current[a] = Goes(c)
      BY <1>4, <2>3
    <3>5. QED
      BY <1>2, <3>1, <3>3, <3>4, CellOutcome DEF Goes
  <2>4. QED
    BY <2>2, <2>3
<1>9. ASSUME ~history'.moves, NEW r \in CellRange
      PROVE  IF refs'[r] = None THEN Survivors(r)' = {}
             ELSE /\ refs'[r] \in CellRange /\ Survivors(r)' \subseteq CellsOf(refs'[r])
                  /\ \A a \in CellsOf(refs'[r]) : history'.origin[a] \in CellsOf(r) \union {None}
  <2>1. ~history.moves /\ e.kind \notin {"move", "range"}
    BY <1>1, <1>4, <1>9, Zenon
  <2>2. PICK axis \in Axis : e \in Insertion(axis) \union Deletion(axis)
    BY <1>2, <2>1, LineEditCases DEF GridEdit, RangeMove, LineMove
  <2>3. refs'[r] = IF refs[r] = None THEN None ELSE MapRange(e, refs[r], "reference")
    BY <1>3, <2>1 DEF Rewritten, Outcome
  <2>4. Survivors(r) \subseteq Address /\ CellsOf(r) \subseteq Address
    BY <1>1, RangeCellsAreAddresses DEF Survivors
  <2>5. Survivors(r)' = {Goes(c) : c \in Survivors(r)} \ {None}
    BY <1>4, <2>4 DEF Survivors
  <2>6. CASE refs[r] = None
    BY <2>1, <2>3, <2>5, <2>6 DEF RefsInv
  <2>7. CASE refs[r] # None
    <3>1. /\ refs[r] \in CellRange /\ Survivors(r) \subseteq CellsOf(refs[r])
          /\ \A a \in CellsOf(refs[r]) : history.origin[a] \in CellsOf(r) \union {None}
      BY <2>1, <2>7 DEF RefsInv
    <3>2. IF refs'[r] = None THEN \A a \in CellsOf(refs[r]) : Goes(a) = None
          ELSE /\ refs'[r] \in CellRange
               /\ \A a \in CellsOf(refs[r]) : Goes(a) # None => Goes(a) \in CellsOf(refs'[r])
               /\ \A b \in CellsOf(refs'[r]) : Was(b) # None => Was(b) \in CellsOf(refs[r])
      BY <2>2, <2>3, <2>7, <3>1, RangesKeepTheirCells DEF Goes, Was
    <3>3. CASE refs'[r] = None
      BY <2>5, <3>1, <3>2, <3>3
    <3>4. CASE refs'[r] # None
      <4>1. refs'[r] \in CellRange /\ Survivors(r)' \subseteq CellsOf(refs'[r])
        BY <2>5, <3>1, <3>2, <3>4
      <4>2. ASSUME NEW b \in CellsOf(refs'[r]) PROVE history'.origin[b] \in CellsOf(r) \union {None}
        <5>1. b \in Address
          BY <4>1, RangeCellsAreAddresses
        <5>2. history'.origin[b] = IF Was(b) = None THEN None ELSE history.origin[Was(b)]
          BY <1>4, <5>1
        <5>3. QED
          BY <3>1, <3>2, <3>4, <5>2
      <4>3. QED
        BY <3>4, <4>1, <4>2
    <3>5. QED
      BY <3>3, <3>4
  <2>8. QED
    BY <2>6, <2>7
<1>10. DOMAIN refs' = CellRange /\ history'.moves \in BOOLEAN
  BY <1>1, <1>3, <1>4
<1>11. QED
  BY <1>6, <1>7, <1>8, <1>9, <1>10 DEF RefsInv

(***************************************************************************)
(* For sheets of every size and every sequence of structural edits: a      *)
(* reference to one cell follows that cell and is #REF! exactly when the   *)
(* cell is gone, and a reference to a range, through insertions and        *)
(* deletions, covers every cell left of the range and none from outside    *)
(* (line_outcome, moved_range_outcome).                                    *)
(***************************************************************************)
THEOREM ReferencesFollowTheirCells == GridSpec => []ReferencesKeepTheirCells
<1>1. RefsInv /\ [GridNext]_gridVars => RefsInv'
  <2> SUFFICES ASSUME RefsInv, [GridNext]_gridVars PROVE RefsInv'
    OBVIOUS
  <2>1. ASSUME NEW e \in Edits, EditGrid(e) PROVE RefsInv'
    BY <2>1, RefsStep
  <2>2. CASE UNCHANGED <<history, refs>>
    BY <2>2 DEF RefsInv, Survivors
  <2>3. QED
    BY <2>1, <2>2, Zenon DEF GridNext, SetCell, ClearCell, gridVars
<1>2. RefsInv => ReferencesKeepTheirCells
  <2> SUFFICES ASSUME RefsInv, NEW r \in CellRange
               PROVE  /\ r.first = r.last =>
                           (IF refs[r] = None THEN {} ELSE CellsOf(refs[r])) = Survivors(r)
                      /\ ~history.moves =>
                           IF refs[r] = None THEN Survivors(r) = {}
                           ELSE /\ Survivors(r) \subseteq CellsOf(refs[r])
                                /\ \A a \in CellsOf(refs[r]) : history.origin[a] \in CellsOf(r) \union {None}
    BY DEF ReferencesKeepTheirCells
  <2>1. ASSUME r.first = r.last
        PROVE  (IF refs[r] = None THEN {} ELSE CellsOf(refs[r])) = Survivors(r)
    <3> DEFINE a == r.first
    <3>1. a \in Address /\ r = CellRangeOf(a)
      BY <2>1, CellRanges DEF CellRange
    <3>2. Survivors(r) = {history.current[a]} \ {None}
      BY <3>1, CellRanges DEF Survivors
    <3>3. history.current[a] \in Address \union {None}
      BY <3>1 DEF RefsInv
    <3>4. refs[r] = IF history.current[a] = None THEN None ELSE CellRangeOf(history.current[a])
      BY <3>1 DEF RefsInv
    <3>5. QED
      BY <3>2, <3>3, <3>4, CellRanges
  <2>2. QED
    BY <2>1 DEF RefsInv
<1>3. QED
  BY RefsInit, <1>1, <1>2, PTL DEF GridSpec

-----------------------------------------------------------------------------
(* A range the edit keeps: no range move pastes over it.                   *)
KeepsRange(e, r) == e.kind = "range" => ~Overwrites(e, r) \/ MapAddress(e, r.first) # None

(* A range that stays whole keeps its extent, and map_range and the move   *)
(* of an array formula agree on it.                                        *)
LEMMA WholeRanges ==
  ASSUME NEW e \in GridEdit, NEW r \in CellRange, StaysWhole(e, r), MapAddress(e, r.first) # None
  PROVE  LET q == MapRange(e, r, "reference") IN
         /\ q \in CellRange /\ q.first = MapAddress(e, r.first) /\ q.last = MapAddress(e, r.last)
         /\ Height(q) = Height(r) /\ Width(q) = Width(r)
         /\ MovedArray(e, r, MapAddress(e, r.first)) = q
<1> DEFINE q == MapRange(e, r, "reference")
<1>1. /\ q \in CellRange /\ q.first = MapAddress(e, r.first) /\ q.last = MapAddress(e, r.last)
      /\ Height(q) = Height(r) /\ Width(q) = Width(r)
  <2>1. CASE e \in LineEdit
    BY <2>1, WholeRangeLines
  <2>2. CASE e \in RangeMove
    <3>1. RowOffset(e) \in Int /\ ColumnOffset(e) \in Int
      BY <2>2, GridAssumption DEF RangeMove, RowOffset, ColumnOffset, CellRange, Address
    <3>2. /\ r.first.row \in Int /\ r.last.row \in Int /\ r.first.column \in Int /\ r.last.column \in Int
      BY GridAssumption DEF CellRange, Address
    <3>3. ~Splits(e, r)
      BY DEF StaysWhole
    <3> HIDE DEF q
    <3>4. CASE q = r /\ MapAddress(e, r.first) = r.first /\ MapAddress(e, r.last) = r.last
      BY <3>4
    <3>5. CASE /\ q \in CellRange /\ q.first = MapAddress(e, r.first) /\ q.last = MapAddress(e, r.last)
               /\ q.first.row = r.first.row + RowOffset(e) /\ q.last.row = r.last.row + RowOffset(e)
               /\ q.first.column = r.first.column + ColumnOffset(e)
               /\ q.last.column = r.last.column + ColumnOffset(e)
      BY <3>1, <3>2, <3>5 DEF Height, Width
    <3>6. QED
      BY <2>2, <3>3, <3>4, <3>5, WholeRangeMoves DEF q
  <2>3. QED
    BY <2>1, <2>2 DEF GridEdit
<1>2. q # None /\ r # None
  BY <1>1, GridAssumption
<1>3. MovedArray(e, r, MapAddress(e, r.first)) = q
  BY <1>1, <1>2 DEF MovedArray
<1>4. QED
  BY <1>1, <1>3

(* What has no cell in common with d has none with what lies within d.     *)
LEMMA ApartWithin ==
  ASSUME NEW x, NEW y, NEW d, Apart(x, d),
         x.first.row \in Int, x.last.row \in Int, x.first.column \in Int, x.last.column \in Int,
         y.first.row \in Int, y.last.row \in Int, y.first.column \in Int, y.last.column \in Int,
         d.first.row \in Int, d.last.row \in Int, d.first.column \in Int, d.last.column \in Int,
         d.first.row <= y.first.row, y.last.row <= d.last.row,
         d.first.column <= y.first.column, y.last.column <= d.last.column
  PROVE  Apart(x, y) /\ Apart(y, x)
BY DEF Apart

(* Ranges without a common cell that an edit keeps have none after it.     *)
LEMMA KeptRangesStayApart ==
  ASSUME NEW e \in GridEdit, NEW r \in CellRange, NEW q \in CellRange, Apart(r, q),
         e.kind \in {"move", "range"} => ~Splits(e, r) /\ ~Splits(e, q),
         KeepsRange(e, r), KeepsRange(e, q),
         MapRange(e, r, "reference") # None, MapRange(e, q, "reference") # None
  PROVE  Apart(MapRange(e, r, "reference"), MapRange(e, q, "reference"))
<1>1. CASE e \in LineEdit
  <2>1. e.kind = "move" => StaysWhole(e, r) /\ StaysWhole(e, q)
    BY DEF StaysWhole
  <2>2. QED
    BY <1>1, <2>1, RangesStayApart
<1>2. CASE e \in RangeMove
  <2>1. e.kind = "range" /\ ~Splits(e, r) /\ ~Splits(e, q)
    BY <1>2 DEF RangeMove
  <2>2. RowOffset(e) \in Int /\ ColumnOffset(e) \in Int
    BY <1>2, GridAssumption DEF RangeMove, RowOffset, ColumnOffset, CellRange, Address
  <2>3. DestinationRange(e) \in CellRange
    BY <1>2, GridAssumption DEF RangeMove, DestinationRange, CellRange, Address, Height, Width
  <2> DEFINE D == DestinationRange(e)
             Moves(x) == LET y == MapRange(e, x, "reference") IN
                         /\ y \in CellRange /\ RangeContains(D, y)
                         /\ y.first.row = x.first.row + RowOffset(e) /\ y.last.row = x.last.row + RowOffset(e)
                         /\ y.first.column = x.first.column + ColumnOffset(e)
                         /\ y.last.column = x.last.column + ColumnOffset(e)
             Stays(x) == MapRange(e, x, "reference") = x /\ Apart(x, D)
  <2>4. Moves(r) \/ Stays(r)
    BY <1>2, <2>1, WholeRangeMoves DEF KeepsRange
  <2>5. Moves(q) \/ Stays(q)
    BY <1>2, <2>1, WholeRangeMoves DEF KeepsRange
  <2>6. \A x \in CellRange : /\ x.first \in Address /\ x.last \in Address
                             /\ x.first.row \in Int /\ x.last.row \in Int
                             /\ x.first.column \in Int /\ x.last.column \in Int
    BY GridAssumption DEF CellRange, Address
  <2>7. ASSUME NEW x \in CellRange, NEW y \in CellRange, RangeContains(D, y), Apart(x, D)
        PROVE  Apart(x, y) /\ Apart(y, x)
    <3>1. /\ D.first.row <= y.first.row /\ y.last.row <= D.last.row
          /\ D.first.column <= y.first.column /\ y.last.column <= D.last.column
      BY <2>3, <2>6, <2>7, RangeCells DEF RangeContains
    <3> HIDE DEF D
    <3>2. D \in CellRange
      BY <2>3 DEF D
    <3>3. /\ x.first.row \in Int /\ x.last.row \in Int /\ x.first.column \in Int /\ x.last.column \in Int
          /\ y.first.row \in Int /\ y.last.row \in Int /\ y.first.column \in Int /\ y.last.column \in Int
          /\ D.first.row \in Int /\ D.last.row \in Int /\ D.first.column \in Int /\ D.last.column \in Int
      BY <2>6, <2>7, <3>2
    <3>4. QED
      BY <2>7, <3>1, <3>3, ApartWithin
  <2>8. CASE Moves(r) /\ Moves(q)
    <3> DEFINE y == MapRange(e, r, "reference")
               z == MapRange(e, q, "reference")
    <3>1. /\ y.first.row = r.first.row + RowOffset(e) /\ y.last.row = r.last.row + RowOffset(e)
          /\ y.first.column = r.first.column + ColumnOffset(e) /\ y.last.column = r.last.column + ColumnOffset(e)
          /\ z.first.row = q.first.row + RowOffset(e) /\ z.last.row = q.last.row + RowOffset(e)
          /\ z.first.column = q.first.column + ColumnOffset(e) /\ z.last.column = q.last.column + ColumnOffset(e)
      BY <2>8
    <3>2. /\ r.first.row \in Int /\ r.last.row \in Int /\ r.first.column \in Int /\ r.last.column \in Int
          /\ q.first.row \in Int /\ q.last.row \in Int /\ q.first.column \in Int /\ q.last.column \in Int
      BY <2>6
    <3> HIDE DEF y, z
    <3>3. Apart(y, z)
      BY <2>2, <3>1, <3>2 DEF Apart
    <3>4. QED
      BY <3>3 DEF y, z
  <2>9. CASE Moves(r) /\ Stays(q)
    BY <2>7, <2>9
  <2>10. CASE Stays(r) /\ Moves(q)
    BY <2>7, <2>10
  <2>11. CASE Stays(r) /\ Stays(q)
    BY <2>11
  <2>12. QED
    BY <2>4, <2>5, <2>8, <2>9, <2>10, <2>11
<1>3. QED
  BY <1>1, <1>2 DEF GridEdit

(***************************************************************************)
(* The inductive invariant behind MergedAndArrayRangesStayWhole: what a    *)
(* sheet has of a document's shape, the property itself, and that an array *)
(* formula read with its last cell still has it, which is what keeps an    *)
(* insertion from pushing a part of its range off the sheet.               *)
(***************************************************************************)
CellShaped(cell) ==
  /\ cell = [content |-> cell.content, style |-> cell.style]
  /\ cell.content = [at |-> cell.content.at, reads |-> cell.content.reads, array |-> cell.content.array]
  /\ cell.content.array \in CellRange \union {None}

(* The shape of a sheet.                                                   *)
SheetShaped(s) ==
  /\ s = [cells |-> s.cells, merged |-> s.merged, rules |-> s.rules]
  /\ Occupied(s) \subseteq Address
  /\ \A r \in s.merged : r \in CellRange /\ r.first # r.last
  /\ \A a \in Occupied(s) : CellShaped(s.cells[a])

(* The array formula at a, which was read in src.                          *)
ArrayHolds(s, src, a) ==
  LET content == s.cells[a].content
      read == src.cells[content.at].content.array
  IN  /\ content.at \in ArrayAnchors(src)
      /\ StoredWhole(src, content.at) =>
           /\ StoredWhole(s, a)
           /\ Height(content.array) = Height(read) /\ Width(content.array) = Width(read)

(* The sheet s, read as src.                                               *)
RangesHold(s, src) ==
  /\ SheetShaped(s) /\ MergesApart(s)
  /\ \A a \in ArrayAnchors(s) : ArrayHolds(s, src, a)
  /\ ArraysStoredWhole(src) /\ RangesApart(src) => RangesApart(s)

(* The invariant behind MergedAndArrayRangesStayWhole.                     *)
RangesInv == RangesHold(sheet, source) /\ history.count \in Nat

(* A document that was just read has its ranges as they were read.         *)
LEMMA RangesInit == GridInit => RangesInv
<1> SUFFICES ASSUME GridInit PROVE RangesInv
  OBVIOUS
<1>1. source \in Sheets /\ sheet = source /\ history = NoEdits
  BY DEF GridInit, GridStarts
<1>2. /\ source = [cells |-> source.cells, merged |-> source.merged, rules |-> source.rules]
      /\ Occupied(source) \subseteq Address
      /\ \A a \in Occupied(source) :
           source.cells[a] = [content |-> source.cells[a].content, style |-> a]
  BY <1>1, SheetAssumption DEF Occupied
<1>3. MergesApart(source) /\ \A r \in source.merged : r \in CellRange /\ r.first # r.last
  BY <1>1, DocumentAssumption
<1>4. \A a \in Occupied(source) :
        LET content == source.cells[a].content IN
        /\ content = [at |-> a, reads |-> content.reads, array |-> content.array]
        /\ content.array # None => content.array \in CellRange /\ content.array.first = a
  BY <1>1, DocumentAssumption
<1>5. history.count \in Nat
  BY <1>1 DEF NoEdits
<1>6. ASSUME NEW a \in Occupied(source)
      PROVE  CellShaped(source.cells[a]) /\ source.cells[a].content.at = a
  <2> DEFINE cell == source.cells[a]
  <2>1. cell = [content |-> cell.content, style |-> a]
    BY <1>2
  <2>2. /\ cell.content = [at |-> a, reads |-> cell.content.reads, array |-> cell.content.array]
        /\ cell.content.array \in CellRange \union {None}
    BY <1>4
  <2>3. cell.content.at = a /\ cell.style = a
    BY <2>1, <2>2
  <2>4. QED
    BY <2>1, <2>2, <2>3 DEF CellShaped
<1>7. \A a \in ArrayAnchors(source) : ArrayHolds(source, source, a)
  BY <1>6 DEF ArrayHolds, ArrayAnchors
<1>8. SheetShaped(source)
  BY <1>2, <1>3, <1>6 DEF SheetShaped
<1>9. QED
  BY <1>1, <1>3, <1>5, <1>7, <1>8 DEF RangesInv, RangesHold

(* A cell edit leaves the merged ranges and every array formula but the    *)
(* one it replaces: Editable refuses the other cells of array ranges.      *)
LEMMA RangesCellEdit ==
  ASSUME RangesInv, NEW x \in Targets, SetCell(x) \/ ClearCell(x)
  PROVE  RangesInv'
<1>1. /\ SheetShaped(sheet) /\ MergesApart(sheet) /\ history.count \in Nat
      /\ \A a \in ArrayAnchors(sheet) : ArrayHolds(sheet, source, a)
      /\ ArraysStoredWhole(source) /\ RangesApart(source) => RangesApart(sheet)
  BY DEF RangesInv, RangesHold
<1>h. /\ Occupied(sheet) \subseteq Address
      /\ sheet = [cells |-> sheet.cells, merged |-> sheet.merged, rules |-> sheet.rules]
      /\ \A r \in sheet.merged : r \in CellRange /\ r.first # r.last
      /\ \A a \in Occupied(sheet) : CellShaped(sheet.cells[a])
  BY <1>1 DEF SheetShaped
<1>2. x \in Address
  BY SheetAssumption
<1>3. source' = source /\ history' = history
  BY DEF SetCell, ClearCell
<1>4. PICK cells : sheet' = [sheet EXCEPT !.cells = cells]
                   /\ \/ \E style : cells = WithCell(x, [content |-> Typed, style |-> style])
                      \/ cells = [b \in Occupied(sheet) \ {x} |-> sheet.cells[b]]
  <2>1. CASE SetCell(x)
    <3> DEFINE style == IF x \in Occupied(sheet) THEN sheet.cells[x].style ELSE None
    <3>1. sheet' = [sheet EXCEPT !.cells = WithCell(x, [content |-> Typed, style |-> style])]
      BY <2>1 DEF SetCell
    <3> HIDE DEF style
    <3>2. QED
      BY <3>1, Zenon
  <2>2. CASE ClearCell(x)
    BY <2>2, Zenon DEF ClearCell
  <2>3. QED
    BY <2>1, <2>2, Zenon
<1>5. /\ DOMAIN cells \subseteq Occupied(sheet) \union {x}
      /\ Occupied(sheet) \ {x} \subseteq DOMAIN cells
      /\ \A a \in DOMAIN cells \ {x} : a \in Occupied(sheet) /\ cells[a] = sheet.cells[a]
      /\ x \in DOMAIN cells => \E style : cells[x] = [content |-> Typed, style |-> style]
  BY <1>4, Zenon DEF WithCell
<1>s. /\ sheet'.merged = sheet.merged /\ sheet'.cells = cells
      /\ sheet' = [cells |-> sheet'.cells, merged |-> sheet'.merged, rules |-> sheet'.rules]
  BY <1>h, <1>4
<1>6. Occupied(sheet') = DOMAIN cells
  BY <1>s DEF Occupied
<1>7. Typed = [at |-> None, reads |-> None, array |-> None]
  BY DEF Typed
<1>8. \A b \in ArrayAnchors(sheet) \ {x} : ~HasCell(sheet.cells[b].content.array, x)
  BY DEF SetCell, ClearCell, Editable
<1>9. ASSUME NEW a \in Occupied(sheet')
      PROVE  /\ CellShaped(sheet'.cells[a])
             /\ a = x => sheet'.cells[a].content.array = None
             /\ a # x => a \in Occupied(sheet) /\ sheet'.cells[a] = sheet.cells[a]
  <2>1. CASE a = x
    BY <1>5, <1>6, <1>7, <1>9, <1>s, <2>1 DEF CellShaped
  <2>2. CASE a # x
    BY <1>5, <1>6, <1>9, <1>h, <1>s, <2>2
  <2>3. QED
    BY <2>1, <2>2
<1>10. ASSUME NEW a \in ArrayAnchors(sheet')
       PROVE  /\ a \in ArrayAnchors(sheet) /\ sheet'.cells[a] = sheet.cells[a]
              /\ ArrayHolds(sheet', source, a)
  <2>1. a \in Occupied(sheet') /\ sheet'.cells[a].content.array # None
    BY <1>10 DEF ArrayAnchors
  <2>2. a # x /\ a \in ArrayAnchors(sheet) /\ sheet'.cells[a] = sheet.cells[a]
    BY <1>9, <2>1 DEF ArrayAnchors
  <2> DEFINE r == sheet.cells[a].content.array
  <2>3. ArrayHolds(sheet, source, a) /\ ~HasCell(r, x) /\ r \in CellRange
    <3>1. CellShaped(sheet.cells[a]) /\ r # None
      BY <1>h, <2>2 DEF ArrayAnchors
    <3>2. r \in CellRange
      BY <3>1, Zenon DEF CellShaped
    <3>3. QED
      BY <1>1, <1>8, <2>2, <3>2, Zenon
  <2>4. ASSUME StoredWhole(sheet, a) PROVE StoredWhole(sheet', a)
    <3>1. r.first = a /\ r.last \in Occupied(sheet)
      BY <2>4 DEF StoredWhole
    <3> HIDE DEF r
    <3>2. HasCell(r, r.last)
      BY <2>3, RangeCells, GridAssumption DEF CellRange, Address
    <3>3. r.last # x
      BY <2>3, <3>2
    <3>4. r.last \in Occupied(sheet')
      BY <1>5, <1>6, <3>1, <3>3
    <3>5. QED
      BY <2>2, <3>1, <3>4 DEF StoredWhole, r
  <2>5. QED
    BY <2>2, <2>3, <2>4, Zenon DEF ArrayHolds
<1>11. ArrayRanges(sheet') \subseteq ArrayRanges(sheet)
  BY <1>10 DEF ArrayRanges
<1>12. SheetShaped(sheet')
  <2>1. Occupied(sheet') \subseteq Address
    BY <1>2, <1>5, <1>6, <1>h
  <2>2. QED
    BY <1>9, <1>h, <1>s, <2>1 DEF SheetShaped
<1>13. MergesApart(sheet') /\ (RangesApart(sheet) => RangesApart(sheet'))
  BY <1>1, <1>11, <1>s DEF MergesApart, RangesApart
<1>14. RangesHold(sheet', source)
  BY <1>1, <1>10, <1>12, <1>13 DEF RangesHold
<1>15. QED
  BY <1>1, <1>3, <1>14 DEF RangesInv

(* The range r of an edited sheet is x from before the edit, moved.        *)
MovedFrom(e, r, x) ==
  /\ x \in CellRange /\ r = MapRange(e, x, "reference") /\ r \in CellRange
  /\ KeepsRange(e, x) /\ (e.kind \in {"move", "range"} => ~Splits(e, x))

(* The cell at a is the one from was, with its array formula moved whole   *)
(* if the sheet has its last cell.                                         *)
CellMoves(s, e, a, was) ==
  LET old == s.cells[was]
      cell == MovedSheet(s, e).cells[a]
      r == old.content.array
      q == cell.content.array
  IN  /\ was \in Occupied(s) /\ MapAddress(e, was) = a /\ CellShaped(cell)
      /\ cell.content.at = old.content.at /\ cell.style = old.style
      /\ q = None <=> r = None
      /\ r # None /\ StoredWhole(s, was) =>
           /\ StaysWhole(e, r) /\ MovedFrom(e, q, r) /\ StoredWhole(MovedSheet(s, e), a)
           /\ Height(q) = Height(r) /\ Width(q) = Width(r)

(* A range that an accepted edit does not split is a range after it.       *)
LEMMA UnsplitRange ==
  ASSUME NEW e \in GridEdit, NEW x \in CellRange, e.kind \in {"move", "range"} => ~Splits(e, x),
         MapRange(e, x, "reference") # None
  PROVE  MapRange(e, x, "reference") \in CellRange
<1>1. CASE e \in LineEdit
  <2>1. e.kind = "move" => StaysWhole(e, x)
    BY DEF StaysWhole
  <2>2. QED
    BY <1>1, <2>1, MappedRange
<1>2. CASE e \in RangeMove
  <2>1. ~Splits(e, x)
    BY <1>2 DEF RangeMove
  <2>2. QED
    BY <1>2, <2>1, WholeRangeMoves
<1>3. QED
  BY <1>1, <1>2 DEF GridEdit

(* Every cell of an edited sheet is one from before the edit, moved.       *)
LEMMA MovedArrays ==
  ASSUME NEW e \in GridEdit, NEW s, SheetShaped(s), Accepts(s, e),
         NEW a \in Occupied(MovedSheet(s, e))
  PROVE  CellMoves(s, e, a, UnmapAddress(e, a))
<1> DEFINE new == MovedSheet(s, e)
           was == UnmapAddress(e, a)
           old == s.cells[was]
           cell == new.cells[a]
           r == old.content.array
           none == [x \in Address |-> "none"]
<1>1. /\ Occupied(s) \subseteq Address /\ \A x \in Occupied(s) : CellShaped(s.cells[x])
  BY DEF SheetShaped
<1>2. new.cells = MovedCells(s, e)
  BY DEF MovedSheet
<1>3. Occupied(new) = {MapAddress(e, b) : b \in Occupied(s)} \ {None}
  BY <1>2 DEF Occupied, MovedCells
<1>4. a \in Address
  BY <1>1, <1>3, AddressesAreReversible
<1>5. none \in [Address -> Mutation]
  BY DEF Mutation
<1>6. was # None /\ was \in Occupied(s) /\ cell = MovedCell(e, old, a)
  <2>1. DOMAIN s.cells \subseteq Address /\ a \in DOMAIN MovedCells(s, e)
    BY <1>1, <1>2 DEF Occupied
  <2>2. /\ a \in DOMAIN MovedCells(s, e) <=> was # None /\ was \in Occupied(s)
        /\ a \in DOMAIN MovedCells(s, e) => MovedCells(s, e)[a] = MovedCell(e, old, a)
    <3> HIDE DEF none
    <3>1. QED
      BY <1>4, <1>5, <2>1, MovedTo
  <2>3. QED
    BY <1>2, <2>1, <2>2
<1>7. was \in Address /\ MapAddress(e, was) = a /\ a # None
  BY <1>4, <1>6, AddressesAreReversible, GridAssumption
<1>8. /\ old.content = [at |-> old.content.at, reads |-> old.content.reads, array |-> r]
      /\ r \in CellRange \union {None}
  BY <1>1, <1>6, Zenon DEF CellShaped
<1> HIDE DEF new, was, old, cell, r
<1>9. /\ cell = [content |-> cell.content, style |-> old.style]
      /\ cell.content = [at |-> old.content.at, reads |-> Rewritten(e, old.content.reads),
                         array |-> MovedArray(e, r, a)]
  BY <1>6 DEF MovedCell, r
<1>10. /\ cell.content.array = MovedArray(e, r, a) /\ cell.content.at = old.content.at
       /\ cell.style = old.style
       /\ cell = [content |-> cell.content, style |-> cell.style]
       /\ cell.content = [at |-> cell.content.at, reads |-> cell.content.reads, array |-> cell.content.array]
  BY <1>9
<1> DEFINE q == cell.content.array
<1>m. q = MovedArray(e, r, a)
  BY <1>10
<1> HIDE DEF q
<1>11. CASE r = None
  <2>1. MovedArray(e, r, a) = None
    BY <1>11 DEF MovedArray
  <2>2. q = None /\ CellShaped(cell)
    BY <1>10, <1>m, <2>1 DEF CellShaped, q
  <2>3. QED
    BY <1>6, <1>7, <1>10, <1>11, <2>2, Zenon DEF CellMoves, new, was, old, cell, r, q
<1>12. CASE r # None
  <2>1. r \in CellRange
    BY <1>8, <1>12
  <2>2. r \in ArrayRanges(s)
    BY <1>6, <1>12 DEF ArrayRanges, ArrayAnchors, r, old
  <2>3. ~Splits(e, r)
    BY <2>2 DEF Accepts
  <2>4. q \in CellRange
    BY <1>m, <1>12, <2>1, <2>3, UnsplitRange DEF MovedArray
  <2>5. q # None /\ CellShaped(cell)
    BY <1>10, <2>4, GridAssumption DEF CellShaped, q
  <2>6. ASSUME StoredWhole(s, was)
        PROVE  /\ StaysWhole(e, r) /\ MovedFrom(e, q, r) /\ StoredWhole(new, a)
               /\ Height(q) = Height(r) /\ Width(q) = Width(r)
    <3>1. r.first = was /\ r.last \in Occupied(s)
      BY <2>6 DEF StoredWhole, r, old
    <3>2. StaysWhole(e, r)
      BY <2>3, <3>1 DEF Accepts, KeepsContent, StaysWhole
    <3> DEFINE p == MapRange(e, r, "reference")
    <3>3. /\ p \in CellRange /\ p.first = a /\ p.last = MapAddress(e, r.last)
          /\ Height(p) = Height(r) /\ Width(p) = Width(r) /\ MovedArray(e, r, a) = p
      BY <1>7, <2>1, <3>1, <3>2, WholeRanges
    <3> HIDE DEF p
    <3>4. q = p
      BY <1>m, <3>3
    <3>5. p.last \in Occupied(new)
      <4>1. p.last # None
        BY <3>3, GridAssumption DEF CellRange
      <4>2. QED
        BY <1>3, <3>1, <3>3, <4>1
    <3>6. KeepsRange(e, r)
      BY <1>7, <3>1 DEF KeepsRange
    <3>7. MovedFrom(e, p, r)
      BY <2>1, <2>3, <3>3, <3>6 DEF MovedFrom, p
    <3>8. StoredWhole(new, a)
      BY <3>3, <3>4, <3>5 DEF StoredWhole, q, cell
    <3>9. QED
      BY <3>2, <3>3, <3>4, <3>7, <3>8
  <2>7. QED
    BY <1>6, <1>7, <1>10, <1>12, <2>5, <2>6, Zenon DEF CellMoves, new, was, old, cell, r, q
<1>13. QED
  BY <1>11, <1>12

(* Every merged range of an edited sheet is one from before it, moved.     *)
LEMMA MergesMove ==
  ASSUME NEW e \in GridEdit, NEW s, SheetShaped(s), Accepts(s, e),
         NEW r \in MovedSheet(s, e).merged
  PROVE  \E x \in s.merged : MovedFrom(e, r, x)
<1>1. PICK x \in s.merged : ~Overwrites(e, x) /\ r = MapRange(e, x, "reference") /\ r # None
  BY DEF MovedSheet, MovedMerges
<1>2. x \in CellRange
  BY <1>1 DEF SheetShaped
<1>3. e.kind \in {"move", "range"} => ~Splits(e, x)
  BY <1>1 DEF Accepts
<1>4. r \in CellRange
  BY <1>1, <1>2, <1>3, UnsplitRange
<1>5. KeepsRange(e, x)
  BY <1>1 DEF KeepsRange
<1>6. QED
  BY <1>1, <1>2, <1>3, <1>4, <1>5 DEF MovedFrom

(* So is every range of a sheet that has the last cells of its arrays.     *)
LEMMA MovedRanges ==
  ASSUME NEW e \in GridEdit, NEW s, SheetShaped(s), ArraysStoredWhole(s), Accepts(s, e),
         NEW r \in MovedSheet(s, e).merged \union ArrayRanges(MovedSheet(s, e))
  PROVE  \E x \in s.merged \union ArrayRanges(s) : MovedFrom(e, r, x)
<1> DEFINE new == MovedSheet(s, e)
<1>1. CASE r \in new.merged
  BY <1>1, MergesMove
<1>2. CASE r \in ArrayRanges(new)
  <2>1. PICK a \in Occupied(new) : r = new.cells[a].content.array /\ r # None
    BY <1>2 DEF ArrayRanges, ArrayAnchors
  <2> DEFINE was == UnmapAddress(e, a)
             x == s.cells[was].content.array
  <2>2. CellMoves(s, e, a, was)
    BY <2>1, MovedArrays
  <2>3. was \in Occupied(s) /\ x # None
    BY <2>1, <2>2, Zenon DEF CellMoves
  <2>4. was \in ArrayAnchors(s) /\ x \in ArrayRanges(s)
    BY <2>3 DEF ArrayAnchors, ArrayRanges
  <2>5. StoredWhole(s, was)
    BY <2>4 DEF ArraysStoredWhole
  <2>6. MovedFrom(e, r, x)
    BY <2>1, <2>2, <2>3, <2>5, Zenon DEF CellMoves
  <2>7. QED
    BY <2>4, <2>6
<1>3. QED
  BY <1>1, <1>2

(* Ranges that have no cell in common have none after an edit.             *)
LEMMA MovedApart ==
  ASSUME NEW e \in GridEdit, NEW r, NEW q, NEW x, NEW y, MovedFrom(e, r, x), MovedFrom(e, q, y),
         Intersect(x, y) = None
  PROVE  Intersect(r, q) = None
<1>1. Apart(x, y)
  BY ApartIsDisjoint DEF MovedFrom
<1>2. r # None /\ q # None
  BY GridAssumption DEF MovedFrom
<1>3. Apart(r, q)
  BY <1>1, <1>2, KeptRangesStayApart DEF MovedFrom
<1>4. QED
  BY <1>3, ApartIsDisjoint DEF MovedFrom

(* An edited sheet has its shape.                                          *)
LEMMA EditedSheetShaped ==
  ASSUME NEW e \in GridEdit, NEW s, SheetShaped(s), Accepts(s, e)
  PROVE  SheetShaped(MovedSheet(s, e))
<1> DEFINE new == MovedSheet(s, e)
<1>1. new = [cells |-> new.cells, merged |-> new.merged, rules |-> new.rules]
  BY DEF MovedSheet
<1>2. Occupied(new) \subseteq Address
  <2>1. Occupied(new) = {MapAddress(e, b) : b \in Occupied(s)} \ {None}
    BY DEF MovedSheet, Occupied, MovedCells
  <2>2. Occupied(s) \subseteq Address
    BY DEF SheetShaped
  <2>3. QED
    BY <2>1, <2>2, AddressesAreReversible
<1>3. \A r \in new.merged : r.first # r.last
  BY DEF MovedSheet, MovedMerges
<1>4. \A r \in new.merged : r \in CellRange
  BY MergesMove DEF MovedFrom
<1>5. \A a \in Occupied(new) : CellShaped(new.cells[a])
  BY MovedArrays DEF CellMoves
<1> HIDE DEF new
<1>6. QED
  BY <1>1, <1>2, <1>3, <1>4, <1>5 DEF SheetShaped, new

(* A structural edit keeps the ranges apart and the arrays whole.          *)
LEMMA EditedRangesHold ==
  ASSUME NEW e \in GridEdit, NEW s, NEW src, RangesHold(s, src), Accepts(s, e)
  PROVE  RangesHold(MovedSheet(s, e), src)
<1> DEFINE new == MovedSheet(s, e)
<1>1. /\ SheetShaped(s) /\ MergesApart(s) /\ \A a \in ArrayAnchors(s) : ArrayHolds(s, src, a)
      /\ ArraysStoredWhole(src) /\ RangesApart(src) => RangesApart(s)
  BY DEF RangesHold
<1>2. SheetShaped(new)
  BY <1>1, EditedSheetShaped
<1>3. MergesApart(new)
  <2> SUFFICES ASSUME NEW r \in new.merged, NEW q \in new.merged, r # q
               PROVE  Intersect(r, q) = None
    BY DEF MergesApart
  <2>1. PICK x \in s.merged : MovedFrom(e, r, x)
    BY <1>1, MergesMove
  <2>2. PICK y \in s.merged : MovedFrom(e, q, y)
    BY <1>1, MergesMove
  <2>3. x # y
    BY <2>1, <2>2 DEF MovedFrom
  <2>4. QED
    BY <1>1, <2>1, <2>2, <2>3, MovedApart DEF MergesApart
<1>4. ASSUME NEW a \in ArrayAnchors(new) PROVE ArrayHolds(new, src, a)
  <2> DEFINE was == UnmapAddress(e, a)
             old == s.cells[was].content
             cell == new.cells[a].content
             read == src.cells[old.at].content.array
  <2>1. a \in Occupied(new) /\ cell.array # None
    BY <1>4 DEF ArrayAnchors
  <2>2. CellMoves(s, e, a, was)
    BY <1>1, <2>1, MovedArrays
  <2>3. was \in Occupied(s) /\ old.array # None /\ cell.at = old.at
    BY <2>1, <2>2, Zenon DEF CellMoves
  <2>4. was \in ArrayAnchors(s)
    BY <2>3 DEF ArrayAnchors
  <2>5. /\ old.at \in ArrayAnchors(src)
        /\ StoredWhole(src, old.at) =>
             StoredWhole(s, was) /\ Height(old.array) = Height(read) /\ Width(old.array) = Width(read)
    BY <1>1, <2>4, Zenon DEF ArrayHolds
  <2>6. StoredWhole(s, was) =>
          StoredWhole(new, a) /\ Height(cell.array) = Height(old.array) /\ Width(cell.array) = Width(old.array)
    BY <2>2, <2>3, Zenon DEF CellMoves
  <2> HIDE DEF was, new
  <2>7. QED
    BY <2>3, <2>5, <2>6 DEF ArrayHolds
<1>5. ASSUME ArraysStoredWhole(src), RangesApart(src) PROVE RangesApart(new)
  <2>1. RangesApart(s)
    BY <1>1, <1>5
  <2>2. ArraysStoredWhole(s)
    BY <1>1, <1>5, Zenon DEF ArraysStoredWhole, ArrayHolds
  <2> SUFFICES ASSUME NEW r \in new.merged \union ArrayRanges(new),
                      NEW q \in new.merged \union ArrayRanges(new), r # q
               PROVE  Intersect(r, q) = None
    BY DEF RangesApart
  <2>3. PICK x \in s.merged \union ArrayRanges(s) : MovedFrom(e, r, x)
    BY <1>1, <2>2, MovedRanges
  <2>4. PICK y \in s.merged \union ArrayRanges(s) : MovedFrom(e, q, y)
    BY <1>1, <2>2, MovedRanges
  <2>5. x # y
    BY <2>3, <2>4 DEF MovedFrom
  <2>6. QED
    BY <2>1, <2>3, <2>4, <2>5, MovedApart DEF RangesApart
<1> HIDE DEF new
<1>6. QED
  BY <1>2, <1>3, <1>4, <1>5 DEF RangesHold, new

(* So does every step.                                                     *)
LEMMA RangesStep == RangesInv /\ [GridNext]_gridVars => RangesInv'
<1> SUFFICES ASSUME RangesInv, [GridNext]_gridVars PROVE RangesInv'
  OBVIOUS
<1>1. ASSUME NEW e \in Edits, EditGrid(e) PROVE RangesInv'
  <2>1. /\ Accepts(sheet, e) /\ sheet' = MovedSheet(sheet, e) /\ source' = source
        /\ history'.count = history.count + 1
    BY <1>1 DEF EditGrid, Push
  <2>2. e \in GridEdit
    BY SheetAssumption
  <2>3. RangesHold(sheet', source')
    BY <2>1, <2>2, EditedRangesHold DEF RangesInv
  <2>4. QED
    BY <2>1, <2>3 DEF RangesInv
<1>2. ASSUME NEW a \in Targets, SetCell(a) \/ ClearCell(a) PROVE RangesInv'
  BY <1>2, RangesCellEdit
<1>3. CASE UNCHANGED gridVars
  BY <1>3 DEF gridVars, RangesInv
<1>4. QED
  BY <1>1, <1>2, <1>3 DEF GridNext

(***************************************************************************)
(* For sheets of every size and every document the reader accepts:         *)
(* whatever edits are made, no two merged ranges ever share a cell, an     *)
(* array formula read with its last cell stays in the first cell of a      *)
(* range of its size, and if all were, no array formula comes to share a   *)
(* cell with another range (validate_sheet with splits, map_range,         *)
(* grid_metadata).                                                         *)
(***************************************************************************)
THEOREM RangesStayWhole == GridSpec => []MergedAndArrayRangesStayWhole
<1>1. RangesInv => MergedAndArrayRangesStayWhole
  <2> SUFFICES ASSUME RangesInv PROVE MergedAndArrayRangesStayWhole
    OBVIOUS
  <2>1. ASSUME NEW a \in ArrayAnchors(sheet), StoredWhole(source, sheet.cells[a].content.at)
        PROVE  KeepsExtent(a)
    BY <2>1, Zenon DEF RangesInv, RangesHold, ArrayHolds, StoredWhole, KeepsExtent
  <2>2. QED
    BY <2>1, Zenon DEF RangesInv, RangesHold, MergedAndArrayRangesStayWhole
<1>2. QED
  BY RangesInit, RangesStep, <1>1, PTL DEF GridSpec

-----------------------------------------------------------------------------
(* The inverse of a line edit takes a cell that is left back to its place. *)
LEMMA InverseAddresses ==
  ASSUME NEW e \in LineEdit, NEW a \in Address, MapAddress(e, a) # None
  PROVE  /\ MapAddress(e, a) \in Address
         /\ MapAddress(InverseEdit(e), MapAddress(e, a)) = a
         /\ UnmapAddress(InverseEdit(e), a) = MapAddress(e, a)
<1> DEFINE i == InverseEdit(e)
           v == Coordinate(e.axis, a)
           w == MapLine(e, v)
<1>1. e.axis \in Axis /\ e.kind # "range"
  BY LineEditCases DEF Insertion, Deletion, LineMove
<1>2. i \in LineEdit /\ i.axis = e.axis
  BY InverseIsLineEdit
<1>3. i.kind # "range"
  BY <1>2, LineEditCases DEF Insertion, Deletion, LineMove
<1>4. v \in Line(e.axis)
  BY <1>1, AxisMaxType, Coordinates DEF Line
<1>5. w # None /\ MapAddress(e, a) = WithCoordinate(e.axis, a, w)
  BY <1>1 DEF MapAddress
<1>6. w \in Line(e.axis) /\ MapLine(i, w) = v
  BY <1>4, <1>5, LineEditsAreReversible
<1> HIDE DEF i, v, w
<1>7. /\ WithCoordinate(e.axis, a, w) \in Address
      /\ Coordinate(e.axis, WithCoordinate(e.axis, a, w)) = w
      /\ WithCoordinate(e.axis, WithCoordinate(e.axis, a, w), v) = WithCoordinate(e.axis, a, v)
      /\ WithCoordinate(e.axis, a, v) = a
  BY <1>1, <1>4, <1>6, Coordinates DEF v
<1>8. v # None
  BY <1>1, <1>4, AxisMaxType, GridAssumption DEF Line
<1>9. MapAddress(i, MapAddress(e, a)) = a
  BY <1>2, <1>3, <1>5, <1>6, <1>7, <1>8 DEF MapAddress
<1>10. a # None
  BY GridAssumption
<1>11. UnmapAddress(i, a) = MapAddress(e, a)
  BY <1>2, <1>5, <1>7, <1>9, <1>10, LineEditAddresses
<1>12. QED
  BY <1>5, <1>7, <1>9, <1>11 DEF i

(* A deletion leaves the last lines of the sheet empty: as many as it      *)
(* deletes.  A range over the whole axis is the exception.                 *)
LEMMA DeletionMakesRoom ==
  ASSUME NEW axis \in Axis, NEW e \in Deletion(axis)
  PROVE  LET kept == AxisMax(axis) - (e.last - e.first + 1) IN
         /\ \A v \in Line(axis) : MapLine(e, v) # None => MapLine(e, v) <= kept
         /\ \A start, end \in Line(axis) :
              LET lines == MapInterval(e, start, end, "reference") IN
              ~WholeAxis(axis, start, end) /\ lines # None => lines[2] <= kept
<1>1. AxisMax(axis) \in Nat
  BY AxisMaxType
<1>2. /\ e.kind = "delete" /\ e.axis = axis /\ e.first \in Line(axis) /\ e.last \in Line(axis)
      /\ e.first <= e.last
  BY DEF Deletion
<1> DEFINE kept == AxisMax(axis) - (e.last - e.first + 1)
<1>3. ASSUME NEW v \in Line(axis), MapLine(e, v) # None PROVE MapLine(e, v) <= kept
  <2>1. MapLine(e, v) = DeletedLine(e, v)
    BY <1>2 DEF MapLine
  <2>2. QED
    BY <1>1, <1>2, <1>3, <2>1 DEF DeletedLine, Line
<1>4. ASSUME NEW start \in Line(axis), NEW end \in Line(axis), ~WholeAxis(axis, start, end),
             MapInterval(e, start, end, "reference") # None
      PROVE  MapInterval(e, start, end, "reference")[2] <= kept
  <2>1. MapInterval(e, start, end, "reference") = DeletedInterval(e, start, end)
    BY <1>2, <1>4 DEF MapInterval
  <2>2. DeletedInterval(e, start, end)[2] =
          IF end < e.first THEN end ELSE IF end <= e.last THEN e.first - 1 ELSE end - (e.last - e.first + 1)
    BY <1>4, <2>1 DEF DeletedInterval
  <2>3. QED
    BY <1>1, <1>2, <2>1, <2>2 DEF Line
<1>5. QED
  BY <1>3, <1>4

(* The edit that undoes a line edit is accepted: what it would split, the  *)
(* edit itself would have split.                                           *)
LEMMA InverseIsAccepted ==
  ASSUME NEW e \in LineEdit, NEW s, SheetShaped(s), ArraysStoredWhole(s), Accepts(s, e),
         NoMergeSpans(MovedSheet(s, e), e.axis)
  PROVE  Accepts(MovedSheet(s, e), InverseEdit(e))
<1> DEFINE new == MovedSheet(s, e)
           i == InverseEdit(e)
<1>1. e \in GridEdit /\ e.axis \in Axis
  BY LineEditCases DEF GridEdit
<1>2. /\ e.kind \in {"insert", "delete", "move"}
      /\ i.kind = "insert" <=> e.kind = "delete"
      /\ i.kind \in {"move", "range"} <=> e.kind = "move"
  <2>1. e.kind \in {"insert", "delete", "move"}
    BY LineEditCases DEF Insertion, Deletion, LineMove
  <2>2. QED
    BY <2>1 DEF InverseEdit
<1>3. i \in LineEdit /\ i.axis = e.axis
  BY InverseIsLineEdit
<1>4. ASSUME NEW r \in ArrayRanges(new) PROVE ~Splits(i, r)
  <2>1. PICK a \in Occupied(new) : r = new.cells[a].content.array /\ r # None
    BY <1>4 DEF ArrayRanges, ArrayAnchors
  <2> DEFINE was == UnmapAddress(e, a)
             x == s.cells[was].content.array
  <2>m. CellMoves(s, e, a, was)
    BY <1>1, <2>1, MovedArrays
  <2>w. was \in Occupied(s) /\ MapAddress(e, was) = a /\ x # None
    BY <2>1, <2>m, Zenon DEF CellMoves
  <2>s. StoredWhole(s, was)
    BY <2>w DEF ArraysStoredWhole, ArrayAnchors
  <2>2. StaysWhole(e, x) /\ MovedFrom(e, r, x)
    BY <2>1, <2>m, <2>s, <2>w, Zenon DEF CellMoves
  <2>3. x \in CellRange /\ r = MapRange(e, x, "reference")
    BY <2>2 DEF MovedFrom
  <2>4. x.first = was
    BY <2>s DEF StoredWhole
  <2>5. a # None
    BY <1>1, <2>1, EditedSheetShaped, GridAssumption DEF SheetShaped
  <2> HIDE DEF was, x
  <2>6. QED
    BY <2>2, <2>3, <2>4, <2>5, <2>w, WholeRangeLines DEF StaysWhole
<1>5. ASSUME NEW r \in new.merged
      PROVE  \E x \in s.merged : x \in CellRange /\ r = MapRange(e, x, "reference") /\ r # None
  BY DEF MovedSheet, MovedMerges, SheetShaped
<1>6. ASSUME e.kind = "move", NEW r \in new.merged PROVE ~Splits(i, r)
  <2>1. PICK x \in s.merged : x \in CellRange /\ r = MapRange(e, x, "reference") /\ r # None
    BY <1>5, <1>6
  <2>2. StaysWhole(e, x)
    BY <1>6, <2>1 DEF Accepts, StaysWhole
  <2>3. MapAddress(e, x.first) # None
    <3>1. e \in LineMove(e.axis)
      BY <1>6, LineEditCases DEF Insertion, Deletion
    <3>2. x.first \in Address
      BY <2>1 DEF CellRange
    <3>3. Coordinate(e.axis, x.first) \in Line(e.axis)
      BY <1>1, <3>2, AxisMaxType, Coordinates DEF Line
    <3>4. MapLine(e, Coordinate(e.axis, x.first)) \in Line(e.axis)
      BY <1>1, <3>1, <3>3, MoveLines, Zenon
    <3>5. WithCoordinate(e.axis, x.first, MapLine(e, Coordinate(e.axis, x.first))) \in Address
      BY <1>1, <3>2, <3>4, Coordinates
    <3>6. MapLine(e, Coordinate(e.axis, x.first)) # None
      BY <1>1, <3>4, AxisMaxType, GridAssumption DEF Line
    <3>7. QED
      BY <1>6, <3>5, <3>6, GridAssumption DEF MapAddress
  <2>4. QED
    BY <2>1, <2>2, <2>3, WholeRangeLines DEF StaysWhole
<1>7. ASSUME e.kind = "delete" PROVE KeepsContent(new, i)
  <2>1. e \in Deletion(e.axis)
    BY <1>7, LineEditCases DEF Insertion, LineMove
  <2>2. i.count = e.last - e.first + 1
    BY <1>7 DEF InverseEdit
  <2> DEFINE kept == AxisMax(e.axis) - (e.last - e.first + 1)
  <2>3. ASSUME NEW a \in Occupied(new) PROVE Coordinate(e.axis, a) <= kept
    <3> DEFINE was == UnmapAddress(e, a)
               v == Coordinate(e.axis, was)
    <3>1. was \in Occupied(s) /\ MapAddress(e, was) = a
      BY <1>1, MovedArrays DEF CellMoves
    <3>2. was \in Address /\ a \in Address
      BY <1>1, <3>1, EditedSheetShaped DEF SheetShaped
    <3>3. a # None
      BY <3>2, GridAssumption
    <3> HIDE DEF was
    <3>4. v \in Line(e.axis)
      BY <1>1, <3>2, AxisMaxType, Coordinates DEF Line
    <3>5. MapLine(e, v) # None /\ a = WithCoordinate(e.axis, was, MapLine(e, v))
      BY <1>7, <3>1, <3>3 DEF MapAddress
    <3>6. MapLine(e, v) \in Line(e.axis)
      BY <3>4, <3>5, LineEditsAreReversible
    <3>7. Coordinate(e.axis, a) = MapLine(e, v)
      BY <1>1, <3>2, <3>5, <3>6, Coordinates
    <3>8. QED
      BY <1>1, <2>1, <3>4, <3>5, <3>7, DeletionMakesRoom
  <2>4. ASSUME NEW r \in new.merged PROVE Coordinate(e.axis, r.last) <= kept
    <3>1. PICK x \in s.merged : x \in CellRange /\ r = MapRange(e, x, "reference") /\ r # None
      BY <1>5, <2>4
    <3> DEFINE start == Coordinate(e.axis, x.first)
               end == Coordinate(e.axis, x.last)
               lines == MapInterval(e, start, end, "reference")
    <3>2. /\ lines # None /\ Coordinate(e.axis, r.first) = lines[1] /\ Coordinate(e.axis, r.last) = lines[2]
      BY <1>7, <3>1, MappedRange
    <3>3. start \in Line(e.axis) /\ end \in Line(e.axis)
      <4>1. x.first \in Address /\ x.last \in Address
        BY <3>1 DEF CellRange
      <4>2. QED
        BY <1>1, <4>1, AxisMaxType, Coordinates DEF Line
    <3>4. ~WholeAxis(e.axis, start, end)
      <4>1. ~WholeAxis(e.axis, lines[1], lines[2])
        BY <2>4, <3>2 DEF NoMergeSpans, Span
      <4>2. SUFFICES ASSUME WholeAxis(e.axis, start, end) PROVE FALSE
        OBVIOUS
      <4>3. lines = <<start, end>>
        BY <4>2 DEF MapInterval
      <4>4. lines[1] = start /\ lines[2] = end
        BY <4>3
      <4>5. QED
        BY <4>1, <4>2, <4>4
    <3> HIDE DEF start, end
    <3>5. lines[2] <= kept
      BY <1>1, <2>1, <3>2, <3>3, <3>4, DeletionMakesRoom
    <3>6. QED
      BY <3>2, <3>5
  <2>5. QED
    BY <1>3, <2>2, <2>3, <2>4 DEF KeepsContent
<1>8. QED
  BY <1>2, <1>4, <1>6, <1>7 DEF Accepts

(* What the inverse of a line edit makes of the edited sheet.              *)
LEMMA UndoneCells ==
  ASSUME NEW e \in LineEdit, NEW s, SheetShaped(s), ArraysStoredWhole(s), Accepts(s, e),
         Accepts(MovedSheet(s, e), InverseEdit(e))
  PROVE  LET undone == MovedCells(MovedSheet(s, e), InverseEdit(e)) IN
         /\ DOMAIN undone = {a \in Occupied(s) : MapAddress(e, a) # None}
         /\ \A a \in DOMAIN undone :
              /\ undone[a].content.at = s.cells[a].content.at
              /\ undone[a].content.array = s.cells[a].content.array
              /\ undone[a].style = s.cells[a].style
<1> DEFINE new == MovedSheet(s, e)
           i == InverseEdit(e)
           undone == MovedCells(new, i)
<1>1. e \in GridEdit /\ i \in GridEdit /\ i \in LineEdit
  BY InverseIsLineEdit DEF GridEdit
<1>2. SheetShaped(new) /\ Occupied(s) \subseteq Address
  BY <1>1, EditedSheetShaped DEF SheetShaped
<1>3. /\ Occupied(new) = {MapAddress(e, b) : b \in Occupied(s)} \ {None}
      /\ DOMAIN undone = {MapAddress(i, b) : b \in Occupied(new)} \ {None}
  BY DEF MovedSheet, Occupied, MovedCells
<1>4. MovedSheet(new, i).cells = undone /\ Occupied(MovedSheet(new, i)) = DOMAIN undone
  BY DEF MovedSheet, Occupied
<1>5. Accepts(new, i)
  OBVIOUS
<1> HIDE DEF new, i, undone
<1>6. \A a \in Occupied(s) : MapAddress(e, a) # None =>
        /\ MapAddress(e, a) \in Occupied(new) /\ a # None
        /\ MapAddress(i, MapAddress(e, a)) = a /\ UnmapAddress(i, a) = MapAddress(e, a)
  BY <1>2, <1>3, InverseAddresses, GridAssumption DEF i
<1>7. DOMAIN undone = {a \in Occupied(s) : MapAddress(e, a) # None}
  BY <1>3, <1>6
<1>8. ASSUME NEW a \in DOMAIN undone
      PROVE  /\ undone[a].content.at = s.cells[a].content.at
             /\ undone[a].content.array = s.cells[a].content.array
             /\ undone[a].style = s.cells[a].style
  <2> DEFINE b == MapAddress(e, a)
             r == s.cells[a].content.array
             q == new.cells[b].content.array
             p == undone[a].content.array
  <2>1. /\ a \in Occupied(s) /\ b # None /\ b \in Occupied(new) /\ a \in Address
        /\ UnmapAddress(i, a) = b /\ UnmapAddress(e, b) = a
    BY <1>1, <1>2, <1>6, <1>7, <1>8, LineEditAddresses
  <2>m. CellMoves(s, e, b, a) /\ CellMoves(new, i, a, b)
    <3> HIDE DEF b
    <3>1. CellMoves(s, e, b, UnmapAddress(e, b))
      BY <1>1, <2>1, MovedArrays DEF new
    <3>2. CellMoves(new, i, a, UnmapAddress(i, a))
      BY <1>1, <1>2, <1>4, <1>5, <1>8, MovedArrays
    <3>3. QED
      BY <2>1, <3>1, <3>2
  <2>2. /\ new.cells[b].content.at = s.cells[a].content.at /\ new.cells[b].style = s.cells[a].style
        /\ q = None <=> r = None
    BY <2>m, Zenon DEF CellMoves, new
  <2>3. /\ undone[a].content.at = new.cells[b].content.at /\ undone[a].style = new.cells[b].style
        /\ p = None <=> q = None
    BY <1>4, <2>m, Zenon DEF CellMoves
  <2>4. CASE r = None
    BY <2>2, <2>3, <2>4
  <2>5. CASE r # None
    <3>s. StoredWhole(s, a)
      BY <2>1, <2>5 DEF ArraysStoredWhole, ArrayAnchors
    <3>t. StaysWhole(e, r) /\ MovedFrom(e, q, r) /\ StoredWhole(new, b)
      BY <2>5, <2>m, <3>s, Zenon DEF CellMoves, new
    <3>u. StaysWhole(i, q) /\ MovedFrom(i, p, q)
      BY <1>4, <2>2, <2>5, <2>m, <3>t, Zenon DEF CellMoves
    <3>1. /\ q = MapRange(e, r, "reference") /\ p = MapRange(i, q, "reference")
          /\ r \in CellRange /\ q \in CellRange /\ p \in CellRange
          /\ StaysWhole(e, r) /\ StaysWhole(i, q)
      BY <3>t, <3>u, Zenon DEF MovedFrom
    <3>2. r.first = a
      BY <3>s DEF StoredWhole
    <3> HIDE DEF b, r, q, p
    <3>3. q.first = b /\ q.last = MapAddress(e, r.last)
      BY <2>1, <3>1, <3>2, WholeRangeLines DEF b
    <3>4. b \in Address /\ MapAddress(i, b) = a /\ a # None
      BY <2>1, InverseAddresses, GridAssumption DEF b, i
    <3>5. p.first = a /\ p.last = MapAddress(i, q.last)
      BY <1>1, <3>1, <3>3, <3>4, WholeRangeLines
    <3>6. p.last = r.last
      <4>1. r.last \in Address /\ q.last \in Address
        BY <3>1 DEF CellRange
      <4>2. QED
        BY <3>3, <3>5, <4>1, InverseAddresses, GridAssumption DEF i
    <3>7. p = r
      BY <3>1, <3>2, <3>5, <3>6 DEF CellRange
    <3>8. QED
      BY <2>2, <2>3, <3>7 DEF p, r, b
  <2>6. QED
    BY <2>4, <2>5
<1>9. QED
  BY <1>7, <1>8 DEF undone, new, i

(***************************************************************************)
(* For sheets of every size: the inverse of an insertion, a deletion or a  *)
(* move of lines is accepted right after it (GridEdit::inverse with        *)
(* validate_sheet) and puts every cell that is left back in its place,     *)
(* with its style and its array range, unless a merged range spans the     *)
(* axis or the last cell of an array formula is not stored.                *)
(***************************************************************************)
THEOREM LineEditsAreUndone == GridSpec => LineEditsCanBeUndone
<1>1. ASSUME RangesInv, [GridNext]_gridVars, Edited, LastEdit.kind # "range",
             NoMergeSpans(sheet', LastEdit.axis), ArraysStoredWhole(sheet)
      PROVE  UndoPutsCellsBack(LastEdit)
  <2>1. history' # history
    BY <1>1 DEF Edited, RangesInv
  <2>2. PICK e \in Edits : EditGrid(e)
    BY <1>1, <2>1, Zenon DEF GridNext, SetCell, ClearCell, gridVars
  <2>3. /\ LastEdit = e /\ sheet' = MovedSheet(sheet, e) /\ Accepts(sheet, e)
    BY <2>2 DEF EditGrid, LastEdit, Push
  <2>4. e \in LineEdit
    BY <1>1, <2>3, SheetAssumption DEF GridEdit, RangeMove
  <2>5. SheetShaped(sheet)
    BY <1>1 DEF RangesInv, RangesHold
  <2>6. Accepts(sheet', InverseEdit(e))
    BY <1>1, <2>3, <2>4, <2>5, InverseIsAccepted
  <2> DEFINE undone == MovedCells(sheet', InverseEdit(e))
  <2>7. /\ DOMAIN undone = {a \in Occupied(sheet) : MapAddress(e, a) # None}
        /\ \A a \in DOMAIN undone :
             /\ undone[a].content.at = sheet.cells[a].content.at
             /\ undone[a].content.array = sheet.cells[a].content.array
             /\ undone[a].style = sheet.cells[a].style
    BY <1>1, <2>3, <2>4, <2>5, <2>6, UndoneCells, Zenon
  <2>8. UndoPutsCellsBack(e)
    BY <2>6, <2>7, Zenon DEF UndoPutsCellsBack
  <2>9. QED
    BY <2>3, <2>8
<1>2. QED
  BY <1>1, RangesInit, RangesStep, PTL DEF GridSpec, LineEditsCanBeUndone
==============================================================================
