----------------------------- MODULE MCSheetGrid -----------------------------
(* Worksheets of four rows and two columns.                                *)
EXTENDS SheetGrid

Source(a, reads, array) == [content |-> [at |-> a, reads |-> reads, array |-> array], style |-> a]

Pos(row, column) == [row |-> row, column |-> column]

(* Plain values, a formula that reads a range, an array formula.           *)
SheetOf(values, formula, reads, array, merged, rules) ==
  [cells |-> [a \in values \union {formula} \union (IF array = None THEN {} ELSE {array.first}) |->
     IF a = formula THEN Source(a, reads, None)
     ELSE IF array # None /\ a = array.first THEN Source(a, None, array)
     ELSE Source(a, None, None)],
   merged |-> merged, rules |-> rules]

MCSheets ==
  { SheetOf({Pos(1, 1), Pos(2, 2)}, Pos(1, 2), Piece(1, 1, 3, 1), None, {Piece(2, 1, 3, 1)},
            {[ranges |-> <<Piece(1, 1, 2, 1), Piece(3, 2, 3, 2)>>, reads |-> Pos(1, 2)]}),
    SheetOf({Pos(2, 1)}, Pos(3, 2), Piece(2, 1, 2, 1), Piece(1, 1, 2, 1), {Piece(1, 2, 2, 2)},
            {[ranges |-> <<Piece(2, 2, 3, 2)>>, reads |-> Pos(2, 1)]}),
    SheetOf({Pos(2, 1)}, Pos(1, 1), Piece(1, 2, 2, 2), Piece(2, 2, 3, 2), {}, {}) }

(* An array formula of which only the anchor is stored.                    *)
MCAnchorSheets == { SheetOf({}, Pos(1, 1), None, Piece(2, 2, 3, 2), {}, {}) }

(* A validation of a whole column.                                         *)
MCColumnSheets ==
  { SheetOf({Pos(1, 1)}, Pos(1, 2), Piece(2, 1, 2, 1), None, {},
            {[ranges |-> <<Piece(1, 1, 4, 1)>>, reads |-> Pos(1, 2)]}) }

SmallEdit(e) ==
  CASE e.kind = "insert" -> e.count <= 2
    [] e.kind = "delete" -> e.last - e.first <= 1
    [] e.kind = "move"   -> e.last - e.first <= 1 /\ e.destination # e.first
    [] e.kind = "range"  -> /\ e.destination # e.source.first
                            /\ Height(e.source) <= 2

MCEdits == {e \in GridEdit : SmallEdit(e)}

MCRowEdits == {e \in MCEdits : RowEdit(e)}

MCTargets == {Pos(1, 1), Pos(2, 2)}
=============================================================================
