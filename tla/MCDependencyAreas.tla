------------------------- MODULE MCDependencyAreas -------------------------
(***************************************************************************)
(* Instances of DependencyAreas: two sheets of four rows and two columns,  *)
(* with ranges that share blocks, an array formula, a formula that names   *)
(* the other sheet and one that names a sheet there is not (yet).          *)
(***************************************************************************)
EXTENDS DependencyAreas

Rect(top, left, bottom, right) == [top |-> top, left |-> left, bottom |-> bottom, right |-> right]

Ref(sheet, r) == [sheet |-> sheet] @@ r

Text(refs) == [parsed |-> TRUE, refs |-> refs, array |-> {}]

Broken == [parsed |-> FALSE, refs |-> <<>>, array |-> {}]

ArrayText(r) == [parsed |-> TRUE, refs |-> <<Ref("own", Rect(1, 1, 1, 1))>>, array |-> {r}]

ColumnTo(row) == Rect(1, 1, row, 1)

MCBooks ==
  {[names |-> <<"A", "B">>,
    formulas |-> (<<1, 1, 1>> :> Text(<<>>)) @@ (<<1, 2, 1>> :> Text(<<>>))
                 @@ (<<1, 3, 2>> :> Text(<<Ref("own", ColumnTo(3))>>))
                 @@ (<<1, 4, 2>> :> Text(<<Ref("own", ColumnTo(4)), Ref("B", ColumnTo(4))>>))
                 @@ (<<2, 1, 1>> :> Text(<<Ref("A", ColumnTo(2))>>))
                 @@ (<<2, 2, 1>> :> ArrayText(Rect(2, 1, 3, 1)))
                 @@ (<<2, 4, 1>> :> Text(<<Ref("own", ColumnTo(3))>>))
                 @@ (<<2, 3, 2>> :> Text(<<Ref("C", ColumnTo(2))>>))]}

Edit(cell, text) == [cell |-> cell, text |-> text]

MCFormulaEdits ==
  {Edit(<<1, 2, 1>>, {}), Edit(<<1, 2, 1>>, {Broken}), Edit(<<1, 3, 1>>, {Text(<<>>)}),
   Edit(<<1, 3, 2>>, {}), Edit(<<1, 3, 2>>, {Text(<<Ref("own", ColumnTo(4))>>)}),
   Edit(<<1, 4, 2>>, {Text(<<Ref("own", Rect(3, 1, 4, 2))>>)}),
   Edit(<<2, 2, 1>>, {}), Edit(<<2, 3, 2>>, {Text(<<Ref("A", Rect(1, 1, 3, 2))>>)})}

Change(to, named) == [to |-> to, named |-> named]

Deletions == {Change(<<1, 0>>, 2 :> "C"), Change(<<0, 1>>, 2 :> "C")}

Renames == {Change(<<1, 2>>, 1 :> "C"), Change(<<1, 2>>, 2 :> "C")}

(* Batches that rename a sheet, or move, or delete and add sheets ...      *)
MCSheetEdits == {Change(<<2, 1>>, <<>>)} \union Deletions \union Renames

(* ... or rename one sheet and move it in front of the other.              *)
RenamedAndMoved == {Change(<<2, 1>>, 1 :> "C")}
=============================================================================
