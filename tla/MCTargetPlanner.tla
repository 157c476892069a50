-------------------------- MODULE MCTargetPlanner --------------------------
(* All workbooks of three formulas with fixed references, and those where  *)
(* the third also selects a formula or reads one unannounced.              *)
EXTENDS TargetPlanner

NoPairs == [f \in FormulaCells |-> {}]

Fixed == [reads : [FormulaCells -> SUBSET FormulaCells], later : {NoPairs}, hidden : {NoPairs}]

Selecting ==
  {w \in [reads : [FormulaCells -> SUBSET FormulaCells],
          later : {NoPairs, [NoPairs EXCEPT ![3] = {<<1, 2>>}]},
          hidden : {NoPairs, [NoPairs EXCEPT ![2] = {3}], [NoPairs EXCEPT ![3] = {2}]}] :
     1 \in w.reads[3]}

MCRequests ==
  [workbook : Fixed, targets : {{3}, {1, 2, 3}}, maxCells : {4}, maxReads : {9}]
    \union [workbook : Selecting, targets : {{3}, {1, 2, 3}}, maxCells : {2, 3},
            maxReads : {2, 9}]
=============================================================================
