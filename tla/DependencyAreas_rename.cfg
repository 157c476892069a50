SPECIFICATION AreaSpec
CONSTANTS
  SheetCount = 2
  LastRow = 4
  LastColumn = 2
  LeafMembers = 1
  MaxEdges = 18
  Books <- MCBooks
  FormulaEdits <- MCFormulaEdits
  SheetEdits <- RenamedAndMoved
  MaxBatches = 1
INVARIANTS GraphFollowsFormulas
CHECK_DEADLOCK FALSE
