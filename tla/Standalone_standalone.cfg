CONSTANTS
  w1 = w1 w2 = w2 w3 = w3
  Writer = {w1, w2, w3}
  Scenario <- UniformScenarios
  MaxLosses = 1
  Old = Old
  NoFile = NoFile
  None = None
  MaxRow = 4
  MaxColumn = 2
  Sheets <- MCSheets
  Edits <- MCEdits
  Targets <- MCTargets
  MaxEdits = 2
  MaxWrites = 1
  SheetCount = 2
  LastRow = 4
  LastColumn = 2
  LeafMembers = 1
  MaxEdges = 18
  Books <- MCBooks
  FormulaEdits <- MCFormulaEdits
  SheetEdits <- MCSheetEdits
  MaxBatches = 3
  FormulaCount = 3
  AreaCount = 2
  Graphs <- MCGraphs
  FormulaCells = {1, 2, 3}
  Requests <- MCRequests
SPECIFICATION StandaloneSpec
INVARIANTS StandaloneTypeOK DestinationIsWhole SavedOutlivesPowerLoss
INVARIANTS WriterReproducesSheet ReferencesKeepTheirCells MergedAndArrayRangesStayWhole
INVARIANTS GraphFollowsFormulas RememberedAreasHold
INVARIANTS OrderFollowsWaits FormulasAreClassified
INVARIANTS TargetsAgreeWithFullCalculation InputsComeFirst
PROPERTIES ImplementsSavedFile LineEditsCanBeUndone PartialRulesFollowTheirCells
PROPERTIES EdgesAreThoseOfFullCompilation OrderIgnoresAreas
CHECK_DEADLOCK FALSE
