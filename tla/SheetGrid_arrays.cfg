CONSTANTS
  None = None
  MaxRow = 4
  MaxColumn = 2
  Sheets <- MCAnchorSheets
  Edits <- MCRowEdits
  Targets <- MCTargets
  MaxEdits = 1
  MaxWrites = 0
SPECIFICATION GridSpec
INVARIANTS ArrayFormulasStayWhole
CHECK_DEADLOCK FALSE
