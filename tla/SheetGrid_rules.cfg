CONSTANTS
  None = None
  MaxRow = 4
  MaxColumn = 2
  Sheets <- MCColumnSheets
  Edits <- MCRowEdits
  Targets <- MCTargets
  MaxEdits = 1
  MaxWrites = 0
SPECIFICATION GridSpec
PROPERTIES RulesFollowTheirCells
CHECK_DEADLOCK FALSE
