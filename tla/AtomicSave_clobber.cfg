CONSTANTS
  w1 = w1 w2 = w2 w3 = w3
  Writer = {w1, w2}
  Scenario <- MixedScenarios
  MaxLosses = 0
  Old = Old
  NoFile = NoFile
SPECIFICATION SaveSpec
PROPERTIES RenameReplacesOwnReservation
CHECK_DEADLOCK FALSE
