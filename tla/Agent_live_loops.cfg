CONSTANTS
  None = None
  Symbols = {a, b}
  MaxConcurrent = 1
  BuyLimit = 2
  MaxIds = 2
  Outcomes = {"ok", "fail", "raise"}
  Commands = {}
  SavedStates = {"SCANNING", "IN_POSITION"}
SPECIFICATION FairSpec
CHECK_DEADLOCK FALSE
PROPERTIES
  CycleEnds
  EveryPositionExamined
