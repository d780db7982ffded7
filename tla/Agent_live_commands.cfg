CONSTANTS
  None = None
  Symbols = {a}
  MaxConcurrent = 1
  BuyLimit = 2
  MaxIds = 1
  Outcomes = {"ok", "approval", "raise"}
  Commands = {"panic", "sell", "sellAll", "withdraw"}
  SavedStates = {"IN_POSITION"}
SPECIFICATION FairSpec
CHECK_DEADLOCK FALSE
PROPERTIES
  HandlerEnds
  PanicCompletes
