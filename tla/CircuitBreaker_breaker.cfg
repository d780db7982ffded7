CONSTANTS
  Tokens = {"a"}
  Prices = {20, 40}
  Gas = 1
  Cash = 60
  ReadOrder <- OneToken
  SafetyPct = 23
  DailyPct = 15
  MaxPositions = 1
  MaxFaults = 1
  MaxCommands = 1
  MaxTrades = 1
  MaxMoves = 1
  MaxDays = 1
SPECIFICATION FairSpec
CHECK_DEADLOCK FALSE
INVARIANTS
  TypeOK
  QuietReadingExact
PROPERTIES
  LossHalts
