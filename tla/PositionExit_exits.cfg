CONSTANTS
  Prices = {88, 97, 100, 102, 105}
  Entries = {100}
  Specs <- Strategies
  UserConfigs <- Owners
  TrailTrigger = 300
  StaleBand = 150
  MaxJump = 1000
SPECIFICATION FairSpec
CHECK_DEADLOCK FALSE
INVARIANTS
  TypeOK
  BreakEvenLocked
PROPERTIES
  NewHighNotStopped
  StopHonoured
