CONSTANTS
  Tokens <- TwoTokens
  Markets <- TwoMarkets
  Workers = {"w1", "w2"}
  StartCash = 100
  MaxPositions = 1
  MinOrder = 5
  StopPct = 10
  Convictions = {50}
  MaxOpens = 2
  MaxTicks = 3
  MaxButtons = 2
SPECIFICATION Spec
CHECK_DEADLOCK FALSE
INVARIANTS
  TypeOK
  LogMatchesBook
  LedgerExact
  StoppedHoldsNothing
PROPERTIES
  StopOnlyTightens
