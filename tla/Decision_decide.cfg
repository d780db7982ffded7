SPECIFICATION Spec
CONSTANTS
  Cfg <- MCCfg
  Universe <- MCUniverse
  Focus = {"a", "b"}
  Markets <- MCMarkets
  Answers <- MCAnswers
  Macros <- MCMacros
  Wallets <- MCWallets
  Sizes = {2500, 10000}
  Scores <- MCScores
  Charts <- MCCharts
  Venues <- MCVenues
  Toggles = 2
INVARIANTS TypeOK BetWithinBounds CrashOnlyRebounds LegsCovered FailedStaysOff
