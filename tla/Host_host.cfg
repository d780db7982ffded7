CONSTANTS
  Seed = TRUE
  EditedTo = {"TRADING"}
  KeptTrades = 2
  MaxSaves = 8
  MaxTrades = 3
  NonceTTL = 0
  SessionTTL = 0
  LastingKey = FALSE
  MaxNonces = 1
  MaxTokens = 2
  BackoffStep = 1
  BackoffCap = 1
  StaleAfter = 2
  BootTime = 1
  MaxFaults = 2
  MaxActs = 3
SPECIFICATION FairSpec
INVARIANTS
  TypeOK
  SavedSurvives
  AlarmHasCause
  HistoryInOrder
  SessionsEarned
PROPERTIES
  NoNeedlessRestart
  AgentComesBack
