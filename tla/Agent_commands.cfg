CONSTANTS
  None = None
  Symbols = {a}
  MaxConcurrent = 1
  BuyLimit = 1
  MaxIds = 1
  Outcomes = {"ok", "fail"}
  Commands = {"start", "pause", "restart", "panic", "buy", "approve", "reject", "copilot"}
  SavedStates = {"IDLE"}
SYMMETRY Symmetry
SPECIFICATION Spec
CHECK_DEADLOCK FALSE
INVARIANTS
  ScanOnlyWhileTrading
  HaltFreezesScan
PROPERTIES
  KillswitchHolds
