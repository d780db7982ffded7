CONSTANTS
  None = None
  Symbols = {a, b}
  MaxConcurrent = 1
  BuyLimit = 2
  MaxIds = 2
  Outcomes = {"ok", "approval", "raise"}
  Commands = {"sellAll"}
  SavedStates = {"SCANNING", "IN_POSITION"}
SYMMETRY Symmetry
SPECIFICATION Spec
CHECK_DEADLOCK FALSE
INVARIANTS
  TypeOK
  DuplicateFreeBook
  CooldownSpacesBuys
  MutexOwnsSwap
PROPERTIES
  ScanRespectsCap
