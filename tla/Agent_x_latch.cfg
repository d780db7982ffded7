CONSTANTS
  None = None
  Symbols = {a}
  MaxConcurrent = 1
  BuyLimit = 2
  MaxIds = 2
  Outcomes = {"ok", "fail"}
  Commands = {}
  SavedStates = {"SCANNING"}
SYMMETRY Symmetry
SPECIFICATION Spec
CHECK_DEADLOCK FALSE
INVARIANTS
  PanicLatches
