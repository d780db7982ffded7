CONSTANTS
  None = None
  Symbols = {a, b}
  MaxConcurrent = 1
  BuyLimit = 2
  MaxIds = 3
  Outcomes = {"ok", "fail"}
  Commands = {}
  SavedStates = {"SCANNING"}
SYMMETRY Symmetry
SPECIFICATION Spec
CHECK_DEADLOCK FALSE
INVARIANTS
  LoopNeverWedged
