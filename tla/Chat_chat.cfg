CONSTANTS
  Coins = {"a", "b"}
  Basket = {"a"}
  Stops <- OneEach
  Targets = {10}
  Sizes = {50}
  Goals = {3}
  Bets = {25, 50}
  Commands <- Typed
  MaxEvents = 4
SPECIFICATION Spec
CHECK_DEADLOCK FALSE
INVARIANTS
  TypeOK
  SpentOnce
  ApprovedAsShown
