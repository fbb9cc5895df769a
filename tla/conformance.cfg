SPECIFICATION Spec
CONSTANTS
  Runs = {1, 2}
  Stores <- EveryStore
CHECK_DEADLOCK FALSE
INVARIANTS
  GoodStorePasses
  BadStorePanics
  BadSavepointsPanic
