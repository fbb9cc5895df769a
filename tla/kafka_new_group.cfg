SPECIFICATION Spec
CONSTANTS
  Instances = {i1}
  Keys = {k1, k2}
  Invalid = Invalid
  Poison = {}
  MaxLog = 3
  MaxFaults = 1
  NewGroup = TRUE
  None = None
CHECK_DEADLOCK FALSE
INVARIANTS
  DeliveredIsNotLost
