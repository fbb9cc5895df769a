SPECIFICATION FairSpec
CONSTANTS
  Instances = {i1, i2}
  Keys = {k1, k2, k3}
  Invalid = Invalid
  Poison = {k3}
  MaxLog = 3
  MaxFaults = 2
  NewGroup = FALSE
  None = None
CHECK_DEADLOCK FALSE
INVARIANTS
  OffsetBehindInbox
  DeliveredIsNotLost
PROPERTIES
  SettlesBeforePoison
