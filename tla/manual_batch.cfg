SPECIFICATION SpecOnEach
CONSTANTS
  Backend = "postgres"
  Consumers = {"orders"}
  Group = "orders"
  Messages = {1, 2}
  Conns = {c1, c2}
  Workers = {w1, w2}
  Units <- CrossedUnits
  MaxSlices = 2
  LockTimeouts = {w1}
  MaxFaults = 1
  NoConn = NoConn
INVARIANTS
  EffectIffRow
  CyclesNeedTwoStatements
  SomeUnitGoesOn
PROPERTIES
  UnitIsAtomic
  ImplementsExactlyOnce
  AllAckedWhereQueued
