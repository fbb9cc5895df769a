SPECIFICATION SpecOnEach
CONSTANTS
  w1 = w1
  w2 = w2
  w3 = w3
  c1 = c1
  c2 = c2
  Backend = "postgres"
  Consumers = {"orders"}
  Messages = {1, 2}
  Conns = {c1, c2}
  Workers = {w1, w2}
  ConsumerOf <- OneConsumer
  Batches <- CrossedBatches
  LockTimeouts = {w1}
  Poison = {}
  MaxFaults = 2
  NoConn = NoConn
SYMMETRY ConnSymmetry
INVARIANTS
  TypeOK
  EffectIffRow
  AckedAreCommitted
  NoWaitCycle
  PoolAccounting
  SomeCallGoesOn
  ClaimsStayTrue
PROPERTIES
  ReplyMatchesCommit
  ImplementsExactlyOnce
  CallsAreFinite
