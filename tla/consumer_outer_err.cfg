SPECIFICATION Spec
CONSTANTS
  w1 = w1
  w2 = w2
  w3 = w3
  c1 = c1
  c2 = c2
  Backend = "postgres"
  Consumers = {"orders"}
  Messages = {1, 2}
  Conns = {c1}
  Workers = {w1, w2}
  ConsumerOf <- OneConsumer
  Batches <- PoisonBatches
  LockTimeouts = {}
  Poison = {}
  MaxFaults = 1
  NoConn = NoConn
PROPERTIES
  OuterErrCommitsNothing
