SPECIFICATION FairSpec
CONSTANTS
  w1 = w1
  w2 = w2
  w3 = w3
  c1 = c1
  c2 = c2
  Backend = "mysql"
  Consumers = {"orders"}
  Messages = {1, 2}
  Conns = {c1, c2}
  Workers = {w1, w2}
  ConsumerOf <- OneConsumer
  Batches <- PoisonBatches
  LockTimeouts = {}
  Poison = {2}
  MaxFaults = 2
  NoConn = NoConn
PROPERTIES
  HealthyAcked
  CallsReturn
