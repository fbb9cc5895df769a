SPECIFICATION FairSpec
CONSTANTS
  w1 = w1
  w2 = w2
  w3 = w3
  c1 = c1
  c2 = c2
  Backend = "postgres"
  Consumers = {"orders", "billing"}
  Messages = {1}
  Conns = {c1, c2}
  Workers = {w1, w2, w3}
  ConsumerOf <- TwoConsumers
  Batches = {}
  LockTimeouts = {}
  Poison = {}
  MaxFaults = 2
  NoConn = NoConn
INVARIANTS
  ServicesIndependent
PROPERTIES
  DeliversAsRetention
  HealthyAcked
  CallsReturn
