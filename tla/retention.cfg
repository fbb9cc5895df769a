SPECIFICATION FairSpec
CONSTANTS
  NoMessage = NoMessage
  Messages = {m1, m2}
  Workers = {w1}
  Purgers = {p1, p2}
  MaxAge = 2
  BatchSize = 0
  Window = 1
  MaxDelay = 1
  MaxTime = 3
INVARIANTS
  ProcessedOnce
PROPERTIES
  NothingExpiredLeft
  RoundsDelete
  PurgeReturns
