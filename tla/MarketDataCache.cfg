SPECIFICATION FairSpec
CONSTANTS
  Workers <- MCWorkers
  MutableTTL = 1
  HistoricalTTL = 2
  StaleTTL = 3
  MaxAttempts = 2
  Backoff = 1
  OperationTimeout = 2
  RedisTimeout = 1
  Midnight = 2
  LastStart = 1
  w1 = w1
  w2 = w2
  NoCopy = NoCopy
  Garbage = Garbage
INVARIANTS
  AnswersHonest
  HitAge
  RequestBounded
PROPERTIES
  EveryRequestAnswered
CHECK_DEADLOCK FALSE
