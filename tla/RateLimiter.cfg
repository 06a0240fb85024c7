SPECIFICATION Spec
CONSTANTS
  Workers <- MCWorkers
  Skew <- MCSkew
  Limit = 1
  Window = 12
  Second = 4
  Delay = 2
  LastStart = 13
  MaxRequests = 4
  NoKey = NoKey
  w1 = w1
  w2 = w2
INVARIANTS
  OneBudget
  RetryAfterUseful
CHECK_DEADLOCK FALSE
