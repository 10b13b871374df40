SPECIFICATION Spec
CONSTANTS
  Caller = {c1}
  Second = 2
  MaxDuration = 20
  skew = 4
  ttl = 6
  fiboMax = 3
  Drifts <- SomeDrifts
  Epoch = 6
  MaxRequests = 2
  MaxNow = 18
INVARIANT RetriesUntilSuccess
CHECK_DEADLOCK FALSE
