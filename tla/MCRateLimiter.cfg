\* Three callers for two slots; a token is back after one and a half ticks,
\* and no wait is announced as longer than one.
CONSTANTS
  Goroutines = {g1, g2}
  Keys = {1, 2, 3}
  BadKey = BadKey
  Capacity = 1
  Parts = 3
  Rate = 2
  MaxClients = 2
  IdleTTL = 2
  MaxRetry = 1
  MaxTime = 2
SPECIFICATION Spec
INVARIANTS TypeOK RateBound RetryAfterExact
PROPERTIES ActiveBucketKept
SYMMETRY Symmetry
