\* Two requests, with one key or two, compete for one resident slot.
CONSTANTS
  Goroutines = {g1, g2}
  Keys = {k1, k2}
  Fingerprints = {f1, f2}
  IDs = {i1, i2}
  NoID = NoID
  Free = Free
  Retention = 1
  MaxEntries = 1
  MaxTime = 1
CHECK_DEADLOCK FALSE
SPECIFICATION FairSpec
INVARIANTS ResidentBound
PROPERTIES RequestsReturn ImplementsIdempotentCreate
