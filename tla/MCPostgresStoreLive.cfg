\* Two keys whose rows from earlier requests expire while two requests run.
CONSTANTS
  k1 = k1
  k2 = k2
  f1 = f1
  f2 = f2
  p1 = p1
  p2 = p2
  Sessions = {s1, s2}
  Keys = {k1, k2}
  Fingerprints = {f1, f2}
  IDs = {i1, p1, p2}
  NoID = NoID
  LockID <- OwnLock
  Past <- TwoPast
  Retention = 1
  CleanupBatch = 1
  MaxTime = 1
SPECIFICATION FairSpec
PROPERTIES TransactionsEnd ImplementsIdempotentCreate
CHECK_DEADLOCK FALSE
