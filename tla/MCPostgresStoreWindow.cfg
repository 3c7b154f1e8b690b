\* One key and two fingerprints, retried up to and past the window.
CONSTANTS
  k1 = k1
  k2 = k2
  f1 = f1
  f2 = f2
  p1 = p1
  p2 = p2
  Sessions = {s1, s2, s3}
  Keys = {k1}
  Fingerprints = {f1, f2}
  IDs = {i1, i2}
  NoID = NoID
  LockID <- OwnLock
  Past <- NoPast
  Retention = 1
  CleanupBatch = 1
  MaxTime = 1
SPECIFICATION Spec
INVARIANTS TypeOK AtMostOneItemPerWindow AnswersOwnItem NoDanglingRow OneTransactionPerKey
CHECK_DEADLOCK FALSE
SYMMETRY Symmetry
