\* Three requests with one key, retried up to and past the window.
CONSTANTS
  Goroutines = {g1, g2, g3}
  Keys = {k1}
  Fingerprints = {f1, f2}
  IDs = {i1, i2}
  NoID = NoID
  Free = Free
  Retention = 2
  MaxEntries = 2
  MaxTime = 3
CHECK_DEADLOCK FALSE
SPECIFICATION Spec
SYMMETRY Symmetry
INVARIANTS AtMostOneItemPerWindow AnswersOwnItem NoDanglingEntry
PROPERTIES RetriesOutsideWindowAreNew
