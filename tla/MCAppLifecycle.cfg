\* Two requests, any failure at startup, while serving and at shutdown, and
\* every environment within two changes of the two usual ones.
CONSTANTS
  Requests = {r1, r2}
  Environments <- MCEnvironments
SPECIFICATION FairSpec
INVARIANTS CutOffReported ResourcesReleased TracesFlushed ConfigurationAgrees ProductionSafe
PROPERTY Stops
CHECK_DEADLOCK FALSE
