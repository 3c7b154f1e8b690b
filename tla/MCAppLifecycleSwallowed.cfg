\* Serving fails while the context ends.
CONSTANTS
  Requests = {r1}
  Environments <- MCDevelopment
SPECIFICATION Spec
INVARIANT ServeErrorsNotSwallowed
CHECK_DEADLOCK FALSE
