\* One request leaves while shutdown is between its load and its wait.
SPECIFICATION FacadeSpec
CONSTANTS
  r1 = r1
  r2 = r2
  k1 = k1
  k2 = k2
  NULL = NULL
  Requests = {r1}
  Closers = {k1}
  NumGuards = 1
  Lifecycle = TRUE
  MaxRequests = 1
  MaxShutdowns = 1
  Ops = {"browse"}
PROPERTY ShutdownReturns
CHECK_DEADLOCK FALSE
