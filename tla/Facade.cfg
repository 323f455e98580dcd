\* Two requests against two shutdowns: one operation of every shape of control
\* flow that the properties tell apart.
SPECIFICATION FacadeSpec
CONSTANTS
  r1 = r1
  r2 = r2
  k1 = k1
  k2 = k2
  NULL = NULL
  Requests = {r1, r2}
  Closers = {k1, k2}
  NumGuards = 1
  Lifecycle = TRUE
  MaxRequests = 2
  MaxShutdowns = 2
  Ops = {"read", "write", "mutate", "execute", "gateway", "register"}
INVARIANTS
  FacadeTypeOK
  QuietAtStop
  HonestReply
  EveryCallAudited
  ShutdownHonest
SYMMETRY Symmetry
CHECK_DEADLOCK FALSE
