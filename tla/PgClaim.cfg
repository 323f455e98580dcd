\* One worker that claims with the PostgreSQL query.  Writers never remove a URI.
SPECIFICATION IndexSpec
CONSTANTS
  u1 = u1
  u2 = u2
  t1 = t1
  NULL = NULL
  Scenes = {"writes"}
  Uris = {u1, u2}
  Tenants = {t1}
  TenantOf <- TwoUris
  Bodies = {"b1"}
  Collections = {"c1"}
  Kinds = {"k1"}
  MaxVersion = 3
  MaxBatch = 1
  MaxOutbox = 2
  MaxRevision = 0
  Backend = "postgres"
  Workers = {"w1"}
  BatchSize = 1
  MaxAttempts = 2
  MaxAbandon = 0
  MaxReconcile = 0
  MaxReset = 0
INVARIANT Converged
CHECK_DEADLOCK FALSE
