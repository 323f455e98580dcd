\* One worker: under writes and rollbacks of one URI, batches of up to three, a loss of
\* the index and a reconciliation; or under writes, deletes and renames of two URIs.
\* Index calls fail, leases expire and a batch is abandoned in both.
SPECIFICATION IndexSpec
CONSTANTS
  u1 = u1
  u2 = u2
  t1 = t1
  NULL = NULL
  Scenes = {"writes", "moves"}
  Uris = {u1, u2}
  Tenants = {t1}
  TenantOf <- TwoUris
  Bodies = {"b1"}
  Collections = {"c1"}
  Kinds = {"k1"}
  MaxVersion = 3
  MaxBatch = 3
  MaxOutbox = 3
  MaxRevision = 0
  Backend = "sqlite"
  Workers = {"w1"}
  BatchSize = 2
  MaxAttempts = 2
  MaxAbandon = 1
  MaxReconcile = 1
  MaxReset = 1
INVARIANTS
  BatchesNumbered
  Converged
  DoneMeansApplied
PROPERTY RowsSettle
CHECK_DEADLOCK FALSE
