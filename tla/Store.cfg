\* Every interleaving of writes, rollbacks, batches, deletes, renames and edges over
\* two URIs; and two clients of both backends, whose transactions interleave.
\* Everything is bounded, so every behaviour ends.
SPECIFICATION Spec
CONSTANTS
  u1 = u1
  u2 = u2
  t1 = t1
  c1 = c1
  c2 = c2
  NULL = NULL
  StoreUris = {u1, u2}
  StoreClients = {c1, c2}
  MaxStored = 2
  MaxBegun = 4
  Uris = {u1, u2}
  Tenants = {t1}
  TenantOf <- OneTenant
  Bodies = {"b1"}
  Collections = {"c1"}
  Kinds = {"k1"}
  MaxVersion = 3
  MaxBatch = 2
  MaxOutbox = 3
  MaxRevision = 2
INVARIANTS
  HistoryComplete
  ReplayMirrorsEntries
  StoreKeepsBooks
  CacheFollowsStore
PROPERTIES
  HistoryImmutable
  RevisionCoversEdges
SYMMETRY Symmetry
CHECK_DEADLOCK FALSE
