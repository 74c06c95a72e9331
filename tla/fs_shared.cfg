SPECIFICATION FsSpec
CONSTANTS
  Keys = {k1, k2}
  Reqs = {r1}
  Workers = {w1}
  Jobs = {j1}
  Procs = {me, sib}
  Shards = {s1}
  Me = me
  ProcOf <- OwnedByMe
  ShardOf <- Spread
  MaxPendingBatches = 1
  MaxKeysPerStep = 2
  MaxKeysPerBatch = 1
INVARIANTS FsTypeOK LeasesNotLeaked OwnLoadsAreSafe
PROPERTIES FenceHolds
CHECK_DEADLOCK FALSE
