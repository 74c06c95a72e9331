SPECIFICATION FsSpec
CONSTANTS
  Keys = {k1}
  Reqs = {r1}
  Workers = {w1}
  Jobs = {j1}
  Procs = {me, sib}
  Shards = {s1}
  Me = me
  ProcOf <- OwnedByMe
  ShardOf <- Spread
  MaxPendingBatches = 1
  MaxKeysPerStep = 2
  MaxKeysPerBatch = 1
INVARIANTS PinsHoldFlock
CHECK_DEADLOCK FALSE
