SPECIFICATION AsyncFairSpec
CONSTANTS
  Keys = {k1}
  Reqs = {r1, r2}
  Workers = {w1, w2}
  MaxPendingBatches = 2
  MaxKeysPerStep = 2
  MaxKeysPerBatch = 1
INVARIANTS AsyncTypeOK WaitIsCovered OneLiveItem
PROPERTIES WaitEnds ShutdownEnds
CHECK_DEADLOCK FALSE
