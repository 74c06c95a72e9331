CONSTANTS
  p1 = p1
  p2 = p2
  j1 = j1
  j2 = j2
  s1 = s1
  NoProc = NoProc
  None = None
  Procs = {p1, p2}
  Jobs = {j1, j2}
  Shards = {s1}
  Tombs = {t1}
  ProcOf <- OneEach
  ShardOf <- OneShard
  Capacity = 3
  MinFree = 1
  Trigger = 2
  Target = 2
SPECIFICATION TierSpec
INVARIANT ReserveKept
CHECK_DEADLOCK FALSE
