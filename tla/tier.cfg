CONSTANTS
  p1 = p1
  p2 = p2
  j1 = j1
  j2 = j2
  s1 = s1
  NoProc = NoProc
  None = None
  Procs = {p1, p2}
  Jobs = {j1, j2}
  Shards = {s1}
  Tombs = {t1}
  ProcOf <- OneEach
  ShardOf <- OneShard
  Capacity = 4
  MinFree = 1
  Trigger = 2
  Target = 3
SPECIFICATION FairTierSpec
INVARIANTS TierTypeOK NoDeletionUnderWrites ActiveIsOwner ReservationExact ReportedAtMostOnce
PROPERTIES JobsReported StoresResume
CHECK_DEADLOCK FALSE
