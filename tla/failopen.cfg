SPECIFICATION FairSpec
CONSTANTS
  Reqs = {r1, r2, r3}
  Timeout = 2
  Breaker = 2
  Threshold = 2
  MaxConcurrent = 2
  MaxDelay = 3
INVARIANTS ProbesBounded SlotsAreLive OpenHasCause
PROPERTIES OpenMeansNoProbe DeadlineFixed RetryEnds
