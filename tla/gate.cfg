SPECIFICATION FairSpec
CONSTANTS
  Procs = {p1, p2, p3}
  Jobs = {j1, j2}
  NoProc = NoProc
INVARIANTS IInv FenceExcludesStores SoleOwner
PROPERTIES OwnedMeansDraining FenceSpec OwnerGetsFence
