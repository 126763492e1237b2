SPECIFICATION Spec
CONSTANTS
  t1 = t1
  t2 = t2
  Stem <- MixedNames
  Thread <- TwoThreads
  MaxRequests = 2
  IntMax = 2
  Kinds = {"scene"}
  MaxKills = 1
  FastRestart = TRUE
  ReuseNames = {}
SYMMETRY ThreadSymmetry
INVARIANTS
  TypeOK
  SlotExclusive
  SlotAccounted
  NoDanglingRender
  Conservation
  RemovedOnlyRendered
  OneHandler
  NotStranded
