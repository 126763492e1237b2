SPECIFICATION FairSpec
CONSTANTS
  t1 = t1
  t2 = t2
  Stem <- TwoNames
  Thread <- TwoThreads
  MaxRequests = 1
  IntMax = 2
  Kinds = {"scene"}
  MaxKills = 2
  FastRestart = FALSE
  ReuseNames = {}
PROPERTIES
  EveryRequestDone
  ImplementsQueue
  OldestListedFirst
