SPECIFICATION PipelineSpec
CONSTANTS
  t1 = t1
  c1 = c1
  c2 = c2
  m1 = m1
  zero = zero
  Thread <- MCThread
  MaxRequests = 1
  IntMax = 3
  Kinds = {"scene"}
  MaxKills = 0
  FastRestart = FALSE
  ReuseNames = {}
  Client <- MCClient
  Stamp <- MCStamp
  MeshId <- MCMeshId
  ZeroId = zero
  Sent <- MCSent
  DiskFails = FALSE
  EntropyFails = FALSE
  MaxCrashes = 1
  Stem <- MCStem
  ByHand <- MCByHand
INVARIANTS
  OneDirectory
  AcceptedStaysQueued
