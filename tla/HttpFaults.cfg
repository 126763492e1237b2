SPECIFICATION FairSpec
CONSTANTS
  c1 = c1
  c2 = c2
  c3 = c3
  m1 = m1
  m2 = m2
  m3 = m3
  zero = zero
  Client <- TwoClients
  Stamp <- TwoStamps
  MeshId <- MeshIds
  ZeroId = zero
  Sent <- Varied
  DiskFails = TRUE
  EntropyFails = TRUE
  MaxCrashes = 1
INVARIANTS
  TypeOK
  OnlyScenesQueued
  RefusedLeavesNothing
PROPERTIES
  EveryRequestAnswered
