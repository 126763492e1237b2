SPECIFICATION Spec
CONSTANTS
  c1 = c1
  c2 = c2
  c3 = c3
  m1 = m1
  m2 = m2
  m3 = m3
  zero = zero
  Client <- ThreeClients
  Stamp <- TwoStamps
  MeshId <- MeshIds
  ZeroId = zero
  Sent <- UploadsAndScenes
  DiskFails = FALSE
  EntropyFails = FALSE
  MaxCrashes = 0
INVARIANTS
  AcceptedIsQueued
