SPECIFICATION FormatsSpec
CONSTANTS
  ByteSize = 8
  max_payload_length = 1000
  Mesh <- MCMesh
  Lost <- MCLost
  Size8 = 4
  Size16 = 16
  Size32 = 256
  Size64 = 65536
  Scene = {}
  Case = {}
INVARIANTS
  IndicesEnforced
