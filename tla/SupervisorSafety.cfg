SPECIFICATION FairSpec
CONSTANTS
  Pid <- FourPids
  MaxOthers = 1
INVARIANTS
  OneProcessPerRole
  ChildrenRecorded
  PidsCurrent
  SignalKillsRecorded
PROPERTIES
  Respawn
