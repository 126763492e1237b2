SPECIFICATION FairSpec
CONSTANTS
  b1 = b1
  d1 = d1
  d2 = d2
  c1 = c1
  c2 = c2
  c3 = c3
  Base <- MCBase
  Dynamic <- MCDynamic
  Conn <- MCConn
  MaxThreads = 2
  KeepAliveMax = 2
INVARIANTS
  NoLostWakeup
  PoolBounded
  IdleCounted
  OnePlace
  GoneWhenStopped
PROPERTIES
  EveryConnectionClosed
  ListenReturns
CHECK_DEADLOCK FALSE
