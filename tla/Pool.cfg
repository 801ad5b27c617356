SPECIFICATION FairSpec
CONSTANTS
  Job = {j1, j2, j3}
  Worker = {w1, w2}
  Closer = {c1, c2}
  QueueSize = 1
  None = None
INVARIANTS
  NoSendOnClosed
  EachTaskInOnePlace
  ShutdownDrains
  AbortOnlyAfterGrace
  PoolInv
PROPERTIES
  AcceptedFinishes
  ShutdownReturns
