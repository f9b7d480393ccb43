CONSTANTS
  t1 = t1
  t2 = t2
  c1 = c1
  c2 = c2
  c3 = c3
  Client = {t1, t2}
  Conn = {c1, c2, c3}
  NoConn = NoConn
  PoolSize = 2
  MaxFaults = 3
SPECIFICATION FairSpec
INVARIANT TypeOK
INVARIANT OneOwner
INVARIANT CapacityIsKept
INVARIANT NoConnectionSleeps
INVARIANT ClosedLeavesNothing
PROPERTY BorrowersAreServed
PROPERTY CapacityIsRestored
PROPERTY CloseEnds
CHECK_DEADLOCK FALSE
