SPECIFICATION FairSpec
CONSTANTS
  r1 = r1
  r2 = r2
  r3 = r3
  c1 = c1
  c2 = c2
  None = None
  Requests = {r1, r2, r3}
  Conns = {c1, c2}
  MaxStatements = 2
INVARIANT TypeOK
INVARIANT ConnsAccounted
INVARIANT GracefulStop
INVARIANT LifecycleInv
INVARIANT PoolOutlivesServer
PROPERTY RequestsEnd
PROPERTY SignalStops
CHECK_DEADLOCK FALSE
