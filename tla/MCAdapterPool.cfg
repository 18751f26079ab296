SPECIFICATION FairSpec
CONSTANTS
  Node = {n1, n2}
  Version = {v1, v2}
  Entry = {e1, e2, e3}
  Conn = {c1, c2}
  None = None
  MaxSize = 1
  MaxClock = 4
  MaxClosers = 2
INVARIANTS
  NeverClosedInUse
  ClosedAtMostOnce
  NoAdapterLeak
  PoolBounded
PROPERTIES
  ImplementsLeases
  AllClosedAfterShutdown
CHECK_DEADLOCK FALSE
