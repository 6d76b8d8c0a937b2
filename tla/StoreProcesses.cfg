SPECIFICATION Spec
CONSTANTS
  t1 = t1
  t2 = t2
  t3 = t3
  x = x
  y = y
  z = z
  Threads = {t1, t2, t3}
  Conns = {x, y, z}
  ConnOf <- OwnConnections
  Keys = {k}
  MaxOps = 3
  MaxKills = 1
CHECK_DEADLOCK FALSE
INVARIANTS TypeOK AcknowledgedIsDurable StreamWellNumbered
PROPERTIES OperationsReturn
