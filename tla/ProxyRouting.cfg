\* Two containers that forward the same container port.
SPECIFICATION Spec
CONSTANTS
  f1 = f1  f2 = f2  s1 = s1  s2 = s2  k1 = k1  k2 = k2
  Clients = {k1}
  Forwards = {f1, f2}
  Sessions = {s1, s2}
  SessionOf <- PairSessionOf
  PortOf <- PairPortOf
  MaxPending = 1
  RequestQueue = 1
  ClientQueue = 1
  None = None
INVARIANT ReachesItsContainer
CHECK_DEADLOCK FALSE
