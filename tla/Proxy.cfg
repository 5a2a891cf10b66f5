\* Two clients of one forward; room for one pending connection and one request.
SPECIFICATION Spec
CONSTANTS
  f1 = f1  f2 = f2  s1 = s1  s2 = s2  k1 = k1  k2 = k2
  Clients = {k1, k2}
  Forwards = {f1}
  Sessions = {s1}
  SessionOf <- SingleSessionOf
  PortOf <- SinglePortOf
  MaxPending = 1
  RequestQueue = 1
  ClientQueue = 1
  None = None
INVARIANTS CountExact NoLostWakeup
PROPERTIES RefusedOnlyWhenFull ClientAnswered ListenerStops CancelReachesSubscribers
CHECK_DEADLOCK FALSE
