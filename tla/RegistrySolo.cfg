SPECIFICATION Spec
CONSTANTS
  h1 = h1  h2 = h2  c1 = c1  c2 = c2
  Main = Main  None = None
  Conns = {h1, h2}
  Cids = {c1, c2}
  CidOf <- SoloCidOf
  Ports = {2, 3}
  MaxPort = 4
  FirstUnprivileged = 2
  MaxContainers = 2
  MaxForwards = 1
  ExitOnIdle = FALSE
INVARIANTS
  NoLeakedPort
  ForwardLimitHolds
PROPERTY LeaseRefinement
