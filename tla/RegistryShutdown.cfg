SPECIFICATION Spec
CONSTANTS
  h1 = h1  h2 = h2  c1 = c1  c2 = c2
  Main = Main  None = None
  Conns = {h1, h2}
  Cids = {c1, c2}
  CidOf <- SoloCidOf
  Ports = {2}
  MaxPort = 3
  FirstUnprivileged = 2
  MaxContainers = 2
  MaxForwards = 1
  ExitOnIdle = TRUE
PROPERTY ShutdownCompletes
CHECK_DEADLOCK FALSE
