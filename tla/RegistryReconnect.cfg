\* Two overlapping connections of one container, with --exit-on-idle.
SPECIFICATION Spec
CONSTANTS
  h1 = h1  h2 = h2  c1 = c1  c2 = c2
  Main = Main  None = None
  Conns = {h1, h2}
  Cids = {c1}
  CidOf <- ReconnectCidOf
  Ports = {2}
  MaxPort = 3
  FirstUnprivileged = 2
  MaxContainers = 1
  MaxForwards = 1
  ExitOnIdle = TRUE
INVARIANTS
  HostPortsExclusive
  ForwardIsServed
  NoOrphanListener
  LastOneStopsDaemon
PROPERTIES
  RegistrationKept
  CleanupCompletes
\* With --exit-on-idle the daemon can hang (see RegistryShutdown).
CHECK_DEADLOCK FALSE
