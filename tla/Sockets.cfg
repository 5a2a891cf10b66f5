\* Three host sockets, two of them with the same container path; room for two.
SPECIFICATION Spec
CONSTANTS
  HostPaths = {"h1", "h2", "h3"}
  ContainerPathOf <- MCContainerPathOf
  MaxSockets = 2
  Queue = 1
  Clients = {k1}
  MaxIds = 2
  MaxWire = 1
  None = None
INVARIANTS MirrorsMatch MirrorReachable NoStaleFile
PROPERTY ClientsSettle
CHECK_DEADLOCK FALSE
