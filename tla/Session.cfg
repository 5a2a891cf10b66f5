\* Four sockets on three ports.
SPECIFICATION Spec
CONSTANTS
  Sockets <- MCSockets
  FileOf <- MCFileOf
  PortOf <- MCPortOf
  UidOf <- MCUidOf
  NameOf <- MCNameOf
  Euid = 7
  ExcludePorts = {}
  IncludePorts = {}
  SelfPorts = {3}
  NoName = NoName
  NoUid = NoUid
  HostAddr = "unset"
  Initial = 1
  MaxDelay = 5
  MaxQueue = 2
  Steady = {"self", "a6"}
  MaxFaults = 3
INVARIANTS NoPhantomForward NoStaleForward
PROPERTIES Converges ShutdownReleases
CHECK_DEADLOCK FALSE
