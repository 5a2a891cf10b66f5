\* Messages of three sizes around a limit of three bytes, read two at a time.
SPECIFICATION Spec
CONSTANTS
  MaxMessageSize = 3
  Capacity = 2
  MaxMissedPongs = 3
  Lag = 2
  PingSize = 1
  Bodies <- MCBodies
  MaxLines = 1
  MaxTicks = 4
INVARIANTS DeliveredPrefix ErrorsExplained HeartbeatSparesLive
PROPERTY SilentDropped
CHECK_DEADLOCK FALSE
