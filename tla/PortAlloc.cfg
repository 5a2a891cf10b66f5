\* A port space of seven numbers, three of them privileged.
SPECIFICATION SearchSpec
CONSTANTS
  MaxPort = 7
  FirstUnprivileged = 4
INVARIANTS ReturnsNextFreePort
PROPERTY SearchEnds
\* find_available_port returns: the loop stops.
CHECK_DEADLOCK FALSE
