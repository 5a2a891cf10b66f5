\* Two clients and two faults.
SPECIFICATION Spec
CONSTANTS
  Clients = {k1, k2}
  Clips <- MCClips
  MaxImageBytes = 2
  MaxBatchBytes = 3
  MaxBatchImages = 2
  MaxFaults = 2
INVARIANTS PermitConserved WholeSelection
PROPERTIES RequestsEnd
CHECK_DEADLOCK FALSE
