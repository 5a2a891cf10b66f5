\* Three commands of any kind, one fault, a token in the file or a variable, or a bad flag.
SPECIFICATION Spec
CONSTANTS
  Cmds <- MCCmds
  Kinds <- MCKinds
  Given <- MCGiven
  Sources <- MCSources
  MaxActive = 2
  MaxFaults = 1
INVARIANTS TokenAgrees EnsureIdempotent PidFileKept RestartReplaces
PROPERTY StopEffective
CHECK_DEADLOCK FALSE
