----------------------------- MODULE MCHostStartup -----------------------------
(* An instance of HostStartup for TLC. *)
EXTENDS HostStartup

MCCmds == 1..3
MCGiven == {9}

\* A stop or restart that comes first finds no daemon: it does nothing, or what
\* ensure does, unless a later command overtakes it - then it could be second.
MCKinds ==
  [c \in MCCmds |-> IF c = 1 THEN {"ensure", "daemon"} ELSE {"ensure", "stop", "restart", "daemon"}]

NoSources == [flag |-> Unset, flagFile |-> Unset, env |-> Unset, envFile |-> Unset]

\* Nothing is set; a flag that names no file; a variable that ensure does not read.
MCSources ==
  {NoSources, [NoSources EXCEPT !.flagFile = None], [NoSources EXCEPT !.env = 9]}
================================================================================
