------------------------------ MODULE PortSpace ------------------------------
(***************************************************************************)
(* The TCP port space of the host daemon and the rule by which it picks a  *)
(* host port for a forwarded container port (HostState::                   *)
(* find_available_port, src/host/mod.rs).  Constant definitions only; the  *)
(* loop of the code is the state machine of PortAlloc, which is shown to   *)
(* compute the closed form below.                                          *)
(***************************************************************************)
EXTENDS Naturals

CONSTANTS
  MaxPort,            \* the largest port number: u16::MAX in the code
  FirstUnprivileged   \* 1024 in the code

ASSUME PortSpaceAssumption ==
  /\ MaxPort \in Nat
  /\ FirstUnprivileged \in 1..MaxPort

HostPorts == 1..MaxPort
Unprivileged == FirstUnprivileged..MaxPort

\* Option::None of the code; 0 is never a port that is handed out.
NoPort == 0

LeastOf(S) == {x \in S : \A y \in S : x <= y}

(***************************************************************************)
(* The outcomes of a search for a free port, given the keys of             *)
(* used_host_ports.  The result is a set: a singleton when the search      *)
(* ends, and empty when it does not (a privileged preference with every    *)
(* unprivileged port in use is never met again by the wrapping scan).      *)
(***************************************************************************)
FindAvailablePort(usedPorts, preferred) ==
  LET free  == Unprivileged \ usedPorts
      above == {q \in free : q > preferred}
  IN  IF preferred = NoPort THEN {NoPort}
      ELSE IF preferred \notin usedPorts THEN {preferred}
      ELSE IF above # {} THEN LeastOf(above)
      ELSE IF free # {} THEN LeastOf(free)
      ELSE IF preferred \in Unprivileged THEN {NoPort}
      ELSE {}
==============================================================================
