------------------------------ MODULE PortAlloc ------------------------------
(***************************************************************************)
(* The loop of HostState::find_available_port, one iteration per step,     *)
(* run on an arbitrary occupancy of the port space.  No name is one of     *)
(* HostRegistry's: HostRegistryProofs extends both modules.                *)
(***************************************************************************)
EXTENDS PortSpace, FiniteSets

VARIABLES
  occupied,   \* the keys of used_host_ports; the state lock is held, so fixed
  preferred,  \* the argument: the container port to forward
  candidate,  \* the variable port: the one under test
  loop,       \* "scan" inside the loop, "done" once it has returned
  answer      \* the returned port, or NoPort

searchVars == <<occupied, preferred, candidate, loop, answer>>

SearchInit ==
  /\ occupied \in SUBSET HostPorts
  /\ preferred \in 0..MaxPort
  /\ candidate = preferred
  /\ loop = IF preferred = 0 THEN "done" ELSE "scan"
  /\ answer = NoPort

\* Mutant of NextCandidate: the privileged range is not skipped.
NextCandidateNoSkip == (candidate + 1) % (MaxPort + 1)

\* port.wrapping_add(1), moved out of the privileged range unless that is
\* where the preference lies.
NextCandidate ==
  LET next == (candidate + 1) % (MaxPort + 1)
  IN  IF next < FirstUnprivileged /\ next # preferred
      THEN FirstUnprivileged ELSE next

\* Mutant of Advance: the full circle is not noticed.
AdvanceNoCircleTest ==
  /\ loop = "scan"
  /\ candidate \in occupied
  /\ candidate' = NextCandidate
  /\ UNCHANGED <<occupied, preferred, loop, answer>>

\* The candidate is taken: try the next one, or give up after a full circle.
Advance ==
  /\ loop = "scan"
  /\ candidate \in occupied
  /\ candidate' = NextCandidate
  /\ loop' = IF NextCandidate = preferred THEN "done" ELSE "scan"
  /\ UNCHANGED <<occupied, preferred, answer>>

Found ==
  /\ loop = "scan"
  /\ candidate \notin occupied
  /\ loop' = "done"
  /\ answer' = candidate
  /\ UNCHANGED <<occupied, preferred, candidate>>

SearchNext == Advance \/ Found

\* The loop runs under the state lock without awaiting: it always steps on.
SearchSpec == SearchInit /\ [][SearchNext]_searchVars /\ WF_searchVars(SearchNext)
------------------------------------------------------------------------------
SearchTypeOK ==
  /\ occupied \in SUBSET HostPorts
  /\ preferred \in 0..MaxPort
  /\ candidate \in 0..MaxPort
  /\ loop \in {"scan", "done"}
  /\ answer \in 0..MaxPort

\* What the loop has established about the ports it has passed.
ScanInv ==
  loop = "scan" =>
    /\ preferred # 0
    /\ answer = NoPort
    /\ \/ candidate = preferred
       \/ /\ preferred \in occupied
          /\ candidate \in Unprivileged
          /\ candidate > preferred =>
               \A q \in Unprivileged : preferred < q /\ q < candidate => q \in occupied
          /\ candidate < preferred =>
               /\ preferred \in Unprivileged
               /\ \A q \in Unprivileged :
                    preferred < q \/ q < candidate => q \in occupied

\* When find_available_port returns, its answer is the closed form that the
\* rest of the model uses: the preference if free, else the next free
\* unprivileged port upwards with one wrap-around, else None - in particular
\* never a port already in used_host_ports, and None only when none is left.
ReturnsNextFreePort ==
  loop = "done" => answer \in FindAvailablePort(occupied, preferred)

\* The search ends whenever a free unprivileged port exists or the preference
\* is itself unprivileged: the wrap-around skips no port and does not circle.
\* (A preference below 1024 with every port from 1024 up in use is never met
\* again: the loop then does not end, although the doc comment says it returns
\* None.  64 containers with 128 forwards each stay below that occupancy.)
SearchEnds ==
  (preferred \in {0} \cup Unprivileged \/ ~(Unprivileged \subseteq occupied)) => <>(loop = "done")
==============================================================================
