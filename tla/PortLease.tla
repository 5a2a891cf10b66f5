------------------------------ MODULE PortLease ------------------------------
(***************************************************************************)
(* What the registry promises about host ports, without tasks, locks,      *)
(* sockets or registrations: a host port is leased to at most one forward  *)
(* (a container and one of its ports) at a time, and it changes hands only *)
(* by becoming free in between.                                            *)
(***************************************************************************)
CONSTANTS LeasePorts, Holders, Nobody

VARIABLE lease

Init == lease = [q \in LeasePorts |-> Nobody]

\* One teardown may give back several ports (a whole container's, or all).
GiveBack ==
  /\ lease' \in [LeasePorts -> Holders \cup {Nobody}]
  /\ \A q \in LeasePorts : lease'[q] \in {lease[q], Nobody}

Acquire(q) ==
  /\ lease[q] = Nobody
  /\ \E x \in Holders : lease' = [lease EXCEPT ![q] = x]

Next == GiveBack \/ \E q \in LeasePorts : Acquire(q)

Spec == Init /\ [][Next]_lease
==============================================================================
