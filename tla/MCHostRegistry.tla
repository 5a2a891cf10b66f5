--------------------------- MODULE MCHostRegistry ---------------------------
(* Instances of HostRegistry for TLC. *)
EXTENDS HostRegistry, TLC

CONSTANTS h1, h2, c1, c2

\* Two connections of one container: a reconnect that overlaps the old
\* session.
ReconnectCidOf == (h1 :> c1) @@ (h2 :> c1)

\* Two containers with one connection each.
SoloCidOf == (h1 :> c1) @@ (h2 :> c2)
=============================================================================
