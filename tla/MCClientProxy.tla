---------------------------- MODULE MCClientProxy ----------------------------
(* Instances of ClientProxy for TLC. *)
EXTENDS ClientProxy, TLC

CONSTANTS f1, f2, s1, s2, k1, k2

\* Two containers forward the same container port.
PairSessionOf == f1 :> s1 @@ f2 :> s2
PairPortOf == f1 :> 1 @@ f2 :> 1

\* One forward.
SingleSessionOf == f1 :> s1
SinglePortOf == f1 :> 1
==============================================================================
