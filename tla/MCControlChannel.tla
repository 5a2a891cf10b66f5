--------------------------- MODULE MCControlChannel ---------------------------
(* An instance of ControlChannel for TLC. *)
EXTENDS ControlChannel

\* Below the limit; exactly the limit of write_message, with a character cut
\* at 1; and well above it, with one cut at 4, where a drain may stop.
MCBodies ==
  {[size |-> 2, mid |-> {}], [size |-> 3, mid |-> {1}], [size |-> 6, mid |-> {4}]}
===============================================================================
