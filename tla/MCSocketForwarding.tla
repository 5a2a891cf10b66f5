------------------------- MODULE MCSocketForwarding -------------------------
(* An instance of SocketForwarding for TLC. *)
EXTENDS SocketForwarding, TLC

\* container_path_prefix gives two sockets of one file name the same path.
MCContainerPathOf == "h1" :> "q" @@ "h2" :> "q" @@ "h3" :> "r"
==============================================================================
