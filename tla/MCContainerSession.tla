-------------------------- MODULE MCContainerSession --------------------------
(* An instance of ContainerSession for TLC. *)
EXTENDS ContainerSession

\* Port 1 is open on both families under different owners, port 2 on IPv6
\* only, port 3 is the daemon's control port.
MCSockets == {"a4", "a6", "b6", "self"}
MCFileOf == "a4" :> "tcp" @@ "a6" :> "tcp6" @@ "b6" :> "tcp6" @@ "self" :> "tcp"
MCPortOf == "a4" :> 1 @@ "a6" :> 1 @@ "b6" :> 2 @@ "self" :> 3
MCUidOf == "a4" :> 7 @@ "a6" :> 8 @@ "b6" :> 7 @@ "self" :> 7
MCNameOf == "a4" :> "node" @@ "a6" :> "vite" @@ "b6" :> NoName @@ "self" :> "dbr"
===============================================================================
