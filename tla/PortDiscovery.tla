---------------------------- MODULE PortDiscovery ----------------------------
(***************************************************************************)
(* What one scan of the container's /proc finds (container/scanner.rs) and *)
(* which of it is forwarded (container/filter.rs).  A socket stands for a  *)
(* line of /proc/net/tcp or tcp6; the text of the lines is left out, and   *)
(* with it the lines that do not parse or are not in state LISTEN.         *)
(***************************************************************************)
EXTENDS Naturals, FiniteSets, Functions

CONSTANTS
  Sockets,       \* listening sockets of the container
  FileOf,        \* the /proc file that lists a socket: "tcp" or "tcp6"
  PortOf,        \* its port
  UidOf,         \* its owner
  NameOf,        \* the process behind its inode, NoName if no /proc/<pid>/fd shows it
  Euid,          \* effective uid of the daemon, NoUid if it cannot be read
  ExcludePorts,  \* configured exclusions
  IncludePorts,  \* configured allow list; empty means every port
  SelfPorts,     \* the daemon's control and data port
  NoName, NoUid

ASSUME DiscoveryAssumption ==
  /\ IsFiniteSet(Sockets) /\ FileOf \in [Sockets -> {"tcp", "tcp6"}]
  /\ PortOf \in [Sockets -> Nat]
  /\ UidOf \in [Sockets -> Nat]
  /\ DOMAIN NameOf = Sockets
  /\ NoUid \notin Nat

\* run(): the daemon's own ports are never forwarded.
Excluded == ExcludePorts \cup SelfPorts

\* parse_proc_net_tcp on one file.
Listed(file, open) == {s \in open : FileOf[s] = file}

\* The first socket of each port: tcp is read before tcp6, and within a file
\* the order of the lines decides.
Reported(files, open) ==
  LET first(p) == LET in4 == {s \in Listed("tcp", open) : PortOf[s] = p}
                      in6 == {s \in Listed("tcp6", open) : PortOf[s] = p}
                  IN  CHOOSE s \in (IF "tcp" \in files /\ in4 # {} THEN in4 ELSE in6) : TRUE
  IN  {first(p) : p \in {PortOf[s] : s \in {t \in open : FileOf[t] \in files}} \ Excluded}

\* The sockets whose process is worth looking up: another user's descriptors
\* cannot be read, and a port that is forwarded already has its name.
Wanted(sockets, resolved) ==
  {s \in sockets : PortOf[s] \notin resolved /\ Euid \in {NoUid, 0, UidOf[s]}}

\* resolve_inodes, best effort.
ResolveInodes(wanted) == {s \in wanted : NameOf[s] # NoName}

\* scan_listening_ports: port |-> process name.  Only called when one of the
\* two files could be read.
ScanListeningPorts(files, open, resolved) ==
  LET sockets == Reported(files, open)
      found == ResolveInodes(Wanted(sockets, resolved))
      of(p) == CHOOSE s \in sockets : PortOf[s] = p
  IN  [p \in {PortOf[s] : s \in sockets} |-> IF of(p) \in found THEN NameOf[of(p)] ELSE NoName]

\* PortFilter::should_forward; run() passes no process pattern.
ShouldForward(p) ==
  /\ p \notin Excluded
  /\ IncludePorts # {} => p \in IncludePorts

\* PortFilter::filter.
Filter(found) == Restrict(found, {p \in DOMAIN found : ShouldForward(p)})
------------------------------------------------------------------------------
\* What the scan is for: every port somebody listens on, whatever the address
\* family, unless it is excluded or missing from a non-empty allow list.
WantedPorts(open) ==
  {p \in {PortOf[s] : s \in open} \ (ExcludePorts \cup SelfPorts) :
     IncludePorts = {} \/ p \in IncludePorts}
==============================================================================
