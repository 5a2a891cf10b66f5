-------------------------- MODULE SocketForwarding --------------------------
(***************************************************************************)
(* Unix sockets of the host mirrored into a container: the host's scanner  *)
(* (host/socket_scanner.rs, run_socket_scanner), its broadcast into the    *)
(* bounded queue of the container's session, the list of existing forwards *)
(* a new registration is sent, the container's mirrors and their socket    *)
(* files (container/socket.rs), and the clients of the mirrors.            *)
(*                                                                         *)
(* Socket ids are UUIDs: the numbers 1..Cardinality in order of discovery. *)
(* One container, which may register again and again.  The host's pending  *)
(* map and the bridge are those of ClientProxy.                            *)
(***************************************************************************)
EXTENDS Naturals, SequencesExt, FiniteSets

CONSTANTS
  HostPaths,       \* host paths the watch globs match
  ContainerPathOf, \* compute_container_path
  MaxSockets,      \* max_socket_forwards
  Queue,           \* capacity of outbound_msg_tx (64)
  Clients,         \* places for clients of mirror sockets at one time
  MaxIds,          \* bound on the sockets discovered
  MaxWire,         \* bound on the announcements on the connection when another is sent
  None

ASSUME SocketAssumption ==
  /\ MaxSockets \in Nat \ {0} /\ Queue \in Nat \ {0}
  /\ MaxIds \in Nat /\ MaxWire \in Nat \ {0}
  /\ IsFiniteSet(HostPaths) /\ DOMAIN ContainerPathOf = HostPaths
  /\ None \notin Nat

VARIABLES
  info,      \* SocketInfo of every id given out: its host path
  known,     \* ids the scanner tracks
  found,     \* the scan result that is not published yet
  forwards,  \* HostState::socket_forwards: ids
  outbox,    \* the broadcast under way: messages still to be tried
  target,    \* it has captured the sender of the current registration
  reg,       \* the container's registration: none, inserted, open
  queue,     \* its outbound_msg channel
  wire,      \* messages on the control connection
  mirrors,   \* the container's mirror_sockets: ids
  files,     \* container path |-> id of the mirror bound there, or Orphan
  stuck,     \* history: container paths where the last file operation went wrong
  missed,    \* history: ids whose announcement or removal this session lost
  shared,    \* history: container paths this session got for more than one id
  client,    \* where each client of a mirror is
  via,       \* the id of the mirror that accepted it
  pend       \* the host's side of its conn_id

scannerVars == <<info, known, found, forwards>>
castVars == <<outbox, target>>
hostVars == <<reg, queue>>
mirrorVars == <<mirrors, files, stuck, missed, shared>>
clientVars == <<client, via, pend>>
vars == <<info, known, found, forwards, outbox, target, reg, queue, wire,
          mirrors, files, stuck, missed, shared, client, via, pend>>

\* A socket file that was bound and whose listener is gone again; no socket id.
Orphan == 0
Paths == {ContainerPathOf[h] : h \in HostPaths}
PathOf(id) == ContainerPathOf[info[id]]
Nothing == [new |-> {}, gone |-> {}]
Msg(t, id) == [type |-> t, id |-> id]

Init ==
  /\ info = <<>> /\ known = {} /\ found = Nothing /\ forwards = {}
  /\ outbox = <<>> /\ target = FALSE
  /\ reg = "none" /\ queue = <<>> /\ wire = <<>>
  /\ mirrors = {} /\ files = [q \in Paths |-> None] /\ stuck = {}
  /\ missed = {} /\ shared = {}
  /\ client = [k \in Clients |-> "idle"]
  /\ via = [k \in Clients |-> None]
  /\ pend = [k \in Clients |-> "none"]
------------------------------------------------------------------------------
(* The scanner *)

\* The ids a scan gives out and takes back when it sees the sockets `seen' and
\* takes on the paths `new'.
Rescan(seen, new) ==
  LET gone == {id \in known : info[id] \notin seen} IN
  /\ Len(info) + Cardinality(new) <= MaxIds
  /\ info' = info \o SetToSeq(new)
  /\ known' = (known \ gone) \cup (Len(info) + 1 .. Len(info'))
  /\ found' = [new |-> Len(info) + 1 .. Len(info'), gone |-> gone]
  /\ UNCHANGED <<forwards, castVars, hostVars, wire, mirrorVars, clientVars>>

\* SocketScanner::scan, on whatever sockets there are at that time: what has
\* gone makes room first, then new paths get ids until the limit is reached.
\* (The length test and is_unix_socket decide what is a socket.)
Scan ==
  /\ found = Nothing /\ outbox = <<>>
  /\ \E seen \in SUBSET HostPaths :
       LET fresh == seen \ {info[id] : id \in known}
           room == MaxSockets - Cardinality({id \in known : info[id] \in seen})
       IN  \E new \in SUBSET fresh :
             /\ IF Cardinality(fresh) <= room THEN new = fresh ELSE Cardinality(new) = room
             /\ Rescan(seen, new)

\* Under the state lock: the senders of the registered containers and the
\* table of forwards; the messages follow after the lock, new sockets first
\* (in whichever order, each concerns its own id).
Publish ==
  /\ found # Nothing
  /\ forwards' = (forwards \cup found.new) \ found.gone
  /\ target' = (reg # "none")
  /\ outbox' = [i \in 1..Cardinality(found.new) |-> Msg("SocketForward", SetToSeq(found.new)[i])]
               \o [i \in 1..Cardinality(found.gone) |-> Msg("SocketUnforward", SetToSeq(found.gone)[i])]
  /\ found' = Nothing
  /\ UNCHANGED <<info, known, hostVars, wire, mirrorVars, clientVars>>

\* try_send: a full queue drops the message, a closed one does too.
Broadcast ==
  /\ outbox # <<>>
  /\ IF target
     THEN /\ queue' = IF Len(queue) < Queue THEN Append(queue, Head(outbox)) ELSE queue
          /\ missed' = IF Len(queue) < Queue THEN missed ELSE missed \cup {Head(outbox).id}
     ELSE UNCHANGED <<queue, missed>>
  /\ outbox' = Tail(outbox)
  /\ target' = (target /\ Len(outbox) > 1)
  /\ UNCHANGED <<scannerVars, reg, wire, mirrors, files, stuck, shared, clientVars>>
------------------------------------------------------------------------------
(* The container's session on the host *)

\* containers.insert with a fresh queue.
Insert ==
  /\ reg = "none"
  /\ reg' = "inserted" /\ queue' = <<>>
  /\ UNCHANGED <<scannerVars, castVars, wire, mirrorVars, clientVars>>

\* Mutant of SendExisting: a new container only hears of sockets found later.
SendExistingNone ==
  /\ reg = "inserted"
  /\ reg' = "open"
  /\ UNCHANGED <<scannerVars, castVars, queue, wire, mirrorVars, clientVars>>

\* The existing forwards are sent directly, before the session's loop starts,
\* with the state lock held.
SendExisting ==
  /\ reg = "inserted"
  /\ wire' = wire \o [i \in 1..Cardinality(forwards) |-> Msg("SocketForward", SetToSeq(forwards)[i])]
  /\ reg' = "open"
  /\ UNCHANGED <<scannerVars, castVars, queue, mirrorVars, clientVars>>

\* The outbound branch of handle_container_messages.
SendOutbound ==
  /\ reg = "open" /\ queue # <<>> /\ Len(wire) < MaxWire
  /\ wire' = Append(wire, Head(queue))
  /\ queue' = Tail(queue)
  /\ UNCHANGED <<scannerVars, castVars, reg, mirrorVars, clientVars>>

\* The control connection goes: the host drops the queue with the entry, and a
\* sender captured before leads nowhere; the container removes its mirrors and
\* their files (or not, if the system refuses or the daemon is killed), their
\* accept loops end with the senders, requests that were not relayed or not
\* read yet are abandoned.
Disconnect ==
  /\ reg # "none"
  /\ reg' = "none" /\ queue' = <<>> /\ wire' = <<>> /\ target' = FALSE
  /\ mirrors' = {}
  /\ LET mirrored == {PathOf(id) : id \in mirrors} IN
     \E failed \in SUBSET {q \in mirrored : files[q] # None} :
       /\ files' = [q \in Paths |-> IF q \in mirrored \ failed THEN None ELSE files[q]]
       /\ stuck' = (stuck \ mirrored) \cup failed
  /\ client' = [k \in Clients |-> IF client[k] = "queued" THEN "idle" ELSE client[k]]
  /\ pend' = [k \in Clients |-> IF pend[k] = "asked" THEN "none" ELSE pend[k]]
  /\ missed' = {} /\ shared' = {}
  /\ UNCHANGED <<scannerVars, outbox, via>>
------------------------------------------------------------------------------
(* The container's mirrors *)

Shared(id) == shared \cup {q \in {PathOf(id)} : \E other \in mirrors \ {id} : PathOf(other) = q}
Announced(id) == wire # <<>> /\ Head(wire) = Msg("SocketForward", id)

\* Mutant of RecvSocketForward: dropping the replaced mirror unlinks the file.
RecvSocketForwardUnlinks(id) ==
  /\ Announced(id)
  /\ mirrors' = mirrors \cup {id}
  /\ files' = [files EXCEPT ![PathOf(id)] = IF id \in mirrors THEN None ELSE id]
  /\ stuck' = stuck \ {PathOf(id)}
  /\ shared' = Shared(id)
  /\ wire' = Tail(wire)
  /\ UNCHANGED <<scannerVars, castVars, hostVars, missed, clientVars>>

\* create_mirror_socket: whatever is bound at the path is removed first.  The
\* same id may be announced twice, by the list and by the broadcast: the new
\* mirror replaces the old one.
RecvSocketForward(id) ==
  /\ Announced(id)
  /\ mirrors' = mirrors \cup {id}
  /\ files' = [files EXCEPT ![PathOf(id)] = id]
  /\ stuck' = stuck \ {PathOf(id)}
  /\ shared' = Shared(id)
  /\ wire' = Tail(wire)
  /\ UNCHANGED <<scannerVars, castVars, hostVars, missed, clientVars>>

\* Logged, never retried: the directory fails, or the old file cannot be
\* removed and the bind fails; the bind fails without the old file; or a step
\* after the bind fails, and the new file has no listener.
MirrorFails(id) ==
  /\ Announced(id)
  /\ \/ UNCHANGED <<files, stuck>>
     \/ files' = [files EXCEPT ![PathOf(id)] = None] /\ stuck' = stuck \ {PathOf(id)}
     \/ files' = [files EXCEPT ![PathOf(id)] = Orphan] /\ stuck' = stuck \cup {PathOf(id)}
  /\ missed' = missed \cup {id}
  /\ shared' = Shared(id)
  /\ wire' = Tail(wire)
  /\ UNCHANGED <<scannerVars, castVars, hostVars, mirrors, clientVars>>

\* Mutant of RecvSocketUnforward: the mirror goes, its file stays.
RecvSocketUnforwardFileStays(id) ==
  /\ wire # <<>> /\ Head(wire) = Msg("SocketUnforward", id)
  /\ mirrors' = mirrors \ {id}
  /\ wire' = Tail(wire)
  /\ UNCHANGED <<scannerVars, castVars, hostVars, files, stuck, missed, shared, clientVars>>

\* The mirror goes, and remove_mirror_socket deletes whatever file is at its
\* path; if that fails, the file stays and nobody will try again.
RecvSocketUnforward(id) ==
  /\ wire # <<>> /\ Head(wire) = Msg("SocketUnforward", id)
  /\ mirrors' = mirrors \ {id}
  /\ \/ id \notin mirrors /\ UNCHANGED <<files, stuck>>
     \/ /\ id \in mirrors
        /\ files' = [files EXCEPT ![PathOf(id)] = None] /\ stuck' = stuck \ {PathOf(id)}
     \/ /\ id \in mirrors /\ files[PathOf(id)] # None
        /\ UNCHANGED files /\ stuck' = stuck \cup {PathOf(id)}
  /\ wire' = Tail(wire)
  /\ UNCHANGED <<scannerVars, castVars, hostVars, missed, shared, clientVars>>
------------------------------------------------------------------------------
(* Clients of a mirror *)

\* The accept loop takes a connection; its task queues SocketConnectRequest.
ClientConnects(k, q) ==
  /\ client[k] = "idle" /\ pend[k] = "none" /\ files[q] # None /\ files[q] \in mirrors
  /\ client' = [client EXCEPT ![k] = "queued"]
  /\ via' = [via EXCEPT ![k] = files[q]]
  /\ UNCHANGED <<scannerVars, castVars, hostVars, wire, mirrorVars, pend>>

\* The container's session loop writes the request and confirms that to the task.
Relay(k) ==
  /\ client[k] = "queued" /\ reg # "none"
  /\ client' = [client EXCEPT ![k] = "sent"]
  /\ pend' = [pend EXCEPT ![k] = "asked"]
  /\ UNCHANGED <<scannerVars, castVars, hostVars, wire, mirrorVars, via>>

\* SocketConnectRequest at the host: the id must be known, the pending map not
\* full and the host socket reachable.  The container ignores ConnectFailed.
HostConnects(k) ==
  /\ pend[k] = "asked" /\ reg = "open"
  /\ \/ /\ via[k] \in forwards
        /\ pend' = [pend EXCEPT ![k] = "waiting"]
     \/ pend' = [pend EXCEPT ![k] = "none"]
  /\ UNCHANGED <<scannerVars, castVars, hostVars, wire, mirrorVars, client, via>>

\* The task connects the data port and sends ConnectReady; the host finds the
\* entry, also if the request comes a little later than the ConnectReady.
DataReady(k) ==
  /\ client[k] = "sent" /\ pend[k] = "waiting"
  /\ client' = [client EXCEPT ![k] = "bridged"]
  /\ pend' = [pend EXCEPT ![k] = "bridged"]
  /\ UNCHANGED <<scannerVars, castVars, hostVars, wire, mirrorVars, via>>

\* The data port is out of reach, or the host drops the data connection: there
\* is no entry, or none in time.
DataDropped(k) ==
  /\ client[k] = "sent"
  /\ client' = [client EXCEPT ![k] = "idle"]
  /\ UNCHANGED <<scannerVars, castVars, hostVars, wire, mirrorVars, via, pend>>

\* Mutant of BridgeTimeout: the clock starts when ConnectReady arrives.
BridgeTimeoutLate(k) ==
  /\ pend[k] = "waiting" /\ client[k] = "sent"
  /\ pend' = [pend EXCEPT ![k] = "none"]
  /\ UNCHANGED <<scannerVars, castVars, hostVars, wire, mirrorVars, client, via>>

\* bridge_connection gives up on a ConnectReady that does not come.
BridgeTimeout(k) ==
  /\ pend[k] = "waiting"
  /\ pend' = [pend EXCEPT ![k] = "none"]
  /\ UNCHANGED <<scannerVars, castVars, hostVars, wire, mirrorVars, client, via>>

\* Either end closes the bridge.
BridgeEnds(k) ==
  /\ client[k] = "bridged"
  /\ client' = [client EXCEPT ![k] = "idle"]
  /\ pend' = [pend EXCEPT ![k] = "none"]
  /\ UNCHANGED <<scannerVars, castVars, hostVars, wire, mirrorVars, via>>
------------------------------------------------------------------------------
Ids == 1..Len(info)
Scanner == Scan \/ Publish \/ Broadcast
Session == SendExisting \/ SendOutbound
Mirroring == \E id \in Ids : RecvSocketForward(id) \/ RecvSocketUnforward(id)
Serving(k) == Relay(k) \/ HostConnects(k) \/ DataReady(k) \/ DataDropped(k)

Next ==
  \/ Scanner \/ Insert \/ Session \/ Disconnect \/ Mirroring
  \/ \E id \in Ids : MirrorFails(id)
  \/ \E k \in Clients : \/ \E q \in Paths : ClientConnects(k, q)
                        \/ Serving(k) \/ BridgeTimeout(k) \/ BridgeEnds(k)

\* Tasks that can run are polled and timers fire; sockets, containers and the
\* clients of a bridge do as they like.
Fairness ==
  \A k \in Clients : WF_vars(Serving(k)) /\ WF_vars(BridgeTimeout(k))

Spec == Init /\ [][Next]_vars /\ Fairness
------------------------------------------------------------------------------
TypeOK ==
  /\ info \in Seq(HostPaths) /\ known \subseteq Ids /\ forwards \subseteq Ids
  /\ Cardinality(known) <= MaxSockets
  /\ reg \in {"none", "inserted", "open"}
  /\ Len(queue) <= Queue
  /\ mirrors \subseteq Ids
  /\ files \in [Paths -> Ids \cup {None, Orphan}] /\ stuck \subseteq Paths
  /\ client \in [Clients -> {"idle", "queued", "sent", "bridged"}]
  /\ pend \in [Clients -> {"none", "asked", "waiting", "bridged"}]

\* Nothing is on its way from the scanner to the container.
Settled == reg = "open" /\ found = Nothing /\ outbox = <<>> /\ queue = <<>> /\ wire = <<>>

\* Whatever the order of registration, scan, broadcast and list: once nothing
\* is on its way, the container mirrors exactly the host's forwards.  What the
\* full queue dropped or the container could not bind is all that is missing;
\* tables and queue keep to their limits.
MirrorsMatch ==
  TypeOK /\ (Settled => (mirrors \ forwards) \cup (forwards \ mirrors) \subseteq missed)

\* Then a mirror can also be reached at its path, announced once or twice,
\* unless two sockets had the same container path in this session (the prefix
\* keeps file names only): then removing one removes the file of the other.
MirrorReachable ==
  Settled => \A id \in mirrors \ missed : PathOf(id) \notin shared => files[PathOf(id)] = id

\* Every socket file in the container belongs to a mirror, through removed
\* sockets, replaced mirrors, shared paths and sessions that end, unless the last
\* file operation at its path failed: remove_file (only a warning), a step of
\* create_mirror_socket after its bind, or the removals of a daemon that was
\* killed.  The next mirror that is created at the path takes it back.
NoStaleFile ==
  \A q \in Paths : files[q] # None =>
    q \in stuck \/ (files[q] \in mirrors /\ PathOf(files[q]) = q)

\* A client of a mirror is bridged or let go, and the host keeps no entry for
\* it: whether the request or the ConnectReady comes first, the id is unknown,
\* the socket gone or the session ends.
ClientsSettle ==
  \A k \in Clients :
    client[k] = "queued" ~> client[k] = "bridged" \/ (client[k] = "idle" /\ pend[k] = "none")
==============================================================================
