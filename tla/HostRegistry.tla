---------------------------- MODULE HostRegistry ----------------------------
(***************************************************************************)
(* The host daemon's registry (src/host/mod.rs): the containers that are   *)
(* registered, the ports each forwards, the host ports in use, the         *)
(* listeners bound for them, and the control-connection tasks that change  *)
(* all of these concurrently.                                              *)
(*                                                                         *)
(* HostState lives behind one async Mutex that the code takes and drops    *)
(* several times within one operation.  A step of this model is one such   *)
(* critical section, or one piece of work between two of them; what        *)
(* happens in the gaps is what the module is about.  The lock is a         *)
(* variable because three code paths keep it across an await that can      *)
(* last; two more (the RegisterAck of a refused registration, the          *)
(* SocketForwards sent to a new container) keep it across a socket write,  *)
(* which is taken to complete.                                             *)
(*                                                                         *)
(* A control connection is one task of run() and registers at most once,   *)
(* so the connection stands for the registration_id it draws from          *)
(* NEXT_REGISTRATION_ID: the code only compares those ids for equality.    *)
(***************************************************************************)
EXTENDS PortSpace, FiniteSets

CONSTANTS
  Conns,          \* control connections: one handle_control_connection task each
  Cids,           \* container ids
  CidOf,          \* the container id a connection's Register message carries
  Ports,          \* container ports the containers listen on
  MaxContainers,  \* MAX_CONTAINERS (64)
  MaxForwards,    \* MAX_FORWARDS_PER_CONTAINER (128)
  ExitOnIdle,     \* --exit-on-idle
  Main,           \* the task of run() itself, as an owner of the lock
  None

ASSUME RegistryAssumption ==
  /\ CidOf \in [Conns -> Cids]
  /\ Ports \subseteq HostPorts
  /\ MaxContainers \in Nat /\ MaxForwards \in Nat
  /\ ExitOnIdle \in BOOLEAN
  /\ Main \notin Conns
  /\ None \notin Conns \cup Cids \cup {Main} \cup HostPorts \X {"v4", "v6"} \cup Cids \X Ports

\* A listening socket of the daemon: bind_loopback binds 127.0.0.1 or [::1].
Sockets == HostPorts \X {"v4", "v6"}

VARIABLES
  owner,     \* owner[c]: the connection whose ContainerState is in containers
  forwards,  \* forwards[c][p]: the listener of c's ForwardState for p
  used,      \* used_host_ports
  sock,      \* sock[l]: "free", "open", or "closing" (told to stop, still bound)
  browser,   \* BrowserOpener::port_map: container port -> host port
  lock,      \* the task that holds the state lock across an await
  daemon,    \* run(): "running" its select loop, "stopping", "draining", "stopped"
  shutdownQueue, \* messages in daemon_shutdown_rx (capacity 1)
  pc,        \* where each connection task is
  port,      \* the container port of the request it is working on
  dropped,   \* the container ports whose forwards it has taken out of the table
  target,    \* the host port it has reserved
  lsock,     \* the listener it has bound and not yet tabled
  wait       \* the listeners whose JoinHandle it awaits (Main: in draining)

table == <<owner, forwards, used>>
locals == <<port, dropped, target, lsock>>
main == <<daemon, shutdownQueue>>
vars == <<owner, forwards, used, sock, browser, lock, daemon, shutdownQueue,
          pc, port, dropped, target, lsock, wait>>

Init ==
  /\ owner = [c \in Cids |-> None]
  /\ forwards = [c \in Cids |-> [p \in Ports |-> None]]
  /\ used = [q \in HostPorts |-> None]
  /\ sock = [l \in Sockets |-> "free"]
  /\ browser = [p \in Ports |-> NoPort]
  /\ lock = None
  /\ daemon = "running"
  /\ shutdownQueue = 0
  /\ pc = [h \in Conns |-> "new"]
  /\ port = [h \in Conns |-> NoPort]
  /\ dropped = [h \in Conns |-> {}]
  /\ target = [h \in Conns |-> NoPort]
  /\ lsock = [h \in Conns |-> None]
  /\ wait = [t \in Conns \cup {Main} |-> {}]

Registered == {c \in Cids : owner[c] # None}
Forwarded(c) == {p \in Ports : forwards[c][p] # None}
Listeners(c) == {forwards[c][p] : p \in Forwarded(c)}

\* A task moves on, as long as the process is there.
Goto(h, label) ==
  /\ daemon # "stopped"
  /\ pc' = [pc EXCEPT ![h] = label]

\* The handler of a request returns to the message loop; its locals are gone.
Return(h) ==
  /\ Goto(h, "serving")
  /\ port' = [port EXCEPT ![h] = NoPort]
  /\ target' = [target EXCEPT ![h] = NoPort]

\* Release: used_host_ports.remove(&fstate.host_port) for the listeners in S.
Release(S) ==
  used' = [q \in HostPorts |-> IF \E l \in S : l[1] = q THEN None ELSE used[q]]

\* Stop: shutdown_tx.send(true), or the sender dropped with its ForwardState;
\* either ends the accept loop, the socket staying bound until the loop runs.
Stop(S) ==
  sock' = [l \in Sockets |-> IF l \in S THEN "closing" ELSE sock[l]]

\* c's ForwardStates taken out of the table.
Empty(c) ==
  forwards' = [forwards EXCEPT ![c] = [p \in Ports |-> None]]

Remove(c, p) ==
  forwards' = [forwards EXCEPT ![c][p] = None]

\* Mutant of TearDown: the listeners are not told.
TearDownNoStop(h, c) ==
  /\ owner' = [owner EXCEPT ![c] = None]
  /\ Empty(c) /\ Release(Listeners(c)) /\ UNCHANGED sock
  /\ dropped' = [dropped EXCEPT ![h] = Forwarded(c)]
  /\ wait' = [wait EXCEPT ![h] = {}]

\* Task h removes c's ContainerState under the lock, frees its host ports and
\* stops its listeners; h will await them outside the lock.
TearDown(h, c) ==
  /\ owner' = [owner EXCEPT ![c] = None]
  /\ Empty(c) /\ Release(Listeners(c)) /\ Stop(Listeners(c))
  /\ dropped' = [dropped EXCEPT ![h] = Forwarded(c)]
  /\ wait' = [wait EXCEPT ![h] = Listeners(c)]

\* The listener task notices the stop signal and drops its socket; whoever
\* awaits its JoinHandle can go on.
CloseListener(l) ==
  /\ sock[l] = "closing" /\ daemon # "stopped"
  /\ sock' = [sock EXCEPT ![l] = "free"]
  /\ wait' = [t \in Conns \cup {Main} |-> wait[t] \ {l}]
  /\ UNCHANGED <<table, browser, lock, main, pc, locals>>
------------------------------------------------------------------------------
(* Registration *)

\* First critical section of Register (identifiers and token are valid): the
\* limit, and the removal of a previous registration of the same container.
Register(h) ==
  LET c == CidOf[h] IN
  /\ pc[h] = "new" /\ lock = None
  /\ IF owner[c] = None
     THEN /\ IF Cardinality(Registered) >= MaxContainers
             THEN Goto(h, "done")           \* RegisterAck { success: false }
             ELSE Goto(h, "regAck")
          /\ UNCHANGED <<table, sock, dropped, wait>>
     ELSE TearDown(h, c) /\ Goto(h, "regUnmap")
  /\ UNCHANGED <<browser, lock, main, port, target, lsock>>

\* A first message that changes nothing: a refused Register (identifier or
\* token), ListRequest, Ping, OpenUrl, a refused Shutdown, a timeout or EOF.
OneShot(h) ==
  /\ pc[h] = "new"
  /\ Goto(h, "done")
  /\ UNCHANGED <<table, sock, browser, lock, main, locals, wait>>

\* RegisterAck { success: true }; the peer may be gone, and the `?` then
\* leaves without inserting anything.
AckRegistration(h) ==
  /\ pc[h] = "regAck"
  /\ \/ Goto(h, "regInsert")
     \/ Goto(h, "done")
  /\ UNCHANGED <<table, sock, browser, lock, main, locals, wait>>

\* Second critical section of Register: containers.insert.  A ContainerState
\* that is there already is dropped, and with it the senders of its listeners;
\* its host ports stay in used_host_ports.
Insert(h) ==
  LET c == CidOf[h] IN
  /\ pc[h] = "regInsert" /\ lock = None
  /\ owner' = [owner EXCEPT ![c] = h]
  /\ Empty(c) /\ Stop(Listeners(c))
  /\ Goto(h, "serving")
  /\ UNCHANGED <<used, browser, lock, main, locals, wait>>
------------------------------------------------------------------------------
(* Forward *)

\* The ownership check of dispatch_container_message, for either request.
Receive(h, p, label) ==
  /\ pc[h] = "serving" /\ lock = None
  /\ IF owner[CidOf[h]] = h
     THEN Goto(h, label) /\ port' = [port EXCEPT ![h] = p]
     ELSE Goto(h, "cleanup") /\ UNCHANGED port
  /\ UNCHANGED <<table, sock, browser, lock, main, dropped, target, lsock, wait>>

ReceiveForward(h, p) == Receive(h, p, "fwdLimit")

\* Mutant of ForwardLimit: the replaced forward keeps its host port booked.
ForwardLimitLeaks(h) ==
  LET c == CidOf[h]
      p == port[h]
  IN
  /\ pc[h] = "fwdLimit" /\ lock = None
  /\ Remove(c, p)
  /\ wait' = [wait EXCEPT ![h] = {forwards[c][p]} \ {None}]
  /\ Goto(h, "fwdStop")
  /\ UNCHANGED <<owner, used, sock, browser, lock, main, locals>>

\* Mutant of ForwardLimit: no limit.
ForwardLimitUnlimited(h) ==
  /\ pc[h] = "fwdLimit" /\ lock = None
  /\ forwards[CidOf[h]][port[h]] = None
  /\ Goto(h, "fwdReserve")
  /\ UNCHANGED <<table, sock, browser, lock, main, locals, wait>>

\* handle_forward, first critical section: the limit, and the removal of an
\* existing forward of the same port - of whichever registration is current.
ForwardLimit(h) ==
  LET c == CidOf[h]
      p == port[h]
  IN
  /\ pc[h] = "fwdLimit" /\ lock = None
  /\ IF forwards[c][p] # None
     THEN /\ Remove(c, p) /\ Release({forwards[c][p]})
          /\ wait' = [wait EXCEPT ![h] = {forwards[c][p]}]
          /\ Goto(h, "fwdStop") /\ UNCHANGED <<port, target>>
     ELSE /\ IF Cardinality(Forwarded(c)) >= MaxForwards /\ owner[c] # None
             THEN Return(h)                 \* ForwardAck { success: false }
             ELSE Goto(h, "fwdReserve") /\ UNCHANGED <<port, target>>
          /\ UNCHANGED <<forwards, used, wait>>
  /\ UNCHANGED <<owner, sock, browser, lock, main, dropped, lsock>>

\* Mutant of ForwardReserve: the port is chosen but not reserved.
ForwardReserveUnbooked(h) ==
  /\ pc[h] = "fwdReserve" /\ lock = None
  /\ \E q \in FindAvailablePort({r \in HostPorts : used[r] # None}, port[h]) \ {NoPort} :
       target' = [target EXCEPT ![h] = q]
  /\ Goto(h, "fwdBind")
  /\ UNCHANGED <<table, sock, browser, lock, main, port, dropped, lsock, wait>>

\* handle_forward, second critical section: choose and reserve a host port.
ForwardReserve(h) ==
  /\ pc[h] = "fwdReserve" /\ lock = None
  /\ \E q \in FindAvailablePort({r \in HostPorts : used[r] # None}, port[h]) :
       IF q = NoPort
       THEN Return(h) /\ UNCHANGED used
       ELSE /\ used' = [used EXCEPT ![q] = CidOf[h]]
            /\ target' = [target EXCEPT ![h] = q]
            /\ Goto(h, "fwdBind") /\ UNCHANGED port
  /\ UNCHANGED <<owner, forwards, sock, browser, lock, main, dropped, lsock, wait>>

\* start_listener, outside the lock: 127.0.0.1 first, then [::1].  A socket
\* the daemon has not bound may be taken by another process, so a free one
\* may fail as well.
ForwardBind(h) ==
  /\ pc[h] = "fwdBind"
  /\ \/ \E f \in {"v4", "v6"} :
          /\ sock[<<target[h], f>>] = "free"
          /\ sock' = [sock EXCEPT ![<<target[h], f>>] = "open"]
          /\ lsock' = [lsock EXCEPT ![h] = <<target[h], f>>]
          /\ Goto(h, "fwdCommit")
     \/ Goto(h, "fwdRelease") /\ UNCHANGED <<sock, lsock>>
  /\ UNCHANGED <<table, browser, lock, main, port, dropped, target, wait>>

\* Mutant of ForwardRelease: the requested port is released, not the chosen one.
ForwardReleaseWrongPort(h) ==
  /\ pc[h] = "fwdRelease" /\ lock = None
  /\ used' = [used EXCEPT ![port[h]] = None]
  /\ Return(h)
  /\ UNCHANGED <<owner, forwards, sock, browser, lock, main, dropped, lsock, wait>>

\* The bind failed: give the reservation back.
ForwardRelease(h) ==
  /\ pc[h] = "fwdRelease" /\ lock = None
  /\ used' = [used EXCEPT ![target[h]] = None]
  /\ Return(h)
  /\ UNCHANGED <<owner, forwards, sock, browser, lock, main, dropped, lsock, wait>>

\* handle_forward, last critical section: table the forward for whatever
\* registration of the container is current; if there is none, stop the
\* listener and await it with the lock still held.
ForwardCommit(h) ==
  LET c == CidOf[h]
      p == port[h]
  IN
  /\ pc[h] = "fwdCommit" /\ lock = None
  /\ IF owner[c] # None
     THEN /\ forwards' = [forwards EXCEPT ![c][p] = lsock[h]]
          /\ Stop({forwards[c][p]})
          /\ Goto(h, "fwdMap")
          /\ UNCHANGED <<used, lock, wait>>
     ELSE /\ Release({lsock[h]}) /\ Stop({lsock[h]})
          /\ wait' = [wait EXCEPT ![h] = {lsock[h]}]
          /\ lock' = h
          /\ Goto(h, "fwdGone")
          /\ UNCHANGED forwards
  /\ lsock' = [lsock EXCEPT ![h] = None]
  /\ UNCHANGED <<owner, browser, main, port, dropped, target>>

\* Mutant of ForwardGone: the early return keeps the lock.
ForwardGoneKeepsLock(h) ==
  /\ pc[h] = "fwdGone" /\ wait[h] = {}
  /\ Return(h)
  /\ UNCHANGED <<table, sock, browser, lock, main, dropped, lsock, wait>>

\* The orphaned listener is gone: ForwardError::ContainerGone.
ForwardGone(h) ==
  /\ pc[h] = "fwdGone" /\ wait[h] = {}
  /\ lock' = None
  /\ Return(h)
  /\ UNCHANGED <<table, sock, browser, main, dropped, lsock, wait>>

\* Success: the browser's map, then ForwardAck { success: true }.
ForwardMap(h) ==
  /\ pc[h] = "fwdMap"
  /\ browser' = [browser EXCEPT ![port[h]] = target[h]]
  /\ Return(h)
  /\ UNCHANGED <<table, sock, lock, main, dropped, lsock, wait>>
------------------------------------------------------------------------------
(* Unforward, from the container and from `dbr unforward` *)

ReceiveUnforward(h, p) == Receive(h, p, "unfRemove")

UnforwardRemove(h) ==
  LET c == CidOf[h]
      p == port[h]
      S == {forwards[c][p]} \ {None}
  IN
  /\ pc[h] = "unfRemove" /\ lock = None
  /\ Remove(c, p) /\ Release(S)
  /\ wait' = [wait EXCEPT ![h] = S]
  /\ dropped' = [dropped EXCEPT ![h] = {p}]
  /\ Goto(h, "unfStop")
  /\ UNCHANGED <<owner, sock, browser, lock, main, port, target, lsock>>

\* handle_unforward_global: the first container the HashMap iteration meets
\* that forwards p, whoever asked.
AdminUnforward(h, p) ==
  /\ pc[h] = "new" /\ lock = None
  /\ \/ /\ \A c \in Cids : forwards[c][p] = None
        /\ Goto(h, "done")
        /\ UNCHANGED <<forwards, used, wait, dropped>>
     \/ \E c \in Cids :
          /\ forwards[c][p] # None
          /\ Remove(c, p) /\ Release({forwards[c][p]})
          /\ wait' = [wait EXCEPT ![h] = {forwards[c][p]}]
          /\ dropped' = [dropped EXCEPT ![h] = {p}]
          /\ Goto(h, "admUnmap")
  /\ UNCHANGED <<owner, sock, browser, lock, main, port, target, lsock>>
------------------------------------------------------------------------------
(* Disconnect *)

\* EOF, a failed send, or four heartbeats without a Pong end the message loop.
Disconnect(h) ==
  /\ pc[h] = "serving"
  /\ Goto(h, "cleanup")
  /\ UNCHANGED <<table, sock, browser, lock, main, locals, wait>>

\* Mutant of Cleanup: the registration id is not compared.
CleanupUnchecked(h) ==
  /\ pc[h] = "cleanup" /\ lock = None
  /\ TearDown(h, CidOf[h]) /\ Goto(h, "clnUnmap")
  /\ UNCHANGED <<browser, lock, main, port, target, lsock>>

\* Mutant of Cleanup: a superseded connection skips the exit-on-idle check.
CleanupStaleLeaves(h) ==
  LET c == CidOf[h] IN
  /\ pc[h] = "cleanup" /\ lock = None
  /\ IF owner[c] # h
     THEN Goto(h, "left") /\ UNCHANGED <<table, sock, dropped, wait>>
     ELSE TearDown(h, c) /\ Goto(h, "clnUnmap")
  /\ UNCHANGED <<browser, lock, main, port, target, lsock>>

\* cleanup_container, critical section.
Cleanup(h) ==
  LET c == CidOf[h] IN
  /\ pc[h] = "cleanup" /\ lock = None
  /\ IF owner[c] # h
     THEN Goto(h, "idleCheck") /\ UNCHANGED <<table, sock, dropped, wait>>
     ELSE TearDown(h, c) /\ Goto(h, "clnUnmap")
  /\ UNCHANGED <<browser, lock, main, port, target, lsock>>

\* The shared tails of the teardowns: the listener is told to stop (where that
\* was not done under the lock), the browser's mappings go, the listener tasks
\* are awaited, the clients are drained (bounded by the drain timeout).
AfterStop == [fwdStop |-> "fwdDrain", unfStop |-> "unfDrain", admStop |-> "admDrain"]
AfterUnmap == [regUnmap |-> "regDrain", unfUnmap |-> "serving",
               admUnmap |-> "admStop", clnUnmap |-> "clnDrain"]
AfterDrain == [regDrain |-> "regAck", fwdDrain |-> "fwdReserve", unfDrain |-> "unfUnmap",
               admDrain |-> "done", clnDrain |-> "idleCheck"]

StopRemoved(h) ==
  /\ pc[h] \in DOMAIN AfterStop
  /\ Stop(wait[h])
  /\ Goto(h, AfterStop[pc[h]])
  /\ UNCHANGED <<table, browser, lock, main, locals, wait>>

Unmap(h) ==
  /\ pc[h] \in DOMAIN AfterUnmap
  /\ browser' = [p \in Ports |-> IF p \in dropped[h] THEN NoPort ELSE browser[p]]
  /\ dropped' = [dropped EXCEPT ![h] = {}]
  /\ port' = [port EXCEPT ![h] = NoPort]
  /\ Goto(h, AfterUnmap[pc[h]])
  /\ UNCHANGED <<table, sock, lock, main, target, lsock, wait>>

Drained(h) ==
  /\ pc[h] \in DOMAIN AfterDrain
  /\ wait[h] = {}
  /\ Goto(h, AfterDrain[pc[h]])
  /\ UNCHANGED <<table, sock, browser, lock, main, locals, wait>>

\* The exit-on-idle check: the shutdown message is sent with the lock held,
\* and the send waits while the queue is full.
IdleCheck(h) ==
  /\ pc[h] = "idleCheck" /\ lock = None
  /\ IF ExitOnIdle /\ Registered = {}
     THEN Goto(h, "idleSend") /\ lock' = h
     ELSE Goto(h, "left") /\ UNCHANGED lock
  /\ UNCHANGED <<table, sock, browser, main, locals, wait>>

IdleSend(h) ==
  /\ pc[h] = "idleSend" /\ shutdownQueue = 0
  /\ shutdownQueue' = 1
  /\ lock' = None
  /\ Goto(h, "left")
  /\ UNCHANGED <<table, sock, browser, daemon, locals, wait>>
------------------------------------------------------------------------------
(* Shutdown *)

\* A Shutdown message with a valid token (`dbr stop`).
ReceiveShutdown(h) ==
  /\ pc[h] = "new" /\ shutdownQueue = 0
  /\ shutdownQueue' = 1
  /\ Goto(h, "done")
  /\ UNCHANGED <<table, sock, browser, lock, daemon, locals, wait>>

\* The select loop ends on a queued message ...
TakeShutdown ==
  /\ daemon = "running" /\ shutdownQueue = 1
  /\ shutdownQueue' = 0
  /\ daemon' = "stopping"
  /\ UNCHANGED <<table, sock, browser, lock, pc, locals, wait>>

\* ... or on SIGINT or SIGTERM.
Signal ==
  /\ daemon = "running"
  /\ daemon' = "stopping"
  /\ UNCHANGED <<table, sock, browser, lock, shutdownQueue, pc, locals, wait>>

\* drain_all_forwards, the state lock held from here to the end of run().
DrainAll ==
  LET S == UNION {Listeners(c) : c \in Cids} IN
  /\ daemon = "stopping" /\ lock = None
  /\ lock' = Main
  /\ daemon' = "draining"
  /\ owner' = [c \in Cids |-> None]
  /\ forwards' = [c \in Cids |-> [p \in Ports |-> None]]
  /\ used' = [q \in HostPorts |-> None]
  /\ Stop(S)
  /\ browser' = [p \in Ports |-> IF \E c \in Cids : forwards[c][p] # None
                                 THEN NoPort ELSE browser[p]]
  /\ wait' = [wait EXCEPT ![Main] = S]
  /\ UNCHANGED <<shutdownQueue, pc, locals>>

Exit ==
  /\ daemon = "draining" /\ wait[Main] = {}
  /\ daemon' = "stopped"
  /\ UNCHANGED <<table, sock, browser, lock, shutdownQueue, pc, locals, wait>>

\* The process is gone: nothing happens any more.
Stopped == daemon = "stopped" /\ UNCHANGED vars
------------------------------------------------------------------------------
\* What the peers and the operator do.
Input(h) ==
  \/ Register(h) \/ OneShot(h) \/ ReceiveShutdown(h) \/ Disconnect(h)
  \/ \E p \in Ports : ReceiveForward(h, p) \/ ReceiveUnforward(h, p) \/ AdminUnforward(h, p)

\* What a task does by itself once it has a request in hand.
Work(h) ==
  \/ AckRegistration(h) \/ Insert(h)
  \/ ForwardLimit(h) \/ ForwardReserve(h) \/ ForwardBind(h) \/ ForwardRelease(h)
  \/ ForwardCommit(h) \/ ForwardGone(h) \/ ForwardMap(h)
  \/ UnforwardRemove(h) \/ Cleanup(h)
  \/ StopRemoved(h) \/ Unmap(h) \/ Drained(h)
  \/ IdleCheck(h) \/ IdleSend(h)

MainStep == TakeShutdown \/ DrainAll \/ Exit

Next ==
  \/ \E h \in Conns : Input(h) \/ Work(h)
  \/ \E l \in Sockets : CloseListener(l)
  \/ MainStep \/ Signal \/ Stopped

\* The tokio runtime polls every task that can run; peers owe nothing.
Fairness ==
  /\ \A h \in Conns : WF_vars(Work(h))
  /\ \A l \in Sockets : WF_vars(CloseListener(l))
  /\ WF_vars(MainStep)

Spec == Init /\ [][Next]_vars /\ Fairness
------------------------------------------------------------------------------
Labels ==
  {"new", "regUnmap", "regDrain", "regAck", "regInsert", "serving",
   "fwdLimit", "fwdStop", "fwdDrain", "fwdReserve", "fwdBind", "fwdRelease",
   "fwdCommit", "fwdGone", "fwdMap", "unfRemove", "unfStop", "unfDrain", "unfUnmap",
   "admUnmap", "admStop", "admDrain", "cleanup", "clnUnmap", "clnDrain",
   "idleCheck", "idleSend", "left", "done"}

\* The labels of a task inside handle_container_messages.
InSession ==
  {"serving", "fwdLimit", "fwdStop", "fwdDrain", "fwdReserve", "fwdBind",
   "fwdRelease", "fwdCommit", "fwdGone", "fwdMap", "unfRemove", "unfStop",
   "unfDrain", "unfUnmap", "cleanup"}

TypeOK ==
  /\ owner \in [Cids -> Conns \cup {None}]
  /\ forwards \in [Cids -> [Ports -> Sockets \cup {None}]]
  /\ used \in [HostPorts -> Cids \cup {None}]
  /\ sock \in [Sockets -> {"free", "open", "closing"}]
  /\ browser \in [Ports -> HostPorts \cup {NoPort}]
  /\ lock \in Conns \cup {Main, None}
  /\ daemon \in {"running", "stopping", "draining", "stopped"}
  /\ shutdownQueue \in {0, 1}
  /\ pc \in [Conns -> Labels]
  /\ port \in [Conns -> Ports \cup {NoPort}]
  /\ dropped \in [Conns -> SUBSET Ports]
  /\ target \in [Conns -> HostPorts \cup {NoPort}]
  /\ lsock \in [Conns -> Sockets \cup {None}]
  /\ wait \in [Conns \cup {Main} -> SUBSET Sockets]

\* The tasks that hold a reservation of a host port not yet in the table.
Reserving == {h \in Conns : pc[h] \in {"fwdBind", "fwdRelease", "fwdCommit"}}

\* No two forwards ever share a host port, whichever containers they belong to
\* and whichever connection - current or superseded - tabled them; and a port a
\* task has reserved and is about to bind is in nobody's forward (the purpose
\* of used_host_ports and of reserving under the lock in handle_forward).
HostPortsExclusive ==
  /\ \A c, d \in Cids, p, r \in Ports :
       /\ forwards[c][p] # None
       /\ forwards[d][r] # None
       /\ forwards[c][p][1] = forwards[d][r][1]
       => c = d /\ p = r
  /\ \A h \in Reserving, c \in Cids, p \in Ports :
       forwards[c][p] # None /\ lock # Main => forwards[c][p][1] # target[h]
  /\ \A g, h \in Reserving : target[g] = target[h] /\ lock # Main => g = h

\* Whatever the interleaving of registrations, forwards and teardowns, a
\* forward in the table belongs to a registered container, its listener
\* accepts clients, and its host port is booked to that container: no critical
\* section of another task stops a listener or frees a port that is in use.
ForwardIsServed ==
  \A c \in Cids, p \in Ports : forwards[c][p] # None =>
    /\ owner[c] # None
    /\ sock[forwards[c][p]] = "open"
    /\ used[forwards[c][p][1]] = c

\* No listener is orphaned: one that accepts clients is a tabled forward's, or
\* a task has just bound it and will table or stop it, or a task has taken it
\* out of the table and is about to stop it.
NoOrphanListener ==
  \A l \in Sockets : sock[l] = "open" =>
    \/ \E c \in Cids, p \in Ports : forwards[c][p] = l
    \/ \E h \in Conns : pc[h] = "fwdCommit" /\ lsock[h] = l
    \/ \E h \in Conns : pc[h] \in {"fwdStop", "unfStop", "admUnmap", "admStop"} /\ l \in wait[h]

\* A registered container always has a live task behind it that will clean it
\* up: a connection that failed, left or was superseded is in nobody's entry.
NoZombieRegistration ==
  \A c \in Cids : owner[c] # None =>
    CidOf[owner[c]] = c /\ pc[owner[c]] \in InSession

\* A registration lasts until its own connection ends, a new connection of the
\* same container takes over, or the daemon stops: the late disconnect handler
\* of a superseded connection never takes the newer registration away.
RegistrationKept ==
  [][\A c \in Cids :
       owner[c] # None /\ owner'[c] # owner[c] =>
         \/ pc[owner[c]] = "cleanup" /\ pc'[owner[c]] = "clnUnmap"
         \/ \E g \in Conns :
              CidOf[g] = c /\ <<pc[g], pc'[g]>> \in {<<"new", "regUnmap">>, <<"regInsert", "serving">>}
         \/ daemon' = "draining"]_vars

\* --exit-on-idle: when at least one container was served and no connection is
\* in progress any more, the daemon has been told to stop - whichever of the
\* connections was the last, and whether or not it owned the entry.
LastOneStopsDaemon ==
  /\ ExitOnIdle
  /\ \A h \in Conns : pc[h] \in {"new", "left", "done"}
  /\ \E h \in Conns : pc[h] = "left"
  => shutdownQueue = 1 \/ daemon # "running"

\* A connection that ends gets through its cleanup, however the other tasks
\* hold the lock or the listeners it waits for.
CleanupCompletes ==
  \A h \in Conns : pc[h] = "cleanup" ~> (pc[h] = "left" \/ daemon # "running")

\* The lease of a host port, as far as a forward depends on it: the tabled
\* forward that listens there, or the one a task is setting up.
LeaseOf(q) ==
  LET tabled == {x \in Cids \X Ports : forwards[x[1]][x[2]] \in {<<q, "v4">>, <<q, "v6">>}}
      coming == {<<CidOf[h], port[h]>> : h \in {g \in Reserving : target[g] = q}}
  IN  IF tabled # {} THEN CHOOSE x \in tabled : TRUE
      ELSE IF coming # {} THEN CHOOSE x \in coming : TRUE
      ELSE None

Lease == INSTANCE PortLease WITH
  LeasePorts <- HostPorts, Holders <- Cids \X Ports, Nobody <- None,
  lease <- [q \in HostPorts |-> LeaseOf(q)]

\* The registry implements PortLease: through reservation, failed binds,
\* commits by superseded connections, replacement and teardown, a host port
\* never passes from one forward to another without being free in between.
LeaseRefinement == Lease!Spec
------------------------------------------------------------------------------
(* What holds as long as no container has two connections at a time. *)

\* handle_forward: "tear down any existing forward for this port so a duplicate
\* Forward doesn't leak the old used_host_ports entry".  Every host port in
\* used_host_ports is some forward's, or a task's that is setting one up.
NoLeakedPort ==
  \A q \in HostPorts : used[q] # None => LeaseOf(q) # None

\* MAX_FORWARDS_PER_CONTAINER, although the check and the insertion happen in
\* different critical sections.
ForwardLimitHolds ==
  \A c \in Cids : Cardinality(Forwarded(c)) <= MaxForwards
------------------------------------------------------------------------------
(* What the comments and documents say and the interleavings break. *)

\* SIGTERM: "Clean shutdown: signal all port listeners, drain active proxy
\* connections (with timeout), remove PID file, exit."
ShutdownCompletes == daemon = "stopping" ~> daemon = "stopped"
==============================================================================
