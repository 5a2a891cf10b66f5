-------------------------- MODULE ContainerSession --------------------------
(***************************************************************************)
(* The container daemon (container/mod.rs): connect, register, re-forward, *)
(* the session's scan / receive / relay / shutdown loop, the drain of its  *)
(* connect handlers, the back-off - against the host's side of the same    *)
(* control connection (dispatch_container_message), reduced to the ports   *)
(* it has forwarded for this container.  A message that the task of a      *)
(* superseded connection had in hand goes on working on the container's    *)
(* newer entry.                                                            *)
(*                                                                         *)
(* The connect handlers of the session are part of ClientProxy, its mirror *)
(* sockets of SocketForwarding, the framing of the connection of           *)
(* ControlChannel.  The environment (sockets that open and close, links    *)
(* that break, hosts that refuse, `dbr unforward`, the death of the        *)
(* process, which the entrypoint of the feature restarts) acts MaxFaults   *)
(* times; after that things stay as they are, and the daemon has to        *)
(* converge.                                                               *)
(***************************************************************************)
EXTENDS PortDiscovery, SequencesExt

CONSTANTS
  HostAddr,    \* config.host_addr: "ip", "name" or "unset"
  Initial,     \* Backoff::initial (100 ms)
  MaxDelay,    \* Backoff::max (5 s)
  MaxQueue,    \* bound on the messages in flight when a scan starts or an answer is sent
  Steady,      \* sockets that listen all the time
  MaxFaults    \* bound on what the environment does

ASSUME SessionAssumption ==
  /\ HostAddr \in {"ip", "name", "unset"}
  /\ Initial \in Nat \ {0} /\ MaxDelay \in Nat /\ Initial <= MaxDelay
  /\ MaxQueue \in Nat \ {0} /\ MaxFaults \in Nat
  /\ Steady \subseteq Sockets

VARIABLES
  open,         \* the sockets that listen in the container
  phase,        \* where run() is; "dead" until the entrypoint restarts it
  outcome,      \* how the session ended: SessionOutcome
  delay,        \* Backoff::current
  forwarded,    \* the forwarded map: port |-> process name
  todo,         \* messages the current scan or re-forward still has to send
  shutdown,     \* the merged shutdown signal, not yet seen
  link,         \* the control connection
  reply,        \* the host's answer to Register, on the wire
  toHost,       \* Forward and Unforward messages on the wire
  acks,         \* ForwardAcks on the wire
  registered,   \* HostState::containers has an entry for this container
  hostForwards, \* its forwards: port |-> process name
  binding,      \* handle_forward has taken the old forward out for the message at the head
  late,         \* messages that superseded connections' tasks still have in hand
  faults,       \* what is left of MaxFaults
  dropped,      \* history: forwards `dbr unforward` removed behind the daemon's back
  crossed,      \* history: ports whose late rejection hit a newer Forward
  intruded      \* history: ports whose forward a superseded connection changed

daemonVars == <<phase, outcome, delay, forwarded, todo, shutdown>>
wireVars == <<link, reply, toHost, acks>>
taskVars == <<registered, binding, late>>
hostVars == <<hostForwards, taskVars, dropped, crossed, intruded>>
vars == <<open, phase, outcome, delay, forwarded, todo, shutdown, link, reply, toHost, acks,
          registered, hostForwards, binding, late, faults, dropped, crossed, intruded>>

Ports == Range(PortOf)
NoPorts == [p \in {} |-> NoName]
NoTodo == [forward |-> NoPorts, unforward |-> {}]
Without(f, p) == Restrict(f, DOMAIN f \ {p})
With(f, p, n) == [q \in DOMAIN f \cup {p} |-> IF q = p THEN n ELSE f[q]]
Idle == phase = "session" /\ todo = NoTodo
Stopped == phase \in {"exited", "failed"}

Init ==
  /\ open \in {Steady \cup some : some \in SUBSET Sockets}
  /\ phase = "resolving" /\ outcome = "none"
  /\ delay = Initial
  /\ forwarded = NoPorts /\ todo = NoTodo
  /\ shutdown = FALSE
  /\ link = "none" /\ reply = "none" /\ toHost = <<>> /\ acks = <<>>
  /\ registered = FALSE /\ hostForwards = NoPorts
  /\ binding = FALSE /\ late = {}
  /\ faults = MaxFaults
  /\ dropped = {} /\ crossed = {} /\ intruded = {}
------------------------------------------------------------------------------
(* Connecting and registering *)

\* resolve_host_addr: an address, a name, or host.docker.internal and then the
\* gateway.  An error ends the process with a status the entrypoint retries,
\* and a shutdown signal that has come in meanwhile is lost with it.
ResolveHost ==
  /\ phase = "resolving"
  /\ \E dns \in BOOLEAN, gateway \in BOOLEAN :
       IF HostAddr = "ip" \/ dns \/ (HostAddr = "unset" /\ gateway)
       THEN phase' = "connecting" /\ UNCHANGED <<shutdown, faults>>
       ELSE /\ faults > 0 /\ faults' = faults - 1
            /\ phase' = "dead" /\ shutdown' = FALSE
  /\ UNCHANGED <<open, outcome, delay, forwarded, todo, wireVars, hostVars>>

\* The entrypoint's loop starts the daemon again, with nothing remembered.
Restart ==
  /\ phase = "dead"
  /\ phase' = "resolving"
  /\ UNCHANGED <<open, outcome, delay, forwarded, todo, shutdown, wireVars, hostVars, faults>>

\* What the task of the connection that is given up has in hand when the new
\* registration replaces its own: the message at the head, past the test of
\* whether the registration is still its own (it goes on reading until then), or
\* past the first lock of handle_forward.  (Every connection follows on another
\* fault: `from' tells their messages apart.)
InHand ==
  IF toHost = <<>> THEN {}
  ELSE {[msg |-> Head(toHost), at |-> IF binding THEN "binding" ELSE "checked", from |-> faults]}

\* control::connect and the Register message succeed.
Connect ==
  /\ phase = "connecting"
  /\ phase' = "registering"
  /\ link' = "up" /\ reply' = "none" /\ toHost' = <<>> /\ acks' = <<>>
  /\ binding' = FALSE
  /\ late' \in {late, late \cup InHand}
  /\ UNCHANGED <<open, outcome, delay, forwarded, todo, shutdown, registered, hostForwards,
                 dropped, crossed, intruded, faults>>

\* No host, or Register could not be sent.
ConnectFails ==
  /\ phase = "connecting" /\ faults > 0
  /\ phase' = "backoff" /\ faults' = faults - 1
  /\ UNCHANGED <<open, outcome, delay, forwarded, todo, shutdown, wireVars, hostVars>>

\* Mutant of RecvRegisterAck: the ports of the last session are forgotten, and
\* the scan believes they are forwarded.
RecvRegisterAckNoReforward ==
  /\ phase = "registering" /\ reply # "none"
  /\ IF reply = "accepted"
     THEN UNCHANGED link /\ delay' = Initial /\ phase' = "session" /\ UNCHANGED todo
     ELSE phase' = "failed" /\ link' = "cut" /\ UNCHANGED <<delay, todo>>
  /\ reply' = "none"
  /\ UNCHANGED <<open, outcome, forwarded, shutdown, toHost, acks, hostVars, faults>>

\* RegisterAck(true) resets the back-off and re-forwards what the last session
\* had; RegisterAck(false) ends the daemon with EXIT_PERMANENT_FAILURE.
RecvRegisterAck ==
  /\ phase = "registering" /\ reply # "none"
  /\ IF reply = "accepted"
     THEN /\ delay' = Initial /\ UNCHANGED link
          /\ phase' = IF forwarded = NoPorts THEN "session" ELSE "reforward"
          /\ todo' = [NoTodo EXCEPT !.forward = forwarded]
     ELSE phase' = "failed" /\ link' = "cut" /\ UNCHANGED <<delay, todo>>
  /\ reply' = "none"
  /\ UNCHANGED <<open, outcome, forwarded, shutdown, toHost, acks, hostVars, faults>>

\* The connection breaks while the answer is awaited.
RegisterLost ==
  /\ phase = "registering" /\ link = "cut" /\ reply = "none"
  /\ phase' = "backoff"
  /\ UNCHANGED <<open, outcome, delay, forwarded, todo, shutdown, wireVars, hostVars, faults>>

ReforwardDone ==
  /\ phase = "reforward" /\ todo = NoTodo
  /\ phase' = "session"
  /\ UNCHANGED <<open, outcome, delay, forwarded, todo, shutdown, wireVars, hostVars, faults>>

\* wait_or_shutdown: the sleep ends and the next one is longer, or the signal
\* ends the daemon.
BackOff ==
  /\ phase = "backoff"
  /\ \/ /\ delay' = IF 2 * delay > MaxDelay THEN MaxDelay ELSE 2 * delay
        /\ phase' = "connecting" /\ UNCHANGED shutdown
     \/ shutdown /\ phase' = "exited" /\ shutdown' = FALSE /\ UNCHANGED delay
  /\ UNCHANGED <<open, outcome, forwarded, todo, wireVars, hostVars, faults>>
------------------------------------------------------------------------------
(* The session loop *)

\* Bytes written to a connection that has broken may still vanish unnoticed.
Send(msg) == toHost' = IF link = "up" THEN Append(toHost, msg) ELSE toHost

\* A tick: scan, filter, and the difference to the forwarded map.  If one of
\* the two files cannot be read its ports are missing; if neither can, the
\* cycle is skipped.
Scan ==
  /\ Idle /\ Len(toHost) < MaxQueue
  /\ \E files \in SUBSET {"tcp", "tcp6"} :
       /\ files # {}
       /\ \/ files = {"tcp", "tcp6"} /\ UNCHANGED faults
          \/ files # {"tcp", "tcp6"} /\ faults > 0 /\ faults' = faults - 1
       /\ LET current == Filter(ScanListeningPorts(files, open, DOMAIN forwarded)) IN
            todo' = [forward |-> Restrict(current, DOMAIN current \ DOMAIN forwarded),
                     unforward |-> DOMAIN forwarded \ DOMAIN current]
  /\ UNCHANGED <<open, phase, outcome, delay, forwarded, shutdown, wireVars, hostVars>>

\* Forward is sent, then the port recorded; re_forward_ports changes nothing.
SendForward(p) ==
  /\ p \in DOMAIN todo.forward
  /\ Send([type |-> "Forward", port |-> p, name |-> todo.forward[p]])
  /\ forwarded' = With(forwarded, p, todo.forward[p])
  /\ todo' = [todo EXCEPT !.forward = Without(@, p)]
  /\ crossed' = crossed \ {p}
  /\ UNCHANGED <<open, phase, outcome, delay, shutdown, link, reply, acks, hostForwards, taskVars,
                 dropped, intruded, faults>>

\* Mutant of SendUnforward: the record goes, the message does not.
SendUnforwardSilent(p) ==
  /\ todo.forward = NoPorts /\ p \in todo.unforward
  /\ forwarded' = Without(forwarded, p)
  /\ todo' = [todo EXCEPT !.unforward = @ \ {p}]
  /\ UNCHANGED <<open, phase, outcome, delay, shutdown, wireVars, hostVars, faults>>

\* Removed ports follow after the new ones.
SendUnforward(p) ==
  /\ todo.forward = NoPorts /\ p \in todo.unforward
  /\ Send([type |-> "Unforward", port |-> p, name |-> NoName])
  /\ forwarded' = Without(forwarded, p)
  /\ todo' = [todo EXCEPT !.unforward = @ \ {p}]
  /\ UNCHANGED <<open, phase, outcome, delay, shutdown, link, reply, acks, hostVars, faults>>

\* A send fails: half-done scans keep what they have recorded so far.
SendFails ==
  /\ link = "cut" /\ todo # NoTodo
  /\ IF phase = "session"
     THEN phase' = "draining" /\ outcome' = "error"
     ELSE phase' = "backoff" /\ UNCHANGED outcome
  /\ todo' = NoTodo
  /\ UNCHANGED <<open, delay, forwarded, shutdown, wireVars, hostVars, faults>>

\* Mutant of RecvForwardAck: the rejection is only logged.
RecvForwardAckIgnored ==
  /\ Idle /\ acks # <<>>
  /\ acks' = Tail(acks)
  /\ UNCHANGED <<open, phase, outcome, delay, forwarded, todo, shutdown, link, reply, toHost,
                 hostVars, faults>>

\* A rejected port is forgotten, so that the next scan tries it again.
RecvForwardAck ==
  /\ Idle /\ acks # <<>>
  /\ LET a == Head(acks) IN
       /\ forwarded' = IF a.success THEN forwarded ELSE Without(forwarded, a.port)
       /\ crossed' = IF ~a.success /\ \/ a.port \in DOMAIN hostForwards \ intruded
                                      \/ \E i \in 1..Len(toHost) : toHost[i].port = a.port
                     THEN crossed \cup {a.port} ELSE crossed
  /\ acks' = Tail(acks)
  /\ UNCHANGED <<open, phase, outcome, delay, todo, shutdown, link, reply, toHost, hostForwards,
                 taskVars, dropped, intruded, faults>>

\* ConnectionClosed, or any other error of recv().
RecvClosed ==
  /\ Idle /\ link = "cut" /\ acks = <<>>
  /\ phase' = "draining" /\ outcome' = "disconnected"
  /\ UNCHANGED <<open, delay, forwarded, todo, shutdown, wireVars, hostVars, faults>>

\* Mutant of RecvShutdown: the signal ends the session, not the daemon.
RecvShutdownForgets ==
  /\ Idle /\ shutdown
  /\ shutdown' = FALSE
  /\ phase' = "draining" /\ outcome' = "disconnected"
  /\ UNCHANGED <<open, delay, forwarded, todo, wireVars, hostVars, faults>>

\* Unforward for every port, errors ignored, and out.  (In which order does not
\* matter: each concerns its own port.)
RecvShutdown ==
  /\ Idle /\ shutdown
  /\ LET ports == SetToSeq(DOMAIN forwarded)
         msgs == [i \in DOMAIN ports |-> [type |-> "Unforward", port |-> ports[i], name |-> NoName]]
     IN  toHost' = IF link = "up" THEN toHost \o msgs ELSE toHost
  /\ shutdown' = FALSE
  /\ phase' = "draining" /\ outcome' = "shutdown"
  /\ UNCHANGED <<open, delay, forwarded, todo, link, reply, acks, hostVars, faults>>

\* The connect handlers have ended, or five seconds are over.  A finished
\* daemon closes its connection.
Drained ==
  /\ phase = "draining"
  /\ phase' = IF outcome = "shutdown" THEN "exited" ELSE "backoff"
  /\ link' = "cut" /\ acks' = <<>>
  /\ UNCHANGED <<open, outcome, delay, forwarded, todo, shutdown, reply, toHost, hostVars, faults>>
------------------------------------------------------------------------------
(* The host's side of the connection *)

\* handle_control_connection: a registration replaces the container's old one
\* with its forwards; a wrong token or a full host is refused.
HostAnswers ==
  /\ phase = "registering" /\ link = "up" /\ reply = "none"
  /\ \/ /\ reply' = "accepted" /\ registered' = TRUE /\ hostForwards' = NoPorts
        /\ dropped' = {} /\ crossed' = {} /\ intruded' = {}
        /\ UNCHANGED <<binding, late, faults>>
     \/ reply' = "refused" /\ faults > 0 /\ faults' = faults - 1 /\ UNCHANGED hostVars
  /\ UNCHANGED <<open, daemonVars, link, toHost, acks>>

Acked(p, ok) == acks' = IF link = "up" THEN Append(acks, [port |-> p, success |-> ok]) ELSE acks

\* The first lock of handle_forward takes the port's old forward out of the
\* entry; draining it, the reservation and the bind follow without the lock.
HostForward ==
  /\ toHost # <<>> /\ Head(toHost).type = "Forward" /\ ~binding
  /\ LET p == Head(toHost).port IN
       hostForwards' = Without(hostForwards, p) /\ intruded' = intruded \ {p}
  /\ binding' = TRUE
  /\ UNCHANGED <<open, daemonVars, wireVars, registered, late, dropped, crossed, faults>>

\* The listener is bound: its forward goes into the entry the container has now.
HostCommit ==
  /\ binding /\ Len(acks) < MaxQueue
  /\ LET p == Head(toHost).port IN
       /\ hostForwards' = With(hostForwards, p, Head(toHost).name)
       /\ Acked(p, TRUE)
       /\ dropped' = dropped \ {p} /\ intruded' = intruded \ {p}
  /\ binding' = FALSE /\ toHost' = Tail(toHost)
  /\ UNCHANGED <<open, daemonVars, link, reply, registered, late, crossed, faults>>

\* Too many forwards, no port left, or the bind fails.
HostReject ==
  /\ binding /\ Len(acks) < MaxQueue /\ faults > 0
  /\ Acked(Head(toHost).port, FALSE)
  /\ binding' = FALSE /\ toHost' = Tail(toHost) /\ faults' = faults - 1
  /\ UNCHANGED <<open, daemonVars, link, reply, registered, hostForwards, late, dropped, crossed, intruded>>

HostUnforward ==
  /\ toHost # <<>> /\ Head(toHost).type = "Unforward"
  /\ LET p == Head(toHost).port IN
       /\ hostForwards' = Without(hostForwards, p)
       /\ dropped' = dropped \ {p} /\ intruded' = intruded \ {p}
  /\ toHost' = Tail(toHost)
  /\ UNCHANGED <<open, daemonVars, link, reply, acks, faults, taskVars, crossed>>

\* handle_unforward_global, from `dbr unforward`: the container is not told.
AdminUnforward(p) ==
  /\ p \in DOMAIN hostForwards /\ faults > 0
  /\ hostForwards' = Without(hostForwards, p)
  /\ dropped' = dropped \cup {p}
  /\ faults' = faults - 1
  /\ UNCHANGED <<open, daemonVars, wireVars, taskVars, crossed, intruded>>

\* cleanup_container, once the host has read what was sent and sees the end.
HostCleanup ==
  /\ link = "cut" /\ toHost = <<>> /\ registered
  /\ registered' = FALSE /\ hostForwards' = NoPorts
  /\ dropped' = {} /\ crossed' = {} /\ intruded' = {}
  /\ UNCHANGED <<open, daemonVars, wireVars, binding, late, faults>>

\* A superseded connection's task changes the forward of p in whatever entry
\* the container has; its answer goes to the old connection.
Intrude(p, changed) ==
  /\ hostForwards' = changed
  /\ intruded' = IF changed = hostForwards THEN intruded ELSE intruded \cup {p}
  /\ UNCHANGED <<open, daemonVars, wireVars, registered, binding, dropped, crossed, faults>>

\* handle_unforward, and the first lock of handle_forward: neither they nor the
\* last lock compare the registration id.
LateTeardown(l) ==
  /\ l \in late /\ l.at = "checked"
  /\ Intrude(l.msg.port, Without(hostForwards, l.msg.port))
  /\ late' = IF l.msg.type = "Forward" THEN (late \ {l}) \cup {[l EXCEPT !.at = "binding"]}
             ELSE late \ {l}

\* The bind fails, the container has no entry, or the forward is inserted.
LateCommit(l) ==
  /\ l \in late /\ l.at = "binding"
  /\ \/ Intrude(l.msg.port, hostForwards)
     \/ registered /\ Intrude(l.msg.port, With(hostForwards, l.msg.port, l.msg.name))
  /\ late' = late \ {l}
------------------------------------------------------------------------------
(* The environment *)

\* The link breaks.  What was on the wire may still be read: by the host until
\* the daemon has a new connection, when the rest is lost.
Cut ==
  /\ link = "up" /\ faults > 0
  /\ link' = "cut"
  /\ \/ acks' = <<>> /\ reply' = "none"
     \/ UNCHANGED <<acks, reply>>
  /\ faults' = faults - 1
  /\ UNCHANGED <<open, daemonVars, toHost, hostVars>>

SocketChange(s) ==
  /\ s \notin Steady /\ faults > 0
  /\ open' = IF s \in open THEN open \ {s} ELSE open \cup {s}
  /\ faults' = faults - 1
  /\ UNCHANGED <<daemonVars, wireVars, hostVars>>

\* The daemon panics or is killed: what it has sent may still arrive.
Crash ==
  /\ ~Stopped /\ phase # "dead" /\ faults > 0
  /\ phase' = "dead" /\ outcome' = "none" /\ delay' = Initial
  /\ forwarded' = NoPorts /\ todo' = NoTodo /\ shutdown' = FALSE
  /\ link' = IF link = "up" THEN "cut" ELSE link
  /\ reply' = "none" /\ acks' = <<>>
  /\ faults' = faults - 1
  /\ UNCHANGED <<open, toHost, hostVars>>

\* SIGTERM or ctrl-c.
Signal ==
  /\ ~shutdown /\ ~Stopped /\ phase # "dead" /\ outcome # "shutdown" /\ faults > 0
  /\ shutdown' = TRUE /\ faults' = faults - 1
  /\ UNCHANGED <<open, phase, outcome, delay, forwarded, todo, wireVars, hostVars>>
------------------------------------------------------------------------------
Registration ==
  ResolveHost \/ Restart \/ Connect \/ RecvRegisterAck \/ RegisterLost \/ ReforwardDone \/ BackOff
Sending == SendFails \/ \E p \in Ports : SendForward(p) \/ SendUnforward(p)
Receiving == RecvForwardAck \/ RecvClosed \/ RecvShutdown \/ Drained
Daemon == Receiving \/ Sending \/ Registration \/ Scan
Superseded == \E l \in late : LateTeardown(l) \/ LateCommit(l)
Host ==
  HostAnswers \/ HostForward \/ HostCommit \/ HostReject \/ HostUnforward \/ HostCleanup \/ Superseded

Environment ==
  \/ ConnectFails \/ Cut \/ Crash \/ Signal
  \/ \E s \in Sockets : SocketChange(s)
  \/ \E p \in Ports : AdminUnforward(p)

Next == Host \/ Daemon \/ Environment

\* The daemon is polled whenever something is ready - its ticks, its timers,
\* its connection - and the host reads and answers.  (A host that accepts the
\* connection and never answers Register is the one thing no timeout of the
\* daemon covers.)
Fairness == WF_vars(Host \/ Daemon)

Spec == Init /\ [][Next]_vars /\ Fairness
------------------------------------------------------------------------------
PortMap(f) == DOMAIN f \subseteq Ports

TypeOK ==
  /\ open \subseteq Sockets
  /\ phase \in {"resolving", "dead", "connecting", "registering", "reforward", "session",
                "draining", "backoff", "exited", "failed"}
  /\ outcome \in {"none", "error", "disconnected", "shutdown"}
  /\ delay \in Initial..MaxDelay
  /\ PortMap(forwarded) /\ PortMap(hostForwards) /\ PortMap(todo.forward)
  /\ todo.unforward \subseteq Ports
  /\ shutdown \in BOOLEAN
  /\ link \in {"none", "up", "cut"} /\ reply \in {"none", "accepted", "refused"}
  /\ faults \in 0..MaxFaults
  /\ registered \in BOOLEAN /\ binding \in BOOLEAN
  /\ \A l \in late : l.msg.port \in Ports /\ l.at \in {"checked", "binding"}
  /\ dropped \subseteq Ports /\ crossed \subseteq Ports /\ intruded \subseteq Ports

\* Is a message about p of that type on the wire, or still to be sent?
OnWire(type, p) == \E i \in 1..Len(toHost) : toHost[i].type = type /\ toHost[i].port = p
Rejected(p) == \E i \in 1..Len(acks) : acks[i].port = p /\ ~acks[i].success
InSession == phase = "session" /\ link = "up"

\* run_session: a port the daemon believes forwarded is forwarded on the host,
\* under the process name that was resolved first, across later nameless scans
\* and reconnects, or the message that settles it is on its way; only `dbr
\* unforward` and the late end of a superseded connection's handle_forward or
\* handle_unforward make the two disagree.  Both sides keep their types.
NoPhantomForward ==
  /\ TypeOK
  /\ InSession => \A p \in DOMAIN forwarded :
       \/ p \in DOMAIN hostForwards /\ hostForwards[p] = forwarded[p]
       \/ OnWire("Forward", p) \/ Rejected(p) \/ p \in dropped \cup intruded

\* Nor does the host keep a port the daemon gave up or, started again, never
\* knew, except when the rejection of an earlier Forward of that port arrived
\* after a newer one was sent (RecvForwardAck cannot tell which Forward an
\* answer belongs to), or when a Forward that a superseded connection had in
\* hand was inserted into the newer registration, which no id test prevents.
NoStaleForward ==
  InSession => \A p \in DOMAIN hostForwards \ DOMAIN forwarded :
    OnWire("Unforward", p) \/ p \in crossed \cup intruded

\* Once the environment is quiet, a daemon that was neither stopped nor refused
\* has every wanted port forwarded on the host, whatever was lost, rejected or
\* cut in between; what `dbr unforward` or a superseded connection took is all
\* that it does not repair.
Converges ==
  <>[](Stopped \/ shutdown \/ outcome = "shutdown" \/
       WantedPorts(open) \subseteq DOMAIN hostForwards \cup dropped \cup intruded)

\* A shutdown signal is seen in every phase - in the session, during the
\* back-off, after whatever the daemon was waiting for - and afterwards the
\* host holds no forward of this container, unless the process dies first.
ShutdownReleases == shutdown ~> \/ Stopped /\ hostForwards = NoPorts
                               \/ phase = "dead"
==============================================================================
