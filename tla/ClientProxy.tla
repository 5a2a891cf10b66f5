----------------------------- MODULE ClientProxy -----------------------------
(***************************************************************************)
(* A client's way through the host daemon: accepted by the listener of a   *)
(* forward (host/listener.rs), routed to a container and counted           *)
(* (handle_client_connection), matched with the container's reverse data   *)
(* connection by conn_id (host/proxy.rs), bridged - while the forward may  *)
(* be torn down and drained (ConnectionTracker, drain_forward_connections) *)
(* and the container's session may end at any moment.                      *)
(*                                                                         *)
(* A forward is one ForwardState and belongs to one registration of a      *)
(* container; a client connection stands for its own conn_id (a fresh      *)
(* UUID).  What the bridge copies is left out.                             *)
(***************************************************************************)
EXTENDS Naturals, Sequences, FiniteSets

CONSTANTS
  Clients,      \* client connections
  Forwards,     \* ForwardStates
  Sessions,     \* registrations: one ContainerState and message loop each
  SessionOf,    \* the registration a forward belongs to
  PortOf,       \* the container port it forwards
  MaxPending,   \* MAX_PENDING (1024)
  RequestQueue, \* capacity of a registration's connect-request channel (64)
  ClientQueue,  \* capacity of the channel from the listeners to run()
  None

ASSUME ProxyAssumption ==
  /\ SessionOf \in [Forwards -> Sessions]
  /\ None \notin Forwards
  /\ MaxPending \in Nat \ {0} /\ RequestQueue \in Nat \ {0} /\ ClientQueue \in Nat \ {0}
  /\ IsFiniteSet(Clients)

VARIABLES
  looping,    \* run() is in its select loop and takes clients
  fwd,        \* where each forward is between set-up and the end of its drain
  count,      \* ConnectionTracker::count
  woken,      \* the drain's Notified future has been notified
  cancelled,  \* the value of cancel_tx
  session,    \* the registration's message loop runs and owns the receiver
  requests,   \* its connect-request channel
  pending,    \* the conn_ids in PendingConnections
  client,     \* where each handle_client_connection task is
  via,        \* the forward whose listener accepted the client
  route,      \* the forward whose tracker the task took
  heeds,      \* the task's cancel_rx was subscribed before the cancel
  rx,         \* the oneshot: unused, open, data delivered, sender dropped, receiver dropped
  peer        \* the container's side of the conn_id

forwardVars == <<looping, fwd, count, woken, cancelled>>
sessionVars == <<session, requests>>
taskVars == <<via, route, heeds>>
vars == <<looping, fwd, count, woken, cancelled, session, requests, pending,
          client, via, route, heeds, rx, peer>>

Init ==
  /\ looping = TRUE
  /\ fwd = [f \in Forwards |-> "up"]
  /\ count = [f \in Forwards |-> 0]
  /\ woken = [f \in Forwards |-> FALSE]
  /\ cancelled = [f \in Forwards |-> FALSE]
  /\ session = [s \in Sessions |-> TRUE]
  /\ requests = [s \in Sessions |-> <<>>]
  /\ pending = {}
  /\ client = [k \in Clients |-> "new"]
  /\ via = [k \in Clients |-> None]
  /\ route = [k \in Clients |-> None]
  /\ heeds = [k \in Clients |-> FALSE]
  /\ rx = [k \in Clients |-> "unused"]
  /\ peer = [k \in Clients |-> "unasked"]

Goto(k, label) == client' = [client EXCEPT ![k] = label]

\* pending.remove(conn_id): the sender is dropped with the entry, and a task
\* that still waits on the other end gets a RecvError.
CancelPending(k) ==
  /\ pending' = pending \ {k}
  /\ rx' = [rx EXCEPT ![k] = IF k \in pending /\ @ = "open" THEN "broken" ELSE @]
------------------------------------------------------------------------------
(* The client's task *)

\* A listener accepts until its task has seen the stop signal and ended, but
\* not while it is sending a client it accepted before.
Accept(k, f) ==
  /\ client[k] = "new" /\ fwd[f] \in {"up", "stopping"}
  /\ \A j \in Clients : ~(client[j] = "offered" /\ via[j] = f)
  /\ Goto(k, "offered")
  /\ via' = [via EXCEPT ![k] = f]
  /\ UNCHANGED <<forwardVars, sessionVars, pending, route, heeds, rx, peer>>

\* client_tx.send(..).await: waits for room in the channel.
Enqueue(k) ==
  /\ client[k] = "offered"
  /\ Cardinality({j \in Clients : client[j] = "queued"}) < ClientQueue
  /\ Goto(k, "queued")
  /\ UNCHANGED <<forwardVars, sessionVars, pending, taskVars, rx, peer>>

\* Mutant of Receive: the loop waits for the listener of a teardown itself.
ReceiveUnlessStopping(k) ==
  /\ looping /\ client[k] = "queued" /\ \A f \in Forwards : fwd[f] # "stopping"
  /\ Goto(k, "accepted")
  /\ UNCHANGED <<forwardVars, sessionVars, pending, taskVars, rx, peer>>

\* The select loop takes a client and spawns its task.
Receive(k) ==
  /\ looping /\ client[k] = "queued"
  /\ Goto(k, "accepted")
  /\ UNCHANGED <<forwardVars, sessionVars, pending, taskVars, rx, peer>>

\* A signal or a Shutdown ends the loop; the tasks run on through the drain.
EndLoop ==
  /\ looping
  /\ looping' = FALSE
  /\ UNCHANGED <<fwd, count, woken, cancelled, sessionVars, pending, client, taskVars, rx, peer>>

\* The lookup under the state lock.  ClientConnection carries the container
\* port only: find_container_for_port takes the first container in HashMap
\* order that forwards this port.
Route(k) ==
  LET owners == {f \in Forwards : fwd[f] = "up" /\ PortOf[f] = PortOf[via[k]]} IN
  /\ client[k] = "accepted"
  /\ \/ owners = {} /\ Goto(k, "done") /\ UNCHANGED route
     \/ \E f \in owners : route' = [route EXCEPT ![k] = f] /\ Goto(k, "routed")
  /\ UNCHANGED <<forwardVars, sessionVars, pending, via, heeds, rx, peer>>

\* tracker.increment(), after the lock is gone.
Count(k) ==
  /\ client[k] = "routed"
  /\ count' = [count EXCEPT ![route[k]] = @ + 1]
  /\ Goto(k, "counted")
  /\ UNCHANGED <<looping, fwd, woken, cancelled, sessionVars, pending, taskVars, rx, peer>>

\* Entries whose receiver is gone are pruned, when the map is full.
Pruned == IF Cardinality(pending) >= MaxPending
          THEN {k \in pending : rx[k] # "closed"} ELSE pending

\* Mutant of RegisterPending: the map is never pruned.
RegisterPendingNoPrune(k) ==
  /\ client[k] = "counted"
  /\ IF Cardinality(pending) >= MaxPending
     THEN Goto(k, "leaving") /\ UNCHANGED <<pending, rx>>
     ELSE /\ pending' = pending \cup {k}
          /\ rx' = [rx EXCEPT ![k] = "open"]
          /\ Goto(k, "registered")
  /\ UNCHANGED <<forwardVars, sessionVars, taskVars, peer>>

\* Mutant of RegisterPending: the refused client is not counted out.
RegisterPendingNoDecrement(k) ==
  /\ client[k] = "counted"
  /\ IF Cardinality(Pruned) >= MaxPending
     THEN pending' = Pruned /\ Goto(k, "done") /\ UNCHANGED rx
     ELSE /\ pending' = Pruned \cup {k}
          /\ rx' = [rx EXCEPT ![k] = "open"]
          /\ Goto(k, "registered")
  /\ UNCHANGED <<forwardVars, sessionVars, taskVars, peer>>

\* register_pending; at capacity the client is refused.
RegisterPending(k) ==
  /\ client[k] = "counted"
  /\ IF Cardinality(Pruned) >= MaxPending
     THEN pending' = Pruned /\ Goto(k, "leaving") /\ UNCHANGED rx
     ELSE /\ pending' = Pruned \cup {k}
          /\ rx' = [rx EXCEPT ![k] = "open"]
          /\ Goto(k, "registered")
  /\ UNCHANGED <<forwardVars, sessionVars, taskVars, peer>>

\* Mutant of Request: a closed channel is not noticed.
RequestNoError(k) ==
  LET s == SessionOf[route[k]] IN
  /\ client[k] = "registered"
  /\ session[s] /\ Len(requests[s]) < RequestQueue
  /\ requests' = [requests EXCEPT ![s] = Append(@, k)]
  /\ Goto(k, "requested")
  /\ UNCHANGED <<forwardVars, session, pending, taskVars, rx, peer>>

\* connect_tx.send(..).await: waits for room, fails once the receiver is gone.
Request(k) ==
  LET s == SessionOf[route[k]] IN
  /\ client[k] = "registered"
  /\ \/ /\ session[s] /\ Len(requests[s]) < RequestQueue
        /\ requests' = [requests EXCEPT ![s] = Append(@, k)]
        /\ Goto(k, "requested") /\ UNCHANGED <<pending, rx>>
     \/ /\ ~session[s]
        /\ CancelPending(k)
        /\ Goto(k, "leaving") /\ UNCHANGED requests
  /\ UNCHANGED <<forwardVars, session, taskVars, peer>>

\* tracker.cancel_rx(): a receiver that subscribes after the cancel has that
\* value marked as seen, and changed() stays silent.
Subscribe(k) ==
  /\ client[k] = "requested"
  /\ heeds' = [heeds EXCEPT ![k] = ~cancelled[route[k]]]
  /\ Goto(k, "waiting")
  /\ UNCHANGED <<forwardVars, sessionVars, pending, via, route, rx, peer>>

\* bridge_connection has its data stream.
Bridge(k) ==
  /\ client[k] = "waiting" /\ rx[k] = "data"
  /\ Goto(k, "bridged")
  /\ UNCHANGED <<forwardVars, sessionVars, pending, taskVars, rx, peer>>

\* CONNECT_TIMEOUT, or the sender was dropped: the receiver goes first, the
\* map entry after the map's lock is taken.
GiveUp(k) ==
  /\ client[k] = "waiting" /\ rx[k] \in {"open", "broken"}
  /\ rx' = [rx EXCEPT ![k] = "closed"]
  /\ Goto(k, "expired")
  /\ UNCHANGED <<forwardVars, sessionVars, pending, taskVars, peer>>

Expire(k) ==
  /\ client[k] = "expired"
  /\ CancelPending(k)
  /\ Goto(k, "leaving")
  /\ UNCHANGED <<forwardVars, sessionVars, taskVars, peer>>

\* Either side closes the bridged connection, or copying fails.
Close(k) ==
  /\ client[k] = "bridged"
  /\ rx' = [rx EXCEPT ![k] = "closed"]
  /\ peer' = [peer EXCEPT ![k] = "gone"]
  /\ Goto(k, "leaving")
  /\ UNCHANGED <<forwardVars, sessionVars, pending, taskVars>>

\* cancel.changed() wins the select: the bridge future is dropped wherever it
\* is, with the streams; an entry in the map stays behind.
ForceClose(k) ==
  /\ client[k] \in {"waiting", "expired", "bridged"}
  /\ heeds[k] /\ cancelled[route[k]]
  /\ rx' = [rx EXCEPT ![k] = "closed"]
  /\ peer' = [peer EXCEPT ![k] = IF @ = "held" THEN "gone" ELSE @]
  /\ Goto(k, "leaving")
  /\ UNCHANGED <<forwardVars, sessionVars, pending, taskVars>>

\* Mutant of Decrement: the waiter is notified one connection too early.
DecrementOffByOne(k) ==
  LET f == route[k] IN
  /\ client[k] = "leaving"
  /\ count' = [count EXCEPT ![f] = @ - 1]
  /\ Goto(k, IF count[f] = 2 THEN "notifying" ELSE "done")
  /\ UNCHANGED <<looping, fwd, woken, cancelled, sessionVars, pending, taskVars, rx, peer>>

\* tracker.decrement(): the subtraction and the notification are two steps.
Decrement(k) ==
  LET f == route[k] IN
  /\ client[k] = "leaving"
  /\ count' = [count EXCEPT ![f] = @ - 1]
  /\ Goto(k, IF count[f] = 1 THEN "notifying" ELSE "done")
  /\ UNCHANGED <<looping, fwd, woken, cancelled, sessionVars, pending, taskVars, rx, peer>>

\* notify_waiters() reaches the Notified future if it has been created.
NotifyWaiters(k) ==
  LET f == route[k] IN
  /\ client[k] = "notifying"
  /\ woken' = [woken EXCEPT ![f] = @ \/ fwd[f] \in {"created", "awaiting"}]
  /\ Goto(k, "done")
  /\ UNCHANGED <<looping, fwd, count, cancelled, sessionVars, pending, taskVars, rx, peer>>
------------------------------------------------------------------------------
(* The container's registration and its side of the data connections *)

\* The message loop sends a queued ConnectRequest; if that fails it cancels.
SendRequest(s) ==
  /\ session[s] /\ requests[s] # <<>>
  /\ LET k == Head(requests[s]) IN
       \/ peer' = [peer EXCEPT ![k] = "asked"] /\ UNCHANGED <<pending, rx>>
       \/ CancelPending(k) /\ UNCHANGED peer
  /\ requests' = [requests EXCEPT ![s] = Tail(@)]
  /\ UNCHANGED <<forwardVars, session, client, taskVars>>

\* The message loop ends: what is still queued is dropped with the receiver.
EndSession(s) ==
  /\ session[s]
  /\ session' = [session EXCEPT ![s] = FALSE]
  /\ requests' = [requests EXCEPT ![s] = <<>>]
  /\ UNCHANGED <<forwardVars, pending, client, taskVars, rx, peer>>

\* handle_connect_request in the container: the local port and the host's data
\* port are reached, and ConnectReady is sent.
ContainerConnects(k) ==
  /\ peer[k] = "asked"
  /\ peer' = [peer EXCEPT ![k] = "ready"]
  /\ UNCHANGED <<forwardVars, sessionVars, pending, client, taskVars, rx>>

\* Its error becomes a ConnectFailed; `dbr forward` answers every request so.
ContainerFails(k) ==
  /\ peer[k] = "asked"
  /\ peer' = [peer EXCEPT ![k] = "failed"]
  /\ UNCHANGED <<forwardVars, sessionVars, pending, client, taskVars, rx>>

\* ConnectFailed arrives on the control connection, if there still is one.
ConnectFailed(k) ==
  /\ peer[k] = "failed"
  /\ peer' = [peer EXCEPT ![k] = "gone"]
  /\ IF session[SessionOf[route[k]]] THEN CancelPending(k) ELSE UNCHANGED <<pending, rx>>
  /\ UNCHANGED <<forwardVars, sessionVars, client, taskVars>>

\* handle_data_connection with resolve_pending_with_grace: the stream goes to
\* the receiver if that is there; without an entry it is dropped in the end.
ResolvePending(k) ==
  /\ peer[k] = "ready"
  /\ pending' = pending \ {k}
  /\ IF k \in pending /\ rx[k] = "open"
     THEN rx' = [rx EXCEPT ![k] = "data"] /\ peer' = [peer EXCEPT ![k] = "held"]
     ELSE peer' = [peer EXCEPT ![k] = "gone"] /\ UNCHANGED rx
  /\ UNCHANGED <<forwardVars, sessionVars, client, taskVars>>
------------------------------------------------------------------------------
(* Teardown and drain of a forward *)

\* Unforward, a replacing Forward, cleanup_container or shutdown: out of the
\* table, the listener told to stop.
TearDown(f) ==
  /\ fwd[f] = "up"
  /\ fwd' = [fwd EXCEPT ![f] = "stopping"]
  /\ UNCHANGED <<looping, count, woken, cancelled, sessionVars, pending, client, taskVars, rx, peer>>

\* fstate.handle.await returns: the listener's task was not, or is no longer,
\* sending a client when it looks at the stop signal.
ListenerGone(f) ==
  /\ fwd[f] = "stopping"
  /\ \A k \in Clients : ~(client[k] = "offered" /\ via[k] = f)
  /\ fwd' = [fwd EXCEPT ![f] = "stopped"]
  /\ UNCHANGED <<looping, count, woken, cancelled, sessionVars, pending, client, taskVars, rx, peer>>

\* drain_forward_connections: nothing to do without active connections.
DrainStart(f) ==
  /\ fwd[f] = "stopped"
  /\ fwd' = [fwd EXCEPT ![f] = IF count[f] = 0 THEN "drained" ELSE "draining"]
  /\ UNCHANGED <<looping, count, woken, cancelled, sessionVars, pending, client, taskVars, rx, peer>>

\* wait_drained: the Notified future is created before the count is read.
WaitCreate(f) ==
  /\ fwd[f] = "draining"
  /\ woken' = [woken EXCEPT ![f] = FALSE]
  /\ fwd' = [fwd EXCEPT ![f] = "created"]
  /\ UNCHANGED <<looping, count, cancelled, sessionVars, pending, client, taskVars, rx, peer>>

WaitCheck(f) ==
  /\ fwd[f] = "created"
  /\ fwd' = [fwd EXCEPT ![f] = IF count[f] = 0 THEN "drained" ELSE "awaiting"]
  /\ UNCHANGED <<looping, count, woken, cancelled, sessionVars, pending, client, taskVars, rx, peer>>

WaitWake(f) ==
  /\ fwd[f] = "awaiting" /\ woken[f]
  /\ fwd' = [fwd EXCEPT ![f] = "draining"]
  /\ UNCHANGED <<looping, count, woken, cancelled, sessionVars, pending, client, taskVars, rx, peer>>

\* Mutant of DrainTimeout: the remaining connections are only reported.
DrainTimeoutNoCancel(f) ==
  /\ fwd[f] \in {"draining", "created", "awaiting"}
  /\ fwd' = [fwd EXCEPT ![f] = "cancelled"]
  /\ UNCHANGED <<looping, count, woken, cancelled, sessionVars, pending, client, taskVars, rx, peer>>

\* The drain timeout: tracker.cancel().
DrainTimeout(f) ==
  /\ fwd[f] \in {"draining", "created", "awaiting"}
  /\ fwd' = [fwd EXCEPT ![f] = "cancelled"]
  /\ cancelled' = [cancelled EXCEPT ![f] = TRUE]
  /\ UNCHANGED <<looping, count, woken, sessionVars, pending, client, taskVars, rx, peer>>
------------------------------------------------------------------------------
\* What a client's task does by itself; its peers decide on Accept and Close.
Task(k) ==
  \/ Enqueue(k) \/ Receive(k) \/ Route(k) \/ Count(k) \/ RegisterPending(k) \/ Request(k) \/ Subscribe(k)
  \/ Bridge(k) \/ GiveUp(k) \/ Expire(k) \/ Decrement(k) \/ NotifyWaiters(k)

Drain(f) ==
  \/ ListenerGone(f) \/ DrainStart(f) \/ WaitCreate(f) \/ WaitCheck(f) \/ WaitWake(f)

Next ==
  \/ \E k \in Clients : \/ \E f \in Forwards : Accept(k, f)
                        \/ Task(k) \/ Close(k) \/ ForceClose(k)
                        \/ ContainerConnects(k) \/ ContainerFails(k)
                        \/ ConnectFailed(k) \/ ResolvePending(k)
  \/ \E s \in Sessions : SendRequest(s) \/ EndSession(s)
  \/ EndLoop
  \/ \E f \in Forwards : TearDown(f) \/ Drain(f) \/ DrainTimeout(f)

\* Tasks that can run are polled and timers fire; clients and containers owe
\* nothing, and a drain may or may not outlast its timeout.
Fairness ==
  /\ \A k \in Clients : WF_vars(Task(k)) /\ WF_vars(ForceClose(k))
  /\ \A s \in Sessions : WF_vars(SendRequest(s))
  /\ \A f \in Forwards : WF_vars(Drain(f)) /\ WF_vars(DrainTimeout(f))

Spec == Init /\ [][Next]_vars /\ Fairness
------------------------------------------------------------------------------
TypeOK ==
  /\ looping \in BOOLEAN
  /\ fwd \in [Forwards -> {"up", "stopping", "stopped", "draining", "created", "awaiting",
                           "drained", "cancelled"}]
  /\ count \in [Forwards -> Nat]
  /\ woken \in [Forwards -> BOOLEAN]
  /\ cancelled \in [Forwards -> BOOLEAN]
  /\ session \in [Sessions -> BOOLEAN]
  /\ requests \in [Sessions -> Seq(Clients)]
  /\ pending \in SUBSET Clients /\ Cardinality(pending) <= MaxPending
  /\ client \in [Clients -> {"new", "offered", "queued", "accepted", "routed", "counted", "registered", "requested",
                             "waiting", "expired", "bridged", "leaving", "notifying", "done"}]
  /\ via \in [Clients -> Forwards \cup {None}]
  /\ route \in [Clients -> Forwards \cup {None}]
  /\ heeds \in [Clients -> BOOLEAN]
  /\ rx \in [Clients -> {"unused", "open", "data", "broken", "closed"}]
  /\ peer \in [Clients -> {"unasked", "asked", "ready", "failed", "held", "gone"}]

\* The clients a forward's tracker has to account for.
CountedOn(f) ==
  {k \in Clients : route[k] = f /\ client[k] \in {"counted", "registered", "requested", "waiting",
                                                  "expired", "bridged", "leaving"}}

\* Every way out of handle_client_connection - refused at capacity, channel
\* closed, timed out, force-closed, completed - counts the client out exactly
\* once: the debug_assert of decrement() cannot fail and no drain waits for a
\* client that has left.  The rest of the state keeps its types and limits.
CountExact == TypeOK /\ \A f \in Forwards : count[f] = Cardinality(CountedOn(f))

\* wait_drained never misses the zero-crossing, whatever the order of the
\* decrements, the notification and the waiter's loop: it sleeps only while
\* connections are active or the notification is on its way.
NoLostWakeup ==
  \A f \in Forwards :
    fwd[f] = "awaiting" /\ ~woken[f] =>
      count[f] > 0 \/ \E k \in Clients : client[k] = "notifying" /\ route[k] = f

\* A task between register_pending and the data connection it waits for.
AwaitsData(k) == client[k] \in {"registered", "requested", "waiting"} /\ rx[k] = "open"

\* A client is turned away at capacity only when MAX_PENDING other tasks are at
\* that moment waiting for their data connection: what timeouts, cancelled
\* drains, failed requests and answered ones left in the map, in whatever order
\* they ended, never takes a live client's place.
RefusedOnlyWhenFull ==
  [][\A k \in Clients :
       client[k] = "counted" /\ client'[k] = "leaving" =>
         Cardinality({j \in Clients \ {k} : AwaitsData(j)}) >= MaxPending]_vars

\* A client is bridged or let go, also when its container's session ends, a
\* queue is full or the ConnectReady never comes; only the end of the select
\* loop leaves clients in the channel, to be closed with the process.
ClientAnswered ==
  \A k \in Clients :
    client[k] = "offered" ~> client[k] \in {"bridged", "done"} \/ (~looping /\ client[k] \in {"offered", "queued"})

\* The teardown of a forward gets past its listener although that may be
\* blocked on the full client channel: run() empties the channel meanwhile, as
\* long as it is in its loop.
ListenerStops ==
  \A f \in Forwards : fwd[f] = "stopping" ~> fwd[f] # "stopping" \/ ~looping

\* Once a drain has given up, every connection that was already waiting for
\* the cancel signal is closed, bridged or not.
CancelReachesSubscribers ==
  \A k \in Clients, f \in Forwards :
    fwd[f] = "cancelled" /\ client[k] \in {"waiting", "expired", "bridged"} /\ route[k] = f /\ heeds[k]
      ~> client[k] = "done"
------------------------------------------------------------------------------
(* What comments and documents say and the code does otherwise *)

\* docs/architecture.md, port conflict resolution: each container that forwards
\* a port gets a host port of its own, listed for that container.  A client of
\* that host port is bridged to that container.
ReachesItsContainer ==
  \A k \in Clients : client[k] = "bridged" => SessionOf[route[k]] = SessionOf[via[k]]
==============================================================================
