-------------------------- MODULE ClientProxyProofs --------------------------
(***************************************************************************)
(* For any number of clients, forwards and registrations and any queue     *)
(* and map capacity: the tracker counts exactly the clients that have not  *)
(* left, wait_drained never sleeps through the last decrement, and a       *)
(* client is refused only when that many others wait for their data.       *)
(***************************************************************************)
EXTENDS ClientProxy, FiniteSetTheorems, TLAPS

\* The labels at which a task is counted, and those at which it has a route.
Counted == {"counted", "registered", "requested", "waiting", "expired", "bridged", "leaving"}
Routed == Counted \cup {"routed", "notifying"}

\* A task that got through the lookup has the tracker of a real forward.
RouteInv == \A k \in Clients : client[k] \in Routed => route[k] \in Forwards

\* A conn_id is not in the map before its task has put it there.
PendingInv ==
  \A k \in Clients :
    client[k] \in {"new", "offered", "queued", "accepted", "routed", "counted"} => k \notin pending

TrackerExact == \A f \in Forwards : count[f] = Cardinality(CountedOn(f))

ProxyInv == TypeOK /\ RouteInv /\ PendingInv /\ TrackerExact /\ NoLostWakeup
------------------------------------------------------------------------------
\* Sets of clients are finite.
LEMMA ClientSets ==
  ASSUME NEW S \in SUBSET Clients
  PROVE  IsFiniteSet(S) /\ Cardinality(S) \in Nat
BY ProxyAssumption, FS_Subset, FS_CardinalityType

\* An entry taken out of the map leaves the map within its limit.
LEMMA PendingShrinks ==
  ASSUME TypeOK, NEW S \in SUBSET pending
  PROVE  S \in SUBSET Clients /\ Cardinality(S) <= MaxPending
<1>1. pending \in SUBSET Clients /\ Cardinality(pending) <= MaxPending
  BY DEF TypeOK
<1>2. IsFiniteSet(pending) /\ Cardinality(pending) \in Nat
  BY <1>1, ClientSets
<1>3. Cardinality(S) <= Cardinality(pending) /\ Cardinality(S) \in Nat
  BY <1>2, FS_Subset, FS_CardinalityType
<1>4. QED
  BY <1>1, <1>2, <1>3, ProxyAssumption

\* A conn_id taken into a map that is not full.
LEMMA PendingGrows ==
  ASSUME TypeOK, NEW k \in Clients, ~(Cardinality(Pruned) >= MaxPending)
  PROVE  Pruned \cup {k} \in SUBSET Clients /\ Cardinality(Pruned \cup {k}) <= MaxPending
<1>1. Pruned \in SUBSET Clients
  BY DEF Pruned, TypeOK
<1>2. IsFiniteSet(Pruned) /\ Cardinality(Pruned) \in Nat
  BY <1>1, ClientSets
<1>3. Cardinality(Pruned \cup {k}) = Cardinality(Pruned)
        \/ Cardinality(Pruned \cup {k}) = Cardinality(Pruned) + 1
  BY <1>2, FS_AddElement
<1>4. QED
  BY <1>1, <1>2, <1>3, ProxyAssumption

\* What pending.remove does to the types and to the tasks that are not in the map.
LEMMA CancelPendingTypes ==
  ASSUME TypeOK, NEW k \in Clients, CancelPending(k)
  PROVE  /\ pending' \in SUBSET pending
         /\ pending' \in SUBSET Clients /\ Cardinality(pending') <= MaxPending
         /\ rx' \in [Clients -> {"unused", "open", "data", "broken", "closed"}]
<1>1. pending' \in SUBSET pending
  BY DEF CancelPending
<1>2. rx' \in [Clients -> {"unused", "open", "data", "broken", "closed"}]
  BY DEF CancelPending, TypeOK
<1>3. QED
  BY <1>1, <1>2, PendingShrinks
------------------------------------------------------------------------------
\* A step that leaves the trackers, the waiters and the routes alone and moves
\* one task between two labels that count the same preserves the invariants of
\* the tracker.
LEMMA TrackerFrame ==
  ASSUME ProxyInv, NEW k \in Clients, NEW label,
         Goto(k, label), UNCHANGED <<count, fwd, woken, route>>,
         label \in Counted <=> client[k] \in Counted,
         label \in Routed => client[k] \in Routed,
         client[k] # "notifying"
  PROVE  RouteInv' /\ TrackerExact' /\ NoLostWakeup'
<1> USE DEF ProxyInv, TypeOK
<1>1. client' = [client EXCEPT ![k] = label]
  BY DEF Goto
<1>2. RouteInv'
  BY <1>1 DEF RouteInv
<1>3. \A f \in Forwards : CountedOn(f)' = CountedOn(f)
  BY <1>1 DEF CountedOn, Counted
<1>4. TrackerExact'
  BY <1>3 DEF TrackerExact
<1>5. NoLostWakeup'
  BY <1>1 DEF NoLostWakeup
<1>6. QED
  BY <1>2, <1>4, <1>5

\* The same for a step that moves no task.
LEMMA TrackerStutter ==
  ASSUME ProxyInv, UNCHANGED <<count, fwd, woken, route, client>>
  PROVE  RouteInv' /\ TrackerExact' /\ NoLostWakeup'
<1>1. \A f \in Forwards : CountedOn(f)' = CountedOn(f)
  BY DEF CountedOn
<1>2. QED
  BY <1>1 DEF ProxyInv, RouteInv, TrackerExact, NoLostWakeup

\* Entries only leave the map, and no task goes back to before its registration.
LEMMA PendingFrame ==
  ASSUME ProxyInv, NEW k \in Clients, NEW label,
         Goto(k, label), pending' \in SUBSET pending,
         label \in {"new", "offered", "queued", "accepted", "routed", "counted"} =>
           client[k] \in {"new", "offered", "queued", "accepted", "routed", "counted"}
  PROVE  PendingInv'
BY DEF ProxyInv, TypeOK, PendingInv, Goto
------------------------------------------------------------------------------
(* The steps of a client's task *)

LEMMA AcceptPreserves ==
  ASSUME ProxyInv, NEW k \in Clients, NEW f \in Forwards, Accept(k, f)
  PROVE  ProxyInv'
<1> USE DEF Accept, forwardVars, sessionVars
<1>1. TypeOK'
  BY DEF ProxyInv, TypeOK, Goto
<1>2. RouteInv' /\ TrackerExact' /\ NoLostWakeup'
  BY TrackerFrame DEF Counted, Routed
<1>3. PendingInv'
  BY PendingFrame
<1>4. QED
  BY <1>1, <1>2, <1>3 DEF ProxyInv

LEMMA EnqueuePreserves ==
  ASSUME ProxyInv, NEW k \in Clients, Enqueue(k)
  PROVE  ProxyInv'
<1> USE DEF Enqueue, forwardVars, sessionVars, taskVars
<1>1. TypeOK'
  BY DEF ProxyInv, TypeOK, Goto
<1>2. RouteInv' /\ TrackerExact' /\ NoLostWakeup'
  BY TrackerFrame DEF Counted, Routed
<1>3. PendingInv'
  BY PendingFrame
<1>4. QED
  BY <1>1, <1>2, <1>3 DEF ProxyInv

LEMMA ReceivePreserves ==
  ASSUME ProxyInv, NEW k \in Clients, Receive(k)
  PROVE  ProxyInv'
<1> USE DEF Receive, forwardVars, sessionVars, taskVars
<1>1. TypeOK'
  BY DEF ProxyInv, TypeOK, Goto
<1>2. RouteInv' /\ TrackerExact' /\ NoLostWakeup'
  BY TrackerFrame DEF Counted, Routed
<1>3. PendingInv'
  BY PendingFrame
<1>4. QED
  BY <1>1, <1>2, <1>3 DEF ProxyInv

\* The only step that gives a task its route; the task is not counted yet.
LEMMA RoutePreserves ==
  ASSUME ProxyInv, NEW k \in Clients, Route(k)
  PROVE  ProxyInv'
<1> USE DEF Route, forwardVars, sessionVars
<1>1. CASE Goto(k, "done") /\ UNCHANGED route
  <2>1. TypeOK'
    BY <1>1 DEF ProxyInv, TypeOK, Goto
  <2>2. RouteInv' /\ TrackerExact' /\ NoLostWakeup'
    BY <1>1, TrackerFrame DEF Counted, Routed
  <2>3. PendingInv'
    BY <1>1, PendingFrame
  <2>4. QED
    BY <2>1, <2>2, <2>3 DEF ProxyInv
<1>2. ASSUME NEW f \in Forwards, route' = [route EXCEPT ![k] = f], Goto(k, "routed")
      PROVE  ProxyInv'
  <2>1. TypeOK'
    BY <1>2 DEF ProxyInv, TypeOK, Goto
  <2>2. RouteInv'
    BY <1>2 DEF ProxyInv, TypeOK, RouteInv, Goto
  <2>3. \A g \in Forwards : CountedOn(g)' = CountedOn(g)
    BY <1>2 DEF CountedOn, ProxyInv, TypeOK, Goto
  <2>4. TrackerExact'
    BY <2>3 DEF ProxyInv, TrackerExact
  <2>5. NoLostWakeup'
    BY <1>2 DEF ProxyInv, TypeOK, NoLostWakeup, Goto
  <2>6. PendingInv'
    BY <1>2, PendingFrame
  <2>7. QED
    BY <2>1, <2>2, <2>4, <2>5, <2>6 DEF ProxyInv
<1>3. QED
  BY <1>1, <1>2

\* tracker.increment(): the count and the set of counted tasks grow together.
LEMMA CountPreserves ==
  ASSUME ProxyInv, NEW k \in Clients, Count(k)
  PROVE  ProxyInv'
<1> USE DEF Count, sessionVars, taskVars
<1>1. route[k] \in Forwards
  BY DEF ProxyInv, RouteInv, Routed
<1>2. TypeOK'
  BY <1>1 DEF ProxyInv, TypeOK, Goto
<1>3. RouteInv'
  BY <1>1 DEF ProxyInv, TypeOK, RouteInv, Goto
<1>4. TrackerExact'
  <2>1. SUFFICES ASSUME NEW f \in Forwards PROVE count'[f] = Cardinality(CountedOn(f)')
    BY DEF TrackerExact
  <2>2. IsFiniteSet(CountedOn(f))
    BY ClientSets DEF CountedOn
  <2>3. CASE f = route[k]
    <3>1. CountedOn(f)' = CountedOn(f) \cup {k} /\ k \notin CountedOn(f)
      BY <2>3 DEF CountedOn, ProxyInv, TypeOK, Goto
    <3>2. Cardinality(CountedOn(f) \cup {k}) = Cardinality(CountedOn(f)) + 1
      BY <2>2, <3>1, FS_AddElement
    <3>3. QED
      BY <1>1, <2>3, <3>1, <3>2 DEF ProxyInv, TypeOK, TrackerExact
  <2>4. CASE f # route[k]
    <3>1. CountedOn(f)' = CountedOn(f)
      BY <2>4 DEF CountedOn, ProxyInv, TypeOK, Goto
    <3>2. QED
      BY <2>4, <3>1 DEF ProxyInv, TypeOK, TrackerExact
  <2>5. QED
    BY <2>3, <2>4
<1>5. NoLostWakeup'
  BY <1>1 DEF ProxyInv, TypeOK, NoLostWakeup, Goto
<1>6. PendingInv'
  BY PendingFrame
<1>7. QED
  BY <1>2, <1>3, <1>4, <1>5, <1>6 DEF ProxyInv

LEMMA RegisterPendingPreserves ==
  ASSUME ProxyInv, NEW k \in Clients, RegisterPending(k)
  PROVE  ProxyInv'
<1> USE DEF RegisterPending, forwardVars, sessionVars, taskVars
<1>0. Pruned \in SUBSET pending
  BY DEF Pruned
<1>1. CASE Cardinality(Pruned) >= MaxPending
  <2>1. pending' \in SUBSET Clients /\ Cardinality(pending') <= MaxPending
    BY <1>0, <1>1, PendingShrinks DEF ProxyInv
  <2>2. TypeOK'
    BY <1>1, <2>1 DEF ProxyInv, TypeOK, Goto
  <2>3. RouteInv' /\ TrackerExact' /\ NoLostWakeup'
    BY <1>1, TrackerFrame DEF Counted, Routed
  <2>4. PendingInv'
    BY <1>0, <1>1, PendingFrame
  <2>5. QED
    BY <2>2, <2>3, <2>4 DEF ProxyInv
<1>2. CASE ~(Cardinality(Pruned) >= MaxPending)
  <2>1. pending' \in SUBSET Clients /\ Cardinality(pending') <= MaxPending
    BY <1>2, PendingGrows DEF ProxyInv
  <2>2. TypeOK'
    BY <1>2, <2>1 DEF ProxyInv, TypeOK, Goto
  <2>3. RouteInv' /\ TrackerExact' /\ NoLostWakeup'
    BY <1>2, TrackerFrame DEF Counted, Routed
  <2>4. PendingInv'
    <3>1. pending' \in SUBSET (pending \cup {k}) /\ client' = [client EXCEPT ![k] = "registered"]
      BY <1>0, <1>2 DEF Goto
    <3> HIDE DEF RegisterPending
    <3>2. QED
      BY <3>1 DEF ProxyInv, TypeOK, PendingInv
  <2>5. QED
    BY <2>2, <2>3, <2>4 DEF ProxyInv
<1>3. QED
  BY <1>1, <1>2

LEMMA RequestPreserves ==
  ASSUME ProxyInv, NEW k \in Clients, Request(k)
  PROVE  ProxyInv'
<1> DEFINE s == SessionOf[route[k]]
<1> USE DEF Request, forwardVars, taskVars
<1>0. s \in Sessions
  BY ProxyAssumption DEF ProxyInv, RouteInv, Routed, Counted
<1>1. CASE /\ requests' = [requests EXCEPT ![s] = Append(@, k)]
           /\ Goto(k, "requested") /\ UNCHANGED <<pending, rx>>
  <2>1. TypeOK'
    BY <1>0, <1>1 DEF ProxyInv, TypeOK, Goto
  <2>2. RouteInv' /\ TrackerExact' /\ NoLostWakeup'
    BY <1>1, TrackerFrame DEF Counted, Routed
  <2>3. PendingInv'
    BY <1>1, PendingFrame
  <2>4. QED
    BY <2>1, <2>2, <2>3 DEF ProxyInv
<1>2. CASE CancelPending(k) /\ Goto(k, "leaving") /\ UNCHANGED requests
  <2>1. /\ pending' \in SUBSET pending
        /\ pending' \in SUBSET Clients /\ Cardinality(pending') <= MaxPending
        /\ rx' \in [Clients -> {"unused", "open", "data", "broken", "closed"}]
    BY <1>2, CancelPendingTypes DEF ProxyInv
  <2>2. TypeOK'
    BY <1>2, <2>1 DEF ProxyInv, TypeOK, Goto
  <2>3. RouteInv' /\ TrackerExact' /\ NoLostWakeup'
    BY <1>2, TrackerFrame DEF Counted, Routed
  <2>4. PendingInv'
    BY <1>2, <2>1, PendingFrame
  <2>5. QED
    BY <2>2, <2>3, <2>4 DEF ProxyInv
<1>3. QED
  BY <1>1, <1>2

LEMMA SubscribePreserves ==
  ASSUME ProxyInv, NEW k \in Clients, Subscribe(k)
  PROVE  ProxyInv'
<1> USE DEF Subscribe, forwardVars, sessionVars
<1>1. TypeOK'
  BY DEF ProxyInv, TypeOK, Goto
<1>2. RouteInv' /\ TrackerExact' /\ NoLostWakeup'
  BY TrackerFrame DEF Counted, Routed
<1>3. PendingInv'
  BY PendingFrame
<1>4. QED
  BY <1>1, <1>2, <1>3 DEF ProxyInv

LEMMA BridgePreserves ==
  ASSUME ProxyInv, NEW k \in Clients, Bridge(k)
  PROVE  ProxyInv'
<1> USE DEF Bridge, forwardVars, sessionVars, taskVars
<1>1. TypeOK'
  BY DEF ProxyInv, TypeOK, Goto
<1>2. RouteInv' /\ TrackerExact' /\ NoLostWakeup'
  BY TrackerFrame DEF Counted, Routed
<1>3. PendingInv'
  BY PendingFrame
<1>4. QED
  BY <1>1, <1>2, <1>3 DEF ProxyInv

\* The receiver is dropped, the entry stays: it is what Pruned looks for.
LEMMA GiveUpPreserves ==
  ASSUME ProxyInv, NEW k \in Clients, GiveUp(k)
  PROVE  ProxyInv'
<1> USE DEF GiveUp, forwardVars, sessionVars, taskVars
<1>1. TypeOK'
  BY DEF ProxyInv, TypeOK, Goto
<1>2. RouteInv' /\ TrackerExact' /\ NoLostWakeup'
  BY TrackerFrame DEF Counted, Routed
<1>3. PendingInv'
  BY PendingFrame
<1>4. QED
  BY <1>1, <1>2, <1>3 DEF ProxyInv

LEMMA ClosePreserves ==
  ASSUME ProxyInv, NEW k \in Clients, Close(k)
  PROVE  ProxyInv'
<1> USE DEF Close, forwardVars, sessionVars, taskVars
<1>1. TypeOK'
  BY DEF ProxyInv, TypeOK, Goto
<1>2. RouteInv' /\ TrackerExact' /\ NoLostWakeup'
  BY TrackerFrame DEF Counted, Routed
<1>3. PendingInv'
  BY PendingFrame
<1>4. QED
  BY <1>1, <1>2, <1>3 DEF ProxyInv

LEMMA ForceClosePreserves ==
  ASSUME ProxyInv, NEW k \in Clients, ForceClose(k)
  PROVE  ProxyInv'
<1> USE DEF ForceClose, forwardVars, sessionVars, taskVars
<1>1. TypeOK'
  BY DEF ProxyInv, TypeOK, Goto
<1>2. RouteInv' /\ TrackerExact' /\ NoLostWakeup'
  BY TrackerFrame DEF Counted, Routed
<1>3. PendingInv'
  BY PendingFrame
<1>4. QED
  BY <1>1, <1>2, <1>3 DEF ProxyInv

LEMMA ExpirePreserves ==
  ASSUME ProxyInv, NEW k \in Clients, Expire(k)
  PROVE  ProxyInv'
<1> USE DEF Expire, forwardVars, sessionVars, taskVars
<1>1. /\ pending' \in SUBSET pending
      /\ pending' \in SUBSET Clients /\ Cardinality(pending') <= MaxPending
      /\ rx' \in [Clients -> {"unused", "open", "data", "broken", "closed"}]
  BY CancelPendingTypes DEF ProxyInv
<1>2. TypeOK'
  BY <1>1 DEF ProxyInv, TypeOK, Goto
<1>3. RouteInv' /\ TrackerExact' /\ NoLostWakeup'
  BY TrackerFrame DEF Counted, Routed
<1>4. PendingInv'
  BY <1>1, PendingFrame
<1>5. QED
  BY <1>2, <1>3, <1>4 DEF ProxyInv

\* tracker.decrement(): the count is at least one, since the task itself is
\* counted, and the task that takes it to zero is the one that will notify.
LEMMA DecrementPreserves ==
  ASSUME ProxyInv, NEW k \in Clients, Decrement(k)
  PROVE  ProxyInv'
<1> USE DEF Decrement, sessionVars, taskVars
<1>1. route[k] \in Forwards
  BY DEF ProxyInv, RouteInv, Routed, Counted
<1>2. ASSUME NEW f \in Forwards
      PROVE  IsFiniteSet(CountedOn(f)) /\ Cardinality(CountedOn(f)) \in Nat
  BY ClientSets DEF CountedOn
<1>3. /\ Cardinality(CountedOn(route[k]) \ {k}) = count[route[k]] - 1
      /\ count[route[k]] \in Nat \ {0}
  <2>1. k \in CountedOn(route[k])
    BY DEF CountedOn
  <2>2. /\ Cardinality(CountedOn(route[k]) \ {k}) = Cardinality(CountedOn(route[k])) - 1
        /\ Cardinality(CountedOn(route[k]) \ {k}) \in Nat
    BY <1>1, <1>2, <2>1, FS_RemoveElement, FS_CardinalityType
  <2>3. QED
    BY <1>1, <1>2, <2>2 DEF ProxyInv, TrackerExact
<1>4. TypeOK'
  BY <1>1, <1>3 DEF ProxyInv, TypeOK, Goto
<1>5. RouteInv'
  BY <1>1 DEF ProxyInv, TypeOK, RouteInv, Goto
<1>6. TrackerExact'
  <2>1. SUFFICES ASSUME NEW f \in Forwards PROVE count'[f] = Cardinality(CountedOn(f)')
    BY DEF TrackerExact
  <2>2. CASE f = route[k]
    <3>1. CountedOn(f)' = CountedOn(f) \ {k}
      BY <2>2 DEF CountedOn, ProxyInv, TypeOK, Goto
    <3>2. QED
      BY <1>1, <1>3, <2>2, <3>1 DEF ProxyInv, TypeOK
  <2>3. CASE f # route[k]
    <3>1. CountedOn(f)' = CountedOn(f)
      BY <2>3 DEF CountedOn, ProxyInv, TypeOK, Goto
    <3>2. QED
      BY <2>3, <3>1 DEF ProxyInv, TypeOK, TrackerExact
  <2>4. QED
    BY <2>2, <2>3
<1>7. NoLostWakeup'
  <2>1. SUFFICES ASSUME NEW f \in Forwards, fwd[f] = "awaiting", ~woken[f]
                 PROVE  count'[f] > 0 \/ \E j \in Clients : client'[j] = "notifying" /\ route[j] = f
    BY DEF NoLostWakeup
  <2>2. CASE f = route[k]
    <3>1. CASE count[f] = 1
      BY <2>2, <3>1 DEF ProxyInv, TypeOK, Goto
    <3>2. CASE count[f] # 1
      BY <1>1, <1>3, <2>2, <3>2 DEF ProxyInv, TypeOK
    <3>3. QED
      BY <3>1, <3>2
  <2>3. CASE f # route[k]
    <3>1. count'[f] = count[f]
      BY <2>3 DEF ProxyInv, TypeOK
    <3>2. \A j \in Clients : client[j] = "notifying" => client'[j] = "notifying"
      BY DEF ProxyInv, TypeOK, Goto
    <3>3. QED
      BY <2>1, <3>1, <3>2 DEF ProxyInv, NoLostWakeup
  <2>4. QED
    BY <2>2, <2>3
<1>8. PendingInv'
  BY PendingFrame
<1>9. QED
  BY <1>4, <1>5, <1>6, <1>7, <1>8 DEF ProxyInv

\* notify_waiters(): a waiter that sleeps on this forward is awake afterwards.
LEMMA NotifyWaitersPreserves ==
  ASSUME ProxyInv, NEW k \in Clients, NotifyWaiters(k)
  PROVE  ProxyInv'
<1> USE DEF NotifyWaiters, sessionVars, taskVars
<1>1. route[k] \in Forwards
  BY DEF ProxyInv, RouteInv, Routed
<1>2. TypeOK'
  BY <1>1 DEF ProxyInv, TypeOK, Goto
<1>3. RouteInv'
  BY <1>1 DEF ProxyInv, TypeOK, RouteInv, Routed, Counted, Goto
<1>4. \A f \in Forwards : CountedOn(f)' = CountedOn(f)
  BY DEF CountedOn, ProxyInv, TypeOK, Goto
<1>5. TrackerExact'
  BY <1>4 DEF ProxyInv, TrackerExact
<1>6. NoLostWakeup'
  <2>1. SUFFICES ASSUME NEW f \in Forwards, fwd[f] = "awaiting", ~woken'[f]
                 PROVE  count[f] > 0 \/ \E j \in Clients : client'[j] = "notifying" /\ route[j] = f
    BY DEF NoLostWakeup
  <2>2. f # route[k] /\ ~woken[f]
    BY <1>1, <2>1 DEF ProxyInv, TypeOK
  <2>3. \A j \in Clients \ {k} : client'[j] = client[j]
    BY DEF ProxyInv, TypeOK, Goto
  <2>4. QED
    BY <2>1, <2>2, <2>3 DEF ProxyInv, NoLostWakeup
<1>7. PendingInv'
  BY PendingFrame
<1>8. QED
  BY <1>2, <1>3, <1>5, <1>6, <1>7 DEF ProxyInv
------------------------------------------------------------------------------
(* The container's registration and its data connections *)

LEMMA SendRequestPreserves ==
  ASSUME ProxyInv, NEW s \in Sessions, SendRequest(s)
  PROVE  ProxyInv'
<1> USE DEF SendRequest, forwardVars, taskVars
<1> DEFINE k == Head(requests[s])
<1>0. k \in Clients /\ requests' \in [Sessions -> Seq(Clients)]
  <2>1. requests[s] \in Seq(Clients) /\ requests[s] # <<>>
    BY DEF ProxyInv, TypeOK
  <2>2. Head(requests[s]) \in Clients /\ Tail(requests[s]) \in Seq(Clients)
    BY <2>1
  <2>3. QED
    BY <2>2 DEF ProxyInv, TypeOK
<1>1. pending' \in SUBSET pending /\ TypeOK'
  <2>1. CASE peer' = [peer EXCEPT ![k] = "asked"] /\ UNCHANGED <<pending, rx>>
    BY <1>0, <2>1 DEF ProxyInv, TypeOK
  <2>2. CASE CancelPending(k) /\ UNCHANGED peer
    <3>1. /\ pending' \in SUBSET pending
          /\ pending' \in SUBSET Clients /\ Cardinality(pending') <= MaxPending
          /\ rx' \in [Clients -> {"unused", "open", "data", "broken", "closed"}]
      BY <1>0, <2>2, CancelPendingTypes DEF ProxyInv
    <3>2. QED
      BY <1>0, <2>2, <3>1 DEF ProxyInv, TypeOK
  <2>3. QED
    BY <2>1, <2>2
<1>2. RouteInv' /\ TrackerExact' /\ NoLostWakeup'
  BY TrackerStutter
<1>3. PendingInv'
  BY <1>1 DEF ProxyInv, PendingInv
<1>4. QED
  BY <1>1, <1>2, <1>3 DEF ProxyInv

LEMMA EndSessionPreserves ==
  ASSUME ProxyInv, NEW s \in Sessions, EndSession(s)
  PROVE  ProxyInv'
<1> USE DEF EndSession, forwardVars, taskVars
<1>1. TypeOK'
  BY DEF ProxyInv, TypeOK
<1>2. RouteInv' /\ TrackerExact' /\ NoLostWakeup'
  BY TrackerStutter
<1>3. PendingInv'
  BY DEF ProxyInv, PendingInv
<1>4. QED
  BY <1>1, <1>2, <1>3 DEF ProxyInv

LEMMA PeerPreserves ==
  ASSUME ProxyInv, NEW k \in Clients,
         ContainerConnects(k) \/ ContainerFails(k) \/ ConnectFailed(k) \/ ResolvePending(k)
  PROVE  ProxyInv'
<1> USE DEF forwardVars, sessionVars, taskVars
<1>1. pending' \in SUBSET pending /\ TypeOK'
  <2>1. CASE ContainerConnects(k)
    BY <2>1 DEF ContainerConnects, ProxyInv, TypeOK
  <2>2. CASE ContainerFails(k)
    BY <2>2 DEF ContainerFails, ProxyInv, TypeOK
  <2>3. CASE ConnectFailed(k) /\ CancelPending(k)
    <3>1. /\ pending' \in SUBSET pending
          /\ pending' \in SUBSET Clients /\ Cardinality(pending') <= MaxPending
          /\ rx' \in [Clients -> {"unused", "open", "data", "broken", "closed"}]
      BY <2>3, CancelPendingTypes DEF ProxyInv
    <3>2. QED
      BY <2>3, <3>1 DEF ConnectFailed, ProxyInv, TypeOK
  <2>4. CASE ConnectFailed(k) /\ UNCHANGED <<pending, rx>>
    BY <2>4 DEF ConnectFailed, ProxyInv, TypeOK
  <2>5. CASE ResolvePending(k)
    <3>1. pending' \in SUBSET Clients /\ Cardinality(pending') <= MaxPending
      BY <2>5, PendingShrinks DEF ResolvePending, ProxyInv
    <3>2. QED
      BY <2>5, <3>1 DEF ResolvePending, ProxyInv, TypeOK
  <2>6. QED
    BY <2>1, <2>2, <2>3, <2>4, <2>5 DEF ConnectFailed
<1>2. UNCHANGED <<count, fwd, woken, route, client>>
  BY DEF ContainerConnects, ContainerFails, ConnectFailed, ResolvePending
<1>3. RouteInv' /\ TrackerExact' /\ NoLostWakeup'
  BY <1>2, TrackerStutter
<1>4. PendingInv'
  BY <1>1, <1>2 DEF ProxyInv, PendingInv
<1>5. QED
  BY <1>1, <1>3, <1>4 DEF ProxyInv
------------------------------------------------------------------------------
(* Teardown and drain of a forward *)

\* A waiter falls asleep only after it has read a count above zero, with its
\* Notified future already created.
LEMMA DrainPreserves ==
  ASSUME ProxyInv, NEW f \in Forwards, TearDown(f) \/ Drain(f) \/ DrainTimeout(f)
  PROVE  ProxyInv'
<1> USE DEF TearDown, Drain, ListenerGone, DrainStart, WaitCreate, WaitCheck, WaitWake, DrainTimeout,
            sessionVars, taskVars
<1>1. UNCHANGED <<looping, count, session, requests, pending, client, via, route, heeds, rx, peer>>
  OBVIOUS
<1>2. TypeOK'
  <2>1. /\ fwd' \in [Forwards -> {"up", "stopping", "stopped", "draining", "created", "awaiting",
                                  "drained", "cancelled"}]
        /\ woken' \in [Forwards -> BOOLEAN] /\ cancelled' \in [Forwards -> BOOLEAN]
    BY DEF ProxyInv, TypeOK
  <2> HIDE DEF TearDown, Drain, DrainTimeout
  <2>2. QED
    BY <1>1, <2>1 DEF ProxyInv, TypeOK
<1>3. RouteInv' /\ PendingInv'
  BY <1>1 DEF ProxyInv, RouteInv, PendingInv
<1>4. TrackerExact'
  <2>1. \A g \in Forwards : CountedOn(g)' = CountedOn(g)
    BY <1>1 DEF CountedOn
  <2>2. QED
    BY <1>1, <2>1 DEF ProxyInv, TrackerExact
<1>5. NoLostWakeup'
  <2>1. SUFFICES ASSUME NEW g \in Forwards, fwd'[g] = "awaiting", ~woken'[g]
                 PROVE  count[g] > 0 \/ \E j \in Clients : client[j] = "notifying" /\ route[j] = g
    BY <1>1 DEF NoLostWakeup
  <2>2. (fwd[g] = "awaiting" /\ ~woken[g]) \/ count[g] # 0
    BY <2>1 DEF ProxyInv, TypeOK
  <2>3. QED
    BY <2>2 DEF ProxyInv, TypeOK, NoLostWakeup
<1>6. QED
  BY <1>2, <1>3, <1>4, <1>5 DEF ProxyInv
------------------------------------------------------------------------------
LEMMA ProxyInit == Init => ProxyInv
<1> SUFFICES ASSUME Init PROVE ProxyInv
  OBVIOUS
<1> USE DEF Init
<1>1. Cardinality({}) = 0
  BY FS_EmptySet
<1>2. TypeOK
  BY <1>1, ProxyAssumption DEF TypeOK
<1>3. RouteInv /\ PendingInv
  BY DEF RouteInv, PendingInv, Routed, Counted
<1>4. TrackerExact
  <2>1. \A f \in Forwards : CountedOn(f) = {}
    BY DEF CountedOn
  <2>2. QED
    BY <1>1, <2>1 DEF TrackerExact
<1>5. NoLostWakeup
  BY DEF NoLostWakeup
<1>6. QED
  BY <1>2, <1>3, <1>4, <1>5 DEF ProxyInv

LEMMA ProxyStep == ProxyInv /\ [Next]_vars => ProxyInv'
<1> SUFFICES ASSUME ProxyInv, [Next]_vars PROVE ProxyInv'
  OBVIOUS
<1>1. CASE \E k \in Clients : \E f \in Forwards : Accept(k, f)
  BY <1>1, AcceptPreserves
<1>2. ASSUME NEW k \in Clients, Task(k) PROVE ProxyInv'
  BY <1>2, EnqueuePreserves, ReceivePreserves, RoutePreserves, CountPreserves,
     RegisterPendingPreserves, RequestPreserves, SubscribePreserves, BridgePreserves, GiveUpPreserves,
     ExpirePreserves, DecrementPreserves, NotifyWaitersPreserves DEF Task
<1>3. ASSUME NEW k \in Clients, Close(k) \/ ForceClose(k) PROVE ProxyInv'
  BY <1>3, ClosePreserves, ForceClosePreserves
<1>4. ASSUME NEW k \in Clients,
             ContainerConnects(k) \/ ContainerFails(k) \/ ConnectFailed(k) \/ ResolvePending(k)
      PROVE  ProxyInv'
  BY <1>4, PeerPreserves
<1>5. ASSUME NEW s \in Sessions, SendRequest(s) \/ EndSession(s) PROVE ProxyInv'
  BY <1>5, SendRequestPreserves, EndSessionPreserves
<1>6. CASE EndLoop
  <2>1. TypeOK' /\ PendingInv'
    BY <1>6 DEF EndLoop, sessionVars, taskVars, ProxyInv, TypeOK, PendingInv
  <2>2. RouteInv' /\ TrackerExact' /\ NoLostWakeup'
    BY <1>6, TrackerStutter DEF EndLoop, taskVars
  <2>3. QED
    BY <2>1, <2>2 DEF ProxyInv
<1>7. ASSUME NEW f \in Forwards, TearDown(f) \/ Drain(f) \/ DrainTimeout(f) PROVE ProxyInv'
  BY <1>7, DrainPreserves
<1>8. CASE UNCHANGED vars
  <2>1. TypeOK' /\ PendingInv'
    BY <1>8 DEF vars, ProxyInv, TypeOK, PendingInv
  <2>2. RouteInv' /\ TrackerExact' /\ NoLostWakeup'
    BY <1>8, TrackerStutter DEF vars
  <2>3. QED
    BY <2>1, <2>2 DEF ProxyInv
<1>9. QED
  BY <1>1, <1>2, <1>3, <1>4, <1>5, <1>6, <1>7, <1>8 DEF Next

LEMMA ProxyInvariant == Spec => []ProxyInv
BY ProxyInit, ProxyStep, PTL DEF Spec

\* The tracker of a forward counts exactly the tasks that have incremented it
\* and not yet left, for any number of clients and forwards: decrement() never
\* underflows, and the map of pending connections never exceeds MAX_PENDING.
THEOREM CountExactHolds == Spec => []CountExact
<1>1. ProxyInv => CountExact
  BY DEF ProxyInv, TrackerExact, CountExact
<1>2. QED
  BY <1>1, ProxyInvariant, PTL

\* wait_drained sleeps only while a connection is active or the task that took
\* the count to zero has still to call notify_waiters().
THEOREM NoLostWakeupHolds == Spec => []NoLostWakeup
<1>1. ProxyInv => NoLostWakeup
  BY DEF ProxyInv
<1>2. QED
  BY <1>1, ProxyInvariant, PTL

\* An entry of the map has not been used, and if its receiver is still there
\* its task waits for it: every way out of the wait closes the one or removes
\* the other.
LiveInv ==
  \A k \in pending : rx[k] = "closed" \/ AwaitsData(k)

LEMMA LiveInit == Init => LiveInv
BY DEF Init, LiveInv

\* A step of task k that moves no other task and leaves the other receivers.
LEMMA LiveFrame ==
  ASSUME ProxyInv, LiveInv, NEW k \in Clients, NEW label, Goto(k, label),
         \A j \in Clients \ {k} : rx'[j] = rx[j],
         pending' \in SUBSET (pending \cup {k}),
         k \in pending' => \/ rx'[k] = "closed"
                           \/ rx'[k] = "open" /\ label \in {"registered", "requested", "waiting"}
  PROVE  LiveInv'
<1>1. client'[k] = label /\ \A j \in Clients \ {k} : client'[j] = client[j]
  BY DEF ProxyInv, TypeOK, Goto
<1>2. pending' \in SUBSET Clients
  BY DEF ProxyInv, TypeOK
<1>3. QED
  BY <1>1, <1>2 DEF LiveInv, AwaitsData

\* The same for a step that only takes entries out of the map.
LEMMA LiveStutter ==
  ASSUME ProxyInv, LiveInv, client' = client, pending' \in SUBSET pending,
         \A j \in pending' : rx'[j] = rx[j]
  PROVE  LiveInv'
BY DEF LiveInv, AwaitsData

\* pending.remove touches only its own receiver.
LEMMA CancelKeepsOthers ==
  ASSUME ProxyInv, NEW k \in Clients, CancelPending(k)
  PROVE  k \notin pending' /\ pending' \in SUBSET pending /\ \A j \in Clients \ {k} : rx'[j] = rx[j]
BY DEF CancelPending, ProxyInv, TypeOK

LEMMA LiveTask ==
  ASSUME ProxyInv, LiveInv, NEW k \in Clients,
         Task(k) \/ Close(k) \/ ForceClose(k) \/ \E f \in Forwards : Accept(k, f)
  PROVE  LiveInv'
<1>0. /\ k \in pending => client[k] \notin {"new", "offered", "queued", "accepted", "routed", "counted"}
      /\ k \in pending => rx[k] = "closed" \/ AwaitsData(k)
      /\ rx \in [Clients -> {"unused", "open", "data", "broken", "closed"}]
  BY DEF ProxyInv, PendingInv, LiveInv, TypeOK
<1>1. ASSUME NEW f \in Forwards, Accept(k, f) PROVE LiveInv'
  BY <1>0, <1>1, LiveFrame DEF Accept
<1>2. CASE Enqueue(k) \/ Receive(k) \/ Route(k) \/ Count(k)
  <2>1. rx' = rx /\ pending' = pending /\ k \notin pending
    BY <1>0, <1>2 DEF Enqueue, Receive, Route, Count
  <2>2. \E label : Goto(k, label)
    BY <1>2 DEF Enqueue, Receive, Route, Count
  <2>3. QED
    BY <2>1, <2>2, LiveFrame
<1>3. CASE RegisterPending(k)
  <2>1. Pruned \in SUBSET pending /\ k \notin pending
    BY <1>0, <1>3 DEF Pruned, RegisterPending
  <2>2. CASE Cardinality(Pruned) >= MaxPending
    <3>1. pending' = Pruned /\ Goto(k, "leaving") /\ rx' = rx
      BY <1>3, <2>2 DEF RegisterPending
    <3>2. QED
      BY <2>1, <3>1, LiveFrame
  <2>3. CASE ~(Cardinality(Pruned) >= MaxPending)
    <3>1. pending' = Pruned \cup {k} /\ Goto(k, "registered") /\ rx' = [rx EXCEPT ![k] = "open"]
      BY <1>3, <2>3 DEF RegisterPending
    <3>2. rx'[k] = "open" /\ \A j \in Clients \ {k} : rx'[j] = rx[j]
      BY <1>0, <3>1
    <3>3. QED
      BY <2>1, <3>1, <3>2, LiveFrame
  <2>4. QED
    BY <2>2, <2>3
<1>4. CASE Request(k)
  <2>1. CASE Goto(k, "requested") /\ UNCHANGED <<pending, rx>>
    BY <1>0, <2>1, LiveFrame DEF AwaitsData
  <2>2. CASE Goto(k, "leaving") /\ CancelPending(k)
    BY <2>2, CancelKeepsOthers, LiveFrame
  <2>3. QED
    BY <1>4, <2>1, <2>2 DEF Request
<1>5. CASE Subscribe(k)
  BY <1>0, <1>5, LiveFrame DEF AwaitsData, Subscribe
<1>6. CASE Bridge(k)
  BY <1>0, <1>6, LiveFrame DEF AwaitsData, Bridge
<1>7. CASE GiveUp(k) \/ Close(k) \/ ForceClose(k)
  <2>1. pending' = pending /\ rx'[k] = "closed" /\ \A j \in Clients \ {k} : rx'[j] = rx[j]
    BY <1>0, <1>7 DEF GiveUp, Close, ForceClose
  <2>2. \E label : Goto(k, label)
    BY <1>7 DEF GiveUp, Close, ForceClose
  <2>3. QED
    BY <2>1, <2>2, LiveFrame
<1>8. CASE Expire(k)
  BY <1>8, CancelKeepsOthers, LiveFrame DEF Expire
<1>9. CASE Decrement(k) \/ NotifyWaiters(k)
  <2>1. pending' = pending /\ rx' = rx /\ client[k] \in {"leaving", "notifying"}
    BY <1>9 DEF Decrement, NotifyWaiters
  <2>2. \E label : Goto(k, label)
    BY <1>9 DEF Decrement, NotifyWaiters
  <2>3. QED
    BY <1>0, <2>1, <2>2, LiveFrame DEF AwaitsData
<1>10. QED
  BY <1>1, <1>2, <1>3, <1>4, <1>5, <1>6, <1>7, <1>8, <1>9 DEF Task

LEMMA LiveRest ==
  ASSUME ProxyInv, LiveInv,
         \/ \E k \in Clients : \/ ContainerConnects(k) \/ ContainerFails(k)
                               \/ ConnectFailed(k) \/ ResolvePending(k)
         \/ \E s \in Sessions : SendRequest(s) \/ EndSession(s)
         \/ EndLoop \/ UNCHANGED vars
         \/ \E f \in Forwards : TearDown(f) \/ Drain(f) \/ DrainTimeout(f)
  PROVE  LiveInv'
<1>1. ASSUME NEW k \in Clients, CancelPending(k), client' = client PROVE LiveInv'
  <2>1. k \notin pending' /\ pending' \in SUBSET pending /\ \A j \in Clients \ {k} : rx'[j] = rx[j]
    BY <1>1, CancelKeepsOthers
  <2>2. \A j \in pending' : rx'[j] = rx[j]
    BY <2>1 DEF ProxyInv, TypeOK
  <2>3. QED
    BY <1>1, <2>1, <2>2, LiveStutter
<1>2. CASE pending' = pending /\ rx' = rx /\ client' = client
  BY <1>2, LiveStutter
<1>3. ASSUME NEW k \in Clients, ConnectFailed(k) PROVE LiveInv'
  BY <1>1, <1>2, <1>3 DEF ConnectFailed
<1>4. ASSUME NEW k \in Clients, ResolvePending(k) PROVE LiveInv'
  <2>1. client' = client /\ pending' = pending \ {k}
    BY <1>4 DEF ResolvePending
  <2>2. \A j \in pending' : rx'[j] = rx[j]
    BY <1>4, <2>1 DEF ResolvePending, ProxyInv, TypeOK
  <2>3. QED
    BY <2>1, <2>2, LiveStutter
<1>5. ASSUME NEW s \in Sessions, SendRequest(s) PROVE LiveInv'
  <2>1. Head(requests[s]) \in Clients /\ client' = client
    BY <1>5 DEF SendRequest, ProxyInv, TypeOK
  <2>2. CancelPending(Head(requests[s])) \/ UNCHANGED <<pending, rx>>
    BY <1>5 DEF SendRequest
  <2>3. QED
    BY <1>1, <1>2, <2>1, <2>2
<1>6. ASSUME NEW k \in Clients, ContainerConnects(k) \/ ContainerFails(k) PROVE LiveInv'
  BY <1>2, <1>6 DEF ContainerConnects, ContainerFails
<1>7. ASSUME NEW s \in Sessions, EndSession(s) PROVE LiveInv'
  BY <1>2, <1>7 DEF EndSession
<1>8. CASE EndLoop \/ UNCHANGED vars
  BY <1>2, <1>8 DEF EndLoop, vars
<1>9. ASSUME NEW f \in Forwards, TearDown(f) \/ Drain(f) \/ DrainTimeout(f) PROVE LiveInv'
  BY <1>2, <1>9 DEF TearDown, Drain, ListenerGone, DrainStart, WaitCreate, WaitCheck, WaitWake,
        DrainTimeout
<1>10. QED
  BY <1>3, <1>4, <1>5, <1>6, <1>7, <1>8, <1>9

LEMMA LiveStep == ProxyInv /\ LiveInv /\ [Next]_vars => LiveInv'
<1> SUFFICES ASSUME ProxyInv, LiveInv, [Next]_vars PROVE LiveInv'
  OBVIOUS
<1>1. ASSUME NEW k \in Clients,
             Task(k) \/ Close(k) \/ ForceClose(k) \/ \E f \in Forwards : Accept(k, f)
      PROVE  LiveInv'
  BY <1>1, LiveTask
<1>2. QED
  BY <1>1, LiveRest DEF Next

LEMMA LiveInvariant == Spec => []LiveInv
BY LiveInit, LiveStep, ProxyInvariant, PTL DEF Spec

\* register_pending refuses a client only while MAX_PENDING other tasks wait
\* for their data connection, for any number of clients and any capacity: by
\* LiveInv what is left after the pruning are tasks that wait.
THEOREM RefusedOnlyWhenFullHolds == Spec => RefusedOnlyWhenFull
<1> DEFINE Full(k) == Cardinality({j \in Clients \ {k} : AwaitsData(j)}) >= MaxPending
           A == \A k \in Clients : client[k] = "counted" /\ client'[k] = "leaving" => Full(k)
<1>1. ProxyInv /\ LiveInv /\ [Next]_vars => [A]_vars
  <2>1. SUFFICES ASSUME ProxyInv, LiveInv, Next, NEW k \in Clients, client[k] = "counted",
                        client'[k] = "leaving"
                 PROVE  Full(k)
    OBVIOUS
  <2>2. RegisterPending(k)
    <3>1. client' # client
      BY <2>1
    <3>2. PICK j \in Clients : Task(j) \/ Close(j) \/ ForceClose(j) \/ \E f \in Forwards : Accept(j, f)
      BY <2>1, <3>1 DEF Next, EndLoop, ContainerConnects, ContainerFails, ConnectFailed, ResolvePending,
            SendRequest, EndSession, TearDown, Drain, ListenerGone, DrainStart, WaitCreate, WaitCheck,
            WaitWake, DrainTimeout
    <3>3. \E label : Goto(j, label)
      BY <3>2 DEF Task, Close, ForceClose, Accept, Enqueue, Receive, Route, Count, RegisterPending, Request,
            Subscribe, Bridge, GiveUp, Expire, Decrement, NotifyWaiters
    <3>4. j = k
      BY <2>1, <3>3 DEF Goto, ProxyInv, TypeOK
    <3>5. QED
      BY <2>1, <3>2, <3>4 DEF Task, Close, ForceClose, Accept, Enqueue, Receive, Route, Count, Request,
            Subscribe, Bridge, GiveUp, Expire, Decrement, NotifyWaiters
  <2>3. Cardinality(Pruned) >= MaxPending
    BY <2>1, <2>2 DEF RegisterPending, Goto, ProxyInv, TypeOK
  <2>4. Cardinality(pending) >= MaxPending
    BY <2>3 DEF Pruned
  <2>5. k \notin pending
    BY <2>1 DEF ProxyInv, PendingInv
  <2>6. Pruned \subseteq {j \in Clients \ {k} : AwaitsData(j)}
    BY <2>1, <2>4, <2>5 DEF Pruned, ProxyInv, TypeOK, LiveInv
  <2>7. /\ Cardinality(Pruned) <= Cardinality({j \in Clients \ {k} : AwaitsData(j)})
        /\ Cardinality(Pruned) \in Nat
        /\ Cardinality({j \in Clients \ {k} : AwaitsData(j)}) \in Nat
    <3>1. /\ IsFiniteSet({j \in Clients \ {k} : AwaitsData(j)})
          /\ Cardinality({j \in Clients \ {k} : AwaitsData(j)}) \in Nat
      BY ClientSets
    <3>2. Pruned \in SUBSET Clients
      BY <2>6
    <3>3. QED
      BY <2>6, <3>1, <3>2, ClientSets, FS_Subset
  <2>8. QED
    BY <2>3, <2>7, ProxyAssumption
<1>2. QED
  BY <1>1, ProxyInvariant, LiveInvariant, PTL DEF Spec, RefusedOnlyWhenFull
==============================================================================
