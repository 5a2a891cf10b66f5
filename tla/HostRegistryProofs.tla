-------------------------- MODULE HostRegistryProofs --------------------------
(***************************************************************************)
(* For every number of containers, connections and ports: the safety       *)
(* invariants of HostRegistry hold, by one inductive invariant; the daemon *)
(* exits when idle; the registry implements PortLease; and with one        *)
(* connection per container no port leaks and the limit of forwards holds. *)
(* At the end, PortAlloc's loop is shown to compute FindAvailablePort, the *)
(* operator by which the registry reserves ports.                          *)
(***************************************************************************)
EXTENDS HostRegistry, PortAlloc, FiniteSetTheorems, TLAPS

AwaitingStop == {"fwdStop", "unfStop", "admUnmap", "admStop"}

\* The locals of a task are what its position in the code says.
LocalsInv ==
  \A h \in Conns :
    /\ pc[h] \in {"fwdLimit", "fwdStop", "fwdDrain", "fwdReserve", "fwdBind", "fwdRelease",
                  "fwdCommit", "fwdGone", "fwdMap", "unfRemove"} => port[h] \in Ports
    /\ pc[h] \in {"fwdBind", "fwdRelease", "fwdCommit", "fwdMap"} => target[h] \in HostPorts

\* The lock is held across an await by the task that is at one of the two
\* places where the code does that.
LockInv == \A h \in Conns : pc[h] \in {"fwdGone", "idleSend"} => lock = h

\* No two tabled forwards share a host port.
TableInv ==
  \A c, d \in Cids, p, r \in Ports :
    /\ forwards[c][p] # None
    /\ forwards[d][r] # None
    /\ forwards[c][p][1] = forwards[d][r][1]
    => c = d /\ p = r

\* A reservation is booked, to one task, and is in nobody's forward; until
\* run() takes the lock for good and clears the bookings.
ReserveInv ==
  lock # Main =>
    \A h \in Reserving :
      /\ used[target[h]] = CidOf[h]
      /\ \A c \in Cids, p \in Ports : forwards[c][p] # None => forwards[c][p][1] # target[h]
      /\ \A g \in Reserving : target[g] = target[h] => g = h

\* A listener that is bound and not yet tabled accepts on the reserved port.
BoundInv ==
  \A h \in Conns : pc[h] = "fwdCommit" =>
    /\ lsock[h] \in Sockets
    /\ lsock[h][1] = target[h]
    /\ sock[lsock[h]] = "open"

\* A listener that a task awaits is still bound, stopped or about to be, and
\* is in nobody's hands any more.
WaitInv ==
  \A t \in Conns \cup {Main} : \A l \in wait[t] :
    /\ sock[l] # "free"
    /\ sock[l] = "open" => t \in Conns /\ pc[t] \in AwaitingStop
    /\ \A c \in Cids, p \in Ports : forwards[c][p] # l
    /\ \A h \in Conns : pc[h] = "fwdCommit" => lsock[h] # l

\* Who holds what: listeners, reservations and bookings fit together.
ClaimsInv ==
  /\ TableInv /\ ReserveInv /\ BoundInv /\ WaitInv
  /\ ForwardIsServed /\ NoOrphanListener

IInv == TypeOK /\ LocalsInv /\ LockInv /\ NoZombieRegistration /\ ClaimsInv

\* The positions at which a task holds a reservation or an unstopped listener.
Claiming == {"fwdBind", "fwdRelease", "fwdCommit"} \cup AwaitingStop
------------------------------------------------------------------------------
(* Facts about the constants and the helpers *)

\* The null value and the main task are no connection, container or socket;
\* NoPort is no port.
LEMMA ConstantFacts ==
  /\ Main \notin Conns /\ None \notin Conns /\ Main # None
  /\ None \notin Cids /\ None \notin Sockets
  /\ \A h \in Conns : CidOf[h] \in Cids
  /\ Ports \subseteq HostPorts /\ NoPort \notin HostPorts
  BY RegistryAssumption DEF Sockets, HostPorts, NoPort

\* A socket is a host port with an address family.
LEMMA SocketFacts ==
  /\ \A l \in Sockets : l[1] \in HostPorts
  /\ \A q \in HostPorts : /\ <<q, "v4">> \in Sockets /\ <<q, "v4">>[1] = q
                          /\ <<q, "v6">> \in Sockets /\ <<q, "v6">>[1] = q
  BY DEF Sockets

\* find_available_port never returns a port that is in used_host_ports.
LEMMA FindAvailableFacts ==
  ASSUME NEW U \in SUBSET HostPorts, NEW p \in HostPorts,
         NEW q \in FindAvailablePort(U, p), q # NoPort
  PROVE  q \in HostPorts /\ q \notin U
  BY PortSpaceAssumption DEF FindAvailablePort, LeastOf, Unprivileged, HostPorts, NoPort

\* The helpers keep the tables typed, and a container's listeners are sockets.
LEMMA HelperTypes ==
  ASSUME TypeOK
  PROVE  /\ \A c \in Cids : Listeners(c) \subseteq Sockets
         /\ \A c \in Cids : Forwarded(c) \subseteq Ports
         /\ \A S : Release(S) => used' \in [HostPorts -> Cids \cup {None}]
         /\ \A S : Stop(S) => sock' \in [Sockets -> {"free", "open", "closing"}]
         /\ \A c \in Cids : Empty(c) => forwards' \in [Cids -> [Ports -> Sockets \cup {None}]]
         /\ \A c \in Cids, p \in Ports :
              Remove(c, p) => forwards' \in [Cids -> [Ports -> Sockets \cup {None}]]
<1>1. \A c \in Cids : Listeners(c) \subseteq Sockets /\ Forwarded(c) \subseteq Ports
  BY DEF TypeOK, Listeners, Forwarded
<1>2. \A S : Release(S) => used' \in [HostPorts -> Cids \cup {None}]
  BY DEF TypeOK, Release
<1>3. \A S : Stop(S) => sock' \in [Sockets -> {"free", "open", "closing"}]
  BY DEF TypeOK, Stop
<1>4. \A c \in Cids : Empty(c) => forwards' \in [Cids -> [Ports -> Sockets \cup {None}]]
  BY DEF TypeOK, Empty
<1>5. \A c \in Cids, p \in Ports :
        Remove(c, p) => forwards' \in [Cids -> [Ports -> Sockets \cup {None}]]
  BY DEF TypeOK, Remove
<1>6. QED
  BY <1>1, <1>2, <1>3, <1>4, <1>5

\* A task's removal of an entry keeps everything typed.
LEMMA TearDownTypes ==
  ASSUME TypeOK, NEW h \in Conns, NEW c \in Cids, NEW a \in Labels,
         TearDown(h, c), pc' = [pc EXCEPT ![h] = a],
         UNCHANGED <<browser, lock, main, port, target, lsock>>
  PROVE  TypeOK'
<1>1. forwards' \in [Cids -> [Ports -> Sockets \cup {None}]]
  BY HelperTypes DEF TearDown
<1>2. used' \in [HostPorts -> Cids \cup {None}]
  BY HelperTypes DEF TearDown
<1>3. sock' \in [Sockets -> {"free", "open", "closing"}]
  BY HelperTypes DEF TearDown
<1>4. owner' \in [Cids -> Conns \cup {None}]
  BY DEF TearDown, TypeOK
<1>5. dropped' \in [Conns -> SUBSET Ports]
  <2>1. Forwarded(c) \in SUBSET Ports
    BY HelperTypes
  <2>2. QED
    BY <2>1 DEF TearDown, TypeOK
<1>6. wait' \in [Conns \cup {Main} -> SUBSET Sockets]
  <2>1. Listeners(c) \in SUBSET Sockets
    BY HelperTypes
  <2>2. QED
    BY <2>1 DEF TearDown, TypeOK
<1>7. QED
  BY <1>1, <1>2, <1>3, <1>4, <1>5, <1>6 DEF TypeOK, main

\* So does the removal of one forward.
LEMMA TakeOutTypes ==
  ASSUME TypeOK, NEW h \in Conns, NEW c \in Cids, NEW p \in Ports, NEW a \in Labels,
         forwards[c][p] # None,
         Remove(c, p), Release({forwards[c][p]}),
         wait' = [wait EXCEPT ![h] = {forwards[c][p]}],
         dropped' \in [Conns -> SUBSET Ports],
         pc' = [pc EXCEPT ![h] = a],
         UNCHANGED <<owner, sock, browser, lock, main, port, target, lsock>>
  PROVE  TypeOK'
<1>1. forwards' \in [Cids -> [Ports -> Sockets \cup {None}]]
  BY HelperTypes
<1>2. used' \in [HostPorts -> Cids \cup {None}]
  BY HelperTypes
<1>3. wait' \in [Conns \cup {Main} -> SUBSET Sockets]
  BY DEF TypeOK
<1>4. QED
  BY <1>1, <1>2, <1>3 DEF TypeOK, main
------------------------------------------------------------------------------
(* The shapes of steps that several actions share *)

\* A task moves within its session, or is in none: no entry loses its task.
LEMMA EntryFrame ==
  ASSUME TypeOK, NoZombieRegistration, NEW h \in Conns, NEW a \in Labels,
         pc' = [pc EXCEPT ![h] = a], owner' = owner,
         pc[h] \in InSession => a \in InSession
  PROVE  NoZombieRegistration'
<1>1. SUFFICES ASSUME NEW c \in Cids, owner[c] # None
               PROVE  CidOf[owner[c]] = c /\ pc'[owner[c]] \in InSession
  BY DEF NoZombieRegistration
<1>2. owner[c] \in Conns /\ CidOf[owner[c]] = c /\ pc[owner[c]] \in InSession
  BY <1>1 DEF TypeOK, NoZombieRegistration
<1>3. pc'[owner[c]] = IF owner[c] = h THEN a ELSE pc[owner[c]]
  BY <1>2 DEF TypeOK
<1>4. QED
  BY <1>2, <1>3

\* A task removes the entry of its own container: it was in no other.
LEMMA EntryRemoved ==
  ASSUME TypeOK, NoZombieRegistration, NEW h \in Conns, NEW a \in Labels,
         pc' = [pc EXCEPT ![h] = a], owner' = [owner EXCEPT ![CidOf[h]] = None]
  PROVE  NoZombieRegistration'
<1>1. SUFFICES ASSUME NEW c \in Cids, owner'[c] # None
               PROVE  CidOf[owner'[c]] = c /\ pc'[owner'[c]] \in InSession
  BY DEF NoZombieRegistration
<1>2. c # CidOf[h] /\ owner'[c] = owner[c]
  BY <1>1, ConstantFacts DEF TypeOK
<1>3. owner[c] \in Conns /\ CidOf[owner[c]] = c /\ pc[owner[c]] \in InSession
  BY <1>1, <1>2 DEF TypeOK, NoZombieRegistration
<1>4. pc'[owner[c]] = pc[owner[c]]
  BY <1>2, <1>3 DEF TypeOK
<1>5. QED
  BY <1>2, <1>3, <1>4

\* A step that moves a task and may change the request it works on.
LEMMA MoveTypes ==
  ASSUME TypeOK, NEW h \in Conns, NEW a \in Labels,
         pc' = [pc EXCEPT ![h] = a],
         port' \in [Conns -> Ports \cup {NoPort}],
         target' \in [Conns -> HostPorts \cup {NoPort}],
         UNCHANGED <<table, sock, browser, lock, main, dropped, lsock, wait>>
  PROVE  TypeOK'
<1>1. pc' \in [Conns -> Labels]
  BY DEF TypeOK
<1>2. QED
  BY <1>1 DEF TypeOK, table, main

\* A task that holds nothing before the step, and takes nothing in it, disturbs
\* no claim.
LEMMA PlainStep ==
  ASSUME IInv, NEW h \in Conns, NEW a \in Labels,
         pc[h] \notin Claiming, a \notin {"fwdBind", "fwdRelease", "fwdCommit"},
         pc' = [pc EXCEPT ![h] = a],
         owner' = owner, forwards' = forwards, used' = used, sock' = sock,
         lsock' = lsock, wait' \in {wait, [wait EXCEPT ![h] = {}]},
         \A g \in Conns : g # h => target'[g] = target[g],
         lock = Main => lock' = Main
  PROVE  ClaimsInv'
<1> USE DEF IInv, TypeOK
<1>1. TableInv' /\ ForwardIsServed'
  BY DEF ClaimsInv, TableInv, ForwardIsServed
<1>2. ReserveInv'
  BY DEF ClaimsInv, ReserveInv, Reserving, Claiming
<1>3. BoundInv'
  BY DEF ClaimsInv, BoundInv, Claiming
<1>4. WaitInv'
  BY DEF ClaimsInv, WaitInv, Claiming, AwaitingStop
<1>5. NoOrphanListener'
  <2>1. \A g \in Conns : g # h => pc'[g] = pc[g] /\ wait'[g] = wait[g]
    OBVIOUS
  <2>2. SUFFICES ASSUME NEW k \in Sockets, sock[k] = "open"
                 PROVE  \/ \E d \in Cids, r \in Ports : forwards[d][r] = k
                        \/ \E g \in Conns : pc'[g] = "fwdCommit" /\ lsock[g] = k
                        \/ \E g \in Conns : pc'[g] \in AwaitingStop /\ k \in wait'[g]
    BY DEF NoOrphanListener, AwaitingStop
  <2>3. CASE \E g \in Conns : pc[g] = "fwdCommit" /\ lsock[g] = k
    BY <2>1, <2>3 DEF Claiming
  <2>4. CASE \E g \in Conns : pc[g] \in AwaitingStop /\ k \in wait[g]
    BY <2>1, <2>4 DEF Claiming
  <2>5. QED
    BY <2>2, <2>3, <2>4 DEF ClaimsInv, NoOrphanListener, AwaitingStop
<1>6. QED
  BY <1>1, <1>2, <1>3, <1>4, <1>5 DEF ClaimsInv

\* While the listeners and who holds them stay put, none is orphaned.
LEMMA ListenerFrame ==
  ASSUME WaitInv, NoOrphanListener,
         forwards' = forwards, sock' = sock, lsock' = lsock, wait' = wait,
         \A g \in Conns : pc'[g] = "fwdCommit" <=> pc[g] = "fwdCommit",
         \A g \in Conns : pc'[g] \in AwaitingStop <=> pc[g] \in AwaitingStop
  PROVE  WaitInv' /\ NoOrphanListener'
<1>1. WaitInv'
  BY DEF WaitInv
<1>2. NoOrphanListener'
  BY DEF NoOrphanListener, AwaitingStop
<1>3. QED
  BY <1>1, <1>2

\* One forward is taken out of the table: its port is free, its listener is
\* in the hands of the task, which will stop it.
LEMMA TakeOutStep ==
  ASSUME IInv, NEW h \in Conns, NEW a \in AwaitingStop, NEW c \in Cids, NEW p \in Ports,
         pc[h] \notin Claiming, lock # Main,
         forwards[c][p] # None,
         pc' = [pc EXCEPT ![h] = a],
         Remove(c, p), Release({forwards[c][p]}),
         wait' = [wait EXCEPT ![h] = {forwards[c][p]}],
         owner' = owner, sock' = sock, lsock' = lsock, target' = target, lock' = lock
  PROVE  ClaimsInv'
<1> DEFINE x == forwards[c][p]
<1> USE DEF IInv, TypeOK
<1>1. /\ x \in Sockets /\ x[1] \in HostPorts /\ sock[x] = "open"
      /\ \A d \in Cids, r \in Ports : forwards[d][r] \in Sockets \cup {None}
  BY ConstantFacts, SocketFacts DEF ClaimsInv, ForwardIsServed
<1>2. \A d \in Cids, r \in Ports :
        forwards'[d][r] = IF d = c /\ r = p THEN None ELSE forwards[d][r]
  BY DEF Remove
<1>3. \A q \in HostPorts : used'[q] = IF q = x[1] THEN None ELSE used[q]
  BY DEF Release
<1>4. \A d \in Cids, r \in Ports :
        forwards'[d][r] # None => forwards'[d][r] = forwards[d][r] /\ forwards[d][r][1] # x[1]
  BY <1>2 DEF ClaimsInv, TableInv
<1>5. \A g \in Reserving : target[g] # x[1]
  BY DEF ClaimsInv, ReserveInv
<1>6. \A g \in Conns : pc[g] = "fwdCommit" => lsock[g][1] # x[1]
  BY <1>5 DEF ClaimsInv, BoundInv, Reserving
<1>7. \A g \in Conns : pc'[g] = IF g = h THEN a ELSE pc[g]
  OBVIOUS
<1>8. \A t \in Conns \cup {Main} : wait'[t] = IF t = h THEN {x} ELSE wait[t]
  OBVIOUS
<1>11. TableInv'
  BY <1>4 DEF ClaimsInv, TableInv
<1>12. ReserveInv'
  <2>1. Reserving' = Reserving
    BY <1>7 DEF Reserving, Claiming, AwaitingStop
  <2>2. \A g \in Reserving : target[g] \in HostPorts
    BY DEF LocalsInv, Reserving
  <2>3. SUFFICES ASSUME NEW g \in Reserving
                 PROVE  /\ used'[target[g]] = CidOf[g]
                        /\ \A d \in Cids, r \in Ports :
                             forwards'[d][r] # None => forwards'[d][r][1] # target[g]
                        /\ \A k \in Reserving : target[k] = target[g] => k = g
    BY <2>1 DEF ReserveInv
  <2>4. /\ used[target[g]] = CidOf[g]
        /\ \A d \in Cids, r \in Ports :
             forwards[d][r] # None => forwards[d][r][1] # target[g]
        /\ \A k \in Reserving : target[k] = target[g] => k = g
    BY DEF ClaimsInv, ReserveInv
  <2>5. used'[target[g]] = used[target[g]]
    BY <1>3, <1>5, <2>2
  <2>6. QED
    BY <1>4, <2>4, <2>5
<1>13. BoundInv'
  BY <1>7 DEF ClaimsInv, BoundInv, AwaitingStop
<1>14. WaitInv'
  BY ConstantFacts, <1>1, <1>4, <1>6, <1>7, <1>8 DEF ClaimsInv, WaitInv, AwaitingStop, Claiming
<1>15. ForwardIsServed'
  BY SocketFacts, <1>1, <1>3, <1>4 DEF ClaimsInv, ForwardIsServed
<1>16. NoOrphanListener'
  <2>1. SUFFICES ASSUME NEW k \in Sockets, sock[k] = "open"
                 PROVE  \/ \E d \in Cids, r \in Ports : forwards'[d][r] = k
                        \/ \E g \in Conns : pc'[g] = "fwdCommit" /\ lsock[g] = k
                        \/ \E g \in Conns : pc'[g] \in AwaitingStop /\ k \in wait'[g]
    BY DEF NoOrphanListener, AwaitingStop
  <2>2. CASE k = x
    BY <2>2, <1>7, <1>8
  <2>3. CASE \E d \in Cids, r \in Ports : forwards[d][r] = k /\ k # x
    BY <2>3, <1>2, SMTT(30)
  <2>4. CASE \E g \in Conns : pc[g] = "fwdCommit" /\ lsock[g] = k
    BY <2>4, <1>7 DEF Claiming
  <2>5. CASE \E g \in Conns : pc[g] \in AwaitingStop /\ k \in wait[g]
    BY <2>5, <1>7, <1>8 DEF Claiming
  <2>6. QED
    BY <2>1, <2>2, <2>3, <2>4, <2>5 DEF ClaimsInv, NoOrphanListener, AwaitingStop
<1>20. QED
  BY <1>11, <1>12, <1>13, <1>14, <1>15, <1>16 DEF ClaimsInv

\* A container's entry is removed: its ports are free, its listeners stopped
\* and awaited by the task.
LEMMA TearDownStep ==
  ASSUME IInv, NEW h \in Conns, NEW a \in Labels, NEW c \in Cids,
         pc[h] \notin Claiming, a \notin Claiming, lock # Main,
         pc' = [pc EXCEPT ![h] = a],
         TearDown(h, c),
         lsock' = lsock, target' = target, lock' = lock
  PROVE  ClaimsInv'
<1> DEFINE Mine(k) == \E p \in Ports : forwards[c][p] # None /\ forwards[c][p] = k
<1> USE DEF IInv, TypeOK
<1>1. \A d \in Cids, p \in Ports : forwards[d][p] # None =>
        /\ forwards[d][p] \in Sockets /\ forwards[d][p][1] \in HostPorts
        /\ sock[forwards[d][p]] = "open"
  BY ConstantFacts, SocketFacts DEF ClaimsInv, ForwardIsServed
<1>2. \A d \in Cids, p \in Ports :
        forwards'[d][p] = IF d = c THEN None ELSE forwards[d][p]
  BY DEF TearDown, Empty
<1>3. \A k : k \in Listeners(c) <=> Mine(k)
  BY DEF Listeners, Forwarded
<1>4. \A q \in HostPorts :
        used'[q] = IF \E p \in Ports : forwards[c][p] # None /\ forwards[c][p][1] = q
                   THEN None ELSE used[q]
  BY <1>3 DEF TearDown, Release
<1>5. \A k \in Sockets : sock'[k] = IF Mine(k) THEN "closing" ELSE sock[k]
  BY <1>3 DEF TearDown, Stop
<1>6. /\ \A t \in Conns \cup {Main} : t # h => wait'[t] = wait[t]
      /\ \A k : k \in wait'[h] <=> Mine(k)
  BY <1>3 DEF TearDown
<1>7. \A g \in Conns : pc'[g] = IF g = h THEN a ELSE pc[g]
  OBVIOUS
<1>8. \A d \in Cids, p \in Ports : forwards[d][p] # None /\ d # c => ~Mine(forwards[d][p])
  BY DEF ClaimsInv, TableInv
<1>9. \A g \in Conns : pc[g] = "fwdCommit" => ~Mine(lsock[g])
  BY SMTT(30) DEF ClaimsInv, ReserveInv, BoundInv, Reserving
<1> HIDE DEF Mine
<1>11. TableInv'
  BY <1>2 DEF ClaimsInv, TableInv
<1>12. ReserveInv'
  <2>1. Reserving' = Reserving
    BY <1>7 DEF Reserving, Claiming
  <2>2. \A g \in Reserving : target[g] \in HostPorts
    BY DEF LocalsInv, Reserving
  <2>3. ASSUME NEW g \in Reserving
        PROVE  used'[target[g]] = used[target[g]]
    <3>1. \A p \in Ports : forwards[c][p] # None => forwards[c][p][1] # target[g]
      BY DEF ClaimsInv, ReserveInv
    <3>2. QED
      BY <1>4, <2>2, <3>1
  <2>4. QED
    BY <1>2, <2>1, <2>3 DEF ClaimsInv, ReserveInv
<1>13. BoundInv'
  BY <1>5, <1>7, <1>9 DEF ClaimsInv, BoundInv, Claiming
<1>14. WaitInv'
  <2>1. ASSUME NEW k, Mine(k)
        PROVE  /\ k \in Sockets /\ sock'[k] = "closing"
               /\ \A d \in Cids, p \in Ports : forwards'[d][p] # k
               /\ \A g \in Conns : pc'[g] = "fwdCommit" => lsock[g] # k
    <3>1. k \in Sockets
      BY <2>1, <1>1 DEF Mine
    <3>2. \A d \in Cids, p \in Ports : forwards'[d][p] # k
      BY <2>1, <3>1, <1>2, <1>8, ConstantFacts
    <3>3. QED
      BY <2>1, <3>1, <3>2, <1>5, <1>7, <1>9 DEF Claiming
  <2>2. ASSUME NEW t \in Conns \cup {Main}, NEW k \in wait[t], t # h
        PROVE  /\ sock'[k] # "free"
               /\ sock'[k] = "open" => t \in Conns /\ pc'[t] \in AwaitingStop
               /\ \A d \in Cids, p \in Ports : forwards'[d][p] # k
               /\ \A g \in Conns : pc'[g] = "fwdCommit" => lsock[g] # k
    <3>1. k \in Sockets
      BY <2>2
    <3>2. /\ sock[k] # "free"
          /\ sock[k] = "open" => t \in Conns /\ pc[t] \in AwaitingStop
          /\ \A d \in Cids, p \in Ports : forwards[d][p] # k
          /\ \A g \in Conns : pc[g] = "fwdCommit" => lsock[g] # k
      BY <2>2 DEF ClaimsInv, WaitInv
    <3>3. sock'[k] = sock[k]
      BY <3>1, <3>2, <1>5 DEF Mine
    <3>4. \A d \in Cids, p \in Ports : forwards'[d][p] # k
      <4>1. k # None
        BY <3>1, ConstantFacts
      <4>2. QED
        BY ONLY <4>1, <3>2, <1>2
    <3>5. \A g \in Conns : pc'[g] = "fwdCommit" => lsock[g] # k
      BY <3>2, <1>7 DEF Claiming
    <3>6. QED
      BY <2>2, <3>2, <3>3, <3>4, <3>5, <1>7
  <2>3. QED
    BY <2>1, <2>2, <1>6 DEF WaitInv
<1>15. ForwardIsServed'
  <2>1. SUFFICES ASSUME NEW d \in Cids, NEW p \in Ports, forwards'[d][p] # None
                 PROVE  /\ owner'[d] # None
                        /\ sock'[forwards'[d][p]] = "open"
                        /\ used'[forwards'[d][p][1]] = d
    BY DEF ForwardIsServed
  <2>2. d # c /\ forwards'[d][p] = forwards[d][p]
    BY <1>2, <2>1
  <2>3. owner'[d] = owner[d]
    BY <2>2 DEF TearDown
  <2>4. \A r \in Ports : forwards[c][r] # None => forwards[c][r][1] # forwards[d][p][1]
    BY <2>1, <2>2 DEF ClaimsInv, TableInv
  <2>5. QED
    BY <2>1, <2>2, <2>3, <2>4, <1>1, <1>4, <1>5, <1>8 DEF ClaimsInv, ForwardIsServed
<1>16. NoOrphanListener'
  <2>1. SUFFICES ASSUME NEW k \in Sockets, sock[k] = "open", ~Mine(k)
                 PROVE  \/ \E d \in Cids, r \in Ports : forwards'[d][r] = k
                        \/ \E g \in Conns : pc'[g] = "fwdCommit" /\ lsock[g] = k
                        \/ \E g \in Conns : pc'[g] \in AwaitingStop /\ k \in wait'[g]
    BY <1>5 DEF NoOrphanListener, AwaitingStop
  <2>3. CASE \E d \in Cids, r \in Ports : forwards[d][r] = k
    <3>1. PICK d \in Cids, r \in Ports : forwards[d][r] = k
      BY <2>3
    <3>2. k # None
      BY <2>1, ConstantFacts
    <3>3. d # c
      BY <2>1, <3>1, <3>2 DEF Mine
    <3>4. QED
      BY <3>1, <3>3, <1>2
  <2>4. CASE \E g \in Conns : pc[g] = "fwdCommit" /\ lsock[g] = k
    BY <2>4, <1>7 DEF Claiming
  <2>5. CASE \E g \in Conns : pc[g] \in AwaitingStop /\ k \in wait[g]
    BY <2>5, <1>6, <1>7 DEF Claiming
  <2>6. QED
    BY <2>1, <2>3, <2>4, <2>5 DEF ClaimsInv, NoOrphanListener, AwaitingStop
<1>20. QED
  BY <1>11, <1>12, <1>13, <1>14, <1>15, <1>16 DEF ClaimsInv
------------------------------------------------------------------------------
(* The actions that hold nothing before and after *)

\* A one-shot request.
LEMMA OneShotPreserves ==
  ASSUME IInv, NEW h \in Conns, OneShot(h)
  PROVE  IInv'
<1> USE ConstantFacts
<1>1. TypeOK'
  BY DEF IInv, TypeOK, LocalsInv, Labels, OneShot, Goto, table, locals, main
<1>2. LocalsInv'
  BY DEF IInv, TypeOK, LocalsInv, OneShot, Goto, table, locals, main
<1>3. LockInv'
  BY DEF IInv, TypeOK, LockInv, OneShot, Goto, table, locals, main
<1>4. NoZombieRegistration'
  BY DEF IInv, TypeOK, NoZombieRegistration, InSession, OneShot, Goto, table, locals, main
<1>5. ClaimsInv'
  BY PlainStep DEF IInv, LockInv, TypeOK, Labels, Claiming, AwaitingStop, OneShot, Goto, table, locals, main
<1>6. QED
  BY <1>1, <1>2, <1>3, <1>4, <1>5 DEF IInv

\* The end of a session.
LEMMA DisconnectPreserves ==
  ASSUME IInv, NEW h \in Conns, Disconnect(h)
  PROVE  IInv'
<1> USE ConstantFacts
<1>1. TypeOK'
  BY DEF IInv, TypeOK, LocalsInv, Labels, Disconnect, Goto, table, locals, main
<1>2. LocalsInv'
  BY DEF IInv, TypeOK, LocalsInv, Disconnect, Goto, table, locals, main
<1>3. LockInv'
  BY DEF IInv, TypeOK, LockInv, Disconnect, Goto, table, locals, main
<1>4. NoZombieRegistration'
  BY DEF IInv, TypeOK, NoZombieRegistration, InSession, Disconnect, Goto, table, locals, main
<1>5. ClaimsInv'
  BY PlainStep DEF IInv, LockInv, TypeOK, Labels, Claiming, AwaitingStop, Disconnect, Goto, table, locals, main
<1>6. QED
  BY <1>1, <1>2, <1>3, <1>4, <1>5 DEF IInv

\* A drained teardown.
LEMMA DrainedPreserves ==
  ASSUME IInv, NEW h \in Conns, Drained(h)
  PROVE  IInv'
<1> USE ConstantFacts
<1>1. TypeOK'
  BY DEF IInv, TypeOK, LocalsInv, Labels, Drained, AfterDrain, Goto, table, locals, main
<1>2. LocalsInv'
  BY DEF IInv, TypeOK, LocalsInv, Drained, AfterDrain, Goto, table, locals, main
<1>3. LockInv'
  BY DEF IInv, TypeOK, LockInv, Drained, AfterDrain, Goto, table, locals, main
<1>4. NoZombieRegistration'
  BY DEF IInv, TypeOK, NoZombieRegistration, InSession, Drained, AfterDrain, Goto, table, locals, main
<1>5. ClaimsInv'
  <2>1. /\ AfterDrain[pc[h]] \in Labels /\ AfterDrain[pc[h]] \notin Claiming
        /\ pc[h] \notin Claiming
    BY DEF Drained, AfterDrain, Labels, Claiming, AwaitingStop
  <2>2. QED
    BY <2>1, PlainStep DEF Drained, Goto, table, locals, main, Claiming
<1>6. QED
  BY <1>1, <1>2, <1>3, <1>4, <1>5 DEF IInv

\* The end of a forward for a container that is gone.
LEMMA ForwardGonePreserves ==
  ASSUME IInv, NEW h \in Conns, ForwardGone(h)
  PROVE  IInv'
<1> USE ConstantFacts
<1>1. TypeOK'
  BY DEF IInv, TypeOK, LocalsInv, Labels, ForwardGone, Return, Goto, table, locals, main
<1>2. LocalsInv'
  BY DEF IInv, TypeOK, LocalsInv, ForwardGone, Return, Goto, table, locals, main
<1>3. LockInv'
  BY DEF IInv, TypeOK, LockInv, ForwardGone, Return, Goto, table, locals, main
<1>4. NoZombieRegistration'
  BY DEF IInv, TypeOK, NoZombieRegistration, InSession, ForwardGone, Return, Goto, table, locals, main
<1>5. ClaimsInv'
  BY PlainStep DEF IInv, LockInv, TypeOK, Labels, Claiming, AwaitingStop, ForwardGone, Return, Goto, table, locals, main
<1>6. QED
  BY <1>1, <1>2, <1>3, <1>4, <1>5 DEF IInv

\* The end of a successful forward.
LEMMA ForwardMapPreserves ==
  ASSUME IInv, NEW h \in Conns, ForwardMap(h)
  PROVE  IInv'
<1> USE ConstantFacts
<1>1. TypeOK'
  BY DEF IInv, TypeOK, LocalsInv, Labels, ForwardMap, Return, Goto, table, locals, main
<1>2. LocalsInv'
  BY DEF IInv, TypeOK, LocalsInv, ForwardMap, Return, Goto, table, locals, main
<1>3. LockInv'
  BY DEF IInv, TypeOK, LockInv, ForwardMap, Return, Goto, table, locals, main
<1>4. NoZombieRegistration'
  BY DEF IInv, TypeOK, NoZombieRegistration, InSession, ForwardMap, Return, Goto, table, locals, main
<1>5. ClaimsInv'
  BY PlainStep DEF IInv, LockInv, TypeOK, Labels, Claiming, AwaitingStop, ForwardMap, Return, Goto, table, locals, main
<1>6. QED
  BY <1>1, <1>2, <1>3, <1>4, <1>5 DEF IInv

\* The shutdown message of the exit-on-idle check.
LEMMA IdleSendPreserves ==
  ASSUME IInv, NEW h \in Conns, IdleSend(h)
  PROVE  IInv'
<1> USE ConstantFacts
<1>1. TypeOK'
  BY DEF IInv, TypeOK, LocalsInv, Labels, IdleSend, Goto, table, locals, main
<1>2. LocalsInv'
  BY DEF IInv, TypeOK, LocalsInv, IdleSend, Goto, table, locals, main
<1>3. LockInv'
  BY DEF IInv, TypeOK, LockInv, IdleSend, Goto, table, locals, main
<1>4. NoZombieRegistration'
  BY DEF IInv, TypeOK, NoZombieRegistration, InSession, IdleSend, Goto, table, locals, main
<1>5. ClaimsInv'
  <2>1. /\ pc[h] = "idleSend" /\ pc' = [pc EXCEPT ![h] = "left"]
        /\ owner' = owner /\ forwards' = forwards /\ used' = used /\ sock' = sock
        /\ lsock' = lsock /\ wait' = wait /\ target' = target
    BY DEF IdleSend, Goto, table, locals
  <2>2. lock # Main
    BY <2>1 DEF IInv, LockInv
  <2>3. QED
    BY <2>1, <2>2, PlainStep DEF Labels, Claiming, AwaitingStop
<1>6. QED
  BY <1>1, <1>2, <1>3, <1>4, <1>5 DEF IInv

\* A Shutdown message.
LEMMA ReceiveShutdownPreserves ==
  ASSUME IInv, NEW h \in Conns, ReceiveShutdown(h)
  PROVE  IInv'
<1> USE ConstantFacts
<1>1. TypeOK'
  BY DEF IInv, TypeOK, LocalsInv, Labels, ReceiveShutdown, Goto, table, locals, main
<1>2. LocalsInv'
  BY DEF IInv, TypeOK, LocalsInv, ReceiveShutdown, Goto, table, locals, main
<1>3. LockInv'
  BY DEF IInv, TypeOK, LockInv, ReceiveShutdown, Goto, table, locals, main
<1>4. NoZombieRegistration'
  BY DEF IInv, TypeOK, NoZombieRegistration, InSession, ReceiveShutdown, Goto, table, locals, main
<1>5. ClaimsInv'
  BY PlainStep DEF IInv, LockInv, TypeOK, Labels, Claiming, AwaitingStop, ReceiveShutdown, Goto, table, locals, main
<1>6. QED
  BY <1>1, <1>2, <1>3, <1>4, <1>5 DEF IInv

\* The RegisterAck, sent or failed.
LEMMA AckRegistrationPreserves ==
  ASSUME IInv, NEW h \in Conns, AckRegistration(h)
  PROVE  IInv'
<1> USE ConstantFacts
<1>1. TypeOK'
  BY DEF IInv, TypeOK, LocalsInv, Labels, AckRegistration, Goto, table, locals, main
<1>2. LocalsInv'
  BY DEF IInv, TypeOK, LocalsInv, AckRegistration, Goto, table, locals, main
<1>3. LockInv'
  BY DEF IInv, TypeOK, LockInv, AckRegistration, Goto, table, locals, main
<1>4. NoZombieRegistration'
  BY EntryFrame DEF IInv, Labels, InSession, AckRegistration, Goto, table
<1>5. ClaimsInv'
  <2> USE DEF IInv, LockInv, TypeOK, Labels, Claiming, AwaitingStop, AckRegistration, Goto, table, locals, main
  <2>1. CASE Goto(h, "regInsert")
    BY <2>1, PlainStep
  <2>2. CASE Goto(h, "done")
    BY <2>2, PlainStep
  <2>3. QED
    BY <2>1, <2>2
<1>6. QED
  BY <1>1, <1>2, <1>3, <1>4, <1>5 DEF IInv

\* A Forward or Unforward request, owner or superseded.
LEMMA ReceivePreserves ==
  ASSUME IInv, NEW h \in Conns, NEW p \in Ports, NEW a \in {"fwdLimit", "unfRemove"}, Receive(h, p, a)
  PROVE  IInv'
<1> USE ConstantFacts
<1>1. TypeOK'
  <2>1. TypeOK /\ port \in [Conns -> Ports \cup {NoPort}] /\ target \in [Conns -> HostPorts \cup {NoPort}]
    BY DEF IInv, TypeOK
  <2>2. CASE owner[CidOf[h]] = h
    <3>1. port' \in [Conns -> Ports \cup {NoPort}]
      BY <2>1, <2>2 DEF Receive
    <3>2. QED
      BY <2>1, <2>2, <3>1, MoveTypes DEF Labels, Receive, Goto, table
  <2>3. CASE owner[CidOf[h]] # h
    BY <2>1, <2>3, MoveTypes DEF Labels, Receive, Goto, table
  <2>4. QED
    BY <2>2, <2>3
<1>2. LocalsInv'
  BY DEF IInv, TypeOK, LocalsInv, Receive, Goto, table, locals, main
<1>3. LockInv'
  BY DEF IInv, TypeOK, LockInv, Receive, Goto, table, locals, main
<1>4. NoZombieRegistration'
  BY EntryFrame DEF IInv, Labels, InSession, Receive, Goto, table
<1>5. ClaimsInv'
  <2> USE DEF IInv, LockInv, TypeOK, Labels, Claiming, AwaitingStop, Receive, Goto, table, locals, main
  <2>1. CASE owner[CidOf[h]] = h
    BY <2>1, PlainStep
  <2>2. CASE owner[CidOf[h]] # h
    BY <2>2, PlainStep
  <2>3. QED
    BY <2>1, <2>2
<1>6. QED
  BY <1>1, <1>2, <1>3, <1>4, <1>5 DEF IInv

\* The exit-on-idle check.
LEMMA IdleCheckPreserves ==
  ASSUME IInv, NEW h \in Conns, IdleCheck(h)
  PROVE  IInv'
<1> USE ConstantFacts
<1>1. TypeOK'
  BY DEF IInv, TypeOK, LocalsInv, Labels, IdleCheck, Goto, table, locals, main
<1>2. LocalsInv'
  BY DEF IInv, TypeOK, LocalsInv, IdleCheck, Goto, table, locals, main
<1>3. LockInv'
  BY DEF IInv, TypeOK, LockInv, IdleCheck, Goto, table, locals, main
<1>4. NoZombieRegistration'
  BY DEF IInv, TypeOK, NoZombieRegistration, InSession, IdleCheck, Goto, table, locals, main
<1>5. ClaimsInv'
  <2> USE DEF IInv, LockInv, TypeOK, Labels, Claiming, AwaitingStop, IdleCheck, Goto, table, locals, main
  <2>1. CASE ExitOnIdle /\ Registered = {}
    BY <2>1, PlainStep
  <2>2. CASE ~(ExitOnIdle /\ Registered = {})
    BY <2>2, PlainStep
  <2>3. QED
    BY <2>1, <2>2
<1>6. QED
  BY <1>1, <1>2, <1>3, <1>4, <1>5 DEF IInv
------------------------------------------------------------------------------
(* The actions that change the table *)

\* A registration: refused, first, or replacing an older one.
LEMMA RegisterPreserves ==
  ASSUME IInv, NEW h \in Conns, Register(h)
  PROVE  IInv'
<1> USE ConstantFacts
<1>1. TypeOK'
  <2>1. CASE owner[CidOf[h]] = None
    <3>1. TypeOK /\ port \in [Conns -> Ports \cup {NoPort}] /\ target \in [Conns -> HostPorts \cup {NoPort}]
      BY DEF IInv, TypeOK
    <3>2. QED
      BY <2>1, <3>1, MoveTypes DEF Labels, Register, Goto, table
  <2>2. CASE ~(owner[CidOf[h]] = None)
    BY <2>2, TearDownTypes DEF IInv, Labels, Register, Goto
  <2>3. QED
    BY <2>1, <2>2
<1>2. LocalsInv'
  BY DEF IInv, TypeOK, LocalsInv, Register, TearDown, Empty, Release, Stop, Goto, table, locals, main
<1>3. LockInv'
  BY DEF IInv, TypeOK, LockInv, Register, TearDown, Empty, Release, Stop, Goto, table, locals, main
<1>4. NoZombieRegistration'
  <2>1. CASE owner[CidOf[h]] = None
    BY <2>1, EntryFrame DEF IInv, Labels, InSession, Register, Goto, table
  <2>2. CASE ~(owner[CidOf[h]] = None)
    BY <2>2, EntryRemoved DEF IInv, Labels, Register, TearDown, Goto
  <2>3. QED
    BY <2>1, <2>2
<1>5. ClaimsInv'
  <2> USE DEF IInv, TypeOK, Labels, Claiming, AwaitingStop
  <2>1. CASE owner[CidOf[h]] = None /\ Cardinality(Registered) >= MaxContainers
    BY <2>1, PlainStep DEF Register, Goto, table, locals, main
  <2>2. CASE owner[CidOf[h]] = None /\ ~(Cardinality(Registered) >= MaxContainers)
    BY <2>2, PlainStep DEF Register, Goto, table, locals, main
  <2>3. CASE owner[CidOf[h]] # None
    BY <2>3, TearDownStep DEF Register, Goto
  <2>4. QED
    BY <2>1, <2>2, <2>3
<1>6. QED
  BY <1>1, <1>2, <1>3, <1>4, <1>5 DEF IInv

\* The cleanup of an ended session, owner or superseded.
LEMMA CleanupPreserves ==
  ASSUME IInv, NEW h \in Conns, Cleanup(h)
  PROVE  IInv'
<1> USE ConstantFacts
<1>1. TypeOK'
  <2>1. CASE owner[CidOf[h]] # h
    <3>1. TypeOK /\ port \in [Conns -> Ports \cup {NoPort}] /\ target \in [Conns -> HostPorts \cup {NoPort}]
      BY DEF IInv, TypeOK
    <3>2. QED
      BY <2>1, <3>1, MoveTypes DEF Labels, Cleanup, Goto, table
  <2>2. CASE ~(owner[CidOf[h]] # h)
    BY <2>2, TearDownTypes DEF IInv, Labels, Cleanup, Goto
  <2>3. QED
    BY <2>1, <2>2
<1>2. LocalsInv'
  BY DEF IInv, TypeOK, LocalsInv, Cleanup, TearDown, Empty, Release, Stop, Goto, table, locals, main
<1>3. LockInv'
  BY DEF IInv, TypeOK, LockInv, Cleanup, TearDown, Empty, Release, Stop, Goto, table, locals, main
<1>4. NoZombieRegistration'
  <2>1. CASE owner[CidOf[h]] # h
    <3>1. \A c \in Cids : owner[c] # h
      BY <2>1, ConstantFacts DEF IInv, NoZombieRegistration
    <3>2. owner' = owner /\ pc' = [pc EXCEPT ![h] = "idleCheck"]
      BY <2>1 DEF Cleanup, Goto, table
    <3>3. QED
      BY <3>1, <3>2, ConstantFacts DEF IInv, TypeOK, NoZombieRegistration
  <2>2. CASE owner[CidOf[h]] = h
    BY <2>2, EntryRemoved DEF IInv, Labels, Cleanup, TearDown, Goto
  <2>3. QED
    BY <2>1, <2>2
<1>5. ClaimsInv'
  <2> USE DEF IInv, TypeOK, Labels, Claiming, AwaitingStop
  <2>1. CASE owner[CidOf[h]] # h
    BY <2>1, PlainStep DEF Cleanup, Goto, table, locals, main
  <2>2. CASE owner[CidOf[h]] = h
    BY <2>2, TearDownStep DEF Cleanup, Goto
  <2>3. QED
    BY <2>1, <2>2
<1>6. QED
  BY <1>1, <1>2, <1>3, <1>4, <1>5 DEF IInv

\* The first part of a forward: refused, new, or replacing.
LEMMA ForwardLimitPreserves ==
  ASSUME IInv, NEW h \in Conns, ForwardLimit(h)
  PROVE  IInv'
<1> USE ConstantFacts
<1>1. TypeOK'
  <2>1. CASE forwards[CidOf[h]][port[h]] = None
    <3>1. /\ forwards' = forwards /\ used' = used /\ wait' = wait
          /\ Return(h) \/ (Goto(h, "fwdReserve") /\ UNCHANGED <<port, target>>)
      BY <2>1 DEF ForwardLimit
    <3>2. TypeOK /\ port \in [Conns -> Ports \cup {NoPort}] /\ target \in [Conns -> HostPorts \cup {NoPort}]
      BY DEF IInv, TypeOK
    <3>3. CASE Return(h)
      <4>1. /\ port' \in [Conns -> Ports \cup {NoPort}]
            /\ target' \in [Conns -> HostPorts \cup {NoPort}]
        BY <3>2, <3>3 DEF Return
      <4>2. QED
        BY <3>1, <3>2, <3>3, <4>1, MoveTypes DEF Labels, ForwardLimit, Return, Goto, table
    <3>4. CASE Goto(h, "fwdReserve") /\ UNCHANGED <<port, target>>
      BY <3>1, <3>2, <3>4, MoveTypes DEF Labels, ForwardLimit, Goto, table
    <3>5. QED
      BY <3>1, <3>3, <3>4
  <2>2. CASE ~(forwards[CidOf[h]][port[h]] = None)
    <3>1. port[h] \in Ports /\ dropped \in [Conns -> SUBSET Ports] /\ TypeOK
      BY DEF IInv, TypeOK, LocalsInv, ForwardLimit
    <3>2. QED
      BY <2>2, <3>1, TakeOutTypes DEF Labels, ForwardLimit, Goto
  <2>3. QED
    BY <2>1, <2>2
<1>2. LocalsInv'
  BY DEF IInv, TypeOK, LocalsInv, ForwardLimit, Remove, Release, Return, Goto, table, locals, main
<1>3. LockInv'
  BY DEF IInv, TypeOK, LockInv, ForwardLimit, Remove, Release, Return, Goto, table, locals, main
<1>4. NoZombieRegistration'
  BY DEF IInv, TypeOK, NoZombieRegistration, InSession, ForwardLimit, Remove, Release, Return, Goto, table, locals, main
<1>5. ClaimsInv'
  <2> USE DEF IInv, TypeOK, Labels, Claiming, AwaitingStop
  <2>0. port[h] \in Ports
    BY DEF ForwardLimit, LocalsInv
  <2>1. CASE forwards[CidOf[h]][port[h]] # None
    BY <2>0, <2>1, TakeOutStep DEF ForwardLimit, Goto
  <2>2. CASE forwards[CidOf[h]][port[h]] = None /\ Cardinality(Forwarded(CidOf[h])) >= MaxForwards /\ owner[CidOf[h]] # None
    BY <2>2, PlainStep DEF ForwardLimit, Goto, Return
  <2>3. CASE forwards[CidOf[h]][port[h]] = None /\ ~(Cardinality(Forwarded(CidOf[h])) >= MaxForwards /\ owner[CidOf[h]] # None)
    BY <2>3, PlainStep DEF ForwardLimit, Goto, Return
  <2>4. QED
    BY <2>1, <2>2, <2>3
<1>6. QED
  BY <1>1, <1>2, <1>3, <1>4, <1>5 DEF IInv

\* A container's Unforward, of a forward that is there or not.
LEMMA UnforwardRemovePreserves ==
  ASSUME IInv, NEW h \in Conns, UnforwardRemove(h)
  PROVE  IInv'
<1> USE ConstantFacts
<1>1. TypeOK'
  BY DEF IInv, TypeOK, LocalsInv, Labels, UnforwardRemove, Remove, Release, Goto, table, locals, main
<1>2. LocalsInv'
  BY DEF IInv, TypeOK, LocalsInv, UnforwardRemove, Remove, Release, Goto, table, locals, main
<1>3. LockInv'
  BY DEF IInv, TypeOK, LockInv, UnforwardRemove, Remove, Release, Goto, table, locals, main
<1>4. NoZombieRegistration'
  BY DEF IInv, TypeOK, NoZombieRegistration, InSession, UnforwardRemove, Remove, Release, Goto, table, locals, main
<1>5. ClaimsInv'
  <2> USE DEF IInv, TypeOK, Labels, Claiming, AwaitingStop
  <2>0. port[h] \in Ports
    BY DEF UnforwardRemove, LocalsInv
  <2>1. CASE forwards[CidOf[h]][port[h]] # None
    <3>1. {forwards[CidOf[h]][port[h]]} \ {None} = {forwards[CidOf[h]][port[h]]}
      BY <2>1
    <3>2. QED
      <4>1. /\ Remove(CidOf[h], port[h]) /\ Release({forwards[CidOf[h]][port[h]]})
            /\ wait' = [wait EXCEPT ![h] = {forwards[CidOf[h]][port[h]]}]
            /\ pc[h] = "unfRemove" /\ pc' = [pc EXCEPT ![h] = "unfStop"]
            /\ owner' = owner /\ sock' = sock /\ lsock' = lsock /\ target' = target
            /\ lock = None /\ lock' = lock
        BY <3>1 DEF UnforwardRemove, Goto
      <4>2. QED
        BY <4>1, <2>0, <2>1, TakeOutStep
  <2>2. CASE forwards[CidOf[h]][port[h]] = None
    <3>1. {forwards[CidOf[h]][port[h]]} \ {None} = {}
      BY <2>2
    <3>2. forwards' = forwards
      <4>1. forwards' = [forwards EXCEPT ![CidOf[h]][port[h]] = None]
        BY DEF UnforwardRemove, Remove
      <4>2. forwards \in [Cids -> [Ports -> Sockets \cup {None}]] /\ CidOf[h] \in Cids
        OBVIOUS
      <4>3. QED
        BY ONLY <4>1, <4>2, <2>0, <2>2
    <3>3. used' = used
      BY <3>1 DEF UnforwardRemove, Release
    <3>4. wait' = [wait EXCEPT ![h] = {}]
      BY <3>1 DEF UnforwardRemove
    <3>5. QED
      BY <3>2, <3>3, <3>4, PlainStep DEF UnforwardRemove, Goto
  <2>3. QED
    BY <2>1, <2>2
<1>6. QED
  BY <1>1, <1>2, <1>3, <1>4, <1>5 DEF IInv

\* An administrative Unforward.
LEMMA AdminUnforwardPreserves ==
  ASSUME IInv, NEW h \in Conns, NEW p \in Ports, AdminUnforward(h, p)
  PROVE  IInv'
<1> USE ConstantFacts
<1>1. TypeOK'
  <2>1. CASE \A c \in Cids : forwards[c][p] = None
    BY <2>1 DEF IInv, TypeOK, Labels, AdminUnforward, Goto, main
  <2>2. CASE ~(\A c \in Cids : forwards[c][p] = None)
    <3>1. PICK c \in Cids :
            /\ forwards[c][p] # None
            /\ Remove(c, p) /\ Release({forwards[c][p]})
            /\ wait' = [wait EXCEPT ![h] = {forwards[c][p]}]
            /\ dropped' = [dropped EXCEPT ![h] = {p}]
            /\ Goto(h, "admUnmap")
      BY <2>2 DEF AdminUnforward
    <3>2. dropped' \in [Conns -> SUBSET Ports] /\ TypeOK
      BY <3>1 DEF IInv, TypeOK
    <3>3. QED
      BY <3>1, <3>2, TakeOutTypes DEF Labels, AdminUnforward, Goto
  <2>3. QED
    BY <2>1, <2>2
<1>2. LocalsInv'
  BY DEF IInv, TypeOK, LocalsInv, AdminUnforward, Remove, Release, Goto, table, locals, main
<1>3. LockInv'
  BY DEF IInv, TypeOK, LockInv, AdminUnforward, Remove, Release, Goto, table, locals, main
<1>4. NoZombieRegistration'
  BY EntryFrame DEF IInv, Labels, InSession, AdminUnforward, Goto
<1>5. ClaimsInv'
  <2> USE DEF IInv, TypeOK, Labels, Claiming, AwaitingStop
  <2>1. CASE \A c \in Cids : forwards[c][p] = None
    BY <2>1, PlainStep DEF AdminUnforward, Goto
  <2>2. CASE ~(\A c \in Cids : forwards[c][p] = None)
    <3>1. PICK c \in Cids :
            /\ forwards[c][p] # None
            /\ Remove(c, p) /\ Release({forwards[c][p]})
            /\ wait' = [wait EXCEPT ![h] = {forwards[c][p]}]
            /\ Goto(h, "admUnmap")
      BY <2>2 DEF AdminUnforward
    <3>2. QED
      BY <3>1, TakeOutStep DEF AdminUnforward, Goto
  <2>3. QED
    BY <2>1, <2>2
<1>6. QED
  BY <1>1, <1>2, <1>3, <1>4, <1>5 DEF IInv

\* A removed listener is told to stop.
LEMMA StopRemovedPreserves ==
  ASSUME IInv, NEW h \in Conns, StopRemoved(h)
  PROVE  IInv'
<1> USE ConstantFacts DEF IInv, TypeOK, StopRemoved, AfterStop, Stop, Goto, table, locals, main
<1>1. TypeOK'
  BY DEF Labels
<1>2. LocalsInv'
  BY DEF LocalsInv
<1>3. LockInv'
  BY DEF LockInv
<1>4. NoZombieRegistration'
  BY DEF NoZombieRegistration, InSession
<1>5. ClaimsInv'
  <2> USE DEF ClaimsInv
  <2>1. TableInv'
    BY DEF TableInv
  <2>2. ReserveInv'
    BY DEF ReserveInv, Reserving
  <2>3. BoundInv'
    BY DEF BoundInv, WaitInv
  <2>4. WaitInv'
    BY DEF WaitInv, AwaitingStop
  <2>5. ForwardIsServed'
    BY DEF ForwardIsServed, WaitInv
  <2>6. NoOrphanListener'
    <3>1. \A k \in Sockets : sock'[k] = "open" => sock[k] = "open" /\ k \notin wait[h]
      OBVIOUS
    <3>2. \A g \in Conns : g # h => pc'[g] = pc[g]
      OBVIOUS
    <3>3. pc[h] # "fwdCommit" /\ forwards' = forwards /\ lsock' = lsock /\ wait' = wait
      OBVIOUS
    <3>4. SUFFICES ASSUME NEW k \in Sockets, sock'[k] = "open"
                   PROVE  \/ \E d \in Cids, r \in Ports : forwards[d][r] = k
                          \/ \E g \in Conns : pc'[g] = "fwdCommit" /\ lsock[g] = k
                          \/ \E g \in Conns : pc'[g] \in AwaitingStop /\ k \in wait[g]
      BY <3>3 DEF NoOrphanListener, AwaitingStop
    <3>5. \/ \E d \in Cids, r \in Ports : forwards[d][r] = k
          \/ \E g \in Conns : pc[g] = "fwdCommit" /\ lsock[g] = k
          \/ \E g \in Conns : pc[g] \in AwaitingStop /\ k \in wait[g]
      BY <3>1, <3>4 DEF NoOrphanListener, AwaitingStop
    <3>6. QED
      BY ONLY <3>1, <3>2, <3>3, <3>4, <3>5
  <2>7. QED
    BY <2>1, <2>2, <2>3, <2>4, <2>5, <2>6
<1>6. QED
  BY <1>1, <1>2, <1>3, <1>4, <1>5

\* A stopped listener drops its socket.
LEMMA CloseListenerPreserves ==
  ASSUME IInv, NEW k \in Sockets, CloseListener(k)
  PROVE  IInv'
<1> USE ConstantFacts DEF IInv, TypeOK, CloseListener, table, locals, main
<1>1. TypeOK'
  BY DEF Labels
<1>2. LocalsInv'
  BY DEF LocalsInv
<1>3. LockInv'
  BY DEF LockInv
<1>4. NoZombieRegistration'
  BY DEF NoZombieRegistration, InSession
<1>5. ClaimsInv'
  <2> USE DEF ClaimsInv
  <2>1. TableInv'
    BY DEF TableInv
  <2>2. ReserveInv'
    BY DEF ReserveInv, Reserving
  <2>3. BoundInv'
    BY DEF BoundInv
  <2>4. WaitInv'
    BY DEF WaitInv, AwaitingStop
  <2>5. ForwardIsServed'
    BY DEF ForwardIsServed
  <2>6. NoOrphanListener'
    BY DEF NoOrphanListener, AwaitingStop
  <2>7. QED
    BY <2>1, <2>2, <2>3, <2>4, <2>5, <2>6
<1>6. QED
  BY <1>1, <1>2, <1>3, <1>4, <1>5

\* A reservation is given back after a failed bind.
LEMMA ForwardReleasePreserves ==
  ASSUME IInv, NEW h \in Conns, ForwardRelease(h)
  PROVE  IInv'
<1> USE ConstantFacts DEF IInv, TypeOK, ForwardRelease, Return, Goto, table, locals, main
<1>1. TypeOK'
  BY DEF Labels
<1>2. LocalsInv'
  BY DEF LocalsInv
<1>3. LockInv'
  BY DEF LockInv
<1>4. NoZombieRegistration'
  BY DEF NoZombieRegistration, InSession
<1>5. ClaimsInv'
  <2> USE DEF ClaimsInv
  <2>1. TableInv'
    BY DEF TableInv
  <2>2. ReserveInv'
    BY DEF ReserveInv, Reserving
  <2>3. BoundInv'
    BY DEF BoundInv
  <2>4. WaitInv'
    BY DEF WaitInv, AwaitingStop
  <2>5. ForwardIsServed'
    BY SocketFacts DEF ForwardIsServed, ReserveInv, Reserving
  <2>6. NoOrphanListener'
    BY DEF NoOrphanListener, AwaitingStop
  <2>7. QED
    BY <2>1, <2>2, <2>3, <2>4, <2>5, <2>6
<1>6. QED
  BY <1>1, <1>2, <1>3, <1>4, <1>5

\* run() takes the shutdown message.
LEMMA TakeShutdownPreserves ==
  ASSUME IInv, TakeShutdown
  PROVE  IInv'
<1> USE ConstantFacts DEF IInv, TypeOK, TakeShutdown, table, locals
<1>1. TypeOK'
  BY DEF Labels
<1>2. LocalsInv'
  BY DEF LocalsInv
<1>3. LockInv'
  BY DEF LockInv
<1>4. NoZombieRegistration'
  BY DEF NoZombieRegistration, InSession
<1>5. ClaimsInv'
  <2> USE DEF ClaimsInv
  <2>1. TableInv'
    BY DEF TableInv
  <2>2. ReserveInv'
    BY DEF ReserveInv, Reserving
  <2>3. BoundInv'
    BY DEF BoundInv
  <2>4. WaitInv'
    BY DEF WaitInv, AwaitingStop
  <2>5. ForwardIsServed'
    BY DEF ForwardIsServed
  <2>6. NoOrphanListener'
    BY DEF NoOrphanListener, AwaitingStop
  <2>7. QED
    BY <2>1, <2>2, <2>3, <2>4, <2>5, <2>6
<1>6. QED
  BY <1>1, <1>2, <1>3, <1>4, <1>5

\* run() takes a signal.
LEMMA SignalPreserves ==
  ASSUME IInv, Signal
  PROVE  IInv'
<1> USE ConstantFacts DEF IInv, TypeOK, Signal, table, locals
<1>1. TypeOK'
  BY DEF Labels
<1>2. LocalsInv'
  BY DEF LocalsInv
<1>3. LockInv'
  BY DEF LockInv
<1>4. NoZombieRegistration'
  BY DEF NoZombieRegistration, InSession
<1>5. ClaimsInv'
  <2> USE DEF ClaimsInv
  <2>1. TableInv'
    BY DEF TableInv
  <2>2. ReserveInv'
    BY DEF ReserveInv, Reserving
  <2>3. BoundInv'
    BY DEF BoundInv
  <2>4. WaitInv'
    BY DEF WaitInv, AwaitingStop
  <2>5. ForwardIsServed'
    BY DEF ForwardIsServed
  <2>6. NoOrphanListener'
    BY DEF NoOrphanListener, AwaitingStop
  <2>7. QED
    BY <2>1, <2>2, <2>3, <2>4, <2>5, <2>6
<1>6. QED
  BY <1>1, <1>2, <1>3, <1>4, <1>5

\* run() returns.
LEMMA ExitPreserves ==
  ASSUME IInv, Exit
  PROVE  IInv'
<1> USE ConstantFacts DEF IInv, TypeOK, Exit, table, locals
<1>1. TypeOK'
  BY DEF Labels
<1>2. LocalsInv'
  BY DEF LocalsInv
<1>3. LockInv'
  BY DEF LockInv
<1>4. NoZombieRegistration'
  BY DEF NoZombieRegistration, InSession
<1>5. ClaimsInv'
  <2> USE DEF ClaimsInv
  <2>1. TableInv'
    BY DEF TableInv
  <2>2. ReserveInv'
    BY DEF ReserveInv, Reserving
  <2>3. BoundInv'
    BY DEF BoundInv
  <2>4. WaitInv'
    BY DEF WaitInv, AwaitingStop
  <2>5. ForwardIsServed'
    BY DEF ForwardIsServed
  <2>6. NoOrphanListener'
    BY DEF NoOrphanListener, AwaitingStop
  <2>7. QED
    BY <2>1, <2>2, <2>3, <2>4, <2>5, <2>6
<1>6. QED
  BY <1>1, <1>2, <1>3, <1>4, <1>5

\* The browser forgets the mappings.
LEMMA UnmapPreserves ==
  ASSUME IInv, NEW h \in Conns, Unmap(h)
  PROVE  IInv'
<1> USE ConstantFacts
<1>1. TypeOK'
  BY DEF IInv, TypeOK, Labels, Unmap, AfterUnmap, Goto, table, main
<1>2. LocalsInv'
  BY DEF IInv, TypeOK, LocalsInv, Unmap, AfterUnmap, Goto
<1>3. LockInv'
  BY DEF IInv, TypeOK, LockInv, Unmap, AfterUnmap, Goto
<1>4. NoZombieRegistration'
  BY DEF IInv, TypeOK, NoZombieRegistration, InSession, Unmap, AfterUnmap, Goto, table
<1>5. ClaimsInv'
  <2>1. CASE pc[h] # "admUnmap"
    <3>1. /\ AfterUnmap[pc[h]] \in Labels
          /\ AfterUnmap[pc[h]] \notin {"fwdBind", "fwdRelease", "fwdCommit"}
          /\ pc[h] \notin Claiming
      BY <2>1 DEF Unmap, AfterUnmap, Labels, Claiming, AwaitingStop
    <3>2. QED
      BY <3>1, PlainStep DEF Unmap, Goto, table
  <2>2. CASE pc[h] = "admUnmap"
    <3>1. \A g \in Conns : pc'[g] = IF g = h THEN "admStop" ELSE pc[g]
      BY <2>2 DEF IInv, TypeOK, Unmap, AfterUnmap, Goto
    <3>2. UNCHANGED <<owner, forwards, used, sock, lock, target, lsock, wait>>
      BY DEF Unmap, table
    <3> USE <2>2, <3>1, <3>2 DEF IInv, TypeOK, ClaimsInv
    <3>3. TableInv' /\ ForwardIsServed'
      BY DEF TableInv, ForwardIsServed
    <3>4. ReserveInv'
      BY DEF ReserveInv, Reserving
    <3>5. BoundInv'
      BY DEF BoundInv
    <3>6. WaitInv' /\ NoOrphanListener'
      BY ListenerFrame DEF AwaitingStop
    <3>7. QED
      BY <3>3, <3>4, <3>5, <3>6
  <2>3. QED
    BY <2>1, <2>2
<1>6. QED
  BY <1>1, <1>2, <1>3, <1>4, <1>5 DEF IInv

\* The new entry replaces whatever was there; the replaced listeners stop.
LEMMA InsertPreserves ==
  ASSUME IInv, NEW h \in Conns, Insert(h)
  PROVE  IInv'
<1> DEFINE c == CidOf[h]
<1> DEFINE Mine(k) == \E p \in Ports : forwards[c][p] # None /\ forwards[c][p] = k
<1> USE ConstantFacts
<1>1. TypeOK'
  BY HelperTypes DEF IInv, TypeOK, Labels, Insert, Goto, locals, main
<1>2. LocalsInv'
  BY DEF IInv, TypeOK, LocalsInv, Insert, Goto, locals
<1>3. LockInv'
  BY DEF IInv, TypeOK, LockInv, Insert, Goto
<1>4. NoZombieRegistration'
  BY DEF IInv, TypeOK, NoZombieRegistration, InSession, Insert, Goto
<1>5. ClaimsInv'
  <2> USE DEF IInv, TypeOK, ClaimsInv
  <2>1. \A d \in Cids, p \in Ports :
          forwards'[d][p] = IF d = c THEN None ELSE forwards[d][p]
    BY DEF Insert, Empty
  <2>2. \A k \in Sockets : sock'[k] = IF Mine(k) THEN "closing" ELSE sock[k]
    BY DEF Insert, Stop, Listeners, Forwarded
  <2>3. \A g \in Conns : pc'[g] = IF g = h THEN "serving" ELSE pc[g]
    BY DEF Insert, Goto
  <2>4. \A d \in Cids : owner'[d] = IF d = c THEN h ELSE owner[d]
    BY DEF Insert
  <2>5. pc[h] = "regInsert" /\ lock = None /\ UNCHANGED <<used, lock, target, lsock, wait>>
    BY DEF Insert, locals
  <2>6. \A d \in Cids, p \in Ports : forwards[d][p] # None /\ d # c => ~Mine(forwards[d][p])
    <3>1. c \in Cids /\ TableInv
      OBVIOUS
    <3> HIDE DEF c, IInv, TypeOK, ClaimsInv
    <3>2. QED
      BY <3>1 DEF TableInv
  <2>7. \A g \in Conns : pc[g] = "fwdCommit" => ~Mine(lsock[g])
    BY <2>5, SMTT(30) DEF ReserveInv, BoundInv, Reserving
  <2> HIDE DEF Mine, c
  <2>11. TableInv'
    BY <2>1 DEF TableInv
  <2>12. ReserveInv'
    BY <2>1, <2>3, <2>5 DEF ReserveInv, Reserving
  <2>13. BoundInv'
    BY <2>2, <2>3, <2>5, <2>7 DEF BoundInv
  <2>14. WaitInv'
    <3>1. SUFFICES ASSUME NEW t \in Conns \cup {Main}, NEW k \in wait[t]
                   PROVE  /\ sock'[k] # "free"
                          /\ sock'[k] = "open" => t \in Conns /\ pc'[t] \in AwaitingStop
                          /\ \A d \in Cids, p \in Ports : forwards'[d][p] # k
                          /\ \A g \in Conns : pc'[g] = "fwdCommit" => lsock[g] # k
      BY <2>5 DEF WaitInv
    <3>2. k \in Sockets
      OBVIOUS
    <3>3. QED
      BY <3>2, <2>1, <2>2, <2>3, <2>5 DEF WaitInv, AwaitingStop
  <2>15. ForwardIsServed'
    BY <2>1, <2>2, <2>4, <2>5, <2>6 DEF ForwardIsServed
  <2>16. NoOrphanListener'
    <3>1. SUFFICES ASSUME NEW k \in Sockets, sock[k] = "open", ~Mine(k)
                   PROVE  \/ \E d \in Cids, r \in Ports : forwards'[d][r] = k
                          \/ \E g \in Conns : pc'[g] = "fwdCommit" /\ lsock[g] = k
                          \/ \E g \in Conns : pc'[g] \in AwaitingStop /\ k \in wait[g]
      BY <2>2, <2>5 DEF NoOrphanListener, AwaitingStop
    <3>2. CASE \E d \in Cids, r \in Ports : forwards[d][r] = k
      BY <3>1, <3>2, <2>1 DEF Mine
    <3>3. CASE \E g \in Conns : pc[g] = "fwdCommit" /\ lsock[g] = k
      BY <3>3, <2>3, <2>5
    <3>4. CASE \E g \in Conns : pc[g] \in AwaitingStop /\ k \in wait[g]
      BY <3>4, <2>3, <2>5 DEF AwaitingStop
    <3>5. QED
      BY <3>1, <3>2, <3>3, <3>4 DEF NoOrphanListener, AwaitingStop
  <2>20. QED
    BY <2>11, <2>12, <2>13, <2>14, <2>15, <2>16
<1>6. QED
  BY <1>1, <1>2, <1>3, <1>4, <1>5 DEF IInv

\* run() takes the lock for good and tears everything down.
LEMMA DrainAllPreserves ==
  ASSUME IInv, DrainAll
  PROVE  IInv'
<1> DEFINE S == UNION {Listeners(c) : c \in Cids}
<1> USE ConstantFacts
<1>1. S \in SUBSET Sockets
  BY HelperTypes DEF IInv
<1>2. TypeOK'
  <2>1. sock' \in [Sockets -> {"free", "open", "closing"}]
    BY HelperTypes DEF IInv, DrainAll
  <2>2. wait' \in [Conns \cup {Main} -> SUBSET Sockets]
    BY <1>1 DEF IInv, TypeOK, DrainAll
  <2>3. QED
    BY <2>1, <2>2 DEF IInv, TypeOK, DrainAll, locals
<1>3. LocalsInv'
  BY DEF IInv, LocalsInv, DrainAll, locals
<1>4. LockInv'
  BY DEF IInv, LockInv, DrainAll
<1>5. NoZombieRegistration'
  BY DEF NoZombieRegistration, DrainAll
<1>6. ClaimsInv'
  <2> USE DEF IInv, TypeOK, ClaimsInv
  <2>1. \A k : k \in S <=> \E c \in Cids, p \in Ports : forwards[c][p] # None /\ forwards[c][p] = k
    BY DEF Listeners, Forwarded
  <2>2. \A k \in Sockets : sock'[k] = IF k \in S THEN "closing" ELSE sock[k]
    BY DEF DrainAll, Stop
  <2>3. /\ wait'[Main] = S
        /\ \A g \in Conns : wait'[g] = wait[g]
    BY DEF DrainAll
  <2>4. lock = None /\ lock' = Main /\ UNCHANGED <<pc, target, lsock>>
    BY DEF DrainAll, locals
  <2>5. \A d \in Cids, p \in Ports : forwards'[d][p] = None
    BY DEF DrainAll
  <2>6. \A g \in Conns : pc[g] = "fwdCommit" => lsock[g] \notin S
    BY <2>1, <2>4 DEF ReserveInv, BoundInv, Reserving
  <2> HIDE DEF S
  <2>11. TableInv' /\ ForwardIsServed'
    BY <2>5 DEF TableInv, ForwardIsServed
  <2>12. ReserveInv'
    BY <2>4 DEF ReserveInv
  <2>13. BoundInv'
    BY <2>2, <2>4, <2>6 DEF BoundInv
  <2>14. WaitInv'
    <3>1. ASSUME NEW k \in S
          PROVE  /\ sock'[k] = "closing"
                 /\ \A d \in Cids, p \in Ports : forwards'[d][p] # k
                 /\ \A g \in Conns : pc'[g] = "fwdCommit" => lsock'[g] # k
      <4>1. k \in Sockets
        BY <1>1
      <4>2. QED
        BY <4>1, <2>2, <2>4, <2>5, <2>6
    <3>2. ASSUME NEW g \in Conns, NEW k \in wait[g]
          PROVE  /\ sock'[k] # "free"
                 /\ sock'[k] = "open" => pc'[g] \in AwaitingStop
                 /\ \A d \in Cids, p \in Ports : forwards'[d][p] # k
                 /\ \A m \in Conns : pc'[m] = "fwdCommit" => lsock'[m] # k
      <4>1. k \in Sockets
        OBVIOUS
      <4>2. QED
        BY <4>1, <2>2, <2>4, <2>5 DEF WaitInv
    <3>3. QED
      BY <3>1, <3>2, <2>3 DEF WaitInv
  <2>15. NoOrphanListener'
    <3>1. SUFFICES ASSUME NEW k \in Sockets, sock[k] = "open", k \notin S
                   PROVE  \/ \E g \in Conns : pc[g] = "fwdCommit" /\ lsock[g] = k
                          \/ \E g \in Conns : pc[g] \in AwaitingStop /\ k \in wait[g]
      BY <2>2, <2>3, <2>4 DEF NoOrphanListener, AwaitingStop
    <3>2. ASSUME NEW c \in Cids, NEW p \in Ports
          PROVE  forwards[c][p] # k
      BY <3>1, <2>1
    <3>3. \/ \E c \in Cids, p \in Ports : forwards[c][p] = k
          \/ \E g \in Conns : pc[g] = "fwdCommit" /\ lsock[g] = k
          \/ \E g \in Conns : pc[g] \in AwaitingStop /\ k \in wait[g]
      BY <3>1 DEF NoOrphanListener, AwaitingStop
    <3>4. QED
      BY ONLY <3>2, <3>3
  <2>20. QED
    BY <2>11, <2>12, <2>13, <2>14, <2>15
<1>7. QED
  BY <1>2, <1>3, <1>4, <1>5, <1>6 DEF IInv

\* A host port is chosen and booked; or there is none left.
LEMMA ForwardReservePreserves ==
  ASSUME IInv, NEW h \in Conns, ForwardReserve(h)
  PROVE  IInv'
<1> DEFINE U == {r \in HostPorts : used[r] # None}
<1> USE ConstantFacts
<1>1. PICK q \in FindAvailablePort(U, port[h]) :
        IF q = NoPort
        THEN Return(h) /\ UNCHANGED used
        ELSE /\ used' = [used EXCEPT ![q] = CidOf[h]]
             /\ target' = [target EXCEPT ![h] = q]
             /\ Goto(h, "fwdBind") /\ UNCHANGED port
  BY DEF ForwardReserve
<1>2. /\ pc[h] = "fwdReserve" /\ lock = None /\ port[h] \in Ports
      /\ UNCHANGED <<owner, forwards, sock, browser, lock, daemon, shutdownQueue, dropped, lsock, wait>>
  BY DEF ForwardReserve, IInv, LocalsInv, main
<1>3. CASE q = NoPort
  <2>1. Return(h) /\ used' = used
    BY <1>1, <1>3
  <2>2. TypeOK'
    BY <1>2, <2>1 DEF IInv, TypeOK, Labels, Return, Goto
  <2>3. LocalsInv' /\ LockInv'
    BY <1>2, <2>1 DEF IInv, TypeOK, LocalsInv, LockInv, Return, Goto
  <2>4. NoZombieRegistration'
    BY <1>2, <2>1 DEF IInv, TypeOK, NoZombieRegistration, InSession, Return, Goto
  <2>5. ClaimsInv'
    BY <1>2, <2>1, PlainStep DEF IInv, TypeOK, Labels, Claiming, AwaitingStop, Return, Goto
  <2>6. QED
    BY <2>2, <2>3, <2>4, <2>5 DEF IInv
<1>4. CASE q # NoPort
  <2>1. q \in HostPorts /\ used[q] = None
    <3>1. U \in SUBSET HostPorts /\ port[h] \in HostPorts
      BY <1>2
    <3>2. q \in HostPorts /\ q \notin U
      BY <1>4, <3>1, FindAvailableFacts
    <3>3. QED
      BY <3>2
  <2>2. /\ used' = [used EXCEPT ![q] = CidOf[h]]
        /\ target' = [target EXCEPT ![h] = q]
        /\ pc' = [pc EXCEPT ![h] = "fwdBind"]
        /\ port' = port
    BY <1>1, <1>4 DEF Goto
  <2> HIDE DEF U
  <2>3. TypeOK'
    BY <1>2, <2>1, <2>2 DEF IInv, TypeOK, Labels
  <2>4. LocalsInv' /\ LockInv'
    BY <1>2, <2>1, <2>2 DEF IInv, TypeOK, LocalsInv, LockInv
  <2>5. NoZombieRegistration'
    BY <1>2, <2>2 DEF IInv, TypeOK, NoZombieRegistration, InSession
  <2>6. ClaimsInv'
    <3> USE DEF IInv, TypeOK, ClaimsInv
    <3>1. /\ \A g \in Conns : pc'[g] = IF g = h THEN "fwdBind" ELSE pc[g]
          /\ \A g \in Conns : target'[g] = IF g = h THEN q ELSE target[g]
          /\ \A r \in HostPorts : used'[r] = IF r = q THEN CidOf[h] ELSE used[r]
      BY <2>1, <2>2
    <3>2. \A c \in Cids, p \in Ports : forwards[c][p] # None => forwards[c][p][1] # q
      BY <2>1 DEF ForwardIsServed
    <3>3. \A g \in Reserving : target[g] # q /\ target[g] \in HostPorts
      BY <1>2, <2>1 DEF ReserveInv, LocalsInv, Reserving
    <3>4. Reserving' = Reserving \cup {h}
      BY <1>2, <3>1 DEF Reserving
    <3>5. TableInv'
      BY <1>2 DEF TableInv
    <3>6. ReserveInv'
      <4>1. /\ used'[target'[h]] = CidOf[h]
            /\ \A g \in Reserving : used'[target'[g]] = CidOf[g]
        <5>1. used'[target'[h]] = CidOf[h]
          BY <2>1, <3>1
        <5>2. ASSUME NEW g \in Reserving
              PROVE  used'[target'[g]] = CidOf[g]
          <6>1. used[target[g]] = CidOf[g]
            BY <1>2, <2>1 DEF ReserveInv
          <6>2. g \in Conns /\ g # h
            BY <1>2 DEF Reserving
          <6>3. QED
            BY <6>1, <6>2, <3>1, <3>3
        <5>3. QED
          BY <5>1, <5>2
      <4>2. \A g \in Reserving', c \in Cids, p \in Ports :
              forwards[c][p] # None => forwards[c][p][1] # target'[g]
        BY <1>2, <3>1, <3>2, <3>4 DEF ReserveInv, Reserving
      <4>3. \A g, m \in Reserving' : target'[g] = target'[m] => g = m
        BY <1>2, <3>1, <3>3, <3>4 DEF ReserveInv, Reserving
      <4> HIDE DEF IInv, TypeOK, ClaimsInv
      <4>4. QED
        BY <4>1, <4>2, <4>3, <3>4, <1>2 DEF ReserveInv
    <3>7. BoundInv'
      BY <1>2, <3>1 DEF BoundInv
    <3>8. WaitInv' /\ NoOrphanListener'
      BY <1>2, <3>1, ListenerFrame DEF AwaitingStop
    <3>9. ForwardIsServed'
      BY <1>2, <3>1, <3>2, SocketFacts DEF ForwardIsServed
    <3>10. QED
      BY <3>5, <3>6, <3>7, <3>8, <3>9
  <2>7. QED
    BY <2>3, <2>4, <2>5, <2>6 DEF IInv
<1>5. QED
  BY <1>3, <1>4

\* A listener is bound on the reserved port, or not.
LEMMA ForwardBindPreserves ==
  ASSUME IInv, NEW h \in Conns, ForwardBind(h)
  PROVE  IInv'
<1> USE ConstantFacts
<1>1. /\ pc[h] = "fwdBind" /\ target[h] \in HostPorts
      /\ UNCHANGED <<owner, forwards, used, browser, lock, daemon, shutdownQueue, port, dropped, target, wait>>
  BY DEF ForwardBind, IInv, LocalsInv, table, main
<1>2. CASE Goto(h, "fwdRelease") /\ UNCHANGED <<sock, lsock>>
  <2> USE <1>1, <1>2 DEF IInv, TypeOK, Goto
  <2>1. TypeOK'
    BY DEF Labels
  <2>2. LocalsInv' /\ LockInv'
    BY DEF LocalsInv, LockInv
  <2>3. NoZombieRegistration'
    BY DEF NoZombieRegistration, InSession
  <2>4. ClaimsInv'
    <3> USE DEF ClaimsInv
    <3>1. Reserving' = Reserving
      BY DEF Reserving
    <3>2. TableInv' /\ ForwardIsServed'
      BY DEF TableInv, ForwardIsServed
    <3>3. ReserveInv'
      BY <3>1 DEF ReserveInv
    <3>4. BoundInv'
      BY DEF BoundInv
    <3>5. WaitInv' /\ NoOrphanListener'
      BY ListenerFrame DEF AwaitingStop
    <3>6. QED
      BY <3>2, <3>3, <3>4, <3>5
  <2>5. QED
    BY <2>1, <2>2, <2>3, <2>4
<1>3. ASSUME NEW f \in {"v4", "v6"},
             sock[<<target[h], f>>] = "free",
             sock' = [sock EXCEPT ![<<target[h], f>>] = "open"],
             lsock' = [lsock EXCEPT ![h] = <<target[h], f>>],
             Goto(h, "fwdCommit")
      PROVE  IInv'
  <2> DEFINE l == <<target[h], f>>
  <2>1. l \in Sockets /\ l[1] = target[h]
    BY <1>1, SocketFacts
  <2>2. sock[l] = "free" /\ sock' = [sock EXCEPT ![l] = "open"] /\ lsock' = [lsock EXCEPT ![h] = l]
    BY <1>3
  <2>3. pc' = [pc EXCEPT ![h] = "fwdCommit"]
    BY <1>3 DEF Goto
  <2> HIDE DEF l
  <2> USE <1>1 DEF IInv, TypeOK
  <2>4. TypeOK'
    BY <2>1, <2>2, <2>3 DEF Labels
  <2>5. LocalsInv' /\ LockInv'
    BY <2>3 DEF LocalsInv, LockInv
  <2>6. NoZombieRegistration'
    BY <2>3 DEF NoZombieRegistration, InSession
  <2>7. ClaimsInv'
    <3> USE DEF ClaimsInv
    <3>1. /\ \A g \in Conns : pc'[g] = IF g = h THEN "fwdCommit" ELSE pc[g]
          /\ \A g \in Conns : lsock'[g] = IF g = h THEN l ELSE lsock[g]
          /\ \A k \in Sockets : sock'[k] = IF k = l THEN "open" ELSE sock[k]
      BY <2>1, <2>2, <2>3
    <3>2. Reserving' = Reserving
      BY <3>1 DEF Reserving
    <3>3. \A c \in Cids, p \in Ports : forwards[c][p] # l
      BY <2>1, <2>2 DEF ForwardIsServed
    <3>4. \A t \in Conns \cup {Main} : l \notin wait[t]
      BY <2>2 DEF WaitInv
    <3>5. TableInv'
      BY DEF TableInv
    <3>6. ReserveInv'
      BY <3>2 DEF ReserveInv
    <3>7. BoundInv'
      BY <2>1, <3>1 DEF BoundInv
    <3>8. WaitInv'
      <4>1. SUFFICES ASSUME NEW t \in Conns \cup {Main}, NEW k \in wait[t]
                     PROVE  /\ sock'[k] # "free"
                            /\ sock'[k] = "open" => t \in Conns /\ pc'[t] \in AwaitingStop
                            /\ \A c \in Cids, p \in Ports : forwards[c][p] # k
                            /\ \A g \in Conns : pc'[g] = "fwdCommit" => lsock'[g] # k
        BY DEF WaitInv
      <4>2. k \in Sockets /\ k # l
        BY <3>4
      <4>3. sock'[k] = sock[k] /\ (t \in Conns /\ pc[t] \in AwaitingStop => pc'[t] \in AwaitingStop)
        BY <4>2, <3>1 DEF AwaitingStop
      <4>4. WaitInv
        OBVIOUS
      <4> HIDE DEF IInv, TypeOK, ClaimsInv
      <4>5. QED
        BY <4>2, <4>3, <4>4, <3>1 DEF WaitInv
    <3>9. ForwardIsServed'
      BY <3>1, <3>3 DEF ForwardIsServed
    <3>10. NoOrphanListener'
      <4>1. \A g \in Conns : pc[g] \in AwaitingStop => pc'[g] \in AwaitingStop
        BY <3>1 DEF AwaitingStop
      <4>2. NoOrphanListener
        OBVIOUS
      <4> HIDE DEF IInv, TypeOK, ClaimsInv
      <4>3. QED
        BY <4>1, <4>2, <3>1 DEF NoOrphanListener, AwaitingStop
    <3>11. QED
      BY <3>5, <3>6, <3>7, <3>8, <3>9, <3>10
  <2>8. QED
    BY <2>4, <2>5, <2>6, <2>7
<1>4. QED
  BY <1>2, <1>3 DEF ForwardBind

\* The listener is tabled, or stopped for want of a container.
LEMMA ForwardCommitPreserves ==
  ASSUME IInv, NEW h \in Conns, ForwardCommit(h)
  PROVE  IInv'
<1> DEFINE c == CidOf[h]
<1> DEFINE p == port[h]
<1> DEFINE l == lsock[h]
<1> DEFINE x == forwards[c][p]
<1> USE ConstantFacts
<1>1. /\ c \in Cids /\ p \in Ports
      /\ l \in Sockets /\ l[1] \in HostPorts /\ l[1] = target[h] /\ sock[l] = "open"
      /\ pc[h] = "fwdCommit" /\ lock = None /\ h \in Reserving
  BY SocketFacts DEF ForwardCommit, IInv, LocalsInv, ClaimsInv, BoundInv, Reserving
<1>2. /\ used[l[1]] = c
      /\ \A d \in Cids, r \in Ports : forwards[d][r] # None => forwards[d][r][1] # l[1]
      /\ \A g \in Reserving : g # h => target[g] # l[1]
  BY <1>1 DEF IInv, ClaimsInv, ReserveInv
<1>3. \A g \in Conns : pc[g] = "fwdCommit" /\ g # h => lsock[g] \in Sockets /\ lsock[g] # l
  BY <1>2 DEF IInv, ClaimsInv, BoundInv, Reserving
<1>4. \A t \in Conns \cup {Main} : l \notin wait[t]
  BY <1>1 DEF IInv, ClaimsInv, WaitInv
<1>5. \A g \in Reserving : target[g] \in HostPorts
  BY DEF IInv, LocalsInv, Reserving
<1>6. /\ UNCHANGED <<owner, browser, daemon, shutdownQueue, port, dropped, target>>
      /\ lsock' = [lsock EXCEPT ![h] = None]
  BY DEF ForwardCommit, main
<1>7. CASE owner[c] # None
  <2>1. /\ forwards' = [forwards EXCEPT ![c][p] = l]
        /\ Stop({x})
        /\ pc' = [pc EXCEPT ![h] = "fwdMap"]
        /\ UNCHANGED <<used, lock, wait>>
    BY <1>7 DEF ForwardCommit, Goto
  <2>2. /\ x \in Sockets \cup {None} /\ x # l
        /\ \A g \in Conns : pc[g] = "fwdCommit" => lsock[g] # x
    <3>1. x \in Sockets \cup {None}
      BY <1>1 DEF IInv, TypeOK
    <3>2. x # l
      BY <1>1, <1>2
    <3>3. \A g \in Conns : pc[g] = "fwdCommit" =>
            g \in Reserving /\ lsock[g] \in Sockets /\ lsock[g][1] = target[g]
      BY DEF IInv, ClaimsInv, BoundInv, Reserving
    <3>4. x # None => \A g \in Reserving : x[1] # target[g]
      BY <1>1 DEF IInv, ClaimsInv, ReserveInv
    <3>5. QED
      BY <3>1, <3>2, <3>3, <3>4
  <2>3. \A d \in Cids, r \in Ports :
          forwards'[d][r] = IF d = c /\ r = p THEN l ELSE forwards[d][r]
    BY <1>1, <2>1 DEF IInv, TypeOK
  <2>4. \A k \in Sockets : sock'[k] = IF k = x THEN "closing" ELSE sock[k]
    BY <2>1 DEF Stop
  <2>5. \A g \in Conns : pc'[g] = IF g = h THEN "fwdMap" ELSE pc[g]
    BY <2>1 DEF IInv, TypeOK
  <2>6. \A g \in Conns : g # h => lsock'[g] = lsock[g]
    BY <1>6 DEF IInv, TypeOK
  <2>7. \A d \in Cids, r \in Ports : forwards[d][r] # None /\ forwards[d][r][1] = x[1] /\ x # None
                                      => d = c /\ r = p
    BY <1>1 DEF IInv, ClaimsInv, TableInv
  <2>8. TypeOK'
    <3>1. forwards' \in [Cids -> [Ports -> Sockets \cup {None}]]
      BY <1>1, <2>1 DEF IInv, TypeOK
    <3>2. sock' \in [Sockets -> {"free", "open", "closing"}]
      BY <2>1, HelperTypes DEF IInv
    <3>3. QED
      BY <3>1, <3>2, <1>6, <2>1 DEF IInv, TypeOK, Labels
  <2>9. LocalsInv' /\ LockInv'
    BY <1>1, <1>6, <2>1, <2>5 DEF IInv, LocalsInv, LockInv
  <2>10. NoZombieRegistration'
    BY <1>6, <2>5 DEF IInv, TypeOK, NoZombieRegistration, InSession
  <2> HIDE DEF c, p, l, x
  <2>11. TableInv'
    BY <1>2, <2>3 DEF IInv, ClaimsInv, TableInv
  <2>12. Reserving' = Reserving \ {h}
    BY <2>5 DEF Reserving
  <2>13. ReserveInv'
    BY <1>1, <1>2, <1>6, <2>1, <2>3, <2>12 DEF IInv, ClaimsInv, ReserveInv
  <2>14. BoundInv'
    BY <1>6, <2>2, <2>4, <2>5, <2>6 DEF IInv, ClaimsInv, BoundInv
  <2>15. WaitInv'
    <3>1. SUFFICES ASSUME NEW t \in Conns \cup {Main}, NEW k \in wait[t]
                   PROVE  /\ sock'[k] # "free"
                          /\ sock'[k] = "open" => t \in Conns /\ pc'[t] \in AwaitingStop
                          /\ \A d \in Cids, r \in Ports : forwards'[d][r] # k
                          /\ \A g \in Conns : pc'[g] = "fwdCommit" => lsock'[g] # k
      BY <2>1 DEF WaitInv
    <3>2. k \in Sockets /\ k # l
      BY <1>4 DEF IInv, TypeOK
    <3>3. /\ sock[k] # "free"
          /\ sock[k] = "open" => t \in Conns /\ pc[t] \in AwaitingStop
          /\ \A d \in Cids, r \in Ports : forwards[d][r] # k
          /\ \A g \in Conns : pc[g] = "fwdCommit" => lsock[g] # k
      BY DEF IInv, ClaimsInv, WaitInv
    <3>4. t \in Conns /\ pc[t] \in AwaitingStop => pc'[t] \in AwaitingStop
      BY <1>1, <2>5 DEF AwaitingStop
    <3>5. QED
      BY <3>2, <3>3, <3>4, <2>3, <2>4, <2>5, <2>6
  <2>16. ForwardIsServed'
    <3>1. SUFFICES ASSUME NEW d \in Cids, NEW r \in Ports, forwards'[d][r] # None
                   PROVE  /\ owner[d] # None
                          /\ sock'[forwards'[d][r]] = "open"
                          /\ used[forwards'[d][r][1]] = d
      BY <1>6, <2>1 DEF ForwardIsServed
    <3>2. CASE d = c /\ r = p
      BY <3>2, <1>1, <1>2, <1>7, <2>2, <2>3, <2>4
    <3>3. CASE ~(d = c /\ r = p)
      <4>1. forwards'[d][r] = forwards[d][r] /\ forwards[d][r] # x
        BY <3>1, <3>3, <2>3, <2>7
      <4>2. QED
        BY <3>1, <4>1, <2>4 DEF IInv, TypeOK, ClaimsInv, ForwardIsServed
    <3>4. QED
      BY <3>2, <3>3
  <2>17. NoOrphanListener'
    <3>1. SUFFICES ASSUME NEW k \in Sockets, sock[k] = "open", k # x, k # l
                   PROVE  \/ \E d \in Cids, r \in Ports : forwards'[d][r] = k
                          \/ \E g \in Conns : pc'[g] = "fwdCommit" /\ lsock'[g] = k
                          \/ \E g \in Conns : pc'[g] \in AwaitingStop /\ k \in wait[g]
      BY <1>1, <2>1, <2>3, <2>4 DEF NoOrphanListener, AwaitingStop
    <3>2. CASE \E d \in Cids, r \in Ports : forwards[d][r] = k
      BY <3>1, <3>2, <2>3 DEF x
    <3>3. CASE \E g \in Conns : pc[g] = "fwdCommit" /\ lsock[g] = k
      BY <3>1, <3>3, <2>5, <2>6 DEF l
    <3>4. CASE \E g \in Conns : pc[g] \in AwaitingStop /\ k \in wait[g]
      BY <3>4, <1>1, <2>5 DEF AwaitingStop
    <3>5. QED
      BY <3>1, <3>2, <3>3, <3>4 DEF IInv, ClaimsInv, NoOrphanListener, AwaitingStop
  <2>18. QED
    BY <2>8, <2>9, <2>10, <2>11, <2>13, <2>14, <2>15, <2>16, <2>17 DEF IInv, ClaimsInv
<1>8. CASE owner[c] = None
  <2>1. /\ Release({l}) /\ Stop({l})
        /\ wait' = [wait EXCEPT ![h] = {l}]
        /\ lock' = h
        /\ pc' = [pc EXCEPT ![h] = "fwdGone"]
        /\ forwards' = forwards
    BY <1>8 DEF ForwardCommit, Goto
  <2>2. \A k \in Sockets : sock'[k] = IF k = l THEN "closing" ELSE sock[k]
    BY <2>1 DEF Stop
  <2>3. \A q \in HostPorts : used'[q] = IF q = l[1] THEN None ELSE used[q]
    BY <2>1 DEF Release
  <2>4. \A g \in Conns : pc'[g] = IF g = h THEN "fwdGone" ELSE pc[g]
    BY <2>1 DEF IInv, TypeOK
  <2>5. \A g \in Conns : g # h => lsock'[g] = lsock[g]
    BY <1>6 DEF IInv, TypeOK
  <2>6. \A t \in Conns \cup {Main} : wait'[t] = IF t = h THEN {l} ELSE wait[t]
    BY <2>1 DEF IInv, TypeOK
  <2>7. TypeOK'
    <3>1. used' \in [HostPorts -> Cids \cup {None}] /\ sock' \in [Sockets -> {"free", "open", "closing"}]
      BY <2>1, HelperTypes DEF IInv
    <3>2. wait' \in [Conns \cup {Main} -> SUBSET Sockets]
      BY <1>1, <2>1 DEF IInv, TypeOK
    <3>3. QED
      BY <3>1, <3>2, <1>6, <2>1 DEF IInv, TypeOK, Labels
  <2>8. LocalsInv' /\ LockInv'
    BY <1>1, <1>6, <2>1, <2>4 DEF IInv, LocalsInv, LockInv
  <2>9. NoZombieRegistration'
    BY <1>6, <2>4 DEF IInv, TypeOK, NoZombieRegistration, InSession
  <2> HIDE DEF c, p, l, x
  <2>10. TableInv'
    BY <2>1 DEF IInv, ClaimsInv, TableInv
  <2>11. Reserving' = Reserving \ {h}
    BY <2>4 DEF Reserving
  <2>12. ReserveInv'
    BY <1>1, <1>2, <1>5, <1>6, <2>1, <2>3, <2>11 DEF IInv, ClaimsInv, ReserveInv
  <2>13. BoundInv'
    BY <1>3, <1>6, <2>2, <2>4, <2>5 DEF IInv, ClaimsInv, BoundInv
  <2>14. WaitInv'
    <3>1. ASSUME NEW t \in Conns \cup {Main}, NEW k \in wait[t], t # h
          PROVE  /\ sock'[k] # "free"
                 /\ sock'[k] = "open" => t \in Conns /\ pc'[t] \in AwaitingStop
                 /\ \A d \in Cids, r \in Ports : forwards'[d][r] # k
                 /\ \A g \in Conns : pc'[g] = "fwdCommit" => lsock'[g] # k
      <4>1. k \in Sockets /\ k # l
        BY <1>4 DEF IInv, TypeOK
      <4>2. /\ sock[k] # "free"
            /\ sock[k] = "open" => t \in Conns /\ pc[t] \in AwaitingStop
            /\ \A d \in Cids, r \in Ports : forwards[d][r] # k
            /\ \A g \in Conns : pc[g] = "fwdCommit" => lsock[g] # k
        BY DEF IInv, ClaimsInv, WaitInv
      <4>3. QED
        BY <3>1, <4>1, <4>2, <2>1, <2>2, <2>4, <2>5
    <3>2. /\ sock'[l] = "closing"
          /\ \A d \in Cids, r \in Ports : forwards'[d][r] # l
          /\ \A g \in Conns : pc'[g] = "fwdCommit" => lsock'[g] # l
      BY <1>1, <1>2, <1>3, <2>1, <2>2, <2>4, <2>5
    <3>3. QED
      BY <3>1, <3>2, <2>6 DEF WaitInv
  <2>15. ForwardIsServed'
    BY <1>1, <1>2, <1>6, <2>1, <2>2, <2>3, SocketFacts DEF IInv, TypeOK, ClaimsInv, ForwardIsServed
  <2>16. NoOrphanListener'
    <3>1. SUFFICES ASSUME NEW k \in Sockets, sock[k] = "open", k # l
                   PROVE  \/ \E d \in Cids, r \in Ports : forwards[d][r] = k
                          \/ \E g \in Conns : pc'[g] = "fwdCommit" /\ lsock'[g] = k
                          \/ \E g \in Conns : pc'[g] \in AwaitingStop /\ k \in wait'[g]
      BY <1>1, <2>1, <2>2 DEF NoOrphanListener, AwaitingStop
    <3>2. CASE \E g \in Conns : pc[g] = "fwdCommit" /\ lsock[g] = k
      BY <3>1, <3>2, <2>4, <2>5 DEF l
    <3>3. CASE \E g \in Conns : pc[g] \in AwaitingStop /\ k \in wait[g]
      BY <3>3, <1>1, <2>4, <2>6 DEF AwaitingStop
    <3>4. QED
      BY <3>1, <3>2, <3>3 DEF IInv, ClaimsInv, NoOrphanListener, AwaitingStop
  <2>17. QED
    BY <2>7, <2>8, <2>9, <2>10, <2>12, <2>13, <2>14, <2>15, <2>16 DEF IInv, ClaimsInv
<1>9. QED
  BY <1>7, <1>8
------------------------------------------------------------------------------
(* The theorems *)

\* The invariant holds when the daemon starts.
LEMMA InitEstablishes == Init => IInv
<1> SUFFICES ASSUME Init PROVE IInv
  OBVIOUS
<1> USE ConstantFacts DEF Init
<1>1. TypeOK
  BY DEF TypeOK, Labels
<1>2. LocalsInv /\ LockInv /\ NoZombieRegistration
  BY DEF LocalsInv, LockInv, NoZombieRegistration
<1>3. TableInv /\ ReserveInv /\ BoundInv /\ WaitInv
  BY DEF TableInv, ReserveInv, Reserving, BoundInv, WaitInv
<1>4. ForwardIsServed /\ NoOrphanListener
  BY DEF ForwardIsServed, NoOrphanListener
<1>5. QED
  BY <1>1, <1>2, <1>3, <1>4 DEF IInv, ClaimsInv

\* Every step of every task preserves it.
LEMMA NextPreserves == IInv /\ [Next]_vars => IInv'
<1> SUFFICES ASSUME IInv, [Next]_vars PROVE IInv'
  OBVIOUS
<1>1. ASSUME NEW h \in Conns, Input(h) PROVE IInv'
  <2>1. ASSUME NEW p \in Ports, ReceiveForward(h, p) \/ ReceiveUnforward(h, p) PROVE IInv'
    BY <2>1, ReceivePreserves DEF ReceiveForward, ReceiveUnforward
  <2>2. QED
    BY <1>1, <2>1, RegisterPreserves, OneShotPreserves, ReceiveShutdownPreserves,
       DisconnectPreserves, AdminUnforwardPreserves DEF Input
<1>2. ASSUME NEW h \in Conns, Work(h) PROVE IInv'
  <2>1. CASE AckRegistration(h) \/ Insert(h) \/ Cleanup(h) \/ IdleCheck(h) \/ IdleSend(h)
    BY <2>1, AckRegistrationPreserves, InsertPreserves, CleanupPreserves,
       IdleCheckPreserves, IdleSendPreserves
  <2>2. CASE ForwardLimit(h) \/ ForwardReserve(h) \/ ForwardBind(h) \/ ForwardRelease(h)
    BY <2>2, ForwardLimitPreserves, ForwardReservePreserves, ForwardBindPreserves,
       ForwardReleasePreserves
  <2>3. CASE ForwardCommit(h) \/ ForwardGone(h) \/ ForwardMap(h)
    BY <2>3, ForwardCommitPreserves, ForwardGonePreserves, ForwardMapPreserves
  <2>4. CASE UnforwardRemove(h) \/ StopRemoved(h) \/ Unmap(h) \/ Drained(h)
    BY <2>4, UnforwardRemovePreserves, StopRemovedPreserves, UnmapPreserves, DrainedPreserves
  <2>5. QED
    BY <1>2, <2>1, <2>2, <2>3, <2>4 DEF Work
<1>3. ASSUME NEW l \in Sockets, CloseListener(l) PROVE IInv'
  BY <1>3, CloseListenerPreserves
<1>4. CASE MainStep \/ Signal
  BY <1>4, TakeShutdownPreserves, DrainAllPreserves, ExitPreserves, SignalPreserves DEF MainStep
<1>5. CASE UNCHANGED vars
  BY <1>5 DEF vars, IInv, TypeOK, LocalsInv, LockInv, NoZombieRegistration, ClaimsInv, TableInv,
     ReserveInv, Reserving, BoundInv, WaitInv, ForwardIsServed, NoOrphanListener
<1>6. QED
  BY <1>1, <1>2, <1>3, <1>4, <1>5 DEF Next, Stopped

\* The inductive invariant holds in every behaviour of the daemon.
THEOREM Inductive == Spec => []IInv
<1>1. QED
  BY InitEstablishes, NextPreserves, PTL DEF Spec

\* TypeOK, for every number of connections, containers and ports: in
\* particular the shutdown queue never holds more than its one message, and a
\* browser mapping, reservation or lease is always a real port.
THEOREM TypeCorrect == Spec => []TypeOK
<1>1. IInv => TypeOK
  BY DEF IInv
<1>2. QED
  BY Inductive, <1>1, PTL

\* handle_forward's reservation under the lock does what it is for, whatever
\* the number of concurrent connections, also of one container: no two
\* forwards share a host port.
THEOREM PortsExclusive == Spec => []HostPortsExclusive
<1>1. IInv => HostPortsExclusive
  BY DEF IInv, ClaimsInv, TableInv, ReserveInv, HostPortsExclusive
<1>2. QED
  BY Inductive, <1>1, PTL

\* No critical section takes away what a tabled forward needs: its container's
\* entry, its listener and its booking outlast it.
THEOREM ForwardsServed == Spec => []ForwardIsServed
<1>1. IInv => ForwardIsServed
  BY DEF IInv, ClaimsInv
<1>2. QED
  BY Inductive, <1>1, PTL

\* Every accepting listener is some forward's or in the hands of a task that
\* will table it or stop it, teardown and shutdown included.
THEOREM ListenersOwned == Spec => []NoOrphanListener
<1>1. IInv => NoOrphanListener
  BY DEF IInv, ClaimsInv
<1>2. QED
  BY Inductive, <1>1, PTL

\* Every entry of containers has a live connection task of that container
\* behind it.
THEOREM EntriesAlive == Spec => []NoZombieRegistration
<1>1. IInv => NoZombieRegistration
  BY DEF IInv
<1>2. QED
  BY Inductive, <1>1, PTL

\* cleanup_container's comparison of registration ids is enough: however late
\* the tasks of superseded connections run, an entry is only ever taken away by
\* its own connection, by a newer one of the same container, or by shutdown.
THEOREM RegistrationsKept == Spec => RegistrationKept
<1> DEFINE Kept ==
      \A c \in Cids :
        owner[c] # None /\ owner'[c] # owner[c] =>
          \/ pc[owner[c]] = "cleanup" /\ pc'[owner[c]] = "clnUnmap"
          \/ \E g \in Conns :
               CidOf[g] = c /\ <<pc[g], pc'[g]>> \in {<<"new", "regUnmap">>, <<"regInsert", "serving">>}
          \/ daemon' = "draining"
<1>1. ASSUME TypeOK, [Next]_vars
      PROVE  [Kept]_vars
  <2> USE <1>1
  <2>1. CASE owner' = owner
    BY <2>1
  <2>2. ASSUME NEW h \in Conns, Register(h) PROVE Kept
    BY <2>2 DEF Register, TearDown, Goto, TypeOK, table
  <2>3. ASSUME NEW h \in Conns, Insert(h) PROVE Kept
    BY <2>3 DEF Insert, Goto, TypeOK
  <2>4. ASSUME NEW h \in Conns, Cleanup(h) PROVE Kept
    BY <2>4 DEF Cleanup, TearDown, Goto, TypeOK, table
  <2>5. CASE DrainAll
    BY <2>5 DEF DrainAll
  <2>6. ASSUME NEW h \in Conns, Input(h), owner' # owner PROVE Kept
    BY <2>2, <2>6 DEF Input, OneShot, ReceiveShutdown, Disconnect, ReceiveForward, ReceiveUnforward,
       Receive, AdminUnforward, table
  <2>7. ASSUME NEW h \in Conns, Work(h), owner' # owner PROVE Kept
    BY <2>3, <2>4, <2>7 DEF Work, AckRegistration, ForwardLimit, ForwardReserve, ForwardBind,
       ForwardRelease, ForwardCommit, ForwardGone, ForwardMap, UnforwardRemove, StopRemoved,
       Unmap, Drained, IdleCheck, IdleSend, table
  <2>8. CASE \E l \in Sockets : CloseListener(l)
    BY <2>1, <2>8 DEF CloseListener, table
  <2>9. CASE TakeShutdown \/ Exit \/ Signal \/ Stopped \/ UNCHANGED vars
    BY <2>1, <2>9 DEF TakeShutdown, Exit, Signal, Stopped, vars, table
  <2>10. QED
    BY <2>1, <2>5, <2>6, <2>7, <2>8, <2>9 DEF Next, MainStep
<1>2. QED
  BY TypeCorrect, <1>1, PTL DEF Spec, RegistrationKept
------------------------------------------------------------------------------
(* --exit-on-idle *)

\* The labels on the way to the exit-on-idle check.
Departing == InSession \cup {"clnUnmap", "clnDrain", "idleCheck", "idleSend"}

\* Once a connection has left without stopping the daemon, another is on its
\* way to the check.
IdleInv ==
  ExitOnIdle /\ (\E h \in Conns : pc[h] = "left") =>
    shutdownQueue = 1 \/ daemon # "running" \/ \E g \in Conns : pc[g] \in Departing

\* A step of one task: the others stay where they are, and it leaves through the
\* check only.
LEMMA TaskMoves ==
  ASSUME IInv, NEW h \in Conns, Input(h) \/ Work(h)
  PROVE  /\ \A g \in Conns : g # h => pc'[g] = pc[g] /\ port'[g] = port[g] /\ target'[g] = target[g]
         /\ daemon' = daemon /\ daemon # "stopped"
         /\ shutdownQueue' \in {shutdownQueue, 1}
         /\ pc'[h] = "left" => pc[h] \in {"idleCheck", "idleSend"}
         /\ pc[h] \in Departing => pc'[h] \in Departing \/ pc[h] \in {"idleCheck", "idleSend"}
<1> DEFINE Goal ==
         /\ \A g \in Conns : g # h => pc'[g] = pc[g] /\ port'[g] = port[g] /\ target'[g] = target[g]
         /\ daemon' = daemon /\ daemon # "stopped"
         /\ shutdownQueue' \in {shutdownQueue, 1}
         /\ pc'[h] = "left" => pc[h] \in {"idleCheck", "idleSend"}
         /\ pc[h] \in Departing => pc'[h] \in Departing \/ pc[h] \in {"idleCheck", "idleSend"}
<1>0. DOMAIN pc = Conns /\ DOMAIN port = Conns /\ DOMAIN target = Conns
  BY DEF IInv, TypeOK
<1>1. CASE Register(h)
  BY <1>1, <1>0 DEF Register, TearDown, Goto, Return, table, locals, main, Departing, InSession
<1>2. CASE OneShot(h)
  BY <1>2, <1>0 DEF OneShot, Goto, Return, table, locals, main, Departing, InSession
<1>3. CASE ReceiveShutdown(h)
  BY <1>3, <1>0 DEF ReceiveShutdown, Goto, Return, table, locals, main, Departing, InSession
<1>4. CASE Disconnect(h)
  BY <1>4, <1>0 DEF Disconnect, Goto, Return, table, locals, main, Departing, InSession
<1>5. CASE AckRegistration(h)
  BY <1>5, <1>0 DEF AckRegistration, Goto, Return, table, locals, main, Departing, InSession
<1>6. CASE Insert(h)
  BY <1>6, <1>0 DEF Insert, Goto, Return, table, locals, main, Departing, InSession
<1>7. CASE ForwardLimit(h)
  BY <1>7, <1>0 DEF ForwardLimit, Goto, Return, table, locals, main, Departing, InSession
<1>8. CASE ForwardReserve(h)
  BY <1>8, <1>0 DEF ForwardReserve, Goto, Return, table, locals, main, Departing, InSession
<1>9. CASE ForwardBind(h)
  BY <1>9, <1>0 DEF ForwardBind, Goto, Return, table, locals, main, Departing, InSession
<1>10. CASE ForwardRelease(h)
  BY <1>10, <1>0 DEF ForwardRelease, Goto, Return, table, locals, main, Departing, InSession
<1>11. CASE ForwardCommit(h)
  BY <1>11, <1>0 DEF ForwardCommit, Goto, Return, table, locals, main, Departing, InSession
<1>12. CASE ForwardGone(h)
  BY <1>12, <1>0 DEF ForwardGone, Goto, Return, table, locals, main, Departing, InSession
<1>13. CASE ForwardMap(h)
  BY <1>13, <1>0 DEF ForwardMap, Goto, Return, table, locals, main, Departing, InSession
<1>14. CASE UnforwardRemove(h)
  BY <1>14, <1>0 DEF UnforwardRemove, Goto, Return, table, locals, main, Departing, InSession
<1>15. CASE Cleanup(h)
  BY <1>15, <1>0 DEF Cleanup, TearDown, Goto, Return, table, locals, main, Departing, InSession
<1>16. CASE StopRemoved(h)
  BY <1>16, <1>0 DEF StopRemoved, AfterStop, Goto, Return, table, locals, main, Departing, InSession
<1>17. CASE Unmap(h)
  BY <1>17, <1>0 DEF Unmap, AfterUnmap, Goto, Return, table, locals, main, Departing, InSession
<1>18. CASE Drained(h)
  BY <1>18, <1>0 DEF Drained, AfterDrain, Goto, Return, table, locals, main, Departing, InSession
<1>19. CASE IdleCheck(h)
  BY <1>19, <1>0 DEF IdleCheck, Goto, Return, table, locals, main, Departing, InSession
<1>20. CASE IdleSend(h)
  BY <1>20, <1>0 DEF IdleSend, Goto, Return, table, locals, main, Departing, InSession
<1>21. ASSUME NEW p \in Ports, ReceiveForward(h, p) PROVE Goal
  BY <1>21, <1>0 DEF ReceiveForward, Receive, Goto, Return, table, locals, main, Departing, InSession
<1>22. ASSUME NEW p \in Ports, ReceiveUnforward(h, p) PROVE Goal
  BY <1>22, <1>0 DEF ReceiveUnforward, Receive, Goto, Return, table, locals, main, Departing, InSession
<1>23. ASSUME NEW p \in Ports, AdminUnforward(h, p) PROVE Goal
  BY <1>23, <1>0 DEF AdminUnforward, Goto, Return, table, locals, main, Departing, InSession
<1>24. QED
  BY <1>1, <1>2, <1>3, <1>4, <1>5, <1>6, <1>7, <1>8, <1>9, <1>10, <1>11, <1>12,
     <1>13, <1>14, <1>15, <1>16, <1>17, <1>18, <1>19, <1>20, <1>21, <1>22, <1>23 DEF Input, Work

LEMMA IdleInvStep ==
  ASSUME IInv, IdleInv, [Next]_vars
  PROVE  IdleInv'
<1> USE DEF IdleInv
<1>0. pc \in [Conns -> Labels] /\ owner \in [Cids -> Conns \cup {None}]
  BY DEF IInv, TypeOK
<1>1. ASSUME NEW h \in Conns, Input(h) \/ Work(h) PROVE IdleInv'
  <2>1. CASE IdleSend(h)
    BY <2>1 DEF IdleSend
  <2>2. CASE IdleCheck(h)
    <3>1. CASE ExitOnIdle /\ Registered = {}
      <4>1. pc'[h] = "idleSend"
        BY <1>0, <2>2, <3>1 DEF IdleCheck, Goto
      <4>2. QED
        BY <4>1 DEF Departing
    <3>2. CASE Registered # {}
      <4>1. PICK c \in Cids : owner[c] # None
        BY <3>2 DEF Registered
      <4>2. owner[c] \in Conns /\ pc[owner[c]] \in InSession
        BY <1>0, <4>1 DEF IInv, NoZombieRegistration
      <4>3. owner[c] # h
        BY <2>2, <4>2 DEF IdleCheck, InSession
      <4>4. pc'[owner[c]] \in Departing
        BY <1>1, <4>2, <4>3, TaskMoves DEF Departing
      <4>5. QED
        BY <4>2, <4>4
    <3>3. QED
      BY <3>1, <3>2
  <2>3. CASE ~IdleSend(h) /\ ~IdleCheck(h)
    <3>1. pc[h] \notin {"idleCheck", "idleSend"}
      BY <1>1, <2>3 DEF Input, Work, Register, OneShot, ReceiveShutdown, Disconnect, ReceiveForward,
         ReceiveUnforward, Receive, AdminUnforward, AckRegistration, Insert, ForwardLimit, ForwardReserve,
         ForwardBind, ForwardRelease, ForwardCommit, ForwardGone, ForwardMap, UnforwardRemove, Cleanup,
         StopRemoved, AfterStop, Unmap, AfterUnmap, Drained, AfterDrain
    <3>2. QED
      BY <1>1, <3>1, TaskMoves
  <2>4. QED
    BY <2>1, <2>2, <2>3
<1>2. CASE (\E l \in Sockets : CloseListener(l)) \/ MainStep \/ Signal \/ Stopped \/ UNCHANGED vars
  BY <1>2 DEF CloseListener, MainStep, TakeShutdown, DrainAll, Exit, Signal, Stopped, vars, main
<1>3. QED
  BY <1>1, <1>2 DEF Next

\* The exit-on-idle check of handle_control_connection: whichever connection is
\* the last, whether it owned its entry or had been superseded, the daemon has
\* been told to stop when none is in progress any more.
THEOREM IdleStops == Spec => []LastOneStopsDaemon
<1>1. Init => IdleInv
  BY DEF Init, IdleInv
<1>2. IInv /\ IdleInv /\ [Next]_vars => IdleInv'
  BY IdleInvStep
<1>3. IdleInv => LastOneStopsDaemon
  BY DEF IdleInv, LastOneStopsDaemon, Departing, InSession
<1>4. QED
  BY <1>1, <1>2, <1>3, Inductive, PTL DEF Spec
------------------------------------------------------------------------------
(* Host ports as leases *)

Settling == {"fwdBind", "fwdRelease", "fwdCommit"}
InForward == {"fwdStop", "fwdDrain", "fwdReserve"} \cup Settling

\* A step of task h that changes neither the table nor the reservations, and
\* does not begin a forward or a session.
Quiet(h) ==
  /\ UNCHANGED <<owner, forwards, used>>
  /\ pc'[h] \in Settling <=> pc[h] \in Settling
  /\ pc'[h] \in InForward => pc[h] \in InForward /\ port'[h] = port[h] /\ target'[h] = target[h]
  /\ pc'[h] \in InSession => pc[h] \in InSession

LEMMA QuietSteps ==
  ASSUME IInv, NEW h \in Conns,
         \/ OneShot(h) \/ ReceiveShutdown(h) \/ Disconnect(h) \/ AckRegistration(h) \/ ForwardBind(h)
         \/ ForwardGone(h) \/ ForwardMap(h) \/ StopRemoved(h) \/ Unmap(h) \/ Drained(h)
         \/ IdleCheck(h) \/ IdleSend(h)
         \/ \E p \in Ports : ReceiveForward(h, p) \/ ReceiveUnforward(h, p)
  PROVE  Quiet(h)
<1>0. DOMAIN pc = Conns /\ DOMAIN port = Conns /\ DOMAIN target = Conns
  BY DEF IInv, TypeOK
<1>1. CASE OneShot(h)
  BY <1>0, <1>1 DEF OneShot, Goto, Return, table, locals, main, Quiet, Settling, InForward, InSession
<1>2. CASE ReceiveShutdown(h)
  BY <1>0, <1>2 DEF ReceiveShutdown, Goto, Return, table, locals, main, Quiet, Settling, InForward, InSession
<1>3. CASE Disconnect(h)
  BY <1>0, <1>3 DEF Disconnect, Goto, Return, table, locals, main, Quiet, Settling, InForward, InSession
<1>4. CASE AckRegistration(h)
  BY <1>0, <1>4 DEF AckRegistration, Goto, Return, table, locals, main, Quiet, Settling, InForward, InSession
<1>5. CASE ForwardBind(h)
  BY <1>0, <1>5 DEF ForwardBind, Goto, Return, table, locals, main, Quiet, Settling, InForward, InSession
<1>6. CASE ForwardGone(h)
  BY <1>0, <1>6 DEF ForwardGone, Goto, Return, table, locals, main, Quiet, Settling, InForward, InSession
<1>7. CASE ForwardMap(h)
  BY <1>0, <1>7 DEF ForwardMap, Goto, Return, table, locals, main, Quiet, Settling, InForward, InSession
<1>8. CASE StopRemoved(h)
  BY <1>0, <1>8 DEF StopRemoved, AfterStop, Goto, Return, table, locals, main, Quiet, Settling, InForward, InSession
<1>9. CASE Unmap(h)
  BY <1>0, <1>9 DEF Unmap, AfterUnmap, Goto, Return, table, locals, main, Quiet, Settling, InForward, InSession
<1>10. CASE Drained(h)
  BY <1>0, <1>10 DEF Drained, AfterDrain, Goto, Return, table, locals, main, Quiet, Settling, InForward, InSession
<1>11. CASE IdleCheck(h)
  BY <1>0, <1>11 DEF IdleCheck, Goto, Return, table, locals, main, Quiet, Settling, InForward, InSession
<1>12. CASE IdleSend(h)
  BY <1>0, <1>12 DEF IdleSend, Goto, Return, table, locals, main, Quiet, Settling, InForward, InSession
<1>13. ASSUME NEW p \in Ports, ReceiveForward(h, p) PROVE Quiet(h)
  BY <1>0, <1>13 DEF ReceiveForward, Receive, Goto, Return, table, locals, main, Quiet, Settling, InForward, InSession
<1>14. ASSUME NEW p \in Ports, ReceiveUnforward(h, p) PROVE Quiet(h)
  BY <1>0, <1>14 DEF ReceiveUnforward, Receive, Goto, Return, table, locals, main, Quiet, Settling, InForward, InSession
<1>15. QED
  BY <1>1, <1>2, <1>3, <1>4, <1>5, <1>6, <1>7, <1>8, <1>9, <1>10, <1>11, <1>12, <1>13, <1>14

\* What the other actions do to the table.
TakesOut(h, c, p) ==
  /\ forwards[c][p] # None /\ Remove(c, p) /\ Release({forwards[c][p]}) /\ owner' = owner
  /\ pc[h] \notin Settling /\ pc'[h] \notin Settling
  /\ pc'[h] \in InSession => pc[h] \in InSession
  /\ pc'[h] \in InForward => pc[h] = "fwdLimit" /\ c = CidOf[h] /\ p = port[h] /\ port'[h] = port[h]
  /\ lock = None /\ lock' = None
TakesDown(h) ==
  /\ owner' = [owner EXCEPT ![CidOf[h]] = None]
  /\ Empty(CidOf[h]) /\ Release(Listeners(CidOf[h]))
  /\ pc[h] \notin Settling /\ pc'[h] \notin InForward \cup InSession
  /\ lock = None /\ lock' = None
BeginsForward(h) ==
  /\ UNCHANGED <<owner, forwards, used>>
  /\ pc[h] = "fwdLimit" /\ forwards[CidOf[h]][port[h]] = None
  /\ \/ pc'[h] = "serving"
     \/ /\ pc'[h] = "fwdReserve" /\ port'[h] = port[h]
        /\ ~(Cardinality(Forwarded(CidOf[h])) >= MaxForwards /\ owner[CidOf[h]] # None)
  /\ lock = None /\ lock' = None

\* Every other step of a task has one of these shapes or is an action of its own.
LEMMA TaskShapes ==
  ASSUME IInv, NEW h \in Conns, Input(h) \/ Work(h)
  PROVE  \/ Quiet(h)
         \/ \E c \in Cids, p \in Ports : TakesOut(h, c, p)
         \/ TakesDown(h) \/ BeginsForward(h)
         \/ Insert(h) \/ ForwardReserve(h) \/ ForwardRelease(h) \/ ForwardCommit(h)
<1> DEFINE Goal ==
         \/ Quiet(h)
         \/ \E c \in Cids, p \in Ports : TakesOut(h, c, p)
         \/ TakesDown(h) \/ BeginsForward(h)
         \/ Insert(h) \/ ForwardReserve(h) \/ ForwardRelease(h) \/ ForwardCommit(h)
<1>0. DOMAIN pc = Conns /\ DOMAIN port = Conns /\ DOMAIN target = Conns /\ CidOf[h] \in Cids
  BY ConstantFacts DEF IInv, TypeOK
<1>1. CASE Register(h)
  <2>1. CASE owner[CidOf[h]] = None
    BY <1>0, <1>1, <2>1 DEF Register, Goto, table, Quiet, Settling, InForward, InSession
  <2>2. CASE owner[CidOf[h]] # None
    BY <1>0, <1>1, <2>2 DEF Register, TearDown, Goto, TakesDown, Settling, InForward, InSession
  <2>3. QED
    BY <2>1, <2>2
<1>2. CASE Cleanup(h)
  <2>1. CASE owner[CidOf[h]] # h
    BY <1>0, <1>2, <2>1 DEF Cleanup, Goto, table, Quiet, Settling, InForward, InSession
  <2>2. CASE owner[CidOf[h]] = h
    BY <1>0, <1>2, <2>2 DEF Cleanup, TearDown, Goto, TakesDown, Settling, InForward, InSession
  <2>3. QED
    BY <2>1, <2>2
<1>3. CASE ForwardLimit(h)
  <2>0. port[h] \in Ports
    BY <1>3 DEF IInv, LocalsInv, ForwardLimit
  <2>1. CASE forwards[CidOf[h]][port[h]] # None
    BY <1>0, <1>3, <2>0, <2>1 DEF ForwardLimit, Goto, TakesOut, Settling, InForward, InSession
  <2>2. CASE forwards[CidOf[h]][port[h]] = None
    BY <1>0, <1>3, <2>2 DEF ForwardLimit, Goto, Return, BeginsForward
  <2>3. QED
    BY <2>1, <2>2
<1>4. CASE UnforwardRemove(h)
  <2>0. port[h] \in Ports
    BY <1>4 DEF IInv, LocalsInv, UnforwardRemove
  <2>1. CASE forwards[CidOf[h]][port[h]] # None
    <3>1. {forwards[CidOf[h]][port[h]]} \ {None} = {forwards[CidOf[h]][port[h]]}
      BY <2>1
    <3>2. TakesOut(h, CidOf[h], port[h])
      BY <1>0, <1>4, <2>1, <3>1 DEF UnforwardRemove, Goto, TakesOut, Settling, InForward, InSession
    <3>3. QED
      BY <1>0, <2>0, <3>2
  <2>2. CASE forwards[CidOf[h]][port[h]] = None
    <3>1. {forwards[CidOf[h]][port[h]]} \ {None} = {}
      BY <2>2
    <3>2. Release({}) => used' = used
      BY DEF Release, IInv, TypeOK
    <3>3. Remove(CidOf[h], port[h]) => forwards' = forwards
      BY <1>0, <2>0, <2>2, SMTT(30) DEF Remove, IInv, TypeOK
    <3>4. QED
      BY <1>0, <1>4, <3>1, <3>2, <3>3 DEF UnforwardRemove, Goto, Quiet, Settling, InForward, InSession
  <2>3. QED
    BY <2>1, <2>2
<1>5. ASSUME NEW p \in Ports, AdminUnforward(h, p) PROVE Goal
  <2>1. CASE \A c \in Cids : forwards[c][p] = None
    BY <1>0, <1>5, <2>1 DEF AdminUnforward, Goto, Quiet, Settling, InForward, InSession
  <2>2. ASSUME NEW c \in Cids, forwards[c][p] # None, Remove(c, p), Release({forwards[c][p]}), Goto(h, "admUnmap")
        PROVE  TakesOut(h, c, p)
    BY <1>0, <1>5, <2>2 DEF AdminUnforward, Goto, TakesOut, Settling, InForward, InSession
  <2>3. QED
    BY <1>5, <2>1, <2>2 DEF AdminUnforward
<1>6. QED
  BY <1>1, <1>2, <1>3, <1>4, <1>5, QuietSteps DEF Input, Work

Claimed(q) ==
  \/ \E c \in Cids, p \in Ports : forwards[c][p] # None /\ forwards[c][p][1] = q
  \/ \E h \in Reserving : target[h] = q
Tabled(q) == {x \in Cids \X Ports : forwards[x[1]][x[2]] \in {<<q, "v4">>, <<q, "v6">>}}
Coming(q) == {<<CidOf[h], port[h]>> : h \in {g \in Reserving : target[g] = q}}

LEMMA LeaseCases ==
  ASSUME NEW q
  PROVE  /\ Tabled(q) # {} => LeaseOf(q) \in Tabled(q)
         /\ Tabled(q) = {} /\ Coming(q) # {} => LeaseOf(q) \in Coming(q)
         /\ Tabled(q) = {} /\ Coming(q) = {} => LeaseOf(q) = None
BY DEF LeaseOf, Tabled, Coming

\* A port's lease is its tabled forward, or the one being set up, or nobody's.
LEMMA LeaseFacts ==
  IInv => \A q \in HostPorts :
    /\ \A c \in Cids, p \in Ports :
         forwards[c][p] # None /\ forwards[c][p][1] = q => LeaseOf(q) = <<c, p>>
    /\ lock # Main => \A h \in Reserving : target[h] = q => LeaseOf(q) = <<CidOf[h], port[h]>>
    /\ Claimed(q) <=> LeaseOf(q) # None
    /\ LeaseOf(q) \in (Cids \X Ports) \cup {None}
<1> SUFFICES ASSUME IInv, NEW q \in HostPorts
             PROVE  /\ \A c \in Cids, p \in Ports :
                         forwards[c][p] # None /\ forwards[c][p][1] = q => LeaseOf(q) = <<c, p>>
                    /\ lock # Main => \A h \in Reserving : target[h] = q => LeaseOf(q) = <<CidOf[h], port[h]>>
                    /\ Claimed(q) <=> LeaseOf(q) # None
                    /\ LeaseOf(q) \in (Cids \X Ports) \cup {None}
  OBVIOUS
<1>1. \A c \in Cids, p \in Ports : forwards[c][p] \in Sockets \cup {None}
  BY DEF IInv, TypeOK
<1>2. \A c \in Cids, p \in Ports :
        forwards[c][p] \in {<<q, "v4">>, <<q, "v6">>} <=> forwards[c][p] # None /\ forwards[c][p][1] = q
  <2>1. \A l \in Sockets : l \in {<<q, "v4">>, <<q, "v6">>} <=> l[1] = q
    BY DEF Sockets
  <2>2. None \notin {<<q, "v4">>, <<q, "v6">>}
    BY ConstantFacts, SocketFacts
  <2>3. QED
    BY <1>1, <2>1, <2>2
<1>3. \A h \in Reserving : h \in Conns /\ CidOf[h] \in Cids /\ port[h] \in Ports
  BY ConstantFacts DEF Reserving, IInv, LocalsInv
<1>4. \A c \in Cids, p \in Ports : <<c, p>> \in Tabled(q) <=> forwards[c][p] # None /\ forwards[c][p][1] = q
  BY <1>2 DEF Tabled
<1>5. \A x \in Tabled(q) : x \in Cids \X Ports /\ x = <<x[1], x[2]>>
  BY DEF Tabled
<1>6. \A x \in Coming(q) : \E h \in Reserving : target[h] = q /\ x = <<CidOf[h], port[h]>>
  BY DEF Coming
<1>7. None \notin Cids \X Ports
  BY RegistryAssumption
<1>8. ASSUME NEW c \in Cids, NEW p \in Ports, forwards[c][p] # None, forwards[c][p][1] = q
      PROVE  LeaseOf(q) = <<c, p>>
  <2>1. LeaseOf(q) \in Tabled(q)
    BY <1>4, <1>8, LeaseCases
  <2>2. PICK d \in Cids, r \in Ports : LeaseOf(q) = <<d, r>>
    BY <1>5, <2>1
  <2>3. d = c /\ r = p
    BY <1>4, <1>8, <2>1, <2>2 DEF IInv, ClaimsInv, TableInv
  <2>4. QED
    BY <2>2, <2>3
<1>9. ASSUME lock # Main, NEW h \in Reserving, target[h] = q
      PROVE  LeaseOf(q) = <<CidOf[h], port[h]>>
  <2>1. \A c \in Cids, p \in Ports : forwards[c][p] # None => forwards[c][p][1] # q
    BY <1>9 DEF IInv, ClaimsInv, ReserveInv
  <2>2. Tabled(q) = {}
    BY <1>4, <1>5, <2>1
  <2>3. <<CidOf[h], port[h]>> \in Coming(q)
    BY <1>9 DEF Coming
  <2>4. PICK g \in Reserving : target[g] = q /\ LeaseOf(q) = <<CidOf[g], port[g]>>
    BY <1>6, <2>2, <2>3, LeaseCases
  <2>5. g = h
    BY <1>9, <2>4 DEF IInv, ClaimsInv, ReserveInv
  <2>6. QED
    BY <2>4, <2>5
<1>10. LeaseOf(q) # None => Claimed(q)
  <2>1. CASE Tabled(q) # {}
    <3>1. PICK c \in Cids, p \in Ports : <<c, p>> \in Tabled(q)
      BY <1>5, <2>1
    <3>2. QED
      BY <1>4, <3>1 DEF Claimed
  <2>2. CASE Coming(q) # {}
    BY <1>6, <2>2 DEF Claimed
  <2>3. QED
    BY <2>1, <2>2, LeaseCases
<1>11. LeaseOf(q) \in (Cids \X Ports) \cup {None}
  <2>1. Coming(q) \subseteq Cids \X Ports
    BY <1>3, <1>6
  <2>2. QED
    BY <1>5, <2>1, LeaseCases
<1>12. Claimed(q) => LeaseOf(q) # None
  <2>1. CASE Tabled(q) # {}
    BY <1>5, <1>7, <2>1, LeaseCases
  <2>2. CASE Tabled(q) = {} /\ Coming(q) # {}
    <3>1. LeaseOf(q) \in Coming(q)
      BY <2>2, LeaseCases
    <3>2. PICK h \in Reserving : LeaseOf(q) = <<CidOf[h], port[h]>>
      BY <1>6, <3>1
    <3>3. QED
      BY <1>3, <1>7, <3>2
  <2>3. CASE Tabled(q) = {} /\ Coming(q) = {}
    <3>1. \A c \in Cids, p \in Ports : ~(forwards[c][p] # None /\ forwards[c][p][1] = q)
      BY <1>4, <2>3
    <3>2. \A h \in Reserving : target[h] # q
      BY <2>3 DEF Coming
    <3>3. QED
      BY <3>1, <3>2 DEF Claimed
  <2>4. QED
    BY <2>1, <2>2, <2>3
<1>13. QED
  BY <1>8, <1>9, <1>10, <1>11, <1>12

LEMMA LeaseFactsNext ==
  (IInv => \A q \in HostPorts :
    /\ \A c \in Cids, p \in Ports :
         forwards[c][p] # None /\ forwards[c][p][1] = q => LeaseOf(q) = <<c, p>>
    /\ lock # Main => \A h \in Reserving : target[h] = q => LeaseOf(q) = <<CidOf[h], port[h]>>
    /\ Claimed(q) <=> LeaseOf(q) # None
    /\ LeaseOf(q) \in (Cids \X Ports) \cup {None})'
BY LeaseFacts, PTL

\* A step after which every claim on a port is one that was there before.
GivesBack ==
  /\ \A c \in Cids, p \in Ports : forwards'[c][p] # None =>
       \/ forwards'[c][p] = forwards[c][p]
       \/ \E h \in Reserving : CidOf[h] = c /\ port[h] = p /\ target[h] = forwards'[c][p][1]
  /\ \A h \in Conns : pc'[h] \in Settling =>
       pc[h] \in Settling /\ port'[h] = port[h] /\ target'[h] = target[h]

LEMMA GivesBackStep ==
  ASSUME IInv, IInv', lock # Main, lock' # Main, GivesBack, NEW q \in HostPorts
  PROVE  LeaseOf(q)' \in {LeaseOf(q), None}
<1>0. \A h \in Conns : h \in Reserving <=> pc[h] \in Settling
  BY DEF Reserving, Settling
<1>1. \A h \in Conns : h \in Reserving' <=> pc'[h] \in Settling
  BY DEF Reserving, Settling
<1>2. CASE ~Claimed(q)'
  BY <1>2, LeaseFactsNext
<1>3. ASSUME NEW c \in Cids, NEW p \in Ports, forwards'[c][p] # None, forwards'[c][p][1] = q
      PROVE  LeaseOf(q)' = LeaseOf(q)
  <2>1. LeaseOf(q)' = <<c, p>>
    BY <1>3, LeaseFactsNext
  <2>2. LeaseOf(q) = <<c, p>>
    BY <1>3, LeaseFacts DEF GivesBack
  <2>3. QED
    BY <2>1, <2>2
<1>4. ASSUME NEW h \in Conns, pc'[h] \in Settling, target'[h] = q
      PROVE  LeaseOf(q)' = LeaseOf(q)
  <2>1. h \in Reserving /\ port'[h] = port[h] /\ target[h] = q
    BY <1>0, <1>4 DEF GivesBack
  <2>2. LeaseOf(q)' = <<CidOf[h], port'[h]>>
    BY <1>1, <1>4, LeaseFactsNext
  <2>3. LeaseOf(q) = <<CidOf[h], port[h]>>
    BY <2>1, LeaseFacts
  <2>4. QED
    BY <2>1, <2>2, <2>3
<1>5. QED
  BY <1>1, <1>2, <1>3, <1>4 DEF Claimed, Reserving

\* A step that leaves all claims alone, also when run() has the lock for good.
LEMMA LeaseSame ==
  ASSUME forwards' = forwards,
         \A h \in Conns : pc'[h] \in Settling <=> pc[h] \in Settling,
         \A h \in Conns : pc[h] \in Settling => port'[h] = port[h] /\ target'[h] = target[h],
         NEW q
  PROVE  LeaseOf(q)' = LeaseOf(q)
<1>1. Reserving' = Reserving /\ \A h \in Reserving : port'[h] = port[h] /\ target'[h] = target[h]
  BY DEF Reserving, Settling
<1>2. Tabled(q)' = Tabled(q)
  BY DEF Tabled
<1>3. Coming(q)' = Coming(q)
  BY <1>1 DEF Coming
<1>4. LeaseOf(q) = IF Tabled(q) # {} THEN CHOOSE x \in Tabled(q) : TRUE
                   ELSE IF Coming(q) # {} THEN CHOOSE x \in Coming(q) : TRUE ELSE None
  BY DEF LeaseOf, Tabled, Coming
<1>5. LeaseOf(q)' = IF Tabled(q)' # {} THEN CHOOSE x \in Tabled(q)' : TRUE
                    ELSE IF Coming(q)' # {} THEN CHOOSE x \in Coming(q)' : TRUE ELSE None
  BY DEF LeaseOf, Tabled, Coming
<1>6. QED
  BY <1>2, <1>3, <1>4, <1>5

\* Only a successful reservation makes a new claim.
LEMMA TaskGivesBack ==
  ASSUME IInv, NEW h \in Conns, Input(h) \/ Work(h), ~Quiet(h), ~ForwardReserve(h)
  PROVE  GivesBack /\ lock # Main /\ lock' # Main
<1>0. /\ forwards \in [Cids -> [Ports -> Sockets \cup {None}]] /\ CidOf[h] \in Cids
      /\ DOMAIN pc = Conns /\ Main # None /\ h # Main
      /\ \A g \in Conns : g # h => pc'[g] = pc[g] /\ port'[g] = port[g] /\ target'[g] = target[g]
  BY TaskMoves, ConstantFacts DEF IInv, TypeOK
<1>1. ASSUME NEW c \in Cids, NEW p \in Ports, TakesOut(h, c, p) PROVE GivesBack /\ lock # Main /\ lock' # Main
  BY <1>0, <1>1 DEF TakesOut, Remove, GivesBack
<1>2. CASE TakesDown(h)
  BY <1>0, <1>2 DEF TakesDown, Empty, GivesBack, InForward
<1>3. CASE BeginsForward(h)
  BY <1>0, <1>3 DEF BeginsForward, GivesBack, Settling
<1>4. CASE Insert(h)
  BY <1>0, <1>4 DEF Insert, Goto, Empty, GivesBack, Settling
<1>5. CASE ForwardRelease(h)
  BY <1>0, <1>5 DEF ForwardRelease, Goto, Return, GivesBack, Settling
<1>6. CASE ForwardCommit(h)
  <2>1. h \in Reserving /\ lsock[h][1] = target[h] /\ port[h] \in Ports
    BY <1>6 DEF ForwardCommit, Reserving, IInv, LocalsInv, ClaimsInv, BoundInv
  <2>2. pc'[h] \notin Settling /\ lock = None /\ lock' \in {None, h}
    BY <1>0, <1>6 DEF ForwardCommit, Goto, Settling
  <2>3. \A c \in Cids, p \in Ports :
          forwards'[c][p] = forwards[c][p] \/ (c = CidOf[h] /\ p = port[h] /\ forwards'[c][p] = lsock[h])
    BY <1>0, <1>6, <2>1 DEF ForwardCommit
  <2>4. QED
    BY <1>0, <2>1, <2>2, <2>3 DEF GivesBack
<1>7. QED
  BY <1>1, <1>2, <1>3, <1>4, <1>5, <1>6, TaskShapes

LEMMA ReserveAcquires ==
  ASSUME IInv, IInv', NEW h \in Conns, ForwardReserve(h)
  PROVE  \/ \A q \in HostPorts : LeaseOf(q)' \in {LeaseOf(q), None}
         \/ \E q \in HostPorts, x \in Cids \X Ports :
              /\ LeaseOf(q) = None /\ LeaseOf(q)' = x
              /\ \A r \in HostPorts \ {q} : LeaseOf(r)' = LeaseOf(r)
<1>0. /\ DOMAIN pc = Conns /\ DOMAIN target = Conns /\ DOMAIN port = Conns /\ DOMAIN used = HostPorts
      /\ None # Main /\ CidOf[h] \in Cids /\ CidOf[h] # None
  BY ConstantFacts DEF IInv, TypeOK
<1>1. PICK q \in FindAvailablePort({r \in HostPorts : used[r] # None}, port[h]) :
        IF q = NoPort
        THEN Return(h) /\ UNCHANGED used
        ELSE /\ used' = [used EXCEPT ![q] = CidOf[h]]
             /\ target' = [target EXCEPT ![h] = q]
             /\ Goto(h, "fwdBind") /\ UNCHANGED port
  BY DEF ForwardReserve
<1>2. pc[h] = "fwdReserve" /\ lock = None /\ lock' = None /\ forwards' = forwards /\ port[h] \in Ports
  BY DEF ForwardReserve, IInv, LocalsInv
<1>3. CASE q = NoPort
  <2>1. GivesBack
    BY <1>0, <1>1, <1>2, <1>3 DEF Return, Goto, GivesBack, Settling
  <2>2. QED
    BY <1>0, <1>2, <2>1, GivesBackStep
<1>4. CASE q # NoPort
  <2>1. q \in HostPorts /\ used[q] = None
    BY <1>2, <1>4, FindAvailableFacts, ConstantFacts
  <2>2. \A g \in Conns : /\ pc'[g] = IF g = h THEN "fwdBind" ELSE pc[g]
                         /\ target'[g] = IF g = h THEN q ELSE target[g]
                         /\ port'[g] = port[g]
    BY <1>0, <1>1, <1>4 DEF Goto
  <2>3. ~Claimed(q)
    <3>1. \A c \in Cids, p \in Ports : forwards[c][p] # None => forwards[c][p][1] # q
      BY <2>1, ConstantFacts DEF IInv, ClaimsInv, ForwardIsServed
    <3>2. \A g \in Reserving : target[g] # q
      BY <1>0, <1>2, <2>1, ConstantFacts DEF IInv, ClaimsInv, ReserveInv, Reserving
    <3>3. QED
      BY <3>1, <3>2 DEF Claimed
  <2>4. LeaseOf(q) = None
    BY <2>1, <2>3, LeaseFacts
  <2>5. h \in Reserving' /\ target'[h] = q
    BY <2>2 DEF Reserving
  <2>6. LeaseOf(q)' = <<CidOf[h], port[h]>>
    BY <1>0, <1>2, <2>1, <2>2, <2>5, LeaseFactsNext
  <2>7. ASSUME NEW r \in HostPorts, r # q PROVE LeaseOf(r)' = LeaseOf(r)
    <3>1. CASE \E c \in Cids, p \in Ports : forwards[c][p] # None /\ forwards[c][p][1] = r
      BY <1>2, <3>1, LeaseFacts, LeaseFactsNext
    <3>2. CASE \E g \in Reserving : target[g] = r
      <4>1. PICK g \in Reserving : target[g] = r
        BY <3>2
      <4>2. g \in Conns /\ g # h /\ g \in Reserving' /\ target'[g] = r /\ port'[g] = port[g]
        BY <1>2, <2>2, <4>1 DEF Reserving
      <4>3. LeaseOf(r)' = <<CidOf[g], port'[g]>>
        BY <1>0, <1>2, <4>2, LeaseFactsNext
      <4>4. LeaseOf(r) = <<CidOf[g], port[g]>>
        BY <1>0, <1>2, <4>1, LeaseFacts
      <4>5. QED
        BY <4>2, <4>3, <4>4
    <3>3. CASE ~Claimed(r)
      <4>1. ~Claimed(r)'
        BY <1>2, <2>2, <2>7, <3>3 DEF Claimed, Reserving
      <4>2. QED
        BY <3>3, <4>1, LeaseFacts, LeaseFactsNext
    <3>4. QED
      BY <3>1, <3>2, <3>3 DEF Claimed
  <2>8. QED
    BY <1>0, <1>2, <2>1, <2>4, <2>6, <2>7
<1>5. QED
  BY <1>3, <1>4

LEMMA DrainAllGivesBack ==
  ASSUME IInv, IInv', DrainAll, NEW q \in HostPorts
  PROVE  LeaseOf(q)' \in {LeaseOf(q), None}
<1>0. lock = None /\ None # Main /\ pc' = pc /\ target' = target /\ port' = port
      /\ \A c \in Cids, p \in Ports : forwards'[c][p] = None
  BY ConstantFacts DEF DrainAll, locals
<1>1. Tabled(q)' = {} /\ Coming(q)' = Coming(q)
  <2>1. \A x \in Cids \X Ports : forwards'[x[1]][x[2]] = None
    BY <1>0
  <2>2. None \notin {<<q, "v4">>, <<q, "v6">>}
    BY ConstantFacts, SocketFacts
  <2>3. Tabled(q)' = {}
    BY <2>1, <2>2 DEF Tabled
  <2>4. QED
    BY <1>0, <2>3 DEF Coming, Reserving
<1>2. CASE Coming(q) = {}
  <2>1. LeaseOf(q)' = None
    BY <1>1, <1>2 DEF LeaseOf, Tabled, Coming
  <2>2. QED
    BY <2>1
<1>3. CASE Coming(q) # {}
  <2>1. PICK h \in Reserving : target[h] = q
    BY <1>3 DEF Coming
  <2>2. \A c \in Cids, p \in Ports : forwards[c][p] # None => forwards[c][p][1] # q
    BY <1>0, <2>1 DEF IInv, ClaimsInv, ReserveInv
  <2>a. \A l \in {<<q, "v4">>, <<q, "v6">>} : l # None /\ l[1] = q
    BY ConstantFacts, SocketFacts
  <2>3. \A c \in Cids, p \in Ports : forwards[c][p] \notin {<<q, "v4">>, <<q, "v6">>}
    BY <2>2, <2>a
  <2>4. Tabled(q) = {}
    BY <2>3 DEF Tabled
  <2>5. LeaseOf(q) = CHOOSE x \in Coming(q) : TRUE
    BY <1>3, <2>4 DEF LeaseOf, Tabled, Coming
  <2>6. LeaseOf(q)' = CHOOSE x \in Coming(q)' : TRUE
    BY <1>1, <1>3 DEF LeaseOf, Tabled, Coming
  <2>7. QED
    BY <1>1, <2>5, <2>6
<1>4. QED
  BY <1>2, <1>3

LEMMA LeaseStep ==
  ASSUME IInv, IInv', [Next]_vars
  PROVE  \/ \A q \in HostPorts : LeaseOf(q)' \in {LeaseOf(q), None}
         \/ \E q \in HostPorts, x \in Cids \X Ports :
              /\ LeaseOf(q) = None /\ LeaseOf(q)' = x
              /\ \A r \in HostPorts \ {q} : LeaseOf(r)' = LeaseOf(r)
<1> DEFINE Goal ==
         \/ \A q \in HostPorts : LeaseOf(q)' \in {LeaseOf(q), None}
         \/ \E q \in HostPorts, x \in Cids \X Ports :
              /\ LeaseOf(q) = None /\ LeaseOf(q)' = x
              /\ \A r \in HostPorts \ {q} : LeaseOf(r)' = LeaseOf(r)
<1>1. ASSUME NEW h \in Conns, Input(h) \/ Work(h) PROVE Goal
  <2>1. CASE ForwardReserve(h)
    BY <2>1, ReserveAcquires
  <2>2. CASE Quiet(h)
    <3>1. /\ forwards' = forwards
          /\ \A g \in Conns : pc'[g] \in Settling <=> pc[g] \in Settling
          /\ \A g \in Conns : pc[g] \in Settling => port'[g] = port[g] /\ target'[g] = target[g]
      BY <1>1, <2>2, TaskMoves DEF Quiet, InForward
    <3>2. \A q \in HostPorts : LeaseOf(q)' = LeaseOf(q)
      BY <3>1, LeaseSame
    <3>3. QED
      BY <3>2
  <2>3. CASE ~Quiet(h) /\ ~ForwardReserve(h)
    BY <1>1, <2>3, TaskGivesBack, GivesBackStep
  <2>4. QED
    BY <2>1, <2>2, <2>3
<1>2. CASE DrainAll
  BY <1>2, DrainAllGivesBack
<1>3. CASE (\E l \in Sockets : CloseListener(l)) \/ TakeShutdown \/ Exit \/ Signal \/ Stopped \/ UNCHANGED vars
  <2>1. UNCHANGED <<forwards, pc, port, target>>
    BY <1>3 DEF CloseListener, TakeShutdown, Exit, Signal, Stopped, vars, table, locals
  <2>2. \A q \in HostPorts : LeaseOf(q)' = LeaseOf(q)
    BY <2>1, LeaseSame
  <2>3. QED
    BY <2>2
<1>4. QED
  BY <1>1, <1>2, <1>3 DEF Next, MainStep

\* The registry implements PortLease, with any number of connections per
\* container: whatever the tasks of handle_forward, the teardowns and shutdown
\* do between their critical sections, a host port goes from one forward to
\* another only by being free in between.
THEOREM LeasesRefined == Spec => LeaseRefinement
<1>1. Init => Lease!Init
  <2>1. SUFFICES ASSUME Init, NEW q \in HostPorts PROVE LeaseOf(q) = None
    BY DEF Lease!Init
  <2>2. IInv
    BY <2>1, InitEstablishes
  <2>3. ~Claimed(q)
    BY <2>1 DEF Init, Claimed, Reserving
  <2>4. QED
    BY <2>2, <2>3, LeaseFacts
<1>2. IInv /\ IInv' /\ [Next]_vars => [Lease!Next]_(([q \in HostPorts |-> LeaseOf(q)]))
  <2> DEFINE L == [q \in HostPorts |-> LeaseOf(q)]
  <2>1. SUFFICES ASSUME IInv, IInv', [Next]_vars PROVE Lease!Next
    OBVIOUS
  <2>2. CASE \A q \in HostPorts : LeaseOf(q)' \in {LeaseOf(q), None}
    <3>1. \A q \in HostPorts : LeaseOf(q)' \in (Cids \X Ports) \cup {None}
      BY <2>1, LeaseFactsNext
    <3>2. Lease!GiveBack
      BY <2>2, <3>1 DEF Lease!GiveBack
    <3>3. QED
      BY <3>2 DEF Lease!Next
  <2>3. ASSUME NEW q \in HostPorts, NEW x \in Cids \X Ports, LeaseOf(q) = None, LeaseOf(q)' = x,
               \A r \in HostPorts \ {q} : LeaseOf(r)' = LeaseOf(r)
        PROVE  Lease!Next
    <3>1. L' = [L EXCEPT ![q] = x]
      BY <2>3
    <3>2. Lease!Acquire(q)
      BY <2>3, <3>1 DEF Lease!Acquire
    <3>3. QED
      BY <3>2 DEF Lease!Next
  <2>4. QED
    BY <2>1, <2>2, <2>3, LeaseStep
<1>3. QED
  BY <1>1, <1>2, Inductive, PTL DEF Spec, LeaseRefinement, Lease!Spec
------------------------------------------------------------------------------
(* One connection per container *)

Solo == \A g, h \in Conns : CidOf[g] = CidOf[h] => g = h

\* Until run() takes the lock for good, a session owns its container's entry.
OwnEntry == lock # Main => \A h \in Conns : pc[h] \in InSession => owner[CidOf[h]] = h
\* handle_forward tables nothing over an existing forward, and has room for one.
NotYet == \A h \in Conns : pc[h] \in InForward => forwards[CidOf[h]][port[h]] = None
Room ==
  lock # Main =>
    \A h \in Conns : pc[h] \in InForward => Cardinality(Forwarded(CidOf[h])) < MaxForwards
Accounted == \A q \in HostPorts : used[q] # None => Claimed(q)

SoloInv == OwnEntry /\ NotYet /\ Accounted /\ Room /\ ForwardLimitHolds

\* run() never gives the lock back.
LEMMA LockKept ==
  ASSUME IInv, NEW h \in Conns, Input(h) \/ Work(h), lock = Main
  PROVE  lock' = Main
<1> DEFINE Goal == lock' = Main
<1>0. Main # None /\ h # Main /\ (pc[h] \in {"fwdGone", "idleSend"} => lock = h)
  BY ConstantFacts DEF IInv, LockInv
<1>1. CASE Register(h)
  BY <1>1, <1>0 DEF Register, TearDown, Goto, Return, table, locals, main
<1>2. CASE OneShot(h)
  BY <1>2, <1>0 DEF OneShot, Goto, Return, table, locals, main, TearDown
<1>3. CASE ReceiveShutdown(h)
  BY <1>3, <1>0 DEF ReceiveShutdown, Goto, Return, table, locals, main, TearDown
<1>4. CASE Disconnect(h)
  BY <1>4, <1>0 DEF Disconnect, Goto, Return, table, locals, main, TearDown
<1>5. CASE AckRegistration(h)
  BY <1>5, <1>0 DEF AckRegistration, Goto, Return, table, locals, main, TearDown
<1>6. CASE Insert(h)
  BY <1>6, <1>0 DEF Insert, Goto, Return, table, locals, main, TearDown
<1>7. CASE ForwardLimit(h)
  BY <1>7, <1>0 DEF ForwardLimit, Goto, Return, table, locals, main, TearDown
<1>8. CASE ForwardReserve(h)
  BY <1>8, <1>0 DEF ForwardReserve, Goto, Return, table, locals, main, TearDown
<1>9. CASE ForwardBind(h)
  BY <1>9, <1>0 DEF ForwardBind, Goto, Return, table, locals, main, TearDown
<1>10. CASE ForwardRelease(h)
  BY <1>10, <1>0 DEF ForwardRelease, Goto, Return, table, locals, main, TearDown
<1>11. CASE ForwardCommit(h)
  BY <1>11, <1>0 DEF ForwardCommit, Goto, Return, table, locals, main, TearDown
<1>12. CASE ForwardGone(h)
  BY <1>12, <1>0 DEF ForwardGone, Goto, Return, table, locals, main, TearDown
<1>13. CASE ForwardMap(h)
  BY <1>13, <1>0 DEF ForwardMap, Goto, Return, table, locals, main, TearDown
<1>14. CASE UnforwardRemove(h)
  BY <1>14, <1>0 DEF UnforwardRemove, Goto, Return, table, locals, main, TearDown
<1>15. CASE Cleanup(h)
  BY <1>15, <1>0 DEF Cleanup, TearDown, Goto, Return, table, locals, main
<1>16. CASE StopRemoved(h)
  BY <1>16, <1>0 DEF StopRemoved, AfterStop, Goto, Return, table, locals, main, TearDown
<1>17. CASE Unmap(h)
  BY <1>17, <1>0 DEF Unmap, AfterUnmap, Goto, Return, table, locals, main, TearDown
<1>18. CASE Drained(h)
  BY <1>18, <1>0 DEF Drained, AfterDrain, Goto, Return, table, locals, main, TearDown
<1>19. CASE IdleCheck(h)
  BY <1>19, <1>0 DEF IdleCheck, Goto, Return, table, locals, main, TearDown
<1>20. CASE IdleSend(h)
  BY <1>20, <1>0 DEF IdleSend, Goto, Return, table, locals, main, TearDown
<1>21. ASSUME NEW p \in Ports, ReceiveForward(h, p) PROVE Goal
  BY <1>21, <1>0 DEF ReceiveForward, Receive, Goto, Return, table, locals, main, TearDown
<1>22. ASSUME NEW p \in Ports, ReceiveUnforward(h, p) PROVE Goal
  BY <1>22, <1>0 DEF ReceiveUnforward, Receive, Goto, Return, table, locals, main, TearDown
<1>23. ASSUME NEW p \in Ports, AdminUnforward(h, p) PROVE Goal
  BY <1>23, <1>0 DEF AdminUnforward, Goto, Return, table, locals, main, TearDown
<1>24. QED
  BY <1>1, <1>2, <1>3, <1>4, <1>5, <1>6, <1>7, <1>8, <1>9, <1>10, <1>11, <1>12,
     <1>13, <1>14, <1>15, <1>16, <1>17, <1>18, <1>19, <1>20, <1>21, <1>22, <1>23 DEF Input, Work

LEMMA OwnEntryStep ==
  ASSUME Solo, IInv, SoloInv, NEW h \in Conns, Input(h) \/ Work(h)
  PROVE  OwnEntry'
<1>1. SUFFICES ASSUME lock' # Main, NEW g \in Conns, pc'[g] \in InSession PROVE owner'[CidOf[g]] = g
  BY DEF OwnEntry
<1>2. lock # Main /\ (\A k \in Conns : pc[k] \in InSession => owner[CidOf[k]] = k)
  BY <1>1, LockKept DEF SoloInv, OwnEntry
<1>3. /\ g # h => pc[g] \in InSession /\ CidOf[g] # CidOf[h]
      /\ DOMAIN owner = Cids /\ DOMAIN pc = Conns /\ CidOf[g] \in Cids /\ CidOf[h] \in Cids
  BY <1>1, TaskMoves, ConstantFacts DEF Solo, IInv, TypeOK
<1>4. CASE Quiet(h)
  BY <1>1, <1>2, <1>3, <1>4 DEF Quiet
<1>5. ASSUME NEW c \in Cids, NEW p \in Ports, TakesOut(h, c, p) PROVE owner'[CidOf[g]] = g
  BY <1>1, <1>2, <1>3, <1>5 DEF TakesOut
<1>6. CASE TakesDown(h)
  BY <1>1, <1>2, <1>3, <1>6 DEF TakesDown
<1>7. CASE BeginsForward(h)
  BY <1>1, <1>2, <1>3, <1>7 DEF BeginsForward, InSession
<1>8. CASE Insert(h)
  BY <1>1, <1>2, <1>3, <1>8 DEF Insert
<1>9. CASE ForwardReserve(h) \/ ForwardRelease(h) \/ ForwardCommit(h)
  BY <1>1, <1>2, <1>3, <1>9 DEF ForwardReserve, ForwardRelease, ForwardCommit, InSession
<1>10. QED
  BY <1>4, <1>5, <1>6, <1>7, <1>8, <1>9, TaskShapes

\* Only ForwardCommit adds to the table, and only for its own container.
LEMMA TableShrinks ==
  ASSUME IInv, NEW h \in Conns, Input(h) \/ Work(h), NEW c \in Cids, NEW p \in Ports,
         ~(c = CidOf[h] /\ p = port[h] /\ pc[h] = "fwdCommit")
  PROVE  forwards'[c][p] \in {forwards[c][p], None}
<1>0. forwards \in [Cids -> [Ports -> Sockets \cup {None}]] /\ CidOf[h] \in Cids
  BY ConstantFacts DEF IInv, TypeOK
<1>1. CASE Quiet(h) \/ BeginsForward(h) \/ ForwardReserve(h) \/ ForwardRelease(h)
  BY <1>1 DEF Quiet, BeginsForward, ForwardReserve, ForwardRelease
<1>2. ASSUME NEW d \in Cids, NEW r \in Ports, TakesOut(h, d, r) PROVE forwards'[c][p] \in {forwards[c][p], None}
  BY <1>0, <1>2 DEF TakesOut, Remove
<1>3. CASE TakesDown(h) \/ Insert(h)
  BY <1>0, <1>3 DEF TakesDown, Insert, Empty
<1>4. CASE ForwardCommit(h)
  BY <1>0, <1>4 DEF ForwardCommit, IInv, LocalsInv
<1>5. QED
  BY <1>1, <1>2, <1>3, <1>4, TaskShapes

LEMMA NotYetStep ==
  ASSUME Solo, IInv, SoloInv, NEW h \in Conns, Input(h) \/ Work(h)
  PROVE  NotYet'
<1>1. SUFFICES ASSUME NEW g \in Conns, pc'[g] \in InForward PROVE forwards'[CidOf[g]][port'[g]] = None
  BY DEF NotYet
<1>2. \A k \in Conns : pc[k] \in InForward => port[k] \in Ports /\ forwards[CidOf[k]][port[k]] = None
  BY DEF SoloInv, NotYet, InForward, Settling, IInv, LocalsInv
<1>3. DOMAIN pc = Conns /\ CidOf[g] \in Cids /\ CidOf[h] \in Cids
  BY ConstantFacts DEF IInv, TypeOK
<1>4. CASE g # h
  <2>1. pc[g] \in InForward /\ port'[g] = port[g] /\ CidOf[g] # CidOf[h]
    BY <1>1, <1>4, TaskMoves DEF Solo
  <2>2. QED
    BY <1>2, <1>3, <2>1, TableShrinks
<1>5. CASE g = h
  <2>1. CASE Quiet(h)
    BY <1>1, <1>2, <1>5, <2>1 DEF Quiet
  <2>2. ASSUME NEW c \in Cids, NEW p \in Ports, TakesOut(h, c, p) PROVE forwards'[CidOf[g]][port'[g]] = None
    BY <1>1, <1>5, <2>2 DEF TakesOut, Remove, IInv, TypeOK
  <2>3. CASE TakesDown(h)
    BY <1>1, <1>5, <2>3 DEF TakesDown
  <2>4. CASE BeginsForward(h)
    BY <1>1, <1>5, <2>4 DEF BeginsForward, InForward, Settling
  <2>5. CASE Insert(h) \/ ForwardRelease(h) \/ ForwardCommit(h)
    BY <1>1, <1>3, <1>5, <2>5 DEF Insert, ForwardRelease, ForwardCommit, Return, Goto, InForward, Settling
  <2>6. CASE ForwardReserve(h)
    <3>1. pc[h] \in InForward /\ forwards' = forwards /\ (port' = port \/ pc'[h] = "serving")
      BY <1>3, <2>6 DEF ForwardReserve, Return, Goto, InForward
    <3>2. QED
      BY <1>1, <1>2, <1>5, <3>1 DEF InForward, Settling
  <2>7. QED
    BY <2>1, <2>2, <2>3, <2>4, <2>5, <2>6, TaskShapes
<1>6. QED
  BY <1>4, <1>5

LEMMA AccountedStep ==
  ASSUME Solo, IInv, SoloInv, NEW h \in Conns, Input(h) \/ Work(h)
  PROVE  Accounted'
<1>0. /\ forwards \in [Cids -> [Ports -> Sockets \cup {None}]] /\ used \in [HostPorts -> Cids \cup {None}]
      /\ DOMAIN pc = Conns /\ DOMAIN target = Conns /\ CidOf[h] \in Cids /\ NoPort \notin HostPorts
      /\ \A c \in Cids : \A l \in Listeners(c) : \E p \in Ports : forwards[c][p] # None /\ l = forwards[c][p]
      /\ \A c \in Cids, p \in Ports : forwards[c][p] # None => forwards[c][p] \in Listeners(c)
  BY ConstantFacts DEF IInv, TypeOK, Listeners, Forwarded
<1>a. \A q \in HostPorts : used[q] # None =>
        \/ \E c \in Cids, p \in Ports : forwards[c][p] # None /\ forwards[c][p][1] = q
        \/ \E g \in Conns : pc[g] \in Settling /\ target[g] = q
  BY DEF SoloInv, Accounted, Claimed, Reserving, Settling
<1>b. \A q : Claimed(q)' <=>
        \/ \E c \in Cids, p \in Ports : forwards'[c][p] # None /\ forwards'[c][p][1] = q
        \/ \E g \in Conns : pc'[g] \in Settling /\ target'[g] = q
  BY DEF Claimed, Reserving, Settling
<1>c. \A g \in Conns : g # h => pc'[g] = pc[g] /\ target'[g] = target[g]
  BY TaskMoves
<1>1. CASE Quiet(h)
  BY <1>a, <1>b, <1>c, <1>1 DEF Quiet, InForward, Accounted
<1>2. CASE BeginsForward(h)
  BY <1>a, <1>b, <1>c, <1>2 DEF BeginsForward, Settling, Accounted
<1>3. ASSUME NEW c \in Cids, NEW p \in Ports, TakesOut(h, c, p) PROVE Accounted'
  <2>1. \A d \in Cids, r \in Ports : forwards'[d][r] = IF d = c /\ r = p THEN None ELSE forwards[d][r]
    BY <1>0, <1>3 DEF TakesOut, Remove
  <2>2. \A q \in HostPorts : used'[q] # None => used[q] # None /\ q # forwards[c][p][1]
    BY <1>3 DEF TakesOut, Release
  <2>3. pc[h] \notin Settling
    BY <1>3 DEF TakesOut
  <2>4. QED
    BY <1>a, <1>b, <1>c, <2>1, <2>2, <2>3 DEF Accounted
<1>4. CASE TakesDown(h)
  <2>1. \A d \in Cids, r \in Ports : forwards'[d][r] = IF d = CidOf[h] THEN None ELSE forwards[d][r]
    BY <1>0, <1>4 DEF TakesDown, Empty
  <2>2. \A q \in HostPorts : used'[q] # None => used[q] # None /\ \A l \in Listeners(CidOf[h]) : l[1] # q
    BY <1>4 DEF TakesDown, Release
  <2>3. pc[h] \notin Settling
    BY <1>4 DEF TakesDown
  <2>4. QED
    BY <1>0, <1>a, <1>b, <1>c, <2>1, <2>2, <2>3 DEF Accounted
<1>5. CASE Insert(h)
  <2>1. owner[CidOf[h]] = None
    <3>1. SUFFICES ASSUME owner[CidOf[h]] # None PROVE FALSE
      OBVIOUS
    <3>2. owner[CidOf[h]] \in Conns /\ CidOf[owner[CidOf[h]]] = CidOf[h] /\ pc[owner[CidOf[h]]] \in InSession
      BY <1>0, <3>1 DEF IInv, TypeOK, NoZombieRegistration
    <3>3. owner[CidOf[h]] = h
      BY <3>2 DEF Solo
    <3>4. QED
      BY <1>5, <3>2, <3>3 DEF Insert, InSession
  <2>2. \A p \in Ports : forwards[CidOf[h]][p] = None
    BY <1>0, <2>1 DEF IInv, ClaimsInv, ForwardIsServed
  <2>3. \A d \in Cids, r \in Ports : forwards'[d][r] = forwards[d][r]
    BY <1>0, <1>5, <2>2 DEF Insert, Empty
  <2>4. pc[h] \notin Settling /\ used' = used
    BY <1>5 DEF Insert, Settling
  <2>5. QED
    BY <1>a, <1>b, <1>c, <2>3, <2>4 DEF Accounted
<1>6. CASE ForwardReserve(h)
  <2>1. pc[h] = "fwdReserve" /\ forwards' = forwards
    BY <1>6 DEF ForwardReserve
  <2>2. \/ used' = used
        \/ \E q : used' = [used EXCEPT ![q] = CidOf[h]] /\ pc'[h] = "fwdBind" /\ target'[h] = q
    BY <1>0, <1>6 DEF ForwardReserve, Goto
  <2>3. QED
    BY <1>0, <1>a, <1>b, <1>c, <2>1, <2>2 DEF Accounted, Settling
<1>7. CASE ForwardRelease(h)
  BY <1>0, <1>a, <1>b, <1>c, <1>7 DEF ForwardRelease, Accounted
<1>8. CASE ForwardCommit(h)
  <2>0. /\ pc[h] = "fwdCommit" /\ lsock[h] \in Sockets /\ lsock[h] # None /\ lsock[h][1] = target[h]
        /\ port[h] \in Ports /\ forwards[CidOf[h]][port[h]] = None
    BY <1>8, ConstantFacts DEF ForwardCommit, IInv, LocalsInv, ClaimsInv, BoundInv, SoloInv, NotYet, InForward, Settling
  <2>1. CASE owner[CidOf[h]] # None
    <3>1. used' = used /\ \A d \in Cids, r \in Ports :
            forwards'[d][r] = IF d = CidOf[h] /\ r = port[h] THEN lsock[h] ELSE forwards[d][r]
      BY <1>0, <1>8, <2>0, <2>1 DEF ForwardCommit
    <3>2. SUFFICES ASSUME NEW q \in HostPorts, used[q] # None PROVE Claimed(q)'
      BY <3>1 DEF Accounted
    <3>3. CASE \E c \in Cids, p \in Ports : forwards[c][p] # None /\ forwards[c][p][1] = q
      BY <1>b, <2>0, <3>1, <3>3
    <3>4. CASE \E g \in Conns : g # h /\ pc[g] \in Settling /\ target[g] = q
      BY <1>b, <1>c, <3>4
    <3>5. CASE target[h] = q
      BY <1>0, <1>b, <2>0, <3>1, <3>5, SMTT(30)
    <3>6. QED
      BY <1>a, <3>2, <3>3, <3>4, <3>5
  <2>2. CASE owner[CidOf[h]] = None
    <3>1. forwards' = forwards /\ \A q \in HostPorts : used'[q] # None => used[q] # None /\ q # target[h]
      BY <1>8, <2>0, <2>2 DEF ForwardCommit, Release
    <3>2. QED
      BY <1>a, <1>b, <1>c, <3>1 DEF Accounted
  <2>3. QED
    BY <2>1, <2>2
<1>9. QED
  BY <1>1, <1>2, <1>3, <1>4, <1>5, <1>6, <1>7, <1>8, TaskShapes

LEMMA PortsFinite == IsFiniteSet(Ports)
<1>1. IsFiniteSet(HostPorts)
  BY PortSpaceAssumption, FS_Interval DEF HostPorts
<1>2. QED
  BY <1>1, FS_Subset, RegistryAssumption

LEMMA ForwardedCount ==
  ASSUME NEW S \in SUBSET Ports, NEW T \in SUBSET S
  PROVE  /\ Cardinality(S) \in Nat /\ Cardinality(T) \in Nat /\ Cardinality(T) <= Cardinality(S)
         /\ \A p \in S \ T : Cardinality(T) < Cardinality(S)
<1>1. IsFiniteSet(S)
  BY PortsFinite, FS_Subset
<1>2. IsFiniteSet(T) /\ Cardinality(T) <= Cardinality(S) /\ (Cardinality(S) = Cardinality(T) => S = T)
  BY <1>1, FS_Subset
<1>3. Cardinality(S) \in Nat /\ Cardinality(T) \in Nat
  BY <1>1, <1>2, FS_CardinalityType
<1>4. QED
  BY <1>2, <1>3

\* The limit holds, and where it has been checked there is room for one more.
LEMMA RoomStep ==
  ASSUME Solo, IInv, SoloInv, NEW h \in Conns, Input(h) \/ Work(h)
  PROVE  Room' /\ ForwardLimitHolds'
<1>0. /\ DOMAIN pc = Conns /\ CidOf[h] \in Cids /\ MaxForwards \in Nat /\ h # None
      /\ \A c \in Cids : Forwarded(c) \in SUBSET Ports /\ Forwarded(c)' \in SUBSET Ports
  BY ConstantFacts, RegistryAssumption DEF IInv, TypeOK, Forwarded
<1>1. \A c \in Cids : Cardinality(Forwarded(c)) <= MaxForwards
  BY DEF SoloInv, ForwardLimitHolds
<1>2. ASSUME NEW c \in Cids, ~(c = CidOf[h] /\ pc[h] = "fwdCommit") PROVE Forwarded(c)' \subseteq Forwarded(c)
  BY <1>2, TableShrinks DEF Forwarded
<1>3. ASSUME NEW c \in Cids, ~(c = CidOf[h] /\ pc[h] = "fwdCommit")
      PROVE  /\ Cardinality(Forwarded(c)') <= Cardinality(Forwarded(c))
             /\ Cardinality(Forwarded(c)') \in Nat /\ Cardinality(Forwarded(c)) \in Nat
  BY <1>0, <1>2, <1>3, ForwardedCount
<1>4. ForwardLimitHolds'
  <2>1. SUFFICES ASSUME NEW c \in Cids PROVE Cardinality(Forwarded(c)') <= MaxForwards
    BY DEF ForwardLimitHolds
  <2>2. CASE ~(c = CidOf[h] /\ pc[h] = "fwdCommit")
    BY <1>0, <1>1, <1>3, <2>2
  <2>3. CASE c = CidOf[h] /\ pc[h] = "fwdCommit"
    <3>1. ForwardCommit(h)
      BY <2>3 DEF Input, Work, Register, OneShot, ReceiveShutdown, Disconnect, ReceiveForward,
         ReceiveUnforward, Receive, AdminUnforward, AckRegistration, Insert, ForwardLimit, ForwardReserve,
         ForwardBind, ForwardRelease, ForwardGone, ForwardMap, UnforwardRemove, Cleanup,
         StopRemoved, AfterStop, Unmap, AfterUnmap, Drained, AfterDrain, IdleCheck, IdleSend
    <3>2. Cardinality(Forwarded(c)) < MaxForwards
      BY <2>3, <3>1, ConstantFacts DEF ForwardCommit, SoloInv, Room, InForward, Settling
    <3>3. \A p \in Ports : p # port[h] => forwards'[c][p] \in {forwards[c][p], None}
      BY TableShrinks
    <3>4. Forwarded(c)' \subseteq Forwarded(c) \cup {port[h]}
      BY <3>3 DEF Forwarded
    <3>5. IsFiniteSet(Forwarded(c))
      BY <1>0, PortsFinite, FS_Subset
    <3>6. /\ IsFiniteSet(Forwarded(c) \cup {port[h]})
          /\ Cardinality(Forwarded(c) \cup {port[h]}) <= Cardinality(Forwarded(c)) + 1
          /\ Cardinality(Forwarded(c)) \in Nat
          /\ Cardinality(Forwarded(c) \cup {port[h]}) \in Nat
      <4>1. Cardinality(Forwarded(c)) \in Nat
        BY <3>5, FS_CardinalityType
      <4>2. /\ IsFiniteSet(Forwarded(c) \cup {port[h]})
            /\ Cardinality(Forwarded(c) \cup {port[h]}) =
                 IF port[h] \in Forwarded(c) THEN Cardinality(Forwarded(c)) ELSE Cardinality(Forwarded(c)) + 1
        BY <3>5, FS_AddElement
      <4>3. QED
        BY <4>1, <4>2
    <3>7. IsFiniteSet(Forwarded(c)') /\ Cardinality(Forwarded(c)') <= Cardinality(Forwarded(c) \cup {port[h]})
      BY <3>4, <3>6, FS_Subset
    <3>8. Cardinality(Forwarded(c)') \in Nat
      BY <3>7, FS_CardinalityType
    <3>9. QED
      BY <1>0, <3>2, <3>6, <3>7, <3>8
  <2>4. QED
    BY <2>2, <2>3
<1>5. Room'
  <2>1. SUFFICES ASSUME lock' # Main, NEW g \in Conns, pc'[g] \in InForward
                 PROVE  Cardinality(Forwarded(CidOf[g])') < MaxForwards
    BY DEF Room
  <2>2. lock # Main /\ (\A k \in Conns : pc[k] \in InForward => Cardinality(Forwarded(CidOf[k])) < MaxForwards)
    BY <2>1, LockKept DEF SoloInv, Room
  <2>3. ASSUME pc[g] \in InForward, ~(g = h /\ pc[h] = "fwdCommit") PROVE Cardinality(Forwarded(CidOf[g])') < MaxForwards
    <3>1. CidOf[g] \in Cids /\ ~(CidOf[g] = CidOf[h] /\ pc[h] = "fwdCommit")
      BY <2>3, ConstantFacts DEF Solo
    <3>2. QED
      BY <1>0, <1>3, <2>2, <2>3, <3>1
  <2>4. CASE g # h
    BY <2>1, <2>3, <2>4, TaskMoves
  <2>5. CASE g = h
    <3>1. CASE Quiet(h)
      <4>1. pc[h] \in InForward /\ forwards' = forwards
        BY <2>1, <2>5, <3>1 DEF Quiet
      <4>2. Forwarded(CidOf[g])' = Forwarded(CidOf[g])
        BY <4>1 DEF Forwarded
      <4>3. QED
        BY <2>2, <2>5, <4>1, <4>2
    <3>2. ASSUME NEW c \in Cids, NEW p \in Ports, TakesOut(h, c, p) PROVE Cardinality(Forwarded(CidOf[g])') < MaxForwards
      <4>1. c = CidOf[g] /\ forwards[c][p] # None /\ forwards'[c][p] = None /\ pc[h] = "fwdLimit"
        BY <2>1, <2>5, <3>2 DEF TakesOut, Remove, IInv, TypeOK
      <4>2. p \in Forwarded(c) /\ p \notin Forwarded(c)' /\ Forwarded(c)' \subseteq Forwarded(c)
        BY <1>2, <4>1 DEF Forwarded
      <4>3. Cardinality(Forwarded(c)') < Cardinality(Forwarded(c)) /\ Cardinality(Forwarded(c)') \in Nat
            /\ Cardinality(Forwarded(c)) \in Nat
        BY <1>0, <4>2, ForwardedCount
      <4>4. QED
        BY <1>0, <1>1, <4>1, <4>3
    <3>3. CASE TakesDown(h)
      BY <2>1, <2>5, <3>3 DEF TakesDown
    <3>4. CASE BeginsForward(h)
      <4>1. /\ ~(Cardinality(Forwarded(CidOf[h])) >= MaxForwards /\ owner[CidOf[h]] # None)
            /\ forwards' = forwards /\ pc[h] = "fwdLimit"
        BY <2>1, <2>5, <3>4 DEF BeginsForward, InForward, Settling
      <4>2. owner[CidOf[h]] = h
        BY <2>2, <4>1 DEF SoloInv, OwnEntry, InSession
      <4>3. Forwarded(CidOf[h])' = Forwarded(CidOf[h])
        BY <4>1 DEF Forwarded
      <4>4. Cardinality(Forwarded(CidOf[h])) \in Nat
        BY <1>0, ForwardedCount
      <4>5. QED
        BY <1>0, <2>5, <4>1, <4>2, <4>3, <4>4
    <3>5. CASE Insert(h) \/ ForwardRelease(h) \/ ForwardCommit(h)
      BY <1>0, <2>1, <2>5, <3>5 DEF Insert, ForwardRelease, ForwardCommit, Return, Goto, InForward, Settling
    <3>6. CASE ForwardReserve(h)
      BY <2>3, <2>5, <3>6 DEF ForwardReserve, InForward
    <3>7. QED
      BY <3>1, <3>2, <3>3, <3>4, <3>5, <3>6, TaskShapes
  <2>6. QED
    BY <2>4, <2>5
<1>6. QED
  BY <1>4, <1>5

LEMMA SoloInvStep ==
  ASSUME Solo, IInv, SoloInv, [Next]_vars
  PROVE  SoloInv'
<1>1. ASSUME NEW h \in Conns, Input(h) \/ Work(h) PROVE SoloInv'
  BY <1>1, OwnEntryStep, NotYetStep, AccountedStep, RoomStep DEF SoloInv
<1>2. CASE DrainAll
  <2>1. lock' = Main /\ pc' = pc /\ port' = port
    BY <1>2 DEF DrainAll, locals
  <2>2. (\A c \in Cids, p \in Ports : forwards'[c][p] = None) /\ (\A q \in HostPorts : used'[q] = None)
    BY <1>2 DEF DrainAll
  <2>3. OwnEntry' /\ Room'
    BY <2>1 DEF OwnEntry, Room
  <2>4. NotYet'
    BY <2>1, <2>2, ConstantFacts DEF NotYet, InForward, Settling, IInv, LocalsInv
  <2>5. Accounted'
    BY <2>2 DEF Accounted
  <2>6. ForwardLimitHolds'
    <3>1. SUFFICES ASSUME NEW c \in Cids PROVE Cardinality(Forwarded(c)') <= MaxForwards
      BY DEF ForwardLimitHolds
    <3>2. Forwarded(c)' = {}
      BY <2>2 DEF Forwarded
    <3>3. QED
      BY <3>2, FS_EmptySet, RegistryAssumption
  <2>7. QED
    BY <2>3, <2>4, <2>5, <2>6 DEF SoloInv
<1>3. CASE (\E l \in Sockets : CloseListener(l)) \/ TakeShutdown \/ Exit \/ Signal \/ Stopped \/ UNCHANGED vars
  <2>1. UNCHANGED <<owner, forwards, used, lock, pc, port, target>>
    BY <1>3 DEF CloseListener, TakeShutdown, Exit, Signal, Stopped, vars, table, locals
  <2>2. OwnEntry' /\ NotYet' /\ Accounted'
    BY <2>1 DEF SoloInv, OwnEntry, NotYet, Accounted, Claimed, Reserving
  <2>3. \A c : Forwarded(c)' = Forwarded(c)
    BY <2>1 DEF Forwarded
  <2>4. Room' /\ ForwardLimitHolds'
    BY <2>1, <2>3 DEF SoloInv, Room, ForwardLimitHolds
  <2>5. QED
    BY <2>2, <2>4 DEF SoloInv
<1>4. QED
  BY <1>1, <1>2, <1>3 DEF Next, MainStep

LEMMA SoloInit == Init => SoloInv
<1> SUFFICES ASSUME Init PROVE SoloInv
  OBVIOUS
<1>1. OwnEntry /\ NotYet /\ Accounted /\ Room
  BY DEF Init, OwnEntry, NotYet, Accounted, Room, InSession, InForward, Settling
<1>2. ASSUME NEW c \in Cids PROVE Cardinality(Forwarded(c)) <= MaxForwards
  <2>1. Forwarded(c) = {}
    BY DEF Init, Forwarded
  <2>2. QED
    BY <2>1, FS_EmptySet, RegistryAssumption
<1>3. QED
  BY <1>1, <1>2 DEF SoloInv, ForwardLimitHolds

LEMMA SoloInductive ==
  ASSUME Solo
  PROVE  Spec => []SoloInv
<1>1. IInv /\ SoloInv /\ [Next]_vars => SoloInv'
  BY SoloInvStep
<1>2. QED
  BY <1>1, SoloInit, Inductive, PTL DEF Spec

\* used_host_ports: as long as no container has two connections, every booked
\* host port is a forward's, or a task's that is setting one up: handle_forward,
\* failed binds, unforwards and teardowns leak none.
THEOREM PortsAccounted ==
  ASSUME Solo
  PROVE  Spec => []NoLeakedPort
<1>1. IInv /\ SoloInv => NoLeakedPort
  BY LeaseFacts DEF SoloInv, Accounted, NoLeakedPort
<1>2. QED
  BY <1>1, SoloInductive, Inductive, PTL

\* MAX_FORWARDS_PER_CONTAINER: as long as no container has two connections, the
\* limit that handle_forward checks in one critical section still holds when it
\* inserts the forward in another.
THEOREM LimitHolds ==
  ASSUME Solo
  PROVE  Spec => []ForwardLimitHolds
<1>1. SoloInv => ForwardLimitHolds
  BY DEF SoloInv
<1>2. QED
  BY <1>1, SoloInductive, PTL
------------------------------------------------------------------------------
(* The search for a free port.  ForwardReserve takes its port from the     *)
(* closed form FindAvailablePort: for every size of the port space, every  *)
(* occupancy and every preference, the loop of find_available_port         *)
(* (PortAlloc, with state of its own) returns just that.                   *)

\* u16::wrapping_add(1) on a port number.
LEMMA WrappingAdd ==
  ASSUME NEW q \in 0..MaxPort
  PROVE  (q + 1) % (MaxPort + 1) = IF q = MaxPort THEN 0 ELSE q + 1
<1> USE PortSpaceAssumption
<1>1. CASE q = MaxPort
  BY <1>1
<1>2. CASE q # MaxPort
  BY <1>2
<1>3. QED
  BY <1>1, <1>2

\* The candidate after q: upwards inside the unprivileged range, and from
\* below it or from its end to its beginning, except for the preference.
LEMMA NextCandidateIs ==
  ASSUME SearchTypeOK
  PROVE  LET next == IF candidate = MaxPort THEN 0 ELSE candidate + 1
         IN  NextCandidate = IF next < FirstUnprivileged /\ next # preferred
                             THEN FirstUnprivileged ELSE next
  BY WrappingAdd DEF NextCandidate, SearchTypeOK

SearchInv == SearchTypeOK /\ ScanInv /\ ReturnsNextFreePort

\* One iteration preserves what the loop has established.
LEMMA AdvancePreserves ==
  ASSUME SearchInv, Advance
  PROVE  SearchInv'
<1> DEFINE n == NextCandidate
<1> USE PortSpaceAssumption DEF SearchInv
<1>1. /\ occupied' = occupied /\ preferred' = preferred /\ answer' = answer
      /\ candidate' = n /\ loop' = (IF n = preferred THEN "done" ELSE "scan")
      /\ loop = "scan" /\ candidate \in occupied
  BY DEF Advance
<1>2. n \in 0..MaxPort
  BY NextCandidateIs DEF SearchTypeOK
<1>3. SearchTypeOK'
  BY <1>1, <1>2 DEF SearchTypeOK
<1>4. /\ preferred \in 1..MaxPort /\ candidate \in 1..MaxPort /\ answer = NoPort
      /\ preferred \in occupied
  BY <1>1 DEF ScanInv, SearchTypeOK, Unprivileged
<1>5. ScanInv'
  <2>1. SUFFICES ASSUME n # preferred
                 PROVE  /\ n \in Unprivileged
                        /\ n > preferred =>
                             \A q \in Unprivileged : preferred < q /\ q < n => q \in occupied
                        /\ n < preferred =>
                             /\ preferred \in Unprivileged
                             /\ \A q \in Unprivileged : preferred < q \/ q < n => q \in occupied
    BY <1>1, <1>4 DEF ScanInv
  <2>2. CASE candidate = preferred
    BY <1>1, <1>4, <2>1, <2>2, NextCandidateIs DEF SearchTypeOK, Unprivileged
  <2>3. CASE candidate # preferred
    BY <1>1, <1>4, <2>1, <2>3, NextCandidateIs DEF SearchTypeOK, ScanInv, Unprivileged
  <2>4. QED
    BY <2>2, <2>3
<1>6. ReturnsNextFreePort'
  <2>1. SUFFICES ASSUME n = preferred
                 PROVE  NoPort \in FindAvailablePort(occupied, preferred)
    BY <1>1, <1>4 DEF ReturnsNextFreePort
  <2>2. preferred \in Unprivileged
    BY <1>1, <1>4, <2>1, NextCandidateIs DEF SearchTypeOK, ScanInv, Unprivileged
  <2>3. \A q \in Unprivileged : q \in occupied
    <3>1. CASE candidate = preferred
      BY <1>1, <1>4, <2>1, <2>2, <3>1, NextCandidateIs DEF SearchTypeOK, Unprivileged
    <3>2. CASE candidate # preferred
      BY <1>1, <1>4, <2>1, <2>2, <3>2, NextCandidateIs DEF SearchTypeOK, ScanInv, Unprivileged
    <3>3. QED
      BY <3>1, <3>2
  <2>4. QED
    BY <1>4, <2>2, <2>3 DEF FindAvailablePort, NoPort
<1>7. QED
  BY <1>3, <1>5, <1>6

\* A free candidate is the answer.
LEMMA FoundPreserves ==
  ASSUME SearchInv, Found
  PROVE  SearchInv'
<1> USE PortSpaceAssumption DEF SearchInv
<1>1. /\ occupied' = occupied /\ preferred' = preferred /\ candidate' = candidate
      /\ answer' = candidate /\ loop' = "done" /\ loop = "scan" /\ candidate \notin occupied
  BY DEF Found
<1>2. SearchTypeOK' /\ ScanInv'
  BY <1>1 DEF SearchTypeOK, ScanInv
<1>3. preferred \in 1..MaxPort
  BY <1>1 DEF SearchTypeOK, ScanInv
<1>4. candidate \in FindAvailablePort(occupied, preferred)
  <2>1. CASE candidate = preferred
    BY <1>1, <1>3, <2>1 DEF FindAvailablePort, NoPort
  <2>2. CASE candidate > preferred
    <3>1. /\ candidate \in Unprivileged \ occupied /\ preferred \in occupied
          /\ \A q \in Unprivileged \ occupied : q > preferred => candidate <= q
      BY <1>1, <1>3, <2>2 DEF SearchTypeOK, ScanInv, Unprivileged
    <3>2. QED
      BY <1>3, <2>2, <3>1 DEF FindAvailablePort, LeastOf, NoPort
  <2>3. CASE candidate < preferred
    <3>1. /\ candidate \in Unprivileged \ occupied /\ preferred \in occupied
          /\ \A q \in Unprivileged \ occupied : ~(q > preferred) /\ candidate <= q
      BY <1>1, <1>3, <2>3 DEF SearchTypeOK, ScanInv, Unprivileged
    <3>2. QED
      BY <1>3, <2>3, <3>1 DEF FindAvailablePort, LeastOf, NoPort
  <2>4. QED
    BY <2>1, <2>2, <2>3, <1>3 DEF SearchTypeOK
<1>5. QED
  BY <1>1, <1>2, <1>4 DEF ReturnsNextFreePort

\* The search returns the closed form, whatever the occupancy: the preference
\* if it is free, else the next free unprivileged port with one wrap-around.
THEOREM SearchCorrect == SearchSpec => []ReturnsNextFreePort
<1>1. SearchInit => SearchInv
  BY PortSpaceAssumption DEF SearchInit, SearchInv, SearchTypeOK, ScanInv, ReturnsNextFreePort,
     FindAvailablePort, NoPort
<1>2. SearchInv /\ [SearchNext]_searchVars => SearchInv'
  <2>1. CASE UNCHANGED searchVars
    BY <2>1 DEF searchVars, SearchInv, SearchTypeOK, ScanInv, ReturnsNextFreePort
  <2>2. QED
    BY <2>1, AdvancePreserves, FoundPreserves DEF SearchNext
<1>3. SearchInv => ReturnsNextFreePort
  BY DEF SearchInv
<1>4. QED
  BY <1>1, <1>2, <1>3, PTL DEF SearchSpec
==============================================================================
