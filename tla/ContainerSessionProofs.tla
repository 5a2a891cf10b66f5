------------------------ MODULE ContainerSessionProofs ------------------------
(***************************************************************************)
(* For any sockets, filter, faults and interleaving with the host: in a    *)
(* session the daemon's map and the host's forwards agree but for what is  *)
(* on its way, what `dbr unforward' removed, what a late rejection crossed *)
(* and what a superseded connection had in hand.  The invariant says, port *)
(* by port, what the last message about the port will do.                  *)
(***************************************************************************)
EXTENDS ContainerSession, SequenceTheorems, FiniteSetTheorems, TLAPS

Names == {NoName} \cup Range(NameOf)
Messages == [type : {"Forward", "Unforward"}, port : Ports, name : Names]
Silent(p) == \A i \in 1..Len(toHost) : toHost[i].port # p
\* The last message about p on the wire is m.
LastIs(m, p) ==
  \E i \in 1..Len(toHost) :
    toHost[i] = m /\ m.port = p /\ \A j \in 1..Len(toHost) : i < j => toHost[j].port # p
Forward(p, n) == [type |-> "Forward", port |-> p, name |-> n]
Unforward(p) == [type |-> "Unforward", port |-> p, name |-> NoName]

\* The connection has an accepted registration and the daemon is at work on it.
Working == link = "up" /\ phase \in {"reforward", "session"}

\* A port the daemon has recorded: its Forward is still to come or the last
\* thing said about it, or the host has answered it.
Recorded(p) ==
  \/ phase = "reforward" /\ p \in DOMAIN todo.forward
  \/ LastIs(Forward(p, forwarded[p]), p)
  \/ Silent(p) /\ \/ p \in DOMAIN hostForwards /\ hostForwards[p] = forwarded[p]
                  \/ Rejected(p) \/ p \in dropped \cup intruded

\* A port it has not: the host has none either, or a superseded connection's,
\* or its Unforward is the last thing said about it, or a late rejection
\* crossed a newer Forward.
Forgotten(p) ==
  \/ p \in crossed
  \/ LastIs(Unforward(p), p)
  \/ Silent(p) /\ p \notin DOMAIN hostForwards \ intruded

PortOK(p) == IF p \in DOMAIN forwarded THEN Recorded(p) ELSE Forgotten(p)
AgreeInv == Working => \A p \in Ports : PortOK(p)

\* What is fresh when a connection is, and who has something to send.
FreshInv ==
  /\ phase \notin {"reforward", "session"} => todo = NoTodo
  /\ phase = "reforward" => todo.unforward = {} /\ \A p \in DOMAIN todo.forward :
                              p \in DOMAIN forwarded /\ todo.forward[p] = forwarded[p]
  /\ phase = "registering" /\ link = "up" => toHost = <<>> /\ acks = <<>>
  /\ phase = "registering" /\ link = "up" /\ reply = "accepted" => DOMAIN hostForwards \subseteq intruded
Answers == [port : Ports, success : BOOLEAN]
WireOK ==
  /\ toHost \in Seq(Messages) /\ acks \in Seq(Answers)
  /\ binding => toHost # <<>> /\ Head(toHost).type = "Forward"
NamesOK ==
  /\ todo = [forward |-> todo.forward, unforward |-> todo.unforward]
  /\ \A p \in DOMAIN todo.forward : todo.forward[p] \in Names
  /\ \A p \in DOMAIN forwarded : forwarded[p] \in Names

SessionInv == TypeOK /\ WireOK /\ NamesOK /\ FreshInv /\ AgreeInv
------------------------------------------------------------------------------
(* Maps of ports, and messages on the wire *)

LEMMA WithoutIs ==
  ASSUME NEW f, NEW p
  PROVE  /\ DOMAIN Without(f, p) = DOMAIN f \ {p}
         /\ \A q \in DOMAIN f : q # p => Without(f, p)[q] = f[q]
BY DEF Without, Restrict

LEMMA WithIs ==
  ASSUME NEW f, NEW p, NEW n
  PROVE  /\ DOMAIN With(f, p, n) = {p} \cup DOMAIN f /\ With(f, p, n)[p] = n
         /\ \A q \in DOMAIN f : q # p => With(f, p, n)[q] = f[q]
BY DEF With

LEMMA NothingIs ==
  /\ DOMAIN NoPorts = {} /\ NoTodo.forward = NoPorts /\ NoTodo.unforward = {}
  /\ NoTodo = [forward |-> NoTodo.forward, unforward |-> NoTodo.unforward]
BY DEF NoPorts, NoTodo

LEMMA SaidMore ==
  ASSUME NEW m \in Messages, toHost \in Seq(Messages), toHost' = Append(toHost, m)
  PROVE  /\ toHost' \in Seq(Messages) /\ LastIs(m, m.port)'
         /\ toHost # <<>> => toHost' # <<>> /\ Head(toHost') = Head(toHost)
         /\ \A p : p # m.port => /\ Silent(p) => Silent(p)'
                                 /\ \A x : LastIs(x, p) => LastIs(x, p)'
<1> DEFINE n == Len(toHost)
<1>1. /\ n \in Nat /\ toHost' \in Seq(Messages) /\ Len(toHost') = n + 1 /\ toHost'[n + 1] = m
      /\ \A i \in 1..n : toHost'[i] = toHost[i]
  BY AppendProperties, LenProperties
<1>2. \A i \in 1..Len(toHost') : i \in 1..n \/ i = n + 1
  BY <1>1
<1>3. LastIs(m, m.port)'
  <2>1. n + 1 \in 1..Len(toHost') /\ \A j \in 1..Len(toHost') : ~(n + 1 < j)
    BY <1>1
  <2>q. QED BY <2>1, <1>1 DEF LastIs
<1>4. ASSUME NEW p, p # m.port, Silent(p) PROVE Silent(p)'
  BY <1>1, <1>2, <1>4 DEF Silent
<1>5. ASSUME NEW p, p # m.port, NEW x, LastIs(x, p) PROVE LastIs(x, p)'
  <2>1. PICK i \in 1..n : toHost[i] = x /\ x.port = p /\ \A j \in 1..n : i < j => toHost[j].port # p
    BY <1>5 DEF LastIs
  <2>2. i \in 1..Len(toHost') /\ toHost'[i] = x
    BY <2>1, <1>1
  <2>3. ASSUME NEW j \in 1..Len(toHost'), i < j PROVE toHost'[j].port # p
    BY <2>1, <2>3, <1>1, <1>2, <1>5
  <2>q. QED BY <2>1, <2>2, <2>3 DEF LastIs
<1>6. ASSUME toHost # <<>> PROVE toHost' # <<>> /\ Head(toHost') = Head(toHost)
  <2>1. n # 0 /\ 1 \in 1..n
    BY <1>6, <1>1, EmptySeq
  <2>2. Head(toHost) = toHost[1]
    BY <1>6, HeadTailProperties
  <2>3. toHost' # <<>>
    BY <1>1, EmptySeq
  <2>4. Head(toHost') = toHost'[1]
    BY <2>3, <1>1, HeadTailProperties
  <2>q. QED BY <2>1, <2>2, <2>3, <2>4, <1>1
<1>q. QED BY <1>1, <1>3, <1>4, <1>5, <1>6

LEMMA SaidLess ==
  ASSUME toHost \in Seq(Messages), toHost # <<>>, toHost' = Tail(toHost)
  PROVE  /\ toHost' \in Seq(Messages) /\ Head(toHost) \in Messages /\ ~Silent(Head(toHost).port)
         /\ \A p : Silent(p) => Silent(p)'
         /\ \A p, x : LastIs(x, p) => LastIs(x, p)' \/ (Silent(p)' /\ x = Head(toHost) /\ p = Head(toHost).port)
<1> DEFINE n == Len(toHost)
           h == Head(toHost)
<1>1. /\ n \in Nat /\ n # 0 /\ h \in Messages /\ h = toHost[1] /\ toHost' \in Seq(Messages)
      /\ Len(toHost') = n - 1 /\ \A i \in 1..Len(toHost') : toHost'[i] = toHost[i + 1]
  BY HeadTailProperties, LenProperties, EmptySeq
<1>2. /\ \A i \in 1..(n - 1) : i + 1 \in 1..n /\ i + 1 > 1
      /\ \A i \in 1..n : i # 1 => i - 1 \in 1..(n - 1) /\ (i - 1) + 1 = i
      /\ 1 \in 1..n
  BY <1>1
<1>3. ~Silent(h.port)
  BY <1>1, <1>2 DEF Silent
<1>4. \A p : Silent(p) => Silent(p)'
  BY <1>1, <1>2 DEF Silent
<1>5. ASSUME NEW p, NEW x, LastIs(x, p) PROVE LastIs(x, p)' \/ (Silent(p)' /\ x = h /\ p = h.port)
  <2>1. PICK i \in 1..n : toHost[i] = x /\ x.port = p /\ \A j \in 1..n : i < j => toHost[j].port # p
    BY <1>5 DEF LastIs
  <2>2. CASE i = 1
    <3>1. \A j \in 1..(n - 1) : toHost'[j].port # p
      BY <2>1, <2>2, <1>1, <1>2
    <3>q. QED BY <3>1, <2>1, <2>2, <1>1 DEF Silent
  <2>3. CASE i # 1
    <3>1. i - 1 \in 1..Len(toHost') /\ toHost'[i - 1] = x
      BY <2>1, <2>3, <1>1, <1>2
    <3>2. ASSUME NEW j \in 1..Len(toHost'), i - 1 < j PROVE toHost'[j].port # p
      <4>1. j + 1 \in 1..n /\ i < j + 1 /\ toHost'[j] = toHost[j + 1]
        BY <3>2, <1>1, <1>2
      <4>q. QED BY <4>1, <2>1
    <3>q. QED BY <3>1, <3>2, <2>1 DEF LastIs
  <2>q. QED BY <2>2, <2>3
<1>q. QED BY <1>1, <1>3, <1>4, <1>5

LEMMA SaidLessHead == ASSUME toHost \in Seq(Messages), toHost # <<>> PROVE Head(toHost) \in Messages
BY HeadTailProperties

LEMMA HeadSpeaks == ASSUME toHost \in Seq(Messages), toHost # <<>> PROVE ~Silent(Head(toHost).port)
<1>1. Len(toHost) \in Nat /\ Len(toHost) # 0 /\ Head(toHost) = toHost[1]
  BY HeadTailProperties, LenProperties, EmptySeq
<1>2. 1 \in 1..Len(toHost)
  BY <1>1
<1>q. QED BY <1>1, <1>2 DEF Silent

LEMMA AnsweredMore ==
  ASSUME NEW a \in Answers, acks \in Seq(Answers), acks' = Append(acks, a)
  PROVE  /\ acks' \in Seq(Answers) /\ (~a.success => Rejected(a.port)')
         /\ \A p : Rejected(p) => Rejected(p)'
<1>1. /\ Len(acks) \in Nat /\ acks' \in Seq(Answers) /\ Len(acks') = Len(acks) + 1
      /\ acks'[Len(acks) + 1] = a /\ \A i \in 1..Len(acks) : acks'[i] = acks[i]
  BY AppendProperties, LenProperties
<1>2. Len(acks) + 1 \in 1..Len(acks') /\ \A i \in 1..Len(acks) : i \in 1..Len(acks')
  BY <1>1
<1>q. QED BY <1>1, <1>2 DEF Rejected

LEMMA AnsweredLess ==
  ASSUME acks \in Seq(Answers), acks # <<>>, acks' = Tail(acks)
  PROVE  /\ acks' \in Seq(Answers) /\ Head(acks) \in Answers
         /\ \A p : Rejected(p) => Rejected(p)' \/ (p = Head(acks).port /\ ~Head(acks).success)
<1> DEFINE n == Len(acks)
<1>1. /\ n \in Nat /\ n # 0 /\ Head(acks) \in Answers /\ Head(acks) = acks[1] /\ acks' \in Seq(Answers)
      /\ Len(acks') = n - 1 /\ \A i \in 1..Len(acks') : acks'[i] = acks[i + 1]
  BY HeadTailProperties, LenProperties, EmptySeq
<1>2. \A i \in 1..n : i # 1 => i - 1 \in 1..(n - 1) /\ (i - 1) + 1 = i
  BY <1>1
<1>3. ASSUME NEW p, Rejected(p) PROVE Rejected(p)' \/ (p = Head(acks).port /\ ~Head(acks).success)
  <2>1. PICK i \in 1..n : acks[i].port = p /\ ~acks[i].success
    BY <1>3 DEF Rejected
  <2>2. CASE i = 1
    BY <2>1, <2>2, <1>1
  <2>3. CASE i # 1
    <3>1. i - 1 \in 1..Len(acks') /\ acks'[i - 1] = acks[i]
      BY <2>3, <1>1, <1>2
    <3>q. QED BY <3>1, <2>1 DEF Rejected
  <2>q. QED BY <2>2, <2>3
<1>q. QED BY <1>1, <1>3
------------------------------------------------------------------------------
(* The invariant, action by action *)

\* Steps that leave maps, messages and host alone.
LEMMA PortStays ==
  ASSUME NEW p, forwarded' = forwarded, toHost' = toHost, acks' = acks, hostForwards' = hostForwards,
         dropped' = dropped, crossed' = crossed, intruded' = intruded, PortOK(p),
         phase = "reforward" => p \notin DOMAIN todo.forward \/ (phase' = phase /\ todo' = todo)
  PROVE  PortOK(p)'
<1>1. Silent(p)' = Silent(p) /\ Rejected(p)' = Rejected(p) /\ \A x : LastIs(x, p)' = LastIs(x, p)
  BY DEF Silent, Rejected, LastIs
<1>q. QED BY <1>1 DEF PortOK, Recorded, Forgotten

LEMMA TypesStay ==
  ASSUME TypeOK, WireOK, NamesOK, forwarded' = forwarded, todo' = todo, UNCHANGED wireVars, UNCHANGED hostVars,
         open' \subseteq Sockets, delay' \in Initial..MaxDelay, shutdown' \in BOOLEAN, faults' \in 0..MaxFaults,
         phase' \in {"resolving", "dead", "connecting", "registering", "reforward", "session",
                     "draining", "backoff", "exited", "failed"},
         outcome' \in {"none", "error", "disconnected", "shutdown"}
  PROVE  TypeOK' /\ WireOK' /\ NamesOK'
BY DEF TypeOK, WireOK, NamesOK, wireVars, hostVars, taskVars, PortMap

\* The daemon moves on between its connections, or a session ends.
LEMMA BetweenKeeps ==
  ASSUME SessionInv,
         ResolveHost \/ Restart \/ RegisterLost \/ BackOff \/ ConnectFails \/ RecvClosed
  PROVE  SessionInv'
<1>1. /\ forwarded' = forwarded /\ todo' = todo /\ UNCHANGED wireVars /\ UNCHANGED hostVars /\ open' = open
      /\ phase' \in {"resolving", "connecting", "dead", "backoff", "draining", "exited"}
      /\ outcome' \in {outcome, "disconnected"} /\ shutdown' \in {shutdown, FALSE}
      /\ faults' = faults \/ (faults > 0 /\ faults' = faults - 1)
      /\ todo = NoTodo
  BY DEF ResolveHost, Restart, RegisterLost, BackOff, ConnectFails, RecvClosed, Idle, SessionInv, FreshInv
<1>2. delay' = delay \/ delay' = IF 2 * delay > MaxDelay THEN MaxDelay ELSE 2 * delay
  BY DEF ResolveHost, Restart, RegisterLost, BackOff, ConnectFails, RecvClosed
<1>3. delay' \in Initial..MaxDelay /\ faults' \in 0..MaxFaults
  BY <1>1, <1>2, SessionAssumption DEF SessionInv, TypeOK
<1>4. TypeOK' /\ WireOK' /\ NamesOK'
  <2>1. open' \subseteq Sockets /\ shutdown' \in BOOLEAN /\ outcome' \in {"none", "error", "disconnected", "shutdown"}
    BY <1>1 DEF SessionInv, TypeOK
  <2>q. QED BY <2>1, <1>1, <1>3, TypesStay DEF SessionInv
<1>5. FreshInv' /\ AgreeInv'
  BY <1>1 DEF FreshInv, AgreeInv, Working
<1>q. QED BY <1>4, <1>5 DEF SessionInv

LEMMA ReforwardDoneKeeps == ASSUME SessionInv, ReforwardDone PROVE SessionInv'
<1>1. /\ forwarded' = forwarded /\ todo' = todo /\ UNCHANGED wireVars /\ UNCHANGED hostVars /\ open' = open
      /\ phase = "reforward" /\ phase' = "session" /\ outcome' = outcome /\ shutdown' = shutdown
      /\ faults' = faults /\ delay' = delay /\ todo = NoTodo
  BY DEF ReforwardDone
<1>2. TypeOK' /\ WireOK' /\ NamesOK'
  BY <1>1, TypesStay DEF SessionInv, TypeOK
<1>3. FreshInv'
  BY <1>1 DEF FreshInv
<1>4. AgreeInv'
  <2>1. \A p \in Ports : PortOK(p) => PortOK(p)'
    BY <1>1, PortStays, NothingIs DEF wireVars, hostVars, taskVars
  <2>q. QED BY <2>1, <1>1 DEF SessionInv, AgreeInv, Working, wireVars
<1>q. QED BY <1>2, <1>3, <1>4 DEF SessionInv

LEMMA OutsideKeeps == ASSUME SessionInv, Signal \/ \E s \in Sockets : SocketChange(s) PROVE SessionInv'
<1>1. /\ forwarded' = forwarded /\ todo' = todo /\ UNCHANGED wireVars /\ UNCHANGED hostVars
      /\ phase' = phase /\ outcome' = outcome /\ delay' = delay
      /\ faults > 0 /\ faults' = faults - 1
  BY DEF Signal, SocketChange, daemonVars
<1>2. shutdown' \in BOOLEAN /\ open' \subseteq Sockets
  BY DEF Signal, SocketChange, daemonVars, SessionInv, TypeOK
<1>3. faults' \in 0..MaxFaults
  BY <1>1, SessionAssumption DEF SessionInv, TypeOK
<1>4. TypeOK' /\ WireOK' /\ NamesOK'
  BY <1>1, <1>2, <1>3, TypesStay DEF SessionInv, TypeOK
<1>5. FreshInv'
  BY <1>1 DEF SessionInv, FreshInv, wireVars, hostVars, taskVars
<1>6. AgreeInv'
  <2>1. \A p \in Ports : PortOK(p) => PortOK(p)'
    BY <1>1, PortStays DEF wireVars, hostVars, taskVars
  <2>q. QED BY <2>1, <1>1 DEF SessionInv, AgreeInv, Working, wireVars
<1>q. QED BY <1>4, <1>5, <1>6 DEF SessionInv

LEMMA StutterKeeps == ASSUME SessionInv, UNCHANGED vars PROVE SessionInv'
BY DEF vars, SessionInv, TypeOK, WireOK, NamesOK, FreshInv, AgreeInv, Working, PortOK, Recorded, Forgotten,
       Silent, LastIs, Rejected, PortMap

\* A connection begins, breaks or is abandoned: no session is at work after it.
LEMMA ConnectKeeps == ASSUME SessionInv, Connect PROVE SessionInv'
<1>1. /\ phase = "connecting" /\ phase' = "registering" /\ link' = "up" /\ reply' = "none"
      /\ toHost' = <<>> /\ acks' = <<>> /\ todo' = todo /\ forwarded' = forwarded
      /\ binding' = FALSE /\ late' \in {late, late \cup InHand}
      /\ UNCHANGED <<open, outcome, delay, shutdown, registered, hostForwards, dropped, crossed, intruded, faults>>
  BY DEF Connect
<1>2. \A l \in late' : l.msg.port \in Ports /\ l.at \in {"checked", "binding"}
  <2>1. ASSUME toHost # <<>> PROVE Head(toHost).port \in Ports
    BY <2>1, SaidLessHead DEF SessionInv, WireOK, Messages
  <2>2. \A l \in InHand : l.msg.port \in Ports /\ l.at \in {"checked", "binding"}
    BY <2>1 DEF InHand
  <2>q. QED BY <2>2, <1>1 DEF SessionInv, TypeOK
<1>3. TypeOK'
  BY <1>1, <1>2 DEF SessionInv, TypeOK, PortMap
<1>4. WireOK' /\ NamesOK'
  BY <1>1 DEF SessionInv, WireOK, NamesOK
<1>5. FreshInv' /\ AgreeInv'
  BY <1>1 DEF SessionInv, FreshInv, AgreeInv, Working
<1>q. QED BY <1>3, <1>4, <1>5 DEF SessionInv

LEMMA CutKeeps == ASSUME SessionInv, Cut PROVE SessionInv'
<1>1. /\ link' = "cut" /\ acks' \in {acks, <<>>} /\ reply' \in {reply, "none"}
      /\ faults > 0 /\ faults' = faults - 1 /\ UNCHANGED <<open, daemonVars, toHost, hostVars>>
  BY DEF Cut
<1>2. faults' \in 0..MaxFaults
  BY <1>1, SessionAssumption DEF SessionInv, TypeOK
<1>3. TypeOK'
  BY <1>1, <1>2 DEF SessionInv, TypeOK, daemonVars, hostVars, taskVars, PortMap
<1>4. WireOK' /\ NamesOK'
  <2>1. <<>> \in Seq(Answers)
    OBVIOUS
  <2>2. WireOK'
    BY <2>1, <1>1 DEF SessionInv, WireOK, hostVars, taskVars
  <2>q. QED BY <2>2, <1>1 DEF SessionInv, NamesOK, daemonVars
<1>5. FreshInv' /\ AgreeInv'
  BY <1>1 DEF SessionInv, FreshInv, AgreeInv, Working, daemonVars
<1>q. QED BY <1>3, <1>4, <1>5 DEF SessionInv

LEMMA CrashKeeps == ASSUME SessionInv, Crash PROVE SessionInv'
<1>1. /\ phase' = "dead" /\ outcome' = "none" /\ delay' = Initial /\ forwarded' = NoPorts /\ todo' = NoTodo
      /\ shutdown' = FALSE /\ link' \in {"cut", link} /\ reply' = "none" /\ acks' = <<>>
      /\ faults > 0 /\ faults' = faults - 1 /\ UNCHANGED <<open, toHost, hostVars>>
  BY DEF Crash
<1>2. faults' \in 0..MaxFaults /\ delay' \in Initial..MaxDelay
  BY <1>1, SessionAssumption DEF SessionInv, TypeOK
<1>3. TypeOK'
  BY <1>1, <1>2, NothingIs DEF SessionInv, TypeOK, hostVars, taskVars, PortMap
<1>4. WireOK' /\ NamesOK'
  <2>1. <<>> \in Seq(Answers)
    OBVIOUS
  <2>2. WireOK'
    BY <2>1, <1>1 DEF SessionInv, WireOK, hostVars, taskVars
  <2>q. QED BY <2>2, <1>1, NothingIs DEF NamesOK
<1>5. FreshInv' /\ AgreeInv'
  BY <1>1 DEF FreshInv, AgreeInv, Working
<1>q. QED BY <1>3, <1>4, <1>5 DEF SessionInv

LEMMA SendFailsKeeps == ASSUME SessionInv, SendFails PROVE SessionInv'
<1>1. /\ phase' \in {"draining", "backoff"} /\ outcome' \in {outcome, "error"} /\ todo' = NoTodo
      /\ UNCHANGED <<open, delay, forwarded, shutdown, wireVars, hostVars, faults>>
  BY DEF SendFails
<1>2. TypeOK' /\ WireOK' /\ NamesOK'
  BY <1>1, NothingIs DEF SessionInv, TypeOK, WireOK, NamesOK, wireVars, hostVars, taskVars, PortMap
<1>3. FreshInv' /\ AgreeInv'
  BY <1>1 DEF FreshInv, AgreeInv, Working
<1>q. QED BY <1>2, <1>3 DEF SessionInv

LEMMA DrainedKeeps == ASSUME SessionInv, Drained PROVE SessionInv'
<1>1. /\ phase = "draining" /\ phase' \in {"exited", "backoff"} /\ link' = "cut" /\ acks' = <<>>
      /\ UNCHANGED <<open, outcome, delay, forwarded, todo, shutdown, reply, toHost, hostVars, faults>>
  BY DEF Drained
<1>2. TypeOK' /\ WireOK' /\ NamesOK'
  BY <1>1 DEF SessionInv, TypeOK, WireOK, NamesOK, hostVars, taskVars, PortMap
<1>3. FreshInv' /\ AgreeInv'
  BY <1>1 DEF SessionInv, FreshInv, AgreeInv, Working
<1>q. QED BY <1>2, <1>3 DEF SessionInv

LEMMA HostCleanupKeeps == ASSUME SessionInv, HostCleanup PROVE SessionInv'
<1>1. /\ link = "cut" /\ hostForwards' = NoPorts /\ dropped' = {} /\ crossed' = {} /\ intruded' = {}
      /\ registered' = FALSE /\ UNCHANGED <<open, daemonVars, wireVars, binding, late, faults>>
  BY DEF HostCleanup
<1>2. TypeOK' /\ WireOK' /\ NamesOK'
  BY <1>1, NothingIs DEF SessionInv, TypeOK, WireOK, NamesOK, daemonVars, wireVars, PortMap
<1>3. FreshInv' /\ AgreeInv'
  BY <1>1 DEF SessionInv, FreshInv, AgreeInv, Working, daemonVars, wireVars
<1>q. QED BY <1>2, <1>3 DEF SessionInv

\* The registration is answered, and the answer read.
LEMMA HostAnswersKeeps == ASSUME SessionInv, HostAnswers PROVE SessionInv'
<1>1. /\ phase = "registering" /\ link = "up" /\ reply' \in {"accepted", "refused"}
      /\ reply' = "accepted" => hostForwards' = NoPorts
      /\ \/ /\ hostForwards' = NoPorts /\ dropped' = {} /\ crossed' = {} /\ intruded' = {}
            /\ registered' = TRUE
         \/ UNCHANGED <<hostForwards, dropped, crossed, intruded, registered>>
      /\ UNCHANGED <<binding, late>>
      /\ faults' = faults \/ (faults > 0 /\ faults' = faults - 1)
      /\ UNCHANGED <<open, daemonVars, link, toHost, acks>>
  BY DEF HostAnswers, hostVars, taskVars
<1>2. faults' \in 0..MaxFaults
  BY <1>1, SessionAssumption DEF SessionInv, TypeOK
<1>3. /\ PortMap(hostForwards') /\ dropped' \subseteq Ports /\ crossed' \subseteq Ports
      /\ intruded' \subseteq Ports /\ registered' \in BOOLEAN
  BY <1>1, NothingIs DEF SessionInv, TypeOK, PortMap, hostVars, taskVars
<1>4. TypeOK'
  BY <1>1, <1>2, <1>3 DEF SessionInv, TypeOK, daemonVars, PortMap
<1>5. WireOK' /\ NamesOK'
  BY <1>1 DEF SessionInv, WireOK, NamesOK, daemonVars
<1>6. FreshInv' /\ AgreeInv'
  BY <1>1, NothingIs DEF SessionInv, FreshInv, AgreeInv, Working, daemonVars
<1>q. QED BY <1>4, <1>5, <1>6 DEF SessionInv

LEMMA RecvRegisterAckKeeps == ASSUME SessionInv, RecvRegisterAck PROVE SessionInv'
<1>1. /\ phase = "registering" /\ reply # "none" /\ reply' = "none" /\ todo = NoTodo
      /\ UNCHANGED <<open, outcome, forwarded, shutdown, toHost, acks, hostVars, faults>>
  BY DEF RecvRegisterAck, SessionInv, FreshInv
<1>2. CASE reply = "accepted"
  <2>1. /\ delay' = Initial /\ link' = link /\ phase' = IF forwarded = NoPorts THEN "session" ELSE "reforward"
        /\ todo' = [forward |-> forwarded, unforward |-> {}]
    BY <1>2 DEF RecvRegisterAck, NoTodo
  <2>2. todo'.forward = forwarded /\ todo'.unforward = {} /\ delay' \in Initial..MaxDelay
    BY <2>1, SessionAssumption
  <2>3. TypeOK'
    BY <1>1, <2>1, <2>2 DEF SessionInv, TypeOK, hostVars, taskVars, PortMap
  <2>4. WireOK' /\ NamesOK'
    BY <1>1, <2>1, <2>2 DEF SessionInv, WireOK, NamesOK, hostVars, taskVars
  <2>5. FreshInv'
    BY <1>1, <2>1, <2>2 DEF FreshInv
  <2>6. AgreeInv'
    <3>1. SUFFICES ASSUME link = "up", NEW p \in Ports PROVE PortOK(p)'
      BY <2>1 DEF AgreeInv, Working
    <3>2. toHost' = <<>> /\ DOMAIN hostForwards' \subseteq intruded'
      BY <1>1, <1>2, <3>1 DEF SessionInv, FreshInv, hostVars, taskVars
    <3>3. Silent(p)'
      BY <3>2 DEF Silent
    <3>4. CASE p \in DOMAIN forwarded
      BY <3>4, <1>1, <2>1, <2>2, NothingIs DEF PortOK, Recorded
    <3>5. CASE p \notin DOMAIN forwarded
      BY <3>5, <3>2, <3>3, <1>1, NothingIs DEF PortOK, Forgotten
    <3>q. QED BY <3>4, <3>5
  <2>q. QED BY <2>3, <2>4, <2>5, <2>6 DEF SessionInv
<1>3. CASE reply # "accepted"
  <2>1. phase' = "failed" /\ link' = "cut" /\ delay' = delay /\ todo' = todo
    BY <1>3 DEF RecvRegisterAck
  <2>2. TypeOK' /\ WireOK' /\ NamesOK'
    BY <1>1, <2>1 DEF SessionInv, TypeOK, WireOK, NamesOK, hostVars, taskVars, PortMap
  <2>3. FreshInv' /\ AgreeInv'
    BY <1>1, <2>1 DEF FreshInv, AgreeInv, Working
  <2>q. QED BY <2>2, <2>3 DEF SessionInv
<1>q. QED BY <1>2, <1>3

\* What a scan finds: one socket for each port that somebody listens on and
\* that is not excluded.
LEMMA ReportedIs ==
  ASSUME NEW sockets \in SUBSET Sockets, NEW files \in SUBSET {"tcp", "tcp6"}
  PROVE  /\ Reported(files, sockets) \subseteq Sockets
         /\ {PortOf[s] : s \in Reported(files, sockets)}
              = {PortOf[s] : s \in {t \in sockets : FileOf[t] \in files}} \ Excluded
<1> DEFINE in4(p) == {s \in Listed("tcp", sockets) : PortOf[s] = p}
           in6(p) == {s \in Listed("tcp6", sockets) : PortOf[s] = p}
           from(p) == IF "tcp" \in files /\ in4(p) # {} THEN in4(p) ELSE in6(p)
           first(p) == CHOOSE s \in from(p) : TRUE
           ports == {PortOf[s] : s \in {t \in sockets : FileOf[t] \in files}} \ Excluded
<1>1. Reported(files, sockets) = {first(p) : p \in ports}
  BY DEF Reported
<1>2. ASSUME NEW p \in ports PROVE first(p) \in Sockets /\ PortOf[first(p)] = p
  <2>1. PICK s \in sockets : FileOf[s] \in files /\ PortOf[s] = p
    OBVIOUS
  <2>2. FileOf[s] \in {"tcp", "tcp6"}
    BY DiscoveryAssumption
  <2>3. from(p) # {}
    BY <2>1, <2>2 DEF Listed
  <2>4. first(p) \in from(p)
    BY <2>3
  <2>5. \A x \in from(p) : x \in sockets /\ PortOf[x] = p
    BY DEF Listed
  <2>q. QED BY <2>4, <2>5
<1> HIDE DEF ports, first
<1>q. QED BY <1>1, <1>2 DEF ports

LEMMA ScanDomain ==
  ASSUME NEW sockets \in SUBSET Sockets, NEW files \in SUBSET {"tcp", "tcp6"}, NEW resolved
  PROVE  /\ DOMAIN ScanListeningPorts(files, sockets, resolved)
              = {PortOf[s] : s \in {t \in sockets : FileOf[t] \in files}} \ Excluded
         /\ \A p \in DOMAIN ScanListeningPorts(files, sockets, resolved) :
              ScanListeningPorts(files, sockets, resolved)[p] \in Names
<1> DEFINE rep == Reported(files, sockets)
           found == ResolveInodes(Wanted(rep, resolved))
           of(p) == CHOOSE s \in rep : PortOf[s] = p
<1>1. ScanListeningPorts(files, sockets, resolved)
        = [p \in {PortOf[s] : s \in rep} |-> IF of(p) \in found THEN NameOf[of(p)] ELSE NoName]
  BY DEF ScanListeningPorts
<1>2. found \subseteq Sockets
  BY ReportedIs DEF ResolveInodes, Wanted
<1>3. \A s \in Sockets : NameOf[s] \in Names
  BY DiscoveryAssumption DEF Names, Range
<1>4. {PortOf[s] : s \in rep} = {PortOf[s] : s \in {t \in sockets : FileOf[t] \in files}} \ Excluded
  BY ReportedIs
<1> HIDE DEF rep, found, of
<1>5. DOMAIN ScanListeningPorts(files, sockets, resolved) = {PortOf[s] : s \in rep}
  BY <1>1
<1>6. ASSUME NEW p \in {PortOf[s] : s \in rep} PROVE ScanListeningPorts(files, sockets, resolved)[p] \in Names
  <2>1. NoName \in Names
    BY DEF Names
  <2>2. ScanListeningPorts(files, sockets, resolved)[p] = IF of(p) \in found THEN NameOf[of(p)] ELSE NoName
    BY <1>1
  <2>q. QED BY <2>1, <2>2, <1>2, <1>3
<1>q. QED BY <1>4, <1>5, <1>6

LEMMA FilterIs ==
  ASSUME NEW found
  PROVE  /\ DOMAIN Filter(found) = {p \in DOMAIN found : ShouldForward(p)}
         /\ \A p \in DOMAIN Filter(found) : Filter(found)[p] = found[p]
BY DEF Filter, Restrict

LEMMA FoundTyped ==
  ASSUME NEW sockets \in SUBSET Sockets, NEW files \in SUBSET {"tcp", "tcp6"}, NEW resolved
  PROVE  LET current == Filter(ScanListeningPorts(files, sockets, resolved))
         IN  DOMAIN current \subseteq Ports /\ \A p \in DOMAIN current : current[p] \in Names
<1> DEFINE found == ScanListeningPorts(files, sockets, resolved)
<1>1. DOMAIN found \subseteq Ports /\ \A p \in DOMAIN found : found[p] \in Names
  <2>1. \A s \in Sockets : PortOf[s] \in Ports
    BY DiscoveryAssumption DEF Ports, Range
  <2>2. /\ DOMAIN found = {PortOf[s] : s \in {t \in sockets : FileOf[t] \in files}} \ Excluded
        /\ \A p \in DOMAIN found : found[p] \in Names
    BY ScanDomain
  <2>q. QED BY <2>1, <2>2
<1> HIDE DEF found
<1>2. /\ DOMAIN Filter(found) = {p \in DOMAIN found : ShouldForward(p)}
      /\ \A p \in DOMAIN Filter(found) : Filter(found)[p] = found[p]
  BY FilterIs
<1>3. DOMAIN Filter(found) \subseteq Ports /\ \A p \in DOMAIN Filter(found) : Filter(found)[p] \in Names
  BY <1>1, <1>2
<1>q. QED BY <1>3 DEF found

LEMMA ScanKeeps == ASSUME SessionInv, Scan PROVE SessionInv'
<1>1. PICK files \in SUBSET {"tcp", "tcp6"} :
        /\ \/ files = {"tcp", "tcp6"} /\ UNCHANGED faults
           \/ files # {"tcp", "tcp6"} /\ faults > 0 /\ faults' = faults - 1
        /\ LET current == Filter(ScanListeningPorts(files, open, DOMAIN forwarded)) IN
             todo' = [forward |-> Restrict(current, DOMAIN current \ DOMAIN forwarded),
                      unforward |-> DOMAIN forwarded \ DOMAIN current]
  BY DEF Scan
<1> DEFINE current == Filter(ScanListeningPorts(files, open, DOMAIN forwarded))
           added == Restrict(current, DOMAIN current \ DOMAIN forwarded)
<1>2. /\ phase = "session" /\ todo' = [forward |-> added, unforward |-> DOMAIN forwarded \ DOMAIN current]
      /\ UNCHANGED <<open, phase, outcome, delay, forwarded, shutdown, wireVars, hostVars>>
      /\ faults' = faults \/ (faults > 0 /\ faults' = faults - 1)
  BY <1>1 DEF Scan, Idle
<1>3. DOMAIN current \subseteq Ports /\ \A p \in DOMAIN current : current[p] \in Names
  BY FoundTyped DEF SessionInv, TypeOK, hostVars, taskVars
<1> HIDE DEF current
<1>4. DOMAIN added \subseteq Ports /\ \A p \in DOMAIN added : added[p] \in Names
  BY <1>3 DEF Restrict
<1> HIDE DEF added
<1>5. todo'.forward = added /\ todo'.unforward = DOMAIN forwarded \ DOMAIN current
  BY <1>2
<1>6. faults' \in 0..MaxFaults
  BY <1>2, SessionAssumption DEF SessionInv, TypeOK, hostVars, taskVars
<1>7. TypeOK'
  BY <1>2, <1>4, <1>5, <1>6 DEF SessionInv, TypeOK, wireVars, hostVars, taskVars, PortMap
<1>8. WireOK' /\ NamesOK'
  <2>1. WireOK'
    BY <1>2 DEF SessionInv, WireOK, wireVars, hostVars, taskVars
  <2>2. NamesOK'
    BY <1>2, <1>4, <1>5 DEF SessionInv, NamesOK
  <2>q. QED BY <2>1, <2>2
<1>9. FreshInv'
  BY <1>2 DEF FreshInv
<1>10. AgreeInv'
  <2>1. \A p \in Ports : PortOK(p) => PortOK(p)'
    BY <1>2, PortStays DEF wireVars, hostVars, taskVars
  <2>q. QED BY <2>1, <1>2 DEF SessionInv, AgreeInv, Working, wireVars
<1>q. QED BY <1>7, <1>8, <1>9, <1>10 DEF SessionInv

LEMMA SendForwardKeeps == ASSUME SessionInv, NEW p \in Ports, SendForward(p) PROVE SessionInv'
<1>0. PICK n \in Names : n = todo.forward[p]
  BY DEF SendForward, SessionInv, NamesOK
<1>1. /\ p \in DOMAIN todo.forward /\ toHost' = IF link = "up" THEN Append(toHost, Forward(p, n)) ELSE toHost
      /\ forwarded' = With(forwarded, p, n) /\ todo' = [todo EXCEPT !.forward = Without(@, p)]
      /\ crossed' = crossed \ {p}
      /\ UNCHANGED <<open, phase, outcome, delay, shutdown, link, reply, acks, hostForwards, taskVars, dropped, intruded, faults>>
  BY <1>0 DEF SendForward, Send, Forward
<1>2. Forward(p, n) \in Messages /\ Forward(p, n).port = p
  BY DEF Forward, Messages
<1>3. /\ DOMAIN forwarded' = {p} \cup DOMAIN forwarded /\ forwarded'[p] = n
      /\ \A q \in DOMAIN forwarded : q # p => forwarded'[q] = forwarded[q]
  <2>1. forwarded' = With(forwarded, p, n)
    BY <1>1
  <2>q. QED BY <2>1 DEF With
<1>4. /\ todo' = [forward |-> todo'.forward, unforward |-> todo'.unforward]
      /\ todo'.forward = Without(todo.forward, p) /\ todo'.unforward = todo.unforward
  BY <1>1 DEF SessionInv, NamesOK
<1>5. /\ DOMAIN todo'.forward = DOMAIN todo.forward \ {p}
      /\ \A q \in DOMAIN todo.forward : q # p => todo'.forward[q] = todo.forward[q]
  <2>1. todo'.forward = Without(todo.forward, p)
    BY <1>4
  <2>q. QED BY <2>1 DEF Without, Restrict
<1>6. phase \in {"reforward", "session"}
  BY <1>1, NothingIs DEF SessionInv, FreshInv
<1>7. TypeOK'
  BY <1>1, <1>3, <1>4, <1>5 DEF SessionInv, TypeOK, PortMap, taskVars
<1>8. WireOK'
  BY <1>1, <1>2, SaidMore DEF SessionInv, WireOK, taskVars
<1>9. NamesOK'
  <2>1. \A q \in DOMAIN todo'.forward : todo'.forward[q] \in Names
    BY <1>5 DEF SessionInv, NamesOK
  <2>2. \A q \in DOMAIN forwarded' : forwarded'[q] \in Names
    BY <1>0, <1>3 DEF SessionInv, NamesOK
  <2>q. QED BY <2>1, <2>2, <1>4 DEF NamesOK
<1>10. FreshInv'
  <2>1. ASSUME phase = "reforward"
        PROVE  todo'.unforward = {} /\ \A q \in DOMAIN todo'.forward :
                 q \in DOMAIN forwarded' /\ todo'.forward[q] = forwarded'[q]
    BY <2>1, <1>0, <1>1, <1>3, <1>4, <1>5 DEF SessionInv, FreshInv
  <2>q. QED BY <2>1, <1>1, <1>6 DEF FreshInv
<1>11. AgreeInv'
  <2>1. SUFFICES ASSUME link = "up", NEW q \in Ports, PortOK(q) PROVE PortOK(q)'
    BY <1>1, <1>6 DEF SessionInv, AgreeInv, Working
  <2>2. /\ LastIs(Forward(p, n), p)'
        /\ q # p => (Silent(q) => Silent(q)') /\ \A x : LastIs(x, q) => LastIs(x, q)'
    BY <2>1, <1>1, <1>2, SaidMore DEF SessionInv, WireOK, taskVars
  <2>3. CASE q = p
    BY <2>2, <2>3, <1>3 DEF PortOK, Recorded
  <2>4. CASE q # p /\ q \in DOMAIN forwarded
    <3>1. q \in DOMAIN forwarded' /\ forwarded'[q] = forwarded[q] /\ (Rejected(q) => Rejected(q)')
      BY <2>4, <1>1, <1>3 DEF Rejected
    <3>2. Recorded(q)
      BY <2>1, <2>4 DEF PortOK
    <3>3. Recorded(q)'
      BY <2>2, <2>4, <3>1, <3>2, <1>1, <1>5 DEF Recorded
    <3>q. QED BY <3>1, <3>3 DEF PortOK
  <2>5. CASE q # p /\ q \notin DOMAIN forwarded
    BY <2>1, <2>2, <2>5, <1>1, <1>3 DEF PortOK, Forgotten
  <2>q. QED BY <2>3, <2>4, <2>5
<1>q. QED BY <1>7, <1>8, <1>9, <1>10, <1>11 DEF SessionInv

LEMMA SendUnforwardKeeps == ASSUME SessionInv, NEW p \in Ports, SendUnforward(p) PROVE SessionInv'
<1>1. /\ p \in todo.unforward /\ toHost' = IF link = "up" THEN Append(toHost, Unforward(p)) ELSE toHost
      /\ forwarded' = Without(forwarded, p) /\ todo' = [todo EXCEPT !.unforward = @ \ {p}]
      /\ UNCHANGED <<open, phase, outcome, delay, shutdown, link, reply, acks, hostVars, faults>>
  BY DEF SendUnforward, Send, Unforward
<1>2. Unforward(p) \in Messages /\ Unforward(p).port = p
  BY DEF Unforward, Messages, Names
<1>3. /\ DOMAIN forwarded' = DOMAIN forwarded \ {p}
      /\ \A q \in DOMAIN forwarded : q # p => forwarded'[q] = forwarded[q]
  BY <1>1, WithoutIs
<1>4. /\ todo' = [forward |-> todo'.forward, unforward |-> todo'.unforward]
      /\ todo'.forward = todo.forward /\ todo'.unforward = todo.unforward \ {p}
  BY <1>1 DEF SessionInv, NamesOK
<1>5. phase = "session"
  BY <1>1, NothingIs DEF SessionInv, FreshInv
<1>6. TypeOK'
  BY <1>1, <1>3, <1>4 DEF SessionInv, TypeOK, PortMap, hostVars, taskVars
<1>7. WireOK'
  BY <1>1, <1>2, SaidMore DEF SessionInv, WireOK, hostVars, taskVars
<1>8. NamesOK'
  <2>1. \A q \in DOMAIN forwarded' : forwarded'[q] \in Names
    BY <1>3 DEF SessionInv, NamesOK
  <2>q. QED BY <2>1, <1>4 DEF SessionInv, NamesOK
<1>9. FreshInv'
  BY <1>1, <1>5 DEF FreshInv
<1>10. AgreeInv'
  <2>1. SUFFICES ASSUME link = "up", NEW q \in Ports, PortOK(q) PROVE PortOK(q)'
    BY <1>1, <1>5 DEF SessionInv, AgreeInv, Working
  <2>2. /\ LastIs(Unforward(p), p)'
        /\ q # p => (Silent(q) => Silent(q)') /\ \A x : LastIs(x, q) => LastIs(x, q)'
    BY <2>1, <1>1, <1>2, SaidMore DEF SessionInv, WireOK, hostVars, taskVars
  <2>3. CASE q = p
    BY <2>2, <2>3, <1>3 DEF PortOK, Forgotten
  <2>4. CASE q # p /\ q \in DOMAIN forwarded
    <3>1. q \in DOMAIN forwarded' /\ forwarded'[q] = forwarded[q] /\ (Rejected(q) => Rejected(q)')
      BY <2>4, <1>1, <1>3 DEF Rejected
    <3>2. Recorded(q)
      BY <2>1, <2>4 DEF PortOK
    <3>3. Recorded(q)'
      BY <2>2, <2>4, <3>1, <3>2, <1>1, <1>4, <1>5 DEF Recorded, hostVars, taskVars
    <3>q. QED BY <3>1, <3>3 DEF PortOK
  <2>5. CASE q # p /\ q \notin DOMAIN forwarded
    BY <2>1, <2>2, <2>5, <1>1, <1>3 DEF PortOK, Forgotten, hostVars, taskVars
  <2>q. QED BY <2>3, <2>4, <2>5
<1>q. QED BY <1>6, <1>7, <1>8, <1>9, <1>10 DEF SessionInv

LEMMA RecvForwardAckKeeps == ASSUME SessionInv, RecvForwardAck PROVE SessionInv'
<1> DEFINE a == Head(acks)
<1>1. /\ phase = "session" /\ todo = NoTodo /\ acks # <<>> /\ acks' = Tail(acks)
      /\ forwarded' = IF a.success THEN forwarded ELSE Without(forwarded, a.port)
      /\ crossed' = IF ~a.success /\ (a.port \in DOMAIN hostForwards \ intruded
                                      \/ \E i \in 1..Len(toHost) : toHost[i].port = a.port)
                    THEN crossed \cup {a.port} ELSE crossed
      /\ UNCHANGED <<open, phase, outcome, delay, todo, shutdown, link, reply, toHost, hostForwards, taskVars,
                     dropped, intruded, faults>>
  BY DEF RecvForwardAck, Idle
<1>2. /\ acks' \in Seq(Answers) /\ a \in Answers /\ a.port \in Ports
      /\ \A p : Rejected(p) => Rejected(p)' \/ (p = a.port /\ ~a.success)
  BY <1>1, AnsweredLess DEF SessionInv, WireOK, Answers, taskVars
<1>3. /\ DOMAIN forwarded' = IF a.success THEN DOMAIN forwarded ELSE DOMAIN forwarded \ {a.port}
      /\ \A q \in DOMAIN forwarded' : q \in DOMAIN forwarded /\ forwarded'[q] = forwarded[q]
  <2>1. CASE a.success
    BY <2>1, <1>1
  <2>2. CASE ~a.success
    <3>1. forwarded' = Without(forwarded, a.port)
      BY <2>2, <1>1
    <3>2. /\ DOMAIN forwarded' = DOMAIN forwarded \ {a.port}
          /\ \A q \in DOMAIN forwarded : q # a.port => forwarded'[q] = forwarded[q]
      BY <3>1, WithoutIs
    <3>q. QED BY <2>2, <3>2
  <2>q. QED BY <2>1, <2>2
<1>4. TypeOK'
  BY <1>1, <1>2, <1>3 DEF SessionInv, TypeOK, PortMap, taskVars
<1>5. WireOK' /\ NamesOK'
  BY <1>1, <1>2, <1>3 DEF SessionInv, WireOK, NamesOK, taskVars
<1>6. FreshInv'
  BY <1>1 DEF FreshInv
<1>7. AgreeInv'
  <2>1. SUFFICES ASSUME link = "up", NEW q \in Ports, PortOK(q) PROVE PortOK(q)'
    BY <1>1 DEF SessionInv, AgreeInv, Working
  <2>2. (Silent(q) => Silent(q)') /\ \A x : LastIs(x, q) => LastIs(x, q)'
    BY <1>1 DEF Silent, LastIs
  <2>3. CASE q \in DOMAIN forwarded'
    <3>1. q \in DOMAIN forwarded /\ forwarded'[q] = forwarded[q] /\ (Rejected(q) => Rejected(q)')
      BY <2>3, <1>2, <1>3
    <3>2. Recorded(q)
      BY <2>1, <3>1 DEF PortOK
    <3>3. Recorded(q)'
      BY <2>2, <3>1, <3>2, <1>1 DEF Recorded
    <3>q. QED BY <2>3, <3>3 DEF PortOK
  <2>4. CASE q \notin DOMAIN forwarded' /\ q \notin DOMAIN forwarded
    <3>1. Forgotten(q)
      BY <2>1, <2>4 DEF PortOK
    <3>2. Forgotten(q)'
      BY <3>1, <2>2, <1>1 DEF Forgotten
    <3>q. QED BY <3>2, <2>4 DEF PortOK
  <2>5. CASE q \notin DOMAIN forwarded' /\ q \in DOMAIN forwarded
    <3>1. q = a.port /\ ~a.success
      BY <2>5, <1>3
    <3>2. Forgotten(q)'
      BY <3>1, <2>2, <1>1 DEF Forgotten, Silent
    <3>q. QED BY <3>2, <2>5 DEF PortOK
  <2>q. QED BY <2>3, <2>4, <2>5
<1>q. QED BY <1>4, <1>5, <1>6, <1>7 DEF SessionInv

\* The Unforwards of a shutdown form a sequence: there are finitely many ports.
LEMMA ListedPorts ==
  ASSUME NEW S \in SUBSET Ports
  PROVE  SetToSeq(S) \in [1..Cardinality(S) -> S] /\ Cardinality(S) \in Nat
<1>1. PortOf \in Surjection(Sockets, Ports)
  BY DiscoveryAssumption DEF Surjection, Ports, Range
<1>2. IsFiniteSet(Ports)
  BY <1>1, FS_Surjection, DiscoveryAssumption
<1>3. IsFiniteSet(S)
  BY <1>2, FS_Subset
<1>4. Cardinality(S) \in Nat /\ ExistsBijection(1..Cardinality(S), S)
  BY <1>3, FS_CardinalityType
<1>5. PICK f : f \in Bijection(1..Cardinality(S), S)
  BY <1>4 DEF ExistsBijection
<1>6. f \in [1..Cardinality(S) -> S] /\ IsInjective(f)
  BY <1>5 DEF Bijection, Injection
<1>q. QED BY <1>4, <1>6 DEF SetToSeq

LEMMA RecvShutdownKeeps == ASSUME SessionInv, RecvShutdown PROVE SessionInv'
<1> DEFINE ports == SetToSeq(DOMAIN forwarded)
           msgs == [i \in DOMAIN ports |-> Unforward(ports[i])]
<1>1. /\ phase' = "draining" /\ outcome' = "shutdown" /\ shutdown' = FALSE /\ todo = NoTodo
      /\ toHost' = IF link = "up" THEN toHost \o msgs ELSE toHost
      /\ UNCHANGED <<open, delay, forwarded, todo, link, reply, acks, hostVars, faults>>
  BY DEF RecvShutdown, Idle, Unforward
<1>2. ports \in [1..Cardinality(DOMAIN forwarded) -> DOMAIN forwarded] /\ Cardinality(DOMAIN forwarded) \in Nat
      /\ DOMAIN forwarded \subseteq Ports
  BY ListedPorts DEF SessionInv, TypeOK, PortMap, hostVars, taskVars
<1>3. msgs \in [1..Cardinality(DOMAIN forwarded) -> Messages]
  <2>1. DOMAIN ports = 1..Cardinality(DOMAIN forwarded) /\ \A i \in DOMAIN ports : ports[i] \in Ports
    BY <1>2
  <2>2. \A i \in DOMAIN ports : Unforward(ports[i]) \in Messages
    BY <2>1 DEF Unforward, Messages, Names
  <2>q. QED BY <2>1, <2>2
<1>4. msgs \in Seq(Messages)
  BY <1>2, <1>3
<1> HIDE DEF msgs
<1>5. WireOK'
  BY <1>1, <1>4, ConcatProperties DEF SessionInv, WireOK, hostVars, taskVars
<1>6. TypeOK' /\ NamesOK'
  BY <1>1 DEF SessionInv, TypeOK, NamesOK, hostVars, taskVars, PortMap
<1>7. FreshInv' /\ AgreeInv'
  BY <1>1 DEF FreshInv, AgreeInv, Working
<1>q. QED BY <1>5, <1>6, <1>7 DEF SessionInv

\* A message about p says that p is not silent, which is all that the host's
\* steps before its end rely on.
LEMMA HostForwardKeeps == ASSUME SessionInv, HostForward PROVE SessionInv'
<1>0. PICK h \in Messages : h = Head(toHost)
  BY SaidLessHead DEF HostForward, SessionInv, WireOK
<1> DEFINE p == h.port
<1>1. /\ toHost # <<>> /\ h.type = "Forward" /\ hostForwards' = Without(hostForwards, p)
      /\ intruded' = intruded \ {p} /\ binding' = TRUE
      /\ UNCHANGED <<open, daemonVars, wireVars, registered, late, dropped, crossed, faults>>
  BY <1>0 DEF HostForward
<1>2. ~Silent(p)
  BY <1>0, <1>1, HeadSpeaks DEF SessionInv, WireOK
<1>3. /\ DOMAIN hostForwards' = DOMAIN hostForwards \ {p}
      /\ \A q \in DOMAIN hostForwards : q # p => hostForwards'[q] = hostForwards[q]
  BY <1>1, WithoutIs
<1>4. TypeOK'
  BY <1>1, <1>3 DEF SessionInv, TypeOK, PortMap, daemonVars, wireVars
<1>5. WireOK' /\ NamesOK'
  BY <1>0, <1>1 DEF SessionInv, WireOK, NamesOK, daemonVars, wireVars
<1>6. FreshInv'
  BY <1>1, <1>3 DEF SessionInv, FreshInv, daemonVars, wireVars
<1>7. AgreeInv'
  <2>1. SUFFICES ASSUME NEW q \in Ports, PortOK(q) PROVE PortOK(q)'
    BY <1>1 DEF SessionInv, AgreeInv, Working, daemonVars, wireVars
  <2>2. /\ forwarded' = forwarded /\ phase' = phase /\ todo' = todo /\ crossed' = crossed /\ dropped' = dropped
        /\ Rejected(q)' = Rejected(q) /\ Silent(q)' = Silent(q) /\ \A x : LastIs(x, q)' = LastIs(x, q)
    BY <1>1 DEF daemonVars, wireVars, Rejected, Silent, LastIs
  <2>3. Silent(q) => q # p
    BY <1>2
  <2>4. Recorded(q) => Recorded(q)'
    BY <2>2, <2>3, <1>1, <1>3 DEF Recorded
  <2>5. Forgotten(q) => Forgotten(q)'
    BY <2>2, <2>3, <1>1, <1>3 DEF Forgotten
  <2>q. QED BY <2>1, <2>2, <2>4, <2>5 DEF PortOK
<1>q. QED BY <1>4, <1>5, <1>6, <1>7 DEF SessionInv

LEMMA HostCommitKeeps == ASSUME SessionInv, HostCommit PROVE SessionInv'
<1>0. /\ toHost # <<>> /\ \E h \in Messages : h = Head(toHost) /\ h.type = "Forward"
  BY SaidLessHead DEF HostCommit, SessionInv, WireOK
<1>00. PICK h \in Messages : h = Head(toHost) /\ h.type = "Forward"
  BY <1>0
<1> DEFINE p == h.port
<1>1. /\ toHost' = Tail(toHost) /\ binding' = FALSE
      /\ dropped' = dropped \ {p} /\ intruded' = intruded \ {p}
      /\ hostForwards' = With(hostForwards, p, h.name)
      /\ acks' = IF link = "up" THEN Append(acks, [port |-> p, success |-> TRUE]) ELSE acks
      /\ UNCHANGED <<open, daemonVars, link, reply, registered, late, crossed, faults>>
  BY <1>00 DEF HostCommit, Acked
<1>2. /\ toHost' \in Seq(Messages) /\ ~Silent(p) /\ \A q : Silent(q) => Silent(q)'
      /\ \A q, x : LastIs(x, q) => LastIs(x, q)' \/ (Silent(q)' /\ x = h /\ q = p)
  BY <1>0, <1>00, <1>1, SaidLess DEF SessionInv, WireOK
<1>3. p \in Ports /\ [port |-> p, success |-> TRUE] \in Answers
  BY DEF Messages, Answers
<1>4. acks' \in Seq(Answers) /\ \A q : Rejected(q) => Rejected(q)'
  <2>1. CASE link = "up"
    BY <2>1, <1>1, <1>3, AnsweredMore DEF SessionInv, WireOK
  <2>2. CASE link # "up"
    BY <2>2, <1>1 DEF SessionInv, WireOK, Rejected
  <2>q. QED BY <2>1, <2>2
<1>5. /\ DOMAIN hostForwards' = {p} \cup DOMAIN hostForwards /\ hostForwards'[p] = h.name
      /\ \A q \in DOMAIN hostForwards : q # p => hostForwards'[q] = hostForwards[q]
  <2>1. hostForwards' = With(hostForwards, p, h.name)
    BY <1>1
  <2>q. QED BY <2>1 DEF With
<1>6. TypeOK'
  <2>1. TypeOK
    BY DEF SessionInv
  <2>2. PortMap(hostForwards)'
    BY <2>1, <1>3, <1>5 DEF TypeOK, PortMap
  <2>3. dropped' \subseteq Ports /\ intruded' \subseteq Ports /\ binding' \in BOOLEAN
    BY <2>1, <1>1 DEF TypeOK
  <2>4. UNCHANGED <<open, phase, outcome, delay, forwarded, todo, shutdown, link, reply, registered,
                    late, crossed, faults>>
    BY <1>1 DEF daemonVars
  <2>q. QED BY <2>1, <2>2, <2>3, <2>4 DEF TypeOK, PortMap
<1>7. WireOK' /\ NamesOK'
  BY <1>1, <1>2, <1>4 DEF SessionInv, WireOK, NamesOK, daemonVars
<1>8. FreshInv'
  BY <1>0, <1>1 DEF SessionInv, FreshInv, daemonVars
<1>9. AgreeInv'
  <2>1. SUFFICES ASSUME link = "up", NEW q \in Ports, PortOK(q) PROVE PortOK(q)'
    BY <1>1 DEF SessionInv, AgreeInv, Working, daemonVars
  <2>2. forwarded' = forwarded /\ phase' = phase /\ todo' = todo /\ crossed' = crossed
    BY <1>1 DEF daemonVars
  <2>3. CASE q \in DOMAIN forwarded
    <3>1. Recorded(q)
      BY <2>1, <2>3 DEF PortOK
    <3>2. CASE phase = "reforward" /\ q \in DOMAIN todo.forward
      BY <3>2, <2>2, <2>3 DEF PortOK, Recorded
    <3>3. PICK m : m = Forward(q, forwarded[q])
      OBVIOUS
    <3>4. CASE LastIs(m, q)
      <4>1. CASE LastIs(m, q)'
        BY <4>1, <3>3, <2>2, <2>3 DEF PortOK, Recorded
      <4>2. CASE Silent(q)' /\ m = h /\ q = p
        <5>1. h.name = forwarded'[q]
          BY <4>2, <3>3, <2>2 DEF Forward
        <5>q. QED BY <5>1, <4>2, <2>1, <2>2, <2>3, <1>5 DEF PortOK, Recorded
      <4>q. QED BY <4>1, <4>2, <3>4, <1>2
    <3>5. CASE /\ Silent(q)
               /\ \/ q \in DOMAIN hostForwards /\ hostForwards[q] = forwarded[q]
                  \/ Rejected(q) \/ q \in dropped \cup intruded
      <4>1. q # p /\ Silent(q)'
        BY <3>5, <1>2
      <4>2. \/ q \in DOMAIN hostForwards' /\ hostForwards'[q] = forwarded'[q]
            \/ Rejected(q)' \/ q \in dropped' \cup intruded'
        BY <4>1, <3>5, <2>2, <1>1, <1>4, <1>5
      <4>q. QED BY <4>1, <4>2, <2>2, <2>3 DEF PortOK, Recorded
    <3>q. QED BY <3>1, <3>2, <3>3, <3>4, <3>5 DEF Recorded
  <2>4. CASE q \notin DOMAIN forwarded
    <3>1. Forgotten(q)
      BY <2>1, <2>4 DEF PortOK
    <3>2. Unforward(q) # h
      BY <1>00 DEF Unforward
    <3>3. LastIs(Unforward(q), q) => LastIs(Unforward(q), q)'
      BY <3>2, <1>2
    <3>4. Unforward(q)' = Unforward(q)
      BY DEF Unforward
    <3>5. ASSUME Silent(q), q \notin DOMAIN hostForwards \ intruded
          PROVE  Silent(q)' /\ q \notin DOMAIN hostForwards' \ intruded'
      <4>1. q # p /\ Silent(q)'
        BY <3>5, <1>2
      <4>q. QED BY <4>1, <3>5, <1>1, <1>5
    <3>6. Forgotten(q)'
      BY <3>1, <3>3, <3>4, <3>5, <2>2 DEF Forgotten
    <3>q. QED BY <3>6, <2>2, <2>4 DEF PortOK
  <2>q. QED BY <2>3, <2>4
<1>q. QED BY <1>6, <1>7, <1>8, <1>9 DEF SessionInv

LEMMA HostRejectKeeps == ASSUME SessionInv, HostReject PROVE SessionInv'
<1>0. /\ toHost # <<>> /\ \E h \in Messages : h = Head(toHost) /\ h.type = "Forward"
  BY SaidLessHead DEF HostReject, SessionInv, WireOK
<1>00. PICK h \in Messages : h = Head(toHost) /\ h.type = "Forward"
  BY <1>0
<1> DEFINE p == h.port
<1>1. /\ toHost' = Tail(toHost) /\ binding' = FALSE /\ faults > 0 /\ faults' = faults - 1
      /\ acks' = IF link = "up" THEN Append(acks, [port |-> p, success |-> FALSE]) ELSE acks
      /\ UNCHANGED <<open, daemonVars, link, reply, registered, hostForwards, late, dropped, crossed, intruded>>
  BY <1>00 DEF HostReject, Acked
<1>2. /\ toHost' \in Seq(Messages) /\ ~Silent(p) /\ \A q : Silent(q) => Silent(q)'
      /\ \A q, x : LastIs(x, q) => LastIs(x, q)' \/ (Silent(q)' /\ x = h /\ q = p)
  BY <1>0, <1>00, <1>1, SaidLess DEF SessionInv, WireOK
<1>3. p \in Ports /\ [port |-> p, success |-> FALSE] \in Answers
  BY DEF Messages, Answers
<1>4. acks' \in Seq(Answers) /\ (\A q : Rejected(q) => Rejected(q)') /\ (link = "up" => Rejected(p)')
  <2>1. CASE link = "up"
    <3>1. [port |-> p, success |-> FALSE] \in Answers /\ acks \in Seq(Answers)
      BY <1>3 DEF SessionInv, WireOK
    <3>q. QED BY <2>1, <3>1, <1>1, AnsweredMore
  <2>2. CASE link # "up"
    BY <2>2, <1>1 DEF SessionInv, WireOK, Rejected
  <2>q. QED BY <2>1, <2>2
<1>5. faults' \in 0..MaxFaults
  BY <1>1, SessionAssumption DEF SessionInv, TypeOK
<1>6. TypeOK'
  <2>1. TypeOK
    BY DEF SessionInv
  <2>2. UNCHANGED <<open, phase, outcome, delay, forwarded, todo, shutdown, link, reply, registered,
                    hostForwards, late, dropped, crossed, intruded>>
    BY <1>1 DEF daemonVars
  <2>3. binding' \in BOOLEAN
    BY <1>1
  <2>q. QED BY <2>1, <2>2, <2>3, <1>5 DEF TypeOK, PortMap
<1>7. WireOK' /\ NamesOK'
  BY <1>1, <1>2, <1>4 DEF SessionInv, WireOK, NamesOK, daemonVars
<1>8. FreshInv'
  BY <1>0, <1>1 DEF SessionInv, FreshInv, daemonVars
<1>9. AgreeInv'
  <2>1. SUFFICES ASSUME link = "up", NEW q \in Ports, PortOK(q) PROVE PortOK(q)'
    BY <1>1 DEF SessionInv, AgreeInv, Working, daemonVars
  <2>2. forwarded' = forwarded /\ phase' = phase /\ todo' = todo
    BY <1>1 DEF daemonVars
  <2>3. CASE q \in DOMAIN forwarded
    <3>1. Recorded(q)
      BY <2>1, <2>3 DEF PortOK
    <3>2. CASE phase = "reforward" /\ q \in DOMAIN todo.forward
      BY <3>2, <2>2, <2>3 DEF PortOK, Recorded
    <3>3. PICK m : m = Forward(q, forwarded[q])
      OBVIOUS
    <3>4. CASE LastIs(m, q)
      <4>1. CASE LastIs(m, q)'
        BY <4>1, <3>3, <2>2, <2>3 DEF PortOK, Recorded
      <4>2. CASE Silent(q)' /\ q = p
        BY <4>2, <2>1, <2>2, <2>3, <1>4 DEF PortOK, Recorded
      <4>q. QED BY <4>1, <4>2, <3>4, <1>2
    <3>5. CASE /\ Silent(q)
               /\ \/ q \in DOMAIN hostForwards /\ hostForwards[q] = forwarded[q]
                  \/ Rejected(q) \/ q \in dropped \cup intruded
      <4>1. Silent(q)' /\ (Rejected(q) => Rejected(q)')
        BY <3>5, <1>2, <1>4
      <4>q. QED BY <4>1, <3>5, <2>2, <2>3, <1>1 DEF PortOK, Recorded
    <3>q. QED BY <3>1, <3>2, <3>3, <3>4, <3>5 DEF Recorded
  <2>4. CASE q \notin DOMAIN forwarded
    <3>1. Forgotten(q)
      BY <2>1, <2>4 DEF PortOK
    <3>2. Unforward(q) # h
      BY <1>00 DEF Unforward
    <3>3. LastIs(Unforward(q), q) => LastIs(Unforward(q), q)'
      BY <3>2, <1>2
    <3>4. Unforward(q)' = Unforward(q)
      BY DEF Unforward
    <3>5. Forgotten(q)'
      BY <3>1, <3>3, <3>4, <1>1, <1>2 DEF Forgotten
    <3>q. QED BY <3>5, <2>2, <2>4 DEF PortOK
  <2>q. QED BY <2>3, <2>4
<1>q. QED BY <1>6, <1>7, <1>8, <1>9 DEF SessionInv

LEMMA HostUnforwardKeeps == ASSUME SessionInv, HostUnforward PROVE SessionInv'
<1>0. PICK h \in Messages : h = Head(toHost)
  BY SaidLessHead DEF HostUnforward, SessionInv, WireOK
<1> DEFINE p == h.port
<1>1. /\ toHost # <<>> /\ h.type = "Unforward" /\ toHost' = Tail(toHost) /\ dropped' = dropped \ {p}
      /\ hostForwards' = Without(hostForwards, p) /\ intruded' = intruded \ {p}
      /\ UNCHANGED <<open, daemonVars, link, reply, acks, faults, taskVars, crossed>>
  BY <1>0 DEF HostUnforward
<1>2. /\ toHost' \in Seq(Messages) /\ ~Silent(p) /\ \A q : Silent(q) => Silent(q)'
      /\ \A q, x : LastIs(x, q) => LastIs(x, q)' \/ (Silent(q)' /\ x = h /\ q = p)
  BY <1>0, <1>1, SaidLess DEF SessionInv, WireOK
<1>3. /\ DOMAIN hostForwards' = DOMAIN hostForwards \ {p}
      /\ \A q \in DOMAIN hostForwards : q # p => hostForwards'[q] = hostForwards[q]
  BY <1>1 DEF Without, Restrict
<1>4. TypeOK'
  BY <1>1, <1>3 DEF SessionInv, TypeOK, PortMap, daemonVars, taskVars
<1>5. WireOK' /\ NamesOK'
  BY <1>0, <1>1, <1>2 DEF SessionInv, WireOK, NamesOK, daemonVars, taskVars
<1>6. FreshInv'
  BY <1>1 DEF SessionInv, FreshInv, daemonVars
<1>7. AgreeInv'
  <2>1. SUFFICES ASSUME link = "up", NEW q \in Ports, PortOK(q) PROVE PortOK(q)'
    BY <1>1 DEF SessionInv, AgreeInv, Working, daemonVars
  <2>2. /\ forwarded' = forwarded /\ phase' = phase /\ todo' = todo /\ crossed' = crossed
        /\ Rejected(q)' = Rejected(q)
    BY <1>1 DEF daemonVars, Rejected
  <2>3. CASE q \in DOMAIN forwarded
    <3>1. Recorded(q)
      BY <2>1, <2>3 DEF PortOK
    <3>2. PICK m : m = Forward(q, forwarded[q])
      OBVIOUS
    <3>3. m # h
      BY <3>2, <1>1 DEF Forward
    <3>4. LastIs(m, q) => LastIs(m, q)'
      BY <3>3, <1>2
    <3>5. Silent(q) => q # p /\ Silent(q)'
      BY <1>2
    <3>6. Recorded(q)'
      BY <3>1, <3>2, <3>4, <3>5, <2>2, <1>1, <1>3 DEF Recorded
    <3>q. QED BY <3>6, <2>2, <2>3 DEF PortOK
  <2>4. CASE q \notin DOMAIN forwarded
    <3>1. Forgotten(q)
      BY <2>1, <2>4 DEF PortOK
    <3>2. LastIs(Unforward(q), q) => LastIs(Unforward(q), q)' \/ (Silent(q)' /\ q = p)
      BY <1>2
    <3>3. Unforward(q)' = Unforward(q)
      BY DEF Unforward
    <3>4. ASSUME Silent(q), q \notin DOMAIN hostForwards \ intruded
          PROVE  Silent(q)' /\ q \notin DOMAIN hostForwards' \ intruded'
      <4>1. q # p /\ Silent(q)'
        BY <3>4, <1>2
      <4>q. QED BY <4>1, <3>4, <1>1, <1>3
    <3>5. q = p => q \notin DOMAIN hostForwards'
      BY <1>3
    <3>6. Forgotten(q)'
      BY <3>1, <3>2, <3>3, <3>4, <3>5, <2>2 DEF Forgotten
    <3>q. QED BY <3>6, <2>2, <2>4 DEF PortOK
  <2>q. QED BY <2>3, <2>4
<1>q. QED BY <1>4, <1>5, <1>6, <1>7 DEF SessionInv

LEMMA AdminUnforwardKeeps == ASSUME SessionInv, NEW p \in Ports, AdminUnforward(p) PROVE SessionInv'
<1>1. /\ p \in DOMAIN hostForwards /\ hostForwards' = Without(hostForwards, p) /\ dropped' = dropped \cup {p}
      /\ faults > 0 /\ faults' = faults - 1 /\ UNCHANGED <<open, daemonVars, wireVars, taskVars, crossed, intruded>>
  BY DEF AdminUnforward
<1>2. /\ DOMAIN hostForwards' = DOMAIN hostForwards \ {p}
      /\ \A q \in DOMAIN hostForwards : q # p => hostForwards'[q] = hostForwards[q]
  BY <1>1 DEF Without, Restrict
<1>3. faults' \in 0..MaxFaults
  BY <1>1, SessionAssumption DEF SessionInv, TypeOK
<1>4. TypeOK'
  BY <1>1, <1>2, <1>3 DEF SessionInv, TypeOK, PortMap, daemonVars, wireVars, taskVars
<1>5. WireOK' /\ NamesOK'
  BY <1>1 DEF SessionInv, WireOK, NamesOK, daemonVars, wireVars, taskVars
<1>6. FreshInv'
  BY <1>1, <1>2, NothingIs DEF SessionInv, FreshInv, daemonVars, wireVars
<1>7. AgreeInv'
  <2>1. SUFFICES ASSUME NEW q \in Ports, PortOK(q) PROVE PortOK(q)'
    BY <1>1 DEF SessionInv, AgreeInv, Working, daemonVars, wireVars
  <2>2. /\ forwarded' = forwarded /\ phase' = phase /\ todo' = todo /\ crossed' = crossed
        /\ Rejected(q)' = Rejected(q) /\ Silent(q)' = Silent(q) /\ \A x : LastIs(x, q)' = LastIs(x, q)
    BY <1>1 DEF daemonVars, wireVars, Rejected, Silent, LastIs
  <2>3. Recorded(q) => Recorded(q)'
    BY <2>2, <1>1, <1>2 DEF Recorded
  <2>4. Forgotten(q) => Forgotten(q)'
    BY <2>2, <1>1, <1>2 DEF Forgotten
  <2>q. QED BY <2>1, <2>2, <2>3, <2>4 DEF PortOK
<1>q. QED BY <1>4, <1>5, <1>6, <1>7 DEF SessionInv

\* A superseded connection changes the forward of one port at most, and only
\* the host's side: that port is then recorded in intruded.
LEMMA IntrudeKeeps ==
  ASSUME SessionInv, NEW p \in Ports, NEW changed, Intrude(p, changed),
         DOMAIN changed \subseteq DOMAIN hostForwards \cup {p},
         \A q \in DOMAIN hostForwards : q # p => q \in DOMAIN changed /\ changed[q] = hostForwards[q],
         \A l \in late' : l.msg.port \in Ports /\ l.at \in {"checked", "binding"}
  PROVE  SessionInv'
<1>1. /\ hostForwards' = changed
      /\ intruded' = IF changed = hostForwards THEN intruded ELSE intruded \cup {p}
      /\ UNCHANGED <<open, daemonVars, wireVars, registered, binding, dropped, crossed, faults>>
  BY DEF Intrude
<1>2. TypeOK'
  BY <1>1 DEF SessionInv, TypeOK, PortMap, daemonVars, wireVars
<1>3. WireOK' /\ NamesOK'
  BY <1>1 DEF SessionInv, WireOK, NamesOK, daemonVars, wireVars
<1>4. FreshInv'
  BY <1>1 DEF SessionInv, FreshInv, daemonVars, wireVars
<1>5. AgreeInv'
  <2>1. SUFFICES ASSUME NEW q \in Ports, PortOK(q) PROVE PortOK(q)'
    BY <1>1 DEF SessionInv, AgreeInv, Working, daemonVars, wireVars
  <2>2. /\ forwarded' = forwarded /\ phase' = phase /\ todo' = todo /\ crossed' = crossed /\ dropped' = dropped
        /\ Rejected(q)' = Rejected(q) /\ Silent(q)' = Silent(q) /\ \A x : LastIs(x, q)' = LastIs(x, q)
    BY <1>1 DEF daemonVars, wireVars, Rejected, Silent, LastIs
  <2>3. Recorded(q) => Recorded(q)'
    BY <2>2, <1>1 DEF Recorded
  <2>4. Forgotten(q) => Forgotten(q)'
    BY <2>2, <1>1 DEF Forgotten
  <2>q. QED BY <2>1, <2>2, <2>3, <2>4 DEF PortOK
<1>q. QED BY <1>2, <1>3, <1>4, <1>5 DEF SessionInv

LEMMA SupersededKeeps ==
  ASSUME SessionInv, NEW l \in late, LateTeardown(l) \/ LateCommit(l)
  PROVE  SessionInv'
<1> DEFINE p == l.msg.port
<1>1. p \in Ports /\ \A x \in late : x.msg.port \in Ports /\ x.at \in {"checked", "binding"}
  BY DEF SessionInv, TypeOK
<1>2. CASE LateTeardown(l)
  <2>1. /\ Intrude(p, Without(hostForwards, p))
        /\ late' \subseteq late \cup {[l EXCEPT !.at = "binding"]}
    BY <1>2 DEF LateTeardown
  <2>2. ASSUME NEW x \in late' PROVE x.msg.port \in Ports /\ x.at \in {"checked", "binding"}
    <3>1. CASE x \in late
      BY <3>1, <1>1
    <3>2. CASE x = [l EXCEPT !.at = "binding"]
      BY <3>2, <1>1, <1>2 DEF LateTeardown
    <3>q. QED BY <2>1, <3>1, <3>2
  <2>3. /\ DOMAIN Without(hostForwards, p) = DOMAIN hostForwards \ {p}
        /\ \A q \in DOMAIN hostForwards : q # p => Without(hostForwards, p)[q] = hostForwards[q]
    BY WithoutIs
  <2>q. QED BY <2>1, <2>2, <2>3, <1>1, IntrudeKeeps
<1>3. CASE LateCommit(l)
  <2>1. late' = late \ {l}
    BY <1>3 DEF LateCommit
  <2>2. CASE Intrude(p, hostForwards)
    BY <2>1, <2>2, <1>1, IntrudeKeeps
  <2>3. CASE Intrude(p, With(hostForwards, p, l.msg.name))
    <3>1. /\ DOMAIN With(hostForwards, p, l.msg.name) = {p} \cup DOMAIN hostForwards
          /\ \A q \in DOMAIN hostForwards : q # p => With(hostForwards, p, l.msg.name)[q] = hostForwards[q]
      BY DEF With
    <3>q. QED BY <2>1, <2>3, <3>1, <1>1, IntrudeKeeps
  <2>q. QED BY <2>2, <2>3, <1>3 DEF LateCommit
<1>q. QED BY <1>2, <1>3
------------------------------------------------------------------------------
LEMMA InitKeeps == ASSUME Init PROVE SessionInv
<1>1. Initial \in Initial..MaxDelay /\ MaxFaults \in 0..MaxFaults /\ open \subseteq Sockets
  BY SessionAssumption DEF Init
<1>2. TypeOK
  BY <1>1, NothingIs DEF Init, TypeOK, PortMap
<1>3. WireOK /\ NamesOK
  BY NothingIs DEF Init, WireOK, NamesOK
<1>4. FreshInv /\ AgreeInv
  BY DEF Init, FreshInv, AgreeInv, Working
<1>q. QED BY <1>2, <1>3, <1>4 DEF SessionInv

LEMMA NextKeeps == ASSUME SessionInv, [Next]_vars PROVE SessionInv'
<1>1. CASE Registration
  BY <1>1, BetweenKeeps, ConnectKeeps, RecvRegisterAckKeeps, ReforwardDoneKeeps DEF Registration
<1>2. CASE Scan
  BY <1>2, ScanKeeps
<1>3. CASE Sending
  BY <1>3, SendFailsKeeps, SendForwardKeeps, SendUnforwardKeeps DEF Sending
<1>4. CASE Receiving
  BY <1>4, RecvForwardAckKeeps, BetweenKeeps, RecvShutdownKeeps, DrainedKeeps DEF Receiving
<1>5. CASE Host
  BY <1>5, HostAnswersKeeps, HostForwardKeeps, HostCommitKeeps, HostRejectKeeps, HostUnforwardKeeps,
     HostCleanupKeeps, SupersededKeeps DEF Host, Superseded
<1>6. CASE Environment
  BY <1>6, BetweenKeeps, CutKeeps, CrashKeeps, OutsideKeeps, AdminUnforwardKeeps DEF Environment
<1>7. CASE UNCHANGED vars
  BY <1>7, StutterKeeps
<1>q. QED BY <1>1, <1>2, <1>3, <1>4, <1>5, <1>6, <1>7 DEF Next, Daemon

LEMMA SessionInvariant == Spec => []SessionInv
<1>1. Init => SessionInv
  BY InitKeeps
<1>2. SessionInv /\ [Next]_vars => SessionInv'
  BY NextKeeps
<1>q. QED BY <1>1, <1>2, PTL DEF Spec

\* run_session, re_forward_ports and dispatch_container_message: whatever is
\* rejected, cut, re-forwarded or rescanned, a port the daemon has recorded is
\* forwarded on the host under the recorded name, or the message that settles
\* it is on its way, or `dbr unforward' or a superseded connection took it.
THEOREM NoPhantomForwardHolds == Spec => []NoPhantomForward
<1>1. SessionInv => NoPhantomForward
  <2>1. SUFFICES ASSUME SessionInv, InSession, NEW p \in DOMAIN forwarded
                 PROVE  \/ p \in DOMAIN hostForwards /\ hostForwards[p] = forwarded[p]
                        \/ OnWire("Forward", p) \/ Rejected(p) \/ p \in dropped \cup intruded
    BY DEF SessionInv, NoPhantomForward
  <2>2. p \in Ports /\ Working /\ phase = "session"
    BY <2>1 DEF SessionInv, TypeOK, PortMap, InSession, Working
  <2>3. Recorded(p)
    BY <2>1, <2>2 DEF SessionInv, AgreeInv, PortOK
  <2>4. LastIs(Forward(p, forwarded[p]), p) => OnWire("Forward", p)
    BY DEF LastIs, Forward, OnWire
  <2>q. QED BY <2>2, <2>3, <2>4 DEF Recorded
<1>q. QED BY <1>1, SessionInvariant, PTL

\* The host keeps no port the daemon gave up, unless its Unforward is on its
\* way, a late rejection crossed a newer Forward (the ForwardAck branch) or a
\* superseded connection's handle_forward inserted it after the reconnect.
THEOREM NoStaleForwardHolds == Spec => []NoStaleForward
<1>1. SessionInv => NoStaleForward
  <2>1. SUFFICES ASSUME SessionInv, InSession, NEW p \in DOMAIN hostForwards \ DOMAIN forwarded
                 PROVE  OnWire("Unforward", p) \/ p \in crossed \cup intruded
    BY DEF NoStaleForward
  <2>2. p \in Ports /\ Working
    BY <2>1 DEF SessionInv, TypeOK, PortMap, InSession, Working
  <2>3. Forgotten(p)
    BY <2>1, <2>2 DEF SessionInv, AgreeInv, PortOK
  <2>4. LastIs(Unforward(p), p) => OnWire("Unforward", p)
    BY DEF LastIs, Unforward, OnWire
  <2>q. QED BY <2>1, <2>3, <2>4 DEF Forgotten
<1>q. QED BY <1>1, SessionInvariant, PTL
==============================================================================
