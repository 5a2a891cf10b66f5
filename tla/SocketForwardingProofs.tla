------------------------ MODULE SocketForwardingProofs ------------------------
(***************************************************************************)
(* For any sockets, limits, registrations and clients: the container       *)
(* mirrors what the host forwards once nothing is on its way, its mirrors  *)
(* can be reached, and no socket file is left behind unless the file       *)
(* operation that should have removed it failed.  The invariant says       *)
(* what the messages on their way will make of each id.                    *)
(***************************************************************************)
EXTENDS SocketForwarding, SequenceTheorems, FiniteSetTheorems, TLAPS

Fwd(id) == Msg("SocketForward", id)
Unf(id) == Msg("SocketUnforward", id)
Messages == [type : {"SocketForward", "SocketUnforward"}, id : Nat]

\* No socket is announced again after its removal.
Ordered(s) == \A i, j \in 1..Len(s) : i < j => \A id \in Nat : ~(s[i] = Unf(id) /\ s[j] = Fwd(id))
NoClash(A, B) == \A id \in Nat : ~(Unf(id) \in A /\ Fwd(id) \in B)

\* The part of the broadcast under way that will reach the session, and all
\* that will.
Cast == IF target THEN ToSet(outbox) ELSE {}
OnItsWay == ToSet(wire) \cup ToSet(queue) \cup Cast

TablesOK ==
  /\ info \in Seq(HostPaths) /\ known \subseteq Ids /\ forwards \subseteq Ids /\ mirrors \subseteq Ids
  /\ found.new \subseteq Ids /\ found.gone \subseteq Ids
  /\ target \in BOOLEAN /\ reg \in {"none", "inserted", "open"}
  /\ outbox \in Seq(Messages) /\ queue \in Seq(Messages) /\ wire \in Seq(Messages)
  /\ \A m \in ToSet(wire) \cup ToSet(queue) \cup ToSet(outbox) : m.id \in Ids
  /\ files \in [Paths -> Ids \cup {None, Orphan}] /\ stuck \subseteq Paths
LimitsOK == Cardinality(known) <= MaxSockets /\ Len(queue) <= Queue
ClientsOK ==
  /\ client \in [Clients -> {"idle", "queued", "sent", "bridged"}]
  /\ pend \in [Clients -> {"none", "asked", "waiting", "bridged"}]

\* One scan at a time; the ids of a scan are new to everybody.
ScanInv ==
  /\ found # Nothing => outbox = <<>>
  /\ found.new \cap (found.gone \cup forwards \cup mirrors) = {}
  /\ \A m \in OnItsWay : m.id \notin found.new
SessionInv ==
  /\ reg = "none" => queue = <<>> /\ ~target
  /\ reg # "open" => wire = <<>> /\ mirrors = {}
OrderInv ==
  /\ Ordered(wire) /\ Ordered(queue) /\ Ordered(outbox)
  /\ NoClash(ToSet(wire), ToSet(queue) \cup Cast) /\ NoClash(ToSet(queue), Cast)

\* What the messages on their way will make of an id that was not lost.
MatchInv ==
  /\ \A id \in forwards : Unf(id) \notin OnItsWay
  /\ \A id \in forwards \ missed : id \in mirrors \/ Fwd(id) \in OnItsWay \/ reg # "open"
  /\ \A id \in Ids \ (forwards \cup missed) :
       Unf(id) \in OnItsWay \/ (id \notin mirrors /\ Fwd(id) \notin OnItsWay)

\* Two mirrors of one path are recorded, and a mirror that was not disturbed
\* has its file.
FileInv ==
  /\ NoStaleFile
  /\ \A a, b \in mirrors : a # b /\ PathOf(a) = PathOf(b) => PathOf(a) \in shared
  /\ \A id \in mirrors \ missed : PathOf(id) \notin shared => files[PathOf(id)] = id

Core ==
  TablesOK /\ LimitsOK /\ ScanInv /\ SessionInv /\ OrderInv /\ MatchInv /\ FileInv
SocketInv == Core /\ ClientsOK
------------------------------------------------------------------------------
(* Sequences of messages *)

LEMMA ToSetEmpty == ToSet(<<>>) = {}
BY DEF ToSet

LEMMA ToSetHead ==
  ASSUME NEW S, NEW s \in Seq(S), s # <<>>
  PROVE  /\ Head(s) \in S /\ Tail(s) \in Seq(S) /\ Len(Tail(s)) = Len(s) - 1
         /\ ToSet(s) = {Head(s)} \cup ToSet(Tail(s))
<1>1. /\ Head(s) \in S /\ Head(s) = s[1] /\ Tail(s) \in Seq(S) /\ Len(Tail(s)) = Len(s) - 1
      /\ \A i \in 1..Len(Tail(s)) : Tail(s)[i] = s[i + 1]
  BY HeadTailProperties
<1>2. Len(s) \in Nat /\ Len(s) # 0 /\ DOMAIN s = 1..Len(s) /\ DOMAIN Tail(s) = 1..Len(Tail(s))
  BY <1>1, EmptySeq, LenProperties
<1>3. ToSet(s) \subseteq {Head(s)} \cup ToSet(Tail(s))
  <2>1. SUFFICES ASSUME NEW i \in 1..Len(s) PROVE s[i] \in {Head(s)} \cup ToSet(Tail(s))
    BY <1>2 DEF ToSet
  <2>2. CASE i = 1
    BY <2>2, <1>1
  <2>3. CASE i # 1
    <3>1. i - 1 \in 1..Len(Tail(s)) /\ (i - 1) + 1 = i
      BY <2>3, <1>1, <1>2
    <3>2. Tail(s)[i - 1] = s[i]
      BY <3>1, <1>1
    <3>q. QED BY <3>1, <3>2, <1>2 DEF ToSet
  <2>q. QED BY <2>2, <2>3
<1>4. {Head(s)} \cup ToSet(Tail(s)) \subseteq ToSet(s)
  <2>1. Head(s) \in ToSet(s)
    BY <1>1, <1>2 DEF ToSet
  <2>2. ASSUME NEW i \in 1..Len(Tail(s)) PROVE Tail(s)[i] \in ToSet(s)
    <3>1. i + 1 \in 1..Len(s)
      BY <1>1, <1>2
    <3>q. QED BY <3>1, <1>1, <1>2 DEF ToSet
  <2>q. QED BY <2>1, <2>2, <1>2 DEF ToSet
<1>q. QED BY <1>1, <1>3, <1>4

LEMMA ToSetAppend ==
  ASSUME NEW S, NEW s \in Seq(S), NEW x \in S
  PROVE  /\ Append(s, x) \in Seq(S) /\ Len(Append(s, x)) = Len(s) + 1
         /\ ToSet(Append(s, x)) = ToSet(s) \cup {x}
<1>1. /\ Append(s, x) \in Seq(S) /\ Len(Append(s, x)) = Len(s) + 1
      /\ \A i \in 1..Len(s) : Append(s, x)[i] = s[i]
      /\ Append(s, x)[Len(s) + 1] = x
  BY AppendProperties
<1>2. Len(s) \in Nat /\ DOMAIN s = 1..Len(s) /\ DOMAIN Append(s, x) = 1..(Len(s) + 1)
  BY <1>1, LenProperties
<1>3. \A i : i \in 1..(Len(s) + 1) <=> (i \in 1..Len(s) \/ i = Len(s) + 1)
  BY <1>2
<1>q. QED BY <1>1, <1>2, <1>3 DEF ToSet

LEMMA ToSetConcat ==
  ASSUME NEW S, NEW s \in Seq(S), NEW t \in Seq(S)
  PROVE  s \o t \in Seq(S) /\ ToSet(s \o t) = ToSet(s) \cup ToSet(t)
<1>1. /\ s \o t \in Seq(S) /\ Len(s \o t) = Len(s) + Len(t)
      /\ \A i \in 1..(Len(s) + Len(t)) : (s \o t)[i] = IF i <= Len(s) THEN s[i] ELSE t[i - Len(s)]
  BY ConcatProperties
<1>2. /\ Len(s) \in Nat /\ Len(t) \in Nat /\ DOMAIN s = 1..Len(s) /\ DOMAIN t = 1..Len(t)
      /\ DOMAIN (s \o t) = 1..(Len(s) + Len(t))
  BY <1>1, LenProperties
<1>3. ASSUME NEW i \in 1..(Len(s) + Len(t)) PROVE (s \o t)[i] \in ToSet(s) \cup ToSet(t)
  <2>1. CASE i <= Len(s)
    <3>1. i \in 1..Len(s) /\ (s \o t)[i] = s[i]
      BY <2>1, <1>1, <1>2
    <3>q. QED BY <3>1, <1>2 DEF ToSet
  <2>2. CASE ~(i <= Len(s))
    <3>1. i - Len(s) \in 1..Len(t) /\ (s \o t)[i] = t[i - Len(s)]
      BY <2>2, <1>1, <1>2
    <3>q. QED BY <3>1, <1>2 DEF ToSet
  <2>q. QED BY <2>1, <2>2
<1>4. ASSUME NEW i \in 1..Len(s) PROVE s[i] \in ToSet(s \o t)
  <2>1. i \in 1..(Len(s) + Len(t)) /\ i <= Len(s)
    BY <1>2
  <2>2. (s \o t)[i] = s[i]
    BY <2>1, <1>1
  <2>q. QED BY <2>1, <2>2, <1>2 DEF ToSet
<1>5. ASSUME NEW i \in 1..Len(t) PROVE t[i] \in ToSet(s \o t)
  <2>1. Len(s) + i \in 1..(Len(s) + Len(t)) /\ ~(Len(s) + i <= Len(s)) /\ (Len(s) + i) - Len(s) = i
    BY <1>2
  <2>2. (s \o t)[Len(s) + i] = t[i]
    BY <2>1, <1>1
  <2>q. QED BY <2>1, <2>2, <1>2 DEF ToSet
<1>q. QED BY <1>1, <1>2, <1>3, <1>4, <1>5 DEF ToSet

LEMMA OrderedEmpty == Ordered(<<>>)
BY DEF Ordered

LEMMA OrderedHead ==
  ASSUME NEW s \in Seq(Messages), s # <<>>, Ordered(s)
  PROVE  /\ Ordered(Tail(s))
         /\ \A id \in Nat : Head(s) = Unf(id) => Fwd(id) \notin ToSet(Tail(s))
<1>1. /\ Head(s) = s[1] /\ Tail(s) \in Seq(Messages) /\ Len(Tail(s)) = Len(s) - 1
      /\ \A i \in 1..Len(Tail(s)) : Tail(s)[i] = s[i + 1]
  BY HeadTailProperties
<1>2. Len(s) \in Nat /\ Len(s) # 0 /\ DOMAIN Tail(s) = 1..Len(Tail(s))
  BY <1>1, EmptySeq, LenProperties
<1>3. ASSUME NEW i \in 1..Len(Tail(s))
      PROVE  i + 1 \in 1..Len(s) /\ 1 \in 1..Len(s) /\ 1 < i + 1 /\ Tail(s)[i] = s[i + 1]
  BY <1>1, <1>2
<1>4. ASSUME NEW i \in 1..Len(Tail(s)), NEW j \in 1..Len(Tail(s)), i < j, NEW id \in Nat
      PROVE  ~(Tail(s)[i] = Unf(id) /\ Tail(s)[j] = Fwd(id))
  <2>1. i + 1 < j + 1
    BY <1>4, <1>2, <1>1
  <2>q. QED BY <1>3, <2>1 DEF Ordered
<1>5. ASSUME NEW i \in 1..Len(Tail(s)), NEW id \in Nat, Head(s) = Unf(id) PROVE Tail(s)[i] # Fwd(id)
  BY <1>3, <1>5, <1>1 DEF Ordered
<1>6. \A id \in Nat : Head(s) = Unf(id) => Fwd(id) \notin ToSet(Tail(s))
  BY <1>5, <1>2 DEF ToSet
<1>q. QED BY <1>4, <1>6 DEF Ordered

LEMMA OrderedAppend ==
  ASSUME NEW s \in Seq(Messages), NEW x \in Messages, Ordered(s), NoClash(ToSet(s), {x})
  PROVE  Ordered(Append(s, x))
<1>1. /\ Append(s, x) \in Seq(Messages) /\ Len(Append(s, x)) = Len(s) + 1
      /\ \A i \in 1..Len(s) : Append(s, x)[i] = s[i]
      /\ Append(s, x)[Len(s) + 1] = x
  BY AppendProperties
<1>2. Len(s) \in Nat /\ DOMAIN s = 1..Len(s)
  BY LenProperties
<1>3. SUFFICES ASSUME NEW i \in 1..(Len(s) + 1), NEW j \in 1..(Len(s) + 1), i < j, NEW id \in Nat,
                      Append(s, x)[i] = Unf(id), Append(s, x)[j] = Fwd(id)
               PROVE  FALSE
  BY <1>1 DEF Ordered
<1>4. i \in 1..Len(s) /\ Append(s, x)[i] = s[i]
  BY <1>1, <1>2, <1>3
<1>5. CASE j = Len(s) + 1
  <2>1. Unf(id) \in ToSet(s) /\ x = Fwd(id)
    BY <1>1, <1>2, <1>3, <1>4, <1>5 DEF ToSet
  <2>q. QED BY <2>1 DEF NoClash
<1>6. CASE j # Len(s) + 1
  <2>1. j \in 1..Len(s)
    BY <1>6, <1>2
  <2>q. QED BY <2>1, <1>1, <1>3, <1>4 DEF Ordered
<1>q. QED BY <1>5, <1>6

LEMMA OrderedApart ==
  ASSUME NEW s \in Seq(Messages), NoClash(ToSet(s), ToSet(s))
  PROVE  Ordered(s)
<1>1. DOMAIN s = 1..Len(s)
  BY LenProperties
<1>q. QED BY <1>1 DEF Ordered, NoClash, ToSet

\* SetToSeq lists every member once.
LEMMA SetToSeqFacts ==
  ASSUME NEW S, IsFiniteSet(S)
  PROVE  /\ SetToSeq(S) \in [1..Cardinality(S) -> S] /\ Cardinality(S) \in Nat
         /\ \A x \in S : \E i \in 1..Cardinality(S) : SetToSeq(S)[i] = x
<1> DEFINE D == 1..Cardinality(S)
<1>1. Cardinality(S) \in Nat /\ ExistsBijection(D, S)
  BY FS_CardinalityType
<1>2. PICK f : f \in Bijection(D, S)
  BY <1>1 DEF ExistsBijection
<1>3. f \in [D -> S] /\ IsInjective(f)
  BY <1>2 DEF Bijection, Injection, IsInjective
<1>4. SetToSeq(S) \in [D -> S] /\ IsInjective(SetToSeq(S))
  BY <1>3 DEF SetToSeq
<1>5. SetToSeq(S) \in Injection(D, S)
  BY <1>4 DEF Injection, IsInjective
<1>6. IsFiniteSet(D) /\ Cardinality(D) = Cardinality(S)
  BY <1>1, FS_Interval
<1>7. SetToSeq(S) \in Surjection(D, S)
  BY <1>5, <1>6, FS_Injection
<1>q. QED BY <1>1, <1>4, <1>7 DEF Surjection

LEMMA SetToSeqIsSeq ==
  ASSUME NEW S, IsFiniteSet(S)
  PROVE  SetToSeq(S) \in Seq(S) /\ Len(SetToSeq(S)) = Cardinality(S)
BY SetToSeqFacts, LenProperties

\* The messages for a set of ids: a sequence with one of each.
Announcements(t, S) == [i \in 1..Cardinality(S) |-> Msg(t, SetToSeq(S)[i])]

LEMMA MessagesFor ==
  ASSUME NEW t \in {"SocketForward", "SocketUnforward"}, NEW S \in SUBSET Nat, IsFiniteSet(S)
  PROVE  /\ Announcements(t, S) \in Seq(Messages)
         /\ ToSet(Announcements(t, S)) = {Msg(t, id) : id \in S}
<1>1. /\ SetToSeq(S) \in [1..Cardinality(S) -> S] /\ Cardinality(S) \in Nat
      /\ \A x \in S : \E i \in 1..Cardinality(S) : SetToSeq(S)[i] = x
  BY SetToSeqFacts
<1>2. \A i \in 1..Cardinality(S) : Msg(t, SetToSeq(S)[i]) \in Messages
  BY <1>1 DEF Msg, Messages
<1>3. Announcements(t, S) \in [1..Cardinality(S) -> Messages]
  BY <1>2 DEF Announcements
<1>4. Announcements(t, S) \in Seq(Messages)
  BY <1>1, <1>3
<1>5. DOMAIN Announcements(t, S) = 1..Cardinality(S)
  BY DEF Announcements
<1>6. ToSet(Announcements(t, S)) = {Msg(t, SetToSeq(S)[i]) : i \in 1..Cardinality(S)}
  BY <1>5 DEF Announcements, ToSet
<1>7. {Msg(t, SetToSeq(S)[i]) : i \in 1..Cardinality(S)} = {Msg(t, id) : id \in S}
  BY <1>1
<1>q. QED BY <1>4, <1>6, <1>7

LEMMA MsgFacts ==
  \A a, b : /\ Fwd(a).id = a /\ Unf(a).id = a /\ Fwd(a) # Unf(b)
            /\ (Fwd(a) = Fwd(b) => a = b) /\ (Unf(a) = Unf(b) => a = b)
BY DEF Fwd, Unf, Msg
------------------------------------------------------------------------------
(* The invariant, action by action *)

coreVars == <<scannerVars, castVars, hostVars, wire, mirrorVars>>

LEMMA Numbers == ASSUME TablesOK PROVE Len(info) \in Nat /\ Ids \subseteq Nat /\ IsFiniteSet(Ids)
<1>1. Len(info) \in Nat
  BY LenProperties DEF TablesOK
<1>q. QED BY <1>1, FS_Interval DEF Ids

LEMMA PathTyped == ASSUME TablesOK PROVE \A id \in Ids : info[id] \in HostPaths /\ PathOf(id) \in Paths
<1>1. DOMAIN info = Ids /\ \A id \in Ids : info[id] \in HostPaths
  BY LenProperties DEF TablesOK, Ids
<1>q. QED BY <1>1 DEF PathOf, Paths

LEMMA SamePaths == ASSUME info' = info PROVE Ids' = Ids /\ \A id : PathOf(id)' = PathOf(id)
BY DEF Ids, PathOf

LEMMA InitKeeps == ASSUME Init PROVE SocketInv
<1>1. /\ info = <<>> /\ Len(info) = 0 /\ Ids = {} /\ ToSet(wire) = {} /\ ToSet(queue) = {} /\ ToSet(outbox) = {}
      /\ Cast = {} /\ OnItsWay = {} /\ Cardinality(known) = 0
  BY ToSetEmpty, FS_EmptySet DEF Init, Ids, Cast, OnItsWay
<1>2. TablesOK
  <2>1. found.new = {} /\ found.gone = {}
    BY DEF Init, Nothing
  <2>2. outbox \in Seq(Messages) /\ queue \in Seq(Messages) /\ wire \in Seq(Messages) /\ info \in Seq(HostPaths)
    BY DEF Init
  <2>3. files \in [Paths -> Ids \cup {None, Orphan}] /\ stuck = {}
    BY DEF Init
  <2>q. QED BY <2>1, <2>2, <2>3, <1>1 DEF Init, TablesOK
<1>3. ScanInv /\ SessionInv /\ MatchInv
  BY <1>1 DEF Init, ScanInv, SessionInv, MatchInv, Nothing
<1>4. OrderInv
  BY <1>1, OrderedEmpty DEF Init, OrderInv, NoClash
<1>5. FileInv
  BY <1>1 DEF Init, FileInv, NoStaleFile
<1>6. ClientsOK
  BY DEF Init, ClientsOK
<1>7. LimitsOK
  <2>1. Len(queue) = 0 /\ MaxSockets \in Nat /\ Queue \in Nat
    BY SocketAssumption DEF Init
  <2>q. QED BY <2>1, <1>1 DEF LimitsOK
<1>q. QED BY <1>2, <1>3, <1>4, <1>5, <1>6, <1>7 DEF Core, SocketInv

LEMMA StutterKeeps == ASSUME Core, UNCHANGED coreVars PROVE Core'
BY DEF Core, coreVars, scannerVars, castVars, hostVars, mirrorVars, TablesOK, LimitsOK, ScanInv, SessionInv,
       OrderInv, MatchInv, FileInv, NoStaleFile, OnItsWay, Cast, Ids, PathOf, ToSet, Ordered

LEMMA ScanKeeps == ASSUME Core, Scan PROVE Core'
<1>1. PICK seen \in SUBSET HostPaths :
        LET fresh == seen \ {info[id] : id \in known}
            room == MaxSockets - Cardinality({id \in known : info[id] \in seen})
        IN  \E new \in SUBSET fresh :
              /\ IF Cardinality(fresh) <= room THEN new = fresh ELSE Cardinality(new) = room
              /\ Rescan(seen, new)
  BY DEF Scan
<1> DEFINE fresh == seen \ {info[id] : id \in known}
           stay == {id \in known : info[id] \in seen}
           gone == {id \in known : info[id] \notin seen}
           room == MaxSockets - Cardinality(stay)
<1>2. PICK new \in SUBSET fresh :
        /\ IF Cardinality(fresh) <= room THEN new = fresh ELSE Cardinality(new) = room
        /\ Rescan(seen, new)
  BY <1>1
<1> DEFINE ids == Len(info) + 1 .. Len(info')
<1>3. /\ info' = info \o SetToSeq(new) /\ known' = (known \ gone) \cup ids
      /\ found' = [new |-> ids, gone |-> gone]
      /\ UNCHANGED <<forwards, castVars, hostVars, wire, mirrorVars, clientVars>>
      /\ found = Nothing /\ outbox = <<>>
  BY <1>2 DEF Rescan, Scan
<1>4. Len(info) \in Nat /\ Ids \subseteq Nat /\ IsFiniteSet(Ids)
  BY Numbers DEF Core
<1>5. IsFiniteSet(new) /\ IsFiniteSet(fresh) /\ IsFiniteSet(stay) /\ IsFiniteSet(known)
      /\ Cardinality(stay) <= Cardinality(known)
  <2>1. new \subseteq HostPaths /\ fresh \subseteq HostPaths /\ stay \subseteq known /\ known \subseteq Ids
    BY DEF Core, TablesOK
  <2>q. QED BY <2>1, <1>4, FS_Subset, SocketAssumption
<1>6. /\ Cardinality(new) \in Nat /\ Cardinality(fresh) \in Nat /\ Cardinality(stay) \in Nat
      /\ Cardinality(known) \in Nat /\ MaxSockets \in Nat
  BY <1>5, FS_CardinalityType, SocketAssumption
<1>7. SetToSeq(new) \in Seq(HostPaths) /\ Len(SetToSeq(new)) = Cardinality(new)
  <2>1. SetToSeq(new) \in [1..Cardinality(new) -> new] /\ new \subseteq HostPaths
    BY <1>5, SetToSeqFacts
  <2>2. SetToSeq(new) \in [1..Cardinality(new) -> HostPaths]
    BY <2>1
  <2>q. QED BY <2>2, <1>5, <1>6, SetToSeqIsSeq
<1>8. /\ info' \in Seq(HostPaths) /\ Len(info') = Len(info) + Cardinality(new)
      /\ \A i \in 1..Len(info) : info'[i] = info[i]
  <2>1. info \in Seq(HostPaths)
    BY DEF Core, TablesOK
  <2>2. /\ info' \in Seq(HostPaths) /\ Len(info') = Len(info) + Len(SetToSeq(new))
        /\ \A i \in 1..(Len(info) + Len(SetToSeq(new))) :
             info'[i] = IF i <= Len(info) THEN info[i] ELSE SetToSeq(new)[i - Len(info)]
    BY <2>1, <1>3, <1>7, ConcatProperties
  <2>3. ASSUME NEW i \in 1..Len(info) PROVE info'[i] = info[i]
    <3>1. i \in 1..(Len(info) + Len(SetToSeq(new))) /\ i <= Len(info)
      BY <1>4, <1>6, <1>7
    <3>q. QED BY <3>1, <2>2
  <2>q. QED BY <2>2, <2>3, <1>7
<1>9. /\ Ids' = Ids \cup ids /\ Ids \cap ids = {} /\ ids \subseteq Nat
      /\ \A id \in Ids : PathOf(id)' = PathOf(id)
  BY <1>8, <1>4, <1>6 DEF Ids, PathOf
<1>10. Cardinality(new) <= room
  BY <1>2, <1>6
<1>11. IsFiniteSet(ids) /\ Cardinality(ids) = Cardinality(new)
  <2>1. Len(info) + 1 \in Int /\ Len(info') \in Int
    BY <1>8, <1>4, <1>6
  <2>2. IsFiniteSet(ids) /\ Cardinality(ids) = IF Len(info) + 1 > Len(info') THEN 0 ELSE Len(info') - (Len(info) + 1) + 1
    BY <2>1, FS_Interval
  <2>q. QED BY <2>2, <1>8, <1>4, <1>6
<1>12. Cardinality(known') <= MaxSockets
  <2>1. known' = stay \cup ids /\ stay \cap ids = {}
    BY <1>3, <1>9 DEF Core, TablesOK
  <2>2. Cardinality(stay \cup ids) = Cardinality(stay) + Cardinality(ids) - Cardinality(stay \cap ids)
    BY <1>5, <1>11, FS_Union
  <2>3. Cardinality(stay \cap ids) = 0
    BY <2>1, FS_EmptySet
  <2>q. QED BY <2>1, <2>2, <2>3, <1>10, <1>11, <1>6
<1>13. Cast' = Cast /\ OnItsWay' = OnItsWay
  BY <1>3 DEF castVars, hostVars, Cast, OnItsWay
<1>14. \A m \in OnItsWay : m.id \in Ids
  BY DEF Core, TablesOK, OnItsWay, Cast
<1>15. TablesOK'
  BY <1>3, <1>8, <1>9 DEF Core, TablesOK, castVars, hostVars, mirrorVars
<1>16. LimitsOK'
  BY <1>3, <1>12 DEF Core, LimitsOK, hostVars
<1>17. ScanInv'
  <2>1. found'.new = ids /\ found'.gone \subseteq Ids
    BY <1>3 DEF Core, TablesOK
  <2>q. QED BY <2>1, <1>3, <1>9, <1>13, <1>14 DEF Core, TablesOK, ScanInv, castVars, mirrorVars
<1>18. SessionInv' /\ OrderInv'
  BY <1>3, <1>13 DEF Core, SessionInv, OrderInv, castVars, hostVars, mirrorVars
<1>19. MatchInv'
  <2>1. \A id \in ids : Fwd(id) \notin OnItsWay /\ id \notin mirrors
    BY <1>9, <1>14, MsgFacts, SMTT(30) DEF Core, TablesOK
  <2>q. QED BY <2>1, <1>3, <1>9, <1>13 DEF Core, MatchInv, hostVars, mirrorVars
<1>20. FileInv'
  <2>1. /\ mirrors \subseteq Ids /\ mirrors' = mirrors /\ files' = files /\ stuck' = stuck
        /\ missed' = missed /\ shared' = shared
    BY <1>3 DEF Core, TablesOK, mirrorVars
  <2>2. NoStaleFile'
    BY <2>1, <1>9 DEF Core, FileInv, NoStaleFile
  <2>q. QED BY <2>1, <2>2, <1>9 DEF Core, FileInv
<1>q. QED BY <1>15, <1>16, <1>17, <1>18, <1>19, <1>20 DEF Core

LEMMA PublishKeeps == ASSUME Core, Publish PROVE Core'
<1> DEFINE F == {Fwd(id) : id \in found.new}
           U == {Unf(id) : id \in found.gone}
           out == Announcements("SocketForward", found.new) \o Announcements("SocketUnforward", found.gone)
<1>1. /\ found # Nothing /\ outbox = <<>> /\ found' = Nothing /\ outbox' = out /\ target' = (reg # "none")
      /\ forwards' = (forwards \cup found.new) \ found.gone
      /\ UNCHANGED <<info, known, hostVars, wire, mirrorVars, clientVars>>
  BY DEF Core, ScanInv, Publish, Announcements
<1>2. Ids' = Ids /\ (\A id : PathOf(id)' = PathOf(id)) /\ Ids \subseteq Nat /\ IsFiniteSet(Ids)
  BY <1>1, Numbers, SamePaths DEF Core
<1>3. /\ found.new \subseteq Ids /\ found.gone \subseteq Ids
      /\ found.new \subseteq Nat /\ found.gone \subseteq Nat
      /\ IsFiniteSet(found.new) /\ IsFiniteSet(found.gone)
  BY <1>2, FS_Subset DEF Core, TablesOK
<1>4. outbox' \in Seq(Messages) /\ ToSet(outbox') = F \cup U
  <2>1. /\ Announcements("SocketForward", found.new) \in Seq(Messages)
        /\ ToSet(Announcements("SocketForward", found.new)) = F
    BY <1>3, MessagesFor DEF Fwd
  <2>2. /\ Announcements("SocketUnforward", found.gone) \in Seq(Messages)
        /\ ToSet(Announcements("SocketUnforward", found.gone)) = U
    BY <1>3, MessagesFor DEF Unf
  <2>q. QED BY <2>1, <2>2, <1>1, ToSetConcat
<1>5. Cast = {} /\ Cast' = IF reg # "none" THEN F \cup U ELSE {}
  BY <1>1, <1>4, ToSetEmpty DEF Cast
<1>6. OnItsWay = ToSet(wire) \cup ToSet(queue) /\ OnItsWay' = OnItsWay \cup Cast'
  BY <1>1, <1>5 DEF OnItsWay, hostVars
<1>7. \A id : (Fwd(id) \in F <=> id \in found.new) /\ (Unf(id) \in U <=> id \in found.gone)
              /\ Fwd(id) \notin U /\ Unf(id) \notin F
  BY MsgFacts
<1>8. TablesOK'
  <2>1. \A m \in F \cup U : m.id \in Ids
    BY <1>3, MsgFacts
  <2>q. QED BY <2>1, <1>1, <1>2, <1>3, <1>4 DEF Core, TablesOK, hostVars, mirrorVars, Nothing
<1>9. LimitsOK' /\ ScanInv' /\ SessionInv'
  BY <1>1 DEF Core, LimitsOK, ScanInv, SessionInv, hostVars, mirrorVars, Nothing
<1>10. \A id : id \in found.new => Unf(id) \notin OnItsWay /\ id \notin found.gone
  BY MsgFacts DEF Core, ScanInv
<1>11. OrderInv'
  <2>1. NoClash(F \cup U, F \cup U)
    BY <1>7, <1>10 DEF NoClash
  <2>2. Ordered(outbox')
    BY <2>1, <1>4, OrderedApart
  <2>3. NoClash(ToSet(wire), ToSet(queue) \cup Cast') /\ NoClash(ToSet(queue), Cast')
    BY <1>5, <1>6, <1>7, <1>10 DEF Core, OrderInv, NoClash
  <2>q. QED BY <2>2, <2>3, <1>1 DEF Core, OrderInv, hostVars
<1>12. MatchInv'
  <2>1. \A id \in forwards' : Unf(id) \notin OnItsWay'
    BY <1>1, <1>5, <1>6, <1>7, <1>10 DEF Core, MatchInv
  <2>2. \A id \in forwards' \ missed : id \in mirrors \/ Fwd(id) \in OnItsWay' \/ reg # "open"
    BY <1>1, <1>5, <1>6, <1>7 DEF Core, MatchInv
  <2>3. ASSUME NEW id \in Ids \ (forwards' \cup missed)
        PROVE  Unf(id) \in OnItsWay' \/ (id \notin mirrors /\ Fwd(id) \notin OnItsWay')
    <3>1. CASE reg = "none"
      BY <3>1, <1>5, <1>6, ToSetEmpty DEF Core, SessionInv
    <3>2. CASE reg # "none" /\ id \in found.gone
      BY <3>2, <1>5, <1>6, <1>7
    <3>3. CASE id \notin found.gone
      BY <3>3, <2>3, <1>1, <1>5, <1>6, <1>7 DEF Core, MatchInv
    <3>q. QED BY <3>1, <3>2, <3>3
  <2>q. QED BY <2>1, <2>2, <2>3, <1>1, <1>2 DEF MatchInv, hostVars, mirrorVars
<1>13. FileInv'
  BY <1>1, <1>2 DEF Core, FileInv, NoStaleFile, mirrorVars
<1>q. QED BY <1>8, <1>9, <1>11, <1>12, <1>13 DEF Core

LEMMA BroadcastKeeps == ASSUME Core, Broadcast PROVE Core'
<1> DEFINE m == Head(outbox)
           rest == Tail(outbox)
<1>1. /\ outbox # <<>> /\ outbox' = rest /\ target' = (target /\ Len(outbox) > 1)
      /\ info' = info /\ known' = known /\ found' = found /\ forwards' = forwards /\ reg' = reg /\ wire' = wire
      /\ mirrors' = mirrors /\ files' = files /\ stuck' = stuck /\ shared' = shared
  BY DEF Broadcast, scannerVars
<1>2. Ids' = Ids /\ (\A id : PathOf(id)' = PathOf(id)) /\ Ids \subseteq Nat
  BY <1>1, Numbers, SamePaths DEF Core
<1>3. outbox \in Seq(Messages) /\ queue \in Seq(Messages) /\ wire \in Seq(Messages) /\ target \in BOOLEAN
  BY DEF Core, TablesOK
<1>4. m \in Messages /\ rest \in Seq(Messages) /\ Len(rest) = Len(outbox) - 1 /\ ToSet(outbox) = {m} \cup ToSet(rest)
  BY <1>1, <1>3, ToSetHead
<1>5. Ordered(rest) /\ \A id \in Nat : m = Unf(id) => Fwd(id) \notin ToSet(rest)
  BY <1>1, <1>3, OrderedHead DEF Core, OrderInv
<1>6. Cast' = IF target THEN ToSet(rest) ELSE {}
  <2>1. CASE target /\ Len(outbox) > 1
    BY <2>1, <1>1 DEF Cast
  <2>2. CASE target /\ ~(Len(outbox) > 1)
    <3>1. Len(rest) = 0
      BY <2>2, <1>3, <1>4, LenProperties
    <3>2. ToSet(rest) = {}
      BY <3>1, <1>4, EmptySeq, ToSetEmpty
    <3>q. QED BY <2>2, <3>2, <1>1 DEF Cast
  <2>3. CASE ~target
    BY <2>3, <1>1 DEF Cast
  <2>q. QED BY <2>1, <2>2, <2>3
<1>7. found = Nothing /\ found.new = {}
  BY <1>1 DEF Core, ScanInv, Nothing
<1>8. CASE target /\ Len(queue) < Queue
  <2>1. queue' = Append(queue, m) /\ missed' = missed
    BY <1>8 DEF Broadcast
  <2>2. queue' \in Seq(Messages) /\ Len(queue') = Len(queue) + 1 /\ ToSet(queue') = ToSet(queue) \cup {m}
    BY <2>1, <1>3, <1>4, ToSetAppend
  <2>3. Cast = {m} \cup ToSet(rest) /\ Cast' = ToSet(rest) /\ OnItsWay' = OnItsWay
    BY <1>8, <1>1, <1>4, <1>6, <2>2 DEF Cast, OnItsWay
  <2>4. TablesOK'
    BY <1>1, <1>2, <1>3, <1>4, <2>2 DEF Core, TablesOK
  <2>5. LimitsOK'
    <3>1. Len(queue) \in Nat /\ Queue \in Nat
      BY <1>3, LenProperties, SocketAssumption
    <3>q. QED BY <3>1, <1>1, <1>8, <2>2 DEF Core, LimitsOK
  <2>6. ScanInv' /\ SessionInv' /\ MatchInv'
    BY <1>1, <1>2, <1>7, <1>8, <2>1, <2>3 DEF Core, ScanInv, SessionInv, MatchInv
  <2>7. OrderInv'
    <3>1. NoClash(ToSet(queue), {m}) /\ NoClash(ToSet(queue), ToSet(rest))
          /\ NoClash(ToSet(wire), ToSet(queue') \cup Cast')
      BY <2>2, <2>3 DEF Core, OrderInv, NoClash
    <3>2. Ordered(queue')
      BY <3>1, <2>1, <1>3, <1>4, OrderedAppend DEF Core, OrderInv
    <3>3. NoClash(ToSet(queue'), Cast')
      BY <3>1, <2>2, <2>3, <1>5 DEF NoClash
    <3>q. QED BY <3>1, <3>2, <3>3, <1>1, <1>5 DEF Core, OrderInv
  <2>8. FileInv'
    BY <1>1, <1>2, <2>1 DEF Core, FileInv, NoStaleFile
  <2>q. QED BY <2>4, <2>5, <2>6, <2>7, <2>8 DEF Core
<1>9. CASE target /\ ~(Len(queue) < Queue)
  <2>1. queue' = queue /\ missed' = missed \cup {m.id}
    BY <1>9 DEF Broadcast
  <2>2. Cast = {m} \cup ToSet(rest) /\ Cast' = ToSet(rest) /\ OnItsWay = OnItsWay' \cup {m}
    BY <1>9, <1>1, <1>4, <1>6, <2>1 DEF Cast, OnItsWay
  <2>3. TablesOK'
    BY <1>1, <1>2, <1>3, <1>4, <2>1 DEF Core, TablesOK
  <2>4. LimitsOK' /\ ScanInv' /\ SessionInv'
    BY <1>1, <1>2, <1>7, <1>9, <2>1 DEF Core, LimitsOK, ScanInv, SessionInv
  <2>5. MatchInv'
    <3>1. \A id : id # m.id => (Fwd(id) \in OnItsWay <=> Fwd(id) \in OnItsWay')
                               /\ (Unf(id) \in OnItsWay <=> Unf(id) \in OnItsWay')
      BY <2>2, MsgFacts
    <3>2. OnItsWay' \subseteq OnItsWay
      BY <2>2
    <3>q. QED BY <3>1, <3>2, <1>1, <1>2, <2>1 DEF Core, MatchInv
  <2>6. OrderInv'
    BY <1>1, <1>5, <2>1, <2>2 DEF Core, OrderInv, NoClash
  <2>7. FileInv'
    BY <1>1, <1>2, <2>1 DEF Core, FileInv, NoStaleFile
  <2>q. QED BY <2>3, <2>4, <2>5, <2>6, <2>7 DEF Core
<1>10. CASE ~target
  <2>1. queue' = queue /\ missed' = missed
    BY <1>10 DEF Broadcast
  <2>2. Cast = {} /\ Cast' = {} /\ OnItsWay = OnItsWay'
    BY <1>10, <1>1, <1>6, <2>1 DEF Cast, OnItsWay
  <2>3. TablesOK'
    BY <1>1, <1>2, <1>3, <1>4, <2>1 DEF Core, TablesOK
  <2>4. LimitsOK' /\ ScanInv' /\ SessionInv' /\ MatchInv'
    BY <1>1, <1>2, <1>7, <1>10, <2>1, <2>2 DEF Core, LimitsOK, ScanInv, SessionInv, MatchInv
  <2>5. OrderInv'
    BY <1>1, <1>5, <2>1, <2>2 DEF Core, OrderInv, NoClash
  <2>6. FileInv'
    BY <1>1, <1>2, <2>1 DEF Core, FileInv, NoStaleFile
  <2>q. QED BY <2>3, <2>4, <2>5, <2>6 DEF Core
<1>q. QED BY <1>8, <1>9, <1>10

LEMMA InsertKeeps == ASSUME Core, Insert PROVE Core'
<1>1. /\ reg = "none" /\ reg' = "inserted" /\ queue = <<>> /\ queue' = queue
      /\ UNCHANGED <<scannerVars, castVars, wire, mirrorVars>>
  BY DEF Core, SessionInv, Insert
<1>2. Ids' = Ids /\ (\A id : PathOf(id)' = PathOf(id)) /\ Cast' = Cast /\ OnItsWay' = OnItsWay
  BY <1>1, SamePaths DEF scannerVars, castVars, Cast, OnItsWay
<1>3. TablesOK' /\ LimitsOK'
  BY <1>1, <1>2 DEF Core, TablesOK, LimitsOK, scannerVars, castVars, mirrorVars
<1>4. ScanInv' /\ SessionInv' /\ OrderInv' /\ MatchInv'
  BY <1>1, <1>2 DEF Core, ScanInv, SessionInv, OrderInv, MatchInv, scannerVars, castVars, mirrorVars
<1>5. FileInv'
  BY <1>1, <1>2 DEF Core, FileInv, NoStaleFile, mirrorVars
<1>q. QED BY <1>3, <1>4, <1>5 DEF Core

LEMMA SendExistingKeeps == ASSUME Core, SendExisting PROVE Core'
<1> DEFINE F == {Fwd(id) : id \in forwards}
<1>1. /\ reg = "inserted" /\ reg' = "open" /\ wire = <<>> /\ mirrors = {}
      /\ wire' = wire \o Announcements("SocketForward", forwards)
      /\ UNCHANGED <<scannerVars, castVars, queue, mirrorVars>>
  BY DEF Core, SessionInv, SendExisting, Announcements
<1>2. Ids' = Ids /\ (\A id : PathOf(id)' = PathOf(id)) /\ Ids \subseteq Nat /\ Cast' = Cast
  BY <1>1, Numbers, SamePaths DEF Core, scannerVars, castVars, Cast
<1>3. forwards \subseteq Ids /\ forwards \subseteq Nat /\ IsFiniteSet(forwards)
  BY <1>2, Numbers, FS_Subset DEF Core, TablesOK
<1>4. wire' \in Seq(Messages) /\ ToSet(wire') = F
  <2>1. /\ Announcements("SocketForward", forwards) \in Seq(Messages)
        /\ ToSet(Announcements("SocketForward", forwards)) = F
    BY <1>3, MessagesFor DEF Fwd
  <2>2. wire \in Seq(Messages) /\ ToSet(wire) = {}
    BY <1>1, ToSetEmpty
  <2>q. QED BY <2>1, <2>2, <1>1, ToSetConcat
<1>5. OnItsWay' = OnItsWay \cup F
  BY <1>1, <1>2, <1>4, ToSetEmpty DEF OnItsWay
<1>6. \A id : (Fwd(id) \in F <=> id \in forwards) /\ Unf(id) \notin F
  BY MsgFacts
<1>7. TablesOK' /\ LimitsOK'
  <2>1. \A m \in F : m.id \in Ids
    BY <1>3, MsgFacts
  <2>q. QED BY <2>1, <1>1, <1>2, <1>4 DEF Core, TablesOK, LimitsOK, scannerVars, castVars, mirrorVars
<1>8. ScanInv'
  <2>1. \A m \in F : m.id \notin found.new
    BY MsgFacts DEF Core, ScanInv
  <2>q. QED BY <2>1, <1>1, <1>5 DEF Core, ScanInv, scannerVars, castVars, mirrorVars
<1>9. SessionInv'
  BY <1>1 DEF SessionInv
<1>10. OrderInv'
  <2>1. NoClash(F, F) /\ NoClash(F, ToSet(queue) \cup Cast)
    BY <1>6 DEF NoClash
  <2>2. Ordered(wire')
    BY <2>1, <1>4, OrderedApart
  <2>q. QED BY <2>1, <2>2, <1>1, <1>2, <1>4 DEF Core, OrderInv, castVars
<1>11. MatchInv'
  BY <1>1, <1>2, <1>5, <1>6 DEF Core, MatchInv, scannerVars, mirrorVars
<1>12. FileInv'
  BY <1>1, <1>2 DEF Core, FileInv, NoStaleFile, mirrorVars
<1>q. QED BY <1>7, <1>8, <1>9, <1>10, <1>11, <1>12 DEF Core

LEMMA SendOutboundKeeps == ASSUME Core, SendOutbound PROVE Core'
<1> DEFINE m == Head(queue)
           rest == Tail(queue)
<1>1. /\ reg = "open" /\ queue # <<>> /\ wire' = Append(wire, m) /\ queue' = rest
      /\ UNCHANGED <<scannerVars, castVars, reg, mirrorVars>>
  BY DEF SendOutbound
<1>2. Ids' = Ids /\ (\A id : PathOf(id)' = PathOf(id)) /\ Cast' = Cast
  BY <1>1, SamePaths DEF scannerVars, castVars, Cast
<1>3. queue \in Seq(Messages) /\ wire \in Seq(Messages)
  BY DEF Core, TablesOK
<1>4. m \in Messages /\ rest \in Seq(Messages) /\ Len(rest) = Len(queue) - 1 /\ ToSet(queue) = {m} \cup ToSet(rest)
  BY <1>1, <1>3, ToSetHead
<1>5. Ordered(rest) /\ \A id \in Nat : m = Unf(id) => Fwd(id) \notin ToSet(rest)
  BY <1>1, <1>3, OrderedHead DEF Core, OrderInv
<1>6. wire' \in Seq(Messages) /\ ToSet(wire') = ToSet(wire) \cup {m}
  BY <1>1, <1>3, <1>4, ToSetAppend
<1>7. OnItsWay' = OnItsWay
  BY <1>1, <1>2, <1>4, <1>6 DEF OnItsWay
<1>8. TablesOK'
  BY <1>1, <1>2, <1>4, <1>6 DEF Core, TablesOK, scannerVars, castVars, mirrorVars
<1>9. LimitsOK'
  <2>1. Len(queue) \in Nat /\ Queue \in Nat /\ Len(queue') = Len(queue) - 1
    BY <1>1, <1>3, <1>4, LenProperties, SocketAssumption
  <2>q. QED BY <2>1, <1>1 DEF Core, LimitsOK, scannerVars
<1>10. ScanInv' /\ SessionInv' /\ MatchInv'
  BY <1>1, <1>2, <1>7 DEF Core, ScanInv, SessionInv, MatchInv, scannerVars, castVars, mirrorVars
<1>11. OrderInv'
  <2>1. NoClash(ToSet(wire), {m})
    BY <1>4 DEF Core, OrderInv, NoClash
  <2>2. Ordered(wire')
    BY <2>1, <1>1, <1>3, <1>4, OrderedAppend DEF Core, OrderInv
  <2>3. NoClash(ToSet(wire'), ToSet(rest) \cup Cast)
    BY <1>4, <1>5, <1>6 DEF Core, OrderInv, NoClash
  <2>4. NoClash(ToSet(rest), Cast)
    BY <1>4 DEF Core, OrderInv, NoClash
  <2>q. QED BY <2>2, <2>3, <2>4, <1>1, <1>2, <1>5 DEF Core, OrderInv, castVars
<1>12. FileInv'
  BY <1>1, <1>2 DEF Core, FileInv, NoStaleFile, mirrorVars
<1>q. QED BY <1>8, <1>9, <1>10, <1>11, <1>12 DEF Core

LEMMA DisconnectKeeps == ASSUME Core, Disconnect PROVE Core'
<1> DEFINE mirrored == {PathOf(id) : id \in mirrors}
<1>1. /\ reg' = "none" /\ queue' = <<>> /\ wire' = <<>> /\ target' = FALSE /\ mirrors' = {}
      /\ UNCHANGED <<scannerVars, outbox>>
  BY DEF Disconnect
<1>2. PICK failed \in SUBSET {q \in mirrored : files[q] # None} :
        /\ files' = [q \in Paths |-> IF q \in mirrored \ failed THEN None ELSE files[q]]
        /\ stuck' = (stuck \ mirrored) \cup failed
  BY DEF Disconnect
<1>3. Ids' = Ids /\ ToSet(queue') = {} /\ ToSet(wire') = {} /\ Cast' = {} /\ OnItsWay' = {}
  BY <1>1, SamePaths, ToSetEmpty DEF scannerVars, Cast, OnItsWay
<1>4. mirrored \subseteq Paths
  BY PathTyped DEF Core, TablesOK
<1>5. queue' \in Seq(Messages) /\ wire' \in Seq(Messages) /\ Len(queue') = 0 /\ Queue \in Nat
  BY <1>1, SocketAssumption
<1>6. TablesOK' /\ LimitsOK'
  <2>1. files' \in [Paths -> Ids \cup {None, Orphan}] /\ stuck' \subseteq Paths
    BY <1>2, <1>4 DEF Core, TablesOK
  <2>2. TablesOK'
    BY <2>1, <1>1, <1>3, <1>5 DEF Core, TablesOK, scannerVars
  <2>3. LimitsOK'
    BY <1>1, <1>5 DEF Core, LimitsOK, scannerVars
  <2>q. QED BY <2>2, <2>3
<1>7. ScanInv' /\ SessionInv' /\ MatchInv'
  BY <1>1, <1>3 DEF Core, ScanInv, SessionInv, MatchInv, scannerVars
<1>8. OrderInv'
  BY <1>1, <1>3, OrderedEmpty DEF Core, OrderInv, NoClash
<1>9. NoStaleFile'
  <2>1. SUFFICES ASSUME NEW q \in Paths, files'[q] # None PROVE q \in stuck'
    BY DEF NoStaleFile
  <2>2. files'[q] = (IF q \in mirrored \ failed THEN None ELSE files[q])
    BY <1>2
  <2>3. q \notin mirrored \/ q \in failed
    BY <2>1, <2>2
  <2>4. CASE q \in failed
    BY <2>4, <1>2
  <2>5. CASE q \notin mirrored
    <3>1. files[q] # None /\ ~(files[q] \in mirrors /\ PathOf(files[q]) = q)
      BY <2>1, <2>2, <2>5
    <3>2. q \in stuck
      BY <3>1 DEF Core, FileInv, NoStaleFile
    <3>q. QED BY <3>2, <2>5, <1>2
  <2>q. QED BY <2>3, <2>4, <2>5
<1>10. FileInv'
  BY <1>1, <1>9 DEF FileInv
<1>q. QED BY <1>6, <1>7, <1>8, <1>10 DEF Core

\* What receiving the message m at the head of the connection does to the
\* messages on their way.
LEMMA Received ==
  ASSUME Core, NEW m, wire # <<>>, Head(wire) = m, wire' = Tail(wire),
         UNCHANGED <<scannerVars, castVars, hostVars>>
  PROVE  /\ m \in Messages /\ m \in OnItsWay /\ m.id \in Ids /\ reg = "open"
         /\ wire' \in Seq(Messages) /\ ToSet(wire) = {m} \cup ToSet(wire')
         /\ OnItsWay = OnItsWay' \cup {m} /\ Cast' = Cast
         /\ OrderInv' /\ \A id \in Nat : m = Unf(id) => Fwd(id) \notin OnItsWay'
         /\ Ids' = Ids /\ \A id : PathOf(id)' = PathOf(id)
<1>1. wire \in Seq(Messages) /\ Ordered(wire)
  BY DEF Core, TablesOK, OrderInv
<1>2. m \in Messages /\ wire' \in Seq(Messages) /\ ToSet(wire) = {m} \cup ToSet(wire')
  BY <1>1, ToSetHead
<1>3. Ordered(wire') /\ \A id \in Nat : m = Unf(id) => Fwd(id) \notin ToSet(wire')
  BY <1>1, OrderedHead
<1>4. Cast' = Cast /\ queue' = queue /\ outbox' = outbox
  BY DEF castVars, hostVars, Cast
<1>5. OnItsWay = OnItsWay' \cup {m} /\ m \in OnItsWay
  BY <1>2, <1>4 DEF OnItsWay
<1>6. m.id \in Ids /\ reg = "open"
  BY <1>2 DEF Core, TablesOK, SessionInv
<1>7. OrderInv'
  BY <1>2, <1>3, <1>4 DEF Core, OrderInv, NoClash
<1>8. \A id \in Nat : m = Unf(id) => Fwd(id) \notin OnItsWay'
  BY <1>2, <1>3, <1>4 DEF Core, OrderInv, NoClash, OnItsWay
<1>9. Ids' = Ids /\ \A id : PathOf(id)' = PathOf(id)
  BY SamePaths DEF scannerVars
<1>q. QED BY <1>2, <1>3, <1>4, <1>5, <1>6, <1>7, <1>8, <1>9

LEMMA RecvForwardKeeps == ASSUME Core, NEW id \in Ids, RecvSocketForward(id) PROVE Core'
<1> DEFINE p == PathOf(id)
<1>1. /\ wire # <<>> /\ Head(wire) = Fwd(id) /\ wire' = Tail(wire)
      /\ mirrors' = mirrors \cup {id} /\ files' = [files EXCEPT ![p] = id] /\ missed' = missed
      /\ stuck' = stuck \ {p}
      /\ shared' = shared \cup {q \in {p} : \E other \in mirrors \ {id} : PathOf(other) = q}
      /\ UNCHANGED <<scannerVars, castVars, hostVars>>
  BY DEF RecvSocketForward, Announced, Shared, Fwd
<1>2. /\ Fwd(id) \in OnItsWay /\ reg = "open" /\ wire' \in Seq(Messages)
      /\ ToSet(wire) = {Fwd(id)} \cup ToSet(wire') /\ OnItsWay = OnItsWay' \cup {Fwd(id)}
      /\ OrderInv' /\ Ids' = Ids /\ \A x : PathOf(x)' = PathOf(x)
  BY <1>1, Received
<1>3. p \in Paths /\ files \in [Paths -> Ids \cup {None, Orphan}]
  BY PathTyped DEF Core, TablesOK
<1>4. files'[p] = id /\ \A q \in Paths : q # p => files'[q] = files[q]
  BY <1>1, <1>3
<1>5. TablesOK' /\ LimitsOK'
  <2>1. files' \in [Paths -> Ids \cup {None, Orphan}]
    BY <1>1, <1>3
  <2>q. QED BY <2>1, <1>1, <1>2 DEF Core, TablesOK, LimitsOK, scannerVars, castVars, hostVars
<1>6. ScanInv'
  <2>1. id \notin found.new
    BY <1>2, MsgFacts DEF Core, ScanInv
  <2>q. QED BY <2>1, <1>1, <1>2 DEF Core, ScanInv, scannerVars, castVars
<1>7. SessionInv'
  BY <1>1, <1>2 DEF Core, SessionInv, hostVars
<1>8. MatchInv'
  <2>1. \A x : x # id => (Fwd(x) \in OnItsWay <=> Fwd(x) \in OnItsWay')
    BY <1>2, MsgFacts
  <2>2. \A x : Unf(x) \in OnItsWay <=> Unf(x) \in OnItsWay'
    BY <1>2, MsgFacts
  <2>q. QED BY <2>1, <2>2, <1>1, <1>2 DEF Core, MatchInv, scannerVars, hostVars
<1>9. FileInv'
  <2>1. shared \subseteq shared' /\ \A x \in mirrors : x # id /\ PathOf(x) = p => p \in shared'
    BY <1>1
  <2>2. NoStaleFile'
    BY <1>1, <1>2, <1>4 DEF Core, FileInv, NoStaleFile
  <2>3. ASSUME NEW a \in mirrors', NEW b \in mirrors', a # b, PathOf(a) = PathOf(b) PROVE PathOf(a) \in shared'
    BY <2>1, <2>3, <1>1 DEF Core, FileInv
  <2>4. ASSUME NEW x \in mirrors' \ missed, PathOf(x) \notin shared' PROVE files'[PathOf(x)] = x
    <3>1. CASE x = id
      BY <3>1, <1>4
    <3>2. CASE x # id
      <4>1. x \in mirrors /\ PathOf(x) # p /\ PathOf(x) \in Paths
        BY <3>2, <2>1, <2>4, <1>1, PathTyped DEF Core, TablesOK
      <4>q. QED BY <4>1, <2>1, <2>4, <1>4 DEF Core, FileInv
    <3>q. QED BY <3>1, <3>2
  <2>q. QED BY <2>2, <2>3, <2>4, <1>1, <1>2 DEF FileInv
<1>q. QED BY <1>2, <1>5, <1>6, <1>7, <1>8, <1>9 DEF Core

LEMMA MirrorFailsKeeps == ASSUME Core, NEW id \in Ids, MirrorFails(id) PROVE Core'
<1> DEFINE p == PathOf(id)
<1>1. /\ wire # <<>> /\ Head(wire) = Fwd(id) /\ wire' = Tail(wire)
      /\ mirrors' = mirrors /\ missed' = missed \cup {id}
      /\ \/ files' = files /\ stuck' = stuck
         \/ files' = [files EXCEPT ![p] = None] /\ stuck' = stuck \ {p}
         \/ files' = [files EXCEPT ![p] = Orphan] /\ stuck' = stuck \cup {p}
      /\ shared' = shared \cup {q \in {p} : \E other \in mirrors \ {id} : PathOf(other) = q}
      /\ UNCHANGED <<scannerVars, castVars, hostVars>>
  BY DEF MirrorFails, Announced, Shared, Fwd
<1>2. /\ Fwd(id) \in OnItsWay /\ reg = "open" /\ wire' \in Seq(Messages)
      /\ ToSet(wire) = {Fwd(id)} \cup ToSet(wire') /\ OnItsWay = OnItsWay' \cup {Fwd(id)}
      /\ OrderInv' /\ Ids' = Ids /\ \A x : PathOf(x)' = PathOf(x)
  BY <1>1, Received
<1>3. p \in Paths /\ files \in [Paths -> Ids \cup {None, Orphan}]
  BY PathTyped DEF Core, TablesOK
<1>4. /\ \/ files'[p] = files[p] /\ stuck' = stuck
         \/ files'[p] = None
         \/ p \in stuck'
      /\ \A q \in Paths : q # p => files'[q] = files[q] /\ (q \in stuck <=> q \in stuck')
  BY <1>1, <1>3
<1>5. TablesOK' /\ LimitsOK'
  <2>1. files' \in [Paths -> Ids \cup {None, Orphan}] /\ stuck' \subseteq Paths
    BY <1>1, <1>3 DEF Core, TablesOK
  <2>q. QED BY <2>1, <1>1, <1>2 DEF Core, TablesOK, LimitsOK, scannerVars, castVars, hostVars
<1>6. ScanInv' /\ SessionInv'
  BY <1>1, <1>2 DEF Core, ScanInv, SessionInv, scannerVars, castVars, hostVars
<1>7. MatchInv'
  <2>1. \A x : x # id => (Fwd(x) \in OnItsWay <=> Fwd(x) \in OnItsWay')
    BY <1>2, MsgFacts
  <2>2. \A x : Unf(x) \in OnItsWay <=> Unf(x) \in OnItsWay'
    BY <1>2, MsgFacts
  <2>q. QED BY <2>1, <2>2, <1>1, <1>2 DEF Core, MatchInv, scannerVars, hostVars
<1>8. FileInv'
  <2>1. shared \subseteq shared' /\ \A x \in mirrors : x # id /\ PathOf(x) = p => p \in shared'
    BY <1>1
  <2>2. NoStaleFile'
    <3>1. SUFFICES ASSUME NEW q \in Paths, files'[q] # None, q \notin stuck'
                   PROVE  files'[q] \in mirrors /\ PathOf(files'[q]) = q
      BY <1>1, <1>2 DEF NoStaleFile
    <3>2. files'[q] = files[q] /\ q \notin stuck
      BY <3>1, <1>4
    <3>q. QED BY <3>1, <3>2 DEF Core, FileInv, NoStaleFile
  <2>3. ASSUME NEW x \in mirrors \ missed', PathOf(x) \notin shared' PROVE files'[PathOf(x)] = x
    <3>1. x # id /\ x \notin missed /\ PathOf(x) # p /\ PathOf(x) \in Paths
      BY <2>1, <2>3, <1>1, PathTyped DEF Core, TablesOK
    <3>q. QED BY <3>1, <2>1, <2>3, <1>4 DEF Core, FileInv
  <2>q. QED BY <2>1, <2>2, <2>3, <1>1, <1>2 DEF Core, FileInv
<1>q. QED BY <1>2, <1>5, <1>6, <1>7, <1>8 DEF Core

LEMMA RecvUnforwardKeeps == ASSUME Core, NEW id \in Ids, RecvSocketUnforward(id) PROVE Core'
<1> DEFINE p == PathOf(id)
<1>1. /\ wire # <<>> /\ Head(wire) = Unf(id) /\ wire' = Tail(wire)
      /\ mirrors' = mirrors \ {id} /\ missed' = missed /\ shared' = shared
      /\ \/ id \notin mirrors /\ files' = files /\ stuck' = stuck
         \/ id \in mirrors /\ files' = [files EXCEPT ![p] = None] /\ stuck' = stuck \ {p}
         \/ id \in mirrors /\ files' = files /\ stuck' = stuck \cup {p}
      /\ UNCHANGED <<scannerVars, castVars, hostVars>>
  BY DEF RecvSocketUnforward, Unf
<1>2. /\ Unf(id) \in OnItsWay /\ reg = "open" /\ wire' \in Seq(Messages)
      /\ ToSet(wire) = {Unf(id)} \cup ToSet(wire') /\ OnItsWay = OnItsWay' \cup {Unf(id)}
      /\ OrderInv' /\ Ids' = Ids /\ \A x : PathOf(x)' = PathOf(x)
  BY <1>1, Received
<1>3. p \in Paths /\ files \in [Paths -> Ids \cup {None, Orphan}] /\ id \in Nat
  BY PathTyped, Numbers DEF Core, TablesOK
<1>4. Fwd(id) \notin OnItsWay'
  BY <1>1, <1>3, Received
<1>5. /\ id \in mirrors => files'[p] = None \/ p \in stuck'
      /\ \A q \in Paths : q # p => files'[q] = files[q] /\ (q \in stuck <=> q \in stuck')
      /\ id \notin mirrors => files' = files /\ mirrors' = mirrors /\ stuck' = stuck
  BY <1>1, <1>3
<1>6. TablesOK' /\ LimitsOK'
  <2>1. files' \in [Paths -> Ids \cup {None, Orphan}] /\ stuck' \subseteq Paths
    BY <1>1, <1>3 DEF Core, TablesOK
  <2>q. QED BY <2>1, <1>1, <1>2 DEF Core, TablesOK, LimitsOK, scannerVars, castVars, hostVars
<1>7. ScanInv' /\ SessionInv'
  BY <1>1, <1>2 DEF Core, ScanInv, SessionInv, scannerVars, castVars, hostVars
<1>8. MatchInv'
  <2>1. \A x : x # id => (Unf(x) \in OnItsWay <=> Unf(x) \in OnItsWay')
    BY <1>2, MsgFacts
  <2>2. \A x : Fwd(x) \in OnItsWay <=> Fwd(x) \in OnItsWay'
    BY <1>2, MsgFacts
  <2>3. id \notin forwards
    BY <1>2 DEF Core, MatchInv
  <2>q. QED BY <2>1, <2>2, <2>3, <1>1, <1>2, <1>4 DEF Core, MatchInv, scannerVars, hostVars
<1>9. FileInv'
  <2>1. NoStaleFile'
    <3>1. SUFFICES ASSUME NEW q \in Paths, files'[q] # None, q \notin stuck'
                   PROVE  files'[q] \in mirrors' /\ PathOf(files'[q]) = q
      BY <1>2 DEF NoStaleFile
    <3>2. CASE q = p
      <4>1. id \notin mirrors
        BY <3>1, <3>2, <1>5
      <4>q. QED BY <4>1, <3>1, <1>5 DEF Core, FileInv, NoStaleFile
    <3>3. CASE q # p
      <4>1. files'[q] = files[q] /\ q \notin stuck
        BY <3>1, <3>3, <1>5
      <4>2. files[q] \in mirrors /\ PathOf(files[q]) = q
        BY <4>1, <3>1 DEF Core, FileInv, NoStaleFile
      <4>q. QED BY <4>1, <4>2, <3>3, <1>1
    <3>q. QED BY <3>2, <3>3
  <2>2. ASSUME NEW x \in mirrors' \ missed, PathOf(x) \notin shared PROVE files'[PathOf(x)] = x
    <3>1. x \in mirrors /\ x # id /\ PathOf(x) \in Paths /\ files[PathOf(x)] = x
      BY <2>2, <1>1, PathTyped DEF Core, TablesOK, FileInv
    <3>2. id \in mirrors => PathOf(x) # p
      BY <3>1, <2>2 DEF Core, FileInv
    <3>3. id \notin mirrors \/ PathOf(x) # p
      BY <3>2
    <3>q. QED BY <3>1, <3>3, <1>5
  <2>q. QED BY <2>1, <2>2, <1>1, <1>2 DEF Core, FileInv
<1>q. QED BY <1>2, <1>6, <1>7, <1>8, <1>9 DEF Core
------------------------------------------------------------------------------
(* Clients *)

LEMMA ClientSteps ==
  ASSUME ClientsOK, NEW k \in Clients,
         \/ \E q \in Paths : ClientConnects(k, q)
         \/ Serving(k) \/ BridgeTimeout(k) \/ BridgeEnds(k)
  PROVE  UNCHANGED coreVars /\ ClientsOK'
<1>1. CASE \E q \in Paths : ClientConnects(k, q)
  BY <1>1 DEF ClientConnects, ClientsOK, coreVars
<1>2. CASE Relay(k)
  BY <1>2 DEF Relay, ClientsOK, coreVars
<1>3. CASE HostConnects(k)
  BY <1>3 DEF HostConnects, ClientsOK, coreVars
<1>4. CASE DataReady(k)
  BY <1>4 DEF DataReady, ClientsOK, coreVars
<1>5. CASE DataDropped(k)
  BY <1>5 DEF DataDropped, ClientsOK, coreVars
<1>6. CASE BridgeTimeout(k)
  BY <1>6 DEF BridgeTimeout, ClientsOK, coreVars
<1>7. CASE BridgeEnds(k)
  BY <1>7 DEF BridgeEnds, ClientsOK, coreVars
<1>q. QED BY <1>1, <1>2, <1>3, <1>4, <1>5, <1>6, <1>7 DEF Serving

LEMMA OtherSteps ==
  ASSUME ClientsOK,
         \/ Scanner \/ Insert \/ Session \/ Disconnect \/ Mirroring
         \/ \E id \in Ids : MirrorFails(id)
  PROVE  ClientsOK'
<1>1. CASE Scanner \/ Insert \/ Session \/ Mirroring \/ \E id \in Ids : MirrorFails(id)
  <2>1. UNCHANGED clientVars
    BY <1>1 DEF Scanner, Scan, Rescan, Publish, Broadcast, Insert, Session, SendExisting, SendOutbound,
                Mirroring, RecvSocketForward, RecvSocketUnforward, MirrorFails
  <2>q. QED BY <2>1 DEF ClientsOK, clientVars
<1>2. CASE Disconnect
  <2>1. client' \in [Clients -> {"idle", "queued", "sent", "bridged"}]
    BY <1>2 DEF Disconnect, ClientsOK
  <2>2. pend' \in [Clients -> {"none", "asked", "waiting", "bridged"}]
    BY <1>2 DEF Disconnect, ClientsOK
  <2>q. QED BY <2>1, <2>2 DEF ClientsOK
<1>q. QED BY <1>1, <1>2

LEMMA NextKeeps == ASSUME SocketInv, [Next]_vars PROVE SocketInv'
<1> USE DEF SocketInv
<1>1. CASE Scanner
  BY <1>1, ScanKeeps, PublishKeeps, BroadcastKeeps, OtherSteps DEF Scanner
<1>2. CASE Insert
  BY <1>2, InsertKeeps, OtherSteps
<1>3. CASE Session
  BY <1>3, SendExistingKeeps, SendOutboundKeeps, OtherSteps DEF Session
<1>4. CASE Disconnect
  BY <1>4, DisconnectKeeps, OtherSteps
<1>5. CASE Mirroring
  BY <1>5, RecvForwardKeeps, RecvUnforwardKeeps, OtherSteps DEF Mirroring
<1>6. CASE \E id \in Ids : MirrorFails(id)
  BY <1>6, MirrorFailsKeeps, OtherSteps
<1>7. CASE \E k \in Clients : \/ \E q \in Paths : ClientConnects(k, q)
                              \/ Serving(k) \/ BridgeTimeout(k) \/ BridgeEnds(k)
  BY <1>7, ClientSteps, StutterKeeps
<1>8. CASE UNCHANGED vars
  <2>1. UNCHANGED coreVars /\ client' = client /\ pend' = pend
    BY <1>8 DEF vars, coreVars, scannerVars, castVars, hostVars, mirrorVars
  <2>q. QED BY <2>1, StutterKeeps DEF ClientsOK
<1>q. QED BY <1>1, <1>2, <1>3, <1>4, <1>5, <1>6, <1>7, <1>8 DEF Next
------------------------------------------------------------------------------
LEMMA SocketInvariant == Spec => []SocketInv
<1>1. Init => SocketInv
  BY InitKeeps
<1>2. SocketInv /\ [Next]_vars => SocketInv'
  BY NextKeeps
<1>q. QED BY <1>1, <1>2, PTL DEF Spec

\* Whatever the order of registration, scan, broadcast and list of existing
\* forwards (run_socket_scanner, the registration, handle_container_messages),
\* a container that nothing is on its way to mirrors the host's forwards but
\* for what was lost, and tables and queue keep to their limits.
THEOREM MirrorsMatchHolds == Spec => []MirrorsMatch
<1>1. SocketInv => MirrorsMatch
  <2>1. SUFFICES ASSUME Core, ClientsOK PROVE MirrorsMatch
    BY DEF SocketInv
  <2>2. TypeOK
    BY <2>1 DEF Core, ClientsOK, TablesOK, LimitsOK, TypeOK
  <2>3. ASSUME Settled PROVE (mirrors \ forwards) \cup (forwards \ mirrors) \subseteq missed
    <3>1. reg = "open" /\ OnItsWay = {}
      BY <2>3, ToSetEmpty DEF Settled, OnItsWay, Cast
    <3>q. QED BY <2>1, <3>1 DEF Core, MatchInv, TablesOK
  <2>q. QED BY <2>2, <2>3 DEF MirrorsMatch
<1>q. QED BY <1>1, SocketInvariant, PTL

\* A mirror announced once or twice can be reached at its path unless another
\* socket of the session had the same one (create_mirror_socket unlinks first,
\* remove_mirror_socket deletes whatever is there).
THEOREM MirrorReachableHolds == Spec => []MirrorReachable
<1>1. SocketInv => MirrorReachable
  BY DEF SocketInv, Core, FileInv, MirrorReachable
<1>q. QED BY <1>1, SocketInvariant, PTL

\* No socket file outlives its mirror through SocketUnforward, a replaced
\* mirror or the end of the session, unless the last file operation at its path
\* failed (remove_file, or a step of create_mirror_socket after its bind).
THEOREM NoStaleFileHolds == Spec => []NoStaleFile
<1>1. SocketInv => NoStaleFile
  BY DEF SocketInv, Core, FileInv
<1>q. QED BY <1>1, SocketInvariant, PTL
==============================================================================
