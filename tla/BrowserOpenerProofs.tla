------------------------ MODULE BrowserOpenerProofs ------------------------
(***************************************************************************)
(* For every number of requests, limit, window and timeout: the sliding    *)
(* window of the browser opener admits as many URLs as it should and no    *)
(* more, and no browser command outlives the request it was started for.   *)
(***************************************************************************)
EXTENDS BrowserOpener, SequenceTheorems, WellFoundedInduction, TLAPS

\* recent_opens holds the last of the opened times, in order, and what has been
\* popped from it is at least a second old.
WindowInv ==
  /\ Len(recent) <= Len(opened)
  /\ \A i \in 1..Len(recent) : recent[i] = opened[Len(opened) - Len(recent) + i]
  /\ \A i \in 1..Len(opened) : opened[i] <= clock
  /\ \A i, j \in 1..Len(opened) : i <= j => opened[i] <= opened[j]
  /\ \A i \in 1..(Len(opened) - Len(recent)) : clock - opened[i] >= Window

\* A request that waits for its command has not been overtaken by the timeout.
LaunchInv ==
  /\ NoOrphanBrowser
  /\ \A r \in Requests : req[r] = "launching" => clock - since[r] <= BrowserTimeout

BrowserInv == TypeOK /\ WindowInv /\ LaunchInv /\ RateLimited /\ RefusedOnlyAtLimit
------------------------------------------------------------------------------
\* Every non-empty set of naturals has a least element.
LEMMA LeastNatural ==
  ASSUME NEW S \in SUBSET Nat, S # {}
  PROVE  \E m \in S : \A k \in S : m <= k
<1> DEFINE R == {ss \in Nat \X Nat : ss[1] < ss[2]}
<1>1. IsWellFoundedOn(R, Nat)
  BY NatLessThanWellFounded, Zenon DEF OpToRel
<1> HIDE DEF R
<1>2. PICK x \in S : \A y \in S : ~(<<y, x>> \in R)
  BY WFMin, <1>1, Zenon
<1>3. \A y \in S : ~(y < x)
  BY <1>2 DEF R
<1>4. QED
  BY <1>3

\* The loop of prepare stops somewhere: the number of entries it pops.
LEMMA PruneStops ==
  ASSUME TypeOK
  PROVE  \E n \in 0..Len(recent) :
           /\ \A i \in 1..n : Expired(recent[i])
           /\ n < Len(recent) => ~Expired(recent[n + 1])
<1> DEFINE S == {i \in 1..Len(recent) : ~Expired(recent[i])}
<1>1. Len(recent) \in Nat
  BY DEF TypeOK
<1>2. CASE S = {}
  <2>1. \A i \in 1..Len(recent) : Expired(recent[i])
    BY <1>2
  <2>2. QED
    BY <1>1, <2>1
<1>3. CASE S # {}
  <2>0. S \in SUBSET Nat
    BY <1>1
  <2> HIDE DEF S
  <2>1. PICK m \in S : \A k \in S : m <= k
    BY <1>3, <2>0, LeastNatural
  <2> USE DEF S
  <2>2. m \in 1..Len(recent) /\ ~Expired(recent[m])
    BY <2>1
  <2>3. \A i \in 1..(m - 1) : Expired(recent[i])
    <3>1. SUFFICES ASSUME NEW i \in 1..(m - 1), ~Expired(recent[i]) PROVE FALSE
      OBVIOUS
    <3>2. i \in S
      BY <1>1, <2>2, <3>1
    <3>3. QED
      BY <1>1, <2>1, <2>2, <3>2
  <2>4. m - 1 \in 0..Len(recent) /\ (m - 1) + 1 = m
    BY <1>1, <2>2
  <2>5. QED
    BY <2>2, <2>3, <2>4
<1>4. QED
  BY <1>2, <1>3

\* What is left of recent_opens: still the last of the opened times, all that is
\* not in it has expired, and its first entry has not.
LEMMA PruneIs ==
  ASSUME TypeOK, WindowInv
  PROVE  /\ Prune \in Seq(Nat) /\ Len(Prune) <= Len(recent) /\ Len(Prune) <= Len(opened)
         /\ \A i \in 1..Len(Prune) : Prune[i] = opened[Len(opened) - Len(Prune) + i]
         /\ \A i \in 1..(Len(opened) - Len(Prune)) : clock - opened[i] >= Window
         /\ Len(Prune) > 0 => clock - opened[Len(opened) - Len(Prune) + 1] < Window
<1> DEFINE Stop(n) == /\ \A i \in 1..n : Expired(recent[i])
                      /\ n < Len(recent) => ~Expired(recent[n + 1])
           n == CHOOSE m \in 0..Len(recent) : Stop(m)
<1>1. n \in 0..Len(recent) /\ Stop(n)
  <2>1. \E m \in 0..Len(recent) : Stop(m)
    BY PruneStops
  <2> HIDE DEF Stop
  <2>2. QED
    BY <2>1
<1>2. Prune = SubSeq(recent, n + 1, Len(recent))
  BY DEF Prune
<1> HIDE DEF n
<1>3. /\ recent \in Seq(Nat) /\ opened \in Seq(Nat) /\ clock \in Nat /\ Window \in Nat
      /\ Len(recent) \in Nat /\ Len(opened) \in Nat
      /\ \A i \in 1..Len(recent) : recent[i] \in Nat
      /\ \A i \in 1..Len(opened) : opened[i] \in Nat
  BY BrowserAssumption DEF TypeOK
<1>4. /\ Prune \in Seq(Nat) /\ Len(Prune) = Len(recent) - n
      /\ \A i \in 1..(Len(recent) - n) : Prune[i] = recent[n + i]
  <2>1. \A i \in (n + 1)..Len(recent) : recent[i] \in Nat
    BY <1>1, <1>3
  <2>2. /\ SubSeq(recent, n + 1, Len(recent)) \in Seq(Nat)
        /\ Len(SubSeq(recent, n + 1, Len(recent)))
             = IF n + 1 <= Len(recent) THEN Len(recent) - (n + 1) + 1 ELSE 0
        /\ \A i \in 1..(Len(recent) - (n + 1) + 1) :
             SubSeq(recent, n + 1, Len(recent))[i] = recent[(n + 1) + i - 1]
    BY <1>1, <1>3, <2>1, SubSeqProperties
  <2>3. QED
    BY <1>1, <1>2, <1>3, <2>2
<1>5. \A i \in 1..Len(Prune) : Prune[i] = opened[Len(opened) - Len(Prune) + i]
  <2>1. TAKE i \in 1..Len(Prune)
  <2>2. Prune[i] = recent[n + i] /\ n + i \in 1..Len(recent)
    BY <1>1, <1>3, <1>4
  <2>3. recent[n + i] = opened[Len(opened) - Len(recent) + (n + i)]
    BY <2>2 DEF WindowInv
  <2>4. Len(opened) - Len(recent) + (n + i) = Len(opened) - Len(Prune) + i
    BY <1>1, <1>3, <1>4
  <2>5. QED
    BY <2>2, <2>3, <2>4
<1>6. \A i \in 1..(Len(opened) - Len(Prune)) : clock - opened[i] >= Window
  <2>1. TAKE i \in 1..(Len(opened) - Len(Prune))
  <2>2. CASE i <= Len(opened) - Len(recent)
    BY <1>3, <2>2 DEF WindowInv
  <2>3. CASE i > Len(opened) - Len(recent)
    <3>1. n \in Nat /\ n <= Len(recent) /\ Len(opened) - Len(Prune) = (Len(opened) - Len(recent)) + n
      BY <1>1, <1>3, <1>4
    <3>2. i \in 1..((Len(opened) - Len(recent)) + n) /\ i \in Int
      BY <1>3, <3>1
    <3> DEFINE j == i - (Len(opened) - Len(recent))
    <3>3. j \in 1..n /\ j \in 1..Len(recent) /\ i = Len(opened) - Len(recent) + j
      BY <1>3, <2>3, <3>1, <3>2, SMTT(30)
    <3> HIDE DEF j
    <3>4. recent[j] = opened[i]
      BY <3>3 DEF WindowInv
    <3>5. Expired(recent[j])
      BY <1>1, <3>3
    <3>6. QED
      BY <3>4, <3>5 DEF Expired
  <2>4. QED
    BY <1>3, <2>2, <2>3
<1>7. ASSUME Len(Prune) > 0 PROVE clock - opened[Len(opened) - Len(Prune) + 1] < Window
  <2>1. n < Len(recent) /\ ~Expired(recent[n + 1])
    BY <1>1, <1>3, <1>4, <1>7
  <2>2. n + 1 \in 1..Len(recent) /\ 1 \in 1..Len(Prune) /\ 1 \in 1..(Len(recent) - n)
    BY <1>1, <1>3, <1>4, <1>7
  <2>3. recent[n + 1] = Prune[1] /\ recent[n + 1] \in Nat
    BY <1>3, <1>4, <2>2
  <2>4. Prune[1] = opened[Len(opened) - Len(Prune) + 1]
    BY <1>5, <2>2
  <2>5. clock - recent[n + 1] < Window
    BY <1>3, <2>1, <2>3 DEF Expired
  <2>6. QED
    BY <2>3, <2>4, <2>5
<1>8. QED
  BY <1>1, <1>3, <1>4, <1>5, <1>6, <1>7, SMTT(30) DEF WindowInv
------------------------------------------------------------------------------
LEMMA InitInv == Init => BrowserInv
  BY BrowserAssumption
  DEF Init, BrowserInv, TypeOK, WindowInv, LaunchInv, NoOrphanBrowser, RateLimited, RefusedOnlyAtLimit

\* The steps that touch neither the clock nor the window.
LEMMA QuietPreserves ==
  ASSUME BrowserInv, NEW r \in Requests,
         Ask(r) \/ PrepareInvalid(r) \/ BrowserExits(r) \/ LaunchTimeout(r)
  PROVE  BrowserInv'
<1>1. UNCHANGED <<clock, recent, since, opened, refused>>
  BY DEF Ask, PrepareInvalid, BrowserExits, LaunchTimeout
<1>2. TypeOK'
  BY <1>1 DEF BrowserInv, TypeOK, Ask, PrepareInvalid, BrowserExits, LaunchTimeout, Ack
<1>3. WindowInv' /\ RateLimited' /\ RefusedOnlyAtLimit'
  BY <1>1 DEF BrowserInv, WindowInv, RateLimited, RefusedOnlyAtLimit
<1>4. LaunchInv'
  BY <1>1
  DEF BrowserInv, TypeOK, LaunchInv, NoOrphanBrowser, Ask, PrepareInvalid, BrowserExits, LaunchTimeout, Ack
<1>5. QED
  BY <1>2, <1>3, <1>4 DEF BrowserInv

\* Time only moves entries out of the window, and stops for a timeout.
LEMMA TickPreserves ==
  ASSUME BrowserInv, Tick
  PROVE  BrowserInv'
<1> USE BrowserAssumption
<1>1. clock' = clock + 1 /\ UNCHANGED <<recent, req, process, since, opened, refused>>
  BY DEF Tick
<1>2. TypeOK'
  BY <1>1 DEF BrowserInv, TypeOK
<1>3. WindowInv'
  <2>1. /\ clock \in Nat /\ Window \in Nat /\ Len(opened) \in Nat /\ Len(recent) \in Nat
        /\ \A i \in 1..Len(opened) : opened[i] \in Nat
    BY DEF BrowserInv, TypeOK
  <2>2. \A i \in 1..Len(opened) : opened[i] <= clock + 1
    BY <2>1 DEF BrowserInv, WindowInv
  <2>3. \A i \in 1..(Len(opened) - Len(recent)) : clock + 1 - opened[i] >= Window
    <3>1. TAKE i \in 1..(Len(opened) - Len(recent))
    <3>2. i \in 1..Len(opened) /\ clock - opened[i] >= Window
      BY <2>1 DEF BrowserInv, WindowInv
    <3>3. QED
      BY <2>1, <3>2
  <2>4. clock' = clock + 1 /\ opened' = opened /\ recent' = recent
    BY <1>1
  <2>5. /\ \A i \in 1..Len(opened)' : opened'[i] <= clock'
        /\ \A i \in 1..(Len(opened) - Len(recent))' : clock' - opened'[i] >= Window
    BY <2>1, <2>2, <2>3, <2>4
  <2>6. /\ Len(recent)' <= Len(opened)'
        /\ \A i \in 1..Len(recent)' : recent'[i] = opened'[(Len(opened) - Len(recent))' + i]
        /\ \A i, j \in 1..Len(opened)' : i <= j => opened'[i] <= opened'[j]
    BY <2>4 DEF BrowserInv, WindowInv
  <2>7. QED
    BY <2>5, <2>6 DEF WindowInv
<1>4. RateLimited' /\ RefusedOnlyAtLimit'
  BY <1>1 DEF BrowserInv, RateLimited, RefusedOnlyAtLimit
<1>5. LaunchInv'
  BY <1>1, SMTT(30) DEF BrowserInv, TypeOK, LaunchInv, NoOrphanBrowser, Tick
<1>6. QED
  BY <1>2, <1>3, <1>4, <1>5 DEF BrowserInv

\* A URL is admitted: the opened times and the window grow by the same entry.
\* The Limit-th entry before it has been popped, now or earlier.
LEMMA PreparePreserves ==
  ASSUME BrowserInv, NEW r \in Requests, Prepare(r)
  PROVE  BrowserInv'
<1> USE BrowserAssumption
<1> DEFINE q == Prune
<1>1. TypeOK /\ WindowInv
  BY DEF BrowserInv
<1>2. /\ q \in Seq(Nat) /\ Len(q) <= Len(recent) /\ Len(q) <= Len(opened)
      /\ \A i \in 1..Len(q) : q[i] = opened[Len(opened) - Len(q) + i]
      /\ \A i \in 1..(Len(opened) - Len(q)) : clock - opened[i] >= Window
  BY <1>1, PruneIs
<1>3. /\ Len(q) < Limit
      /\ recent' = Append(q, clock) /\ opened' = Append(opened, clock)
      /\ clock' = clock /\ refused' = refused
  BY DEF Prepare
<1> HIDE DEF q
<1>4. /\ clock \in Nat /\ Window \in Nat /\ Limit \in Nat /\ opened \in Seq(Nat)
      /\ Len(q) \in Nat /\ Len(opened) \in Nat
      /\ \A i \in 1..Len(opened) : opened[i] \in Nat
  BY <1>1, <1>2 DEF TypeOK
<1>5. /\ recent' \in Seq(Nat) /\ Len(recent') = Len(q) + 1
      /\ \A i \in 1..Len(q) : recent'[i] = q[i]
      /\ recent'[Len(q) + 1] = clock
  BY <1>2, <1>3, <1>4, AppendProperties
<1>6. /\ opened' \in Seq(Nat) /\ Len(opened') = Len(opened) + 1
      /\ \A i \in 1..Len(opened) : opened'[i] = opened[i]
      /\ opened'[Len(opened) + 1] = clock
  BY <1>3, <1>4, AppendProperties
<1>7. TypeOK'
  BY <1>1, <1>3, <1>4, <1>5, <1>6 DEF TypeOK, Prepare
<1>8. WindowInv'
  <2>1. Len(opened') - Len(recent') = Len(opened) - Len(q) /\ Len(recent') <= Len(opened')
    BY <1>2, <1>4, <1>5, <1>6
  <2>2. \A i \in 1..Len(recent') : recent'[i] = opened'[Len(opened') - Len(recent') + i]
    <3>1. TAKE i \in 1..Len(recent')
    <3>2. CASE i \in 1..Len(q)
      <4>1. Len(opened) - Len(q) + i \in 1..Len(opened)
        BY <1>2, <1>4, <3>2
      <4>2. QED
        BY <1>2, <1>5, <1>6, <2>1, <3>2, <4>1
    <3>3. CASE i = Len(q) + 1
      <4>1. Len(opened) - Len(q) + i = Len(opened) + 1
        BY <1>4, <3>3
      <4>2. QED
        BY <1>5, <1>6, <2>1, <3>3, <4>1
    <3>4. QED
      BY <1>4, <1>5, <3>2, <3>3
  <2>3. \A i \in 1..Len(opened') : opened'[i] <= clock'
    BY <1>1, <1>3, <1>4, <1>6 DEF WindowInv
  <2>4. \A i, j \in 1..Len(opened') : i <= j => opened'[i] <= opened'[j]
    BY <1>1, <1>3, <1>4, <1>6, SMTT(30) DEF WindowInv
  <2>5. \A i \in 1..(Len(opened') - Len(recent')) : clock' - opened'[i] >= Window
    BY <1>2, <1>3, <1>4, <1>6, <2>1
  <2>6. QED
    BY <2>1, <2>2, <2>3, <2>4, <2>5 DEF WindowInv
<1>9. RateLimited'
  <2>1. SUFFICES ASSUME NEW i \in 1..Len(opened'), i + Limit <= Len(opened')
                 PROVE  opened'[i + Limit] - opened'[i] >= Window
    BY DEF RateLimited
  <2>2. i \in 1..Len(opened)
    BY <1>4, <1>6, <2>1
  <2>3. CASE i + Limit = Len(opened) + 1
    <3>1. i \in 1..(Len(opened) - Len(q))
      BY <1>2, <1>3, <1>4, <2>2, <2>3
    <3>2. QED
      BY <1>2, <1>6, <2>2, <2>3, <3>1
  <2>4. CASE i + Limit <= Len(opened)
    <3>1. i + Limit \in 1..Len(opened)
      BY <1>4, <2>2, <2>4
    <3>2. opened[i + Limit] - opened[i] >= Window
      BY <2>2, <2>4 DEF BrowserInv, RateLimited
    <3>3. QED
      BY <1>6, <2>2, <3>1, <3>2
  <2>5. i \in Nat /\ i + Limit <= Len(opened) + 1
    BY <1>4, <1>6, <2>1, <2>2
  <2>6. i + Limit = Len(opened) + 1 \/ i + Limit <= Len(opened)
    BY <1>4, <2>5, SMTT(30)
  <2>7. QED
    BY <2>3, <2>4, <2>6
<1>10. RefusedOnlyAtLimit'
  <2>1. SUFFICES ASSUME NEW j \in 1..Len(refused)
                 PROVE  \E i \in 1..Len(opened') :
                          /\ i + Limit - 1 <= Len(opened')
                          /\ refused[j] - Window < opened'[i] /\ opened'[i + Limit - 1] <= refused[j]
    BY <1>3 DEF RefusedOnlyAtLimit
  <2>2. PICK i \in 1..Len(opened) :
          /\ i + Limit - 1 <= Len(opened)
          /\ refused[j] - Window < opened[i] /\ opened[i + Limit - 1] <= refused[j]
    BY DEF BrowserInv, RefusedOnlyAtLimit
  <2>3. i \in 1..Len(opened') /\ i + Limit - 1 \in 1..Len(opened) /\ i + Limit - 1 <= Len(opened')
    BY <1>4, <1>6, <2>2
  <2>4. QED
    BY <1>6, <2>2, <2>3
<1>11. LaunchInv'
  BY <1>1, <1>3, <1>4 DEF BrowserInv, TypeOK, LaunchInv, NoOrphanBrowser, Prepare
<1>12. QED
  BY <1>7, <1>8, <1>9, <1>10, <1>11 DEF BrowserInv

\* A URL is refused: the window is full of entries younger than a second.
LEMMA LimitedPreserves ==
  ASSUME BrowserInv, NEW r \in Requests, PrepareLimited(r)
  PROVE  BrowserInv'
<1> USE BrowserAssumption
<1> DEFINE q == Prune
<1>1. TypeOK /\ WindowInv
  BY DEF BrowserInv
<1>2. /\ q \in Seq(Nat) /\ Len(q) <= Len(recent) /\ Len(q) <= Len(opened)
      /\ \A i \in 1..Len(q) : q[i] = opened[Len(opened) - Len(q) + i]
      /\ \A i \in 1..(Len(opened) - Len(q)) : clock - opened[i] >= Window
      /\ Len(q) > 0 => clock - opened[Len(opened) - Len(q) + 1] < Window
  BY <1>1, PruneIs
<1>3. /\ Len(q) >= Limit
      /\ recent' = q /\ opened' = opened /\ clock' = clock
      /\ refused' = Append(refused, clock)
      /\ process' = process /\ since' = since
      /\ req' = [req EXCEPT ![r] = "failed"]
      /\ req[r] = "sent"
  BY DEF PrepareLimited, Ack
<1> HIDE DEF q
<1>4. /\ clock \in Nat /\ Window \in Nat /\ Limit \in Nat \ {0}
      /\ refused \in Seq(Nat) /\ Len(refused) \in Nat
      /\ Len(q) \in Nat /\ Len(recent) \in Nat /\ Len(opened) \in Nat
      /\ \A i \in 1..Len(opened) : opened[i] \in Nat
  BY <1>1, <1>2, SMTT(30) DEF TypeOK
<1>5. /\ refused' \in Seq(Nat) /\ Len(refused') = Len(refused) + 1
      /\ \A i \in 1..Len(refused) : refused'[i] = refused[i]
      /\ refused'[Len(refused) + 1] = clock
  BY <1>3, <1>4, AppendProperties
<1>6. TypeOK'
  <2>1. Len(q) <= Limit
    BY <1>1, <1>2, <1>4 DEF TypeOK
  <2>2. req' \in [Requests -> {"none", "sent", "invalid", "launching", "opened", "failed"}]
    BY <1>1, <1>3 DEF TypeOK
  <2>3. QED
    BY <1>1, <1>2, <1>3, <1>5, <2>1, <2>2 DEF TypeOK
<1>7. WindowInv'
  BY <1>1, <1>2, <1>3 DEF WindowInv
<1>8. RateLimited'
  BY <1>3 DEF BrowserInv, RateLimited
<1>9. RefusedOnlyAtLimit'
  <2>1. SUFFICES ASSUME NEW j \in 1..Len(refused')
                 PROVE  \E i \in 1..Len(opened) :
                          /\ i + Limit - 1 <= Len(opened)
                          /\ refused'[j] - Window < opened[i] /\ opened[i + Limit - 1] <= refused'[j]
    BY <1>3 DEF RefusedOnlyAtLimit
  <2>2. CASE j \in 1..Len(refused)
    BY <1>5, <2>2 DEF BrowserInv, RefusedOnlyAtLimit
  <2>3. CASE j = Len(refused) + 1
    <3>1. Len(q) = Limit
      BY <1>1, <1>2, <1>3, <1>4 DEF TypeOK
    <3> DEFINE i == Len(opened) - Len(q) + 1
    <3>2. i \in 1..Len(opened) /\ i + Limit - 1 = Len(opened)
      BY <1>2, <1>4, <3>1
    <3>3. clock - opened[i] < Window
      BY <1>2, <1>4, <3>1
    <3>4. opened[Len(opened)] <= clock
      BY <1>1, <1>4, <3>2 DEF WindowInv
    <3> HIDE DEF i
    <3>5. clock - Window < opened[i]
      BY <1>4, <3>2, <3>3
    <3>6. refused'[j] = clock
      BY <1>5, <2>3
    <3>7. i + Limit - 1 <= Len(opened) /\ opened[i + Limit - 1] <= clock
      BY <1>4, <3>2, <3>4
    <3>8. QED
      BY <3>2, <3>5, <3>6, <3>7
  <2>4. QED
    BY <1>4, <1>5, <2>2, <2>3
<1>10. LaunchInv'
  BY <1>1, <1>3 DEF BrowserInv, TypeOK, LaunchInv, NoOrphanBrowser
<1>11. QED
  BY <1>6, <1>7, <1>8, <1>9, <1>10 DEF BrowserInv

LEMMA StepPreserves == BrowserInv /\ [Next]_vars => BrowserInv'
<1>1. SUFFICES ASSUME BrowserInv, [Next]_vars PROVE BrowserInv'
  OBVIOUS
<1>2. CASE Tick
  BY <1>1, <1>2, TickPreserves
<1>3. CASE \E r \in Requests : Ask(r) \/ Handle(r)
  BY <1>1, <1>3, QuietPreserves, PreparePreserves, LimitedPreserves DEF Handle
<1>4. CASE UNCHANGED vars
  BY <1>1, <1>4
  DEF vars, BrowserInv, TypeOK, WindowInv, LaunchInv, NoOrphanBrowser, RateLimited, RefusedOnlyAtLimit
<1>5. QED
  BY <1>1, <1>2, <1>3, <1>4 DEF Next
------------------------------------------------------------------------------
\* The state of the opener keeps its types, and recent_opens never holds more
\* than RATE_LIMIT_PER_SEC entries.
THEOREM OpenerTypeCorrect == Spec => []TypeOK
<1>1. BrowserInv => TypeOK
  BY DEF BrowserInv
<1>2. QED
  BY <1>1, InitInv, StepPreserves, PTL DEF Spec

\* prepare: for every limit, window and timing of the requests, no second sees
\* more opened URLs than the limit.
THEOREM NeverTooMany == Spec => []RateLimited
<1>1. BrowserInv => RateLimited
  BY DEF BrowserInv
<1>2. QED
  BY <1>1, InitInv, StepPreserves, PTL DEF Spec

\* prepare: and none is refused without that many opened in the second before.
THEOREM NeverTooStrict == Spec => []RefusedOnlyAtLimit
<1>1. BrowserInv => RefusedOnlyAtLimit
  BY DEF BrowserInv
<1>2. QED
  BY <1>1, InitInv, StepPreserves, PTL DEF Spec

\* launch: a browser command that runs has its request waiting for it, and
\* never runs longer than BROWSER_TIMEOUT.
THEOREM BrowsersReaped == Spec => []NoOrphanBrowser
<1>1. BrowserInv => NoOrphanBrowser
  BY DEF BrowserInv, LaunchInv
<1>2. QED
  BY <1>1, InitInv, StepPreserves, PTL DEF Spec
=============================================================================
