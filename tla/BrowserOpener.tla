--------------------------- MODULE BrowserOpener ---------------------------
(***************************************************************************)
(* Opening URLs (host/browser.rs, the OpenUrl handlers of host/mod.rs,     *)
(* container/browser.rs): `dbr open` validates, asks the host and waits;   *)
(* the host validates again, limits the rate in a sliding window under the *)
(* browser lock, and runs the browser without it, for at most              *)
(* BROWSER_TIMEOUT.  The rewriting of the URL's port uses the port map,    *)
(* which is part of HostRegistry.                                          *)
(*                                                                         *)
(* Time is a clock that no timeout may overtake.                           *)
(***************************************************************************)
EXTENDS Integers, Sequences

CONSTANTS
  Requests,        \* OpenUrl requests
  Limit,           \* RATE_LIMIT_PER_SEC
  Window,          \* one second
  BrowserTimeout,  \* BROWSER_TIMEOUT
  MaxClock         \* bound on the clock while no browser runs

ASSUME BrowserAssumption ==
  /\ Limit \in Nat \ {0} /\ Window \in Nat \ {0}
  /\ BrowserTimeout \in Nat \ {0} /\ MaxClock \in Nat

VARIABLES
  clock,     \* Instant::now()
  recent,    \* BrowserOpener::recent_opens
  req,       \* req[r]: where the request is, in the end the OpenUrlAck
  process,   \* process[r]: its browser command
  since,     \* since[r]: when the command was started
  opened,    \* history: the times of all commands started
  refused    \* history: the times of all requests refused for the rate

vars == <<clock, recent, req, process, since, opened, refused>>

Init ==
  /\ clock = 0
  /\ recent = <<>>
  /\ req = [r \in Requests |-> "none"]
  /\ process = [r \in Requests |-> "none"]
  /\ since = [r \in Requests |-> 0]
  /\ opened = <<>> /\ refused = <<>>
------------------------------------------------------------------------------
\* open_url: an invalid URL is not sent.  (Other clients do not validate.)
Ask(r) ==
  /\ req[r] = "none"
  /\ \E valid \in BOOLEAN : req' = [req EXCEPT ![r] = IF valid THEN "sent" ELSE "invalid"]
  /\ UNCHANGED <<clock, recent, process, since, opened, refused>>

\* OpenUrlAck, to one who may have left: nothing tells the host before.
Ack(r, success) == req' = [req EXCEPT ![r] = IF success THEN "opened" ELSE "failed"]

\* The host's own validation.
PrepareInvalid(r) ==
  /\ req[r] = "invalid"
  /\ Ack(r, FALSE)
  /\ UNCHANGED <<clock, recent, process, since, opened, refused>>

\* Mutant of Expired: an entry expires with the last instant of its second.
ExpiredEarly(t) == clock - t >= Window - 1
\* Mutant of Expired: it stays an instant too long.
ExpiredLate(t) == clock - t > Window
\* An entry leaves the window after a whole second.
Expired(t) == clock - t >= Window

\* Expired entries are popped from the front, up to the first that has not.
Prune ==
  LET n == CHOOSE n \in 0..Len(recent) :
             /\ \A i \in 1..n : Expired(recent[i])
             /\ n < Len(recent) => ~Expired(recent[n + 1])
  IN  SubSeq(recent, n + 1, Len(recent))

\* prepare and the start of the command: the lock is only held in between.
Prepare(r) ==
  /\ req[r] = "sent"
  /\ Len(Prune) < Limit
  /\ recent' = Append(Prune, clock)
  /\ opened' = Append(opened, clock)
  /\ req' = [req EXCEPT ![r] = "launching"]
  /\ process' = [process EXCEPT ![r] = "running"]
  /\ since' = [since EXCEPT ![r] = clock]
  /\ UNCHANGED <<clock, refused>>

PrepareLimited(r) ==
  /\ req[r] = "sent"
  /\ Len(Prune) >= Limit
  /\ recent' = Prune
  /\ refused' = Append(refused, clock)
  /\ Ack(r, FALSE)
  /\ UNCHANGED <<clock, process, since, opened>>

\* The command exits, well or not, or could not be started at all.
BrowserExits(r) ==
  /\ req[r] = "launching"
  /\ process' = [process EXCEPT ![r] = "exited"]
  /\ \E success \in BOOLEAN : Ack(r, success)
  /\ UNCHANGED <<clock, recent, since, opened, refused>>

\* BROWSER_TIMEOUT: the future is dropped, and kill_on_drop ends the command.
LaunchTimeout(r) ==
  /\ req[r] = "launching" /\ clock - since[r] >= BrowserTimeout
  /\ process' = [process EXCEPT ![r] = "killed"]
  /\ Ack(r, FALSE)
  /\ UNCHANGED <<clock, recent, since, opened, refused>>

\* Time passes, but not beyond a timeout that is due.
Tick ==
  /\ clock < MaxClock \/ \E r \in Requests : req[r] = "launching"
  /\ \A r \in Requests : req[r] = "launching" => clock - since[r] < BrowserTimeout
  /\ clock' = clock + 1
  /\ UNCHANGED <<recent, req, process, since, opened, refused>>
------------------------------------------------------------------------------
Handle(r) == PrepareInvalid(r) \/ Prepare(r) \/ PrepareLimited(r) \/ BrowserExits(r) \/ LaunchTimeout(r)
Next == Tick \/ \E r \in Requests : Ask(r) \/ Handle(r)

Spec == Init /\ [][Next]_vars
------------------------------------------------------------------------------
TypeOK ==
  /\ clock \in Nat
  /\ recent \in Seq(Nat) /\ opened \in Seq(Nat) /\ refused \in Seq(Nat)
  /\ req \in [Requests -> {"none", "sent", "invalid", "launching", "opened", "failed"}]
  /\ process \in [Requests -> {"none", "running", "exited", "killed"}]
  /\ since \in [Requests -> Nat]
  /\ Len(recent) <= Limit

\* prepare: whatever the arrival times, no window of one second holds more
\* than Limit opened URLs.
RateLimited ==
  \A i \in 1..Len(opened) : i + Limit <= Len(opened) => opened[i + Limit] - opened[i] >= Window

\* Nor is the limit too strict: a request is refused only if Limit URLs were
\* opened within the second before it.
RefusedOnlyAtLimit ==
  \A j \in 1..Len(refused) :
    \E i \in 1..Len(opened) :
      /\ i + Limit - 1 <= Len(opened)
      /\ refused[j] - Window < opened[i] /\ opened[i + Limit - 1] <= refused[j]

\* launch: no browser command runs on without a request that waits for it, and
\* none beyond BROWSER_TIMEOUT.
NoOrphanBrowser ==
  \A r \in Requests : process[r] = "running" =>
    req[r] = "launching" /\ clock - since[r] <= BrowserTimeout
==============================================================================
