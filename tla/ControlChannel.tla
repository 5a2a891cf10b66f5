--------------------------- MODULE ControlChannel ---------------------------
(***************************************************************************)
(* The control connection between a registered container and the host:     *)
(* JSON lines (control.rs), read by two select! loops whose other branches *)
(* cancel a read in progress, and the host's heartbeat                     *)
(* (handle_container_messages in host/mod.rs).                             *)
(*                                                                         *)
(* A message is its kind, the length of its JSON and the offsets inside    *)
(* it at which a multibyte character would be cut; the line on the wire is *)
(* one byte longer.  fill_buf returns any number of bytes up to the        *)
(* capacity of BufReader, and each chunk must be valid UTF-8 by itself.    *)
(* What a cancelled read_message has consumed is gone with its local       *)
(* String; the rest of that line is then no complete JSON value (its last  *)
(* brace closes what the lost part opened), so it fails to parse whatever  *)
(* the message was.                                                        *)
(***************************************************************************)
EXTENDS Integers, Sequences

CONSTANTS
  MaxMessageSize,  \* MAX_MESSAGE_SIZE
  Capacity,        \* of BufReader
  MaxMissedPongs,  \* MAX_MISSED_PONGS
  Lag,             \* intervals a live container may take for a Pong
  PingSize,        \* JSON length of Ping and of Pong
  Bodies,          \* the other messages: JSON length, offsets inside a character
  MaxLines,        \* bound on those other messages
  MaxTicks         \* bound on the heartbeat of a live container

ASSUME ChannelAssumption ==
  /\ MaxMessageSize \in Nat /\ Capacity \in Nat \ {0}
  /\ MaxMissedPongs \in Nat /\ Lag \in Nat /\ Lag < MaxMissedPongs
  /\ PingSize \in Nat \ {0} /\ PingSize < MaxMessageSize
  /\ Bodies \subseteq [size : Nat \ {0}, mid : SUBSET Nat]
  /\ \A b \in Bodies : b.mid \subseteq 1..(b.size - 1)
  /\ MaxLines \in Nat /\ MaxTicks \in Nat

VARIABLES
  sent,        \* sent[e]: the lines written to e
  delivered,   \* delivered[e]: the messages read_message has returned at e
  lines,       \* lines[e]: newlines e has consumed
  pos,         \* pos[e]: bytes e has consumed of the line after those
  line,        \* line[e]: length of read_message's String
  draining,    \* draining[e]: in the loop that skips the rest of a long line
  ended,       \* ended[e]: why e left its loop
  missed,      \* missed_pongs
  alive,       \* the container runs and its packets arrive
  unanswered,  \* history: Pings sent whose Pong the host has not read
  torn,        \* torn[e]: history: a read was cancelled in the middle of a line
  written,     \* messages other than Ping and Pong so far
  ticks        \* heartbeat ticks so far

readVars == <<delivered, lines, pos, line, draining>>
beatVars == <<missed, alive, unanswered, ticks>>
vars == <<sent, delivered, lines, pos, line, draining, ended, missed, alive, unanswered, torn,
          written, ticks>>

Ends == {"host", "container"}
Peer(e) == IF e = "host" THEN "container" ELSE "host"
Ping == [kind |-> "ping", size |-> PingSize, mid |-> {}]
Pong == [kind |-> "pong", size |-> PingSize, mid |-> {}]
Data(b) == [kind |-> "data", size |-> b.size, mid |-> b.mid]
Running(e) == ended[e] = "no" /\ (e = "container" => alive)
\* Each write ends with the newline, so the last line can be read as well.
HasLine(e) == lines[e] < Len(sent[e])
Current(e) == sent[e][lines[e] + 1]

Init ==
  /\ sent = [e \in Ends |-> <<>>] /\ delivered = [e \in Ends |-> <<>>]
  /\ lines = [e \in Ends |-> 0] /\ pos = [e \in Ends |-> 0] /\ line = [e \in Ends |-> 0]
  /\ draining = [e \in Ends |-> FALSE]
  /\ ended = [e \in Ends |-> "no"]
  /\ missed = 0 /\ alive = TRUE /\ unanswered = 0
  /\ torn = [e \in Ends |-> FALSE]
  /\ written = 0 /\ ticks = 0
------------------------------------------------------------------------------
(* Writing, and what it does to the read of the same loop *)

\* Another branch of e's select! is taken: the read_message future is dropped.
Cancel(e) ==
  /\ line' = [line EXCEPT ![e] = 0]
  /\ draining' = [draining EXCEPT ![e] = FALSE]
  /\ torn' = [torn EXCEPT ![e] = @ \/ pos[e] > 0]

\* write_message: one line, unless its JSON is too long.
Put(e, msg) ==
  /\ msg.size <= MaxMessageSize
  /\ sent' = [sent EXCEPT ![Peer(e)] = Append(@, msg)]

\* A branch with something to send: ConnectRequest and socket messages at the
\* host, the Forwards of a scan at the container.
Write(e, b) ==
  /\ Running(e) /\ written < MaxLines
  /\ Put(e, Data(b))
  /\ Cancel(e)
  /\ written' = written + 1
  /\ UNCHANGED <<delivered, lines, pos, ended, beatVars>>

\* A branch with nothing to send: a scan without changes, a finished relay.
Interrupt(e) ==
  /\ Running(e) /\ pos[e] > 0 /\ line[e] > 0
  /\ Cancel(e)
  /\ UNCHANGED <<sent, delivered, lines, pos, ended, beatVars, written>>

\* A peer that does not use write_message keeps to no limit.
ForeignWrite(b) ==
  /\ Running("container") /\ written < MaxLines
  /\ sent' = [sent EXCEPT !["host"] = Append(@, Data(b))]
  /\ written' = written + 1
  /\ UNCHANGED <<readVars, ended, beatVars, torn>>
------------------------------------------------------------------------------
(* read_message *)

\* from_utf8 of the chunk that ends at offset i: no character is cut at its
\* start (after a drain or a cancelled read) or at its end.
Valid(e, i) == {pos[e], i} \cap Current(e).mid = {}

\* A chunk without a newline: appended to the String, or the start of the
\* drain, or drained.
ReadChunk(e) ==
  /\ Running(e) /\ HasLine(e)
  /\ \E k \in 1..Capacity :
       /\ pos[e] + k <= Current(e).size
       /\ pos' = [pos EXCEPT ![e] = @ + k]
       /\ IF draining[e] \/ line[e] + k > MaxMessageSize
          THEN draining' = [draining EXCEPT ![e] = TRUE] /\ UNCHANGED line
          ELSE /\ Valid(e, pos[e] + k)
               /\ line' = [line EXCEPT ![e] = @ + k] /\ UNCHANGED draining
  /\ UNCHANGED <<sent, delivered, lines, ended, beatVars, torn, written>>

Skip(e) ==
  /\ lines' = [lines EXCEPT ![e] = @ + 1]
  /\ pos' = [pos EXCEPT ![e] = 0]
  /\ line' = [line EXCEPT ![e] = 0]
  /\ draining' = [draining EXCEPT ![e] = FALSE]

LineLen(e) == line[e] + Current(e).size + 1 - pos[e]
AtNewline(e) ==
  /\ Running(e) /\ HasLine(e)
  /\ Current(e).size + 1 - pos[e] <= Capacity
\* Mutant of TooLong: the limit is one byte lower.
TooLongEarly(e) == draining[e] \/ LineLen(e) >= MaxMessageSize
TooLong(e) == draining[e] \/ LineLen(e) > MaxMessageSize
Whole(e) == line[e] = pos[e]
\* The last chunk decodes; the drain does not look.
Decodes(e) == draining[e] \/ Valid(e, Current(e).size)

\* A chunk that is no UTF-8, with or without the newline: an error, and the
\* chunk is not consumed.
ChunkInvalid(e) ==
  /\ Running(e) /\ HasLine(e)
  /\ \/ AtNewline(e) /\ ~Decodes(e)
     \/ /\ ~draining[e]
        /\ \E k \in 1..Capacity :
             /\ pos[e] + k <= Current(e).size /\ line[e] + k <= MaxMessageSize
             /\ ~Valid(e, pos[e] + k)
  /\ ended' = [ended EXCEPT ![e] = "utf8"]
  /\ UNCHANGED <<sent, readVars, beatVars, torn, written>>

\* Mutant of ReadError: the reader goes on with the next line.
ReadErrorGoesOn(e) ==
  /\ AtNewline(e) /\ Decodes(e) /\ (TooLong(e) \/ ~Whole(e))
  /\ Skip(e)
  /\ UNCHANGED <<sent, delivered, ended, beatVars, torn, written>>

\* MessageTooLarge, or a line that does not parse: both loops end on any error.
ReadError(e) ==
  /\ AtNewline(e) /\ Decodes(e)
  /\ \/ TooLong(e) /\ ended' = [ended EXCEPT ![e] = "size"]
     \/ ~TooLong(e) /\ ~Whole(e) /\ ended' = [ended EXCEPT ![e] = "parse"]
  /\ Skip(e)
  /\ UNCHANGED <<sent, delivered, beatVars, torn, written>>

\* The newline is there and the line is complete.
Deliver(e) ==
  /\ AtNewline(e) /\ Decodes(e) /\ ~TooLong(e) /\ Whole(e)
  /\ Skip(e)
  /\ delivered' = [delivered EXCEPT ![e] = Append(@, Current(e))]
  /\ UNCHANGED <<ended, torn, written>>

\* The host dispatches a Pong.
RecvPong ==
  /\ HasLine("host") /\ Current("host").kind = "pong"
  /\ Deliver("host")
  /\ missed' = 0 /\ unanswered' = unanswered - 1
  /\ UNCHANGED <<sent, alive, ticks>>

\* The container answers a Ping before it reads on.
RecvPing ==
  /\ HasLine("container") /\ Current("container").kind = "ping"
  /\ Deliver("container")
  /\ Put("container", Pong)
  /\ UNCHANGED beatVars

RecvOther(e) ==
  /\ HasLine(e) /\ Current(e).kind = "data"
  /\ Deliver(e)
  /\ UNCHANGED <<sent, beatVars>>

\* The peer has closed: EOF, or a reset that also loses what was not yet read.
RecvClosed(e) ==
  /\ Running(e) /\ ended[Peer(e)] # "no"
  /\ ended' = [ended EXCEPT ![e] = "closed"]
  /\ UNCHANGED <<sent, readVars, beatVars, torn, written>>
------------------------------------------------------------------------------
(* The heartbeat *)

\* A live container answers within Lag intervals: this is what the tick of a
\* clock may not overtake.
InTime == alive /\ ended["container"] = "no" => unanswered <= Lag

\* The bound: MaxTicks ticks while the container is alive.
Clock == IF alive THEN ticks < MaxTicks /\ ticks' = ticks + 1 ELSE UNCHANGED ticks

\* Mutant of Tick: the third missed Pong already counts.
TickEarly ==
  /\ ended["host"] = "no" /\ InTime
  /\ Clock
  /\ missed' = missed + 1
  /\ IF missed' >= MaxMissedPongs
     THEN ended' = [ended EXCEPT !["host"] = "heartbeat"] /\ UNCHANGED <<sent, unanswered>>
     ELSE Put("host", Ping) /\ unanswered' = unanswered + 1 /\ UNCHANGED ended
  /\ Cancel("host")
  /\ UNCHANGED <<delivered, lines, pos, alive, written>>

\* Mutant of Tick: the silent container is only logged.
TickLogsOnly ==
  /\ ended["host"] = "no" /\ InTime
  /\ Clock
  /\ missed < MaxMissedPongs /\ missed' = missed + 1
  /\ Put("host", Ping) /\ unanswered' = unanswered + 1
  /\ Cancel("host")
  /\ UNCHANGED <<delivered, lines, pos, alive, written, ended>>

\* Every HEARTBEAT_INTERVAL: one more missed Pong; the next Ping, or the end.
Tick ==
  /\ ended["host"] = "no" /\ InTime
  /\ Clock
  /\ missed' = missed + 1
  /\ IF missed' > MaxMissedPongs
     THEN ended' = [ended EXCEPT !["host"] = "heartbeat"] /\ UNCHANGED <<sent, unanswered>>
     ELSE Put("host", Ping) /\ unanswered' = unanswered + 1 /\ UNCHANGED ended
  /\ Cancel("host")
  /\ UNCHANGED <<delivered, lines, pos, alive, written>>

\* The container stops, or its packets do, and the connection stays open.
Freeze ==
  /\ alive
  /\ alive' = FALSE
  /\ UNCHANGED <<sent, readVars, ended, missed, unanswered, torn, written, ticks>>
------------------------------------------------------------------------------
Reading(e) == ReadChunk(e) \/ ChunkInvalid(e) \/ ReadError(e) \/ RecvOther(e) \/ RecvClosed(e)
Protocol == RecvPong \/ RecvPing \/ Tick

Next ==
  \/ \E e \in Ends : Reading(e) \/ Interrupt(e) \/ \E b \in Bodies : Write(e, b)
  \/ \E b \in Bodies : ForeignWrite(b)
  \/ Protocol
  \/ Freeze

\* Both loops are polled when their connection or their timer is ready.
Fairness ==
  /\ WF_vars(Tick)
  /\ WF_vars((\E e \in Ends : Reading(e)) \/ RecvPong \/ RecvPing)

Spec == Init /\ [][Next]_vars /\ Fairness
------------------------------------------------------------------------------
Messages == [kind : {"ping", "pong", "data"}, size : Nat, mid : SUBSET Nat]

TypeOK ==
  /\ sent \in [Ends -> Seq(Messages)] /\ delivered \in [Ends -> Seq(Messages)]
  /\ lines \in [Ends -> Nat] /\ pos \in [Ends -> Nat]
  /\ line \in [Ends -> 0..MaxMessageSize]
  /\ draining \in [Ends -> BOOLEAN] /\ torn \in [Ends -> BOOLEAN]
  /\ ended \in [Ends -> {"no", "size", "parse", "utf8", "closed", "heartbeat"}]
  /\ missed \in Nat /\ unanswered \in Int
  /\ alive \in BOOLEAN
  /\ written \in Nat /\ ticks \in Nat

\* read_message under select!: whatever is cancelled, split, too long or
\* skipped, what a reader has been given is a prefix of what was written to
\* it, message by message.
DeliveredPrefix ==
  \A e \in Ends :
    /\ Len(delivered[e]) <= Len(sent[e])
    /\ \A i \in 1..Len(delivered[e]) : delivered[e][i] = sent[e][i]

\* A connection breaks for a line that does not parse only if a read was
\* cancelled inside a line; for its size only if the JSON has MAX_MESSAGE_SIZE
\* bytes or more (one fewer than write_message allows); for its encoding only
\* at a line with a multibyte character.  (The last can hit a line that is
\* short, complete and read without a cancel: the doc comment of read_message
\* rules it out because all values were ASCII, but process names, paths and
\* URLs need not be.)
ErrorsExplained ==
  \A e \in Ends :
    /\ ended[e] = "parse" => torn[e]
    /\ ended[e] = "size" => sent[e][lines[e]].size >= MaxMessageSize
    /\ ended[e] = "utf8" => HasLine(e) /\ Current(e).mid # {}

\* handle_container_messages: a container that answers within Lag intervals is
\* never dropped, even when its Pongs arrive late or out of step.
HeartbeatSparesLive ==
  ended["host"] = "heartbeat" => ~alive \/ ended["container"] # "no"

\* A container that falls silent is given up, whatever is on the wire.
SilentDropped == ~alive ~> ended["host"] # "no"

==============================================================================
