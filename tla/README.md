# devcontainer-bridge in TLA+

`dbr` makes the ports of development containers reachable on the host. A *host
daemon* (`dbr host-daemon`) accepts control connections from *container
daemons* (`dbr container-daemon`). A container scans its own listening ports
and asks for each to be forwarded. The host binds a listener on loopback, hands
every client it accepts to the container with a `ConnectRequest`, and the
container answers with a reverse data connection that carries the same
`conn_id`. URLs, the clipboard and Unix sockets travel over the same control
connection.

This directory holds TLA+ modules that model the daemon, the TLC configurations
that check them on small instances, and proofs that TLAPS checks for every size.
Source paths below are relative to the repository root.

## 1. Inventory

### Components, their state and operations

| Component | State | Operations | Module |
|---|---|---|---|
| Port allocation (`src/host/mod.rs`, `find_available_port`) | `used_host_ports` | a wrapping scan for a free port | `PortSpace`, `PortAlloc` |
| Registry (`src/host/mod.rs`) | `containers`, each with its `forwards` and `registration_id`; `used_host_ports`; the state lock; the shutdown channel | Register, Forward, Unforward, `dbr unforward`, disconnect and cleanup, exit-on-idle, shutdown | `HostRegistry` |
| Listeners (`src/host/listener.rs`) | one socket on 127.0.0.1 or [::1], a stop signal, the client channel of 256 | bind with fallback, accept, send, stop | `HostRegistry` (life cycle), `ClientProxy` (accept and channel) |
| Client proxying (`src/host/mod.rs`, `src/host/proxy.rs`) | `ConnectionTracker` (count, notify, cancel), the pending map, a request channel per registration | accept, route, count, register, request, bridge, give up, force-close; teardown and drain | `ClientProxy` |
| Container data connections (`src/container/data.rs`) | none of its own | connect, ConnectReady or ConnectFailed | outcomes in `ClientProxy` |
| Control framing (`src/control.rs`) | a buffered reader and writer | `read_message`, `write_message` with a size limit | `ControlChannel` |
| Host heartbeat (`handle_container_messages`) | `missed_pongs` | tick, Pong | `ControlChannel` |
| Scanner and filter (`src/container/scanner.rs`, `src/container/filter.rs`) | none | read `/proc`, resolve names, include and exclude | `PortDiscovery` |
| Container session (`src/container/mod.rs`, `features/dbr/entrypoint.sh`) | `forwarded` ports, back-off, session outcome | resolve, connect, register, re-forward, scan, ForwardAck, shutdown, restart | `ContainerSession` |
| Socket forwarding (`src/host/socket_scanner.rs`, `src/container/socket.rs`, `src/host/mod.rs`) | `socket_forwards`; mirrors and their files in the container | scan, diff, broadcast with `try_send`, mirror, client | `SocketForwarding` |
| Browser opener (`src/host/browser.rs`, `src/container/browser.rs`) | `port_map`, `recent_opens` | validate, rate limit, launch, timeout | `BrowserOpener`; the map in `HostRegistry` |
| Clipboard (`src/host/clipboard.rs`, `src/clipboard_*.rs`) | a semaphore of one | authenticate, capture, stream, receive, save, paste | `Clipboard` |
| Ensure and life cycle (`src/host/ensure.rs`, `src/main.rs`) | PID file, spawned daemon, control port | ensure, stop, restart, host-daemon | `HostStartup` |
| Authentication token (`src/auth.rs`, `src/main.rs`) | the token file | resolve, generate, write, validate | `TokenSources`, `HostStartup` |
| Configuration, command line, protocol (`src/config.rs`, `src/cli.rs`, `src/protocol.rs`) | files | parsing, serde | not modelled |

### How they interact

* `run()` is one select loop. It spawns a task per control connection, per data
  connection and per client. All of them share `HostState` behind one async
  mutex, the browser's map behind a second and the pending map behind a third.
* A control task never holds the state lock for a whole operation. It looks,
  unlocks, awaits (a bind, a listener's end, a drain of up to five seconds, a
  send) and locks again. What other tasks do in the gaps is the heart of the
  system and of `HostRegistry`.
* A client's task copies what it needs out of `HostState` under the lock (the
  tracker, the request channel) and works with these copies after it, while the
  forward may be torn down. That is the heart of `ClientProxy`.
* `registration_id` tells the connections of one container apart.
* Both ends of a control connection read it in a `select!` loop whose other
  branches (heartbeat, scan, relays, shutdown) cancel a read in progress:
  `ControlChannel`.
* The container learns what the host has done for it from `ForwardAck` only, and
  the host what the container wants from `Forward` and `Unforward` only; links
  break, daemons die and are restarted: `ContainerSession`.
* Processes on one host meet in the control port, the PID file and the token
  file, without a lock: `HostStartup`.

### What is hard here

Concurrent registrations of one container; checks that are stale when they are
used; host ports that are freed before their socket is closed; awaits with the
lock held; the drain's wait loop and its cancel signal against clients that come
late; timeouts against late answers; the ends of the port space; reads that are
cancelled half-way; a queue that drops what it has no room for; answers that
cannot be told apart; processes that race for a file. `PROJECT.json` lists each one under `hazards` with its line and the properties that cover it.

### What makes each component correct

* *Allocation*: the port returned is free, it is the next one, and None comes
  only when none is left.
* *Registry*: a host port serves one forward at a time; a tabled forward is
  served; no listener, entry or booking is left behind; a newer registration
  survives the end of an older one; the limits hold; shutdown ends.
* *Proxying*: a client reaches the container it asked for; the tracker counts
  exactly; a drain neither hangs nor lets go of anybody; the pending map is
  bounded; every accepted client is answered.
* *Control channel*: what a reader gets is a prefix of what was written, a read
  error has a known cause (one of them hits an intact line), a container that answers pings is kept and a silent
  one dropped.
* *Container session*: host and container agree on forwards up to what is on
  the wire and what a superseded connection did late; the daemon converges once its surroundings
  are quiet; a shutdown leaves nothing on the host.
* *Sockets*: the mirrors match the host's table up to what a full queue lost,
  their files are theirs, and a file without a mirror is one that an operation
  failed on.
* *Browser*: no window holds more launches than the limit, no request is refused
  below it, no browser process is left behind.
* *Clipboard*: one transfer at a time, all of a list of files or nothing, one
  representation of a picture or nothing.
* *Life cycle and token*: overlapping `ensure`s succeed together; restart
  replaces, stop stops; the container's token is the daemon's.

## 2. Modules

### PortSpace and PortAlloc

`PortSpace` defines the port space by its largest number and its first
unprivileged one (65535 and 1024 in the code), and `FindAvailablePort`, the
closed form of `find_available_port`: the set of results, a singleton if the
search ends and empty if it does not. `PortAlloc` is the loop itself, one
iteration per step, from every occupancy and every preference; `wrapping_add`
is addition modulo `MaxPort + 1`. `HostRegistry` uses the closed form, which is
justified because the loop runs under the lock without an await.

### HostRegistry and PortLease

A step is one critical section of the state lock, or one piece of work between
two of them. `pc[h]` says where the task of connection `h` is:

| Labels | Code |
|---|---|
| `new` | before the first message of `handle_control_connection` |
| `regUnmap`, `regDrain`, `regAck`, `regInsert` | the rest of the `Register` arm |
| `serving` | the loop of `handle_container_messages` |
| `fwdLimit` ... `fwdMap` | `handle_forward`, then the success arm of `Forward` |
| `unfRemove` ... `unfUnmap` | `handle_unforward`, then the browser's map |
| `admUnmap`, `admStop`, `admDrain` | `handle_unforward_global` |
| `cleanup`, `clnUnmap`, `clnDrain` | `cleanup_container` |
| `idleCheck`, `idleSend` | the exit-on-idle check |
| `left`, `done` | a served connection, or a one-shot one, has ended |

`owner[c]` is the connection whose `ContainerState` is in `containers`: a
connection registers at most once and stands for its `registration_id`.
`forwards[c][p]` is the listener of a `ForwardState`, a pair of host port and
address family; its first component is `host_port`. `sock` tells a socket that
accepts from one that was told to stop but is still bound. `wait[h]` holds the
listeners whose `JoinHandle` the task awaits. `lock` is a variable because an
orphaned listener, the exit-on-idle message and the whole shutdown are awaited
with the lock held.

`PortLease` is the abstract promise: a host port belongs to at most one forward
and changes hands only through being free. `LeaseOf` is the refinement mapping,
`LeaseRefinement` the statement that the registry implements it.

### ClientProxy

`client[k]` is where the connection of client `k` is: `offered` by a listener
that is sending it, `queued` in the client channel, then `accepted` by `run()`
and through its task's `routed`, `counted`, `registered`, `requested`, `waiting`
to `bridged` and out through `leaving`, `notifying`. `looping` says that the
select loop still empties the channel. `rx[k]` is the task's oneshot channel,
`peer[k]` the container's side of its `conn_id`. `fwd[f]` is a forward between
`up` and the end of its drain: `stopping` while its listener is awaited, which
may be blocked on the channel; `created` and `awaiting` are the two halves of
the loop in `wait_drained`. `woken` is the state of the drain's `Notified`
future, `heeds[k]` whether the client's `watch` receiver was there before the
cancel (one that subscribes later has the value marked as seen and never wakes).

A client's send into the pending map and its entry's removal are separate from
the drop of its receiver, as in the code: a force-closed client leaves its entry
behind.

### ControlChannel

Both directions of one connection, and the loops that read them. `sent[e]` are
the lines written to end `e`; the reader has consumed `lines[e]` of them and
`pos[e]` bytes of the next, `line[e]` is the length of its `String` and
`draining[e]` says that it skips the rest of a line that is too long. A body is
its length and `mid`, the places at which a cut goes through a multibyte
character: `ReadChunk` runs `from_utf8` on each chunk by itself, as the code does,
and a chunk that begins or ends there is an error. `Interrupt`
is another branch of `select!`: it drops the `String` and keeps what `fill_buf`
has consumed. `missed` is `missed_pongs`; `unanswered` and `torn` are history.
`ForeignWrite` is a peer that does not keep to the limit of `write_message`.

### PortDiscovery and ContainerSession

`PortDiscovery` has no variables: what `scan_listening_ports` and `PortFilter` make of
two `/proc` files either of which may be unreadable, with names looked up only
where the daemon may and has to.

`ContainerSession` is `run()` of the container daemon with its supervisor. `phase` is where
it is: `resolving`, `connecting`, `registering`, `reforward`, `session`, `draining`,
`backoff`, and `exited` or `failed` (which the entrypoint does not restart) or
`dead` (which it does). `todo` is what the current scan has still to send; a
scan's messages go out one by one, with the host reading in between. `toHost`
and `acks` are the two directions of the wire, `hostForwards` the host's table
reduced to this container. The host handles a `Forward` in two steps, as
`handle_forward` does: `HostForward` takes the old forward out of the entry, and
after a drain and a bind without the lock `HostCommit` inserts the new one or
`HostReject` answers no (`binding` is the gap). When a newer connection replaces
one whose task has a message in hand, the message goes to `late`, with where it
is: past the test of the registration id (`checked`) or past the first lock
(`binding`). `LateTeardown` and `LateCommit` go on with it, on the entry the
container has by then. `dropped`, `crossed` and `intruded` are history: forwards that
`dbr unforward` removed without telling the container, ports whose late
`ForwardAck(false)` hit a newer `Forward`, and ports whose forward such a late
step changed.

### SocketForwarding

`known` is the scanner's own table, `found` the result of a scan before it is
published, `forwards` the table in `HostState`. `outbox` is a broadcast under
way and `target` whether it has captured the sender of the current
registration: it captures the senders under the lock and tries them after it.
`reg` goes from `inserted` to `open` when the list of existing forwards has been
sent, so that a socket may be announced by both, either or, with a full `queue`,
neither. `mirrors` and `files` are the container's side, `client`, `via`, `pend`
the way of a mirror's client to the bridge. `remove_file` may fail, which is only
logged, and `create_mirror_socket` may fail after its bind: either way the file
becomes `Orphan`, and `stuck` (history) has its path until a file operation
succeeds there.

### BrowserOpener

`recent` is `recent_opens`, `req[r]` and `process[r]` a request and its browser
command. `clock` stands for `Instant::now()` and advances past no timeout that
is due. `opened` and `refused` are the history that the properties are about.

### TokenSources and HostStartup

`TokenSources` has no variables: which of flag, flag file, environment, environment
file, mounted secret and default file each program takes its token from.
`HostStartup` is a set of commands, each at `at[c]`: `probe` (is a daemon there?),
`token`, `generate` and `write` (of the token file, with a truncated file in
between), `spawn`, `pid`, `poll`; `stop`, `await`, `closed`, `sleep` for `stop` and
`restart`. `run[d]` is the life of the daemon a command started, which holds the control
port from `serving` to `exiting` - or to `hung`: `drain_all_forwards` may wait for
ever, as `registry_shutdown` shows, and the process then keeps the port. `raced`, `overlap` and `disturbed` are
history.

### Clipboard

`client[k]` is `paste()`, `host[k]` the host's task for it with the transfer
`permit`, `tried[k]` the representations that remain to be asked for. A
selection is a list of copied files, or one picture in one or more
representations. The macOS helper lists the files first (`batch[k]` while
`capturing`), with `changeCount`; `MacCapture` reads them and compares it
(`stale[k]`: the selection has changed since). If none was listed,
`PictureCapture` asks for one representation after the other, of what is selected
at that moment and without comparing anything, and may make a PNG of a TIFF.
Files that were selected in between give the picture Finder draws of them
(`rendered[k]`, history). Linux has the second part only. Frames travel one by
one on `wire[k]`.

## 3. Runs

Passing:

| Run | Question | Instance |
|---|---|---|
| `port_alloc` | Does the loop return the closed form, and does it end? | all 2^7 occupancies of seven ports (three privileged), eight preferences |
| `registry_solo` | With one connection per container, does the registry implement the lease, is no port leaked and the forward limit kept? | two containers, two container ports, a limit of one forward |
| `registry_reconnect` | With an old and a new session of one container at work together: are ports exclusive, forwards served, listeners and entries owned? Does the new registration survive the old, does every cleanup complete, and does whoever leaves last stop the daemon? | two connections of one container, one container port, two host ports, `--exit-on-idle` |
| `proxy` | Is the tracker exact, no wake-up lost, nobody turned away but for others that wait, every client answered, every listener joined while the loop runs, and does a cancel reach its subscribers? | two clients of one forward; the pending map and both queues hold one |
| `session` | Do the two sides agree on forwards and names, late steps of superseded connections apart, does the daemon converge, does a shutdown release everything? | four sockets on three ports (one the daemon's own, one in both families), two of which stay open; three faults |
| `sockets` | Do mirrors match the host's table, can they be reached, is no file left but by a failed operation, does every client settle? | three host sockets, two with one container path, a limit of two, a queue of one |
| `control` | Are messages delivered in order and errors explained, live containers kept, silent ones dropped? | a limit of three bytes, messages of two, three and six, the last two with a multibyte character, chunks of at most two; four ticks of a live container |
| `startup` | Do tokens agree unless ensure overrides the environment, do ensures succeed together, PID files stay, restart replace, does a stopped daemon take no more requests? | three commands, two at once, one fault; a token nowhere, in the environment, or a flag that names no file |
| `clipboard` | Is the permit conserved, is what a client keeps whole, does every request end, and none because host and client disagree on the limits? | two clients, both platforms, five selections around the limits (three lists of files, two pictures), two faults |
| `browser` | Is the limit kept and not too strict? | four requests, a limit of two in a window of three, a timeout of two |

Every invariant that a passing run checks, its action properties and the
refinement are also proved (section 4). In `ClientProxy`, `ContainerSession`, `SocketForwarding`, `HostStartup` and
`Clipboard` one safety invariant has `TypeOK` as its first conjunct.

Runs that are expected to fail state what a document of the repository says.
TLC shows how the code gets around it:

| Run | What the text says | What happens |
|---|---|---|
| `registry_shutdown` | SIGTERM shuts down cleanly | a task blocked on the full shutdown channel holds the lock |
| `proxy_routing` | each container has its own host port for a shared container port | clients are routed by the container port alone |

More such places are visible in the models and have no run of their own. Where
a property would fail because of one, it names the exception:

* With every port from 1024 up booked and a preference below 1024,
  `find_available_port` does not return; its comment promises `None`
  (`SearchEnds` leaves that occupancy out). It takes 64512 bookings.
* The container limit is tested and the container inserted in different critical
  sections, so two registrations may pass the test together (`src/host/mod.rs`,
  the comment above the test says otherwise).
* A superseded connection that has passed the ownership test of `Forward` tables
  its forward in the newer registration (`src/host/mod.rs:1347-1360` compares no
  id; the comment at 1054-1056 says a superseded connection stops processing). The
  container never learns of it. `NoStaleForward` and `NoPhantomForward` except such
  ports (`intruded`) until the container forwards or unforwards them itself.
  Overlapping registrations of one container can leak a booking as well:
  `NoLeakedPort` is checked with one connection per container.
* With `--exit-on-idle` a container that is registering anew does not count as
  connected, so the daemon may exit under it.
* A host port is freed before its listener has closed its socket. The next
  `Forward` of that number then fails on 127.0.0.1 and succeeds on [::1]
  (`ForwardBind`), where the comment of `handle_forward` expects it to fail.
* A client that is counted or subscribes after a drain has given up is not
  force-closed; `CancelReachesSubscribers` is about the ones before.
* A listener blocked on the full client channel when the select loop has ended is
  never joined; `ListenerStops` holds while the loop runs.
* The reader's size limit counts the newline: a message of exactly
  `MAX_MESSAGE_SIZE` bytes, which `write_message` accepts, is an error at the
  other end (`ErrorsExplained`).
* A `select!` branch that fires in the middle of a line loses the first part of
  that line, and the connection breaks on the rest (`ErrorsExplained`).
* A multibyte character that two chunks of the reader's buffer share ends the
  connection although the line is intact (`src/control.rs:83` and `112`). The
  comment at 58-61 says this cannot occur, since all values are ASCII; process
  names, paths and URLs need not be (`ErrorsExplained`).
* A late `ForwardAck(false)` is taken for the answer to a newer `Forward`
  (`NoStaleForward`, variable `crossed`); `dbr unforward` does not tell the
  container (`NoPhantomForward`, variable `dropped`).
* SIGTERM while the host's name fails to resolve is lost: the process fails, and
  the entrypoint starts it again (`ShutdownReleases`).
* Two host sockets with one file name have one container path: removing one
  removes the file of the other (`MirrorReachable`).
* A socket file stays without a mirror when `remove_file` fails or a step after
  the bind does (`src/container/socket.rs:203-219`, `160-179`), until the next mirror
  at its path (`NoStaleFile`, `stuck`).
* Two commands that both find no token file each write one (`TokenAgrees`).
* `dbr ensure` passes the default file's token on as a flag, and the daemon then
  does not look at `DCBRIDGE_AUTH_TOKEN`, which containers and other commands
  prefer. `docs/security.md:97-104` and `docs/cli-guide.md:95-102` promise one
  precedence, environment before file, for daemons and commands. With the variable
  set to another token than the file's, the daemon that `ensure` starts refuses
  the container. `TokenAgrees` claims nothing of such a daemon (`EnvOverridden`).
* `docs/cli-guide.md` also gives the environment precedence over
  `--auth-token-file`, `resolve_token` the other way round.
* `dbr stop` with a refused token prints success and removes the PID file
  (`PidFileKept`). It prints success for a daemon that goes on to hang in its drain
  too: `StopEffective` says that the daemon takes no further request, not that it
  ends.
* The comment of the capture (`src/clipboard_capture.rs:63-66`) promises that
  copied files are transferred rather than Finder's icons. The helper compares
  `changeCount` for listed files only; files copied after it has listed none give
  the icon (`WholeSelection`, `rendered`).

### Bounds

* Connections: two of one container give the overlap of an old and a new
  session (`registry_reconnect`); two of different containers
  give contention for ports (`registry_solo`). A
  connection registers once, so more connections repeat the pattern; the proofs
  cover any number.
* Ports: with two container ports that two
  containers forward, a second forward is sent to an alternative host port and
  may find none.
* Limits and queues (`MaxContainers`, `MaxForwards`, `MaxPending`, `RequestQueue`,
  `ClientQueue`, `MaxSockets`, `Queue`, `Limit`, the clipboard's) stand for numbers from
  2 to 1024 and are chosen so that each limit is met and exceeded.
  `shutdownQueue` has the capacity of the code, one.
* Sizes on the control channel are one below, at, and far above the limit (so
  that the drain takes several chunks), in a buffer smaller than a line.
* `MaxFaults` bounds what the environment does (`session`, `startup`,
  `clipboard`): three cover a loss, its repair and a second loss, or a link that
  breaks twice over a message in hand; two a selection that is replaced twice, or
  once with a failure; one
  interruption or signal is enough where three commands overlap. The liveness
  properties say what happens after the last one.
* `Kinds` makes the first of the three commands an `ensure` or a `host-daemon`: before
  any daemon a `stop` does nothing and a `restart` what `ensure` does, and one that is
  overtaken is among the others.
* `MaxQueue` and `MaxWire` bound the messages in flight when another is sent.
  Two rejections and a newer `Forward`, or a removal behind an announcement, fit.
* Back-off delays 1, 2, 4, 5 (with a maximum of 5) include the doubling that is
  cut off at the maximum.

Symmetry is not used. Deadlock is checked in `registry_solo` (`Stopped` is the
daemon's legitimate end). In the others the system may stop: a daemon that hangs
(`registry_reconnect`, as `registry_shutdown` shows), a loop that has returned,
commands and clients that are all done.

### Fairness

Weak fairness for every step a task takes by itself: tokio polls every task that
can run, its mutexes are granted in order of arrival, timers fire. No fairness for
what peers or users decide: registering, sending a request, disconnecting,
closing a bridged connection, answering a `ConnectRequest`, signals.
The drain timeout and the connect timeout are steps that may come early, since
time is not modelled; they are fair, since a timer that is set does fire.

Timing assumptions beyond that:

* `HostStartup`: a spawned daemon has bound its port, or failed to, before
  `SPAWN_TIMEOUT`; a daemon takes a shutdown request within the 500 ms of `dbr
  restart`. `StopEffective` and `RestartReplaces` rest on them.
* `ControlChannel`: a live container answers a Ping within `Lag` intervals, fewer than
  `MAX_MISSED_PONGS`. Without such an assumption no heartbeat can spare anybody.
* `BrowserOpener`: the clock does not overtake a timeout that is due.
* `ContainerSession`: the host answers `Register` or the link ends. A host that accepts
  and never answers is not covered by any timeout of the daemon.

## 4. Proofs

Every theorem is about `Spec` for all values of the constants that satisfy the
named assumptions at the end of this section. The pattern is always the same: an
inductive invariant, which TLC has checked on the instance of the run; a lemma for
`Init`; a lemma for each action; and the property as a consequence.

### The registry: HostRegistryProofs

| Theorem | Property |
|---|---|
| `TypeCorrect` | `TypeOK` |
| `PortsExclusive` | `HostPortsExclusive` |
| `ForwardsServed` | `ForwardIsServed` |
| `ListenersOwned` | `NoOrphanListener` |
| `EntriesAlive` | `NoZombieRegistration` |
| `RegistrationsKept` | the action property `RegistrationKept` |
| `IdleStops` | `LastOneStopsDaemon` |
| `LeasesRefined` | `LeaseRefinement`: `HostRegistry` implements `PortLease` |
| `PortsAccounted` | `NoLeakedPort`, assuming `Solo` |
| `LimitHolds` | `ForwardLimitHolds`, assuming `Solo` |
| `SearchCorrect` | `ReturnsNextFreePort` of `PortAlloc` |

None of these invariants is inductive. They rest on `IInv`, a conjunction of the
type invariant and:

* `LocalsInv`: which locals a task has at which label;
* `LockInv`: a task at one of the two awaits with the lock held does hold it;
* `NoZombieRegistration`;
* `ClaimsInv`: the account of host ports and listeners. No two tabled forwards
  share a port (`TableInv`); a reservation is booked, is one task's and is in
  nobody's forward (`ReserveInv`); a listener that is bound and not yet tabled
  accepts on its task's reserved port (`BoundInv`); a listener that a task awaits
  is still bound and in nobody else's hands (`WaitInv`); and the two invariants
  `ForwardIsServed` and `NoOrphanListener` themselves.

The last is what makes exclusiveness inductive. Freeing a port is safe only
because nobody else has a claim on it, although superseded connections release
and table forwards in the name of a container they no longer own.
`HelperTypes`, `TearDownTypes`, `TakeOutTypes` and `ListenerFrame` are lemmas
about the operators that the actions share; every action has a lemma of its own
(`...Preserves`), and `NextPreserves` collects them.

`IdleStops` adds `IdleInv`: once a connection has left without stopping the
daemon, another is on its way to the check.

`LeasesRefined` shows that `Init` maps to a state without leases and that a step changes
the lease of a port only from or to `None`. A step that tables a forward moves a
port from the task's hands to the table without changing `LeaseOf`, which needs the
exclusiveness of `ClaimsInv`.

`PortsAccounted` and `LimitHolds` assume `Solo`, that no two connections are of one
container, because a superseded connection may table its forward in the newer
registration (section 3). Their invariant `SoloInv` says that a session owns the entry of its
container until `run()` has the lock for good (`OwnEntry`), that a task in `handle_forward` tables its
forward over no other (`NotYet`) and still has room between the limit test and the
insertion (`Room`), since nobody else adds to the same container, and that every
booked port is claimed (`Accounted`).

`SearchCorrect` is about the loop of `PortAlloc`, of which the registry uses the closed form.
`HostRegistryProofs` extends both modules; their state is disjoint. The inductive invariant is `ScanInv`: what has been passed is booked, with a case for each
side of the wrap-around.

### Client proxying: ClientProxyProofs

`CountExactHolds` (`CountExact`), `NoLostWakeupHolds` (`NoLostWakeup`) and
`RefusedOnlyWhenFullHolds` (the action property `RefusedOnlyWhenFull`). `ProxyInv` adds to the first two
that a task past the lookup has the tracker of a forward (`RouteInv`) and that a
`conn_id` is in the pending map only after its task has put it there (`PendingInv`). `RefusedOnlyWhenFull` relates
the map to the labels of other tasks, and needs `LiveInv`: an entry whose receiver is
open belongs to a task that waits for its data connection, since every way out of that wait removes the entry or
closes the receiver. The
count is a cardinality, so each step is shown to add one client to the counted
set, to take one from it or to leave it alone.

### Container session: ContainerSessionProofs

`NoPhantomForwardHolds` (`NoPhantomForward`) and `NoStaleForwardHolds` (`NoStaleForward`). They
are not inductive, since they say only that *some*
message is on the wire. `AgreeInv` speaks of the *last* message about each port: a
recorded port's `Forward` is the last thing said about it, or nothing more is said and
the host has it under the same name, has rejected it, lost it to `dbr unforward` or had it
changed by a superseded connection (`Recorded`); for a port that is not recorded the same with
`Unforward` (`Forgotten`). A `Forward` counts as on the wire until `HostCommit` or `HostReject`,
so that the gap in `handle_forward` disturbs neither. `FreshInv` says that
a new connection starts with empty wires and a table with nothing in it but what a superseded
connection has put there, which is why the invariant survives a reconnect.

### Sockets: SocketForwardingProofs

`MirrorsMatchHolds` (`MirrorsMatch`), `MirrorReachableHolds` (`MirrorReachable`) and `NoStaleFileHolds`
(`NoStaleFile`). What is on its way is one stream, `wire` before `queue` before
the broadcast. In it no announcement of an id stands behind its removal
(`OrderInv`), so that what becomes of an id is what `MatchInv` says: of an id that is forwarded
no removal is on its way and it is mirrored or announced; of one that is not, a
removal is on its way, or nothing is and there is no mirror; the ids of `missed` apart. Ids are never reused
(`ScanInv`). `FileInv` has the files: a mirror whose path was not shared has its own, and a
file without a mirror is at a path where an operation failed.

### Control channel: ControlChannelProofs

`ChannelTypeCorrect`, `ReadersGetPrefix` (`DeliveredPrefix`) and `ErrorsHaveCause` (`ErrorsExplained`) for any size
limit, buffer and messages. `ChannelInv` is `TypeOK` and, for each end, `EndInv`: as long
as no read was cancelled inside a line, the `String` is what has been consumed of
it, or the drain was entered because the limit was passed; and that each kind of error has its
cause in the line at which it came.

`HeartbeatSparesLiveHolds` (`HeartbeatSparesLive`) adds `BeatInv`: the Pings and Pongs still on
their way number at most `unanswered`, and as long as the host runs `missed` is at most `unanswered`,
which the `Lag` assumption keeps below `MaxMissedPongs`. The messages on their way are
counted as finite sets of positions, so no induction over the sequences is needed.

### Life cycle and token: HostStartupProofs

`TokenAgreesHolds` (`TokenAgrees`), `EnsureIdempotentHolds` (`EnsureIdempotent`), `PidFileKeptHolds` (`PidFileKept`) and
`RestartReplacesHolds` (`RestartReplaces`), for any number of commands, flags and faults. `StartupInv` has

* `AtInv`: labels against the life of the daemon and of the target;
* `BindInv`: one daemon holds the port, and it has a token;
* `StopInv`: what has become of the daemon that a stop or restart talked to;
* `TokenInv`: every command past its token step has the right one, and who
  generates one is alone and finds no file, unless `raced`;
* `UndisturbedInv`: if nobody stops anything, a daemon that is gone lost the bind to
  one that serves;
* `PidInv`: if commands do not overlap, nobody comes between a probe and the PID file
  that follows it.

### Clipboard: ClipboardProofs

`PermitConservedHolds` (`PermitConserved`) and `WholeSelectionHolds` (`WholeSelection`). `ClipInv`
says of each client (`LocalOK`) that `got`, `wire` and `batch` are three consecutive parts of one thing
it may be offered (`Stream`) - all the files of a selection of `seen`, one representation of a picture, or
the picture drawn of a file - or that nothing but an error was sent (`Quiet`); that a listing which is not stale is a
whole selection, which is what makes the `changeCount` test enough for files; and that what is
saved is whole and of the wanted format. `PermitInv` says that transfers exclude each other.

### Browser: BrowserOpenerProofs

`OpenerTypeCorrect`, `NeverTooMany` (`RateLimited`), `NeverTooStrict` (`RefusedOnlyAtLimit`) and
`BrowsersReaped` (`NoOrphanBrowser`). `RateLimited` speaks of the whole history and
the code keeps only `recent_opens`, so the inductive invariant `BrowserInv` adds
`WindowInv`: `recent` is the tail of `opened`, sorted and not in the future, no
longer than the limit, and everything in front of it is a window old. `LaunchInv` ties
commands to their requests.

### Assumptions on the constants

TLC evaluates them in the runs:

* `PortSpaceAssumption`: the port space has at least one unprivileged port;
* `RegistryAssumption`: types; `None` and the main task differ from everything else;
* `ProxyAssumption`: types, positive capacities, finitely many clients;
* `DiscoveryAssumption`, `SessionAssumption`: types, finitely many sockets, an initial back-off within the maximum;
* `SocketAssumption`: types, positive capacities, finitely many host paths;
* `ChannelAssumption`: types, a Ping fits the limit, a lag below `MaxMissedPongs`;
* `StartupAssumption`: a generated token is nobody's given one;
* `ClipboardAssumption`: types, no empty image, a positive batch limit;
* `BrowserAssumption`: types.

### What the proofs changed in the models

* `With` of `ContainerSession` is an insertion into a map, written as a function: the prover
  does not expand `:>` and `@@`.
* `Sockets`, `HostPaths` and `Clients` are assumed finite, and the elements of `Clips` typed.

### Only model-checked

The liveness properties (fairness and ENABLED are beyond the prover):
`SearchEnds`, `CleanupCompletes`, `ClientAnswered`, `ListenerStops`, `CancelReachesSubscribers`,
`Converges`, `ShutdownReleases`, `ClientsSettle`, `SilentDropped`, `StopEffective` and `RequestsEnd`; and the two
expected violations.

## 5. Abstractions

* Bytes, logging, timestamps, process names and host names are left out.
* `None` from `find_available_port` and a failed bind both return to the message
  loop; the `ForwardAck { success: false }` itself is a message nobody in the
  model reads.
* A socket the daemon has not bound may be held by another process, so any bind
  may fail, and a bind may take [::1] although the daemon itself does not hold
  127.0.0.1.
* Two code paths hold the state lock across a socket write (the refused
  registration's ack, the socket forwards for a new container). The write is
  taken to complete.
* The drain of a removed forward's clients is the second half of `Drained` in
  `HostRegistry`, where it is bounded by its timeout, and is modelled in full in
  `ClientProxy`. A `ForwardState` that an overwriting insert drops without a
  drain appears in `HostRegistry` only.
* A message loop that is busy in `handle_forward` or `handle_unforward` neither
  sends requests nor notices a disconnect; in `ClientProxy` this is a
  `SendRequest` that takes its time.
* A line on the control connection is a kind, a length and the places inside its
  multibyte characters. The rest of a line whose first part is lost never parses: its
  last brace closes nothing. Blank lines, which the code refuses as JSON that does
  not parse, are left out, since no writer sends one.
* A line of `/proc/net/tcp` is a socket; lines that do not parse are left out.
* Socket ids and connection ids are UUIDs and never repeat.
* The macOS helper notes `changeCount` and lists the files in one step. A change between the two
  makes a refusal of a capture that could have succeeded, never the reverse, since what is
  listed later is compared with the older count. A selection replaced while it is listed
  shortens the list (`ListingCut`).
* The picture that Finder draws of a file is within the limits.
* `SendRequest`, `Forward` and the like may write to a peer that no longer reads: the
  socket's buffer is taken to have room, so that no step of a host or daemon blocks in a write
  to its control connection.
* All commands of `HostStartup` are given the same flags and environment.
* An image is its format and its size.

## 6. Not modelled

* Configuration (`src/config.rs`), command line (`src/cli.rs`) and the output of the
  one-shot commands: parsing of TOML and arguments, no state that a step could
  corrupt. What they request is an input of the modules above.
* The wire protocol's JSON (`src/protocol.rs`): serde's.
* The rewriting of URL text, glob matching, file and directory permissions, hex
  encoding, `--no-auth`, the text of `/proc`, the container's `devcontainer.json`
  and process pattern (which `run()` never passes): functions of strings or of
  the file system.
* Copying of bytes and the fallback from IPv4 to IPv6 when the container connects
  its local port: I/O without state.
