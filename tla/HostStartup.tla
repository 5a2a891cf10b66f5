---------------------------- MODULE HostStartup ----------------------------
(***************************************************************************)
(* `dbr ensure`, `dbr stop`, `dbr restart` and `dbr host-daemon`           *)
(* (host/ensure.rs, main.rs), the token file (auth.rs), the PID file, and  *)
(* the life of the host daemons they start, in any overlap.                *)
(*                                                                         *)
(* A command starts at most one daemon and generates at most one token, so *)
(* daemon c and token c are the ones of command c.  All commands are given *)
(* the same flags and environment; none has --no-auth.  Two timing         *)
(* assumptions stand for the constants of the code: a spawned daemon has   *)
(* bound its port, or failed to, before SPAWN_TIMEOUT; a daemon takes a    *)
(* shutdown request within the 500 ms of `dbr restart`.                    *)
(***************************************************************************)
EXTENDS TokenSources, FiniteSets

CONSTANTS
  Cmds,        \* commands, numbered in the order they are given
  Sources,     \* where a user may have put a token: sets of flags and variables
  Given,       \* the tokens in Sources
  Kinds,       \* Kinds[c]: bound on what command c may be
  MaxActive,   \* bound on the commands that run at once
  MaxFaults    \* bound on SIGTERM, SIGKILL and interrupted commands

ASSUME StartupAssumption ==
  /\ Cmds \subseteq Nat \ {0} /\ Given \subseteq Nat \ {0} /\ Given \cap Cmds = {}
  /\ Sources \subseteq LET values == Given \cup {None, Partial, Unset} IN
       [flag : values \ {None}, flagFile : values, env : values \ {None}, envFile : values]
  /\ Kinds \in [Cmds -> SUBSET {"ensure", "stop", "restart", "daemon"}]
  /\ MaxActive \in Nat /\ MaxFaults \in Nat

VARIABLES
  sources,     \* the flags and variables of this user
  kind,        \* kind[c]: the command, once it has been given
  at,          \* at[c]: where it is
  result,      \* result[c]: what it printed
  target,      \* target[c]: the daemon the stop step talked to
  answered,    \* answered[c]: the daemon whose Pong ended the ensure step
  token,       \* token[c]: the token the command holds
  run,         \* run[d]: the life of daemon d
  tok,         \* tok[d]: its auth_token
  tokenFile,   \* ~/.config/dbr/auth-token
  pidFile,     \* ~/.config/dbr/daemon.pid
  faults,      \* what is left of MaxFaults
  raced,       \* history: ensure_token ran twice at once
  overlap,     \* history: two commands ran at once
  disturbed    \* history: a daemon was stopped, or a command interrupted

cmdVars == <<sources, kind, at, result, target, answered, token>>
fileVars == <<tokenFile, pidFile>>
history == <<raced, overlap, disturbed>>
vars == <<sources, kind, at, result, target, answered, token, run, tok, tokenFile,
          pidFile, faults, raced, overlap, disturbed>>

\* Mutant of Holds: the listener is dropped when the loop ends.
HoldsWhileLooping(d) == run[d] \in {"serving", "asked"}
\* The control listener lives until run() returns.
Holds(d) == run[d] \in {"serving", "asked", "draining", "exiting", "hung"}
Holder == IF \E d \in Cmds : Holds(d) THEN CHOOSE d \in Cmds : Holds(d) ELSE None
Active(c) == at[c] \notin {"idle", "done"}

Init ==
  /\ sources \in Sources
  /\ kind = [c \in Cmds |-> "none"] /\ at = [c \in Cmds |-> "idle"]
  /\ result = [c \in Cmds |-> "none"]
  /\ target = [c \in Cmds |-> None] /\ answered = [c \in Cmds |-> None]
  /\ token = [c \in Cmds |-> None]
  /\ run = [d \in Cmds |-> "unborn"] /\ tok = [d \in Cmds |-> None]
  /\ tokenFile = None /\ pidFile = None
  /\ faults = MaxFaults
  /\ raced = FALSE /\ overlap = FALSE /\ disturbed = FALSE

Finish(c, r) == at' = [at EXCEPT ![c] = "done"] /\ result' = [result EXCEPT ![c] = r]

\* A command is given.  stop and restart resolve their token first: whatever
\* goes wrong there leaves the empty token.
Start(c) ==
  /\ at[c] = "idle" /\ Cardinality({b \in Cmds : Active(b)}) < MaxActive
  /\ \A b \in Cmds : b < c => at[b] # "idle"
  /\ \E k \in {"ensure", "stop", "restart", "daemon"} :
       /\ k \in Kinds[c]
       /\ kind' = [kind EXCEPT ![c] = k]
       /\ at' = [at EXCEPT ![c] = CASE k = "ensure" -> "probe"
                                    [] k = "daemon" -> "token"
                                    [] OTHER -> "stop"]
       /\ token' = [token EXCEPT ![c] = IF k \in {"stop", "restart"}
                                        THEN CliToken(sources, tokenFile) ELSE None]
  /\ overlap' = (overlap \/ \E b \in Cmds : Active(b) \/ run[b] = "booting")
  /\ UNCHANGED <<sources, result, target, answered, run, tok, fileVars, faults, raced, disturbed>>
------------------------------------------------------------------------------
(* dbr ensure *)

\* Ping: Pong from a daemon whose loop runs; anything else that accepts the
\* connection is a conflict; refused means that one has to be started.
EnsureProbe(c) ==
  /\ at[c] = "probe"
  /\ \/ Holder = None /\ at' = [at EXCEPT ![c] = "token"] /\ UNCHANGED <<result, answered>>
     \/ /\ Holder # None /\ run[Holder] \in {"serving", "asked"}
        /\ Finish(c, "ok") /\ answered' = [answered EXCEPT ![c] = Holder]
     \/ /\ Holder # None /\ run[Holder] # "serving"
        /\ Finish(c, "conflict") /\ UNCHANGED answered
  /\ UNCHANGED <<sources, kind, target, token, run, tok, fileVars, faults, history>>

\* Mutant of ReadToken: a new token every time.
ReadTokenFresh(c) ==
  /\ at[c] = "token"
  /\ at' = [at EXCEPT ![c] = "generate"]
  /\ raced' = (raced \/ \E b \in Cmds \ {c} : at[b] \in {"generate", "write"})
  /\ UNCHANGED <<sources, kind, result, target, answered, token, run, tok, fileVars, faults,
                 overlap,
                 disturbed>>

\* The token a command would use before it generates one: host-daemon resolves
\* all sources; ensure looks at the flags, which its child resolves, and
\* otherwise at the default file only.
KnownToken(c) ==
  IF kind[c] = "daemon" THEN ResolveToken(sources, tokenFile)
  ELSE IF FlagGiven(sources) THEN CliToken(sources, tokenFile)
  ELSE ReadTokenFile(tokenFile)

\* ensure_token finds no file; host-daemon calls it if nothing else is set either.
MustGenerate(c) ==
  IF kind[c] = "daemon" THEN KnownToken(c) = NoSource
                        ELSE ~FlagGiven(sources) /\ KnownToken(c) = None

\* A new token if there is none; one that does not parse is an error, of the
\* command itself or (a bad flag of ensure) of its child.
ReadToken(c) ==
  /\ at[c] = "token"
  /\ \/ /\ MustGenerate(c)
        /\ at' = [at EXCEPT ![c] = "generate"] /\ UNCHANGED <<token, result>>
     \/ /\ IsToken(KnownToken(c)) \/ (kind[c] # "daemon" /\ FlagGiven(sources))
        /\ token' = [token EXCEPT ![c] = KnownToken(c)]
        /\ at' = [at EXCEPT ![c] = "spawn"] /\ UNCHANGED result
     \/ /\ ~MustGenerate(c) /\ ~IsToken(KnownToken(c))
        /\ kind[c] # "daemon" => ~FlagGiven(sources)
        /\ Finish(c, "invalid token") /\ UNCHANGED token
  /\ raced' = (raced \/ \E b \in Cmds \ {c} : at[b] \in {"generate", "write"})
  /\ UNCHANGED <<sources, kind, target, answered, run, tok, fileVars, faults, overlap, disturbed>>

\* generate_token, and fs::write up to the truncated file.
CreateTokenFile(c) ==
  /\ at[c] = "generate"
  /\ token' = [token EXCEPT ![c] = c]
  /\ tokenFile' = Partial
  /\ at' = [at EXCEPT ![c] = "write"]
  /\ UNCHANGED <<sources, kind, result, target, answered, run, tok, pidFile, faults, history>>

WriteToken(c) ==
  /\ at[c] = "write"
  /\ tokenFile' = token[c]
  /\ at' = [at EXCEPT ![c] = "spawn"]
  /\ UNCHANGED <<sources, kind, result, target, answered, token, run, tok, pidFile, faults,
                 history>>

\* The child process, with the token or the flags as arguments; `dbr host-daemon` becomes
\* the daemon itself and writes no PID file.
Spawn(c) ==
  /\ at[c] = "spawn"
  /\ run' = [run EXCEPT ![c] = "booting"] /\ tok' = [tok EXCEPT ![c] = token[c]]
  /\ IF kind[c] = "daemon" THEN Finish(c, "ok")
                           ELSE at' = [at EXCEPT ![c] = "pid"] /\ UNCHANGED result
  /\ UNCHANGED <<sources, kind, target, answered, token, fileVars, faults, history>>

WritePid(c) ==
  /\ at[c] = "pid"
  /\ pidFile' = c
  /\ at' = [at EXCEPT ![c] = "poll"]
  /\ UNCHANGED <<sources, kind, result, target, answered, token, run, tok, tokenFile, faults,
                 history>>

\* Mutant of Poll: only the Pong of the spawned process counts.
PollOwn(c) ==
  /\ at[c] = "poll"
  /\ \/ /\ Holder = c /\ run[c] = "serving"
        /\ Finish(c, "ok") /\ answered' = [answered EXCEPT ![c] = c]
     \/ run[c] = "gone" /\ Finish(c, "timeout") /\ UNCHANGED answered
  /\ UNCHANGED <<sources, kind, target, token, run, tok, fileVars, faults, history>>

\* A Pong from whoever holds the port, or SPAWN_TIMEOUT.
Poll(c) ==
  /\ at[c] = "poll"
  /\ \/ /\ Holder # None /\ run[Holder] \in {"serving", "asked"}
        /\ Finish(c, "ok") /\ answered' = [answered EXCEPT ![c] = Holder]
     \/ /\ run[c] # "booting" /\ \A d \in Cmds : run[d] # "serving"
        /\ Finish(c, "timeout") /\ UNCHANGED answered
  /\ UNCHANGED <<sources, kind, target, token, run, tok, fileVars, faults, history>>
------------------------------------------------------------------------------
(* dbr stop and dbr restart *)

\* Shutdown is sent to whoever listens; restart ignores that nobody does.
StopConnect(c) ==
  /\ at[c] = "stop"
  /\ IF Holder # None
     THEN /\ target' = [target EXCEPT ![c] = Holder]
          /\ at' = [at EXCEPT ![c] = "await"] /\ UNCHANGED result
     ELSE /\ UNCHANGED target
          /\ IF kind[c] = "stop" THEN Finish(c, "not running")
                                 ELSE at' = [at EXCEPT ![c] = "sleep"] /\ UNCHANGED result
  /\ UNCHANGED <<sources, kind, answered, token, run, tok, fileVars, faults, history>>

\* Mutant of HandleShutdown: the request is lost.
HandleShutdownLost(c) ==
  /\ at[c] = "await" /\ run[target[c]] \in {"serving", "asked"}
  /\ UNCHANGED <<run, disturbed>>
  /\ at' = [at EXCEPT ![c] = "closed"]
  /\ UNCHANGED <<sources, kind, result, target, answered, token, tok, fileVars, faults, raced,
                 overlap>>

\* The daemon reads Shutdown, drops it or queues the signal, and closes the
\* connection.  (While a first signal is queued, the channel is full.)
HandleShutdown(c) ==
  /\ at[c] = "await"
  /\ IF token[c] = tok[target[c]]
     THEN /\ run[target[c]] = "serving"
          /\ run' = [run EXCEPT ![target[c]] = "asked"] /\ disturbed' = TRUE
     ELSE run[target[c]] \in {"serving", "asked"} /\ UNCHANGED <<run, disturbed>>
  /\ at' = [at EXCEPT ![c] = "closed"]
  /\ UNCHANGED <<sources, kind, result, target, answered, token, tok, fileVars, faults, raced,
                 overlap>>

\* No answer within five seconds, or the process is gone.
StopGivesUp(c) ==
  /\ at[c] = "await" /\ run[target[c]] \in {"asked", "draining", "exiting", "hung", "gone"}
  /\ at' = [at EXCEPT ![c] = "closed"]
  /\ UNCHANGED <<sources, kind, result, target, answered, token, run, tok, fileVars, faults,
                 history>>

\* remove_pid_file, whoever it names, and "Host daemon stopped."
StopDone(c) ==
  /\ at[c] = "closed"
  /\ pidFile' = None
  /\ IF kind[c] = "stop" THEN Finish(c, "ok")
                         ELSE at' = [at EXCEPT ![c] = "sleep"] /\ UNCHANGED result
  /\ UNCHANGED <<sources, kind, target, answered, token, run, tok, tokenFile, faults, history>>

\* Mutant of SleepDone: no delay.
SleepDoneAtOnce(c) ==
  /\ at[c] = "sleep"
  /\ at' = [at EXCEPT ![c] = "probe"]
  /\ UNCHANGED <<sources, kind, result, target, answered, token, run, tok, fileVars, faults,
                 history>>

\* The delay before restart goes on with ensure.
SleepDone(c) ==
  /\ at[c] = "sleep" /\ (target[c] # None => run[target[c]] # "asked")
  /\ at' = [at EXCEPT ![c] = "probe"]
  /\ UNCHANGED <<sources, kind, result, target, answered, token, run, tok, fileVars, faults,
                 history>>
------------------------------------------------------------------------------
(* The host daemon *)

\* run() binds the control port, or the process exits and leaves the PID file;
\* so does one that was passed a token it cannot use.
Boot(d) ==
  /\ run[d] = "booting"
  /\ run' = [run EXCEPT ![d] = IF Holder = None /\ IsToken(tok[d]) THEN "serving" ELSE "gone"]
  /\ UNCHANGED <<cmdVars, tok, fileVars, faults, history>>

\* The loop takes the shutdown signal.
TakeShutdown(d) ==
  /\ run[d] = "asked"
  /\ run' = [run EXCEPT ![d] = "draining"]
  /\ UNCHANGED <<cmdVars, tok, fileVars, faults, history>>

\* drain_all_forwards is over: the PID file goes while the port is still held.
\* Or it waits for ever, for the state lock or for a listener that is blocked
\* on the client channel nobody empties any more (RegistryShutdown.cfg): the
\* port and the PID file then stay.
DrainDone(d) ==
  /\ run[d] = "draining"
  /\ \/ run' = [run EXCEPT ![d] = "exiting"] /\ pidFile' = None
     \/ run' = [run EXCEPT ![d] = "hung"] /\ UNCHANGED pidFile
  /\ UNCHANGED <<cmdVars, tok, tokenFile, faults, history>>

Exit(d) ==
  /\ run[d] = "exiting"
  /\ run' = [run EXCEPT ![d] = "gone"]
  /\ UNCHANGED <<cmdVars, tok, fileVars, faults, history>>
------------------------------------------------------------------------------
(* Faults *)

\* SIGTERM or SIGKILL to a daemon; only the second helps one that hangs.
Signal(d) ==
  /\ run[d] \in {"serving", "hung"} /\ faults > 0
  /\ \E s \in {"draining", "gone"} :
       /\ run[d] = "hung" => s = "gone"
       /\ run' = [run EXCEPT ![d] = s]
  /\ faults' = faults - 1 /\ disturbed' = TRUE
  /\ UNCHANGED <<cmdVars, tok, fileVars, raced, overlap>>

\* A command is interrupted.
Interrupt(c) ==
  /\ Active(c) /\ faults > 0
  /\ Finish(c, "interrupted")
  /\ faults' = faults - 1 /\ disturbed' = TRUE
  /\ UNCHANGED <<sources, kind, target, answered, token, run, tok, fileVars, raced, overlap>>
------------------------------------------------------------------------------
Ensure(c) ==
  \/ EnsureProbe(c) \/ ReadToken(c) \/ CreateTokenFile(c) \/ WriteToken(c) \/ Spawn(c)
  \/ WritePid(c) \/ Poll(c)
Stop(c) == StopConnect(c) \/ HandleShutdown(c) \/ StopGivesUp(c) \/ StopDone(c) \/ SleepDone(c)
Daemon(d) == Boot(d) \/ TakeShutdown(d) \/ DrainDone(d) \/ Exit(d)
Program == \E c \in Cmds : Ensure(c) \/ Stop(c) \/ Daemon(c)

Next == Program \/ \E c \in Cmds : Start(c) \/ Signal(c) \/ Interrupt(c)

\* The processes are scheduled.
Fairness == WF_vars(Program)

Spec == Init /\ [][Next]_vars /\ Fairness
------------------------------------------------------------------------------
TypeOK ==
  /\ kind \in [Cmds -> {"none", "ensure", "stop", "restart", "daemon"}]
  /\ at \in [Cmds -> {"idle", "probe", "token", "generate", "write", "spawn", "pid", "poll", "stop",
                      "await", "closed", "sleep", "done"}]
  /\ result \in [Cmds -> {"none", "ok", "conflict", "invalid token", "timeout", "not running",
                          "interrupted"}]
  /\ target \in [Cmds -> Cmds \cup {None}] /\ answered \in [Cmds -> Cmds \cup {None}]
  /\ sources \in Sources
  /\ token \in [Cmds -> Cmds \cup Given \cup {None}]
  /\ tok \in [Cmds -> Cmds \cup Given \cup {None}]
  /\ run \in [Cmds -> {"unborn", "booting", "serving", "asked", "draining", "exiting", "hung", "gone"}]
  /\ tokenFile \in Cmds \cup {None, Partial} /\ pidFile \in Cmds \cup {None}
  /\ faults \in 0..MaxFaults
  /\ raced \in BOOLEAN /\ overlap \in BOOLEAN /\ disturbed \in BOOLEAN

\* ensure started daemon d with the token of the default file although the
\* environment names another: run_ensure passes it on as a flag.
EnvOverridden(d) == kind[d] # "daemon" /\ ~FlagGiven(sources) /\ EnvGiven(sources)

\* What a container, dbr paste and the other commands (with the same flags and
\* variables, and the token file in the home directory or mounted as a secret)
\* present is the token of the living daemon, unless two commands found no file
\* at the same time.  Nobody ever uses a truncated token (the types of token and
\* tok).  Nothing is claimed of a daemon with EnvOverridden: docs/security.md
\* and docs/cli-guide.md promise the same of it, and the code breaks that.
TokenAgrees ==
  /\ TypeOK
  /\ ~raced => \A d \in Cmds : Holds(d) /\ ~EnvOverridden(d) =>
       \A secret \in {None, tokenFile} :
         /\ ContainerToken(sources, secret, tokenFile) = tok[d]
         /\ PasteToken(sources, secret, tokenFile) = tok[d]
         /\ CliToken(sources, tokenFile) = tok[d]

\* run_ensure: any number of overlapping ensures succeed, including those whose
\* own daemon loses the bind, as long as nobody stops a daemon or a command
\* and no two create the token file, and the flags name a token.
EnsureIdempotent ==
  ~disturbed /\ ~raced /\ (FlagGiven(sources) => IsToken(ResolveToken(sources, tokenFile))) =>
    \A c \in Cmds : kind[c] = "ensure" /\ at[c] = "done" => result[c] = "ok"

\* run_ensure, run_stop and the end of run(): with one command at a time, and
\* none of them cut short, the PID file names the daemon that ensure started as
\* long as it serves: a daemon on its way out cannot remove its successor's.
\* (A stop with a token that the daemon refuses does remove it.)
PidFileKept ==
  ~overlap => \A d \in Cmds :
    /\ run[d] = "serving" /\ kind[d] # "daemon" /\ at[d] = "done" /\ result[d] # "interrupted"
    /\ \A c \in Cmds : target[c] = d => token[c] = tok[d]
    => pidFile = d

\* `dbr restart`: if it ends well, and its token was good, the daemon that
\* answered is not the one it stopped.
RestartReplaces ==
  \A c \in Cmds : kind[c] = "restart" /\ result[c] = "ok" /\ target[c] # None =>
    answered[c] # target[c] \/ token[c] # tok[target[c]]

\* After "Host daemon stopped." the daemon that stop talked to takes no request
\* any more, unless it refused the token: it exits, or it hangs in its drain
\* and only keeps the port.
StopEffective ==
  <>[](\A c \in Cmds : kind[c] = "stop" /\ result[c] = "ok" =>
         run[target[c]] \in {"hung", "gone"} \/ token[c] # tok[target[c]])
==============================================================================
