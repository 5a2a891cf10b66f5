-------------------------- MODULE HostStartupProofs --------------------------
(***************************************************************************)
(* For any number of overlapping commands, any flags, variables and        *)
(* faults: the daemon that holds the port has the token the others         *)
(* present, ensure is idempotent, the PID file names the daemon that       *)
(* serves, and a restart that reports success has replaced the daemon.     *)
(***************************************************************************)
EXTENDS HostStartup, TLAPS

Dying == {"draining", "exiting", "hung", "gone"}
Leading == {"token", "generate", "write", "spawn", "pid", "poll"}

\* The labels of a command against the life of its daemon and of its target.
AtOK(c) ==
  /\ at[c] \in {"idle", "stop"} => target[c] = None
  /\ at[c] # "done" => result[c] = "none"
  /\ run[c] # "unborn" => at[c] \in {"pid", "poll", "done"}
  /\ at[c] \in {"pid", "poll"} => run[c] # "unborn" /\ kind[c] # "daemon"
  /\ at[c] \in {"await", "closed"} => target[c] # None
TargetOK(c) == target[c] # None => run[target[c]] \in {"serving", "asked"} \cup Dying
AtInv == \A c \in Cmds : AtOK(c) /\ TargetOK(c)

\* The bind lets one daemon through at a time.
OneHolder == \A d, e \in Cmds : Holds(d) /\ Holds(e) => d = e
\* A daemon that got through has a token.
HolderToken(d) == Holds(d) => IsToken(tok[d])
BindInv == OneHolder /\ \A d \in Cmds : HolderToken(d)

\* What has become of the daemon a stop or restart talked to.
StopOK(c) ==
  target[c] # None =>
    /\ at[c] \in {"closed", "sleep"} =>
         token[c] # tok[target[c]] \/ run[target[c]] \in {"asked"} \cup Dying
    /\ at[c] = "probe" => token[c] # tok[target[c]] \/ run[target[c]] \in Dying
    /\ at[c] \in Leading => run[target[c]] \in Dying
Replaced(c) ==
  kind[c] = "restart" /\ result[c] = "ok" /\ target[c] # None =>
    answered[c] # target[c] \/ token[c] # tok[target[c]]
StopInv == \A c \in Cmds : StopOK(c) /\ Replaced(c)

\* A command that takes its token from the default file only.
FileUser(c) == ~FlagGiven(sources) /\ (kind[c] = "daemon" => ~EnvGiven(sources))

\* The token t is the one that command c should use.
Right(c, t) ==
  /\ IsToken(t) \/ (kind[c] # "daemon" /\ FlagGiven(sources))
  /\ ~FileUser(c) => t = CliToken(sources, tokenFile)
  /\ FileUser(c) /\ ~raced => t = tokenFile

\* Who generates a token finds no file, and is alone unless ensure_token raced.
TokenOK(c) ==
  /\ at[c] = "write" => token[c] = c
  /\ at[c] \in {"generate", "write"} => FileUser(c)
  /\ at[c] = "spawn" => Right(c, token[c])
  /\ run[c] # "unborn" => Right(c, tok[c])
Alone(c) ==
  ~raced =>
    /\ at[c] = "generate" => tokenFile = None
    /\ at[c] = "write" => tokenFile = Partial
    /\ at[c] \in {"generate", "write"} => \A b \in Cmds \ {c} : at[b] \notin {"generate", "write"}
TokenInv == \A c \in Cmds : TokenOK(c) /\ Alone(c)

FlagsOK == FlagGiven(sources) => IsToken(ResolveToken(sources, tokenFile))

\* As long as nobody stops anything: no daemon is on its way out, a truncated
\* file is being written, and a daemon that has gone lost the bind to another.
NobodyLeaves == ~disturbed => \A d \in Cmds : run[d] \in {"unborn", "booting", "serving", "gone"}
PartialIsWritten == ~disturbed /\ tokenFile = Partial => \E b \in Cmds : at[b] = "write"
GoneLostBind ==
  ~disturbed /\ FlagsOK => \A d \in Cmds : run[d] = "gone" => \E e \in Cmds : run[e] = "serving"
UndisturbedInv == NobodyLeaves /\ PartialIsWritten /\ GoneLostBind /\ EnsureIdempotent

Stoppers(d) == \A c \in Cmds : target[c] = d => token[c] = tok[d]

\* With one command at a time nobody comes between ensure's probe and its PID
\* file, or between a stop's connection and its remove_pid_file.
OneAtATime(c) == Active(c) => \A b \in Cmds \ {c} : ~Active(b) /\ run[b] # "booting"
StopFacesServer(c) == at[c] \in {"await", "closed"} => \A d \in Cmds : run[d] = "serving" => d = target[c]
StarterFacesNone(c) == kind[c] # "daemon" /\ at[c] \in Leading => \A d \in Cmds \ {c} : ~Holds(d)
PollNamed(c) == at[c] = "poll" /\ run[c] \in {"booting", "serving"} => pidFile = c
DoneNamed(c) ==
  kind[c] # "daemon" /\ at[c] = "done" /\ result[c] # "interrupted" =>
    run[c] # "booting" /\ (run[c] = "serving" /\ Stoppers(c) => pidFile = c)
PidInv ==
  ~overlap => \A c \in Cmds :
    OneAtATime(c) /\ StopFacesServer(c) /\ StarterFacesNone(c) /\ PollNamed(c) /\ DoneNamed(c)

StartupInv ==
  /\ TypeOK /\ AtInv /\ BindInv /\ StopInv
  /\ TokenInv /\ UndisturbedInv /\ PidInv
------------------------------------------------------------------------------
(* The operators *)

\* Holder names a daemon that holds the port, if there is one.
LEMMA HolderFacts ==
  /\ Holder # None => Holder \in Cmds /\ Holds(Holder)
  /\ Holder = None => \A d \in Cmds : ~Holds(d)
<1>1. None \notin Cmds
  BY StartupAssumption DEF None
<1>2. CASE \E d \in Cmds : Holds(d)
  <2>1. Holder \in Cmds /\ Holds(Holder)
    BY <1>2 DEF Holder
  <2>2. QED
    BY <1>1, <2>1
<1>3. CASE ~\E d \in Cmds : Holds(d)
  <2>1. Holder = None
    BY <1>3 DEF Holder
  <2>2. QED
    BY <1>3, <2>1
<1>4. QED
  BY <1>2, <1>3

\* The numbers that are not tokens are not commands or given tokens either.
LEMMA TokenNumbers ==
  /\ \A c \in Cmds \cup Given : IsToken(c) /\ c \in Nat /\ c \notin {None, Partial}
  /\ ~IsToken(None) /\ ~IsToken(Partial) /\ ~IsToken(Unset) /\ ~IsToken(Invalid) /\ ~IsToken(NoSource)
  /\ None # Partial
BY StartupAssumption DEF IsToken, None, Partial, Unset, Invalid, NoSource

\* A flag or a variable decides without the default file.
LEMMA ResolveSources ==
  ASSUME NEW s \in Sources, FlagGiven(s) \/ EnvGiven(s), NEW x, NEW y
  PROVE  /\ ResolveToken(s, x) = ResolveToken(s, y)
         /\ ResolveToken(s, x) # NoSource
         /\ IsToken(ResolveToken(s, x)) => ResolveToken(s, x) \in Given
<1>1. /\ s.flag \in Given \cup {None, Partial, Unset} /\ s.flagFile \in Given \cup {None, Partial, Unset}
      /\ s.env \in Given \cup {None, Partial, Unset} /\ s.envFile \in Given \cup {None, Partial, Unset}
  BY StartupAssumption
<1>2. CASE s.flag # Unset
  <2>1. ResolveToken(s, x) = (IF IsToken(s.flag) THEN s.flag ELSE Invalid)
        /\ ResolveToken(s, y) = (IF IsToken(s.flag) THEN s.flag ELSE Invalid)
    BY <1>2 DEF ResolveToken, FlagGiven
  <2>2. QED
    BY <1>1, <1>2, <2>1, TokenNumbers DEF NoSource, Invalid, None, Partial, Unset
<1>3. CASE s.flag = Unset /\ s.flagFile # Unset
  <2>1. ResolveToken(s, x) = ReadTokenFile(s.flagFile) /\ ResolveToken(s, y) = ReadTokenFile(s.flagFile)
    BY <1>3 DEF ResolveToken, FlagGiven
  <2>2. QED
    BY <1>1, <1>3, <2>1, TokenNumbers DEF ReadTokenFile, NoSource, Invalid, None, Partial, Unset
<1>4. CASE ~FlagGiven(s) /\ s.env # Unset
  <2>1. ResolveToken(s, x) = (IF IsToken(s.env) THEN s.env ELSE Invalid)
        /\ ResolveToken(s, y) = (IF IsToken(s.env) THEN s.env ELSE Invalid)
    BY <1>4 DEF ResolveToken, FlagGiven
  <2>2. QED
    BY <1>1, <1>4, <2>1, TokenNumbers DEF NoSource, Invalid, None, Partial, Unset
<1>5. CASE ~FlagGiven(s) /\ s.env = Unset /\ s.envFile # Unset
  <2>1. ResolveToken(s, x) = ReadTokenFile(s.envFile) /\ ResolveToken(s, y) = ReadTokenFile(s.envFile)
    BY <1>5 DEF ResolveToken, FlagGiven
  <2>2. QED
    BY <1>1, <1>5, <2>1, TokenNumbers DEF ReadTokenFile, NoSource, Invalid, None, Partial, Unset
<1>6. QED
  BY <1>2, <1>3, <1>4, <1>5 DEF FlagGiven, EnvGiven

\* Nothing else is set: the default file decides.
LEMMA ResolveDefault ==
  ASSUME NEW s, ~FlagGiven(s), ~EnvGiven(s), NEW x
  PROVE  ResolveToken(s, x) = IF x = None THEN NoSource ELSE ReadTokenFile(x)
BY DEF ResolveToken, FlagGiven, EnvGiven

LEMMA WithoutFlagsIsSame ==
  ASSUME NEW s \in Sources, ~FlagGiven(s)
  PROVE  WithoutFlags(s) = s
<1>1. s \in LET values == Given \cup {None, Partial, Unset} IN
       [flag : values \ {None}, flagFile : values, env : values \ {None}, envFile : values]
  BY StartupAssumption
<1>2. QED
  BY <1>1 DEF WithoutFlags, FlagGiven

LEMMA ReadTokenFileFacts ==
  ASSUME NEW x \in Cmds \cup {None, Partial}
  PROVE  /\ x \in Cmds => ReadTokenFile(x) = x
         /\ ReadTokenFile(None) = None /\ ReadTokenFile(Partial) = Invalid
         /\ Invalid # None /\ Invalid # NoSource /\ NoSource # None
BY TokenNumbers DEF ReadTokenFile, Invalid, None, NoSource, Partial

\* What resolve_cli_auth_token returns, with any token file.
LEMMA CliTokenFacts ==
  ASSUME NEW s \in Sources, NEW x \in Cmds \cup {None, Partial}
  PROVE  /\ CliToken(s, x) \in Cmds \cup Given \cup {None}
         /\ FlagGiven(s) \/ EnvGiven(s) => \A y : CliToken(s, y) = CliToken(s, x)
<1>1. CASE FlagGiven(s) \/ EnvGiven(s)
  BY <1>1, ResolveSources DEF CliToken
<1>2. CASE ~FlagGiven(s) /\ ~EnvGiven(s)
  <2>1. ResolveToken(s, x) = IF x = None THEN NoSource ELSE ReadTokenFile(x)
    BY <1>2, ResolveDefault
  <2>2. QED
    BY <1>2, <2>1, ReadTokenFileFacts, TokenNumbers DEF CliToken
<1>3. QED
  BY <1>1, <1>2

\* What ensure_token finds, and when it makes a new token.
LEMMA KnownTokenFacts ==
  ASSUME TypeOK, NEW c \in Cmds
  PROVE  /\ IsToken(KnownToken(c)) => KnownToken(c) \in Cmds \cup Given
         /\ kind[c] # "daemon" /\ FlagGiven(sources) => KnownToken(c) \in Cmds \cup Given \cup {None}
         /\ MustGenerate(c) => tokenFile = None /\ FileUser(c)
         /\ IsToken(KnownToken(c)) \/ (kind[c] # "daemon" /\ FlagGiven(sources)) => Right(c, KnownToken(c))
         /\ ~MustGenerate(c) /\ ~IsToken(KnownToken(c)) /\ kind[c] # "daemon" /\ ~FlagGiven(sources)
              => tokenFile = Partial
<1>0. sources \in Sources /\ tokenFile \in Cmds \cup {None, Partial}
  BY DEF TypeOK
<1>1. CASE kind[c] = "daemon" /\ (FlagGiven(sources) \/ EnvGiven(sources))
  <2>1. KnownToken(c) = ResolveToken(sources, tokenFile)
    BY <1>1 DEF KnownToken
  <2>2. QED
    BY <1>0, <1>1, <2>1, ResolveSources DEF MustGenerate, Right, FileUser, CliToken
<1>2. CASE kind[c] = "daemon" /\ ~FlagGiven(sources) /\ ~EnvGiven(sources)
  <2>1. KnownToken(c) = IF tokenFile = None THEN NoSource ELSE ReadTokenFile(tokenFile)
    BY <1>2, ResolveDefault DEF KnownToken
  <2>2. QED
    BY <1>0, <1>2, <2>1, ReadTokenFileFacts, TokenNumbers DEF MustGenerate, Right, FileUser
<1>3. CASE kind[c] # "daemon" /\ FlagGiven(sources)
  <2>1. KnownToken(c) = CliToken(sources, tokenFile)
    BY <1>3 DEF KnownToken
  <2>2. QED
    BY <1>0, <1>3, <2>1, CliTokenFacts, TokenNumbers DEF MustGenerate, Right, FileUser
<1>4. CASE kind[c] # "daemon" /\ ~FlagGiven(sources)
  <2>1. KnownToken(c) = ReadTokenFile(tokenFile)
    BY <1>4 DEF KnownToken
  <2>2. QED
    BY <1>0, <1>4, <2>1, ReadTokenFileFacts, TokenNumbers DEF MustGenerate, Right, FileUser
<1>5. QED
  BY <1>1, <1>2, <1>3, <1>4

\* The part of the types that the labels and the lives of the daemons need.
Labels ==
  /\ kind \in [Cmds -> {"none", "ensure", "stop", "restart", "daemon"}]
  /\ at \in [Cmds -> {"idle", "probe", "token", "generate", "write", "spawn", "pid", "poll", "stop",
                      "await", "closed", "sleep", "done"}]
  /\ result \in [Cmds -> {"none", "ok", "conflict", "invalid token", "timeout", "not running",
                          "interrupted"}]
  /\ target \in [Cmds -> Cmds \cup {None}] /\ None \notin Cmds
  /\ DOMAIN answered = Cmds /\ DOMAIN token = Cmds /\ DOMAIN tok = Cmds
  /\ run \in [Cmds -> {"unborn", "booting", "serving", "asked", "draining", "exiting", "hung", "gone"}]

LEMMA LabelsOK ==
  ASSUME TypeOK PROVE Labels
<1>1. None \notin Cmds
  BY TokenNumbers
<1>2. QED
  BY <1>1 DEF TypeOK, Labels

\* A step of command c, of its daemon, or done to one of them.
Step(c) ==
  \/ EnsureProbe(c) \/ ReadToken(c) \/ CreateTokenFile(c) \/ WriteToken(c) \/ Spawn(c) \/ WritePid(c) \/ Poll(c)
  \/ StopConnect(c) \/ HandleShutdown(c) \/ StopGivesUp(c) \/ StopDone(c) \/ SleepDone(c)
  \/ Boot(c) \/ TakeShutdown(c) \/ DrainDone(c) \/ Exit(c)
  \/ Start(c) \/ Signal(c) \/ Interrupt(c)

LEMMA NextIsStep ==
  ASSUME Next PROVE \E c \in Cmds : Step(c)
BY DEF Next, Program, Ensure, Stop, Daemon, Step
------------------------------------------------------------------------------
(* The steps *)

LEMMA AtOKStep ==
  ASSUME StartupInv, NEW c \in Cmds, Step(c), NEW b \in Cmds
  PROVE  AtOK(b)'
<1> USE DEF fileVars, history, cmdVars
<1>0. Labels /\ AtOK(b) /\ AtOK(c) /\ TargetOK(c)
  BY LabelsOK DEF StartupInv, AtInv
<1>1. CASE EnsureProbe(c)
  <2>1. UNCHANGED <<kind, target, run>>
    BY <1>1 DEF EnsureProbe
  <2>2. at'[c] = "done" \/ (at'[c] = "token" /\ result' = result)
    BY <1>0, <1>1 DEF EnsureProbe, Finish, Labels
  <2>3. (at'[b] = at[b] /\ result'[b] = result[b]) \/ b = c
    BY <1>0, <1>1 DEF EnsureProbe, Finish, Labels
  <2>4. QED
    BY <1>0, <1>1, <2>1, <2>2, <2>3 DEF EnsureProbe, AtOK
<1>2. CASE ReadToken(c)
  <2>1. UNCHANGED <<kind, target, run>>
    BY <1>2 DEF ReadToken
  <2>2. at'[c] = "done" \/ (at'[c] \in {"generate", "spawn"} /\ result' = result)
    BY <1>0, <1>2 DEF ReadToken, Finish, Labels
  <2>3. (at'[b] = at[b] /\ result'[b] = result[b]) \/ b = c
    BY <1>0, <1>2 DEF ReadToken, Finish, Labels
  <2>4. QED
    BY <1>0, <1>2, <2>1, <2>2, <2>3 DEF ReadToken, AtOK
<1>3. CASE CreateTokenFile(c)
  BY <1>3, <1>0 DEF CreateTokenFile, Labels, AtOK
<1>4. CASE WriteToken(c)
  BY <1>4, <1>0 DEF WriteToken, Labels, AtOK
<1>5. CASE Spawn(c)
  BY <1>5, <1>0, ZenonT(30) DEF Spawn, Finish, Labels, AtOK
<1>6. CASE WritePid(c)
  BY <1>6, <1>0 DEF WritePid, Labels, AtOK
<1>7. CASE Poll(c)
  BY <1>7, <1>0, ZenonT(30) DEF Poll, Finish, Labels, AtOK
<1>8. CASE StopConnect(c)
  <2>1. UNCHANGED <<kind, run>>
    BY <1>8 DEF StopConnect
  <2>2. \/ at'[c] = "done" /\ target' = target
        \/ at'[c] = "sleep" /\ UNCHANGED <<result, target>>
        \/ at'[c] = "await" /\ result' = result /\ target'[c] # None /\ (b # c => target'[b] = target[b])
    BY <1>0, <1>8, HolderFacts, ZenonT(30) DEF StopConnect, Finish, Labels
  <2>3. (at'[b] = at[b] /\ result'[b] = result[b]) \/ b = c
    BY <1>0, <1>8 DEF StopConnect, Finish, Labels
  <2>4. QED
    BY <1>0, <1>8, <2>1, <2>2, <2>3 DEF StopConnect, AtOK
<1>9. CASE HandleShutdown(c)
  BY <1>9, <1>0, ZenonT(30) DEF HandleShutdown, Labels, AtOK
<1>10. CASE StopGivesUp(c)
  BY <1>10, <1>0 DEF StopGivesUp, Labels, AtOK
<1>11. CASE StopDone(c)
  BY <1>11, <1>0, ZenonT(30) DEF StopDone, Finish, Labels, AtOK
<1>12. CASE SleepDone(c)
  BY <1>12, <1>0 DEF SleepDone, Labels, AtOK
<1>13. CASE Boot(c)
  BY <1>13, <1>0 DEF Boot, Labels, AtOK
<1>14. CASE TakeShutdown(c)
  BY <1>14, <1>0 DEF TakeShutdown, Labels, AtOK
<1>15. CASE DrainDone(c)
  BY <1>15, <1>0 DEF DrainDone, Labels, AtOK
<1>16. CASE Exit(c)
  BY <1>16, <1>0 DEF Exit, Labels, AtOK
<1>17. CASE Start(c)
  BY <1>17, <1>0, ZenonT(30) DEF Start, Labels, AtOK
<1>18. CASE Signal(c)
  BY <1>18, <1>0 DEF Signal, Labels, AtOK
<1>19. CASE Interrupt(c)
  BY <1>19, <1>0 DEF Interrupt, Finish, Labels, AtOK
<1>20. QED
  BY <1>1, <1>2, <1>3, <1>4, <1>5, <1>6, <1>7, <1>8, <1>9, <1>10, <1>11, <1>12, <1>13, <1>14,
     <1>15, <1>16, <1>17, <1>18, <1>19 DEF Step

LEMMA TargetOKStep ==
  ASSUME StartupInv, NEW c \in Cmds, Step(c), NEW b \in Cmds
  PROVE  TargetOK(b)'
<1> USE DEF fileVars, history, cmdVars
<1>0. Labels /\ TargetOK(b) /\ TargetOK(c) /\ (target[b] # None => AtOK(target[b])) /\ AtOK(c)
  BY LabelsOK DEF StartupInv, AtInv, Labels
<1>1. CASE EnsureProbe(c)
  BY <1>1, <1>0, HolderFacts DEF EnsureProbe, Finish, Labels, TargetOK, AtOK, Holds, Dying
<1>2. CASE ReadToken(c)
  BY <1>2, <1>0, HolderFacts DEF ReadToken, Finish, Labels, TargetOK, AtOK, Holds, Dying
<1>3. CASE CreateTokenFile(c)
  BY <1>3, <1>0, HolderFacts DEF CreateTokenFile, Labels, TargetOK, AtOK, Holds, Dying
<1>4. CASE WriteToken(c)
  BY <1>4, <1>0, HolderFacts DEF WriteToken, Labels, TargetOK, AtOK, Holds, Dying
<1>5. CASE Spawn(c)
  BY <1>5, <1>0, HolderFacts DEF Spawn, Finish, Labels, TargetOK, AtOK, Holds, Dying
<1>6. CASE WritePid(c)
  BY <1>6, <1>0, HolderFacts DEF WritePid, Labels, TargetOK, AtOK, Holds, Dying
<1>7. CASE Poll(c)
  BY <1>7, <1>0, HolderFacts DEF Poll, Finish, Labels, TargetOK, AtOK, Holds, Dying
<1>8. CASE StopConnect(c)
  <2>1. run' = run /\ (target'[b] = target[b] \/ (Holder # None /\ target'[b] = Holder))
    BY <1>8, <1>0 DEF StopConnect, Labels
  <2>2. QED
    BY <1>0, <2>1, HolderFacts DEF TargetOK, Holds, Dying
<1>9. CASE HandleShutdown(c)
  BY <1>9, <1>0, HolderFacts, ZenonT(30) DEF HandleShutdown, Labels, TargetOK, AtOK, Holds, Dying
<1>10. CASE StopGivesUp(c)
  BY <1>10, <1>0, HolderFacts DEF StopGivesUp, Labels, TargetOK, AtOK, Holds, Dying
<1>11. CASE StopDone(c)
  BY <1>11, <1>0, HolderFacts DEF StopDone, Finish, Labels, TargetOK, AtOK, Holds, Dying
<1>12. CASE SleepDone(c)
  BY <1>12, <1>0, HolderFacts DEF SleepDone, Labels, TargetOK, AtOK, Holds, Dying
<1>13. CASE Boot(c)
  BY <1>13, <1>0, HolderFacts DEF Boot, Labels, TargetOK, AtOK, Holds, Dying
<1>14. CASE TakeShutdown(c)
  BY <1>14, <1>0, HolderFacts DEF TakeShutdown, Labels, TargetOK, AtOK, Holds, Dying
<1>15. CASE DrainDone(c)
  BY <1>15, <1>0, HolderFacts DEF DrainDone, Labels, TargetOK, AtOK, Holds, Dying
<1>16. CASE Exit(c)
  BY <1>16, <1>0, HolderFacts DEF Exit, Labels, TargetOK, AtOK, Holds, Dying
<1>17. CASE Start(c)
  BY <1>17, <1>0, HolderFacts DEF Start, Labels, TargetOK, AtOK, Holds, Dying
<1>18. CASE Signal(c)
  BY <1>18, <1>0, HolderFacts, ZenonT(30) DEF Signal, Labels, TargetOK, AtOK, Holds, Dying
<1>19. CASE Interrupt(c)
  BY <1>19, <1>0, HolderFacts DEF Interrupt, Finish, Labels, TargetOK, AtOK, Holds, Dying
<1>20. QED
  BY <1>1, <1>2, <1>3, <1>4, <1>5, <1>6, <1>7, <1>8, <1>9, <1>10, <1>11, <1>12, <1>13, <1>14,
     <1>15, <1>16, <1>17, <1>18, <1>19 DEF Step

LEMMA OneHolderStep ==
  ASSUME StartupInv, NEW c \in Cmds, Step(c)
  PROVE  OneHolder'
<1> USE DEF fileVars, history, cmdVars
<1>0. Labels /\ OneHolder
  BY LabelsOK DEF StartupInv, BindInv
<1>1. CASE EnsureProbe(c)
  BY <1>1, <1>0, HolderFacts DEF EnsureProbe, Finish, Labels, OneHolder, Holds
<1>2. CASE ReadToken(c)
  BY <1>2, <1>0, HolderFacts DEF ReadToken, Finish, Labels, OneHolder, Holds
<1>3. CASE CreateTokenFile(c)
  BY <1>3, <1>0, HolderFacts DEF CreateTokenFile, Labels, OneHolder, Holds
<1>4. CASE WriteToken(c)
  BY <1>4, <1>0, HolderFacts DEF WriteToken, Labels, OneHolder, Holds
<1>5. CASE Spawn(c)
  BY <1>5, <1>0, HolderFacts DEF Spawn, Finish, Labels, OneHolder, Holds
<1>6. CASE WritePid(c)
  BY <1>6, <1>0, HolderFacts DEF WritePid, Labels, OneHolder, Holds
<1>7. CASE Poll(c)
  BY <1>7, <1>0, HolderFacts DEF Poll, Finish, Labels, OneHolder, Holds
<1>8. CASE StopConnect(c)
  BY <1>8, <1>0, HolderFacts DEF StopConnect, Finish, Labels, OneHolder, Holds
<1>9. CASE HandleShutdown(c)
  BY <1>9, <1>0, HolderFacts, ZenonT(30) DEF HandleShutdown, Labels, OneHolder, Holds
<1>10. CASE StopGivesUp(c)
  BY <1>10, <1>0, HolderFacts DEF StopGivesUp, Labels, OneHolder, Holds
<1>11. CASE StopDone(c)
  BY <1>11, <1>0, HolderFacts DEF StopDone, Finish, Labels, OneHolder, Holds
<1>12. CASE SleepDone(c)
  BY <1>12, <1>0, HolderFacts DEF SleepDone, Labels, OneHolder, Holds
<1>13. CASE Boot(c)
  BY <1>13, <1>0, HolderFacts DEF Boot, Labels, OneHolder, Holds
<1>14. CASE TakeShutdown(c)
  BY <1>14, <1>0, HolderFacts DEF TakeShutdown, Labels, OneHolder, Holds
<1>15. CASE DrainDone(c)
  BY <1>15, <1>0, HolderFacts DEF DrainDone, Labels, OneHolder, Holds
<1>16. CASE Exit(c)
  BY <1>16, <1>0, HolderFacts DEF Exit, Labels, OneHolder, Holds
<1>17. CASE Start(c)
  BY <1>17, <1>0, HolderFacts DEF Start, Labels, OneHolder, Holds
<1>18. CASE Signal(c)
  BY <1>18, <1>0, HolderFacts DEF Signal, Labels, OneHolder, Holds
<1>19. CASE Interrupt(c)
  BY <1>19, <1>0, HolderFacts DEF Interrupt, Finish, Labels, OneHolder, Holds
<1>20. QED
  BY <1>1, <1>2, <1>3, <1>4, <1>5, <1>6, <1>7, <1>8, <1>9, <1>10, <1>11, <1>12, <1>13, <1>14,
     <1>15, <1>16, <1>17, <1>18, <1>19 DEF Step

\* The daemon that a command talked to keeps its token and does not come back.
LEMMA TargetFate ==
  ASSUME StartupInv, NEW c \in Cmds, Step(c), NEW b \in Cmds, target[b] # None
  PROVE  /\ tok'[target[b]] = tok[target[b]]
         /\ run[target[b]] \in Dying => run'[target[b]] \in Dying
         /\ run[target[b]] \in {"asked"} \cup Dying => run'[target[b]] \in {"asked"} \cup Dying
<1> USE DEF fileVars, history, cmdVars
<1>0. Labels /\ TargetOK(b) /\ AtOK(target[b]) /\ target[b] \in Cmds /\ AtOK(c)
  BY LabelsOK DEF StartupInv, AtInv, Labels
<1>1. CASE EnsureProbe(c)
  BY <1>1, <1>0 DEF EnsureProbe, Finish, Labels, TargetOK, AtOK, Dying
<1>2. CASE ReadToken(c)
  BY <1>2, <1>0 DEF ReadToken, Finish, Labels, TargetOK, AtOK, Dying
<1>3. CASE CreateTokenFile(c)
  BY <1>3, <1>0 DEF CreateTokenFile, Labels, TargetOK, AtOK, Dying
<1>4. CASE WriteToken(c)
  BY <1>4, <1>0 DEF WriteToken, Labels, TargetOK, AtOK, Dying
<1>5. CASE Spawn(c)
  BY <1>5, <1>0 DEF Spawn, Finish, Labels, TargetOK, AtOK, Dying
<1>6. CASE WritePid(c)
  BY <1>6, <1>0 DEF WritePid, Labels, TargetOK, AtOK, Dying
<1>7. CASE Poll(c)
  BY <1>7, <1>0 DEF Poll, Finish, Labels, TargetOK, AtOK, Dying
<1>8. CASE StopConnect(c)
  BY <1>8, <1>0 DEF StopConnect, Finish, Labels, TargetOK, AtOK, Dying
<1>9. CASE HandleShutdown(c)
  BY <1>9, <1>0 DEF HandleShutdown, Labels, TargetOK, AtOK, Dying
<1>10. CASE StopGivesUp(c)
  BY <1>10, <1>0 DEF StopGivesUp, Labels, TargetOK, AtOK, Dying
<1>11. CASE StopDone(c)
  BY <1>11, <1>0 DEF StopDone, Finish, Labels, TargetOK, AtOK, Dying
<1>12. CASE SleepDone(c)
  BY <1>12, <1>0 DEF SleepDone, Labels, TargetOK, AtOK, Dying
<1>13. CASE Boot(c)
  BY <1>13, <1>0 DEF Boot, Labels, TargetOK, AtOK, Dying
<1>14. CASE TakeShutdown(c)
  BY <1>14, <1>0 DEF TakeShutdown, Labels, TargetOK, AtOK, Dying
<1>15. CASE DrainDone(c)
  BY <1>15, <1>0 DEF DrainDone, Labels, TargetOK, AtOK, Dying
<1>16. CASE Exit(c)
  BY <1>16, <1>0 DEF Exit, Labels, TargetOK, AtOK, Dying
<1>17. CASE Start(c)
  BY <1>17, <1>0 DEF Start, Labels, TargetOK, AtOK, Dying
<1>18. CASE Signal(c)
  BY <1>18, <1>0 DEF Signal, Labels, TargetOK, AtOK, Dying
<1>19. CASE Interrupt(c)
  BY <1>19, <1>0 DEF Interrupt, Finish, Labels, TargetOK, AtOK, Dying
<1>20. QED
  BY <1>1, <1>2, <1>3, <1>4, <1>5, <1>6, <1>7, <1>8, <1>9, <1>10, <1>11, <1>12, <1>13, <1>14,
     <1>15, <1>16, <1>17, <1>18, <1>19 DEF Step

\* A step of one command leaves the others' labels and tokens alone.
LEMMA OthersSame ==
  ASSUME StartupInv, NEW c \in Cmds, Step(c), NEW b \in Cmds, b # c
  PROVE  /\ at'[b] = at[b] /\ kind'[b] = kind[b] /\ result'[b] = result[b] /\ target'[b] = target[b]
         /\ token'[b] = token[b] /\ answered'[b] = answered[b] /\ tok'[b] = tok[b]
<1> USE DEF fileVars, history, cmdVars
<1>0. Labels
  BY LabelsOK DEF StartupInv
<1>1. CASE EnsureProbe(c)
  BY <1>1, <1>0 DEF EnsureProbe, Finish, Labels
<1>2. CASE ReadToken(c)
  BY <1>2, <1>0 DEF ReadToken, Finish, Labels
<1>3. CASE CreateTokenFile(c)
  BY <1>3, <1>0 DEF CreateTokenFile, Labels
<1>4. CASE WriteToken(c)
  BY <1>4, <1>0 DEF WriteToken, Labels
<1>5. CASE Spawn(c)
  BY <1>5, <1>0 DEF Spawn, Finish, Labels
<1>6. CASE WritePid(c)
  BY <1>6, <1>0 DEF WritePid, Labels
<1>7. CASE Poll(c)
  BY <1>7, <1>0 DEF Poll, Finish, Labels
<1>8. CASE StopConnect(c)
  BY <1>8, <1>0 DEF StopConnect, Finish, Labels
<1>9. CASE HandleShutdown(c)
  BY <1>9, <1>0 DEF HandleShutdown, Labels
<1>10. CASE StopGivesUp(c)
  BY <1>10, <1>0 DEF StopGivesUp, Labels
<1>11. CASE StopDone(c)
  BY <1>11, <1>0 DEF StopDone, Finish, Labels
<1>12. CASE SleepDone(c)
  BY <1>12, <1>0 DEF SleepDone, Labels
<1>13. CASE Boot(c)
  BY <1>13, <1>0 DEF Boot, Labels
<1>14. CASE TakeShutdown(c)
  BY <1>14, <1>0 DEF TakeShutdown, Labels
<1>15. CASE DrainDone(c)
  BY <1>15, <1>0 DEF DrainDone, Labels
<1>16. CASE Exit(c)
  BY <1>16, <1>0 DEF Exit, Labels
<1>17. CASE Start(c)
  BY <1>17, <1>0 DEF Start, Labels
<1>18. CASE Signal(c)
  BY <1>18, <1>0 DEF Signal, Labels
<1>19. CASE Interrupt(c)
  BY <1>19, <1>0 DEF Interrupt, Finish, Labels
<1>20. QED
  BY <1>1, <1>2, <1>3, <1>4, <1>5, <1>6, <1>7, <1>8, <1>9, <1>10, <1>11, <1>12, <1>13, <1>14,
     <1>15, <1>16, <1>17, <1>18, <1>19 DEF Step

LEMMA StopOKOwn ==
  ASSUME StartupInv, NEW c \in Cmds, Step(c)
  PROVE  StopOK(c)'
<1> USE DEF fileVars, history, cmdVars
<1>0. Labels /\ AtOK(c) /\ TargetOK(c) /\ StopOK(c) /\ Replaced(c)
  BY LabelsOK DEF StartupInv, AtInv, StopInv
<1>a. target[c] # None =>
        /\ tok'[target[c]] = tok[target[c]]
        /\ run[target[c]] \in Dying => run'[target[c]] \in Dying
        /\ run[target[c]] \in {"asked"} \cup Dying => run'[target[c]] \in {"asked"} \cup Dying
  BY TargetFate
<1>1. CASE EnsureProbe(c)
  <2>1. at'[c] = "done" \/ (at'[c] = "token" /\ Holder = None)
    BY <1>0, <1>1 DEF EnsureProbe, Finish, Labels
  <2>2. UNCHANGED <<target, run>>
    BY <1>1 DEF EnsureProbe
  <2>3. Holder = None /\ target[c] # None => run[target[c]] \in Dying
    BY <1>0, HolderFacts DEF Labels, TargetOK, Holds, Dying
  <2>4. QED
    BY <2>1, <2>2, <2>3 DEF StopOK, Dying, Leading
<1>2. CASE ReadToken(c)
  BY <1>2, <1>0, <1>a DEF ReadToken, Finish, Labels, AtOK, TargetOK, StopOK, Dying, Leading
<1>3. CASE CreateTokenFile(c)
  BY <1>3, <1>0, <1>a DEF CreateTokenFile, Labels, AtOK, TargetOK, StopOK, Dying, Leading
<1>4. CASE WriteToken(c)
  BY <1>4, <1>0, <1>a DEF WriteToken, Labels, AtOK, TargetOK, StopOK, Dying, Leading
<1>5. CASE Spawn(c)
  BY <1>5, <1>0, <1>a DEF Spawn, Finish, Labels, AtOK, TargetOK, StopOK, Dying, Leading
<1>6. CASE WritePid(c)
  BY <1>6, <1>0, <1>a DEF WritePid, Labels, AtOK, TargetOK, StopOK, Dying, Leading
<1>7. CASE Poll(c)
  BY <1>7, <1>0, <1>a DEF Poll, Finish, Labels, AtOK, TargetOK, StopOK, Dying, Leading
<1>8. CASE StopConnect(c)
  BY <1>8, <1>0, <1>a, ZenonT(30) DEF StopConnect, Finish, Labels, AtOK, TargetOK, StopOK, Dying, Leading
<1>9. CASE HandleShutdown(c)
  BY <1>9, <1>0, <1>a, ZenonT(30) DEF HandleShutdown, Labels, AtOK, TargetOK, StopOK, Dying, Leading
<1>10. CASE StopGivesUp(c)
  BY <1>10, <1>0, <1>a DEF StopGivesUp, Labels, AtOK, TargetOK, StopOK, Dying, Leading
<1>11. CASE StopDone(c)
  <2>1. at'[c] \in {"done", "sleep"} /\ at[c] = "closed"
    BY <1>0, <1>11 DEF StopDone, Finish, Labels
  <2>2. UNCHANGED <<target, run, token, tok>>
    BY <1>11 DEF StopDone
  <2>3. QED
    BY <1>0, <2>1, <2>2 DEF StopOK, Leading
<1>12. CASE SleepDone(c)
  BY <1>12, <1>0, <1>a DEF SleepDone, Labels, AtOK, TargetOK, StopOK, Dying, Leading
<1>13. CASE Boot(c)
  BY <1>13, <1>0, <1>a DEF Boot, Labels, AtOK, TargetOK, StopOK, Dying, Leading
<1>14. CASE TakeShutdown(c)
  BY <1>14, <1>0, <1>a DEF TakeShutdown, Labels, AtOK, TargetOK, StopOK, Dying, Leading
<1>15. CASE DrainDone(c)
  BY <1>15, <1>0, <1>a DEF DrainDone, Labels, AtOK, TargetOK, StopOK, Dying, Leading
<1>16. CASE Exit(c)
  BY <1>16, <1>0, <1>a DEF Exit, Labels, AtOK, TargetOK, StopOK, Dying, Leading
<1>17. CASE Start(c)
  BY <1>17, <1>0, <1>a DEF Start, Labels, AtOK, TargetOK, StopOK, Dying, Leading
<1>18. CASE Signal(c)
  BY <1>18, <1>0, <1>a DEF Signal, Labels, AtOK, TargetOK, StopOK, Dying, Leading
<1>19. CASE Interrupt(c)
  BY <1>19, <1>0, <1>a DEF Interrupt, Finish, Labels, AtOK, TargetOK, StopOK, Dying, Leading
<1>20. QED
  BY <1>1, <1>2, <1>3, <1>4, <1>5, <1>6, <1>7, <1>8, <1>9, <1>10, <1>11, <1>12, <1>13, <1>14,
     <1>15, <1>16, <1>17, <1>18, <1>19 DEF Step

LEMMA ReplacedOwn ==
  ASSUME StartupInv, NEW c \in Cmds, Step(c)
  PROVE  Replaced(c)'
<1> USE DEF fileVars, history, cmdVars
<1>0. Labels /\ AtOK(c) /\ TargetOK(c) /\ StopOK(c) /\ Replaced(c)
  BY LabelsOK DEF StartupInv, AtInv, StopInv
<1>a. target[c] # None =>
        /\ tok'[target[c]] = tok[target[c]]
        /\ run[target[c]] \in Dying => run'[target[c]] \in Dying
        /\ run[target[c]] \in {"asked"} \cup Dying => run'[target[c]] \in {"asked"} \cup Dying
  BY TargetFate
<1>1. CASE EnsureProbe(c)
  BY <1>1, <1>0, <1>a, HolderFacts, ZenonT(30) DEF EnsureProbe, Finish, Labels, AtOK, TargetOK, StopOK, Replaced, Dying, Leading
<1>2. CASE ReadToken(c)
  BY <1>2, <1>0, <1>a DEF ReadToken, Finish, Labels, AtOK, TargetOK, StopOK, Replaced, Dying, Leading
<1>3. CASE CreateTokenFile(c)
  BY <1>3, <1>0, <1>a DEF CreateTokenFile, Labels, AtOK, TargetOK, StopOK, Replaced, Dying, Leading
<1>4. CASE WriteToken(c)
  BY <1>4, <1>0, <1>a DEF WriteToken, Labels, AtOK, TargetOK, StopOK, Replaced, Dying, Leading
<1>5. CASE Spawn(c)
  BY <1>5, <1>0, <1>a DEF Spawn, Finish, Labels, AtOK, TargetOK, StopOK, Replaced, Dying, Leading
<1>6. CASE WritePid(c)
  BY <1>6, <1>0, <1>a DEF WritePid, Labels, AtOK, TargetOK, StopOK, Replaced, Dying, Leading
<1>7. CASE Poll(c)
  BY <1>7, <1>0, <1>a, HolderFacts DEF Poll, Finish, Labels, AtOK, TargetOK, StopOK, Replaced, Dying, Leading
<1>8. CASE StopConnect(c)
  BY <1>8, <1>0, <1>a DEF StopConnect, Finish, Labels, AtOK, TargetOK, StopOK, Replaced, Dying, Leading
<1>9. CASE HandleShutdown(c)
  BY <1>9, <1>0, <1>a DEF HandleShutdown, Labels, AtOK, TargetOK, StopOK, Replaced, Dying, Leading
<1>10. CASE StopGivesUp(c)
  BY <1>10, <1>0, <1>a DEF StopGivesUp, Labels, AtOK, TargetOK, StopOK, Replaced, Dying, Leading
<1>11. CASE StopDone(c)
  BY <1>11, <1>0, <1>a DEF StopDone, Finish, Labels, AtOK, TargetOK, StopOK, Replaced, Dying, Leading
<1>12. CASE SleepDone(c)
  BY <1>12, <1>0, <1>a DEF SleepDone, Labels, AtOK, TargetOK, StopOK, Replaced, Dying, Leading
<1>13. CASE Boot(c)
  BY <1>13, <1>0, <1>a DEF Boot, Labels, AtOK, TargetOK, StopOK, Replaced, Dying, Leading
<1>14. CASE TakeShutdown(c)
  BY <1>14, <1>0, <1>a DEF TakeShutdown, Labels, AtOK, TargetOK, StopOK, Replaced, Dying, Leading
<1>15. CASE DrainDone(c)
  BY <1>15, <1>0, <1>a DEF DrainDone, Labels, AtOK, TargetOK, StopOK, Replaced, Dying, Leading
<1>16. CASE Exit(c)
  BY <1>16, <1>0, <1>a DEF Exit, Labels, AtOK, TargetOK, StopOK, Replaced, Dying, Leading
<1>17. CASE Start(c)
  BY <1>17, <1>0, <1>a DEF Start, Labels, AtOK, TargetOK, StopOK, Replaced, Dying, Leading
<1>18. CASE Signal(c)
  BY <1>18, <1>0, <1>a DEF Signal, Labels, AtOK, TargetOK, StopOK, Replaced, Dying, Leading
<1>19. CASE Interrupt(c)
  BY <1>19, <1>0, <1>a DEF Interrupt, Finish, Labels, AtOK, TargetOK, StopOK, Replaced, Dying, Leading
<1>20. QED
  BY <1>1, <1>2, <1>3, <1>4, <1>5, <1>6, <1>7, <1>8, <1>9, <1>10, <1>11, <1>12, <1>13, <1>14,
     <1>15, <1>16, <1>17, <1>18, <1>19 DEF Step

LEMMA StopInvStep ==
  ASSUME StartupInv, NEW c \in Cmds, Step(c)
  PROVE  StopInv'
<1>1. StopOK(c)' /\ Replaced(c)'
  BY StopOKOwn, ReplacedOwn
<1>2. ASSUME NEW b \in Cmds, b # c PROVE StopOK(b)' /\ Replaced(b)'
  <2>1. StopOK(b) /\ Replaced(b)
    BY DEF StartupInv, StopInv
  <2>2. /\ at'[b] = at[b] /\ kind'[b] = kind[b] /\ result'[b] = result[b] /\ target'[b] = target[b]
        /\ token'[b] = token[b] /\ answered'[b] = answered[b]
    BY <1>2, OthersSame
  <2>3. target[b] # None =>
          /\ tok'[target[b]] = tok[target[b]]
          /\ run[target[b]] \in Dying => run'[target[b]] \in Dying
          /\ run[target[b]] \in {"asked"} \cup Dying => run'[target[b]] \in {"asked"} \cup Dying
    BY TargetFate
  <2>4. QED
    BY <2>1, <2>2, <2>3 DEF StopOK, Replaced
<1>3. QED
  BY <1>1, <1>2 DEF StopInv


LEMMA LabelTypesStep ==
  ASSUME StartupInv, NEW c \in Cmds, Step(c)
  PROVE  /\ kind' \in [Cmds -> {"none", "ensure", "stop", "restart", "daemon"}]
         /\ at' \in [Cmds -> {"idle", "probe", "token", "generate", "write", "spawn", "pid", "poll", "stop",
                              "await", "closed", "sleep", "done"}]
         /\ result' \in [Cmds -> {"none", "ok", "conflict", "invalid token", "timeout", "not running",
                                  "interrupted"}]
         /\ target' \in [Cmds -> Cmds \cup {None}] /\ answered' \in [Cmds -> Cmds \cup {None}]
         /\ run' \in [Cmds -> {"unborn", "booting", "serving", "asked", "draining", "exiting", "hung", "gone"}]
<1> USE DEF fileVars, history, cmdVars
<1>0. Labels /\ answered \in [Cmds -> Cmds \cup {None}]
  BY LabelsOK DEF StartupInv, TypeOK
<1>1. CASE EnsureProbe(c)
  <2>1. kind' \in [Cmds -> {"none", "ensure", "stop", "restart", "daemon"}]
    BY <1>0, <1>1 DEF EnsureProbe, Labels
  <2>a. \E l \in {"probe", "token", "generate", "spawn", "stop", "await", "sleep", "done"} : at' = [at EXCEPT ![c] = l]
    BY <1>1 DEF EnsureProbe, Finish
  <2>2. at' \in [Cmds -> {"idle", "probe", "token", "generate", "write", "spawn", "pid", "poll", "stop",
                          "await", "closed", "sleep", "done"}]
    BY <1>0, <2>a DEF Labels
  <2>3. result' \in [Cmds -> {"none", "ok", "conflict", "invalid token", "timeout", "not running",
                              "interrupted"}]
    BY <1>0, <1>1 DEF EnsureProbe, Finish, Labels
  <2>b. target' = target \/ \E h \in Cmds : target' = [target EXCEPT ![c] = h]
    BY <1>1, HolderFacts DEF EnsureProbe
  <2>c. answered' = answered \/ \E h \in Cmds : answered' = [answered EXCEPT ![c] = h]
    BY <1>1, HolderFacts DEF EnsureProbe
  <2>d. target' \in [Cmds -> Cmds \cup {None}]
    BY <1>0, <2>b DEF Labels
  <2>4. answered' \in [Cmds -> Cmds \cup {None}]
    BY <1>0, <2>c
  <2>5. run' \in [Cmds -> {"unborn", "booting", "serving", "asked", "draining", "exiting", "hung", "gone"}]
    BY <1>0, <1>1 DEF EnsureProbe, Labels
  <2>6. QED
    BY <2>1, <2>2, <2>3, <2>d, <2>4, <2>5
<1>2. CASE ReadToken(c)
  <2>1. kind' \in [Cmds -> {"none", "ensure", "stop", "restart", "daemon"}]
    BY <1>0, <1>2 DEF ReadToken, Labels
  <2>a. \E l \in {"probe", "token", "generate", "spawn", "stop", "await", "sleep", "done"} : at' = [at EXCEPT ![c] = l]
    BY <1>2 DEF ReadToken, Finish
  <2>2. at' \in [Cmds -> {"idle", "probe", "token", "generate", "write", "spawn", "pid", "poll", "stop",
                          "await", "closed", "sleep", "done"}]
    BY <1>0, <2>a DEF Labels
  <2>3. result' \in [Cmds -> {"none", "ok", "conflict", "invalid token", "timeout", "not running",
                              "interrupted"}]
    BY <1>0, <1>2 DEF ReadToken, Finish, Labels
  <2>b. target' = target \/ \E h \in Cmds : target' = [target EXCEPT ![c] = h]
    BY <1>2 DEF ReadToken
  <2>c. answered' = answered \/ \E h \in Cmds : answered' = [answered EXCEPT ![c] = h]
    BY <1>2 DEF ReadToken
  <2>d. target' \in [Cmds -> Cmds \cup {None}]
    BY <1>0, <2>b DEF Labels
  <2>4. answered' \in [Cmds -> Cmds \cup {None}]
    BY <1>0, <2>c
  <2>5. run' \in [Cmds -> {"unborn", "booting", "serving", "asked", "draining", "exiting", "hung", "gone"}]
    BY <1>0, <1>2 DEF ReadToken, Labels
  <2>6. QED
    BY <2>1, <2>2, <2>3, <2>d, <2>4, <2>5
<1>3. CASE CreateTokenFile(c)
  BY <1>3, <1>0 DEF CreateTokenFile, Labels
<1>4. CASE WriteToken(c)
  BY <1>4, <1>0 DEF WriteToken, Labels
<1>5. CASE Spawn(c)
  BY <1>5, <1>0 DEF Spawn, Finish, Labels
<1>6. CASE WritePid(c)
  BY <1>6, <1>0 DEF WritePid, Labels
<1>7. CASE Poll(c)
  <2>1. kind' \in [Cmds -> {"none", "ensure", "stop", "restart", "daemon"}]
    BY <1>0, <1>7 DEF Poll, Labels
  <2>a. \E l \in {"probe", "token", "generate", "spawn", "stop", "await", "sleep", "done"} : at' = [at EXCEPT ![c] = l]
    BY <1>7 DEF Poll, Finish
  <2>2. at' \in [Cmds -> {"idle", "probe", "token", "generate", "write", "spawn", "pid", "poll", "stop",
                          "await", "closed", "sleep", "done"}]
    BY <1>0, <2>a DEF Labels
  <2>3. result' \in [Cmds -> {"none", "ok", "conflict", "invalid token", "timeout", "not running",
                              "interrupted"}]
    BY <1>0, <1>7 DEF Poll, Finish, Labels
  <2>b. target' = target \/ \E h \in Cmds : target' = [target EXCEPT ![c] = h]
    BY <1>7, HolderFacts DEF Poll
  <2>c. answered' = answered \/ \E h \in Cmds : answered' = [answered EXCEPT ![c] = h]
    BY <1>7, HolderFacts DEF Poll
  <2>d. target' \in [Cmds -> Cmds \cup {None}]
    BY <1>0, <2>b DEF Labels
  <2>4. answered' \in [Cmds -> Cmds \cup {None}]
    BY <1>0, <2>c
  <2>5. run' \in [Cmds -> {"unborn", "booting", "serving", "asked", "draining", "exiting", "hung", "gone"}]
    BY <1>0, <1>7 DEF Poll, Labels
  <2>6. QED
    BY <2>1, <2>2, <2>3, <2>d, <2>4, <2>5
<1>8. CASE StopConnect(c)
  <2>1. kind' \in [Cmds -> {"none", "ensure", "stop", "restart", "daemon"}]
    BY <1>0, <1>8 DEF StopConnect, Labels
  <2>a. \E l \in {"probe", "token", "generate", "spawn", "stop", "await", "sleep", "done"} : at' = [at EXCEPT ![c] = l]
    BY <1>8 DEF StopConnect, Finish
  <2>2. at' \in [Cmds -> {"idle", "probe", "token", "generate", "write", "spawn", "pid", "poll", "stop",
                          "await", "closed", "sleep", "done"}]
    BY <1>0, <2>a DEF Labels
  <2>3. result' \in [Cmds -> {"none", "ok", "conflict", "invalid token", "timeout", "not running",
                              "interrupted"}]
    BY <1>0, <1>8 DEF StopConnect, Finish, Labels
  <2>b. target' = target \/ \E h \in Cmds : target' = [target EXCEPT ![c] = h]
    BY <1>8, HolderFacts DEF StopConnect
  <2>c. answered' = answered \/ \E h \in Cmds : answered' = [answered EXCEPT ![c] = h]
    BY <1>8, HolderFacts DEF StopConnect
  <2>d. target' \in [Cmds -> Cmds \cup {None}]
    BY <1>0, <2>b DEF Labels
  <2>4. answered' \in [Cmds -> Cmds \cup {None}]
    BY <1>0, <2>c
  <2>5. run' \in [Cmds -> {"unborn", "booting", "serving", "asked", "draining", "exiting", "hung", "gone"}]
    BY <1>0, <1>8 DEF StopConnect, Labels
  <2>6. QED
    BY <2>1, <2>2, <2>3, <2>d, <2>4, <2>5
<1>9. CASE HandleShutdown(c)
  BY <1>9, <1>0 DEF HandleShutdown, Labels
<1>10. CASE StopGivesUp(c)
  BY <1>10, <1>0 DEF StopGivesUp, Labels
<1>11. CASE StopDone(c)
  BY <1>11, <1>0 DEF StopDone, Finish, Labels
<1>12. CASE SleepDone(c)
  BY <1>12, <1>0 DEF SleepDone, Labels
<1>13. CASE Boot(c)
  BY <1>13, <1>0 DEF Boot, Labels
<1>14. CASE TakeShutdown(c)
  BY <1>14, <1>0 DEF TakeShutdown, Labels
<1>15. CASE DrainDone(c)
  BY <1>15, <1>0 DEF DrainDone, Labels
<1>16. CASE Exit(c)
  BY <1>16, <1>0 DEF Exit, Labels
<1>17. CASE Start(c)
  <2>1. kind' \in [Cmds -> {"none", "ensure", "stop", "restart", "daemon"}]
    BY <1>0, <1>17 DEF Start, Labels
  <2>a. \E l \in {"probe", "token", "generate", "spawn", "stop", "await", "sleep", "done"} : at' = [at EXCEPT ![c] = l]
    BY <1>17 DEF Start, Finish
  <2>2. at' \in [Cmds -> {"idle", "probe", "token", "generate", "write", "spawn", "pid", "poll", "stop",
                          "await", "closed", "sleep", "done"}]
    BY <1>0, <2>a DEF Labels
  <2>3. result' \in [Cmds -> {"none", "ok", "conflict", "invalid token", "timeout", "not running",
                              "interrupted"}]
    BY <1>0, <1>17 DEF Start, Finish, Labels
  <2>b. target' = target \/ \E h \in Cmds : target' = [target EXCEPT ![c] = h]
    BY <1>17 DEF Start
  <2>c. answered' = answered \/ \E h \in Cmds : answered' = [answered EXCEPT ![c] = h]
    BY <1>17 DEF Start
  <2>d. target' \in [Cmds -> Cmds \cup {None}]
    BY <1>0, <2>b DEF Labels
  <2>4. answered' \in [Cmds -> Cmds \cup {None}]
    BY <1>0, <2>c
  <2>5. run' \in [Cmds -> {"unborn", "booting", "serving", "asked", "draining", "exiting", "hung", "gone"}]
    BY <1>0, <1>17 DEF Start, Labels
  <2>6. QED
    BY <2>1, <2>2, <2>3, <2>d, <2>4, <2>5
<1>18. CASE Signal(c)
  BY <1>18, <1>0, ZenonT(30) DEF Signal, Labels
<1>19. CASE Interrupt(c)
  BY <1>19, <1>0 DEF Interrupt, Finish, Labels
<1>20. QED
  BY <1>1, <1>2, <1>3, <1>4, <1>5, <1>6, <1>7, <1>8, <1>9, <1>10, <1>11, <1>12, <1>13, <1>14,
     <1>15, <1>16, <1>17, <1>18, <1>19 DEF Step

LEMMA TokenTypesStep ==
  ASSUME StartupInv, NEW c \in Cmds, Step(c)
  PROVE  /\ sources' \in Sources
         /\ token' \in [Cmds -> Cmds \cup Given \cup {None}] /\ tok' \in [Cmds -> Cmds \cup Given \cup {None}]
         /\ tokenFile' \in Cmds \cup {None, Partial} /\ pidFile' \in Cmds \cup {None}
         /\ faults' \in 0..MaxFaults
<1> USE DEF fileVars, history, cmdVars
<1>0. /\ sources \in Sources
      /\ token \in [Cmds -> Cmds \cup Given \cup {None}] /\ tok \in [Cmds -> Cmds \cup Given \cup {None}]
      /\ tokenFile \in Cmds \cup {None, Partial} /\ pidFile \in Cmds \cup {None}
      /\ faults \in 0..MaxFaults /\ MaxFaults \in Nat
  BY StartupAssumption DEF StartupInv, TypeOK
<1>a. at[c] = "write" => token[c] = c
  BY DEF StartupInv, TokenInv, TokenOK
<1>1. CASE EnsureProbe(c)
  BY <1>1, <1>0, <1>a DEF EnsureProbe, Finish
<1>2. CASE ReadToken(c)
  <2>1. TypeOK
    BY DEF StartupInv
  <2>2. \/ token' = token
        \/ token' = [token EXCEPT ![c] = KnownToken(c)] /\ KnownToken(c) \in Cmds \cup Given \cup {None}
    BY <1>2, <2>1, KnownTokenFacts DEF ReadToken
  <2>3. UNCHANGED <<sources, tok, tokenFile, pidFile, faults>>
    BY <1>2 DEF ReadToken
  <2>4. QED
    BY <1>0, <2>2, <2>3
<1>3. CASE CreateTokenFile(c)
  BY <1>3, <1>0, <1>a DEF CreateTokenFile
<1>4. CASE WriteToken(c)
  BY <1>4, <1>0, <1>a DEF WriteToken
<1>5. CASE Spawn(c)
  BY <1>5, <1>0, <1>a DEF Spawn, Finish
<1>6. CASE WritePid(c)
  BY <1>6, <1>0, <1>a DEF WritePid
<1>7. CASE Poll(c)
  BY <1>7, <1>0, <1>a DEF Poll, Finish
<1>8. CASE StopConnect(c)
  BY <1>8, <1>0, <1>a DEF StopConnect, Finish
<1>9. CASE HandleShutdown(c)
  BY <1>9, <1>0, <1>a DEF HandleShutdown
<1>10. CASE StopGivesUp(c)
  BY <1>10, <1>0, <1>a DEF StopGivesUp
<1>11. CASE StopDone(c)
  BY <1>11, <1>0, <1>a DEF StopDone, Finish
<1>12. CASE SleepDone(c)
  BY <1>12, <1>0, <1>a DEF SleepDone
<1>13. CASE Boot(c)
  BY <1>13, <1>0, <1>a DEF Boot
<1>14. CASE TakeShutdown(c)
  BY <1>14, <1>0, <1>a DEF TakeShutdown
<1>15. CASE DrainDone(c)
  BY <1>15, <1>0, <1>a DEF DrainDone
<1>16. CASE Exit(c)
  BY <1>16, <1>0, <1>a DEF Exit
<1>17. CASE Start(c)
  BY <1>17, <1>0, <1>a, CliTokenFacts DEF Start
<1>18. CASE Signal(c)
  BY <1>18, <1>0, <1>a DEF Signal
<1>19. CASE Interrupt(c)
  BY <1>19, <1>0, <1>a DEF Interrupt, Finish
<1>20. QED
  BY <1>1, <1>2, <1>3, <1>4, <1>5, <1>6, <1>7, <1>8, <1>9, <1>10, <1>11, <1>12, <1>13, <1>14,
     <1>15, <1>16, <1>17, <1>18, <1>19 DEF Step

LEMMA HistoryTypesStep ==
  ASSUME StartupInv, NEW c \in Cmds, Step(c)
  PROVE  raced' \in BOOLEAN /\ overlap' \in BOOLEAN /\ disturbed' \in BOOLEAN
<1> USE DEF fileVars, history, cmdVars
<1>0. raced \in BOOLEAN /\ overlap \in BOOLEAN /\ disturbed \in BOOLEAN
  BY DEF StartupInv, TypeOK
<1>1. CASE EnsureProbe(c)
  BY <1>1, <1>0 DEF EnsureProbe, Finish
<1>2. CASE ReadToken(c)
  BY <1>2, <1>0 DEF ReadToken, Finish
<1>3. CASE CreateTokenFile(c)
  BY <1>3, <1>0 DEF CreateTokenFile
<1>4. CASE WriteToken(c)
  BY <1>4, <1>0 DEF WriteToken
<1>5. CASE Spawn(c)
  BY <1>5, <1>0 DEF Spawn, Finish
<1>6. CASE WritePid(c)
  BY <1>6, <1>0 DEF WritePid
<1>7. CASE Poll(c)
  BY <1>7, <1>0 DEF Poll, Finish
<1>8. CASE StopConnect(c)
  BY <1>8, <1>0 DEF StopConnect, Finish
<1>9. CASE HandleShutdown(c)
  BY <1>9, <1>0 DEF HandleShutdown
<1>10. CASE StopGivesUp(c)
  BY <1>10, <1>0 DEF StopGivesUp
<1>11. CASE StopDone(c)
  BY <1>11, <1>0 DEF StopDone, Finish
<1>12. CASE SleepDone(c)
  BY <1>12, <1>0 DEF SleepDone
<1>13. CASE Boot(c)
  BY <1>13, <1>0 DEF Boot
<1>14. CASE TakeShutdown(c)
  BY <1>14, <1>0 DEF TakeShutdown
<1>15. CASE DrainDone(c)
  BY <1>15, <1>0 DEF DrainDone
<1>16. CASE Exit(c)
  BY <1>16, <1>0 DEF Exit
<1>17. CASE Start(c)
  BY <1>17, <1>0 DEF Start
<1>18. CASE Signal(c)
  BY <1>18, <1>0 DEF Signal
<1>19. CASE Interrupt(c)
  BY <1>19, <1>0 DEF Interrupt, Finish
<1>20. QED
  BY <1>1, <1>2, <1>3, <1>4, <1>5, <1>6, <1>7, <1>8, <1>9, <1>10, <1>11, <1>12, <1>13, <1>14,
     <1>15, <1>16, <1>17, <1>18, <1>19 DEF Step

LEMMA TypeOKStep ==
  ASSUME StartupInv, NEW c \in Cmds, Step(c)
  PROVE  TypeOK'
BY LabelTypesStep, TokenTypesStep, HistoryTypesStep DEF TypeOK

\* What has happened has happened, and the user's sources are what they are.
LEMMA HistoryGrows ==
  ASSUME StartupInv, NEW c \in Cmds, Step(c)
  PROVE  /\ sources' = sources
         /\ raced => raced'
         /\ overlap => overlap'
         /\ disturbed => disturbed'
<1> USE DEF fileVars, history, cmdVars
<1>1. CASE EnsureProbe(c)
  BY <1>1 DEF EnsureProbe, Finish
<1>2. CASE ReadToken(c)
  BY <1>2 DEF ReadToken, Finish
<1>3. CASE CreateTokenFile(c)
  BY <1>3 DEF CreateTokenFile
<1>4. CASE WriteToken(c)
  BY <1>4 DEF WriteToken
<1>5. CASE Spawn(c)
  BY <1>5 DEF Spawn, Finish
<1>6. CASE WritePid(c)
  BY <1>6 DEF WritePid
<1>7. CASE Poll(c)
  BY <1>7 DEF Poll, Finish
<1>8. CASE StopConnect(c)
  BY <1>8 DEF StopConnect, Finish
<1>9. CASE HandleShutdown(c)
  BY <1>9 DEF HandleShutdown
<1>10. CASE StopGivesUp(c)
  BY <1>10 DEF StopGivesUp
<1>11. CASE StopDone(c)
  BY <1>11 DEF StopDone, Finish
<1>12. CASE SleepDone(c)
  BY <1>12 DEF SleepDone
<1>13. CASE Boot(c)
  BY <1>13 DEF Boot
<1>14. CASE TakeShutdown(c)
  BY <1>14 DEF TakeShutdown
<1>15. CASE DrainDone(c)
  BY <1>15 DEF DrainDone
<1>16. CASE Exit(c)
  BY <1>16 DEF Exit
<1>17. CASE Start(c)
  BY <1>17 DEF Start
<1>18. CASE Signal(c)
  BY <1>18 DEF Signal
<1>19. CASE Interrupt(c)
  BY <1>19 DEF Interrupt, Finish
<1>20. QED
  BY <1>1, <1>2, <1>3, <1>4, <1>5, <1>6, <1>7, <1>8, <1>9, <1>10, <1>11, <1>12, <1>13, <1>14,
     <1>15, <1>16, <1>17, <1>18, <1>19 DEF Step

\* The token file is replaced only by a command that found none, so never under
\* a command that took its token from the file, unless two of them raced.
LEMMA FileKept ==
  ASSUME StartupInv, NEW c \in Cmds, Step(c), NEW b \in Cmds, NEW t, FileUser(b), Right(b, t), ~raced
  PROVE  tokenFile' = tokenFile
<1>1. IsToken(t) /\ t = tokenFile
  BY DEF FileUser, Right
<1>2. tokenFile # None /\ tokenFile # Partial
  BY <1>1, TokenNumbers
<1>3. ~CreateTokenFile(c) /\ ~WriteToken(c)
  <2>1. Alone(c)
    BY DEF StartupInv, TokenInv
  <2>2. QED
    BY <1>2, <2>1 DEF Alone, CreateTokenFile, WriteToken
<1>4. QED
  BY <1>3 DEF Step, EnsureProbe, ReadToken, Spawn, WritePid, Poll, StopConnect, HandleShutdown, StopGivesUp,
       StopDone, SleepDone, Boot, TakeShutdown, DrainDone, Exit, Start, Signal, Interrupt, fileVars

\* A token that was right stays right.
LEMMA RightKept ==
  ASSUME StartupInv, NEW c \in Cmds, Step(c), NEW b \in Cmds, NEW t, Right(b, t), kind'[b] = kind[b]
  PROVE  Right(b, t)'
<1>1. /\ sources' = sources /\ (raced => raced') /\ sources \in Sources
      /\ tokenFile \in Cmds \cup {None, Partial} /\ tokenFile' \in Cmds \cup {None, Partial}
  BY HistoryGrows, TypeOKStep DEF StartupInv, TypeOK
<1>2. FileUser(b)' <=> FileUser(b)
  BY <1>1 DEF FileUser
<1>3. ~FileUser(b) => CliToken(sources, tokenFile') = CliToken(sources, tokenFile)
  BY <1>1, CliTokenFacts DEF FileUser
<1>4. FileUser(b) /\ ~raced => tokenFile' = tokenFile
  BY FileKept
<1>5. QED
  BY <1>1, <1>2, <1>3, <1>4 DEF Right

LEMMA OthersUnborn ==
  ASSUME StartupInv, NEW c \in Cmds, Step(c), NEW b \in Cmds, b # c, run'[b] # "unborn"
  PROVE  run[b] # "unborn"
<1>1. Labels /\ TargetOK(c) /\ AtOK(c)
  BY LabelsOK DEF StartupInv, AtInv
<1>2. QED
  BY <1>1, ZenonT(30) DEF Labels, TargetOK, AtOK, Dying, Step, EnsureProbe, ReadToken, CreateTokenFile, WriteToken, Spawn, WritePid,
       Poll, StopConnect, HandleShutdown, StopGivesUp, StopDone, SleepDone, Boot, TakeShutdown, DrainDone,
       Exit, Start, Signal, Interrupt

LEMMA TokenOKOwn ==
  ASSUME StartupInv, NEW c \in Cmds, Step(c)
  PROVE  TokenOK(c)'
<1> USE DEF fileVars, history, cmdVars
<1>0. Labels /\ AtOK(c) /\ TokenOK(c) /\ TypeOK
  BY LabelsOK DEF StartupInv, AtInv, TokenInv
<1>a. \A x : Right(c, x) /\ kind'[c] = kind[c] => Right(c, x)'
  BY RightKept
<1>b. sources' = sources
  BY HistoryGrows
<1>c. kind'[c] = kind[c] => (FileUser(c)' <=> FileUser(c))
  BY <1>b DEF FileUser
<1>1. CASE EnsureProbe(c)
  BY <1>1, <1>0, <1>a, <1>b, <1>c DEF EnsureProbe, Finish, Labels, AtOK, TokenOK
<1>2. CASE ReadToken(c)
  <2>0. run'[c] = "unborn" /\ kind' = kind
    BY <1>0, <1>2 DEF ReadToken, AtOK
  <2>1. CASE MustGenerate(c) /\ at' = [at EXCEPT ![c] = "generate"]
    <3>1. FileUser(c)' /\ at'[c] = "generate"
      BY <1>0, <1>c, <2>0, <2>1, KnownTokenFacts DEF Labels
    <3>2. QED
      BY <2>0, <3>1 DEF TokenOK
  <2>2. CASE /\ IsToken(KnownToken(c)) \/ (kind[c] # "daemon" /\ FlagGiven(sources))
             /\ token' = [token EXCEPT ![c] = KnownToken(c)] /\ at' = [at EXCEPT ![c] = "spawn"]
    <3>1. Right(c, KnownToken(c)) /\ token'[c] = KnownToken(c) /\ at'[c] = "spawn"
      BY <1>0, <2>2, KnownTokenFacts DEF Labels
    <3>2. QED
      BY <1>a, <2>0, <3>1 DEF TokenOK
  <2>3. CASE Finish(c, "invalid token")
    <3>1. at'[c] = "done"
      BY <1>0, <2>3 DEF Finish, Labels
    <3>2. QED
      BY <2>0, <3>1 DEF TokenOK
  <2>4. QED
    BY <1>2, <2>1, <2>2, <2>3 DEF ReadToken
<1>3. CASE CreateTokenFile(c)
  BY <1>3, <1>0, <1>a, <1>b, <1>c DEF CreateTokenFile, Labels, AtOK, TokenOK
<1>4. CASE WriteToken(c)
  <2>1. at'[c] = "spawn" /\ run'[c] = "unborn" /\ kind' = kind /\ token'[c] = c /\ tokenFile' = c
    BY <1>0, <1>4 DEF WriteToken, Labels, AtOK, TokenOK
  <2>2. FileUser(c)'
    BY <1>0, <1>c, <1>4, <2>1 DEF WriteToken, TokenOK
  <2>3. IsToken(c)
    BY TokenNumbers
  <2>4. Right(c, token[c])'
    BY <2>1, <2>2, <2>3 DEF Right
  <2>5. QED
    BY <2>1, <2>4 DEF TokenOK
<1>5. CASE Spawn(c)
  BY <1>5, <1>0, <1>a, <1>b, <1>c DEF Spawn, Finish, Labels, AtOK, TokenOK
<1>6. CASE WritePid(c)
  BY <1>6, <1>0, <1>a, <1>b, <1>c DEF WritePid, Labels, AtOK, TokenOK
<1>7. CASE Poll(c)
  BY <1>7, <1>0, <1>a, <1>b, <1>c DEF Poll, Finish, Labels, AtOK, TokenOK
<1>8. CASE StopConnect(c)
  BY <1>8, <1>0, <1>a, <1>b, <1>c, ZenonT(30) DEF StopConnect, Finish, Labels, AtOK, TokenOK
<1>9. CASE HandleShutdown(c)
  BY <1>9, <1>0, <1>a, <1>b, <1>c DEF HandleShutdown, Labels, AtOK, TokenOK
<1>10. CASE StopGivesUp(c)
  BY <1>10, <1>0, <1>a, <1>b, <1>c DEF StopGivesUp, Labels, AtOK, TokenOK
<1>11. CASE StopDone(c)
  BY <1>11, <1>0, <1>a, <1>b, <1>c, ZenonT(30) DEF StopDone, Finish, Labels, AtOK, TokenOK
<1>12. CASE SleepDone(c)
  BY <1>12, <1>0, <1>a, <1>b, <1>c DEF SleepDone, Labels, AtOK, TokenOK
<1>13. CASE Boot(c)
  BY <1>13, <1>0, <1>a, <1>b, <1>c DEF Boot, Labels, AtOK, TokenOK
<1>14. CASE TakeShutdown(c)
  BY <1>14, <1>0, <1>a, <1>b, <1>c DEF TakeShutdown, Labels, AtOK, TokenOK
<1>15. CASE DrainDone(c)
  BY <1>15, <1>0, <1>a, <1>b, <1>c DEF DrainDone, Labels, AtOK, TokenOK
<1>16. CASE Exit(c)
  BY <1>16, <1>0, <1>a, <1>b, <1>c DEF Exit, Labels, AtOK, TokenOK
<1>17. CASE Start(c)
  BY <1>17, <1>0, <1>a, <1>b, <1>c DEF Start, Labels, AtOK, TokenOK
<1>18. CASE Signal(c)
  BY <1>18, <1>0, <1>a, <1>b, <1>c DEF Signal, Labels, AtOK, TokenOK
<1>19. CASE Interrupt(c)
  BY <1>19, <1>0, <1>a, <1>b, <1>c DEF Interrupt, Finish, Labels, AtOK, TokenOK
<1>20. QED
  BY <1>1, <1>2, <1>3, <1>4, <1>5, <1>6, <1>7, <1>8, <1>9, <1>10, <1>11, <1>12, <1>13, <1>14,
     <1>15, <1>16, <1>17, <1>18, <1>19 DEF Step

LEMMA AloneStep ==
  ASSUME StartupInv, NEW c \in Cmds, Step(c), NEW b \in Cmds
  PROVE  Alone(b)'
<1> USE DEF fileVars, history, cmdVars
<1>0. Labels /\ AtOK(c) /\ TokenOK(c) /\ Alone(b) /\ Alone(c) /\ TypeOK
  BY LabelsOK DEF StartupInv, AtInv, TokenInv
<1>a. raced => raced'
  BY HistoryGrows
<1>1. CASE EnsureProbe(c)
  <2>1. tokenFile' = tokenFile /\ \A a \in Cmds : at'[a] = at[a] \/ at'[a] \notin {"generate", "write"}
    BY <1>0, <1>1, ZenonT(30) DEF EnsureProbe, Finish, Labels
  <2>2. QED
    BY <1>0, <1>a, <2>1 DEF Alone
<1>2. CASE ReadToken(c)
  <2>1. SUFFICES ASSUME ~raced' PROVE Alone(b)'
    BY DEF Alone
  <2>2. ~raced /\ (\A a \in Cmds \ {c} : at[a] \notin {"generate", "write"}) /\ at[c] = "token" /\ tokenFile' = tokenFile
    BY <1>2, <2>1 DEF ReadToken
  <2>3. at'[c] \in {"generate", "spawn", "done"} /\ (at'[c] = "generate" => tokenFile = None)
    BY <1>0, <1>2, KnownTokenFacts DEF ReadToken, Finish, Labels
  <2>4. \A a \in Cmds \ {c} : at'[a] = at[a]
    BY <1>0, <1>2 DEF ReadToken, Finish, Labels
  <2>5. QED
    BY <2>2, <2>3, <2>4 DEF Alone
<1>3. CASE CreateTokenFile(c)
  BY <1>3, <1>0, <1>a DEF CreateTokenFile, Labels, Alone
<1>4. CASE WriteToken(c)
  BY <1>4, <1>0, <1>a DEF WriteToken, Labels, Alone
<1>5. CASE Spawn(c)
  <2>1. tokenFile' = tokenFile /\ \A a \in Cmds : at'[a] = at[a] \/ at'[a] \notin {"generate", "write"}
    BY <1>0, <1>5 DEF Spawn, Finish, Labels
  <2>2. QED
    BY <1>0, <1>a, <2>1 DEF Alone
<1>6. CASE WritePid(c)
  BY <1>6, <1>0, <1>a DEF WritePid, Labels, Alone
<1>7. CASE Poll(c)
  <2>1. tokenFile' = tokenFile /\ \A a \in Cmds : at'[a] = at[a] \/ at'[a] \notin {"generate", "write"}
    BY <1>0, <1>7, ZenonT(30) DEF Poll, Finish, Labels
  <2>2. QED
    BY <1>0, <1>a, <2>1 DEF Alone
<1>8. CASE StopConnect(c)
  <2>1. tokenFile' = tokenFile /\ \A a \in Cmds : at'[a] = at[a] \/ at'[a] \notin {"generate", "write"}
    BY <1>0, <1>8, ZenonT(30) DEF StopConnect, Finish, Labels
  <2>2. QED
    BY <1>0, <1>a, <2>1 DEF Alone
<1>9. CASE HandleShutdown(c)
  BY <1>9, <1>0, <1>a DEF HandleShutdown, Labels, Alone
<1>10. CASE StopGivesUp(c)
  BY <1>10, <1>0, <1>a DEF StopGivesUp, Labels, Alone
<1>11. CASE StopDone(c)
  <2>1. tokenFile' = tokenFile /\ \A a \in Cmds : at'[a] = at[a] \/ at'[a] \notin {"generate", "write"}
    BY <1>0, <1>11 DEF StopDone, Finish, Labels
  <2>2. QED
    BY <1>0, <1>a, <2>1 DEF Alone
<1>12. CASE SleepDone(c)
  BY <1>12, <1>0, <1>a DEF SleepDone, Labels, Alone
<1>13. CASE Boot(c)
  BY <1>13, <1>0, <1>a DEF Boot, Labels, Alone
<1>14. CASE TakeShutdown(c)
  BY <1>14, <1>0, <1>a DEF TakeShutdown, Labels, Alone
<1>15. CASE DrainDone(c)
  BY <1>15, <1>0, <1>a DEF DrainDone, Labels, Alone
<1>16. CASE Exit(c)
  BY <1>16, <1>0, <1>a DEF Exit, Labels, Alone
<1>17. CASE Start(c)
  <2>1. tokenFile' = tokenFile /\ \A a \in Cmds : at'[a] = at[a] \/ at'[a] \notin {"generate", "write"}
    BY <1>0, <1>17, ZenonT(30) DEF Start, Finish, Labels
  <2>2. QED
    BY <1>0, <1>a, <2>1 DEF Alone
<1>18. CASE Signal(c)
  BY <1>18, <1>0, <1>a DEF Signal, Labels, Alone
<1>19. CASE Interrupt(c)
  BY <1>19, <1>0, <1>a DEF Interrupt, Finish, Labels, Alone
<1>20. QED
  BY <1>1, <1>2, <1>3, <1>4, <1>5, <1>6, <1>7, <1>8, <1>9, <1>10, <1>11, <1>12, <1>13, <1>14,
     <1>15, <1>16, <1>17, <1>18, <1>19 DEF Step

LEMMA TokenInvStep ==
  ASSUME StartupInv, NEW c \in Cmds, Step(c)
  PROVE  TokenInv'
<1>1. ASSUME NEW b \in Cmds, b # c PROVE TokenOK(b)'
  <2>1. TokenOK(b)
    BY DEF StartupInv, TokenInv
  <2>2. at'[b] = at[b] /\ kind'[b] = kind[b] /\ token'[b] = token[b] /\ tok'[b] = tok[b]
    BY <1>1, OthersSame
  <2>3. run'[b] # "unborn" => run[b] # "unborn"
    BY <1>1, OthersUnborn
  <2>4. \A t : Right(b, t) => Right(b, t)'
    BY <2>2, RightKept
  <2>5. FileUser(b)' <=> FileUser(b)
    BY <2>2, HistoryGrows DEF FileUser
  <2>6. QED
    BY <2>1, <2>2, <2>3, <2>4, <2>5 DEF TokenOK
<1>2. QED
  BY <1>1, TokenOKOwn, AloneStep DEF TokenInv

LEMMA HolderTokenStep ==
  ASSUME StartupInv, NEW c \in Cmds, Step(c), NEW b \in Cmds
  PROVE  HolderToken(b)'
<1> USE DEF fileVars, history, cmdVars
<1>0. Labels /\ HolderToken(b) /\ AtOK(c) /\ TargetOK(c)
  BY LabelsOK DEF StartupInv, BindInv, AtInv
<1>1. CASE EnsureProbe(c)
  BY <1>1, <1>0 DEF EnsureProbe, Finish, Labels, HolderToken, AtOK, TargetOK, Holds, Dying
<1>2. CASE ReadToken(c)
  BY <1>2, <1>0 DEF ReadToken, Finish, Labels, HolderToken, AtOK, TargetOK, Holds, Dying
<1>3. CASE CreateTokenFile(c)
  BY <1>3, <1>0 DEF CreateTokenFile, Labels, HolderToken, AtOK, TargetOK, Holds, Dying
<1>4. CASE WriteToken(c)
  BY <1>4, <1>0 DEF WriteToken, Labels, HolderToken, AtOK, TargetOK, Holds, Dying
<1>5. CASE Spawn(c)
  BY <1>5, <1>0 DEF Spawn, Finish, Labels, HolderToken, AtOK, TargetOK, Holds, Dying
<1>6. CASE WritePid(c)
  BY <1>6, <1>0 DEF WritePid, Labels, HolderToken, AtOK, TargetOK, Holds, Dying
<1>7. CASE Poll(c)
  BY <1>7, <1>0 DEF Poll, Finish, Labels, HolderToken, AtOK, TargetOK, Holds, Dying
<1>8. CASE StopConnect(c)
  BY <1>8, <1>0 DEF StopConnect, Finish, Labels, HolderToken, AtOK, TargetOK, Holds, Dying
<1>9. CASE HandleShutdown(c)
  BY <1>9, <1>0 DEF HandleShutdown, Labels, HolderToken, AtOK, TargetOK, Holds, Dying
<1>10. CASE StopGivesUp(c)
  BY <1>10, <1>0 DEF StopGivesUp, Labels, HolderToken, AtOK, TargetOK, Holds, Dying
<1>11. CASE StopDone(c)
  BY <1>11, <1>0 DEF StopDone, Finish, Labels, HolderToken, AtOK, TargetOK, Holds, Dying
<1>12. CASE SleepDone(c)
  BY <1>12, <1>0 DEF SleepDone, Labels, HolderToken, AtOK, TargetOK, Holds, Dying
<1>13. CASE Boot(c)
  BY <1>13, <1>0 DEF Boot, Labels, HolderToken, AtOK, TargetOK, Holds, Dying
<1>14. CASE TakeShutdown(c)
  BY <1>14, <1>0 DEF TakeShutdown, Labels, HolderToken, AtOK, TargetOK, Holds, Dying
<1>15. CASE DrainDone(c)
  BY <1>15, <1>0 DEF DrainDone, Labels, HolderToken, AtOK, TargetOK, Holds, Dying
<1>16. CASE Exit(c)
  BY <1>16, <1>0 DEF Exit, Labels, HolderToken, AtOK, TargetOK, Holds, Dying
<1>17. CASE Start(c)
  BY <1>17, <1>0 DEF Start, Labels, HolderToken, AtOK, TargetOK, Holds, Dying
<1>18. CASE Signal(c)
  BY <1>18, <1>0 DEF Signal, Labels, HolderToken, AtOK, TargetOK, Holds, Dying
<1>19. CASE Interrupt(c)
  BY <1>19, <1>0 DEF Interrupt, Finish, Labels, HolderToken, AtOK, TargetOK, Holds, Dying
<1>20. QED
  BY <1>1, <1>2, <1>3, <1>4, <1>5, <1>6, <1>7, <1>8, <1>9, <1>10, <1>11, <1>12, <1>13, <1>14,
     <1>15, <1>16, <1>17, <1>18, <1>19 DEF Step

\* Whether the flags name a token does not depend on the default file.
LEMMA FlagsOKKept ==
  ASSUME StartupInv, NEW c \in Cmds, Step(c)
  PROVE  FlagsOK' <=> FlagsOK
<1>1. sources' = sources /\ sources \in Sources
  BY HistoryGrows DEF StartupInv, TypeOK
<1>2. FlagGiven(sources) => ResolveToken(sources, tokenFile') = ResolveToken(sources, tokenFile)
  BY <1>1, ResolveSources
<1>3. QED
  BY <1>1, <1>2 DEF FlagsOK

LEMMA NobodyLeavesStep ==
  ASSUME StartupInv, NEW c \in Cmds, Step(c)
  PROVE  NobodyLeaves'
<1> USE DEF fileVars, history, cmdVars
<1>0. Labels /\ NobodyLeaves
  BY LabelsOK DEF StartupInv, UndisturbedInv
<1>1. CASE EnsureProbe(c)
  BY <1>1, <1>0 DEF EnsureProbe, Finish, Labels, NobodyLeaves
<1>2. CASE ReadToken(c)
  BY <1>2, <1>0 DEF ReadToken, Finish, Labels, NobodyLeaves
<1>3. CASE CreateTokenFile(c)
  BY <1>3, <1>0 DEF CreateTokenFile, Labels, NobodyLeaves
<1>4. CASE WriteToken(c)
  BY <1>4, <1>0 DEF WriteToken, Labels, NobodyLeaves
<1>5. CASE Spawn(c)
  BY <1>5, <1>0 DEF Spawn, Finish, Labels, NobodyLeaves
<1>6. CASE WritePid(c)
  BY <1>6, <1>0 DEF WritePid, Labels, NobodyLeaves
<1>7. CASE Poll(c)
  BY <1>7, <1>0 DEF Poll, Finish, Labels, NobodyLeaves
<1>8. CASE StopConnect(c)
  BY <1>8, <1>0 DEF StopConnect, Finish, Labels, NobodyLeaves
<1>9. CASE HandleShutdown(c)
  BY <1>9, <1>0 DEF HandleShutdown, Labels, NobodyLeaves
<1>10. CASE StopGivesUp(c)
  BY <1>10, <1>0 DEF StopGivesUp, Labels, NobodyLeaves
<1>11. CASE StopDone(c)
  BY <1>11, <1>0 DEF StopDone, Finish, Labels, NobodyLeaves
<1>12. CASE SleepDone(c)
  BY <1>12, <1>0 DEF SleepDone, Labels, NobodyLeaves
<1>13. CASE Boot(c)
  BY <1>13, <1>0 DEF Boot, Labels, NobodyLeaves
<1>14. CASE TakeShutdown(c)
  BY <1>14, <1>0 DEF TakeShutdown, Labels, NobodyLeaves
<1>15. CASE DrainDone(c)
  BY <1>15, <1>0 DEF DrainDone, Labels, NobodyLeaves
<1>16. CASE Exit(c)
  BY <1>16, <1>0 DEF Exit, Labels, NobodyLeaves
<1>17. CASE Start(c)
  BY <1>17, <1>0 DEF Start, Labels, NobodyLeaves
<1>18. CASE Signal(c)
  BY <1>18, <1>0 DEF Signal, Labels, NobodyLeaves
<1>19. CASE Interrupt(c)
  BY <1>19, <1>0 DEF Interrupt, Finish, Labels, NobodyLeaves
<1>20. QED
  BY <1>1, <1>2, <1>3, <1>4, <1>5, <1>6, <1>7, <1>8, <1>9, <1>10, <1>11, <1>12, <1>13, <1>14,
     <1>15, <1>16, <1>17, <1>18, <1>19 DEF Step

LEMMA PartialIsWrittenStep ==
  ASSUME StartupInv, NEW c \in Cmds, Step(c)
  PROVE  PartialIsWritten'
<1> USE DEF fileVars, history, cmdVars
<1>0. Labels /\ PartialIsWritten /\ (at[c] = "write" => token[c] = c) /\ c # Partial /\ AtOK(c)
  BY LabelsOK, TokenNumbers DEF StartupInv, UndisturbedInv, TokenInv, TokenOK, AtInv
<1>1. CASE EnsureProbe(c)
  <2>1. UNCHANGED <<tokenFile, disturbed>> /\ at[c] # "write"
    BY <1>1 DEF EnsureProbe
  <2>2. \A b \in Cmds \ {c} : at'[b] = at[b]
    BY OthersSame
  <2>3. QED
    BY <1>0, <2>1, <2>2 DEF PartialIsWritten
<1>2. CASE ReadToken(c)
  <2>1. UNCHANGED <<tokenFile, disturbed>> /\ at[c] # "write"
    BY <1>2 DEF ReadToken
  <2>2. \A b \in Cmds \ {c} : at'[b] = at[b]
    BY OthersSame
  <2>3. QED
    BY <1>0, <2>1, <2>2 DEF PartialIsWritten
<1>3. CASE CreateTokenFile(c)
  BY <1>3, <1>0 DEF CreateTokenFile, Labels, PartialIsWritten
<1>4. CASE WriteToken(c)
  BY <1>4, <1>0 DEF WriteToken, Labels, PartialIsWritten
<1>5. CASE Spawn(c)
  <2>1. UNCHANGED <<tokenFile, disturbed>> /\ at[c] # "write"
    BY <1>5 DEF Spawn
  <2>2. \A b \in Cmds \ {c} : at'[b] = at[b]
    BY OthersSame
  <2>3. QED
    BY <1>0, <2>1, <2>2 DEF PartialIsWritten
<1>6. CASE WritePid(c)
  BY <1>6, <1>0 DEF WritePid, Labels, PartialIsWritten
<1>7. CASE Poll(c)
  <2>1. UNCHANGED <<tokenFile, disturbed>> /\ at[c] # "write"
    BY <1>7 DEF Poll
  <2>2. \A b \in Cmds \ {c} : at'[b] = at[b]
    BY OthersSame
  <2>3. QED
    BY <1>0, <2>1, <2>2 DEF PartialIsWritten
<1>8. CASE StopConnect(c)
  <2>1. UNCHANGED <<tokenFile, disturbed>> /\ at[c] # "write"
    BY <1>8 DEF StopConnect
  <2>2. \A b \in Cmds \ {c} : at'[b] = at[b]
    BY OthersSame
  <2>3. QED
    BY <1>0, <2>1, <2>2 DEF PartialIsWritten
<1>9. CASE HandleShutdown(c)
  BY <1>9, <1>0 DEF HandleShutdown, Labels, PartialIsWritten
<1>10. CASE StopGivesUp(c)
  BY <1>10, <1>0 DEF StopGivesUp, Labels, PartialIsWritten
<1>11. CASE StopDone(c)
  <2>1. UNCHANGED <<tokenFile, disturbed>> /\ at[c] # "write"
    BY <1>11 DEF StopDone
  <2>2. \A b \in Cmds \ {c} : at'[b] = at[b]
    BY OthersSame
  <2>3. QED
    BY <1>0, <2>1, <2>2 DEF PartialIsWritten
<1>12. CASE SleepDone(c)
  BY <1>12, <1>0 DEF SleepDone, Labels, PartialIsWritten
<1>13. CASE Boot(c)
  BY <1>13, <1>0 DEF Boot, Labels, PartialIsWritten
<1>14. CASE TakeShutdown(c)
  BY <1>14, <1>0 DEF TakeShutdown, Labels, PartialIsWritten
<1>15. CASE DrainDone(c)
  BY <1>15, <1>0 DEF DrainDone, Labels, PartialIsWritten
<1>16. CASE Exit(c)
  BY <1>16, <1>0 DEF Exit, Labels, PartialIsWritten
<1>17. CASE Start(c)
  <2>1. UNCHANGED <<tokenFile, disturbed>> /\ at[c] # "write"
    BY <1>17 DEF Start
  <2>2. \A b \in Cmds \ {c} : at'[b] = at[b]
    BY OthersSame
  <2>3. QED
    BY <1>0, <2>1, <2>2 DEF PartialIsWritten
<1>18. CASE Signal(c)
  BY <1>18, <1>0 DEF Signal, Labels, PartialIsWritten
<1>19. CASE Interrupt(c)
  BY <1>19, <1>0 DEF Interrupt, Finish, Labels, PartialIsWritten
<1>20. QED
  BY <1>1, <1>2, <1>3, <1>4, <1>5, <1>6, <1>7, <1>8, <1>9, <1>10, <1>11, <1>12, <1>13, <1>14,
     <1>15, <1>16, <1>17, <1>18, <1>19 DEF Step

LEMMA GoneLostBindStep ==
  ASSUME StartupInv, NEW c \in Cmds, Step(c)
  PROVE  GoneLostBind'
<1> USE DEF fileVars, history, cmdVars
<1>0. Labels /\ GoneLostBind /\ AtOK(c) /\ NobodyLeaves
  BY LabelsOK DEF StartupInv, UndisturbedInv, AtInv
<1>a. FlagsOK' <=> FlagsOK
  BY FlagsOKKept
<1>1. CASE EnsureProbe(c)
  BY <1>1, <1>0, <1>a DEF EnsureProbe, Finish, Labels, GoneLostBind, AtOK, NobodyLeaves
<1>2. CASE ReadToken(c)
  BY <1>2, <1>0, <1>a DEF ReadToken, Finish, Labels, GoneLostBind, AtOK, NobodyLeaves
<1>3. CASE CreateTokenFile(c)
  BY <1>3, <1>0, <1>a DEF CreateTokenFile, Labels, GoneLostBind, AtOK, NobodyLeaves
<1>4. CASE WriteToken(c)
  BY <1>4, <1>0, <1>a DEF WriteToken, Labels, GoneLostBind, AtOK, NobodyLeaves
<1>5. CASE Spawn(c)
  BY <1>5, <1>0, <1>a DEF Spawn, Finish, Labels, GoneLostBind, AtOK, NobodyLeaves
<1>6. CASE WritePid(c)
  BY <1>6, <1>0, <1>a DEF WritePid, Labels, GoneLostBind, AtOK, NobodyLeaves
<1>7. CASE Poll(c)
  BY <1>7, <1>0, <1>a DEF Poll, Finish, Labels, GoneLostBind, AtOK, NobodyLeaves
<1>8. CASE StopConnect(c)
  BY <1>8, <1>0, <1>a DEF StopConnect, Finish, Labels, GoneLostBind, AtOK, NobodyLeaves
<1>9. CASE HandleShutdown(c)
  BY <1>9, <1>0, <1>a DEF HandleShutdown, Labels, GoneLostBind, AtOK, NobodyLeaves
<1>10. CASE StopGivesUp(c)
  BY <1>10, <1>0, <1>a DEF StopGivesUp, Labels, GoneLostBind, AtOK, NobodyLeaves
<1>11. CASE StopDone(c)
  BY <1>11, <1>0, <1>a DEF StopDone, Finish, Labels, GoneLostBind, AtOK, NobodyLeaves
<1>12. CASE SleepDone(c)
  BY <1>12, <1>0, <1>a DEF SleepDone, Labels, GoneLostBind, AtOK, NobodyLeaves
<1>13. CASE Boot(c)
  <2>1. SUFFICES ASSUME ~disturbed, FlagsOK PROVE \A d \in Cmds : run'[d] = "gone" => \E e \in Cmds : run'[e] = "serving"
    BY <1>a, <1>13 DEF GoneLostBind, Boot
  <2>2. TypeOK /\ Right(c, tok[c])
    BY <1>13 DEF StartupInv, TokenInv, TokenOK, Boot
  <2>3. IsToken(tok[c])
    <3>1. CASE kind[c] # "daemon" /\ FlagGiven(sources)
      BY <2>1, <2>2, <3>1 DEF Right, FileUser, CliToken, FlagsOK
    <3>2. CASE ~(kind[c] # "daemon" /\ FlagGiven(sources))
      BY <2>2, <3>2 DEF Right
    <3>3. QED
      BY <3>1, <3>2
  <2>4. CASE Holder = None
    BY <1>0, <1>13, <2>3, <2>4 DEF Boot, Labels
  <2>5. CASE Holder # None
    <3>1. Holder \in Cmds /\ run[Holder] = "serving"
      BY <1>0, <2>1, <2>5, HolderFacts DEF NobodyLeaves, Holds
    <3>2. Holder # c
      BY <1>13, <3>1 DEF Boot
    <3>3. run'[Holder] = "serving"
      BY <1>0, <1>13, <3>1, <3>2 DEF Boot, Labels
    <3>4. QED
      BY <3>1, <3>3
  <2>6. QED
    BY <2>4, <2>5
<1>14. CASE TakeShutdown(c)
  BY <1>14, <1>0, <1>a DEF TakeShutdown, Labels, GoneLostBind, AtOK, NobodyLeaves
<1>15. CASE DrainDone(c)
  BY <1>15, <1>0, <1>a DEF DrainDone, Labels, GoneLostBind, AtOK, NobodyLeaves
<1>16. CASE Exit(c)
  BY <1>16, <1>0, <1>a DEF Exit, Labels, GoneLostBind, AtOK, NobodyLeaves
<1>17. CASE Start(c)
  BY <1>17, <1>0, <1>a DEF Start, Labels, GoneLostBind, AtOK, NobodyLeaves
<1>18. CASE Signal(c)
  BY <1>18, <1>0, <1>a DEF Signal, Labels, GoneLostBind, AtOK, NobodyLeaves
<1>19. CASE Interrupt(c)
  BY <1>19, <1>0, <1>a DEF Interrupt, Finish, Labels, GoneLostBind, AtOK, NobodyLeaves
<1>20. QED
  BY <1>1, <1>2, <1>3, <1>4, <1>5, <1>6, <1>7, <1>8, <1>9, <1>10, <1>11, <1>12, <1>13, <1>14,
     <1>15, <1>16, <1>17, <1>18, <1>19 DEF Step

\* The only result of an ensure, as long as nobody disturbs it.
LEMMA EnsureEndsOK ==
  ASSUME StartupInv, NEW c \in Cmds, Step(c), ~disturbed', ~raced', FlagsOK, kind'[c] = "ensure", at'[c] = "done"
  PROVE  result'[c] = "ok"
<1>0. Labels /\ AtOK(c) /\ NobodyLeaves /\ PartialIsWritten /\ GoneLostBind /\ TypeOK
  BY LabelsOK DEF StartupInv, UndisturbedInv, AtInv
<1>1. ~disturbed /\ ~raced
  BY HistoryGrows
<1>2. CASE at[c] = "done"
  <2>1. result[c] = "ok"
    <3>1. kind[c] = "ensure"
      BY <1>0, <1>2 DEF Labels, Step, EnsureProbe, ReadToken, CreateTokenFile, WriteToken, Spawn, WritePid, Poll, StopConnect,
         HandleShutdown, StopGivesUp, StopDone, SleepDone, Boot, TakeShutdown, DrainDone, Exit, Start, Signal, Interrupt, cmdVars
    <3>2. QED
      BY <1>1, <1>2, <3>1 DEF StartupInv, UndisturbedInv, EnsureIdempotent, FlagsOK
  <2>2. QED
    BY <1>0, <1>2, <2>1 DEF Labels, Step, EnsureProbe, ReadToken, CreateTokenFile, WriteToken, Spawn, WritePid, Poll, StopConnect,
         HandleShutdown, StopGivesUp, StopDone, SleepDone, Boot, TakeShutdown, DrainDone, Exit, Start, Signal, Interrupt, cmdVars, Active
<1>3. CASE EnsureProbe(c)
  <2>1. Holder # None => run[Holder] = "serving"
    BY <1>0, <1>1, HolderFacts DEF NobodyLeaves, Holds
  <2>2. at' = [at EXCEPT ![c] = "token"] \/ result' = [result EXCEPT ![c] = "ok"]
    BY <1>3, <2>1 DEF EnsureProbe, Finish
  <2>3. QED
    BY <1>0, <2>2 DEF Labels
<1>4. CASE ReadToken(c)
  <2>1. kind[c] = "ensure" /\ at[c] = "token" /\ tokenFile # Partial
    <3>1. kind[c] = "ensure" /\ at[c] = "token" /\ \A b \in Cmds : b # c => at[b] # "write"
      BY <1>4 DEF ReadToken
    <3>2. QED
      BY <1>0, <1>1, <3>1 DEF PartialIsWritten
  <2>2. MustGenerate(c) \/ IsToken(KnownToken(c)) \/ FlagGiven(sources)
    BY <1>0, <2>1, KnownTokenFacts
  <2>3. \E l \in {"generate", "spawn"} : at' = [at EXCEPT ![c] = l]
    BY <1>4, <2>1, <2>2 DEF ReadToken
  <2>4. QED
    BY <1>0, <2>3 DEF Labels
<1>5. CASE Poll(c)
  <2>1. run[c] \in {"booting", "serving", "gone"}
    BY <1>0, <1>1, <1>5 DEF Poll, AtOK, NobodyLeaves
  <2>2. run[c] = "booting" \/ \E d \in Cmds : run[d] = "serving"
    BY <1>0, <1>1, <2>1 DEF GoneLostBind
  <2>3. result' = [result EXCEPT ![c] = "ok"]
    BY <1>5, <2>2 DEF Poll, Finish
  <2>4. QED
    BY <1>0, <2>3 DEF Labels
<1>6. CASE at[c] # "done" /\ ~EnsureProbe(c) /\ ~ReadToken(c) /\ ~Poll(c)
  <2>1. ~Interrupt(c)
    BY DEF Interrupt
  <2>2. QED
    BY <1>0, <1>6, <2>1, ZenonT(30) DEF Labels, Step, CreateTokenFile, WriteToken, Spawn, WritePid, StopConnect, HandleShutdown,
         StopGivesUp, StopDone, SleepDone, Boot, TakeShutdown, DrainDone, Exit, Start, Signal, Finish, cmdVars
<1>7. QED
  BY <1>2, <1>3, <1>4, <1>5, <1>6

LEMMA EnsureIdempotentStep ==
  ASSUME StartupInv, NEW c \in Cmds, Step(c)
  PROVE  EnsureIdempotent'
<1>1. SUFFICES ASSUME ~disturbed', ~raced', FlagsOK', NEW b \in Cmds, kind'[b] = "ensure", at'[b] = "done"
               PROVE  result'[b] = "ok"
  BY DEF EnsureIdempotent, FlagsOK
<1>2. ~disturbed /\ ~raced /\ FlagsOK
  BY <1>1, HistoryGrows, FlagsOKKept
<1>3. CASE b = c
  BY <1>1, <1>2, <1>3, EnsureEndsOK
<1>4. CASE b # c
  <2>1. kind[b] = "ensure" /\ at[b] = "done" /\ result'[b] = result[b]
    BY <1>1, <1>4, OthersSame
  <2>2. QED
    BY <1>2, <2>1 DEF StartupInv, UndisturbedInv, EnsureIdempotent, FlagsOK
<1>5. QED
  BY <1>3, <1>4

\* Only a command that is given becomes active, only Spawn makes a daemon boot,
\* and only Boot makes one hold the port.
LEMMA NewlyBusy ==
  ASSUME StartupInv, NEW c \in Cmds, Step(c), NEW b \in Cmds
  PROVE  /\ Active(b)' => Active(b) \/ (b = c /\ Start(c))
         /\ run'[b] = "booting" => run[b] = "booting" \/ (b = c /\ Spawn(c))
         /\ run'[b] # "unborn" => run[b] # "unborn" \/ (b = c /\ Spawn(c))
         /\ Holds(b)' => Holds(b) \/ (b = c /\ Boot(c) /\ run[c] = "booting")
         /\ run'[b] = "serving" => run[b] = "serving" \/ (b = c /\ Boot(c) /\ run[c] = "booting")
<1> USE DEF fileVars, history, cmdVars
<1>0. Labels /\ AtOK(b) /\ AtOK(c) /\ TargetOK(c) /\ (at[c] = "await" => target[c] \in Cmds)
  BY LabelsOK DEF StartupInv, AtInv, Labels, AtOK
<1>1. CASE EnsureProbe(c)
  <2>1. run' = run
    BY <1>1 DEF EnsureProbe
  <2>2. Active(c) \/ Start(c)
    BY <1>1 DEF EnsureProbe, Active
  <2>3. b # c => at'[b] = at[b]
    BY OthersSame
  <2>4. QED
    BY <2>1, <2>2, <2>3 DEF Active, Holds
<1>2. CASE ReadToken(c)
  <2>1. run' = run
    BY <1>2 DEF ReadToken
  <2>2. Active(c) \/ Start(c)
    BY <1>2 DEF ReadToken, Active
  <2>3. b # c => at'[b] = at[b]
    BY OthersSame
  <2>4. QED
    BY <2>1, <2>2, <2>3 DEF Active, Holds
<1>3. CASE CreateTokenFile(c)
  BY <1>3, <1>0 DEF CreateTokenFile, Labels, Active, Holds, AtOK
<1>4. CASE WriteToken(c)
  BY <1>4, <1>0 DEF WriteToken, Labels, Active, Holds, AtOK
<1>5. CASE Spawn(c)
  BY <1>5, <1>0 DEF Spawn, Finish, Labels, Active, Holds, AtOK
<1>6. CASE WritePid(c)
  BY <1>6, <1>0 DEF WritePid, Labels, Active, Holds, AtOK
<1>7. CASE Poll(c)
  <2>1. run' = run
    BY <1>7 DEF Poll
  <2>2. Active(c) \/ Start(c)
    BY <1>7 DEF Poll, Active
  <2>3. b # c => at'[b] = at[b]
    BY OthersSame
  <2>4. QED
    BY <2>1, <2>2, <2>3 DEF Active, Holds
<1>8. CASE StopConnect(c)
  <2>1. run' = run
    BY <1>8 DEF StopConnect
  <2>2. Active(c) \/ Start(c)
    BY <1>8 DEF StopConnect, Active
  <2>3. b # c => at'[b] = at[b]
    BY OthersSame
  <2>4. QED
    BY <2>1, <2>2, <2>3 DEF Active, Holds
<1>9. CASE HandleShutdown(c)
  BY <1>9, <1>0, ZenonT(30) DEF HandleShutdown, Labels, Active, Holds, AtOK
<1>10. CASE StopGivesUp(c)
  BY <1>10, <1>0 DEF StopGivesUp, Labels, Active, Holds, AtOK
<1>11. CASE StopDone(c)
  <2>1. run' = run
    BY <1>11 DEF StopDone
  <2>2. Active(c) \/ Start(c)
    BY <1>11 DEF StopDone, Active
  <2>3. b # c => at'[b] = at[b]
    BY OthersSame
  <2>4. QED
    BY <2>1, <2>2, <2>3 DEF Active, Holds
<1>12. CASE SleepDone(c)
  BY <1>12, <1>0 DEF SleepDone, Labels, Active, Holds, AtOK
<1>13. CASE Boot(c)
  BY <1>13, <1>0 DEF Boot, Labels, Active, Holds, AtOK
<1>14. CASE TakeShutdown(c)
  BY <1>14, <1>0 DEF TakeShutdown, Labels, Active, Holds, AtOK
<1>15. CASE DrainDone(c)
  BY <1>15, <1>0 DEF DrainDone, Labels, Active, Holds, AtOK
<1>16. CASE Exit(c)
  BY <1>16, <1>0 DEF Exit, Labels, Active, Holds, AtOK
<1>17. CASE Start(c)
  <2>1. run' = run
    BY <1>17 DEF Start
  <2>2. b # c => at'[b] = at[b]
    BY OthersSame
  <2>3. QED
    BY <1>17, <2>1, <2>2 DEF Active, Holds
<1>18. CASE Signal(c)
  BY <1>18, <1>0 DEF Signal, Labels, Active, Holds, AtOK
<1>19. CASE Interrupt(c)
  BY <1>19, <1>0 DEF Interrupt, Finish, Labels, Active, Holds, AtOK
<1>20. QED
  BY <1>1, <1>2, <1>3, <1>4, <1>5, <1>6, <1>7, <1>8, <1>9, <1>10, <1>11, <1>12, <1>13, <1>14,
     <1>15, <1>16, <1>17, <1>18, <1>19 DEF Step

\* How a command comes to its labels.
LEMMA Moves ==
  ASSUME StartupInv, NEW c \in Cmds, Step(c)
  PROVE  /\ at'[c] = "await" => at[c] = "await" \/ StopConnect(c)
         /\ at'[c] = "closed" => at[c] \in {"await", "closed"}
         /\ StopConnect(c) \/ target' = target
         /\ at'[c] \in Leading => at[c] \in Leading \/ EnsureProbe(c) \/ Start(c)
         /\ Start(c) \/ kind' = kind
<1> USE DEF fileVars, history, cmdVars
<1>0. Labels
  BY LabelsOK DEF StartupInv
<1>1. CASE EnsureProbe(c)
  <2>1. \E l \in {"probe", "token", "generate", "spawn", "pid", "stop", "sleep", "await", "done"} : at' = [at EXCEPT ![c] = l]
    BY <1>1 DEF EnsureProbe, Finish
  <2>2. at'[c] # "closed"
    BY <1>0, <2>1 DEF Labels
  <2>3. at'[c] = "await" => StopConnect(c)
    BY <1>0, <1>1 DEF EnsureProbe, Finish, Labels
  <2>4. at'[c] \in Leading => at[c] \in Leading \/ EnsureProbe(c) \/ Start(c)
    BY <1>0, <1>1 DEF EnsureProbe, Finish, Labels, Leading
  <2>5. StopConnect(c) \/ target' = target
    BY <1>1 DEF EnsureProbe
  <2>6. Start(c) \/ kind' = kind
    BY <1>1 DEF EnsureProbe
  <2>7. QED
    BY <2>2, <2>3, <2>4, <2>5, <2>6
<1>2. CASE ReadToken(c)
  <2>1. \E l \in {"probe", "token", "generate", "spawn", "pid", "stop", "sleep", "await", "done"} : at' = [at EXCEPT ![c] = l]
    BY <1>2 DEF ReadToken, Finish
  <2>2. at'[c] # "closed"
    BY <1>0, <2>1 DEF Labels
  <2>3. at'[c] = "await" => StopConnect(c)
    BY <1>0, <1>2 DEF ReadToken, Finish, Labels
  <2>4. at'[c] \in Leading => at[c] \in Leading \/ EnsureProbe(c) \/ Start(c)
    BY <1>0, <1>2 DEF ReadToken, Finish, Labels, Leading
  <2>5. StopConnect(c) \/ target' = target
    BY <1>2 DEF ReadToken
  <2>6. Start(c) \/ kind' = kind
    BY <1>2 DEF ReadToken
  <2>7. QED
    BY <2>2, <2>3, <2>4, <2>5, <2>6
<1>3. CASE CreateTokenFile(c)
  BY <1>3, <1>0 DEF CreateTokenFile, Labels, Leading
<1>4. CASE WriteToken(c)
  BY <1>4, <1>0 DEF WriteToken, Labels, Leading
<1>5. CASE Spawn(c)
  <2>1. \E l \in {"probe", "token", "generate", "spawn", "pid", "stop", "sleep", "await", "done"} : at' = [at EXCEPT ![c] = l]
    BY <1>5 DEF Spawn, Finish
  <2>2. at'[c] # "closed"
    BY <1>0, <2>1 DEF Labels
  <2>3. at'[c] = "await" => StopConnect(c)
    BY <1>0, <1>5 DEF Spawn, Finish, Labels
  <2>4. at'[c] \in Leading => at[c] \in Leading \/ EnsureProbe(c) \/ Start(c)
    BY <1>0, <1>5 DEF Spawn, Finish, Labels, Leading
  <2>5. StopConnect(c) \/ target' = target
    BY <1>5 DEF Spawn
  <2>6. Start(c) \/ kind' = kind
    BY <1>5 DEF Spawn
  <2>7. QED
    BY <2>2, <2>3, <2>4, <2>5, <2>6
<1>6. CASE WritePid(c)
  BY <1>6, <1>0 DEF WritePid, Labels, Leading
<1>7. CASE Poll(c)
  <2>1. \E l \in {"probe", "token", "generate", "spawn", "pid", "stop", "sleep", "await", "done"} : at' = [at EXCEPT ![c] = l]
    BY <1>7 DEF Poll, Finish
  <2>2. at'[c] # "closed"
    BY <1>0, <2>1 DEF Labels
  <2>3. at'[c] = "await" => StopConnect(c)
    BY <1>0, <1>7 DEF Poll, Finish, Labels
  <2>4. at'[c] \in Leading => at[c] \in Leading \/ EnsureProbe(c) \/ Start(c)
    BY <1>0, <1>7 DEF Poll, Finish, Labels, Leading
  <2>5. StopConnect(c) \/ target' = target
    BY <1>7 DEF Poll
  <2>6. Start(c) \/ kind' = kind
    BY <1>7 DEF Poll
  <2>7. QED
    BY <2>2, <2>3, <2>4, <2>5, <2>6
<1>8. CASE StopConnect(c)
  <2>1. \E l \in {"probe", "token", "generate", "spawn", "pid", "stop", "sleep", "await", "done"} : at' = [at EXCEPT ![c] = l]
    BY <1>8 DEF StopConnect, Finish
  <2>2. at'[c] # "closed"
    BY <1>0, <2>1 DEF Labels
  <2>3. at'[c] = "await" => StopConnect(c)
    BY <1>0, <1>8 DEF StopConnect, Finish, Labels
  <2>4. at'[c] \in Leading => at[c] \in Leading \/ EnsureProbe(c) \/ Start(c)
    BY <1>0, <1>8, ZenonT(30) DEF StopConnect, Finish, Labels, Leading
  <2>5. StopConnect(c) \/ target' = target
    BY <1>8 DEF StopConnect
  <2>6. Start(c) \/ kind' = kind
    BY <1>8 DEF StopConnect
  <2>7. QED
    BY <2>2, <2>3, <2>4, <2>5, <2>6
<1>9. CASE HandleShutdown(c)
  BY <1>9, <1>0 DEF HandleShutdown, Labels, Leading
<1>10. CASE StopGivesUp(c)
  BY <1>10, <1>0 DEF StopGivesUp, Labels, Leading
<1>11. CASE StopDone(c)
  <2>1. \E l \in {"probe", "token", "generate", "spawn", "pid", "stop", "sleep", "await", "done"} : at' = [at EXCEPT ![c] = l]
    BY <1>11 DEF StopDone, Finish
  <2>2. at'[c] # "closed"
    BY <1>0, <2>1 DEF Labels
  <2>3. at'[c] = "await" => StopConnect(c)
    BY <1>0, <1>11 DEF StopDone, Finish, Labels
  <2>4. at'[c] \in Leading => at[c] \in Leading \/ EnsureProbe(c) \/ Start(c)
    BY <1>0, <1>11 DEF StopDone, Finish, Labels, Leading
  <2>5. StopConnect(c) \/ target' = target
    BY <1>11 DEF StopDone
  <2>6. Start(c) \/ kind' = kind
    BY <1>11 DEF StopDone
  <2>7. QED
    BY <2>2, <2>3, <2>4, <2>5, <2>6
<1>12. CASE SleepDone(c)
  BY <1>12, <1>0 DEF SleepDone, Labels, Leading
<1>13. CASE Boot(c)
  BY <1>13, <1>0 DEF Boot, Labels, Leading
<1>14. CASE TakeShutdown(c)
  BY <1>14, <1>0 DEF TakeShutdown, Labels, Leading
<1>15. CASE DrainDone(c)
  BY <1>15, <1>0 DEF DrainDone, Labels, Leading
<1>16. CASE Exit(c)
  BY <1>16, <1>0 DEF Exit, Labels, Leading
<1>17. CASE Start(c)
  <2>1. \E l \in {"probe", "token", "generate", "spawn", "pid", "stop", "sleep", "await", "done"} : at' = [at EXCEPT ![c] = l]
    BY <1>17 DEF Start, Finish
  <2>2. at'[c] # "closed"
    BY <1>0, <2>1 DEF Labels
  <2>3. at'[c] = "await" => StopConnect(c)
    BY <1>0, <1>17 DEF Start, Finish, Labels
  <2>4. at'[c] \in Leading => at[c] \in Leading \/ EnsureProbe(c) \/ Start(c)
    BY <1>0, <1>17 DEF Start, Finish, Labels, Leading
  <2>5. StopConnect(c) \/ target' = target
    BY <1>17 DEF Start
  <2>6. Start(c) \/ kind' = kind
    BY <1>17 DEF Start
  <2>7. QED
    BY <2>2, <2>3, <2>4, <2>5, <2>6
<1>18. CASE Signal(c)
  BY <1>18, <1>0 DEF Signal, Labels, Leading
<1>19. CASE Interrupt(c)
  BY <1>19, <1>0 DEF Interrupt, Finish, Labels, Leading
<1>20. QED
  BY <1>1, <1>2, <1>3, <1>4, <1>5, <1>6, <1>7, <1>8, <1>9, <1>10, <1>11, <1>12, <1>13, <1>14,
     <1>15, <1>16, <1>17, <1>18, <1>19 DEF Step

LEMMA OneAtATimeStep ==
  ASSUME StartupInv, NEW c \in Cmds, Step(c), NEW b \in Cmds, ~overlap'
  PROVE  OneAtATime(b)'
<1>1. SUFFICES ASSUME Active(b)', NEW a \in Cmds, a # b PROVE ~Active(a)' /\ run'[a] # "booting"
  BY DEF OneAtATime
<1>2. ~overlap /\ OneAtATime(b) /\ OneAtATime(a)
  BY HistoryGrows DEF StartupInv, PidInv
<1>3. CASE Start(c)
  <2>1. /\ ~Active(a) /\ ~Active(b) /\ run[a] # "booting" /\ run' = run
    BY <1>1, <1>3 DEF Start
  <2>2. b = c
    BY <1>1, <2>1, NewlyBusy
  <2>3. QED
    BY <1>1, <2>1, <2>2, NewlyBusy
<1>4. CASE ~Start(c)
  <2>1. Active(b) /\ (Active(a)' => Active(a))
    BY <1>1, <1>4, NewlyBusy
  <2>2. ~Active(a) /\ run[a] # "booting"
    BY <1>1, <1>2, <2>1 DEF OneAtATime
  <2>3. ~(a = c /\ Spawn(c))
    BY <2>2 DEF Active, Spawn
  <2>4. QED
    BY <2>1, <2>2, <2>3, NewlyBusy
<1>5. QED
  BY <1>3, <1>4

LEMMA StopFacesServerStep ==
  ASSUME StartupInv, NEW c \in Cmds, Step(c), NEW b \in Cmds, ~overlap'
  PROVE  StopFacesServer(b)'
<1>0. Labels /\ AtOK(b) /\ OneHolder
  BY LabelsOK DEF StartupInv, AtInv, BindInv
<1>1. ~overlap /\ StopFacesServer(b) /\ OneAtATime(b)
  BY HistoryGrows DEF StartupInv, PidInv
<1>2. SUFFICES ASSUME at'[b] \in {"await", "closed"}, NEW d \in Cmds, run'[d] = "serving" PROVE d = target'[b]
  BY DEF StopFacesServer
<1>3. CASE b = c /\ StopConnect(c)
  <2>1. run' = run /\ run[d] = "serving"
    BY <1>2, <1>3 DEF StopConnect
  <2>2. at' = [at EXCEPT ![c] = "await"] /\ target' = [target EXCEPT ![c] = Holder] /\ Holder # None
    BY <1>0, <1>2, <1>3 DEF StopConnect, Finish, Labels
  <2>3. QED
    BY <1>0, <1>3, <2>1, <2>2, HolderFacts DEF OneHolder, Holds, Labels
<1>4. CASE ~(b = c /\ StopConnect(c))
  <2>1. at[b] \in {"await", "closed"} /\ target'[b] = target[b]
    <3>1. CASE b # c
      BY <1>2, <3>1, OthersSame
    <3>2. CASE b = c
      BY <1>2, <1>4, <3>2, Moves
    <3>3. QED
      BY <3>1, <3>2
  <2>2. Active(b) /\ run[b] = "unborn"
    BY <1>0, <2>1 DEF Active, AtOK
  <2>3. run[d] # "booting"
    BY <1>1, <2>2 DEF OneAtATime
  <2>4. run[d] = "serving"
    BY <1>2, <2>3, NewlyBusy
  <2>5. QED
    BY <1>1, <2>1, <2>4 DEF StopFacesServer
<1>5. QED
  BY <1>3, <1>4

LEMMA StarterFacesNoneStep ==
  ASSUME StartupInv, NEW c \in Cmds, Step(c), NEW b \in Cmds, ~overlap'
  PROVE  StarterFacesNone(b)'
<1>0. Labels /\ AtOK(b)
  BY LabelsOK DEF StartupInv, AtInv
<1>1. ~overlap /\ StarterFacesNone(b) /\ OneAtATime(b)
  BY HistoryGrows DEF StartupInv, PidInv
<1>2. SUFFICES ASSUME kind'[b] # "daemon", at'[b] \in Leading, NEW d \in Cmds, d # b PROVE ~Holds(d)'
  BY DEF StarterFacesNone
<1>3. /\ kind[b] # "daemon" \/ Start(c)
      /\ at[b] \in Leading \/ (b = c /\ EnsureProbe(c)) \/ (b = c /\ Start(c))
  <2>1. CASE b # c
    BY <1>2, <2>1, OthersSame
  <2>2. CASE b = c
    BY <1>2, <2>2, Moves
  <2>3. QED
    BY <2>1, <2>2
<1>4. ~(b = c /\ Start(c))
  <2>1. SUFFICES ASSUME b = c, Start(c) PROVE FALSE
    OBVIOUS
  <2>2. kind'[b] = "ensure" => at'[b] = "probe"
    BY <1>0, <2>1 DEF Start, Labels
  <2>3. kind'[b] \in {"stop", "restart"} => at'[b] = "stop"
    BY <1>0, <2>1 DEF Start, Labels
  <2>4. kind'[b] \in {"ensure", "stop", "restart"}
    BY <1>0, <1>2, <2>1 DEF Start, Labels
  <2>5. QED
    BY <1>2, <2>2, <2>3, <2>4 DEF Leading
<1>5. kind[b] # "daemon"
  <2>1. CASE b = c
    BY <1>3, <1>4, <2>1
  <2>2. CASE b # c
    BY <1>2, <2>2, OthersSame
  <2>3. QED
    BY <2>1, <2>2
<1>6. Active(b)
  BY <1>3, <1>4 DEF Active, Leading, EnsureProbe
<1>7. run[d] # "booting"
  BY <1>1, <1>2, <1>6 DEF OneAtATime
<1>8. ~Holds(d)
  <2>1. CASE at[b] \in Leading
    BY <1>1, <1>2, <1>5, <2>1 DEF StarterFacesNone
  <2>2. CASE b = c /\ EnsureProbe(c)
    <3>1. Holder = None
      BY <1>0, <1>2, <2>2 DEF EnsureProbe, Finish, Labels, Leading
    <3>2. QED
      BY <3>1, HolderFacts
  <2>3. QED
    BY <1>3, <1>4, <2>1, <2>2
<1>9. QED
  BY <1>7, <1>8, NewlyBusy

\* Who writes or removes the PID file.
LEMMA PidWriters ==
  ASSUME StartupInv, NEW c \in Cmds, Step(c)
  PROVE  \/ pidFile' = pidFile
         \/ at[c] = "pid" /\ pidFile' = c /\ run' = run
         \/ at[c] = "closed" /\ pidFile' = None /\ run' = run
         \/ run[c] = "draining" /\ run'[c] = "exiting"
<1>0. Labels
  BY LabelsOK DEF StartupInv
<1>1. QED
  BY <1>0 DEF Labels, Step, EnsureProbe, ReadToken, CreateTokenFile, WriteToken, Spawn, WritePid, Poll, StopConnect,
       HandleShutdown, StopGivesUp, StopDone, SleepDone, Boot, TakeShutdown, DrainDone, Exit, Start, Signal, Interrupt,
       Finish, cmdVars, fileVars, history

LEMMA PollNamedStep ==
  ASSUME StartupInv, NEW c \in Cmds, Step(c), NEW b \in Cmds, ~overlap'
  PROVE  PollNamed(b)'
<1>0. Labels /\ AtOK(b)
  BY LabelsOK DEF StartupInv, AtInv
<1>1. ~overlap /\ PollNamed(b) /\ OneAtATime(b) /\ StarterFacesNone(b)
  BY HistoryGrows DEF StartupInv, PidInv
<1>2. SUFFICES ASSUME at'[b] = "poll", run'[b] \in {"booting", "serving"} PROVE pidFile' = b
  BY DEF PollNamed
<1>3. CASE b = c /\ WritePid(c)
  BY <1>3 DEF WritePid
<1>4. CASE ~(b = c /\ WritePid(c))
  <2>1. at[b] = "poll"
    <3>1. CASE b # c
      BY <1>2, <3>1, OthersSame
    <3>2. CASE b = c
      BY <1>0, <1>2, <1>4, <3>2, ZenonT(30) DEF Labels, Step, EnsureProbe, ReadToken, CreateTokenFile, WriteToken, Spawn, WritePid, Poll, StopConnect,
       HandleShutdown, StopGivesUp, StopDone, SleepDone, Boot, TakeShutdown, DrainDone, Exit, Start, Signal, Interrupt,
       Finish, cmdVars, fileVars, history
    <3>3. QED
      BY <3>1, <3>2
  <2>2. run[b] \in {"booting", "serving"}
    <3>1. ~(b = c /\ Spawn(c))
      BY <2>1 DEF Spawn
    <3>2. QED
      BY <1>2, <3>1, NewlyBusy
  <2>3. pidFile = b /\ kind[b] # "daemon"
    BY <1>0, <1>1, <2>1, <2>2 DEF PollNamed, AtOK
  <2>4. at[c] \notin {"pid", "closed"}
    <3>1. Active(b)
      BY <2>1 DEF Active
    <3>2. QED
      BY <1>1, <2>1, <3>1 DEF OneAtATime, Active
  <2>5. ~(run[c] = "draining" /\ run'[c] = "exiting")
    BY <1>1, <1>2, <2>1, <2>3 DEF StarterFacesNone, Leading, Holds
  <2>6. QED
    BY <2>3, <2>4, <2>5, PidWriters
<1>5. QED
  BY <1>3, <1>4

\* A command that talked to a daemon that serves still has the token it sent.
LEMMA StoppersKept ==
  ASSUME StartupInv, NEW c \in Cmds, Step(c), NEW b \in Cmds, run[b] = "serving", Stoppers(b)'
  PROVE  Stoppers(b)
<1>0. Labels /\ AtOK(c) /\ StopOK(c) /\ TargetOK(c) /\ AtOK(b)
  BY LabelsOK DEF StartupInv, AtInv, StopInv
<1>1. SUFFICES ASSUME NEW a \in Cmds, target[a] = b PROVE token[a] = tok[b]
  BY DEF Stoppers
<1>2. b # None
  BY <1>0 DEF Labels
<1>3. tok'[b] = tok[b]
  BY <1>1, <1>2, TargetFate
<1>4. target'[a] = b /\ token'[a] = token[a]
  <2>1. CASE a # c
    BY <1>1, <2>1, OthersSame
  <2>2. CASE a = c
    <3>1. at[c] \notin {"idle", "stop"} \cup Leading
      BY <1>0, <1>1, <1>2, <2>2 DEF AtOK, StopOK, Dying
    <3>2. target' = target /\ token' = token
      BY <3>1 DEF Leading, Step, EnsureProbe, ReadToken, CreateTokenFile, WriteToken, Spawn, WritePid, Poll, StopConnect,
       HandleShutdown, StopGivesUp, StopDone, SleepDone, Boot, TakeShutdown, DrainDone, Exit, Start, Signal, Interrupt,
       Finish, cmdVars, fileVars, history
    <3>3. QED
      BY <1>1, <3>2
  <2>3. QED
    BY <2>1, <2>2
<1>5. QED
  BY <1>1, <1>3, <1>4 DEF Stoppers

LEMMA DoneNamedKept ==
  ASSUME StartupInv, NEW c \in Cmds, Step(c), NEW b \in Cmds, ~overlap', at[b] = "done", at'[b] = "done"
  PROVE  DoneNamed(b)'
<1>0. Labels /\ AtOK(b) /\ OneHolder /\ StopOK(c)
  BY LabelsOK DEF StartupInv, AtInv, BindInv, StopInv
<1>1. ~overlap /\ DoneNamed(b) /\ StarterFacesNone(c) /\ StopFacesServer(c)
  BY HistoryGrows DEF StartupInv, PidInv
<1>2. SUFFICES ASSUME kind'[b] # "daemon", result'[b] # "interrupted"
               PROVE  run'[b] # "booting" /\ (run'[b] = "serving" /\ Stoppers(b)' => pidFile' = b)
  BY DEF DoneNamed
<1>3. kind[b] # "daemon" /\ result[b] # "interrupted"
  <2>1. CASE b # c
    BY <1>2, <2>1, OthersSame
  <2>2. CASE b = c
    BY <1>0, <1>2, <2>2 DEF Labels, Active, Step, EnsureProbe, ReadToken, CreateTokenFile, WriteToken, Spawn, WritePid, Poll, StopConnect,
       HandleShutdown, StopGivesUp, StopDone, SleepDone, Boot, TakeShutdown, DrainDone, Exit, Start, Signal, Interrupt,
       Finish, cmdVars, fileVars, history
  <2>3. QED
    BY <2>1, <2>2
<1>4. run[b] # "booting" /\ (run[b] = "serving" /\ Stoppers(b) => pidFile = b)
  BY <1>1, <1>3 DEF DoneNamed
<1>5. run'[b] # "booting"
  <2>1. ~(b = c /\ Spawn(c))
    BY DEF Spawn
  <2>2. QED
    BY <1>4, <2>1, NewlyBusy
<1>6. ASSUME run'[b] = "serving", Stoppers(b)' PROVE pidFile' = b
  <2>1. run[b] = "serving"
    BY <1>4, <1>6, NewlyBusy
  <2>2. Stoppers(b) /\ pidFile = b
    BY <1>4, <1>6, <2>1, StoppersKept
  <2>3. at[c] # "pid"
    <3>1. SUFFICES ASSUME at[c] = "pid" PROVE FALSE
      OBVIOUS
    <3>2. kind[c] # "daemon" /\ b # c
      <4>1. AtOK(c)
        BY DEF StartupInv, AtInv
      <4>2. QED
        BY <3>1, <4>1 DEF AtOK
    <3>3. QED
      BY <1>1, <2>1, <3>1, <3>2 DEF StarterFacesNone, Leading, Holds
  <2>4. at[c] # "closed"
    <3>1. SUFFICES ASSUME at[c] = "closed" PROVE FALSE
      OBVIOUS
    <3>2. target[c] = b
      BY <1>1, <2>1, <3>1 DEF StopFacesServer
    <3>3. token[c] = tok[b] /\ b # None
      BY <1>0, <2>2, <3>2 DEF Stoppers, Labels
    <3>4. QED
      BY <1>0, <2>1, <3>1, <3>2, <3>3 DEF StopOK, Dying
  <2>5. run[c] # "draining"
    BY <1>0, <2>1 DEF OneHolder, Holds
  <2>6. QED
    BY <2>2, <2>3, <2>4, <2>5, PidWriters
<1>7. QED
  BY <1>5, <1>6

LEMMA DoneNamedStep ==
  ASSUME StartupInv, NEW c \in Cmds, Step(c), NEW b \in Cmds, ~overlap'
  PROVE  DoneNamed(b)'
<1>0. Labels /\ AtOK(b)
  BY LabelsOK DEF StartupInv, AtInv
<1>1. ~overlap /\ PollNamed(b) /\ StarterFacesNone(b)
  BY HistoryGrows DEF StartupInv, PidInv
<1>2. CASE at'[b] # "done"
  BY <1>2 DEF DoneNamed
<1>3. CASE at'[b] = "done" /\ at[b] = "done"
  BY <1>3, DoneNamedKept
<1>4. CASE at'[b] = "done" /\ at[b] # "done"
  <2>1. b = c
    BY <1>4, OthersSame
  <2>2. CASE Poll(c)
    <3>1. run' = run /\ pidFile' = pidFile /\ at[b] = "poll" /\ kind[b] # "daemon"
      BY <1>0, <2>1, <2>2 DEF Poll, AtOK, fileVars
    <3>2. run[b] # "booting"
      <4>1. CASE Holder # None /\ run[Holder] \in {"serving", "asked"}
        <5>1. Holder = b
          BY <1>1, <3>1, <4>1, HolderFacts DEF StarterFacesNone, Leading
        <5>2. QED
          BY <4>1, <5>1
      <4>2. CASE ~(Holder # None /\ run[Holder] \in {"serving", "asked"})
        BY <2>1, <2>2, <4>2 DEF Poll
      <4>3. QED
        BY <4>1, <4>2
    <3>3. QED
      BY <1>1, <3>1, <3>2 DEF DoneNamed, PollNamed
  <2>3. CASE Interrupt(c)
    BY <1>0, <2>1, <2>3 DEF Interrupt, Finish, Labels, DoneNamed
  <2>4. CASE Spawn(c)
    BY <1>0, <1>4, <2>1, <2>4 DEF Spawn, Finish, Labels, DoneNamed
  <2>5. CASE ~Poll(c) /\ ~Interrupt(c) /\ ~Spawn(c)
    <3>1. run'[b] = "unborn"
      <4>1. run[b] = "unborn"
        BY <1>0, <1>4, <2>1, <2>5 DEF Labels, AtOK, Step, EnsureProbe, ReadToken, CreateTokenFile, WriteToken, Spawn, WritePid, Poll, StopConnect,
       HandleShutdown, StopGivesUp, StopDone, SleepDone, Boot, TakeShutdown, DrainDone, Exit, Start, Signal, Interrupt,
       Finish, cmdVars, fileVars, history
      <4>2. QED
        BY <2>1, <2>5, <4>1, NewlyBusy
    <3>2. QED
      BY <3>1 DEF DoneNamed
  <2>6. QED
    BY <2>2, <2>3, <2>4, <2>5
<1>5. QED
  BY <1>2, <1>3, <1>4

LEMMA PidInvStep ==
  ASSUME StartupInv, NEW c \in Cmds, Step(c)
  PROVE  PidInv'
BY OneAtATimeStep, StopFacesServerStep, StarterFacesNoneStep, PollNamedStep, DoneNamedStep DEF PidInv
------------------------------------------------------------------------------
(* The theorems *)

LEMMA StartupInit == Init => StartupInv
<1> SUFFICES ASSUME Init PROVE StartupInv
  OBVIOUS
<1>0. MaxFaults \in Nat /\ None # Partial
  BY StartupAssumption, TokenNumbers
<1>1. TypeOK
  <2>a. faults = MaxFaults
    BY DEF Init
  <2>b. faults \in 0..MaxFaults
    BY <1>0, <2>a
  <2>c. raced \in BOOLEAN /\ overlap \in BOOLEAN /\ disturbed \in BOOLEAN
    BY DEF Init
  <2>1. sources \in Sources /\ tokenFile \in Cmds \cup {None, Partial} /\ pidFile \in Cmds \cup {None}
    BY DEF Init
  <2>2. /\ target \in [Cmds -> Cmds \cup {None}] /\ answered \in [Cmds -> Cmds \cup {None}]
        /\ token \in [Cmds -> Cmds \cup Given \cup {None}] /\ tok \in [Cmds -> Cmds \cup Given \cup {None}]
    BY DEF Init
  <2>3. /\ kind \in [Cmds -> {"none", "ensure", "stop", "restart", "daemon"}]
        /\ at \in [Cmds -> {"idle", "probe", "token", "generate", "write", "spawn", "pid", "poll", "stop",
                            "await", "closed", "sleep", "done"}]
        /\ result \in [Cmds -> {"none", "ok", "conflict", "invalid token", "timeout", "not running",
                                "interrupted"}]
        /\ run \in [Cmds -> {"unborn", "booting", "serving", "asked", "draining", "exiting", "hung", "gone"}]
    BY DEF Init
  <2>4. QED
    BY <2>b, <2>c, <2>1, <2>2, <2>3 DEF TypeOK
<1>2. \A c \in Cmds : /\ at[c] = "idle" /\ result[c] = "none" /\ target[c] = None
                      /\ kind[c] = "none" /\ run[c] = "unborn"
  BY DEF Init
<1>3. AtInv /\ BindInv /\ StopInv
  BY <1>2 DEF AtInv, AtOK, TargetOK, BindInv, OneHolder, HolderToken, Holds, StopInv, StopOK, Replaced
<1>4. TokenInv
  BY <1>2 DEF TokenInv, TokenOK, Alone
<1>5. UndisturbedInv
  BY <1>0, <1>2 DEF Init, UndisturbedInv, NobodyLeaves, PartialIsWritten, GoneLostBind, EnsureIdempotent
<1>6. PidInv
  BY <1>2 DEF PidInv, OneAtATime, Active, StopFacesServer, StarterFacesNone, Leading, PollNamed, DoneNamed
<1>7. QED
  BY <1>1, <1>3, <1>4, <1>5, <1>6 DEF StartupInv

LEMMA StartupStep == StartupInv /\ [Next]_vars => StartupInv'
<1> SUFFICES ASSUME StartupInv, [Next]_vars PROVE StartupInv'
  OBVIOUS
<1>1. CASE Next
  <2>1. PICK c \in Cmds : Step(c)
    BY <1>1, NextIsStep
  <2>2. TypeOK' /\ StopInv' /\ TokenInv' /\ PidInv'
    BY <2>1, TypeOKStep, StopInvStep, TokenInvStep, PidInvStep
  <2>3. AtInv'
    BY <2>1, AtOKStep, TargetOKStep DEF AtInv
  <2>4. BindInv'
    BY <2>1, OneHolderStep, HolderTokenStep DEF BindInv
  <2>5. UndisturbedInv'
    BY <2>1, NobodyLeavesStep, PartialIsWrittenStep, GoneLostBindStep, EnsureIdempotentStep DEF UndisturbedInv
  <2>6. QED
    BY <2>2, <2>3, <2>4, <2>5 DEF StartupInv
<1>2. CASE UNCHANGED vars
  <2> USE <1>2 DEF vars
  <2>1. TypeOK'
    BY DEF StartupInv, TypeOK
  <2>2. AtInv' /\ BindInv' /\ StopInv'
    BY DEF StartupInv, AtInv, AtOK, TargetOK, BindInv, OneHolder, HolderToken, Holds, StopInv, StopOK, Replaced
  <2>3. TokenInv'
    BY DEF StartupInv, TokenInv, TokenOK, Alone, Right, FileUser
  <2>4. UndisturbedInv'
    BY DEF StartupInv, UndisturbedInv, NobodyLeaves, PartialIsWritten, GoneLostBind, EnsureIdempotent, FlagsOK
  <2>5. PidInv'
    BY DEF StartupInv, PidInv, OneAtATime, Active, StopFacesServer, StarterFacesNone, Holds, PollNamed, DoneNamed,
         Stoppers
  <2>6. QED
    BY <2>1, <2>2, <2>3, <2>4, <2>5 DEF StartupInv
<1>3. QED
  BY <1>1, <1>2

LEMMA StartupInvariant == Spec => []StartupInv
BY StartupInit, StartupStep, PTL DEF Spec

\* `dbr restart`: a restart that ends well, with a token that the daemon it
\* talked to takes, was answered by another daemon, however many other commands
\* run at the same time and whatever faults they meet.
THEOREM RestartReplacesHolds == Spec => []RestartReplaces
<1>1. StartupInv => RestartReplaces
  BY DEF StartupInv, StopInv, Replaced, RestartReplaces
<1>2. QED
  BY <1>1, StartupInvariant, PTL

\* The token of a daemon that got past the bind, against what resolve_token
\* gives the other programs.
LEMMA AgreementOfHolder ==
  ASSUME StartupInv, ~raced, NEW d \in Cmds, Holds(d), ~EnvOverridden(d)
  PROVE  \A secret \in {None, tokenFile} :
           /\ ContainerToken(sources, secret, tokenFile) = tok[d]
           /\ PasteToken(sources, secret, tokenFile) = tok[d]
           /\ CliToken(sources, tokenFile) = tok[d]
<1>1. IsToken(tok[d]) /\ Right(d, tok[d])
  BY DEF StartupInv, BindInv, HolderToken, TokenInv, TokenOK, Holds
<1>2. sources \in Sources /\ tokenFile \in Cmds \cup {None, Partial}
  BY DEF StartupInv, TypeOK
<1>3. tok[d] # None /\ tok[d] # NoSource
  BY <1>1 DEF IsToken, None, NoSource
<1>4. CASE ~FileUser(d)
  <2>1. FlagGiven(sources) \/ (EnvGiven(sources) /\ kind[d] = "daemon")
    BY <1>4 DEF FileUser
  <2>2. tok[d] = CliToken(sources, tokenFile) /\ tok[d] = ResolveToken(sources, tokenFile)
    BY <1>1, <1>3, <1>4 DEF Right, CliToken
  <2>3. \A x : ResolveToken(sources, x) = tok[d]
    BY <1>2, <2>1, <2>2, ResolveSources
  <2>4. QED
    BY <1>3, <2>1, <2>2, <2>3 DEF ContainerToken, PasteToken
<1>5. CASE FileUser(d) /\ EnvGiven(sources)
  BY <1>5 DEF EnvOverridden, FileUser
<1>6. CASE FileUser(d) /\ ~EnvGiven(sources)
  <2>1. ~FlagGiven(sources) /\ tok[d] = tokenFile /\ tokenFile \in Cmds
    BY <1>1, <1>2, <1>6, TokenNumbers DEF Right, FileUser
  <2>2. ResolveToken(sources, tokenFile) = tok[d]
    BY <1>2, <1>3, <1>6, <2>1, ResolveDefault, ReadTokenFileFacts
  <2>3. ResolveToken(sources, None) = NoSource
    BY <1>6, <2>1, ResolveDefault
  <2>4. WithoutFlags(sources) = sources
    BY <1>2, <2>1, WithoutFlagsIsSame
  <2>5. CliToken(sources, tokenFile) = tok[d]
    BY <1>1, <2>2 DEF CliToken
  <2>6. ASSUME NEW secret \in {None, tokenFile}
        PROVE  /\ ContainerToken(sources, secret, tokenFile) = tok[d]
               /\ PasteToken(sources, secret, tokenFile) = tok[d]
    BY <1>3, <2>2, <2>3, <2>4, <2>5 DEF ContainerToken, PasteToken
  <2>7. QED
    BY <1>6, <2>5, <2>6
<1>7. QED
  BY <1>4, <1>5, <1>6

\* ensure_token, resolve_token and their callers: what a container, `dbr paste`
\* and the commands present is the token of the daemon that holds the port,
\* unless two commands raced in ensure_token.  A daemon that ensure started
\* against a token in the environment is left out: there they disagree.
THEOREM TokenAgreesHolds == Spec => []TokenAgrees
<1>1. StartupInv => TokenAgrees
  BY AgreementOfHolder DEF TokenAgrees, StartupInv
<1>2. QED
  BY <1>1, StartupInvariant, PTL

\* run_ensure: as long as nothing is stopped and the token is not created twice,
\* every ensure succeeds, for any number of them at once.
THEOREM EnsureIdempotentHolds == Spec => []EnsureIdempotent
<1>1. StartupInv => EnsureIdempotent
  BY DEF StartupInv, UndisturbedInv
<1>2. QED
  BY <1>1, StartupInvariant, PTL

\* write_pid_file and remove_pid_file: with one command at a time the file names
\* the daemon that ensure started, as long as it serves.
THEOREM PidFileKeptHolds == Spec => []PidFileKept
<1>1. StartupInv => PidFileKept
  BY DEF StartupInv, PidInv, DoneNamed, Stoppers, PidFileKept
<1>2. QED
  BY <1>1, StartupInvariant, PTL
==============================================================================
