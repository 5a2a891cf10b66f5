---------------------------- MODULE TokenSources ----------------------------
(***************************************************************************)
(* Where each program takes its token from (auth.rs and main.rs).  A token *)
(* is a positive number.  The sources a user sets are a record: flag       *)
(* (--auth-token), flagFile (what --auth-token-file names), env and        *)
(* envFile (DCBRIDGE_AUTH_TOKEN and DCBRIDGE_AUTH_TOKEN_FILE), each Unset  *)
(* or what it holds.                                                       *)
(***************************************************************************)
EXTENDS Integers

None == 0            \* no file (TokenNotFound), no token
Partial == -1        \* text that is not a whole token
Unset == -2          \* an option that is not given, a variable that is unset or empty
NoSource == -3       \* AuthError::NoTokenSource
Invalid == -4        \* AuthError::InvalidToken

\* validate_token_format.
IsToken(t) == t > 0

\* read_token_file.
ReadTokenFile(file) == IF file = None \/ IsToken(file) THEN file ELSE Invalid

FlagGiven(s) == s.flag # Unset \/ s.flagFile # Unset
EnvGiven(s) == s.env # Unset \/ s.envFile # Unset
WithoutFlags(s) == [s EXCEPT !.flag = Unset, !.flagFile = Unset]

\* resolve_token: the first source that is set decides, valid or not.
ResolveToken(s, default) ==
  LET Checked(t) == IF IsToken(t) THEN t ELSE Invalid IN
  CASE s.flag # Unset -> Checked(s.flag)
    [] s.flag = Unset /\ s.flagFile # Unset -> ReadTokenFile(s.flagFile)
    [] ~FlagGiven(s) /\ s.env # Unset -> Checked(s.env)
    [] ~FlagGiven(s) /\ s.env = Unset /\ s.envFile # Unset -> ReadTokenFile(s.envFile)
    [] OTHER -> IF default = None THEN NoSource ELSE ReadTokenFile(default)

\* resolve_cli_auth_token: an error leaves the empty token.
CliToken(s, default) ==
  IF IsToken(ResolveToken(s, default)) THEN ResolveToken(s, default) ELSE None

\* The container daemon: the mounted secret, then the default file; a file that
\* is missing does not stop it, a token that does not parse does.
ContainerToken(s, secret, default) ==
  LET t == ResolveToken(s, secret) IN
  IF t \in {None, NoSource} THEN CliToken(WithoutFlags(s), default) ELSE t

\* dbr paste: the same two files, but any other error is final.
PasteToken(s, secret, default) ==
  LET t == ResolveToken(s, secret) IN
  IF t = NoSource THEN ResolveToken(WithoutFlags(s), default) ELSE t
==============================================================================
