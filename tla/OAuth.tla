------------------------------- MODULE OAuth -------------------------------
(***************************************************************************)
(* From the command line to the credentials of both sides: config.rs,      *)
(* resolve_auth and oauth::obtain_token, over several runs of the program. *)
(* Between them only the keyring persists, if the build has one.           *)
(*                                                                         *)
(*   config - resolve (src) - resolve (dst) - connect                      *)
(*                                                                         *)
(*   resolve: password                                                     *)
(*          | keyring - refresh - persist       a stored token still works *)
(*          | listen - wait - exchange - keep   the browser flow           *)
(*                                                                         *)
(* What is stored, granted or in hand, one thing or nothing, is a set.  An *)
(* operator that no action uses is the one defined after it with a         *)
(* plausible mistake in it.                                                *)
(***************************************************************************)
EXTENDS Naturals, FiniteSets

CONSTANTS
  Accounts,      \* users, and the accounts one can sign in with
  CustomServers, \* authorization servers besides gmail and microsoft
  Commands,      \* command lines, with the environment they are read in
  Stores,        \* keyring back ends a build can have
  Faults,        \* what may go wrong
  MaxRuns,       \* bound: runs of the program
  FaultyRuns     \* bound: the last run in which a fault happens

Sides == {"src", "dst"}
Known == {"gmail", "microsoft"}

\* One side of the command line.  `named': host and user are given and not
\* empty, and every option parses.  `env': the variable that holds the
\* password, or the client secret, is not asked for, not set or set.
\* `client': a client id is given; each server knows the user of this
\* program by one of them.
Inputs ==
  [user     : Accounts,
   named    : BOOLEAN,
   auth     : {"login", "oauth2"},
   env      : {"none", "unset", "set"},
   provider : Known \cup {"none", "custom", "unknown"},
   client   : BOOLEAN,
   url      : CustomServers \cup {"none", "bad"},
   keyring  : BOOLEAN]

AllFaults ==
  {"locked", "offline", "revoke", "local", "deny", "stray", "silent",
   "stranger", "withhold", "crash"}

ASSUME OAuthAssumption ==
  /\ Commands \subseteq [Sides -> Inputs]
  /\ Stores \subseteq {"mock", "platform"}
  /\ Faults \subseteq AllFaults
  /\ MaxRuns \in Nat \ {0} /\ FaultyRuns \in Nat
  /\ CustomServers \cap {"none", "unknown", "bad"} = {}

VARIABLES
  store,   \* the keyring back end of the build
  keyring, \* the refresh token of each entry
  cmd,     \* the command line of this run
  pc, side,
  tok,     \* the refresh token in hand
  grant,   \* the access token in hand
  request, \* what came to the callback port
  creds,   \* the Auth of each side
  exit,
  run

(* History: what the properties compare with.  Nothing else depends on it. *)
VARIABLES
  opened,  \* sides for which this run opened the browser
  granted, \* what the user has consented to, in any run
  clean,   \* nothing has gone wrong in this run
  last     \* the command of the run before, if that one was clean and resolved

history == <<opened, granted, clean, last>>
vars == <<store, keyring, cmd, pc, side, tok, grant, request, creds, exit, run,
          history>>

Servers == Known \cup CustomServers
Grants == [server : Servers, account : Accounts]
\* `live': the server still honours it.
Tokens == [server : Servers, account : Accounts, live : BOOLEAN]
\* Auth::Login and Auth::XOAuth2.
Auths == [method  : {"password", "token"},
          server  : Servers \cup {"none"},
          account : Accounts]
Password(i) == [method |-> "password", server |-> "none", account |-> i.user]
XOAuth2(g) ==
  [method |-> "token", server |-> g.server, account |-> g.account]
Keys == (Known \cup {"custom"}) \X Accounts

faults == IF run <= FaultyRuns THEN Faults ELSE {}

InputOfSource == cmd["src"]
Input == cmd[side]
Server(i) == IF i.provider = "custom" THEN i.url ELSE i.provider
Key(i) == <<i.provider, i.user>>

AtMostOne(S) == {{}} \cup {{x} : x \in S}

OverPc == {"connect", "exited", "stopped"}

TypeOK ==
  /\ store \in Stores
  /\ keyring \in [Keys -> AtMostOne(Tokens)]
  /\ cmd \in Commands
  /\ pc \in {"config", "resolve", "keyring", "refresh", "persist", "listen",
             "wait", "exchange", "keep"} \cup OverPc
  /\ side \in Sides
  /\ tok \in AtMostOne(Tokens)
  /\ grant \in AtMostOne(Grants)
  /\ request \in AtMostOne([code : AtMostOne(Accounts), own : BOOLEAN])
  /\ creds \in [Sides -> AtMostOne(Auths)]
  /\ exit \in {0, 1, 2}
  /\ run \in 1..MaxRuns
  /\ opened \in SUBSET Sides
  /\ granted \in SUBSET Grants
  /\ clean \in BOOLEAN
  /\ last \in AtMostOne(Commands)

Nobody == [s \in Sides |-> {}]

Init ==
  /\ store \in Stores
  /\ keyring = [k \in Keys |-> {}]
  /\ cmd \in Commands
  /\ pc = "config" /\ side = "src"
  /\ tok = {} /\ grant = {} /\ request = {}
  /\ creds = Nobody
  /\ exit = 0
  /\ run = 1
  /\ opened = {} /\ granted = {} /\ clean = TRUE /\ last = {}

-----------------------------------------------------------------------------
(* Steps that several actions share. *)

GoTo(next) ==
  /\ pc' = next
  /\ UNCHANGED <<store, cmd, side, creds, exit, run, opened, granted, last>>

\* Every error of this stage is a Config or an OAuth error, and main has no
\* code of its own for either; 2 is for Settings::from_cli alone.
Code(error) == 1

AbortIgnored(error) ==
  /\ pc' = "connect"
  /\ tok' = {} /\ grant' = {} /\ request' = {}
  /\ UNCHANGED <<store, keyring, cmd, side, creds, exit, run, opened, granted,
                 last>>
Abort(error) ==
  /\ pc' = "exited"
  /\ exit' = Code(error)
  /\ tok' = {} /\ grant' = {} /\ request' = {}
  /\ UNCHANGED <<store, keyring, cmd, side, creds, run, opened, granted, last>>

\* The Auth of this side is ready; the other one, or run_migration, goes on.
Resolved(auth) ==
  /\ creds' = [creds EXCEPT ![side] = {auth}]
  /\ tok' = {} /\ grant' = {} /\ request' = {}
  /\ IF side = "src"
     THEN side' = "dst" /\ pc' = "resolve"
     ELSE side' = side /\ pc' = "connect"
  /\ UNCHANGED <<store, cmd, exit, run, opened, granted, last>>

Happens(fault) == fault \in faults /\ clean' = FALSE
Fine == clean' = clean

-----------------------------------------------------------------------------
(* The command line. *)

\* EndpointInputs::build.
Accepted(i) ==
  /\ i.named
  /\ \/ i.auth = "login" /\ i.env = "set"
     \/ i.auth = "oauth2" /\ i.provider # "none" /\ i.client /\ i.env # "unset"

Configure ==
  /\ pc = "config"
  /\ \/ /\ \A s \in Sides : Accepted(cmd[s])
        /\ GoTo("resolve")
        /\ UNCHANGED <<keyring, tok, grant, request>>
     \/ /\ \E s \in Sides : ~ Accepted(cmd[s])
        /\ pc' = "exited"
        /\ exit' = 2
        /\ UNCHANGED <<store, keyring, cmd, side, tok, grant, request, creds,
                       run, opened, granted, last>>
  /\ Fine

ResolveLogin ==
  /\ pc = "resolve" /\ Input.auth = "login"
  /\ Resolved(Password(Input))
  /\ UNCHANGED keyring
  /\ Fine

FirstTry(i) == IF i.keyring THEN "keyring" ELSE "listen"

\* obtain_token up to its HTTP client.
ObtainToken ==
  \/ Input.url = "bad" /\ Input.provider = "custom" /\ Abort("OAuth") /\ Fine
  \/ /\ Server(Input) \in Servers
     /\ GoTo(FirstTry(Input)) /\ Fine
     /\ UNCHANGED <<keyring, tok, grant, request>>
  \/ Server(Input) \in Servers /\ Abort("OAuth") /\ Happens("local")

\* resolve_auth.  The options of the provider are looked at here, and not with
\* the rest of the command line.
ResolveOAuth ==
  /\ pc = "resolve" /\ Input.auth = "oauth2"
  /\ IF \/ Input.provider = "unknown"
        \/ Input.provider = "custom" /\ Input.url = "none"
     THEN Abort("Config") /\ Fine
     ELSE ObtainToken

-----------------------------------------------------------------------------
(* The refresh token of an earlier run. *)

\* The keyring crate, external: its mock keeps nothing from one Entry to the
\* next, and a locked store fails, to read and to write.
Stored(k) == IF store = "mock" THEN {} ELSE keyring[k]
AddPassword(k, token) ==
  Fine /\ keyring' = [keyring EXCEPT ![k] = @ \cup {token}]
SetPassword(k, token) ==
  \/ /\ Fine
     /\ keyring' = IF store = "mock" THEN keyring
                   ELSE [keyring EXCEPT ![k] = {token}]
  \/ Happens("locked") /\ UNCHANGED keyring

ReadKeyring ==
  /\ pc = "keyring"
  /\ \/ Fine /\ tok' = Stored(Key(Input))
     \/ Happens("locked") /\ tok' = {}
  /\ GoTo(IF tok' = {} THEN "listen" ELSE "refresh")
  /\ UNCHANGED <<keyring, grant, request>>

\* The stored token is of no use any more.
Kill(k) ==
  keyring' = [keyring EXCEPT ![k] = {[t EXCEPT !.live = FALSE] : t \in @}]

\* A server answers with an access token and, if it rotates them, a new refresh
\* token: the stored one is dead from then on, whether or not the answer
\* arrives.  No error of the refresh ends the run.
KeepsOld(t, rotates) == [t EXCEPT !.live = ~ rotates]
NewToken(t, rotates) == t

RefreshErrorAborts == Abort("OAuth")
FallBack == tok' = {} /\ UNCHANGED <<grant, request>> /\ GoTo("listen")

Refresh ==
  /\ pc = "refresh"
  /\ \E t \in tok :
       LET honoured == t.live /\ t.server = Server(Input)
       IN \/ /\ honoured /\ Fine
             /\ \E rotates \in BOOLEAN :
                  /\ IF rotates THEN Kill(Key(Input)) ELSE UNCHANGED keyring
                  /\ tok' = {NewToken(t, rotates)}
             /\ grant' = {[server |-> t.server, account |-> t.account]}
             /\ UNCHANGED request
             /\ GoTo("persist")
          \/ ~ honoured /\ Fine /\ FallBack /\ UNCHANGED keyring
          \/ /\ Happens("offline") /\ FallBack
             /\ UNCHANGED keyring \/ (honoured /\ Kill(Key(Input)))
          \/ Happens("revoke") /\ honoured /\ FallBack /\ Kill(Key(Input))

\* The result of set_password is dropped.
PersistRefreshed ==
  /\ pc = "persist"
  /\ \E t \in tok, g \in grant :
       /\ SetPassword(Key(Input), t)
       /\ Resolved(XOAuth2(g))

-----------------------------------------------------------------------------
(* The browser flow. *)

\* The port is bound and the browser opened, or the URL printed.
Listen ==
  /\ pc = "listen"
  /\ UNCHANGED keyring
  /\ \/ /\ pc' = "wait"
        /\ opened' = opened \cup {side}
        /\ Fine
        /\ UNCHANGED <<store, cmd, side, tok, grant, request, creds, exit, run,
                       granted, last>>
     \/ Abort("OAuth") /\ Happens("local")

\* The user at the browser, or anything else that finds the port: consent, as
\* the user named on the command line or as another; a refusal; a request
\* without a code, or with that of an earlier attempt.
Arrives(r) ==
  /\ pc = "wait" /\ request = {}
  /\ request' = {r}
  /\ UNCHANGED <<store, keyring, cmd, pc, side, tok, grant, creds, exit, run,
                 opened, last>>

Consent(account) ==
  /\ Arrives([code |-> {account}, own |-> TRUE])
  /\ granted' = granted \cup {[server |-> Server(Input), account |-> account]}

Browser ==
  \/ Consent(Input.user) /\ Fine
  \/ \E account \in Accounts \ {Input.user} :
       Consent(account) /\ Happens("stranger")
  \/ /\ \/ Happens("deny") /\ Arrives([code |-> {}, own |-> TRUE])
        \/ /\ Happens("stray")
           /\ \/ Arrives([code |-> {}, own |-> FALSE])
              \/ Arrives([code |-> {Input.user}, own |-> FALSE])
     /\ UNCHANGED granted

\* The first request ends the wait, whatever it is; without one, 300 seconds
\* do.
Receive ==
  /\ pc = "wait"
  /\ \E r \in request :
       IF r.code # {} /\ r.own
       THEN GoTo("exchange") /\ UNCHANGED <<keyring, tok, grant, request>>
       ELSE Abort("OAuth")
  /\ Fine

WaitsOn == FALSE
TimeOut ==
  /\ pc = "wait" /\ request = {}
  /\ Abort("OAuth") /\ Happens("silent")

ExchangeCode ==
  /\ pc = "exchange"
  /\ \/ \E r \in request : \E account \in r.code :
          LET g == [server |-> Server(Input), account |-> account]
          IN /\ grant' = {g}
             /\ \/ Fine /\ tok' = {[server |-> g.server, account |-> account,
                                    live |-> TRUE]}
                \/ Happens("withhold") /\ tok' = {}
             /\ request' = {}
             /\ GoTo("keep") /\ UNCHANGED keyring
     \/ Abort("OAuth") /\ Happens("offline")

KeepToken ==
  /\ pc = "keep"
  /\ \E g \in grant : Resolved(XOAuth2(g))
  /\ IF Input.keyring /\ tok # {}
     THEN \E t \in tok : SetPassword(Key(Input), t)
     ELSE UNCHANGED keyring /\ Fine

-----------------------------------------------------------------------------

Crash ==
  /\ pc \notin OverPc
  /\ Happens("crash")
  /\ pc' = "stopped"
  /\ tok' = {} /\ grant' = {} /\ request' = {}
  /\ UNCHANGED <<store, keyring, cmd, side, creds, exit, run, opened, granted,
                 last>>

\* The user starts the program again, as before or with another command.
Rerun ==
  /\ pc \in OverPc /\ run < MaxRuns
  /\ run' = run + 1
  /\ cmd' \in Commands
  /\ pc' = "config" /\ side' = "src"
  /\ creds' = Nobody
  /\ exit' = 0
  /\ opened' = {} /\ clean' = TRUE
  /\ last' = IF clean /\ pc = "connect" THEN {cmd} ELSE {}
  /\ UNCHANGED <<store, keyring, tok, grant, request, granted>>

Over == pc \in OverPc /\ run = MaxRuns /\ UNCHANGED vars

Step ==
  \/ Configure \/ ResolveLogin \/ ResolveOAuth
  \/ ReadKeyring \/ Refresh \/ PersistRefreshed
  \/ Listen \/ Receive \/ TimeOut \/ ExchangeCode \/ KeepToken

Next == Step \/ Browser \/ Crash \/ Rerun \/ Over

Spec == Init /\ [][Next]_vars

\* The task is polled as long as it can move.  A user who is not `silent'
\* answers the browser; that the program is started again is the premise of
\* Recovers.
FairSpec ==
  /\ Spec
  /\ WF_vars(Step)
  /\ WF_vars(Browser /\ "silent" \notin faults)
  /\ WF_vars(Rerun)

-----------------------------------------------------------------------------
(* What the credentials are worth. *)

Uses(s) == cmd[s].auth = "oauth2" /\ cmd[s].keyring

\* Both sides keep their token under one entry, though their servers differ:
\* all custom providers share the name `custom'.
Collide ==
  /\ \A s \in Sides : Uses(s)
  /\ Key(cmd["src"]) = Key(cmd["dst"])
  /\ Server(cmd["src"]) # Server(cmd["dst"])

\* Each side is given the credentials its own half of the command line names:
\* its password, or a token of its own server for an account that the user
\* consented to there, in this run or, by way of the keyring, in an earlier
\* one.  (EndpointInputs::build for either side, the keyring entry that
\* obtain_token chooses, and the first request on the callback port.)
CredsFit ==
  \A s \in Sides : \A c \in creds[s] :
    IF cmd[s].auth = "login"
    THEN c = Password(cmd[s])
    ELSE /\ c.method = "token"
         /\ c.server = Server(cmd[s])
         /\ [server |-> c.server, account |-> c.account] \in granted

\* The promise of the keyring, in a build that has one: after a run in which
\* nothing went wrong the same command needs no browser, although the refresh
\* token may have been replaced at every use and both sides may share an
\* entry.  Two custom servers under one entry break it.
SecondRunNeedsNoBrowser ==
  /\ store = "platform"
  /\ last = {cmd} /\ clean
  /\ ~ Collide
  => \A s \in opened : ~ Uses(s)

\* Whatever the user and the server do, or fail to do, the stage ends.
FlowEnds == pc \notin OverPc ~> pc \in OverPc

\* Nothing that went wrong in earlier runs, and nothing they left in the
\* keyring, keeps a good command from its credentials.
Resolvable ==
  \A s \in Sides :
    /\ Accepted(cmd[s])
    /\ cmd[s].auth = "login" \/ Server(cmd[s]) \in Servers

Recovers == run > FaultyRuns /\ pc = "config" /\ Resolvable ~> pc = "connect"

-----------------------------------------------------------------------------
(* Migration sees of all this that a side is resolved, or that it is not. *)

Stage ==
  IF pc = "connect" THEN "connect_src"
  ELSE IF pc \in {"config", "exited", "stopped"} THEN pc
  ELSE IF side = "src" THEN "resolve_src" ELSE "resolve_dst"

\* Migration tells the ways out apart by their codes.  Only the way is mapped,
\* not the code that main gives to an error found on it.
Way ==
  IF pc # "exited" THEN 0
  ELSE IF \A s \in Sides : Accepted(cmd[s]) THEN 1 ELSE 2

NoFolders == [f \in {} |-> {}]

M == INSTANCE Migration WITH
       Mailboxes <- {}, Uids <- {}, Bodies <- {}, DryRuns <- {FALSE},
       stage <- Stage, exit <- Way, dry_run <- FALSE, queue <- <<>>, report <- <<>>,
       summary <- FALSE, boxes <- NoFolders, phase <- "idle",
       listed <- {}, left <- {}, strayed <- FALSE, box <- NoFolders,
       stats <- [copied |-> 0, skipped |-> 0, failed |-> 0, would_copy |-> 0],
       wanted <- {}, found <- NoFolders, before <- NoFolders,
       base <- NoFolders

\* Each run goes through the stages of Migration and skips none: it connects
\* only after both sides were resolved, the source first; it gives up over the
\* command line before anything else, and over a side while that side is
\* resolved; and only a new run goes back.
StagesOfMigration == M!Init /\ [][M!Next \/ Rerun]_(M!vars)

-----------------------------------------------------------------------------
(* What the documents say and the program does not do. *)

\* README.md:74: `the refresh token is persisted in your OS keyring so
\* subsequent runs skip the browser'.
SubsequentRunsSkipBrowser ==
  last = {cmd} /\ clean => \A s \in opened : ~ Uses(s)
=============================================================================
