---------------------------- MODULE OAuthProofs ----------------------------
(***************************************************************************)
(* What holds of OAuth for every set of commands, accounts and servers,    *)
(* every combination of faults and any number of runs.                     *)
(***************************************************************************)
EXTENDS OAuth, TLAPS

-----------------------------------------------------------------------------
(* Sets with at most one element. *)

\* Nothing in hand is a possible content.
LEMMA NoneIsOne == ASSUME NEW S PROVE {} \in AtMostOne(S)
BY DEF AtMostOne

\* So is one thing.
LEMMA OneIsOne == ASSUME NEW S, NEW x \in S PROVE {x} \in AtMostOne(S)
BY DEF AtMostOne

\* What is in hand is the only thing in hand, and of the right kind.
LEMMA OnlyOne ==
  ASSUME NEW S, NEW A \in AtMostOne(S), NEW x \in A
  PROVE x \in S /\ A = {x}
BY DEF AtMostOne

\* A server that stops honouring a token leaves its entry as it was.
LEMMA KilledIsOne ==
  ASSUME NEW A \in AtMostOne(Tokens)
  PROVE {[t EXCEPT !.live = FALSE] : t \in A} \in AtMostOne(Tokens)
<1>1. CASE A = {}
  BY <1>1, NoneIsOne
<1>2. CASE A # {}
  <2>1. PICK x \in A : TRUE
    BY <1>2
  <2>2. x \in Tokens /\ A = {x}
    BY <2>1, OnlyOne
  <2>3. [x EXCEPT !.live = FALSE] \in Tokens
    BY <2>2 DEF Tokens
  <2>4. {[t EXCEPT !.live = FALSE] : t \in A} = {[x EXCEPT !.live = FALSE]}
    BY <2>2
  <2>. QED BY <2>3, <2>4, OneIsOne
<1>. QED BY <1>1, <1>2

-----------------------------------------------------------------------------
(* Type correctness. *)

InFlow == pc \in {"keyring", "refresh", "persist", "listen", "wait",
                  "exchange", "keep"}

TypeInv ==
  /\ TypeOK
  /\ pc = "config" => side = "src"
  /\ InFlow => Input.auth = "oauth2" /\ Server(Input) \in Servers

\* A side of a command line has the shape of Inputs.
LEMMA InputType ==
  ASSUME NEW c \in Commands, NEW s \in Sides PROVE c[s] \in Inputs
BY OAuthAssumption

\* A server that can be asked has an entry in the keyring.
LEMMA KeyType ==
  ASSUME NEW i \in Inputs, Server(i) \in Servers PROVE Key(i) \in Keys
<1>1. i.provider \in Known \cup {"none", "custom", "unknown"} /\ i.user \in Accounts
  BY DEF Inputs
<1>2. i.provider \in Known \cup {"custom"}
  BY <1>1, OAuthAssumption DEF Server, Servers, Known
<1>. QED BY <1>1, <1>2 DEF Key, Keys

\* The ways on keep the type of what they set.
LEMMA ResolvedType ==
  ASSUME TypeOK, NEW a \in Auths, Resolved(a)
  PROVE /\ creds' \in [Sides -> AtMostOne(Auths)]
        /\ tok' = {} /\ grant' = {} /\ request' = {}
        /\ pc' \in {"resolve", "connect"}
        /\ side' \in Sides
        /\ UNCHANGED <<store, cmd, exit, run, opened, granted, last>>
<1>1. {a} \in AtMostOne(Auths)
  BY OneIsOne
<1>. QED BY <1>1 DEF TypeOK, Resolved, Sides

\* A token written to an entry is one token.
LEMMA SetPasswordType ==
  ASSUME TypeOK, NEW k \in Keys, NEW t \in Tokens, SetPassword(k, t)
  PROVE keyring' \in [Keys -> AtMostOne(Tokens)] /\ clean' \in BOOLEAN
<1>1. {t} \in AtMostOne(Tokens)
  BY OneIsOne
<1>. QED BY <1>1 DEF TypeOK, SetPassword, Fine, Happens

\* So is one that has died there.
LEMMA KillType ==
  ASSUME TypeOK, NEW k \in Keys, Kill(k)
  PROVE keyring' \in [Keys -> AtMostOne(Tokens)]
<1>1. keyring[k] \in AtMostOne(Tokens)
  BY DEF TypeOK
<1>2. {[t EXCEPT !.live = FALSE] : t \in keyring[k]} \in AtMostOne(Tokens)
  BY <1>1, KilledIsOne
<1>. QED BY <1>2 DEF TypeOK, Kill

\* While the command and the side stay, so does what they ask for.
LEMMA SameInput ==
  ASSUME UNCHANGED <<cmd, side>>
  PROVE Input' = Input /\ Server(Input)' = Server(Input)
BY DEF Input, Server

\* What the type invariant says of the side in hand.
LEMMA FlowType ==
  ASSUME TypeInv, InFlow
  PROVE /\ Input \in Inputs /\ Input.user \in Accounts
        /\ Server(Input) \in Servers
        /\ Key(Input) \in Keys
<1>1. Input \in Inputs
  BY InputType DEF TypeInv, TypeOK, Input
<1>. QED BY <1>1, KeyType DEF TypeInv, Inputs

\* An end of the stage that drops everything in hand.
LEMMA AbortType ==
  ASSUME TypeInv, NEW error, Abort(error), clean' \in BOOLEAN
  PROVE TypeInv'
<1>1. {} \in AtMostOne(Tokens) /\ {} \in AtMostOne(Grants)
      /\ {} \in AtMostOne([code : AtMostOne(Accounts), own : BOOLEAN])
  BY NoneIsOne
<1>. QED BY <1>1 DEF TypeInv, TypeOK, Abort, Code, InFlow, OverPc

\* A side that is resolved.
LEMMA DoneType ==
  ASSUME TypeInv, NEW a \in Auths, Resolved(a), clean' \in BOOLEAN,
         keyring' \in [Keys -> AtMostOne(Tokens)]
  PROVE TypeInv'
<1>1. {} \in AtMostOne(Tokens) /\ {} \in AtMostOne(Grants)
      /\ {} \in AtMostOne([code : AtMostOne(Accounts), own : BOOLEAN])
  BY NoneIsOne
<1>2. TypeOK
  BY DEF TypeInv
<1>. QED BY <1>1, <1>2, ResolvedType DEF TypeInv, TypeOK, InFlow, OverPc

\* What can happen at the browser: a consent, or a request that is none.
LEMMA BrowserShape ==
  ASSUME TypeInv, Browser
  PROVE /\ Input.user \in Accounts
        /\ clean' \in BOOLEAN
        /\ \/ \E a \in Accounts : Consent(a)
           \/ /\ UNCHANGED granted
              /\ \E c \in {{}, {Input.user}}, own \in BOOLEAN :
                   /\ c # {} => ~ own
                   /\ Arrives([code |-> c, own |-> own])
<1>1. Input.user \in Accounts
  BY FlowType DEF Browser, Consent, Arrives, InFlow
<1>2. clean' \in BOOLEAN
  BY DEF Browser, Fine, Happens, TypeInv, TypeOK
<1>3. CASE Consent(Input.user) \/ \E a \in Accounts : Consent(a)
  BY <1>1, <1>2, <1>3
<1>4. CASE /\ UNCHANGED granted
           /\ \/ Arrives([code |-> {}, own |-> TRUE])
              \/ Arrives([code |-> {}, own |-> FALSE])
              \/ Arrives([code |-> {Input.user}, own |-> FALSE])
  <2>1. CASE Arrives([code |-> {}, own |-> TRUE])
    BY <1>1, <1>2, <1>4, <2>1
  <2>2. CASE Arrives([code |-> {}, own |-> FALSE])
    BY <1>1, <1>2, <1>4, <2>2
  <2>3. CASE Arrives([code |-> {Input.user}, own |-> FALSE])
    <3>1. {Input.user} # {} => ~ FALSE
      OBVIOUS
    <3>. QED BY <1>1, <1>2, <1>4, <2>3, <3>1
  <2>. QED BY <1>4, <2>1, <2>2, <2>3
<1>. QED BY <1>3, <1>4 DEF Browser

\* The initial states have the type.
LEMMA TypeInit == Init => TypeInv
<1>. SUFFICES ASSUME Init PROVE TypeInv
  OBVIOUS
<1>1. {} \in AtMostOne(Tokens) /\ {} \in AtMostOne(Grants)
      /\ {} \in AtMostOne([code : AtMostOne(Accounts), own : BOOLEAN])
      /\ {} \in AtMostOne(Auths) /\ {} \in AtMostOne(Commands)
  BY NoneIsOne
<1>2. 1 \in 1..MaxRuns
  BY OAuthAssumption
<1>. QED BY <1>1, <1>2 DEF Init, TypeInv, TypeOK, InFlow, OverPc, Nobody, Sides

\* Every step keeps it.
LEMMA TypeNext == TypeInv /\ [Next]_vars => TypeInv'
<1>. SUFFICES ASSUME TypeInv, [Next]_vars PROVE TypeInv'
  OBVIOUS
<1>. USE DEF Fine, Happens
<1>n. /\ {} \in AtMostOne(Tokens) /\ {} \in AtMostOne(Grants)
      /\ {} \in AtMostOne([code : AtMostOne(Accounts), own : BOOLEAN])
      /\ {} \in AtMostOne(Auths) /\ {} \in AtMostOne(Commands)
  BY NoneIsOne
<1>1. CASE Configure
  <2>1. CASE GoTo("resolve") /\ UNCHANGED <<keyring, tok, grant, request>>
    BY <1>1, <2>1 DEF Configure, GoTo, TypeInv, TypeOK, InFlow, OverPc
  <2>2. CASE pc' = "exited" /\ exit' = 2
             /\ UNCHANGED <<store, keyring, cmd, side, tok, grant, request,
                            creds, run, opened, granted, last>>
    BY <1>1, <2>2 DEF Configure, TypeInv, TypeOK, InFlow, OverPc
  <2>. QED BY <1>1, <2>1, <2>2 DEF Configure
<1>2. CASE ResolveLogin
  <2>1. Password(Input) \in Auths
    <3>1. Input \in Inputs
      BY InputType DEF TypeInv, TypeOK, Input
    <3>. QED BY <3>1 DEF Password, Auths, Inputs
  <2>2. keyring' \in [Keys -> AtMostOne(Tokens)] /\ clean' \in BOOLEAN
    BY <1>2 DEF ResolveLogin, TypeInv, TypeOK
  <2>. QED BY <1>2, <2>1, <2>2, DoneType DEF ResolveLogin
<1>3. CASE ResolveOAuth
  <2>0. clean' \in BOOLEAN
    BY <1>3 DEF ResolveOAuth, ObtainToken, TypeInv, TypeOK
  <2>1. CASE \E error \in {"Config", "OAuth"} : Abort(error)
    BY <2>0, <2>1, AbortType
  <2>2. CASE /\ Server(Input) \in Servers
             /\ GoTo(FirstTry(Input))
             /\ UNCHANGED <<keyring, tok, grant, request>>
    <3>1. Input' = Input /\ Server(Input)' = Server(Input)
      BY <2>2, SameInput DEF GoTo
    <3>2. Input.auth = "oauth2"
      BY <1>3 DEF ResolveOAuth, ObtainToken
    <3>3. pc' \in {"keyring", "listen"}
      BY <2>2 DEF GoTo, FirstTry
    <3>. QED BY <2>0, <2>2, <3>1, <3>2, <3>3
         DEF GoTo, TypeInv, TypeOK, InFlow, OverPc
  <2>. QED BY <1>3, <2>1, <2>2 DEF ResolveOAuth, ObtainToken
<1>4. CASE ReadKeyring
  <2>1. InFlow
    BY <1>4 DEF ReadKeyring, InFlow
  <2>2. Stored(Key(Input)) \in AtMostOne(Tokens)
    BY <1>n, <2>1, FlowType DEF Stored, TypeInv, TypeOK
  <2>3. tok' \in AtMostOne(Tokens) /\ clean' \in BOOLEAN
    BY <1>4, <1>n, <2>2 DEF ReadKeyring, TypeInv, TypeOK
  <2>4. Input' = Input /\ Server(Input)' = Server(Input)
    BY <1>4, SameInput DEF ReadKeyring, GoTo
  <2>5. pc' \in {"listen", "refresh"}
    BY <1>4 DEF ReadKeyring, GoTo
  <2>. QED BY <1>4, <2>1, <2>3, <2>4, <2>5
       DEF ReadKeyring, GoTo, TypeInv, TypeOK, InFlow, OverPc
<1>5. CASE Refresh
  <2>1. InFlow
    BY <1>5 DEF Refresh, InFlow
  <2>2. Input' = Input /\ Server(Input)' = Server(Input)
    BY <1>5, SameInput DEF Refresh, GoTo, FallBack
  <2>3. tok \in AtMostOne(Tokens) /\ TypeOK
    BY DEF TypeInv, TypeOK
  <2>4. /\ keyring' = keyring \/ Kill(Key(Input))
        /\ pc' \in {"persist", "listen"}
        /\ UNCHANGED <<store, cmd, side, request, creds, exit, run, opened,
                       granted, last>>
        /\ clean' \in BOOLEAN
    BY <1>5, <2>3 DEF Refresh, GoTo, FallBack, TypeOK
  <2>5. tok' \in AtMostOne(Tokens) /\ grant' \in AtMostOne(Grants)
    <3>1. CASE tok' = {} /\ UNCHANGED grant
      BY <3>1, <1>n, <2>3 DEF TypeOK
    <3>2. CASE \E t \in tok :
                 /\ tok' = {t}
                 /\ grant' = {[server |-> t.server, account |-> t.account]}
      <4>1. PICK t \in tok :
              /\ tok' = {t}
              /\ grant' = {[server |-> t.server, account |-> t.account]}
        BY <3>2
      <4>2. t \in Tokens
        BY <2>3, OnlyOne
      <4>3. [server |-> t.server, account |-> t.account] \in Grants
        BY <4>2 DEF Tokens, Grants
      <4>. QED BY <4>1, <4>2, <4>3, OneIsOne
    <3>. QED BY <1>5, <3>1, <3>2 DEF Refresh, FallBack, NewToken
  <2>6. keyring' \in [Keys -> AtMostOne(Tokens)]
    BY <2>1, <2>3, <2>4, KillType, FlowType DEF TypeOK
  <2>. QED BY <2>1, <2>2, <2>3, <2>4, <2>5, <2>6 DEF TypeInv, TypeOK, InFlow, OverPc
<1>6. CASE PersistRefreshed
  <2>1. InFlow /\ TypeOK
    BY <1>6 DEF PersistRefreshed, InFlow, TypeInv
  <2>2. PICK t \in tok, g \in grant :
          SetPassword(Key(Input), t) /\ Resolved(XOAuth2(g))
    BY <1>6 DEF PersistRefreshed
  <2>3. t \in Tokens /\ g \in Grants
    BY <2>1, OnlyOne DEF TypeOK
  <2>4. XOAuth2(g) \in Auths
    BY <2>3 DEF XOAuth2, Auths, Grants
  <2>5. keyring' \in [Keys -> AtMostOne(Tokens)] /\ clean' \in BOOLEAN
    BY <2>1, <2>2, <2>3, SetPasswordType, FlowType
  <2>. QED BY <2>2, <2>4, <2>5, DoneType
<1>7. CASE Listen
  <2>1. clean' \in BOOLEAN
    BY <1>7 DEF Listen, TypeInv, TypeOK
  <2>2. CASE Abort("OAuth")
    BY <2>1, <2>2, AbortType
  <2>3. CASE pc' = "wait"
    <3>1. InFlow
      BY <1>7 DEF Listen, InFlow
    <3>2. UNCHANGED <<store, keyring, cmd, side, tok, grant, request, creds,
                      exit, run, granted, last>>
          /\ opened' = opened \cup {side}
      BY <1>7, <2>3 DEF Listen, Abort
    <3>3. Input' = Input /\ Server(Input)' = Server(Input)
      BY <3>2, SameInput
    <3>. QED BY <2>1, <2>3, <3>1, <3>2, <3>3
         DEF TypeInv, TypeOK, InFlow, OverPc
  <2>. QED BY <1>7, <2>2, <2>3 DEF Listen
<1>8. CASE Receive
  <2>1. clean' \in BOOLEAN
    BY <1>8 DEF Receive, TypeInv, TypeOK
  <2>2. CASE Abort("OAuth")
    BY <2>1, <2>2, AbortType
  <2>3. CASE GoTo("exchange") /\ UNCHANGED <<keyring, tok, grant, request>>
    <3>1. InFlow
      BY <1>8 DEF Receive, InFlow
    <3>2. Input' = Input /\ Server(Input)' = Server(Input)
      BY <2>3, SameInput DEF GoTo
    <3>. QED BY <2>1, <2>3, <3>1, <3>2 DEF GoTo, TypeInv, TypeOK, InFlow, OverPc
  <2>. QED BY <1>8, <2>2, <2>3 DEF Receive
<1>9. CASE TimeOut
  BY <1>9, AbortType DEF TimeOut
<1>10. CASE ExchangeCode
  <2>1. clean' \in BOOLEAN
    BY <1>10 DEF ExchangeCode, TypeInv, TypeOK
  <2>2. CASE Abort("OAuth")
    BY <2>1, <2>2, AbortType
  <2>3. CASE ~ Abort("OAuth")
    <3>1. InFlow /\ TypeOK
      BY <1>10 DEF ExchangeCode, InFlow, TypeInv
    <3> DEFINE g(a) == [server |-> Server(Input), account |-> a]
               token(a) == [server |-> Server(Input), account |-> a,
                            live |-> TRUE]
               Granted(a) == /\ grant' = {g(a)}
                             /\ tok' = {token(a)} \/ tok' = {}
                             /\ request' = {}
                             /\ GoTo("keep") /\ UNCHANGED keyring
    <3>a. PICK r \in request : \E a \in r.code : Granted(a)
      BY <1>10, <2>3 DEF ExchangeCode
    <3>2. PICK account \in r.code : Granted(account)
      BY <3>a
    <3>b. r \in [code : AtMostOne(Accounts), own : BOOLEAN]
      <4>1. request \in AtMostOne([code : AtMostOne(Accounts), own : BOOLEAN])
        BY <3>1 DEF TypeOK
      <4>. QED BY <4>1, OnlyOne
    <3>3. r.code \in AtMostOne(Accounts)
      BY <3>b
    <3>4. account \in Accounts /\ Server(Input) \in Servers
      BY <3>1, <3>3, OnlyOne, FlowType
    <3>5. grant' \in AtMostOne(Grants)
      BY <3>2, <3>4, OneIsOne DEF Grants
    <3>6. tok' \in AtMostOne(Tokens)
      BY <1>n, <3>2, <3>4, OneIsOne DEF Tokens
    <3>7. Input' = Input /\ Server(Input)' = Server(Input)
      BY <3>2, SameInput DEF GoTo
    <3>. QED BY <1>n, <2>1, <3>1, <3>2, <3>5, <3>6, <3>7
         DEF GoTo, TypeInv, TypeOK, InFlow, OverPc
  <2>. QED BY <2>2, <2>3
<1>11. CASE KeepToken
  <2>1. InFlow /\ TypeOK
    BY <1>11 DEF KeepToken, InFlow, TypeInv
  <2>2. PICK g \in grant : Resolved(XOAuth2(g))
    BY <1>11 DEF KeepToken
  <2>3. g \in Grants
    BY <2>1, OnlyOne DEF TypeOK
  <2>4. XOAuth2(g) \in Auths
    BY <2>3 DEF XOAuth2, Auths, Grants
  <2>5. keyring' \in [Keys -> AtMostOne(Tokens)] /\ clean' \in BOOLEAN
    <3>1. CASE UNCHANGED <<keyring, clean>>
      BY <3>1, <2>1 DEF TypeOK
    <3>2. CASE \E t \in tok : SetPassword(Key(Input), t)
      <4>1. PICK t \in tok : SetPassword(Key(Input), t)
        BY <3>2
      <4>2. t \in Tokens
        BY <2>1, OnlyOne DEF TypeOK
      <4>. QED BY <2>1, <4>1, <4>2, SetPasswordType, FlowType
    <3>. QED BY <1>11, <3>1, <3>2 DEF KeepToken
  <2>. QED BY <2>2, <2>4, <2>5, DoneType
<1>12. CASE Browser
  <2>1. PICK r : Arrives(r) /\ r \in [code : AtMostOne(Accounts), own : BOOLEAN]
    <3>1. CASE \E a \in Accounts : Consent(a)
      <4>1. PICK a \in Accounts : Consent(a)
        BY <3>1
      <4>2. {a} \in AtMostOne(Accounts)
        BY OneIsOne
      <4>3. Arrives([code |-> {a}, own |-> TRUE])
        BY <4>1 DEF Consent
      <4>4. [code |-> {a}, own |-> TRUE] \in [code : AtMostOne(Accounts), own : BOOLEAN]
        BY <4>2
      <4>. QED BY <4>3, <4>4, Zenon
    <3>2. CASE \E c \in {{}, {Input.user}}, own \in BOOLEAN :
                 Arrives([code |-> c, own |-> own])
      <4>1. PICK c \in {{}, {Input.user}}, own \in BOOLEAN :
              Arrives([code |-> c, own |-> own])
        BY <3>2
      <4>2. c \in AtMostOne(Accounts)
        BY <1>12, BrowserShape, NoneIsOne, OneIsOne
      <4>. QED BY <4>1, <4>2
    <3>. QED BY <1>12, <3>1, <3>2, BrowserShape
  <2>2. InFlow
    BY <2>1 DEF Arrives, InFlow
  <2>3. Input' = Input /\ Server(Input)' = Server(Input)
    BY <2>1, SameInput DEF Arrives
  <2>4. granted' \in SUBSET Grants /\ clean' \in BOOLEAN
    <3>1. Server(Input) \in Servers /\ granted \in SUBSET Grants
      BY <2>2, FlowType DEF TypeInv, TypeOK
    <3>2. \A a \in Accounts :
            [server |-> Server(Input), account |-> a] \in Grants
      BY <3>1 DEF Grants
    <3>. QED BY <1>12, <3>1, <3>2, BrowserShape DEF Consent
  <2>5. request' \in AtMostOne([code : AtMostOne(Accounts), own : BOOLEAN])
    BY <2>1, OneIsOne DEF Arrives
  <2>. QED BY <2>1, <2>2, <2>3, <2>4, <2>5 DEF Arrives, TypeInv, TypeOK, InFlow, OverPc
<1>13. CASE Crash
  BY <1>n, <1>13 DEF Crash, TypeInv, TypeOK, InFlow, OverPc
<1>14. CASE Rerun
  <2>1. run' \in 1..MaxRuns
    BY <1>14, OAuthAssumption DEF Rerun, TypeInv, TypeOK
  <2>2. creds' \in [Sides -> AtMostOne(Auths)]
    BY <1>n, <1>14 DEF Rerun, Nobody
  <2>3. last' \in AtMostOne(Commands)
    BY <1>n, <1>14, OneIsOne DEF Rerun, TypeInv, TypeOK
  <2>. QED BY <1>14, <2>1, <2>2, <2>3 DEF Rerun, TypeInv, TypeOK, InFlow, OverPc, Sides
<1>15. CASE UNCHANGED vars
  BY <1>15, SameInput DEF vars, history, TypeInv, TypeOK, InFlow
<1>. QED
  BY <1>1, <1>2, <1>3, <1>4, <1>5, <1>6, <1>7, <1>8, <1>9, <1>10, <1>11,
     <1>12, <1>13, <1>14, <1>15 DEF Next, Step, Over

\* Every variable keeps its type: no entry of the keyring and no hand ever
\* holds two things.  (obtain_token and what it passes on.)
THEOREM TypeCorrect == Spec => []TypeOK
<1>1. TypeInv => TypeOK
  BY DEF TypeInv
<1>. QED BY <1>1, TypeInit, TypeNext, PTL DEF Spec

-----------------------------------------------------------------------------
(* Whose credentials they are. *)

Backed(t) == [server |-> t.server, account |-> t.account] \in granted

FitInv ==
  /\ TypeInv
  /\ CredsFit
  /\ \A k \in Keys : \A t \in keyring[k] : Backed(t)
  /\ \A t \in tok : Backed(t)
  /\ \A g \in grant : g \in granted /\ g.server = Server(Input)
  /\ \A r \in request : r.own =>
       \A a \in r.code : [server |-> Server(Input), account |-> a] \in granted
  /\ pc = "exchange" => \A r \in request : r.own
  /\ ~ InFlow => tok = {} /\ grant = {} /\ request = {}

\* A side that gets what is its own leaves both sides with their own.
LEMMA FitResolved ==
  ASSUME FitInv, NEW a \in Auths, Resolved(a),
         IF Input.auth = "login" THEN a = Password(Input)
         ELSE /\ a.method = "token" /\ a.server = Server(Input)
              /\ [server |-> a.server, account |-> a.account] \in granted,
         \A k \in Keys : \A t \in keyring'[k] : Backed(t),
         TypeInv'
  PROVE FitInv'
<1>1. /\ cmd' = cmd /\ granted' = granted
      /\ creds' = [creds EXCEPT ![side] = {a}]
      /\ tok' = {} /\ grant' = {} /\ request' = {}
  BY DEF Resolved
<1>2. CredsFit'
  <2>1. side \in Sides /\ DOMAIN creds = Sides
    BY DEF FitInv, TypeInv, TypeOK
  <2>2. ASSUME NEW s \in Sides, NEW c \in creds'[s]
        PROVE IF cmd[s].auth = "login" THEN c = Password(cmd[s])
              ELSE /\ c.method = "token" /\ c.server = Server(cmd[s])
                   /\ [server |-> c.server, account |-> c.account] \in granted
    <3>1. CASE s = side
      BY <1>1, <2>1, <2>2, <3>1 DEF Input
    <3>2. CASE s # side
      BY <1>1, <2>1, <2>2, <3>2 DEF FitInv, CredsFit
    <3>. QED BY <3>1, <3>2
  <2>. QED BY <1>1, <2>2 DEF CredsFit
<1>. QED BY <1>1, <1>2 DEF FitInv, Backed

\* So it is with the access token in hand.
LEMMA FitOwn ==
  ASSUME FitInv, InFlow, NEW g \in grant, g \in Grants, Resolved(XOAuth2(g)),
         \A k \in Keys : \A t \in keyring'[k] : Backed(t),
         TypeInv'
  PROVE FitInv'
<1>1. g \in granted /\ g.server = Server(Input) /\ Input.auth # "login"
  BY DEF FitInv, TypeInv
<1>2. XOAuth2(g) \in Auths
  BY DEF XOAuth2, Auths, Grants
<1>3. /\ XOAuth2(g).method = "token" /\ XOAuth2(g).server = g.server
      /\ XOAuth2(g).account = g.account
      /\ [server |-> g.server, account |-> g.account] = g
  BY DEF XOAuth2, Grants
<1>. QED BY <1>1, <1>2, <1>3, FitResolved

\* While the credentials stay, a consent more does not harm them.
LEMMA FitStays ==
  ASSUME FitInv, UNCHANGED <<cmd, creds>>, granted \subseteq granted'
  PROVE CredsFit'
<1>1. CredsFit
  BY DEF FitInv
<1>. QED BY <1>1 DEF CredsFit

\* What is written to the keyring is backed by a consent.
LEMMA FitWritten ==
  ASSUME FitInv, NEW k \in Keys, NEW t \in Tokens, Backed(t), SetPassword(k, t)
  PROVE \A l \in Keys : \A u \in keyring'[l] : Backed(u)
BY DEF FitInv, TypeInv, TypeOK, SetPassword

\* A token that dies was backed before.
LEMMA FitKilled ==
  ASSUME FitInv, NEW k \in Keys, Kill(k)
  PROVE \A l \in Keys : \A u \in keyring'[l] : Backed(u)
<1>1. DOMAIN keyring = Keys /\ keyring[k] \in AtMostOne(Tokens)
  BY DEF FitInv, TypeInv, TypeOK
<1>2. ASSUME NEW u \in keyring'[k] PROVE Backed(u)
  <2>1. PICK t \in keyring[k] : u = [t EXCEPT !.live = FALSE]
    BY <1>1, <1>2 DEF Kill
  <2>2. t \in Tokens
    BY <1>1, OnlyOne
  <2>3. u.server = t.server /\ u.account = t.account
    BY <2>1, <2>2 DEF Tokens
  <2>. QED BY <2>3 DEF FitInv, Backed
<1>3. ASSUME NEW l \in Keys, l # k PROVE keyring'[l] = keyring[l]
  BY <1>1, <1>3 DEF Kill
<1>. QED BY <1>2, <1>3 DEF FitInv

\* At the start nobody has anything.
LEMMA FitInit == Init => FitInv
BY TypeInit DEF Init, FitInv, CredsFit, Nobody, InFlow

\* Every step keeps what is in hand, stored or resolved backed by a consent.
LEMMA FitNext == FitInv /\ [Next]_vars => FitInv'
<1>. SUFFICES ASSUME FitInv, [Next]_vars PROVE FitInv'
  OBVIOUS
<1>t. TypeInv /\ TypeInv' /\ TypeOK /\ CredsFit
  BY TypeNext DEF FitInv, TypeInv
<1>a. ASSUME NEW error, Abort(error) PROVE FitInv'
  BY <1>t, <1>a, FitStays DEF FitInv, Abort, Backed, InFlow
<1>1. CASE Configure
  BY <1>1, <1>t, FitStays DEF Configure, GoTo, FitInv, Backed, InFlow
<1>2. CASE ResolveLogin
  <2>1. Password(Input) \in Auths
    <3>1. Input \in Inputs
      BY <1>t, InputType DEF TypeOK, Input
    <3>. QED BY <3>1 DEF Password, Auths, Inputs
  <2>2. \A k \in Keys : \A t \in keyring'[k] : Backed(t)
    BY <1>2 DEF ResolveLogin, FitInv
  <2>. QED BY <1>2, <1>t, <2>1, <2>2, FitResolved DEF ResolveLogin
<1>3. CASE ResolveOAuth
  <2>1. CASE \E error \in {"Config", "OAuth"} : Abort(error)
    BY <2>1, <1>a
  <2>2. CASE pc = "resolve" /\ GoTo(FirstTry(Input))
             /\ UNCHANGED <<keyring, tok, grant, request>>
    BY <2>2, <1>t, FitStays DEF GoTo, FitInv, Backed, InFlow
  <2>. QED BY <1>3, <2>1, <2>2 DEF ResolveOAuth, ObtainToken
<1>4. CASE ReadKeyring
  <2>1. Key(Input) \in Keys
    BY <1>4, <1>t, FlowType DEF ReadKeyring, InFlow
  <2>2. /\ UNCHANGED <<keyring, cmd, side, creds, granted, grant, request>>
        /\ \A t \in tok' : t \in keyring[Key(Input)]
    BY <1>4 DEF ReadKeyring, GoTo, Stored
  <2>3. pc' \in {"listen", "refresh"}
    BY <1>4 DEF ReadKeyring, GoTo
  <2>4. Input' = Input /\ Server(Input)' = Server(Input)
    BY <2>2, SameInput
  <2>. QED BY <1>t, <2>1, <2>2, <2>3, <2>4, FitStays DEF FitInv, Backed, InFlow
<1>5. CASE Refresh
  <2>1. Key(Input) \in Keys /\ tok \in AtMostOne(Tokens)
    BY <1>5, <1>t, FlowType DEF Refresh, InFlow, TypeOK
  <2>2. /\ UNCHANGED <<cmd, side, creds, granted, request>>
        /\ keyring' = keyring \/ Kill(Key(Input))
        /\ pc' \in {"persist", "listen"}
    BY <1>5 DEF Refresh, GoTo, FallBack
  <2>3. \/ tok' = {} /\ UNCHANGED grant
        \/ \E t \in tok :
             /\ t.server = Server(Input)
             /\ tok' = {t}
             /\ grant' = {[server |-> t.server, account |-> t.account]}
    BY <1>5 DEF Refresh, FallBack, NewToken
  <2>4. Input' = Input /\ Server(Input)' = Server(Input)
    BY <2>2, SameInput
  <2>5. \A k \in Keys : \A t \in keyring'[k] : Backed(t)
    BY <2>1, <2>2, FitKilled DEF FitInv
  <2>6. \A t \in tok' : Backed(t)
    BY <2>3 DEF FitInv
  <2>7. \A g \in grant' : g \in granted /\ g.server = Server(Input)
    BY <2>3 DEF FitInv, Backed
  <2>. QED BY <1>t, <2>2, <2>4, <2>5, <2>6, <2>7, FitStays DEF FitInv, Backed, InFlow
<1>6. CASE PersistRefreshed
  <2>1. InFlow
    BY <1>6 DEF PersistRefreshed, InFlow
  <2>2. PICK t \in tok, g \in grant :
          SetPassword(Key(Input), t) /\ Resolved(XOAuth2(g))
    BY <1>6 DEF PersistRefreshed
  <2>3. t \in Tokens /\ g \in Grants
    BY <1>t, OnlyOne DEF TypeOK
  <2>4. \A k \in Keys : \A u \in keyring'[k] : Backed(u)
    BY <1>t, <2>1, <2>2, <2>3, FlowType, FitWritten DEF FitInv
  <2>. QED BY <1>t, <2>1, <2>2, <2>3, <2>4, FitOwn
<1>7. CASE Listen
  <2>1. CASE Abort("OAuth")
    BY <2>1, <1>a
  <2>2. CASE UNCHANGED <<keyring, cmd, side, creds, granted, tok, grant, request>>
             /\ pc' = "wait"
    <3>1. Input' = Input /\ Server(Input)' = Server(Input)
      BY <2>2, SameInput
    <3>. QED BY <1>t, <2>2, <3>1, FitStays DEF FitInv, Backed, InFlow
  <2>. QED BY <1>7, <2>1, <2>2 DEF Listen
<1>8. CASE Receive
  <2>1. CASE Abort("OAuth")
    BY <2>1, <1>a
  <2>2. CASE GoTo("exchange") /\ UNCHANGED <<keyring, tok, grant, request>>
    <3>1. Input' = Input /\ Server(Input)' = Server(Input)
      BY <2>2, SameInput DEF GoTo
    <3>2. \A r \in request : r.own
      <4>1. PICK r \in request : r.own
        BY <1>8, <2>2 DEF Receive, Abort, GoTo
      <4>2. request \in AtMostOne([code : AtMostOne(Accounts), own : BOOLEAN])
        BY <1>t DEF TypeOK
      <4>3. request = {r}
        BY <4>1, <4>2, OnlyOne
      <4>. QED BY <4>1, <4>3
    <3>. QED BY <1>t, <2>2, <3>1, <3>2, FitStays DEF GoTo, FitInv, Backed, InFlow
  <2>. QED BY <1>8, <2>1, <2>2 DEF Receive
<1>9. CASE TimeOut
  BY <1>9, <1>a DEF TimeOut
<1>10. CASE ExchangeCode
  <2>1. CASE Abort("OAuth")
    BY <2>1, <1>a
  <2>2. CASE ~ Abort("OAuth")
    <3> DEFINE g(a) == [server |-> Server(Input), account |-> a]
    <3>1. PICK r \in request : \E a \in r.code :
            /\ grant' = {g(a)}
            /\ \/ tok' = {[server |-> Server(Input), account |-> a,
                            live |-> TRUE]}
               \/ tok' = {}
            /\ request' = {}
            /\ GoTo("keep") /\ UNCHANGED keyring
      BY <1>10, <2>2 DEF ExchangeCode
    <3>2. PICK a \in r.code :
            /\ grant' = {g(a)}
            /\ \/ tok' = {[server |-> Server(Input), account |-> a,
                            live |-> TRUE]}
               \/ tok' = {}
            /\ request' = {}
            /\ GoTo("keep") /\ UNCHANGED keyring
      BY <3>1
    <3>3. r.own
      BY <1>10 DEF ExchangeCode, FitInv
    <3>4. g(a) \in granted
      BY <3>3 DEF FitInv
    <3>5. Input' = Input /\ Server(Input)' = Server(Input)
      BY <3>2, SameInput DEF GoTo
    <3>. QED BY <1>t, <3>2, <3>4, <3>5, FitStays DEF GoTo, FitInv, Backed, InFlow
  <2>. QED BY <2>1, <2>2
<1>11. CASE KeepToken
  <2>1. InFlow
    BY <1>11 DEF KeepToken, InFlow
  <2>2. PICK g \in grant : Resolved(XOAuth2(g))
    BY <1>11 DEF KeepToken
  <2>3. g \in Grants /\ \A t \in tok : t \in Tokens
    BY <1>t, OnlyOne DEF TypeOK
  <2>4. \A k \in Keys : \A u \in keyring'[k] : Backed(u)
    <3>1. CASE UNCHANGED keyring
      BY <3>1 DEF FitInv
    <3>2. CASE \E t \in tok : SetPassword(Key(Input), t)
      BY <1>t, <2>1, <2>3, <3>2, FlowType, FitWritten DEF FitInv
    <3>. QED BY <1>11, <3>1, <3>2 DEF KeepToken
  <2>. QED BY <1>t, <2>1, <2>2, <2>3, <2>4, FitOwn
<1>12. CASE Browser
  <2>1. UNCHANGED <<keyring, cmd, pc, side, creds, tok, grant>> /\ pc = "wait"
    BY <1>12 DEF Browser, Consent, Arrives
  <2>2. Input' = Input /\ Server(Input)' = Server(Input)
    BY <2>1, SameInput
  <2>3. granted \subseteq granted'
    BY <1>12 DEF Browser, Consent
  <2>4. \A r \in request' : r.own => \A a \in r.code :
          [server |-> Server(Input), account |-> a] \in granted'
    <3>1. CASE \E a \in Accounts : Consent(a)
      BY <3>1 DEF Consent, Arrives
    <3>2. CASE \E c \in {{}, {Input.user}}, own \in BOOLEAN :
                 (c # {} => ~ own) /\ Arrives([code |-> c, own |-> own])
      <4>1. PICK c \in {{}, {Input.user}}, own \in BOOLEAN :
              (c # {} => ~ own) /\ Arrives([code |-> c, own |-> own])
        BY <3>2
      <4>2. ASSUME NEW r \in request', r.own, NEW a \in r.code PROVE FALSE
        <5>1. r = [code |-> c, own |-> own]
          BY <4>1, <4>2 DEF Arrives
        <5>2. r.code = c /\ r.own = own
          BY <5>1
        <5>. QED BY <4>1, <4>2, <5>2
      <4>. QED BY <4>2
    <3>. QED BY <1>12, <1>t, <3>1, <3>2, BrowserShape
  <2>. QED BY <1>t, <2>1, <2>2, <2>3, <2>4, FitStays DEF FitInv, Backed, InFlow
<1>13. CASE Crash
  BY <1>13, <1>t, FitStays DEF Crash, FitInv, Backed, InFlow
<1>14. CASE Rerun
  <2>1. CredsFit'
    BY <1>14 DEF Rerun, Nobody, CredsFit
  <2>2. tok' = {} /\ grant' = {} /\ request' = {}
    BY <1>14 DEF Rerun, FitInv, InFlow, OverPc
  <2>. QED BY <1>14, <1>t, <2>1, <2>2 DEF Rerun, FitInv, Backed
<1>15. CASE UNCHANGED vars
  BY <1>15, <1>t, SameInput, FitStays DEF vars, history, FitInv, Backed, InFlow
<1>. QED
  BY <1>1, <1>2, <1>3, <1>4, <1>5, <1>6, <1>7, <1>8, <1>9, <1>10, <1>11,
     <1>12, <1>13, <1>14, <1>15 DEF Next, Step, Over

\* A side authenticates with what its own half of the command line names, and
\* with a token only for an account its user consented to at its own server.
\* (resolve_auth, obtain_token, EndpointInputs::build.)
THEOREM CredentialsFit == Spec => []CredsFit
<1>1. FitInv => CredsFit
  BY DEF FitInv
<1>. QED BY <1>1, FitInit, FitNext, PTL DEF Spec

-----------------------------------------------------------------------------
(* The second run. *)

\* The entry of a side is good for one more run.
Holds(entries, i) ==
  /\ Key(i) \in Keys /\ entries[Key(i)] # {}
  /\ \A t \in entries[Key(i)] : t.live /\ t.server = Server(i)

Undisturbed == store = "platform" /\ clean /\ ~ Collide

Done(s) == pc = "connect" \/ (s = "src" /\ side = "dst")

\* Between the answer to a refresh and set_password the entry holds the old
\* token; what is in hand is as good.
InHand(s) == pc = "persist" /\ Key(cmd[s]) = Key(Input)

StoreInv ==
  /\ TypeInv
  /\ SecondRunNeedsNoBrowser
  /\ pc \in {"keyring", "refresh", "persist"} => Input.keyring
  /\ Undisturbed =>
       /\ \A s \in Sides : Uses(s) /\ (Done(s) \/ last = {cmd}) =>
            Holds(keyring, cmd[s]) \/ InHand(s)
       /\ pc = "refresh" => tok = keyring[Key(Input)]
       /\ pc \in {"persist", "keep"} =>
            tok # {} /\ \A t \in tok : t.live /\ t.server = Server(Input)
       /\ pc \in {"listen", "wait", "exchange", "keep"} /\ last = {cmd} =>
            ~ Input.keyring

\* Two sides that share an entry share a server, or they collide.
LEMMA SharedEntry ==
  ASSUME ~ Collide, NEW s \in Sides, NEW r \in Sides, Uses(s), Uses(r),
         Key(cmd[s]) = Key(cmd[r])
  PROVE Server(cmd[s]) = Server(cmd[r])
<1>1. CASE s = r
  BY <1>1
<1>2. CASE s # r
  <2>1. \A x \in Sides : Uses(x)
    BY <1>2 DEF Sides
  <2>. QED BY <1>2, <2>1 DEF Collide, Sides
<1>. QED BY <1>1, <1>2

\* Steps that leave the entries, and the sides already done, as they are.
LEMMA StoreStays ==
  ASSUME StoreInv, UNCHANGED <<store, keyring, cmd, side, last>>,
         clean' => clean, pc # "persist", pc # "connect", pc' # "connect",
         \/ opened' = opened
         \/ /\ opened' = opened \cup {side}
            /\ (last = {cmd} /\ Undisturbed) => ~ Uses(side)
  PROVE /\ SecondRunNeedsNoBrowser'
        /\ Undisturbed' =>
             \A s \in Sides : Uses(s)' /\ (Done(s)' \/ (last = {cmd})') =>
               Holds(keyring, cmd[s])' \/ InHand(s)'
<1>1. /\ Collide' = Collide /\ \A s \in Sides : Uses(s)' = Uses(s)
  BY DEF Collide, Uses, Key, Server
<1>2. SecondRunNeedsNoBrowser'
  <2>1. SUFFICES ASSUME Undisturbed, last = {cmd}, NEW s \in opened'
                 PROVE ~ Uses(s)
    BY <1>1 DEF SecondRunNeedsNoBrowser, Undisturbed, Uses
  <2>. QED BY <2>1 DEF StoreInv, SecondRunNeedsNoBrowser, Undisturbed
<1>3. \A s \in Sides : Holds(keyring, cmd[s])' = Holds(keyring, cmd[s])
  BY DEF Holds, Key, Server
<1>. QED BY <1>1, <1>2, <1>3 DEF StoreInv, Undisturbed, Done, InHand

\* A side resolved with its entry good for another run.
LEMMA StoreResolved ==
  ASSUME StoreInv, TypeInv', NEW a, Resolved(a), clean' => clean,
         \/ ~ Uses(side) /\ keyring' = keyring /\ pc # "persist"
         \/ /\ Uses(side) /\ Key(Input) \in Keys
            /\ Undisturbed /\ clean' =>
                 \E t \in Tokens : /\ keyring' = [keyring EXCEPT ![Key(Input)] = {t}]
                                  /\ t.live /\ t.server = Server(Input)
  PROVE StoreInv'
<1>t. TypeInv /\ TypeOK /\ side \in Sides /\ SecondRunNeedsNoBrowser
  BY DEF StoreInv, TypeInv, TypeOK
<1>1. /\ UNCHANGED <<store, cmd, opened, last>>
      /\ \/ side = "src" /\ side' = "dst" /\ pc' = "resolve"
         \/ side = "dst" /\ side' = side /\ pc' = "connect"
  BY <1>t DEF Resolved, Sides
<1>2. /\ Collide' = Collide /\ \A s \in Sides : Uses(s)' = Uses(s)
  BY <1>1 DEF Collide, Uses, Key, Server
<1>3. SecondRunNeedsNoBrowser'
  BY <1>t, <1>1, <1>2 DEF SecondRunNeedsNoBrowser, Uses
<1>4. ASSUME NEW s \in Sides, Undisturbed', Uses(s), Done(s)' \/ last = {cmd}
      PROVE Holds(keyring', cmd[s])
  <2>1. Undisturbed /\ clean'
    BY <1>1, <1>2, <1>4 DEF Undisturbed
  <2>2. CASE Uses(side)
    <3>1. PICK t \in Tokens : /\ keyring' = [keyring EXCEPT ![Key(Input)] = {t}]
                              /\ t.live /\ t.server = Server(Input)
      BY <2>1, <2>2
    <3>2. DOMAIN keyring = Keys
      BY <1>t DEF TypeOK
    <3>3. CASE Key(cmd[s]) = Key(Input)
      <4>1. Server(cmd[s]) = Server(Input)
        BY <1>t, <1>4, <2>1, <2>2, <3>3, SharedEntry DEF Undisturbed, Input
      <4>. QED BY <2>2, <3>1, <3>2, <3>3, <4>1 DEF Holds
    <3>4. CASE Key(cmd[s]) # Key(Input)
      <4>1. Done(s) \/ last = {cmd}
        BY <1>1, <1>4, <1>t, <3>4 DEF Done, Input, Sides
      <4>2. Holds(keyring, cmd[s])
        BY <1>4, <2>1, <3>4, <4>1 DEF StoreInv, InHand
      <4>3. keyring'[Key(cmd[s])] = keyring[Key(cmd[s])]
        BY <3>1, <3>4
      <4>. QED BY <4>2, <4>3 DEF Holds
    <3>. QED BY <3>3, <3>4
  <2>3. CASE ~ Uses(side)
    <3>1. s # side /\ keyring' = keyring /\ pc # "persist"
      BY <1>4, <2>3
    <3>2. Done(s) \/ last = {cmd}
      BY <1>1, <1>4, <1>t, <3>1 DEF Done, Sides
    <3>. QED BY <1>4, <2>1, <3>1, <3>2 DEF StoreInv, InHand
  <2>. QED BY <2>2, <2>3
<1>5. \A s \in Sides : Holds(keyring, cmd[s])' = Holds(keyring', cmd[s])
  BY <1>1 DEF Holds, Key, Server
<1>. QED BY <1>1, <1>2, <1>3, <1>4, <1>5 DEF StoreInv

\* The first run has no clean run before it.
LEMMA StoreInit == Init => StoreInv
BY TypeInit DEF Init, StoreInv, SecondRunNeedsNoBrowser, Done

\* Every step keeps the entries of sides already done good.
LEMMA StoreNext == StoreInv /\ [Next]_vars => StoreInv'
<1>. SUFFICES ASSUME StoreInv, [Next]_vars PROVE StoreInv'
  OBVIOUS
<1>t. /\ TypeInv /\ TypeInv' /\ TypeOK /\ SecondRunNeedsNoBrowser
      /\ side \in Sides
  BY TypeNext DEF StoreInv, TypeInv, TypeOK
<1>u. ASSUME UNCHANGED cmd
      PROVE Collide' = Collide /\ \A s \in Sides : Uses(s)' = Uses(s)
  BY <1>u DEF Collide, Uses, Key, Server
<1>a. ASSUME NEW error, Abort(error), clean' => clean,
             pc # "persist", pc # "connect"
      PROVE StoreInv'
  <2>1. pc' = "exited" /\ UNCHANGED <<store, keyring, cmd, side, last, opened>>
    BY <1>a DEF Abort
  <2>. QED BY <1>a, <1>t, <2>1, StoreStays DEF StoreInv
<1>1. CASE Configure
  <2>1. /\ UNCHANGED <<store, keyring, cmd, side, last, opened, clean>>
        /\ pc = "config" /\ pc' \in {"resolve", "exited"}
    BY <1>1 DEF Configure, GoTo, Fine
  <2>. QED BY <1>t, <2>1, StoreStays DEF StoreInv
<1>2. CASE ResolveLogin
  <2>1. /\ Resolved(Password(Input)) /\ ~ Uses(side) /\ pc = "resolve"
        /\ UNCHANGED <<keyring, clean>>
    BY <1>2 DEF ResolveLogin, Uses, Input, Fine
  <2>. QED BY <1>t, <2>1, StoreResolved
<1>3. CASE ResolveOAuth
  <2>1. CASE \E error \in {"Config", "OAuth"} : Abort(error)
    <3>1. pc = "resolve" /\ (clean' => clean)
      BY <1>3 DEF ResolveOAuth, ObtainToken, Fine, Happens
    <3>. QED BY <2>1, <3>1, <1>a
  <2>2. CASE GoTo(FirstTry(Input)) /\ pc = "resolve" /\ UNCHANGED <<keyring, clean>>
    <3>1. UNCHANGED <<store, cmd, side, last, opened>> /\ pc' = FirstTry(Input)
      BY <2>2 DEF GoTo
    <3>2. Input' = Input
      BY <3>1, SameInput
    <3>3. pc' = IF Input.keyring THEN "keyring" ELSE "listen"
      BY <3>1 DEF FirstTry
    <3>. QED BY <1>t, <2>2, <3>1, <3>2, <3>3, StoreStays DEF StoreInv
  <2>. QED BY <1>3, <2>1, <2>2 DEF ResolveOAuth, ObtainToken, Fine
<1>4. CASE ReadKeyring
  <2>1. /\ UNCHANGED <<store, keyring, cmd, side, last, opened>>
        /\ pc = "keyring" /\ pc' \in {"listen", "refresh"}
        /\ clean' => clean
    BY <1>4 DEF ReadKeyring, GoTo, Fine, Happens
  <2>2. Input' = Input /\ Input.keyring /\ Uses(side)
    BY <1>t, <2>1, SameInput DEF StoreInv, TypeInv, InFlow, Uses, Input
  <2>3. Undisturbed' => Undisturbed
    BY <2>1, <1>u DEF Undisturbed
  <2>4. ASSUME Undisturbed'
        PROVE /\ pc' = "refresh" => tok' = keyring[Key(Input)]
              /\ pc' = "listen" => last # {cmd}
    <3>1. tok' = keyring[Key(Input)] /\ (pc' = "listen" => tok' = {})
      BY <1>4, <2>1, <2>4 DEF ReadKeyring, GoTo, Happens, Stored, Undisturbed
    <3>2. last = {cmd} => keyring[Key(Input)] # {}
      BY <1>t, <2>1, <2>2, <2>3, <2>4 DEF StoreInv, InHand, Holds, Input
    <3>. QED BY <3>1, <3>2
  <2>5. Key(Input)' = Key(Input)
    BY <2>2 DEF Key
  <2>. QED BY <1>t, <2>1, <2>2, <2>4, <2>5, StoreStays DEF StoreInv
<1>5. CASE Refresh
  <2>1. /\ UNCHANGED <<store, cmd, side, last, opened>>
        /\ pc = "refresh" /\ pc' \in {"listen", "persist"}
        /\ clean' => clean
    BY <1>5 DEF Refresh, GoTo, FallBack, Fine, Happens
  <2>2. /\ Input' = Input /\ Server(Input)' = Server(Input)
        /\ Key(Input)' = Key(Input)
        /\ Input.keyring /\ Uses(side) /\ Key(Input) \in Keys
    BY <1>t, <2>1, SameInput, FlowType
       DEF StoreInv, TypeInv, InFlow, Uses, Input, Key
  <2>3. Undisturbed' => Undisturbed
    BY <2>1, <1>u DEF Undisturbed
  <2>4. ASSUME NEW s \in Sides
        PROVE /\ Key(cmd[s])' = Key(cmd[s])
              /\ Holds(keyring, cmd[s])' = Holds(keyring', cmd[s])
              /\ Uses(s)' = Uses(s)
    BY <2>1 DEF Key, Holds, Server, Uses
  <2>5. CASE pc' = "persist"
    <3>1. PICK t \in tok : /\ t.live /\ t.server = Server(Input) /\ tok' = {t}
                           /\ keyring' = keyring \/ Kill(Key(Input))
      BY <1>5, <2>5 DEF Refresh, FallBack, GoTo, NewToken
    <3>2. ASSUME NEW s \in Sides, Undisturbed', Uses(s), Done(s)' \/ last = {cmd}
          PROVE Holds(keyring', cmd[s]) \/ Key(cmd[s]) = Key(Input)
      <4>1. Done(s) \/ last = {cmd}
        BY <2>1, <3>2 DEF Done
      <4>2. Holds(keyring, cmd[s])
        BY <2>1, <2>3, <3>2, <4>1 DEF StoreInv, InHand
      <4>3. Key(cmd[s]) # Key(Input) => keyring'[Key(cmd[s])] = keyring[Key(cmd[s])]
        <5>1. DOMAIN keyring = Keys /\ Key(cmd[s]) \in Keys
          BY <1>t, <4>2 DEF TypeOK, Holds
        <5>. QED BY <3>1, <5>1 DEF Kill
      <4>. QED BY <4>2, <4>3 DEF Holds
    <3>3. SecondRunNeedsNoBrowser'
      BY <1>t, <1>u, <2>1 DEF SecondRunNeedsNoBrowser, Uses
    <3>. QED BY <1>t, <2>1, <2>2, <2>4, <2>5, <3>1, <3>2, <3>3 DEF StoreInv, InHand
  <2>6. CASE pc' = "listen"
    <3>1. ASSUME Undisturbed'
          PROVE last # {cmd} /\ keyring' = keyring
      <4>1. keyring' = keyring /\ ~ (\A t \in tok : t.live /\ t.server = Server(Input))
        BY <1>5, <2>6, <3>1 DEF Refresh, FallBack, GoTo, Happens, Undisturbed
      <4>2. tok = keyring[Key(Input)]
        BY <2>1, <2>3, <3>1 DEF StoreInv
      <4>3. last = {cmd} => Holds(keyring, Input)
        BY <1>t, <2>1, <2>2, <2>3, <3>1 DEF StoreInv, InHand, Input
      <4>. QED BY <4>1, <4>2, <4>3 DEF Holds
    <3>2. SecondRunNeedsNoBrowser'
      BY <1>t, <1>u, <2>1 DEF SecondRunNeedsNoBrowser, Uses
    <3>3. ASSUME NEW s \in Sides, Undisturbed', Uses(s), Done(s)' \/ last = {cmd}
          PROVE Holds(keyring', cmd[s])
      <4>1. Done(s) \/ last = {cmd}
        BY <2>1, <3>3 DEF Done
      <4>. QED BY <2>1, <2>3, <3>1, <3>3, <4>1 DEF StoreInv, InHand
    <3>. QED BY <1>t, <2>1, <2>2, <2>4, <2>6, <3>1, <3>2, <3>3 DEF StoreInv
  <2>. QED BY <2>1, <2>5, <2>6
<1>6. CASE PersistRefreshed
  <2>1. PICK t \in tok, g \in grant :
          SetPassword(Key(Input), t) /\ Resolved(XOAuth2(g))
    BY <1>6 DEF PersistRefreshed
  <2>2. InFlow /\ pc = "persist"
    BY <1>6 DEF PersistRefreshed, InFlow
  <2>3. Uses(side) /\ Key(Input) \in Keys /\ t \in Tokens
    BY <1>t, <2>2, FlowType, OnlyOne DEF StoreInv, TypeInv, TypeOK, Uses, Input
  <2>4. clean' => clean
    BY <2>1 DEF SetPassword, Fine, Happens
  <2>5. Undisturbed /\ clean' =>
          /\ keyring' = [keyring EXCEPT ![Key(Input)] = {t}]
          /\ t.live /\ t.server = Server(Input)
    BY <2>1, <2>2 DEF SetPassword, Happens, Undisturbed, StoreInv
  <2>. QED BY <1>t, <2>1, <2>3, <2>4, <2>5, StoreResolved
<1>7. CASE Listen
  <2>1. CASE Abort("OAuth")
    <3>1. pc = "listen" /\ (clean' => clean)
      BY <1>7 DEF Listen, Fine, Happens
    <3>. QED BY <2>1, <3>1, <1>a
  <2>2. CASE ~ Abort("OAuth")
    <3>1. /\ UNCHANGED <<store, keyring, cmd, side, last, clean>>
          /\ pc = "listen" /\ pc' = "wait" /\ opened' = opened \cup {side}
      BY <1>7, <2>2 DEF Listen, Fine
    <3>2. Input' = Input
      BY <3>1, SameInput
    <3>3. last = {cmd} /\ Undisturbed => ~ Input.keyring
      BY <3>1 DEF StoreInv
    <3>4. Undisturbed' => Undisturbed
      BY <3>1, <1>u DEF Undisturbed
    <3>5. (last = {cmd} /\ Undisturbed) => ~ Uses(side)
      BY <3>3 DEF Uses, Input
    <3>6. /\ SecondRunNeedsNoBrowser'
          /\ Undisturbed' =>
               \A s \in Sides : Uses(s)' /\ (Done(s)' \/ (last = {cmd})') =>
                 Holds(keyring, cmd[s])' \/ InHand(s)'
      BY <3>1, <3>5, StoreStays
    <3>. QED BY <1>t, <3>1, <3>2, <3>3, <3>4, <3>6 DEF StoreInv
  <2>. QED BY <2>1, <2>2
<1>8. CASE Receive
  <2>1. CASE Abort("OAuth")
    BY <1>8, <2>1, <1>a DEF Receive, Fine
  <2>2. CASE GoTo("exchange") /\ UNCHANGED <<keyring, clean>> /\ pc = "wait"
    <3>1. UNCHANGED <<store, cmd, side, last, opened>> /\ pc' = "exchange"
      BY <2>2 DEF GoTo
    <3>2. Input' = Input
      BY <3>1, SameInput
    <3>3. Undisturbed' => Undisturbed
      BY <2>2, <3>1, <1>u DEF Undisturbed
    <3>. QED BY <1>t, <2>2, <3>1, <3>2, <3>3, StoreStays DEF StoreInv
  <2>. QED BY <1>8, <2>1, <2>2 DEF Receive, Fine
<1>9. CASE TimeOut
  BY <1>9, <1>a DEF TimeOut, Happens
<1>10. CASE ExchangeCode
  <2>1. CASE Abort("OAuth")
    <3>1. pc = "exchange" /\ (clean' => clean)
      BY <1>10 DEF ExchangeCode, Fine, Happens
    <3>. QED BY <2>1, <3>1, <1>a
  <2>2. CASE ~ Abort("OAuth")
    <3>1. /\ UNCHANGED <<store, keyring, cmd, side, last, opened>>
          /\ pc = "exchange" /\ pc' = "keep"
          /\ clean' => clean
      BY <1>10, <2>2 DEF ExchangeCode, GoTo, Fine, Happens
    <3>2. Input' = Input /\ Server(Input)' = Server(Input)
      BY <3>1, SameInput
    <3>3. Undisturbed' => Undisturbed
      BY <3>1, <1>u DEF Undisturbed
    <3>4. clean' => tok' # {} /\ \A t \in tok' : t.live /\ t.server = Server(Input)
      <4>1. ASSUME clean'
            PROVE \E a : tok' = {[server |-> Server(Input), account |-> a,
                                 live |-> TRUE]}
        BY <1>10, <2>2, <4>1 DEF ExchangeCode, Happens
      <4>2. \A a : LET t == [server |-> Server(Input), account |-> a,
                            live |-> TRUE]
                   IN t.live /\ t.server = Server(Input)
        OBVIOUS
      <4>. QED BY <4>1, <4>2, Zenon
    <3>. QED BY <1>t, <3>1, <3>2, <3>3, <3>4, StoreStays DEF StoreInv, Undisturbed
  <2>. QED BY <2>1, <2>2
<1>11. CASE KeepToken
  <2>1. PICK g \in grant : Resolved(XOAuth2(g))
    BY <1>11 DEF KeepToken
  <2>2. InFlow /\ pc = "keep" /\ (clean' => clean)
    BY <1>11 DEF KeepToken, InFlow, SetPassword, Fine, Happens
  <2>3. (Input.keyring => Uses(side)) /\ Key(Input) \in Keys /\ \A t \in tok : t \in Tokens
    BY <1>t, <2>2, FlowType, OnlyOne DEF TypeInv, TypeOK, Uses, Input
  <2>4. CASE Input.keyring
    <3>1. Undisturbed /\ clean' =>
            \E t \in Tokens : /\ keyring' = [keyring EXCEPT ![Key(Input)] = {t}]
                             /\ t.live /\ t.server = Server(Input)
      BY <1>11, <2>2, <2>3, <2>4
         DEF KeepToken, SetPassword, Happens, Undisturbed, StoreInv
    <3>. QED BY <1>t, <2>1, <2>2, <2>3, <2>4, <3>1, StoreResolved
  <2>5. CASE ~ Input.keyring
    <3>1. keyring' = keyring
      BY <1>11, <2>5 DEF KeepToken
    <3>2. ~ Uses(side)
      BY <2>5 DEF Uses, Input
    <3>. QED BY <1>t, <2>1, <2>2, <3>1, <3>2, StoreResolved
  <2>. QED BY <2>4, <2>5
<1>12. CASE Browser
  <2>1. /\ UNCHANGED <<store, keyring, cmd, side, last, opened, pc, tok>>
        /\ pc = "wait" /\ (clean' => clean)
    BY <1>12 DEF Browser, Consent, Arrives, Fine, Happens
  <2>2. Input' = Input
    BY <2>1, SameInput
  <2>3. Undisturbed' => Undisturbed
    BY <2>1, <1>u DEF Undisturbed
  <2>. QED BY <1>t, <2>1, <2>2, <2>3, StoreStays DEF StoreInv
<1>13. CASE Crash
  <2>1. clean' = FALSE /\ pc' = "stopped"
    BY <1>13 DEF Crash, Happens
  <2>. QED BY <1>t, <2>1 DEF StoreInv, SecondRunNeedsNoBrowser, Undisturbed
<1>14. CASE Rerun
  <2>1. /\ pc' = "config" /\ side' = "src" /\ opened' = {}
        /\ UNCHANGED <<store, keyring>>
        /\ pc # "persist"
    BY <1>14 DEF Rerun, OverPc
  <2>2. SecondRunNeedsNoBrowser'
    BY <2>1 DEF SecondRunNeedsNoBrowser
  <2>3. ASSUME NEW s \in Sides, Undisturbed', Uses(s)', last' = {cmd'}
        PROVE Holds(keyring, cmd'[s])
    <3>1. clean /\ pc = "connect" /\ cmd' = cmd
      BY <1>14, <2>3 DEF Rerun
    <3>2. Undisturbed /\ Uses(s) /\ Done(s)
      BY <2>1, <2>3, <3>1, <1>u DEF Undisturbed, Uses, Done
    <3>. QED BY <2>1, <3>1, <3>2 DEF StoreInv, InHand
  <2>4. \A s \in Sides : Holds(keyring, cmd[s])' = Holds(keyring, cmd'[s])
    BY <2>1 DEF Holds, Key, Server
  <2>. QED BY <1>t, <2>1, <2>2, <2>3, <2>4 DEF StoreInv, Done
<1>15. CASE UNCHANGED vars
  <2>1. UNCHANGED <<store, keyring, cmd, side, last, opened, pc, tok, clean>>
    BY <1>15 DEF vars, history
  <2>2. /\ Input' = Input /\ Server(Input)' = Server(Input)
        /\ Key(Input)' = Key(Input)
        /\ Undisturbed' = Undisturbed
    BY <2>1, SameInput, <1>u DEF Undisturbed, Key
  <2>3. \A s \in Sides : /\ Uses(s)' = Uses(s) /\ Done(s)' = Done(s)
                        /\ Holds(keyring, cmd[s])' = Holds(keyring, cmd[s])
                        /\ InHand(s)' = InHand(s)
    BY <2>1, <2>2, <1>u DEF Holds, Key, Server, Done, InHand, Input
  <2>4. SecondRunNeedsNoBrowser'
    BY <1>t, <2>1, <1>u DEF SecondRunNeedsNoBrowser, Uses
  <2>. QED BY <1>t, <2>1, <2>2, <2>3, <2>4 DEF StoreInv
<1>. QED
  BY <1>1, <1>2, <1>3, <1>4, <1>5, <1>6, <1>7, <1>8, <1>9, <1>10, <1>11,
     <1>12, <1>13, <1>14, <1>15 DEF Next, Step, Over

\* In a build with a keyring that keeps, the run after a clean one needs no
\* browser for the sides that use it.  (obtain_token: the token it stores is
\* always the newest it was given.)
THEOREM StoredIsSpared == Spec => []SecondRunNeedsNoBrowser
<1>1. StoreInv => SecondRunNeedsNoBrowser
  BY DEF StoreInv
<1>. QED BY <1>1, StoreInit, StoreNext, PTL DEF Spec

-----------------------------------------------------------------------------
(* The stages of Migration. *)

AllAccepted == \A s \in Sides : Accepted(cmd[s])

\* A side is at work only when the command line was accepted.
StageInv ==
  /\ TypeInv
  /\ pc \in {"config", "exited", "stopped"} \/ AllAccepted

\* All that Migration sees of a state.
Seen == <<Stage, Way>>

\* A step that Migration does not see.
LEMMA StagesStutter ==
  ASSUME UNCHANGED Seen PROVE UNCHANGED M!vars
BY DEF Seen, M!vars, M!history, M!pass_vars, NoFolders

\* A step to the next stage.
LEMMA StagesGoOn ==
  ASSUME NEW next, Stage' = next, UNCHANGED Way PROVE M!GoTo(next)
BY DEF M!GoTo, M!history, M!pass_vars, NoFolders

\* An error of a side ends both.
LEMMA StagesAbort ==
  ASSUME AllAccepted, NEW error \in {"Config", "OAuth"}, Abort(error)
  PROVE M!Abort(error)
BY DEF Abort, Stage, Way, AllAccepted, M!Abort, M!ExitCode, M!history,
       M!pass_vars, NoFolders

\* Both start with the command line.
LEMMA StagesInit == Init => M!Init
BY DEF Init, Stage, Way, NoFolders, M!Init, M!Pass!Zero, M!NoBox

\* An error of either side is one of Migration's.
LEMMA SideAborts ==
  ASSUME StageInv, pc = "resolve" \/ InFlow,
         NEW error \in {"Config", "OAuth"}, Abort(error)
  PROVE M!Next
<1>1. M!Abort(error)
  BY StagesAbort DEF StageInv, InFlow
<1>2. CASE side = "src"
  <2>1. Stage = "resolve_src"
    BY <1>2 DEF Stage, InFlow
  <2>. QED BY <1>1, <2>1 DEF M!Next, M!Step, M!ResolveSrc, M!Resolve
<1>3. CASE side = "dst"
  <2>1. Stage = "resolve_dst"
    BY <1>3 DEF Stage, InFlow
  <2>. QED BY <1>1, <2>1 DEF M!Next, M!Step, M!ResolveDst, M!Resolve
<1>. QED BY <1>2, <1>3 DEF StageInv, TypeInv, TypeOK, Sides

\* A side that is resolved takes Migration to its next stage.
LEMMA SideResolved ==
  ASSUME TypeInv, pc = "resolve" \/ InFlow, NEW a, Resolved(a)
  PROVE M!Next
<1>1. CASE side = "src"
  <2>1. Stage = "resolve_src" /\ Stage' = "resolve_dst" /\ Way' = Way
    BY <1>1 DEF Stage, Way, InFlow, Resolved
  <2>2. M!GoTo("resolve_dst")
    BY <2>1, StagesGoOn
  <2>. QED BY <2>1, <2>2 DEF M!Next, M!Step, M!ResolveSrc, M!Resolve
<1>2. CASE side = "dst"
  <2>1. Stage = "resolve_dst" /\ Stage' = "connect_src" /\ Way' = Way
    BY <1>2 DEF Stage, Way, InFlow, Resolved
  <2>2. M!GoTo("connect_src")
    BY <2>1, StagesGoOn
  <2>. QED BY <2>1, <2>2 DEF M!Next, M!Step, M!ResolveDst, M!Resolve
<1>. QED BY <1>1, <1>2 DEF TypeInv, TypeOK, Sides

\* A step within the flow of one side is none of Migration's.
LEMMA SideWorks ==
  ASSUME pc = "resolve" \/ InFlow, pc' = "resolve" \/ InFlow',
         UNCHANGED side
  PROVE UNCHANGED M!vars
<1>1. UNCHANGED Seen
  BY DEF Seen, Stage, Way, InFlow
<1>. QED BY <1>1, StagesStutter

\* Every step is one of Migration, a stutter, or a new run.
LEMMA StagesNext ==
  StageInv /\ [Next]_vars => [M!Next \/ Rerun]_(M!vars)
<1>. SUFFICES ASSUME StageInv, [Next]_vars
              PROVE M!Next \/ Rerun \/ UNCHANGED M!vars
  OBVIOUS
<1>t. TypeInv
  BY DEF StageInv
<1>1. CASE Configure
  <2>1. CASE GoTo("resolve")
    <3>1. Stage = "config" /\ Stage' = "resolve_src" /\ Way' = Way
      BY <1>1, <2>1, <1>t DEF TypeInv, Configure, GoTo, Stage, Way
    <3>2. M!GoTo("resolve_src")
      BY <3>1, StagesGoOn
    <3>. QED BY <3>1, <3>2 DEF M!Next, M!Step, M!Configure
  <2>2. CASE /\ pc' = "exited" /\ UNCHANGED cmd
             /\ \E s \in Sides : ~ Accepted(cmd[s])
    <3>1. Stage = "config" /\ Stage' = "exited" /\ Way' = 2
      BY <1>1, <2>2 DEF Configure, Stage, Way
    <3>2. M!Configure
      BY <3>1 DEF M!Configure, M!history, M!pass_vars, NoFolders
    <3>. QED BY <3>2 DEF M!Next, M!Step
  <2>. QED BY <1>1, <2>1, <2>2 DEF Configure
<1>2. CASE ResolveLogin
  BY <1>2, <1>t, SideResolved DEF ResolveLogin
<1>3. CASE ResolveOAuth
  <2>1. CASE \E error \in {"Config", "OAuth"} : Abort(error)
    BY <1>3, <2>1, SideAborts DEF ResolveOAuth, ObtainToken
  <2>2. CASE GoTo(FirstTry(Input)) /\ pc = "resolve"
    BY <2>2, SideWorks DEF GoTo, FirstTry, InFlow
  <2>. QED BY <1>3, <2>1, <2>2 DEF ResolveOAuth, ObtainToken
<1>4. CASE ReadKeyring
  BY <1>4, SideWorks DEF ReadKeyring, GoTo, InFlow
<1>5. CASE Refresh
  BY <1>5, SideWorks DEF Refresh, FallBack, GoTo, InFlow
<1>6. CASE PersistRefreshed
  BY <1>6, <1>t, SideResolved DEF PersistRefreshed, InFlow
<1>7. CASE Listen
  BY <1>7, SideWorks, SideAborts DEF Listen, InFlow
<1>8. CASE Receive
  BY <1>8, SideWorks, SideAborts DEF Receive, GoTo, InFlow
<1>9. CASE TimeOut
  BY <1>9, SideAborts DEF TimeOut, InFlow
<1>10. CASE ExchangeCode
  BY <1>10, SideWorks, SideAborts DEF ExchangeCode, GoTo, InFlow
<1>11. CASE KeepToken
  BY <1>11, <1>t, SideResolved DEF KeepToken, InFlow
<1>12. CASE Browser
  BY <1>12, SideWorks DEF Browser, Consent, Arrives, InFlow
<1>13. CASE Crash
  <2>1. Stage \in M!Working /\ Stage' = "stopped" /\ Way' = Way
    BY <1>13, <1>t DEF Crash, Stage, Way, OverPc, TypeInv, TypeOK, M!Working
  <2>2. M!Stop
    BY <2>1 DEF M!Stop, M!history, M!pass_vars, NoFolders
  <2>. QED BY <2>2 DEF M!Next
<1>14. CASE Rerun
  BY <1>14
<1>15. CASE UNCHANGED vars
  BY <1>15, StagesStutter DEF vars, Seen, Stage, Way
<1>. QED
  BY <1>1, <1>2, <1>3, <1>4, <1>5, <1>6, <1>7, <1>8, <1>9, <1>10, <1>11,
     <1>12, <1>13, <1>14, <1>15 DEF Next, Step, Over

\* The command line is accepted before a side is looked at, and stays.
LEMMA StageInvNext == StageInv /\ [Next]_vars => StageInv'
<1>. SUFFICES ASSUME StageInv, [Next]_vars PROVE StageInv'
  OBVIOUS
<1>1. TypeInv'
  BY TypeNext DEF StageInv
<1>2. CASE Configure
  BY <1>1, <1>2 DEF Configure, GoTo, StageInv, AllAccepted
<1>3. CASE Rerun
  BY <1>1, <1>3 DEF Rerun, StageInv
<1>4. CASE pc # "config" /\ UNCHANGED cmd /\ (pc \in OverPc => UNCHANGED pc)
  BY <1>1, <1>4 DEF StageInv, AllAccepted, OverPc
<1>5. CASE pc = "config" /\ pc' \in {"config", "stopped"}
  BY <1>1, <1>5 DEF StageInv
<1>6. CASE ResolveLogin \/ PersistRefreshed \/ KeepToken
  <2>1. /\ pc \in {"resolve", "persist", "keep"}
        /\ \E a : Resolved(a)
    BY <1>6 DEF ResolveLogin, PersistRefreshed, KeepToken
  <2>. QED BY <2>1, <1>4 DEF Resolved, OverPc
<1>7. CASE ResolveOAuth \/ ReadKeyring \/ Refresh
  BY <1>7, <1>4 DEF ResolveOAuth, ObtainToken, ReadKeyring, Refresh, FallBack,
                    GoTo, Abort, OverPc
<1>8. CASE Listen \/ Receive \/ TimeOut \/ ExchangeCode
  BY <1>8, <1>4 DEF Listen, Receive, TimeOut, ExchangeCode, GoTo, Abort, OverPc
<1>9. CASE Browser
  BY <1>9, <1>4 DEF Browser, Consent, Arrives, OverPc
<1>10. CASE Crash
  BY <1>10, <1>4, <1>5 DEF Crash, OverPc
<1>11. CASE UNCHANGED vars
  BY <1>11, <1>4, <1>5 DEF vars
<1>. QED
  BY <1>2, <1>3, <1>6, <1>7, <1>8, <1>9, <1>10, <1>11 DEF Next, Step, Over

\* The two halves of the command line are resolved in the order of Migration,
\* which knows nothing of how, and a run that gives up does so where Migration
\* can.  (main.rs, run_migration up to its first connection.)
THEOREM ResolvesAsMigration == Spec => StagesOfMigration
<1>1. Init => StageInv
  BY TypeInit DEF Init, StageInv
<1>2. StageInv /\ [Next]_vars => [M!Next \/ Rerun]_(M!vars)
  BY StagesNext
<1>. QED BY <1>1, <1>2, StagesInit, StageInvNext, PTL DEF Spec, StagesOfMigration
=============================================================================
