------------------------------ MODULE MCOAuth ------------------------------
(* Command lines for TLC. *)
EXTENDS OAuth

Blank == [user |-> "ann", named |-> TRUE, auth |-> "oauth2", env |-> "none",
          provider |-> "none", client |-> TRUE, url |-> "none",
          keyring |-> TRUE]
Login(u) == [Blank EXCEPT !.user = u, !.auth = "login", !.env = "set"]
Gmail == [Blank EXCEPT !.provider = "gmail"]
Custom(url) == [Blank EXCEPT !.provider = "custom", !.url = url]
NoKeyring(i) == [i EXCEPT !.keyring = FALSE]

Pair(s, d) == [x \in Sides |-> IF x = "src" THEN s ELSE d]

UsualMove == {Pair(Gmail, Login("bob"))}

MCCommands ==
  { Pair(Gmail, Login("bob")),              \* the usual move
    Pair(Gmail, Gmail),                     \* both sides share an entry
    Pair(Custom("one"), Custom("two")),     \* ... on different servers
    Pair(NoKeyring(Gmail), Custom("one")),
    Pair(Gmail, [Custom("one") EXCEPT !.url = "none"]),
    Pair(Login("ann"), [Custom("one") EXCEPT !.url = "bad"]),
    Pair(Gmail, [Blank EXCEPT !.provider = "unknown"]),
    Pair(Login("ann"), [Gmail EXCEPT !.client = FALSE]),
    Pair([Login("ann") EXCEPT !.env = "unset"], Gmail) }
=============================================================================
