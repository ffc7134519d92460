---------------------------- MODULE MCFolderSync ----------------------------
(***************************************************************************)
(* Small instances of FolderSync for TLC: two UIDs, two                    *)
(* Message-Ids, and the message attributes each question needs.            *)
(***************************************************************************)
EXTENDS FolderSync

CONSTANTS m1, m2 \* Message-Ids

MCMessageIds == {m1, m2}

\* The kinds of messages differ by Message-Id, size and \Deleted flag.
Plain(m) == [mid |-> m, big |-> FALSE, deleted |-> FALSE]
Flagged(m) == [mid |-> m, big |-> FALSE, deleted |-> TRUE]
Large(m) == [mid |-> m, big |-> TRUE, deleted |-> FALSE]

EveryKind == {Plain(m1), Plain(m2), Plain(NoId), Large(m2), Flagged(m1)}
RerunKinds == {Plain(m1), Plain(NoId), Large(m2), Flagged(m2)}
BasicKinds == {Plain(m1), Plain(m2)}
IdKinds == {Plain(m1), Plain(m2), Plain(NoId)}
FlaggedKinds == {Plain(m1), Flagged(m2)}

ServerFaults ==
  {"refuse", "drop", "slow", "stall", "unreachable", "unsolicited", "expunge",
   "crash"}
RerunFaults == ServerFaults \ {"expunge"}
Slowness == {"slow", "unreachable"}
OneDrop == {"drop"}
Refusals == {"refuse"}
NoFaults == {}
=============================================================================
