----------------------------- MODULE ImapClient -----------------------------
(***************************************************************************)
(* The two IMAP connections of a migration and the mailbox at the far end  *)
(* of each: imap_client.rs, and the servers as that file uses them.        *)
(*                                                                         *)
(* A method of Client is an action operator with the outcome of the call   *)
(* as parameters.  It constrains the primed session and mailbox; the       *)
(* module that EXTENDS this one adds the caller's own state.  `status' is  *)
(*     "ok"       the future resolved to Ok                                *)
(*     "err"      it resolved to Err                                       *)
(*     "timeout"  tokio::time::timeout dropped it (only the calls sync.rs  *)
(*                wraps: the two FETCHes and APPEND)                       *)
(*     "hang"     it never resolves (only calls that are not wrapped)      *)
(*                                                                         *)
(* The model follows one folder.  Messages are source UIDs with the three  *)
(* attributes the program tells apart; bodies are not spelled out.         *)
(***************************************************************************)
EXTENDS Naturals, FiniteSets

CONSTANTS
  Uids,       \* UIDs the source folder may hold (u32, never 0)
  MessageIds, \* values parse_message_id can return
  NoId,       \* its None: the header is absent, empty or not UTF-8
  Kinds,      \* the message attributes considered, a subset of Kind
  Blank,      \* the empty body of `msg.body().unwrap_or_default()'
  Garbled,    \* bytes a desynchronised server took for a message
  NoBody,     \* no body at all: an empty FETCH answer, or nothing
  Faults      \* what the environment may do, a subset of FaultKinds

FaultKinds ==
  { "refuse",      \* a tagged NO to a command
    "drop",        \* the connection is lost
    "slow",        \* a wrapped call times out and its answer comes later
    "stall",       \* an unwrapped call is never answered
    "unreachable", \* connect or login of a reconnect fails
    "unsolicited", \* untagged data about another client's change comes first
    "expunge",     \* another client removes a source message
    "crash" }      \* the process is killed

Kind == [mid : MessageIds \cup {NoId}, big : BOOLEAN, deleted : BOOLEAN]

Bodies == Uids \cup {Blank, Garbled}

ASSUME ImapAssumption ==
  /\ Uids \subseteq Nat
  /\ IsFiniteSet(Uids)
  /\ NoId \notin MessageIds
  /\ Kinds \subseteq Kind
  /\ Faults \subseteq FaultKinds
  /\ Blank \notin Uids
  /\ Garbled \notin Uids
  /\ NoBody \notin Bodies
  /\ Blank # Garbled

VARIABLES
  kind,        \* attributes of each source message
  src_box,     \* UIDs now in the source folder
  dst_box,     \* how many copies of each body the destination folder holds
  dst_folder,  \* the destination folder exists
  src_session, \* connection to the source
  dst_session, \* connection to the destination
  faults       \* the fault kinds the environment may still produce

mail_vars == <<kind, src_box, dst_box, dst_folder, faults>>
imap_vars == <<mail_vars, src_session, dst_session>>

(***************************************************************************)
(* `late' is the first FETCH answer still to be read for a call that timed *)
(* out; `owes' is what an APPEND that was given up left on the wire: its   *)
(* tagged answer, or a server still waiting for the bytes of its literal.  *)
(***************************************************************************)
SrcSession == [up : BOOLEAN, selected : BOOLEAN, late : Uids \cup {NoBody}]
DstSession ==
  [up : BOOLEAN, selected : BOOLEAN, owes : {"nothing", "answer", "literal"}]

FreshSrc == [up |-> TRUE, selected |-> FALSE, late |-> NoBody]
FreshDst == [up |-> TRUE, selected |-> FALSE, owes |-> "nothing"]

ImapTypeOK ==
  /\ kind \in [Uids -> Kinds]
  /\ src_box \in SUBSET Uids
  /\ dst_box \in [Bodies -> Nat]
  /\ dst_folder \in BOOLEAN
  /\ src_session \in SrcSession
  /\ dst_session \in DstSession
  /\ faults \in SUBSET Faults

\* What parse_message_id yields for a body.
Mid(b) == IF b \in Uids THEN kind[b].mid ELSE NoId

\* Message-Ids that a listing of the bodies in B returns.
MidsOf(B) == {Mid(b) : b \in B} \ {NoId}

Big(b) == b \in Uids /\ kind[b].big
Deleted(b) == b \in Uids /\ kind[b].deleted

Stored == {b \in Bodies : dst_box[b] > 0}
Store(b) == [dst_box EXCEPT ![b] = @ + 1]

\* CLOSE removes for good every message flagged \Deleted of a mailbox that
\* SELECT opened read-write.
Expunged == [b \in Bodies |-> IF Deleted(b) THEN 0 ELSE dst_box[b]]

-----------------------------------------------------------------------------
(* Failures any command can meet. *)

SrcLost ==
  /\ ~src_session.up \/ "drop" \in faults
  /\ src_session' = [src_session EXCEPT !.up = FALSE, !.late = NoBody]

DstLost ==
  /\ ~dst_session.up \/ "drop" \in faults
  /\ dst_session' = [dst_session EXCEPT !.up = FALSE]

Refused == "refuse" \in faults

\* A destination command that nobody wrapped in a timeout is never answered
\* when the server is silent, and when it takes the command for the rest of
\* an abandoned literal.
DstHangs ==
  "stall" \in faults \/ (dst_session.up /\ dst_session.owes = "literal")

DstReady == dst_session.up /\ dst_session.owes # "literal"

DstSettled == [dst_session EXCEPT !.owes = "nothing"]

-----------------------------------------------------------------------------
(* Destination: Client::create_folder_if_missing, select_for_write,        *)
(* fetch_all_message_ids, close_mailbox.  None of them has a timeout.      *)

\* An error whose text says the folder "exists" counts as success.
CreateFolderIfMissing(status) ==
  /\ UNCHANGED <<kind, src_box, dst_box, src_session, faults>>
  /\ \/ /\ status = "ok"
        /\ DstReady
        /\ dst_folder' = TRUE
        /\ dst_session' = DstSettled
     \/ /\ status = "err"
        /\ DstReady /\ Refused
        /\ dst_session' = DstSettled
        /\ UNCHANGED dst_folder
     \/ /\ status = "err"
        /\ DstLost
        /\ dst_folder' \in {dst_folder, dst_folder \/ dst_session.up}
     \/ /\ status = "hang"
        /\ DstHangs
        /\ UNCHANGED <<dst_folder, dst_session>>

SelectForWrite(status) ==
  /\ UNCHANGED <<mail_vars, src_session>>
  /\ \/ /\ status = "ok"
        /\ DstReady /\ dst_folder
        /\ dst_session' = [DstSettled EXCEPT !.selected = TRUE]
     \/ /\ status = "err"
        /\ DstReady /\ (Refused \/ ~dst_folder)
        /\ dst_session' = [DstSettled EXCEPT !.selected = FALSE]
     \/ /\ status = "err"
        /\ DstLost
     \/ /\ status = "hang"
        /\ DstHangs
        /\ UNCHANGED dst_session

\* async-imap ends the stream of a SEARCH or FETCH at the tagged answer and
\* does not look at its status: what came before a NO is all there is, and
\* the call is Ok.  A refusal that comes out as an error is allowed as well.
FetchAllMessageIds(status, ids) ==
  /\ UNCHANGED <<mail_vars, src_session>>
  /\ \/ /\ status = "ok"
        /\ DstReady
        /\ ids \subseteq MidsOf(Stored)
        /\ Refused \/ ids = MidsOf(Stored)
        /\ UNCHANGED dst_session
     \/ /\ status = "err" /\ ids = {}
        /\ \/ DstReady /\ Refused /\ UNCHANGED dst_session
           \/ DstLost
     \/ /\ status = "hang" /\ ids = {}
        /\ DstHangs
        /\ UNCHANGED dst_session

CloseMailbox(status) ==
  /\ UNCHANGED <<kind, src_box, dst_folder, src_session, faults>>
  /\ \/ /\ status = "ok"
        /\ DstReady
        /\ dst_session' = [dst_session EXCEPT !.selected = FALSE]
        /\ dst_box' = Expunged
     \/ /\ status = "err"
        /\ DstReady /\ Refused
        /\ UNCHANGED <<dst_session, dst_box>>
     \/ /\ status = "err"
        /\ DstLost
        /\ dst_box' \in {dst_box, IF dst_session.up THEN Expunged ELSE dst_box}
     \/ /\ status = "hang"
        /\ DstHangs
        /\ UNCHANGED <<dst_session, dst_box>>

-----------------------------------------------------------------------------
(* Source: Client::examine and search_all_uids have no timeout, the two    *)
(* FETCHes are wrapped by their callers in sync.rs.                        *)

\* EXAMINE reads up to its own tagged answer, so what was late is gone.
Examine(status) ==
  /\ UNCHANGED <<mail_vars, dst_session>>
  /\ \/ /\ status = "ok"
        /\ src_session.up
        /\ src_session' =
             [src_session EXCEPT !.selected = TRUE, !.late = NoBody]
     \/ /\ status = "err"
        /\ src_session.up /\ Refused
        /\ src_session' =
             [src_session EXCEPT !.selected = FALSE, !.late = NoBody]
     \/ /\ status = "err"
        /\ SrcLost
     \/ /\ status = "hang"
        /\ "stall" \in faults
        /\ UNCHANGED src_session

SearchAllUids(status, uids) ==
  /\ UNCHANGED <<mail_vars, dst_session>>
  /\ \/ /\ status = "ok"
        /\ src_session.up
        /\ uids = src_box \/ (Refused /\ uids = {})
        /\ UNCHANGED src_session
     \/ /\ status = "err" /\ uids = {}
        /\ \/ src_session.up /\ Refused /\ UNCHANGED src_session
           \/ SrcLost
     \/ /\ status = "hang" /\ uids = {}
        /\ "stall" \in faults
        /\ UNCHANGED src_session

\* The UIDs a probe should return, and with no mailbox selected, where the
\* server rejects every FETCH, none.
Identified(uids) ==
  {u \in uids \cap src_box : src_session.selected /\ Mid(u) # NoId}

FetchMessageIdsForUids(uids, status, found) ==
  /\ UNCHANGED <<mail_vars, dst_session>>
  /\ \/ /\ status = "ok"
        /\ src_session.up
        /\ found \subseteq Identified(uids)
        /\ Refused \/ found = Identified(uids)
        /\ UNCHANGED src_session
     \/ /\ status = "err" /\ found = {}
        /\ \/ /\ src_session.up
              /\ Refused \/ ~src_session.selected
              /\ UNCHANGED src_session
           \/ SrcLost
     \/ /\ status = "timeout" /\ found = {}
        /\ src_session.up /\ "slow" \in faults
        /\ UNCHANGED src_session

\* messages.first(): the first FETCH answer on the wire, whatever its UID.
\* Late answers come before the one asked for, and so may the flags-only
\* answer about another client's change, which has no body.  There is none
\* when the message is gone or the FETCH is refused.
FirstAnswer(uid) ==
  IF ~src_session.selected THEN {NoBody}
  ELSE {b \in {Blank} : "unsolicited" \in faults} \cup
       (IF src_session.late # NoBody THEN {src_session.late}
        ELSE {uid} \cap src_box) \cup
       {b \in {NoBody} : /\ src_session.late = NoBody
                         /\ Refused \/ uid \notin src_box}

FetchFullByUid(uid, status, body) ==
  /\ UNCHANGED <<mail_vars, dst_session>>
  /\ \/ /\ status = "ok"
        /\ src_session.up
        /\ body \in FirstAnswer(uid)
        /\ src_session' = [src_session EXCEPT !.late = NoBody]
     \/ /\ status = "err" /\ body = NoBody
        /\ \/ /\ src_session.up
              /\ Refused \/ ~src_session.selected
              /\ src_session' = [src_session EXCEPT !.late = NoBody]
           \/ SrcLost
     \/ /\ status = "timeout" /\ body = NoBody
        /\ src_session.up /\ "slow" \in faults
        /\ \E l \in {NoBody, src_session.late} \cup
                    {u \in {uid} \cap src_box : src_session.selected} :
             src_session' = [src_session EXCEPT !.late = l]

-----------------------------------------------------------------------------
(* Client::append_message (wrapped in a timeout) and Client::reconnect     *)
(* (not wrapped).                                                          *)

\* The call reads the answer to its command line: anything but a
\* continuation is an error, and the server is left waiting for the literal.
AppendMisread ==
  \/ dst_session.owes = "answer"
  \/ /\ dst_session.owes = "nothing"
     /\ dst_session.selected /\ "unsolicited" \in faults

AppendMessage(body, status) ==
  /\ UNCHANGED <<kind, src_box, dst_folder, src_session, faults>>
  /\ \/ /\ status = "ok"
        /\ dst_session.up /\ dst_session.owes = "nothing"
        /\ dst_box' = Store(body)
        /\ UNCHANGED dst_session
     \/ /\ status = "err"
        /\ dst_session.up /\ dst_session.owes = "nothing" /\ Refused
        /\ UNCHANGED <<dst_box, dst_session>>
     \/ /\ status = "err"
        /\ dst_session.up /\ AppendMisread
        /\ dst_session' = [dst_session EXCEPT !.owes = "literal"]
        /\ UNCHANGED dst_box
     \/ \* the server takes this command for the literal it waits for
        /\ status \in {"err", "timeout"}
        /\ dst_session.up /\ dst_session.owes = "literal"
        /\ \/ UNCHANGED <<dst_box, dst_session>>
           \/ /\ dst_box' = Store(Garbled)
              /\ dst_session' = [dst_session EXCEPT !.owes = "answer"]
     \/ \* lost before or after the server stored the message
        /\ status = "err"
        /\ DstLost
        /\ \/ UNCHANGED dst_box
           \/ /\ dst_session.up /\ dst_session.owes = "nothing"
              /\ dst_box' = Store(body)
     \/ \* given up before the literal was complete
        /\ status = "timeout"
        /\ dst_session.up /\ dst_session.owes # "literal" /\ "slow" \in faults
        /\ dst_session' = [dst_session EXCEPT !.owes = "literal"]
        /\ UNCHANGED dst_box
     \/ \* given up after it: stored or not, the answer is still to come
        /\ status = "timeout"
        /\ dst_session.up /\ dst_session.owes = "nothing" /\ "slow" \in faults
        /\ dst_session' = [dst_session EXCEPT !.owes = "answer"]
        /\ dst_box' \in {dst_box, Store(body)}

\* self.session is replaced only when connect_and_auth succeeds, and the
\* new session has no mailbox selected.
ReconnectSrc(status) ==
  /\ UNCHANGED <<mail_vars, dst_session>>
  /\ \/ status = "ok" /\ src_session' = FreshSrc
     \/ status = "err" /\ "unreachable" \in faults /\ UNCHANGED src_session
     \/ status = "hang" /\ "stall" \in faults /\ UNCHANGED src_session

ReconnectDst(status) ==
  /\ UNCHANGED <<mail_vars, src_session>>
  /\ \/ status = "ok" /\ dst_session' = FreshDst
     \/ status = "err" /\ "unreachable" \in faults /\ UNCHANGED dst_session
     \/ status = "hang" /\ "stall" \in faults /\ UNCHANGED dst_session

-----------------------------------------------------------------------------
(* Another client of the source account, which EXAMINE does not keep out.  *)

Expunge ==
  /\ "expunge" \in faults
  /\ \E u \in src_box : src_box' = src_box \ {u}
  /\ UNCHANGED <<kind, dst_box, dst_folder, src_session, dst_session, faults>>
=============================================================================
