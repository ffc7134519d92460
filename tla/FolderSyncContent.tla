-------------------------- MODULE FolderSyncContent -------------------------
(***************************************************************************)
(* Theorems about which messages go over: none that was indexed, each as   *)
(* itself and none forgotten in a run without failures, and none at all in *)
(* a dry run.                                                              *)
(***************************************************************************)
EXTENDS FolderSyncSafety

Indexing == {"close", "examine", "search", "probe", "probeReconnect", "plan"}
Listed == {"probe", "probeReconnect", "plan"}

\* No answer of an earlier FETCH waits on the source connection.
NothingLate == src_session.late = NoBody

(***************************************************************************)
(* When no probe was cut short, the plan can miss that a message is on the *)
(* destination only when its probe ran over a session with no mailbox      *)
(* selected, and over such a session no body comes.                        *)
(***************************************************************************)
AllProbed == "probe" \notin cut

IndexInv ==
  /\ pc \in Indexing => dst_ids = indexed
  /\ pc \in {"search"} \cup Listed => NothingLate
  /\ pc = "plan" => unprobed = {}
  /\ pc \in Listed /\ AllProbed /\ src_session.selected =>
       \A u \in (src_uids \cap src_box) \ unprobed :
         Mid(u) # NoId => u \in src_mids
  /\ pc \in Transfer /\ AllProbed =>
       /\ src_session.selected =>
            \A u \in to_copy \cap src_box : Mid(u) \notin indexed
       /\ ~NothingLate => Mid(src_session.late) \notin indexed
  /\ pc \in {"append", "appendReconnect"} /\ AllProbed =>
       Mid(msg) \notin indexed
  /\ pc \in Transfer \cup {"done"} /\ AllProbed =>
       \A b \in Bodies : Mid(b) \in indexed => dst_box[b] = base[b]

(***************************************************************************)
(* A late answer can be waiting only after a failure was counted, or while *)
(* the failed FETCH is still to be tried again.                            *)
(***************************************************************************)
Faithful(u, b) == b = u \/ (b = Blank /\ "unsolicited" \in faults)

FaithInv ==
  /\ pc \in {"fetch", "append", "appendReconnect"} /\ stats.failed = 0 =>
       NothingLate
  /\ pc \in {"append", "appendReconnect"} /\ stats.failed = 0 =>
       Faithful(Uid, msg)
  /\ pc \in Transfer \cup {"done"} /\ stats.failed = 0 =>
       \A u \in Uids, b \in Bodies : <<u, b>> \in acked => Faithful(u, b)

(***************************************************************************)
(* Before the plan.                                                        *)
(***************************************************************************)
LEMMA IndexSetup ==
  ASSUME TypeInv, IndexInv, pc \in Setup \ {"plan"}, Step
  PROVE  IndexInv'
<1> USE DEF Setup, Transfer, Indexing, Listed
<1>1. CASE CreateFolder \/ Select
  BY <1>1
     DEF CreateFolder, Select, Proceed, GoTo, FolderFails, Hang, local_vars,
         IndexInv
<1>2. CASE Index
  BY <1>2 DEF Index, Proceed, GoTo, FolderFails, Hang, local_vars, IndexInv
<1>3. CASE Close
  BY <1>3 DEF Close, GoTo, Hang, local_vars, IndexInv
<1>4. CASE ExamineSource
  <2>1. ASSUME Examine("ok") PROVE NothingLate'
    BY <2>1 DEF Examine, NothingLate, TypeInv, TypeOK, ImapTypeOK, SrcSession
  <2>2. pc' = "search" => NothingLate'
    BY <1>4, <2>1 DEF ExamineSource, Proceed, FolderFails, Hang
  <2> QED
    BY <1>4, <2>2
       DEF ExamineSource, Proceed, GoTo, FolderFails, Hang, local_vars,
           history, IndexInv
<1>5. CASE Search
  <2>1. PICK status \in Outcome, uids \in SUBSET Uids :
          /\ SearchAllUids(status, uids)
          /\ \/ /\ status = "ok"
                /\ pc' = IF uids = {} THEN "plan" ELSE "probe"
                /\ src_uids' = uids /\ unprobed' = uids
                /\ UNCHANGED <<dst_ids, src_mids>>
             \/ status # "ok" /\ pc' \in {"failed", "hung"}
    BY <1>5 DEF Search, Proceed, FolderFails, Hang
  <2>2. CASE status = "ok"
    <3>1. src_session' = src_session /\ UNCHANGED <<src_box, kind>>
      BY <2>1, <2>2 DEF SearchAllUids, mail_vars
    <3> QED
      BY <1>5, <2>1, <2>2, <3>1
         DEF Search, history, IndexInv, NothingLate
  <2>3. CASE status # "ok"
    BY <2>1, <2>3 DEF IndexInv
  <2> QED BY <2>2, <2>3
<1>6. CASE Probe
  <2>1. PICK status \in Outcome, found \in SUBSET Uids :
          /\ FetchMessageIdsForUids(Chunk, status, found)
          /\ \/ /\ status = "ok" /\ Probed(found)
                /\ pc' = IF unprobed' = {} THEN "plan" ELSE "probe"
                /\ AllProbed' => AllProbed /\ found = Identified(Chunk)
                /\ UNCHANGED <<dst_ids, src_uids>>
             \/ /\ status # "ok" /\ pc' = "probeReconnect"
                /\ UNCHANGED <<local_vars, cut>>
             \/ status # "ok" /\ pc' = "failed"
    BY <1>6 DEF Probe, Answered, GoTo, FolderFails, AllProbed
  <2>2. UNCHANGED <<kind, src_box, dst_box, indexed, base>>
    BY <1>6, <2>1 DEF Probe, FetchMessageIdsForUids, mail_vars
  <2>3. /\ src_session'.selected = src_session.selected
        /\ NothingLate'
    BY <1>6, <2>1
       DEF Probe, FetchMessageIdsForUids, SrcLost, NothingLate, IndexInv,
           TypeInv, TypeOK, ImapTypeOK, SrcSession
  <2>4. CASE status = "ok"
    <3>1. AllProbed' /\ src_session.selected =>
            found = {u \in Chunk \cap src_box : Mid(u) # NoId}
      BY <2>1, <2>4 DEF Identified
    <3>2. AllProbed' /\ src_session.selected =>
            \A u \in (src_uids \cap src_box) \ unprobed' :
              Mid(u) # NoId => u \in src_mids'
      BY <1>6, <2>1, <2>4, <3>1 DEF Probed, IndexInv, Probe
    <3> QED
      BY <1>6, <2>1, <2>2, <2>3, <2>4, <3>2, MidStable DEF Probe, IndexInv
  <2>5. CASE status # "ok"
    BY <1>6, <2>1, <2>2, <2>3, <2>5, MidStable
       DEF Probe, local_vars, IndexInv, AllProbed
  <2> QED BY <2>4, <2>5
<1>7. CASE ProbeReconnect
  <2>1. UNCHANGED <<kind, src_box, indexed, base, dst_ids, src_uids, cut>>
    BY <1>7 DEF ProbeReconnect, ReconnectSrc, FolderFails, Hang, local_vars,
                mail_vars, history
  <2>2. \/ pc' \in {"failed", "hung"}
        \/ pc' = "probe" /\ src_session' = FreshSrc
    BY <1>7 DEF ProbeReconnect, ReconnectSrc, FolderFails, Hang
  <2> QED
    BY <1>7, <2>1, <2>2, MidStable
       DEF ProbeReconnect, IndexInv, FreshSrc, NothingLate
<1> QED
  BY <1>1, <1>2, <1>3, <1>4, <1>5, <1>6, <1>7
     DEF Step, Plan, Fetch, FetchReconnect, AppendToDst, AppendReconnect

\* What the plan leaves out is what it must.
LEMMA IndexPlan ==
  ASSUME TypeInv, CopyInv, IndexInv, Plan
  PROVE  IndexInv'
<1>1. /\ dst_ids = indexed /\ indexed \subseteq MessageIds
      /\ unprobed = {} /\ NothingLate /\ dst_box = base
  BY DEF Plan, IndexInv, CopyInv, TypeInv, TypeOK, Indexing, Listed, Setup
<1>2. AllProbed /\ src_session.selected =>
        \A u \in to_copy' \cap src_box : Mid(u) \notin indexed
  BY <1>1, ImapAssumption DEF Plan, AlreadyThere, IndexInv, Listed
<1>3. UNCHANGED <<src_session, src_box, dst_box, base, indexed, kind, cut>>
  BY DEF Plan, imap_vars, mail_vars, history
<1>4. pc' \in {"done", "fetch"}
  BY DEF Plan
<1> QED
  BY <1>1, <1>2, <1>3, <1>4, MidStable
     DEF IndexInv, Indexing, Listed, NothingLate, Transfer, AllProbed

(***************************************************************************)
(* The transfer.                                                           *)
(***************************************************************************)
LEMMA NoIdNotIndexed ==
  ASSUME TypeInv
  PROVE  /\ NoId \notin indexed
         /\ Mid(Blank) = NoId /\ Mid(Garbled) = NoId
BY ImapAssumption DEF TypeInv, TypeOK, Mid

\* A FETCH hands over, and leaves behind, only messages not indexed.
LEMMA IndexFetched ==
  ASSUME TypeInv, IndexInv, pc \in Transfer, AllProbed,
         NEW status, NEW body, FetchFullByUid(Uid, status, body)
  PROVE  /\ body # NoBody => Mid(body) \notin indexed
         /\ src_session'.late # NoBody =>
              Mid(src_session'.late) \notin indexed
         /\ src_session'.selected = src_session.selected
         /\ UNCHANGED <<kind, src_box, dst_box>>
<1>1. ImapTypeOK /\ Uid \in to_copy
  BY LeastUid DEF TypeInv, TypeOK
<1>2. src_session.selected /\ Uid \in src_box => Mid(Uid) \notin indexed
  BY <1>1 DEF IndexInv
<1>3. src_session.late # NoBody => Mid(src_session.late) \notin indexed
  BY DEF IndexInv, NothingLate
<1>4. UNCHANGED <<kind, src_box, dst_box>>
  BY DEF FetchFullByUid, mail_vars
<1> QED BY <1>1, <1>2, <1>3, <1>4, FetchOutcome, NoIdNotIndexed

LEMMA IndexFetching ==
  ASSUME TypeInv, IndexInv, Fetch \/ FetchReconnect
  PROVE  IndexInv'
<1> USE DEF Transfer, Indexing, Listed
<1>1. CASE Fetch
  <2>1. PICK status \in Outcome, body \in Bodies \cup {NoBody} :
          /\ FetchFullByUid(Uid, status, body)
          /\ \/ body # NoBody /\ Received(body)
             \/ MessageFails
             \/ GoTo("fetchReconnect")
    BY <1>1 DEF Fetch
  <2>2. pc = "fetch" /\ UNCHANGED <<indexed, base, cut>>
    BY <1>1 DEF Fetch
  <2>3. AllProbed =>
          /\ body # NoBody => Mid(body) \notin indexed
          /\ src_session'.late # NoBody =>
               Mid(src_session'.late) \notin indexed
          /\ src_session'.selected = src_session.selected
          /\ UNCHANGED <<kind, src_box, dst_box>>
    BY <2>1, <2>2, IndexFetched
  <2>4. /\ pc' \in {"fetch", "fetchReconnect", "append", "done"}
        /\ to_copy' \subseteq to_copy
        /\ pc' = "append" => msg' = body /\ body # NoBody
    BY <2>1 DEF Received, Keep, MessageFails, Settle, GoTo, local_vars
  <2> QED
    BY <2>2, <2>3, <2>4, MidStable DEF IndexInv, NothingLate, AllProbed
<1>2. CASE FetchReconnect
  <2>1. /\ pc = "fetchReconnect"
        /\ UNCHANGED <<kind, src_box, dst_box, indexed, base, cut>>
    BY <1>2 DEF FetchReconnect, ReconnectSrc, mail_vars, history
  <2>2. src_session' = src_session \/ src_session' = FreshSrc
    BY <1>2 DEF FetchReconnect, ReconnectSrc
  <2>3. /\ pc' \in {"fetch", "done", "hung"}
        /\ to_copy' \subseteq to_copy
    BY <1>2
       DEF FetchReconnect, MessageFails, Settle, Hang, local_vars
  <2> QED
    BY <2>1, <2>2, <2>3, MidStable
       DEF IndexInv, NothingLate, FreshSrc, AllProbed
<1> QED BY <1>1, <1>2

\* Whatever an append puts on the destination was not indexed.
LEMMA IndexAppending ==
  ASSUME TypeInv, IndexInv, AppendToDst \/ AppendReconnect
  PROVE  IndexInv'
<1> USE DEF Transfer, Indexing, Listed
<1>1. pc \in {"append", "appendReconnect"}
  BY DEF AppendToDst, AppendReconnect
<1>2. /\ UNCHANGED <<kind, src_box, src_session, indexed, base, cut>>
      /\ to_copy' \subseteq to_copy
      /\ pc' \in {"fetch", "append", "appendReconnect", "done", "hung"}
      /\ pc' \in {"append", "appendReconnect"} => msg' = msg
  BY DEF AppendToDst, AppendMessage, AppendReconnect, ReconnectDst,
         MessageFails, Settle, GoTo, Hang, local_vars, mail_vars, history
<1>3. AllProbed =>
        \A b \in Bodies : Mid(b) \in indexed => dst_box'[b] = dst_box[b]
  <2>1. CASE AppendToDst
    <3>1. dst_box' \in {dst_box, Store(msg), Store(Garbled)}
      BY <1>1, <2>1, AppendBox DEF AppendToDst, TypeInv, TypeOK
    <3>2. AllProbed => Mid(msg) \notin indexed /\ Mid(Garbled) \notin indexed
      BY <1>1, NoIdNotIndexed DEF IndexInv
    <3> QED BY <3>1, <3>2 DEF Store, TypeInv, TypeOK, ImapTypeOK
  <2>2. CASE AppendReconnect
    BY <2>2 DEF AppendReconnect, ReconnectDst, mail_vars
  <2> QED BY <2>1, <2>2
<1> QED BY <1>1, <1>2, <1>3, MidStable DEF IndexInv, NothingLate, AllProbed

LEMMA IndexNext == TypeInv /\ CopyInv /\ IndexInv /\ [Next]_vars => IndexInv'
<1> SUFFICES ASSUME TypeInv, CopyInv, IndexInv, [Next]_vars
             PROVE  IndexInv'
  OBVIOUS
<1>1. CASE Step /\ pc \in Setup \ {"plan"}
  BY <1>1, IndexSetup
<1>2. CASE Plan
  BY <1>2, IndexPlan
<1>3. CASE Step /\ pc \in Transfer
  <2>1. Fetch \/ FetchReconnect \/ AppendToDst \/ AppendReconnect
    BY <1>3
       DEF Step, Transfer, CreateFolder, Select, Index, Close, ExamineSource,
           Search, Probe, ProbeReconnect, Plan
  <2> QED BY <2>1, IndexFetching, IndexAppending
<1>4. CASE Crash
  BY <1>4 DEF Crash, IndexInv, Indexing, Listed, Transfer
<1>5. CASE Rerun
  BY <1>5 DEF Rerun, IndexInv, Indexing, Listed, Transfer
<1>6. CASE OtherClient
  <2>1. /\ src_box' \subseteq src_box
        /\ UNCHANGED <<kind, src_session, dst_box, pc, local_vars, history>>
    BY <1>6 DEF OtherClient, Expunge
  <2> QED
    BY <2>1, MidStable
       DEF IndexInv, NothingLate, AllProbed, local_vars, history
<1>7. CASE UNCHANGED vars
  BY <1>7, MidStable
     DEF vars, imap_vars, mail_vars, local_vars, history, IndexInv,
         NothingLate, AllProbed
<1> QED
  BY <1>1, <1>2, <1>3, <1>4, <1>5, <1>6, <1>7, StepPlace
     DEF Next, Terminated

\* A message whose Message-Id the destination index held is not appended,
\* whatever is lost, late or refused in between, except where the refusal of
\* a probe passed for its answer.
THEOREM IndexedStays == Spec => []IndexedNeverAppended
<1>1. Init => TypeInv /\ CopyInv /\ IndexInv
  BY TypeInit, CopyInit DEF Init, IndexInv, Indexing, Listed, Transfer
<1>2. /\ TypeInv /\ CopyInv /\ IndexInv
      /\ [Next]_vars
      => (TypeInv /\ CopyInv /\ IndexInv)'
  BY TypeNext, CopyNext, IndexNext
<1>3. TypeInv /\ IndexInv => IndexedNeverAppended
  BY DEF IndexInv, IndexedNeverAppended, AllProbed, Transfer, Gain, TypeInv,
         TypeOK, ImapTypeOK
<1> QED BY <1>1, <1>2, <1>3, PTL DEF Spec

(***************************************************************************)
(* Messages are copied as themselves.                                      *)
(***************************************************************************)
LEMMA SettleCounts ==
  ASSUME TypeInv, NEW field \in Fields, Settle(field)
  PROVE  /\ stats'.failed = 0 => stats.failed = 0
         /\ field = "failed" => stats'.failed # 0
         /\ pc' \in {"fetch", "done"}
BY DEF TypeInv, TypeOK, Settle, Fields

LEMMA FaithFetching ==
  ASSUME TypeInv, FaithInv, Fetch \/ FetchReconnect
  PROVE  FaithInv'
<1> USE DEF Transfer, Fields
<1>1. /\ UNCHANGED <<acked, faults>>
      /\ pc \in {"fetch", "fetchReconnect"}
  BY DEF Fetch, FetchFullByUid, FetchReconnect, ReconnectSrc, mail_vars,
         history
<1>2. CASE Fetch
  <2>1. PICK status \in Outcome, body \in Bodies \cup {NoBody} :
          /\ FetchFullByUid(Uid, status, body)
          /\ \/ status = "ok" /\ body # NoBody /\ Received(body)
             \/ MessageFails
             \/ GoTo("fetchReconnect")
    BY <1>2 DEF Fetch, Answered
  <2>2. pc = "fetch" /\ ImapTypeOK
    BY <1>2 DEF Fetch, TypeInv, TypeOK
  <2>3. CASE MessageFails
    <3>1. stats'.failed # 0
      BY <2>3, SettleCounts DEF MessageFails
    <3> QED BY <3>1 DEF FaithInv
  <2>4. CASE GoTo("fetchReconnect")
    BY <1>1, <2>2, <2>4 DEF GoTo, local_vars, FaithInv, Faithful
  <2>5. CASE status = "ok" /\ body # NoBody /\ Received(body)
    <3>1. NothingLate'
      BY <2>1, <2>2, <2>5, FetchOutcome DEF NothingLate
    <3>2. stats.failed = 0 => Faithful(Uid, body)
      BY <2>1, <2>2, <2>5, FetchOutcome DEF FaithInv, NothingLate, Faithful
    <3>3. CASE Settle("skipped") \/ Settle("would_copy")
      BY <1>1, <2>2, <3>1, <3>3, SettleCounts DEF FaithInv, Faithful
    <3>4. CASE Keep(body)
      <4>1. Uid' = Uid
        BY <3>4 DEF Keep, Uid
      <4> QED
        BY <1>1, <2>2, <3>1, <3>2, <3>4, <4>1
           DEF Keep, FaithInv, Faithful
    <3> QED BY <2>5, <3>3, <3>4 DEF Received
  <2> QED BY <2>1, <2>3, <2>4, <2>5
<1>3. CASE FetchReconnect
  <2>1. CASE MessageFails
    <3>1. stats'.failed # 0
      BY <2>1, SettleCounts DEF MessageFails
    <3> QED BY <3>1 DEF FaithInv
  <2>2. CASE pc' = "fetch" /\ src_session' = FreshSrc /\ stats' = stats
    BY <1>1, <2>2 DEF FaithInv, Faithful, NothingLate, FreshSrc
  <2>3. CASE Hang
    BY <2>3 DEF Hang, FaithInv
  <2> QED
    BY <1>3, <2>1, <2>2, <2>3 DEF FetchReconnect, ReconnectSrc
<1> QED BY <1>2, <1>3

LEMMA FaithAppending ==
  ASSUME TypeInv, FaithInv, AppendToDst \/ AppendReconnect
  PROVE  FaithInv'
<1> USE DEF Transfer, Fields
<1>1. /\ UNCHANGED <<src_session, faults>>
      /\ pc \in {"append", "appendReconnect"}
  BY DEF AppendToDst, AppendMessage, AppendReconnect, ReconnectDst, mail_vars
<1>2. CASE MessageFails
  <2>1. stats'.failed # 0
    BY <1>2, SettleCounts DEF MessageFails
  <2> QED BY <2>1 DEF FaithInv
<1>3. CASE Settle("copied") /\ acked' = acked \cup {<<Uid, msg>>}
  BY <1>1, <1>3, SettleCounts DEF FaithInv, Faithful, NothingLate
<1>4. CASE /\ pc' \in {"append", "appendReconnect"}
           /\ UNCHANGED <<to_copy, msg, stats, acked>>
  <2>1. Uid' = Uid
    BY <1>4 DEF Uid
  <2> QED BY <1>1, <1>4, <2>1 DEF FaithInv, Faithful, NothingLate
<1>5. CASE Hang
  BY <1>5 DEF Hang, FaithInv
<1> QED
  BY <1>2, <1>3, <1>4, <1>5
     DEF AppendToDst, AppendReconnect, GoTo, local_vars, history

LEMMA FaithNext ==
  TypeInv /\ CopyInv /\ IndexInv /\ FaithInv /\ [Next]_vars => FaithInv'
<1> SUFFICES ASSUME TypeInv, CopyInv, IndexInv, FaithInv, [Next]_vars
             PROVE  FaithInv'
  OBVIOUS
<1>1. CASE Step /\ pc \in Setup \ {"plan"}
  BY <1>1, BeforePlan DEF FaithInv, Setup, Transfer
<1>2. CASE Plan
  <2>1. acked' = {} /\ NothingLate' /\ pc' \in {"fetch", "done"}
    BY <1>2
       DEF Plan, CopyInv, IndexInv, Setup, Listed, NothingLate, history,
           imap_vars
  <2> QED BY <2>1 DEF FaithInv
<1>3. CASE Step /\ pc \in Transfer
  <2>1. Fetch \/ FetchReconnect \/ AppendToDst \/ AppendReconnect
    BY <1>3
       DEF Step, Transfer, CreateFolder, Select, Index, Close, ExamineSource,
           Search, Probe, ProbeReconnect, Plan
  <2> QED BY <2>1, FaithFetching, FaithAppending
<1>4. CASE Crash
  BY <1>4 DEF Crash, FaithInv, Transfer
<1>5. CASE Rerun
  BY <1>5 DEF Rerun, FaithInv, Transfer
<1>6. CASE OtherClient \/ UNCHANGED vars
  <2>1. UNCHANGED <<src_session, faults, pc, stats, acked, to_copy, msg>>
    BY <1>6
       DEF OtherClient, Expunge, vars, imap_vars, mail_vars, local_vars,
           history
  <2>2. Uid' = Uid
    BY <2>1 DEF Uid
  <2> QED BY <2>1, <2>2 DEF FaithInv, Faithful, NothingLate
<1> QED
  BY <1>1, <1>2, <1>3, <1>4, <1>5, <1>6, StepPlace DEF Next, Terminated

\* In a folder that reports no failure every acknowledged append carried the
\* message of its own UID, late answers of timed-out calls or not.
THEOREM CleanCopiesAreFaithful == Spec => []CleanRunCopiesFaithfully
<1>1. Init => TypeInv /\ CopyInv /\ IndexInv /\ FaithInv
  BY TypeInit, CopyInit
     DEF Init, IndexInv, FaithInv, Indexing, Listed, Transfer
<1>2. /\ TypeInv /\ CopyInv /\ IndexInv /\ FaithInv
      /\ [Next]_vars
      => (TypeInv /\ CopyInv /\ IndexInv /\ FaithInv)'
  BY TypeNext, CopyNext, IndexNext, FaithNext
<1>3. FaithInv => CleanRunCopiesFaithfully
  BY DEF FaithInv, CleanRunCopiesFaithfully, Faithful
<1> QED BY <1>1, <1>2, <1>3, PTL DEF Spec

(***************************************************************************)
(* Nothing is left out.  What the plan or the loop passed over was         *)
(* indexed, too big or sent; and what was indexed comes from a message     *)
(* that was stored and that only CLOSE can have removed since.             *)
(***************************************************************************)
DeliverInv ==
  pc \in Transfer \cup {"done"} /\ stats.failed = 0 /\ ~dry_run =>
    \A u \in src_uids \ to_copy :
      Mid(u) \in indexed \/ Big(u) \/ \E b \in Bodies : <<u, b>> \in acked

IdInv ==
  \A m \in indexed :
    \E b \in Uids : Mid(b) = m /\ (dst_box[b] > 0 \/ Deleted(b))

LEMMA AttributesStable ==
  ASSUME kind' = kind
  PROVE  \A b : /\ Mid(b)' = Mid(b)
                /\ Big(b)' = Big(b)
                /\ Deleted(b)' = Deleted(b)
BY DEF Mid, Big, Deleted

\* Without a failure so far, only its own size makes the loop skip a message.
LEMMA SkipsOnlyBig ==
  ASSUME TypeInv, FaithInv, Fetch, stats.failed = 0, ~dry_run,
         to_copy' # to_copy
  PROVE  stats'.failed # 0 \/ Big(Uid)
<1>1. PICK status \in Outcome, body \in Bodies \cup {NoBody} :
        /\ FetchFullByUid(Uid, status, body)
        /\ \/ status = "ok" /\ body # NoBody /\ Received(body)
           \/ MessageFails
           \/ GoTo("fetchReconnect")
  BY DEF Fetch, Answered
<1>2. pc = "fetch" /\ ImapTypeOK
  BY DEF Fetch, TypeInv, TypeOK
<1>3. CASE MessageFails
  BY <1>3, SettleCounts DEF MessageFails, Fields
<1>4. CASE status = "ok" /\ body # NoBody /\ Received(body)
  <2>1. Big(body)
    BY <1>4 DEF Received, Keep
  <2>2. body = Uid \/ body = Blank
    BY <1>1, <1>2, <1>4, FetchOutcome DEF FaithInv, NothingLate
  <2> QED BY <2>1, <2>2, ImapAssumption DEF Big
<1> QED BY <1>1, <1>3, <1>4 DEF GoTo, local_vars

LEMMA DeliverTransfer ==
  ASSUME TypeInv, FaithInv, DeliverInv, Step, pc \in Transfer
  PROVE  DeliverInv'
<1>1. UNCHANGED <<src_uids, dry_run, indexed, kind>>
  BY InTransfer
<1>2. SUFFICES ASSUME pc' \in Transfer \cup {"done"}, stats'.failed = 0,
                      ~dry_run,
                      NEW u \in src_uids \ to_copy'
               PROVE  \/ Mid(u) \in indexed \/ Big(u)
                      \/ \E b \in Bodies : <<u, b>> \in acked'
  BY <1>1, AttributesStable DEF DeliverInv
<1>3. acked \subseteq acked'
  BY InTransfer
<1>4. stats.failed = 0
  BY <1>2, InTransfer, SettleCounts DEF Fields
<1>5. CASE u \notin to_copy
  BY <1>2, <1>3, <1>4, <1>5 DEF DeliverInv
<1>6. CASE u \in to_copy
  <2>1. u = Uid /\ to_copy' # to_copy
    BY <1>2, <1>6, InTransfer DEF Settle
  <2>2. CASE Fetch
    BY <1>2, <1>4, <2>1, <2>2, SkipsOnlyBig
  <2>3. CASE FetchReconnect
    <3>1. MessageFails
      BY <2>1, <2>3 DEF FetchReconnect, Hang, local_vars
    <3> QED BY <1>2, <3>1, SettleCounts DEF MessageFails, Fields
  <2>4. CASE AppendReconnect
    <3>1. MessageFails
      BY <2>1, <2>4 DEF AppendReconnect, Hang, local_vars
    <3> QED BY <1>2, <3>1, SettleCounts DEF MessageFails, Fields
  <2>5. CASE AppendToDst
    <3>1. msg \in Bodies
      BY <2>5 DEF AppendToDst, TypeInv
    <3>2. MessageFails \/ acked' = acked \cup {<<Uid, msg>>}
      BY <2>1, <2>5 DEF AppendToDst, GoTo, local_vars
    <3>3. ~MessageFails
      BY <1>2, SettleCounts DEF MessageFails, Fields
    <3> QED BY <2>1, <3>1, <3>2, <3>3
  <2>6. Fetch \/ FetchReconnect \/ AppendToDst \/ AppendReconnect
    BY DEF Step, Transfer, CreateFolder, Select, Index, Close, ExamineSource,
           Search, Probe, ProbeReconnect, Plan
  <2> QED BY <2>2, <2>3, <2>4, <2>5, <2>6
<1> QED BY <1>5, <1>6

LEMMA DeliverNext ==
  TypeInv /\ IndexInv /\ FaithInv /\ DeliverInv /\ [Next]_vars => DeliverInv'
<1> SUFFICES ASSUME TypeInv, IndexInv, FaithInv, DeliverInv, [Next]_vars
             PROVE  DeliverInv'
  OBVIOUS
<1>1. CASE Step /\ pc \in Setup \ {"plan"}
  BY <1>1, BeforePlan DEF DeliverInv, Setup, Transfer
<1>2. CASE Plan
  <2>1. /\ UNCHANGED <<src_uids, dry_run, indexed, kind>>
        /\ src_uids \ to_copy' \subseteq {u \in src_uids : Mid(u) \in indexed}
    BY <1>2 DEF Plan, AlreadyThere, IndexInv, Indexing, history, imap_vars,
                mail_vars, TypeInv, TypeOK
  <2> QED BY <2>1, AttributesStable DEF DeliverInv
<1>3. CASE Step /\ pc \in Transfer
  BY <1>3, DeliverTransfer
<1>4. CASE Crash \/ Rerun
  BY <1>4 DEF Crash, Rerun, DeliverInv, Transfer
<1>5. CASE OtherClient \/ UNCHANGED vars
  <2>1. UNCHANGED <<pc, src_uids, to_copy, dry_run, stats, indexed, kind,
                    acked>>
    BY <1>5 DEF OtherClient, Expunge, vars, imap_vars, mail_vars, local_vars,
                history
  <2> QED BY <2>1, AttributesStable DEF DeliverInv
<1> QED
  BY <1>1, <1>2, <1>3, <1>4, <1>5, StepPlace DEF Next, Terminated

\* Only CLOSE takes messages from the destination, and only flagged ones.
LEMMA BoxKept ==
  ASSUME TypeInv, [Next]_vars
  PROVE  /\ kind' = kind
         /\ \A b \in Uids : /\ dst_box'[b] \in Nat
                            /\ dst_box[b] <= dst_box'[b] \/ Deleted(b)
<1>1. /\ \A b \in Bodies : dst_box[b] \in Nat
      /\ \A b \in Bodies : dst_box'[b] \in Nat
  BY TypeNext DEF TypeInv, TypeOK, ImapTypeOK
<1>2. Uids \subseteq Bodies
  BY DEF Bodies
<1>3. CASE Step /\ pc \in Setup \ {"plan"}
  <2>1. CASE Close
    <3>1. dst_box' \in {dst_box, Expunged}
      BY <2>1 DEF Close, CloseMailbox
    <3> QED BY <1>1, <1>2, <1>3, <3>1, BeforePlan DEF Expunged
  <2>2. pc = "close" => Close
    BY <1>3 DEF Step, CreateFolder, Select, Index, ExamineSource, Search,
                Probe, ProbeReconnect, Plan, Fetch, FetchReconnect,
                AppendToDst, AppendReconnect
  <2> QED BY <1>1, <1>2, <1>3, <2>1, <2>2, BeforePlan
<1>4. CASE Step /\ pc \in Transfer
  BY <1>1, <1>2, <1>4, InTransfer
<1>5. CASE Crash
  BY <1>1, <1>2, <1>5 DEF Crash, Store, TypeInv, TypeOK, ImapTypeOK
<1>6. CASE Plan \/ Rerun \/ OtherClient \/ UNCHANGED vars
  BY <1>1, <1>2, <1>6
     DEF Plan, Rerun, OtherClient, Expunge, vars, imap_vars, mail_vars
<1> QED
  BY <1>3, <1>4, <1>5, <1>6, StepPlace DEF Next, Terminated

\* The index is made once in a run, of what is stored then.
LEMMA IndexMade ==
  ASSUME TypeInv, [Next]_vars
  PROVE  \/ indexed' = {}
         \/ indexed' = indexed
         \/ indexed' \subseteq MidsOf(Stored) /\ dst_box' = dst_box
<1>1. CASE Index
  BY <1>1 DEF Index, FetchAllMessageIds, mail_vars
<1>2. CASE Rerun
  BY <1>2 DEF Rerun
<1>3. CASE Step /\ pc \in Transfer
  BY <1>3, InTransfer
<1>4. CASE Step /\ pc \notin Transfer /\ ~Index
  BY <1>4
     DEF Step, Transfer, CreateFolder, Select, Close, ExamineSource, Search,
         Probe, ProbeReconnect, Plan, Fetch, FetchReconnect, AppendToDst,
         AppendReconnect, history
<1>5. CASE Crash \/ OtherClient \/ UNCHANGED vars
  BY <1>5 DEF Crash, OtherClient, vars, history
<1> QED BY <1>1, <1>2, <1>3, <1>4, <1>5 DEF Next, Terminated

LEMMA IdNext == TypeInv /\ IdInv /\ [Next]_vars => IdInv'
<1> SUFFICES ASSUME TypeInv, IdInv, [Next]_vars, NEW m \in indexed'
             PROVE  \E b \in Uids : Mid(b)' = m /\ (dst_box'[b] > 0 \/ Deleted(b)')
  BY DEF IdInv
<1>1. \A b \in Uids : /\ dst_box[b] \in Nat /\ dst_box'[b] \in Nat
                      /\ dst_box[b] <= dst_box'[b] \/ Deleted(b)
  BY BoxKept DEF TypeInv, TypeOK, ImapTypeOK, Bodies
<1>2. \E b \in Uids : Mid(b) = m /\ (dst_box[b] > 0 \/ Deleted(b))
  <2>1. CASE indexed' = indexed
    BY <2>1 DEF IdInv
  <2>2. CASE indexed' \subseteq MidsOf(Stored)
    BY <2>2, ImapAssumption DEF MidsOf, Stored, Mid
  <2> QED BY <2>1, <2>2, IndexMade
<1>3. PICK b \in Uids : Mid(b) = m /\ (dst_box[b] > 0 \/ Deleted(b))
  BY <1>2
<1>4. dst_box'[b] > 0 \/ Deleted(b)
  BY <1>1, <1>3
<1> QED BY <1>3, <1>4, BoxKept, AttributesStable

LEMMA WithoutLoss ==
  /\ Spec => [](TypeInv /\ CopyInv /\ IndexInv)
  /\ Spec => [](FaithInv /\ DeliverInv /\ IdInv)
<1>1. Init => /\ TypeInv /\ CopyInv /\ IndexInv /\ FaithInv
              /\ DeliverInv /\ IdInv
  BY TypeInit, CopyInit
     DEF Init, IndexInv, FaithInv, DeliverInv, IdInv, Indexing, Listed,
         Transfer
<1>2. /\ TypeInv /\ CopyInv /\ IndexInv /\ FaithInv /\ DeliverInv /\ IdInv
      /\ [Next]_vars
      => (/\ TypeInv /\ CopyInv /\ IndexInv /\ FaithInv
          /\ DeliverInv /\ IdInv)'
  BY TypeNext, CopyNext, IndexNext, FaithNext, DeliverNext, IdNext
<1> QED BY <1>1, <1>2, PTL DEF Spec

\* A run that reports no failure lost no message.
THEOREM CleanRunsDeliver == Spec => []CleanRunDelivers
<1>1. TypeInv /\ CopyInv /\ CountInv /\ FaithInv /\ DeliverInv /\ IdInv
      => CleanRunDelivers
  <2> SUFFICES ASSUME TypeInv, CopyInv, CountInv, FaithInv, DeliverInv, IdInv,
                      pc = "done", stats.failed = 0, ~dry_run,
                      NEW u \in src_uids
               PROVE  \/ Big(u)
                      \/ dst_box[u] > 0
                      \/ <<u, Blank>> \in acked
                      \/ \E b \in Uids : /\ Mid(b) = Mid(u) /\ Mid(u) # NoId
                                         /\ dst_box[b] > 0 \/ Deleted(b)
    BY DEF CleanRunDelivers
  <2>1. CASE Mid(u) \in indexed
    BY <2>1, NoIdNotIndexed DEF IdInv
  <2>2. CASE \E b \in Bodies : <<u, b>> \in acked
    <3>1. u \in Uids /\ u \in Bodies
      BY DEF TypeInv, TypeOK, Bodies
    <3>2. <<u, u>> \in acked \/ <<u, Blank>> \in acked
      BY <2>2, <3>1 DEF FaithInv, Faithful
    <3>3. CASE <<u, u>> \in acked
      <4>1. IsFiniteSet(Sent(u)) /\ Cardinality(Sent(u)) \in Nat
        BY FiniteUids DEF Sent
      <4>2. Cardinality(Sent(u)) # 0
        BY <3>1, <3>3, <4>1, FS_EmptySet DEF Sent
      <4> QED
        BY <3>1, <4>1, <4>2 DEF CopyInv, TypeInv, TypeOK, ImapTypeOK
    <3> QED BY <3>2, <3>3
  <2>3. to_copy = {}
    BY DEF CountInv
  <2> QED BY <2>1, <2>2, <2>3 DEF DeliverInv
<1> QED BY <1>1, WithoutLoss, Counting, PTL

(***************************************************************************)
(* A dry run.                                                              *)
(***************************************************************************)
DryInv == dry_run => pc \notin {"append", "appendReconnect"}

LEMMA DryNext == TypeInv /\ DryInv /\ [Next]_vars => DryInv'
<1> SUFFICES ASSUME TypeInv, DryInv, [Next]_vars PROVE DryInv'
  OBVIOUS
<1>1. CASE Step /\ pc \in Setup \ {"plan"}
  BY <1>1, BeforePlan DEF DryInv, Setup
<1>2. CASE Plan
  BY <1>2 DEF Plan, DryInv
<1>3. CASE Fetch
  <2>1. PICK body \in Bodies \cup {NoBody} :
          Received(body) \/ MessageFails \/ GoTo("fetchReconnect")
    BY <1>3 DEF Fetch
  <2> QED
    BY <2>1 DEF Received, Keep, MessageFails, Settle, GoTo, DryInv
<1>4. CASE FetchReconnect
  BY <1>4 DEF FetchReconnect, MessageFails, Settle, Hang, DryInv
<1>5. CASE AppendToDst \/ AppendReconnect
  BY <1>5 DEF AppendToDst, AppendReconnect, MessageFails, Settle, GoTo, Hang,
              local_vars, DryInv
<1>6. CASE Crash \/ Rerun
  BY <1>6 DEF Crash, Rerun, DryInv
<1>7. CASE OtherClient \/ UNCHANGED vars
  BY <1>7 DEF OtherClient, vars, local_vars, DryInv
<1>8. Step => \/ pc \in Setup \ {"plan"} \/ Plan
              \/ Fetch \/ FetchReconnect \/ AppendToDst \/ AppendReconnect
  BY DEF Step, Setup, CreateFolder, Select, Index, Close, ExamineSource,
         Search, Probe, ProbeReconnect
<1> QED
  BY <1>1, <1>2, <1>3, <1>4, <1>5, <1>6, <1>7, <1>8 DEF Next, Terminated

\* All that a dry run can do to the mailbox is to close it.
LEMMA DryBox ==
  ASSUME TypeInv, DryInv, dry_run, [Next]_vars
  PROVE  dst_box' \in {dst_box, Expunged}
<1>1. CASE Step /\ pc \in Setup \ {"plan", "close"}
  BY <1>1, BeforePlan
<1>2. CASE Close
  BY <1>2 DEF Close, CloseMailbox
<1>3. CASE Plan
  BY <1>3 DEF Plan, imap_vars, mail_vars
<1>4. CASE Step /\ pc \in Transfer
  BY <1>4, InTransfer DEF DryInv
<1>5. CASE Crash \/ Rerun \/ OtherClient \/ UNCHANGED vars
  BY <1>5 DEF Crash, Rerun, OtherClient, Expunge, vars, imap_vars,
              mail_vars, DryInv
<1>6. Step /\ pc = "close" => Close
  BY DEF Step, CreateFolder, Select, Index, ExamineSource, Search, Probe,
         ProbeReconnect, Plan, Fetch, FetchReconnect, AppendToDst,
         AppendReconnect
<1> QED
  BY <1>1, <1>2, <1>3, <1>4, <1>5, <1>6, StepPlace DEF Next, Terminated

LEMMA DryStep ==
  ASSUME TypeInv, DryInv, dry_run, [Next]_vars
  PROVE  \A b \in Bodies : dst_box'[b] <= dst_box[b]
<1>1. \A b \in Bodies : /\ dst_box[b] \in Nat /\ 0 <= dst_box[b]
                        /\ Expunged[b] <= dst_box[b]
  BY DEF TypeInv, TypeOK, ImapTypeOK, Expunged
<1> QED BY <1>1, DryBox

LEMMA AlwaysDry == Spec => [](TypeInv /\ DryInv)
<1>1. Init => TypeInv /\ DryInv
  BY TypeInit DEF Init, DryInv
<1>2. TypeInv /\ DryInv /\ [Next]_vars => (TypeInv /\ DryInv)'
  BY TypeNext, DryNext
<1> QED BY <1>1, <1>2, PTL DEF Spec

\* No step of a dry run adds a message to the destination.
THEOREM DryRunIsDry == Spec => DryRunAddsNothing
<1>1. TypeInv /\ DryInv /\ [Next]_vars =>
        [dry_run => \A b \in Bodies : dst_box'[b] <= dst_box[b]]_vars
  BY DryStep
<1> QED BY <1>1, AlwaysDry, PTL DEF Spec, DryRunAddsNothing

=============================================================================
