-------------------------- MODULE FolderSyncProofs --------------------------
(***************************************************************************)
(* Theorems about FolderSync, for any set of UIDs, any messages, any set   *)
(* of faults, batch size and number of runs.                               *)
(***************************************************************************)
EXTENDS FolderSync, FiniteSetTheorems, WellFoundedInduction, TLAPS

(***************************************************************************)
(* What every call of imap_client.rs preserves: the types of the sessions  *)
(* and mailboxes.                                                          *)
(***************************************************************************)
LEMMA StoreType ==
  ASSUME ImapTypeOK, NEW b \in Bodies
  PROVE  Store(b) \in [Bodies -> Nat]
BY DEF ImapTypeOK, Store

LEMMA ExpungedType ==
  ASSUME ImapTypeOK
  PROVE  Expunged \in [Bodies -> Nat]
BY DEF ImapTypeOK, Expunged

LEMMA DstLostType ==
  ASSUME ImapTypeOK, DstLost
  PROVE  dst_session' \in DstSession
BY DEF ImapTypeOK, DstLost, DstSession

LEMMA SrcLostType ==
  ASSUME ImapTypeOK, SrcLost
  PROVE  src_session' \in SrcSession
BY DEF ImapTypeOK, SrcLost, SrcSession

LEMMA CreateType ==
  ASSUME ImapTypeOK, NEW status, CreateFolderIfMissing(status)
  PROVE  ImapTypeOK'
<1>1. dst_folder' \in BOOLEAN
  BY DEF ImapTypeOK, CreateFolderIfMissing
<1>2. dst_session' \in DstSession
  BY DstLostType DEF ImapTypeOK, CreateFolderIfMissing, DstSettled, DstSession
<1> QED BY <1>1, <1>2 DEF ImapTypeOK, CreateFolderIfMissing

LEMMA SelectType ==
  ASSUME ImapTypeOK, NEW status, SelectForWrite(status)
  PROVE  ImapTypeOK'
<1>1. dst_session' \in DstSession
  BY DstLostType DEF ImapTypeOK, SelectForWrite, DstSettled, DstSession
<1> QED BY <1>1 DEF ImapTypeOK, SelectForWrite, mail_vars

LEMMA IndexType ==
  ASSUME ImapTypeOK, NEW status, NEW ids, FetchAllMessageIds(status, ids)
  PROVE  ImapTypeOK'
<1>1. dst_session' \in DstSession
  BY DstLostType DEF ImapTypeOK, FetchAllMessageIds
<1> QED BY <1>1 DEF ImapTypeOK, FetchAllMessageIds, mail_vars

LEMMA CloseType ==
  ASSUME ImapTypeOK, NEW status, CloseMailbox(status)
  PROVE  ImapTypeOK'
<1>1. dst_session' \in DstSession
  BY DstLostType DEF ImapTypeOK, CloseMailbox, DstSession
<1>2. dst_box' \in [Bodies -> Nat]
  BY ExpungedType DEF ImapTypeOK, CloseMailbox
<1> QED BY <1>1, <1>2 DEF ImapTypeOK, CloseMailbox

LEMMA ExamineType ==
  ASSUME ImapTypeOK, NEW status, Examine(status)
  PROVE  ImapTypeOK'
<1>1. src_session' \in SrcSession
  BY SrcLostType DEF ImapTypeOK, Examine, SrcSession
<1> QED BY <1>1 DEF ImapTypeOK, Examine, mail_vars

LEMMA SearchType ==
  ASSUME ImapTypeOK, NEW status, NEW uids, SearchAllUids(status, uids)
  PROVE  ImapTypeOK'
<1>1. src_session' \in SrcSession
  BY SrcLostType DEF ImapTypeOK, SearchAllUids
<1> QED BY <1>1 DEF ImapTypeOK, SearchAllUids, mail_vars

LEMMA ProbeType ==
  ASSUME ImapTypeOK, NEW uids, NEW status, NEW found,
         FetchMessageIdsForUids(uids, status, found)
  PROVE  ImapTypeOK'
<1>1. src_session' \in SrcSession
  BY SrcLostType DEF ImapTypeOK, FetchMessageIdsForUids
<1> QED BY <1>1 DEF ImapTypeOK, FetchMessageIdsForUids, mail_vars

LEMMA FetchType ==
  ASSUME ImapTypeOK, NEW uid, NEW status, NEW body,
         FetchFullByUid(uid, status, body)
  PROVE  ImapTypeOK'
<1>1. src_session' \in SrcSession
  BY SrcLostType DEF ImapTypeOK, FetchFullByUid, SrcSession
<1> QED BY <1>1 DEF ImapTypeOK, FetchFullByUid, mail_vars

\* What a FETCH can hand over, and what it can leave on the connection.
LEMMA FetchOutcome ==
  ASSUME ImapTypeOK, NEW uid, NEW status, NEW body,
         FetchFullByUid(uid, status, body)
  PROVE  /\ src_session'.selected = src_session.selected
         /\ status # "timeout" => src_session'.late = NoBody
         /\ \/ src_session'.late \in {NoBody, src_session.late}
            \/ /\ src_session'.late = uid
               /\ uid \in src_box /\ src_session.selected
         /\ body # NoBody =>
              /\ status = "ok" /\ src_session.selected
              /\ \/ body = Blank /\ "unsolicited" \in faults
                 \/ src_session.late # NoBody /\ body = src_session.late
                 \/ src_session.late = NoBody /\ body = uid /\ uid \in src_box
<1>1. \A l : /\ [src_session EXCEPT !.late = l].late = l
             /\ [src_session EXCEPT !.late = l].selected = src_session.selected
  BY DEF ImapTypeOK, SrcSession
<1>2. SrcLost => /\ src_session'.late = NoBody
                 /\ src_session'.selected = src_session.selected
  BY DEF SrcLost, ImapTypeOK, SrcSession
<1>3. CASE status = "ok"
  BY <1>1, <1>3 DEF FetchFullByUid, FirstAnswer
<1>4. CASE status = "err"
  BY <1>1, <1>2, <1>4 DEF FetchFullByUid
<1>5. CASE status = "timeout"
  BY <1>1, <1>5 DEF FetchFullByUid
<1> QED BY <1>3, <1>4, <1>5 DEF FetchFullByUid

LEMMA AppendType ==
  ASSUME ImapTypeOK, NEW body \in Bodies, NEW status,
         AppendMessage(body, status)
  PROVE  ImapTypeOK'
<1>1. Garbled \in Bodies
  BY DEF Bodies
<1>2. dst_box' \in [Bodies -> Nat]
  BY <1>1, StoreType DEF ImapTypeOK, AppendMessage
<1>3. dst_session' \in DstSession
  BY DstLostType DEF ImapTypeOK, AppendMessage, DstSession
<1> QED BY <1>2, <1>3 DEF ImapTypeOK, AppendMessage

\* An append never takes a message away, and one that succeeds stores it.
LEMMA AppendBox ==
  ASSUME ImapTypeOK, NEW body \in Bodies, NEW status,
         AppendMessage(body, status)
  PROVE  /\ \A b \in Bodies : dst_box[b] <= dst_box'[b]
         /\ dst_box' \in {dst_box, Store(body), Store(Garbled)}
         /\ status = "ok" => dst_box' = Store(body)
<1>1. \A b \in Bodies : dst_box[b] \in Nat
  BY DEF ImapTypeOK
<1>2. dst_box' \in {dst_box, Store(body), Store(Garbled)}
  BY DEF AppendMessage
<1>3. \A c \in Bodies, b \in Bodies : dst_box[b] <= Store(c)[b]
  BY <1>1 DEF Store, ImapTypeOK
<1>4. status = "ok" => dst_box' = Store(body)
  BY DEF AppendMessage
<1> QED BY <1>1, <1>2, <1>3, <1>4 DEF Bodies

LEMMA ReconnectSrcType ==
  ASSUME ImapTypeOK, NEW status, ReconnectSrc(status)
  PROVE  ImapTypeOK'
<1>1. FreshSrc \in SrcSession
  BY DEF FreshSrc, SrcSession
<1>2. src_session' \in SrcSession
  BY <1>1 DEF ImapTypeOK, ReconnectSrc
<1> QED BY <1>2 DEF ImapTypeOK, ReconnectSrc, mail_vars

LEMMA ReconnectDstType ==
  ASSUME ImapTypeOK, NEW status, ReconnectDst(status)
  PROVE  ImapTypeOK'
<1>1. FreshDst \in DstSession
  BY DEF FreshDst, DstSession
<1>2. dst_session' \in DstSession
  BY <1>1 DEF ImapTypeOK, ReconnectDst
<1> QED BY <1>2 DEF ImapTypeOK, ReconnectDst, mail_vars

LEMMA ExpungeType ==
  ASSUME ImapTypeOK, Expunge
  PROVE  ImapTypeOK'
BY DEF ImapTypeOK, Expunge

(***************************************************************************)
(* Types.  TypeOK alone is not inductive: nothing may be planned or probed *)
(* before the UIDs are listed, the loops need a message to work on, and    *)
(* the Message-Ids they insert must be ones that were parsed.              *)
(***************************************************************************)
Unlisted == Setup \ {"probe", "probeReconnect", "plan"}

TypeInv ==
  /\ TypeOK
  /\ pc \in Unlisted => src_mids = {}
  /\ pc \in Setup => to_copy = {}
  /\ pc \in Transfer => to_copy # {}
  /\ pc \in {"append", "appendReconnect"} => msg \in Bodies
  /\ \A u \in src_mids : Mid(u) # NoId

LEMMA LeastOf ==
  ASSUME NEW S \in SUBSET Uids, S # {}
  PROVE  /\ (CHOOSE u \in S : \A v \in S : u <= v) \in S
         /\ \A w \in S : (CHOOSE u \in S : \A v \in S : u <= v) <= w
<1> DEFINE R == {ss \in Nat \X Nat : ss[1] < ss[2]}
<1>1. S \subseteq Nat
  BY ImapAssumption
<1>2. IsWellFoundedOn(R, Nat)
  BY NatLessThanWellFounded DEF OpToRel
<1>3. \E u \in S : \A v \in S : ~(<<v, u>> \in R)
  <2> HIDE DEF R
  <2> QED BY <1>1, <1>2, WFMin
<1>4. \A u, v \in Nat : <<v, u>> \notin R => u <= v
  OBVIOUS
<1>5. PICK u \in S : \A v \in S : u <= v
  <2> HIDE DEF R
  <2> QED BY <1>1, <1>3, <1>4
<1> QED BY <1>5

LEMMA LeastUid ==
  ASSUME to_copy \in SUBSET Uids, to_copy # {}
  PROVE  Uid \in to_copy
BY LeastOf DEF Uid

LEMMA MidType ==
  ASSUME ImapTypeOK, NEW b
  PROVE  Mid(b) \in MessageIds \cup {NoId}
<1>1. CASE b \in Uids
  <2>1. kind[b] \in Kind
    BY <1>1, ImapAssumption DEF ImapTypeOK
  <2> QED BY <1>1, <2>1 DEF Mid, Kind
<1>2. CASE b \notin Uids
  BY <1>2 DEF Mid
<1> QED BY <1>1, <1>2

LEMMA MidsOfType ==
  ASSUME ImapTypeOK, NEW B
  PROVE  MidsOf(B) \subseteq MessageIds
BY MidType DEF MidsOf

LEMMA MidStable ==
  ASSUME kind' = kind
  PROVE  \A b : Mid(b)' = Mid(b)
BY DEF Mid

LEMMA StatsTypes ==
  ASSUME TypeOK
  PROVE  /\ NoStats \in [copied : Nat, skipped : Nat, failed : Nat,
                         would_copy : Nat]
         /\ [NoStats EXCEPT !.failed = 1] \in
              [copied : Nat, skipped : Nat, failed : Nat, would_copy : Nat]
         /\ \A field \in {"copied", "skipped", "failed", "would_copy"} :
              [stats EXCEPT ![field] = @ + 1] \in
                [copied : Nat, skipped : Nat, failed : Nat, would_copy : Nat]
BY DEF TypeOK, NoStats

LEMMA TypeInit == Init => TypeInv
<1> SUFFICES ASSUME Init PROVE TypeInv
  OBVIOUS
<1>1. FreshSrc \in SrcSession /\ FreshDst \in DstSession
  BY DEF FreshSrc, SrcSession, FreshDst, DstSession
<1>2. dst_box \in [Bodies -> Nat]
  BY DEF Init
<1>3. faults \in SUBSET Faults
  BY DEF Init, FaultsOf
<1>4. ImapTypeOK
  BY <1>1, <1>2, <1>3 DEF Init, ImapTypeOK, SrcStart, DstStart
<1>5. last \in [clean : BOOLEAN, dry : BOOLEAN, would : Nat,
                 box : SUBSET Uids, blanks : SUBSET Uids,
                 cut : SUBSET Listings]
  BY DEF Init, NeverRun
<1>6. /\ stats \in [copied : Nat, skipped : Nat, failed : Nat, would_copy : Nat]
      /\ stored \in [Uids -> Nat]
  BY DEF Init, NoStats
<1>7. /\ pc \in Setup /\ attempt \in {1, 2} /\ run \in 1..MaxRuns
      /\ dry_run \in DryRuns
      /\ dst_ids = {} /\ src_uids = {} /\ unprobed = {} /\ src_mids = {}
      /\ to_copy = {} /\ msg = NoBody
      /\ indexed = {} /\ base = dst_box /\ acked = {} /\ blanks = {}
      /\ cut = {}
  BY SyncAssumption DEF Init, Setup
<1>8. TypeOK
  BY <1>2, <1>4, <1>5, <1>6, <1>7 DEF TypeOK
<1> QED BY <1>7, <1>8 DEF Init, TypeInv, Transfer

(***************************************************************************)
(* One step per action: the call keeps the types of the sessions and       *)
(* mailboxes, the rest follows from the branch the program takes.          *)
(***************************************************************************)
LEMMA TypeSetup ==
  ASSUME TypeInv,
         CreateFolder \/ Select \/ Index \/ Close \/ ExamineSource
  PROVE  TypeInv'
<1>1. CASE CreateFolder
  <2>1. ImapTypeOK'
    BY <1>1, CreateType DEF TypeInv, TypeOK, CreateFolder
  <2>2. kind' = kind
    BY <1>1 DEF CreateFolder, CreateFolderIfMissing, mail_vars
  <2> QED
    BY <1>1, <2>1, <2>2, MidStable, StatsTypes
       DEF TypeInv, TypeOK, Unlisted, CreateFolder, Proceed, GoTo,
           FolderFails, Hang, local_vars, history, Setup, Transfer, Ended
<1>2. CASE Select
  <2>1. ImapTypeOK'
    BY <1>2, SelectType DEF TypeInv, TypeOK, Select
  <2>2. kind' = kind
    BY <1>2 DEF Select, SelectForWrite, mail_vars
  <2> QED
    BY <1>2, <2>1, <2>2, MidStable, StatsTypes
       DEF TypeInv, TypeOK, Unlisted, Select, Proceed, GoTo, FolderFails, Hang,
           local_vars, history, Setup, Transfer, Ended
<1>3. CASE Index
  <2>1. ImapTypeOK'
    BY <1>3, IndexType DEF TypeInv, TypeOK, Index
  <2>2. kind' = kind
    BY <1>3 DEF Index, FetchAllMessageIds, mail_vars
  <2>3. cut' \in SUBSET Listings
    BY <1>3 DEF Index, Listings, TypeInv, TypeOK
  <2> QED
    BY <1>3, <2>1, <2>2, <2>3, MidStable, StatsTypes
       DEF TypeInv, TypeOK, Unlisted, Index, Proceed, GoTo, FolderFails, Hang,
           local_vars, history, Setup, Transfer, Ended
<1>4. CASE Close
  <2>1. ImapTypeOK'
    BY <1>4, CloseType DEF TypeInv, TypeOK, Close
  <2>2. kind' = kind
    BY <1>4 DEF Close, CloseMailbox, mail_vars
  <2> QED
    BY <1>4, <2>1, <2>2, MidStable, StatsTypes
       DEF TypeInv, TypeOK, Unlisted, Close, ImapTypeOK, Proceed, GoTo,
           FolderFails, Hang, local_vars, history, Setup, Transfer, Ended
<1>5. CASE ExamineSource
  <2>1. ImapTypeOK'
    BY <1>5, ExamineType DEF TypeInv, TypeOK, ExamineSource
  <2>2. kind' = kind
    BY <1>5 DEF ExamineSource, Examine, mail_vars
  <2> QED
    BY <1>5, <2>1, <2>2, MidStable, StatsTypes
       DEF TypeInv, TypeOK, Unlisted, ExamineSource, Proceed, GoTo,
           FolderFails, Hang, local_vars, history, Setup, Transfer, Ended
<1> QED BY <1>1, <1>2, <1>3, <1>4, <1>5

LEMMA TypeListing ==
  ASSUME TypeInv, Search \/ Probe \/ ProbeReconnect
  PROVE  TypeInv'
<1>1. CASE Search
  <2>1. ImapTypeOK'
    BY <1>1, SearchType DEF TypeInv, TypeOK, Search
  <2>2. kind' = kind
    BY <1>1 DEF Search, SearchAllUids, mail_vars
  <2> QED
    BY <1>1, <2>1, <2>2, MidStable, StatsTypes
       DEF TypeInv, TypeOK, Unlisted, Search, Proceed, GoTo, FolderFails, Hang,
           local_vars, history, Setup, Transfer, Ended
<1>2. CASE Probe
  <2>1. ImapTypeOK'
    BY <1>2, ProbeType DEF TypeInv, TypeOK, Probe
  <2>2. kind' = kind
    BY <1>2 DEF Probe, FetchMessageIdsForUids, mail_vars
  <2>3. PICK status \in Outcome, found \in SUBSET Uids :
          /\ FetchMessageIdsForUids(Chunk, status, found)
          /\ \/ /\ status = "ok" /\ Probed(found)
                /\ attempt' = 1
                /\ pc' = IF unprobed' = {} THEN "plan" ELSE "probe"
                /\ UNCHANGED <<dry_run, dst_ids, src_uids, to_copy, msg, stats>>
             \/ GoTo("probeReconnect")
             \/ FolderFails
    BY <1>2 DEF Probe, Answered
  <2>4. /\ pc = "probe" /\ cut' \in SUBSET Listings
        /\ UNCHANGED <<run, indexed, base, acked, stored, blanks, last>>
    BY <1>2 DEF Probe, Listings, TypeInv, TypeOK
  <2>5. CASE status = "ok" /\ pc' \in {"plan", "probe"} /\ Probed(found)
             /\ attempt' = 1
             /\ UNCHANGED <<dry_run, dst_ids, src_uids, to_copy, msg, stats>>
    <3>1. /\ found \subseteq unprobed
          /\ \A u \in found : Mid(u) # NoId
      BY <2>3, <2>5 DEF FetchMessageIdsForUids, Identified, Chunk
    <3> QED
      BY <2>1, <2>2, <2>4, <2>5, <3>1, MidStable
         DEF TypeInv, TypeOK, Unlisted, Probed, Setup, Transfer, Ended
  <2>6. CASE GoTo("probeReconnect")
    BY <2>1, <2>2, <2>4, <2>6, MidStable
       DEF TypeInv, TypeOK, Unlisted, GoTo, local_vars, Setup, Transfer,
           Ended
  <2>7. CASE FolderFails
    BY <2>1, <2>2, <2>4, <2>7, MidStable, StatsTypes
       DEF TypeInv, TypeOK, Unlisted, FolderFails, Setup, Transfer, Ended
  <2> QED BY <2>3, <2>5, <2>6, <2>7
<1>3. CASE ProbeReconnect
  <2>1. ImapTypeOK'
    BY <1>3, ReconnectSrcType DEF TypeInv, TypeOK, ProbeReconnect
  <2>2. kind' = kind
    BY <1>3 DEF ProbeReconnect, ReconnectSrc, mail_vars
  <2> QED
    BY <1>3, <2>1, <2>2, MidStable, StatsTypes
       DEF TypeInv, TypeOK, Unlisted, ProbeReconnect, Proceed, GoTo,
           FolderFails, Hang, local_vars, history, Setup, Transfer, Ended
<1> QED BY <1>1, <1>2, <1>3

LEMMA TypePlan ==
  ASSUME TypeInv, Plan
  PROVE  TypeInv'
<1>1. Cardinality(AlreadyThere) \in Nat
  BY FS_CardinalityType, FS_Subset, ImapAssumption
     DEF TypeInv, TypeOK, AlreadyThere
<1>2. ImapTypeOK' /\ kind' = kind
  BY DEF Plan, TypeInv, TypeOK, ImapTypeOK, imap_vars, mail_vars
<1>3. stats' \in [copied : Nat, skipped : Nat, failed : Nat, would_copy : Nat]
  BY <1>1 DEF Plan, TypeInv, TypeOK
<1> QED
  BY <1>2, <1>3, MidStable
     DEF Plan, TypeInv, TypeOK, history, Unlisted, Setup, Transfer, Ended

\* What settling a message leaves.
LEMMA SettleType ==
  ASSUME TypeInv, pc \in Transfer,
         NEW field \in {"copied", "skipped", "failed", "would_copy"},
         Settle(field)
  PROVE  /\ stats' \in [copied : Nat, skipped : Nat, failed : Nat,
                        would_copy : Nat]
         /\ to_copy' \in SUBSET src_uids
         /\ pc' \in {"done", "fetch"}
         /\ pc' \in Transfer => to_copy' # {}
         /\ attempt' = 1
         /\ msg' = NoBody
         /\ UNCHANGED <<dry_run, src_uids, unprobed, src_mids>>
BY StatsTypes DEF TypeInv, TypeOK, Settle, Transfer

LEMMA TypeFetching ==
  ASSUME TypeInv, Fetch \/ FetchReconnect
  PROVE  TypeInv'
<1>1. CASE Fetch
  <2>1. ImapTypeOK'
    BY <1>1, FetchType DEF TypeInv, TypeOK, Fetch
  <2>2. kind' = kind
    BY <1>1 DEF Fetch, FetchFullByUid, mail_vars
  <2>3. PICK body \in Bodies \cup {NoBody} :
          \/ body # NoBody /\ Received(body)
          \/ MessageFails
          \/ GoTo("fetchReconnect")
    BY <1>1 DEF Fetch
  <2>4. dst_ids' = dst_ids /\ blanks' \in SUBSET Uids
    BY <1>1, <2>3, LeastUid
       DEF Fetch, TypeInv, TypeOK, Transfer, Received, MessageFails, GoTo,
           local_vars
  <2>5. CASE Settle("skipped") \/ Settle("would_copy") \/ Settle("failed")
    BY <1>1, <2>1, <2>2, <2>5, <2>4, SettleType, MidStable
       DEF TypeInv, TypeOK, Fetch, Unlisted, Setup, Transfer, Ended
  <2>6. CASE body # NoBody /\ Keep(body)
    BY <1>1, <2>1, <2>2, <2>6, <2>4, MidStable
       DEF TypeInv, TypeOK, Fetch, Keep, Unlisted, Setup, Transfer,
           Ended
  <2>7. CASE GoTo("fetchReconnect")
    BY <1>1, <2>1, <2>2, <2>4, <2>7, MidStable
       DEF TypeInv, TypeOK, Fetch, GoTo, local_vars,
           Unlisted, Setup, Transfer, Ended
  <2> QED BY <2>3, <2>5, <2>6, <2>7 DEF Received, MessageFails
<1>2. CASE FetchReconnect
  <2>1. ImapTypeOK'
    BY <1>2, ReconnectSrcType DEF TypeInv, TypeOK, FetchReconnect
  <2>2. kind' = kind
    BY <1>2 DEF FetchReconnect, ReconnectSrc, mail_vars
  <2> QED
    BY <1>2, <2>1, <2>2, SettleType, MidStable
       DEF TypeInv, TypeOK, FetchReconnect, MessageFails, Hang, local_vars,
           history, Unlisted, Setup, Transfer, Ended
<1> QED BY <1>1, <1>2

LEMMA CopiedIdType ==
  ASSUME TypeInv
  PROVE  CopiedId \subseteq MessageIds
<1>1. ImapTypeOK
  BY DEF TypeInv, TypeOK
<1>2. CASE Mid(msg) # NoId
  BY <1>1, <1>2, MidType DEF CopiedId
<1>3. CASE Mid(msg) = NoId /\ Uid \in src_mids
  BY <1>1, <1>3, MidType DEF CopiedId, TypeInv
<1>4. CASE Mid(msg) = NoId /\ Uid \notin src_mids
  BY <1>4 DEF CopiedId
<1> QED BY <1>2, <1>3, <1>4

LEMMA TypeAppending ==
  ASSUME TypeInv, AppendToDst \/ AppendReconnect
  PROVE  TypeInv'
<1>1. CASE AppendToDst
  <2>1. msg \in Bodies /\ Uid \in Uids
    BY <1>1, LeastUid DEF AppendToDst, TypeInv, TypeOK, Transfer
  <2>2. ImapTypeOK'
    BY <1>1, <2>1, AppendType DEF TypeInv, TypeOK, AppendToDst
  <2>3. kind' = kind
    BY <1>1 DEF AppendToDst, AppendMessage
  <2>4. stored' \in [Uids -> Nat]
    BY <1>1, <2>1 DEF AppendToDst, TypeInv, TypeOK
  <2>5. acked' \in SUBSET (Uids \X Bodies) /\ dst_ids' \in SUBSET MessageIds
    BY <1>1, <2>1, CopiedIdType
       DEF AppendToDst, TypeInv, TypeOK, GoTo, MessageFails, local_vars
  <2>6. \/ Settle("copied") \/ Settle("failed")
        \/ GoTo("appendReconnect")
    BY <1>1 DEF AppendToDst, MessageFails
  <2>7. CASE Settle("copied") \/ Settle("failed")
    BY <1>1, <2>2, <2>3, <2>4, <2>5, <2>7, SettleType, MidStable
       DEF TypeInv, TypeOK, AppendToDst, Unlisted, Setup, Transfer, Ended
  <2>8. CASE GoTo("appendReconnect")
    BY <1>1, <2>2, <2>3, <2>4, <2>5, <2>8, MidStable
       DEF TypeInv, TypeOK, AppendToDst, GoTo, local_vars, Unlisted, Setup,
           Transfer, Ended
  <2> QED BY <2>6, <2>7, <2>8
<1>2. CASE AppendReconnect
  <2>1. ImapTypeOK'
    BY <1>2, ReconnectDstType DEF TypeInv, TypeOK, AppendReconnect
  <2>2. kind' = kind
    BY <1>2 DEF AppendReconnect, ReconnectDst, mail_vars
  <2> QED
    BY <1>2, <2>1, <2>2, SettleType, MidStable
       DEF TypeInv, TypeOK, AppendReconnect, MessageFails, Hang, local_vars,
           history, Unlisted, Setup, Transfer, Ended
<1> QED BY <1>1, <1>2

LEMMA TypeEnvironment ==
  ASSUME TypeInv, Crash \/ Rerun \/ OtherClient \/ UNCHANGED vars
  PROVE  TypeInv'
<1>1. CASE Crash
  <2>1. dst_box' \in [Bodies -> Nat] /\ stored' \in [Uids -> Nat]
    BY <1>1, StoreType DEF Crash, TypeInv, TypeOK, ImapTypeOK
  <2> QED
    BY <1>1, <2>1, MidStable
       DEF Crash, TypeInv, TypeOK, ImapTypeOK, local_vars, Unlisted, Setup,
           Transfer, Ended
<1>2. CASE Rerun
  <2>1. FreshSrc \in SrcSession /\ FreshDst \in DstSession
    BY DEF FreshSrc, SrcSession, FreshDst, DstSession
  <2>2. faults' \in SUBSET Faults
    BY <1>2 DEF Rerun, FaultsOf
  <2>3. ImapTypeOK'
    BY <1>2, <2>1, <2>2 DEF Rerun, TypeInv, TypeOK, ImapTypeOK
  <2>4. run' \in 1..MaxRuns
    BY <1>2, SyncAssumption DEF Rerun, TypeInv, TypeOK
  <2>5. last' \in [clean : BOOLEAN, dry : BOOLEAN, would : Nat,
                   box : SUBSET Uids, blanks : SUBSET Uids,
                   cut : SUBSET Listings]
    BY <1>2, SyncAssumption DEF Rerun, TypeInv, TypeOK
  <2> QED
    BY <1>2, <2>3, <2>4, <2>5, StatsTypes
       DEF Rerun, TypeInv, TypeOK, ImapTypeOK, Unlisted, Setup, Transfer,
           Ended
<1>3. CASE OtherClient
  <2>1. ImapTypeOK' /\ kind' = kind
    BY <1>3, ExpungeType DEF OtherClient, Expunge, TypeInv, TypeOK
  <2> QED
    BY <1>3, <2>1, MidStable
       DEF OtherClient, TypeInv, TypeOK, local_vars, history
<1>4. CASE UNCHANGED vars
  BY <1>4, MidStable
     DEF vars, imap_vars, mail_vars, local_vars, history, TypeInv, TypeOK,
         ImapTypeOK
<1> QED BY <1>1, <1>2, <1>3, <1>4

LEMMA TypeNext == TypeInv /\ [Next]_vars => TypeInv'
BY TypeSetup, TypeListing, TypePlan, TypeFetching, TypeAppending,
   TypeEnvironment
   DEF Next, Step, Terminated

\* The state stays within its types through every interleaving of the
\* program, the servers, another client, crashes and runs.
THEOREM TypeCorrect == Spec => []TypeOK
<1>1. Spec => []TypeInv
  BY TypeInit, TypeNext, PTL DEF Spec
<1>2. TypeInv => TypeOK
  BY DEF TypeInv
<1> QED BY <1>1, <1>2, PTL

=============================================================================
