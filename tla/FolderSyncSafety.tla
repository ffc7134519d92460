-------------------------- MODULE FolderSyncSafety --------------------------
(***************************************************************************)
(* The safety theorems of a folder pass.  Each invariant is proved on top  *)
(* of TypeInv by a strengthening of its own.                               *)
(***************************************************************************)
EXTENDS FolderSyncProofs

(***************************************************************************)
(* Facts that every proof below uses: where a step starts, what a step     *)
(* before the plan may change, and how a step of the transfer moves the    *)
(* plan.                                                                   *)
(***************************************************************************)
LEMMA StepPlace ==
  ASSUME Step
  PROVE  pc \in Setup \ {"plan"} \/ Plan \/ pc \in Transfer
BY DEF Step, Setup, Transfer, CreateFolder, Select, Index, Close,
       ExamineSource, Search, Probe, ProbeReconnect, Fetch, FetchReconnect,
       AppendToDst, AppendReconnect

LEMMA BeforePlan ==
  ASSUME TypeInv, Step, pc \in Setup \ {"plan"}
  PROVE  /\ pc' \in Setup \cup {"failed", "hung"}
         /\ pc' # "failed" => stats' = stats
         /\ UNCHANGED <<to_copy, msg, dry_run, acked, stored, blanks, run, last,
                        kind>>
         /\ IF pc = "close" THEN base' = dst_box'
                            ELSE UNCHANGED <<dst_box, base>>
<1> USE DEF Setup
<1>1. CASE CreateFolder
  BY <1>1 DEF CreateFolder, CreateFolderIfMissing, Proceed, GoTo, FolderFails,
              Hang, local_vars, history
<1>2. CASE Select
  BY <1>2 DEF Select, SelectForWrite, Proceed, GoTo, FolderFails, Hang,
              local_vars, history, mail_vars
<1>3. CASE Index
  BY <1>3 DEF Index, FetchAllMessageIds, Proceed, GoTo, FolderFails, Hang,
              local_vars, mail_vars
<1>4. CASE Close
  BY <1>4 DEF Close, CloseMailbox, GoTo, Hang, local_vars
<1>5. CASE ExamineSource
  BY <1>5 DEF ExamineSource, Examine, Proceed, GoTo, FolderFails, Hang,
              local_vars, history, mail_vars
<1>6. CASE Search
  BY <1>6 DEF Search, SearchAllUids, Proceed, GoTo, FolderFails, Hang,
              local_vars, history, mail_vars
<1>7. CASE Probe
  BY <1>7 DEF Probe, FetchMessageIdsForUids, Probed, GoTo, FolderFails,
              local_vars, history, mail_vars
<1>8. CASE ProbeReconnect
  BY <1>8 DEF ProbeReconnect, ReconnectSrc, FolderFails, Hang, local_vars,
              history, mail_vars
<1> QED
  BY <1>1, <1>2, <1>3, <1>4, <1>5, <1>6, <1>7, <1>8
     DEF Step, Plan, Fetch, FetchReconnect, AppendToDst, AppendReconnect

Fields == {"copied", "skipped", "failed", "would_copy"}

LEMMA InTransfer ==
  ASSUME TypeInv, Step, pc \in Transfer
  PROVE  /\ UNCHANGED <<src_uids, src_mids, unprobed, dry_run, base, indexed,
                        run, last, kind>>
         /\ \A b \in Bodies : dst_box[b] <= dst_box'[b]
         /\ pc # "append" => UNCHANGED <<dst_box, stored>>
         /\ \/ \E field \in Fields \ {"copied"} :
                 Settle(field) /\ UNCHANGED acked
            \/ /\ pc = "append" /\ Settle("copied")
               /\ acked' = acked \cup {<<Uid, msg>>}
               /\ dst_box' = Store(msg)
            \/ /\ pc' \in Transfer \cup {"hung"}
               /\ UNCHANGED <<stats, to_copy, acked>>
<1> USE DEF Transfer, Fields
<1>0. \A b \in Bodies : dst_box[b] \in Nat
  BY DEF TypeInv, TypeOK, ImapTypeOK
<1>1. CASE Fetch
  <2>1. UNCHANGED <<dst_box, kind, run, indexed, base, acked, stored, last>>
    BY <1>1 DEF Fetch, FetchFullByUid, mail_vars
  <2>2. PICK body \in Bodies \cup {NoBody} :
          Received(body) \/ MessageFails \/ GoTo("fetchReconnect")
    BY <1>1 DEF Fetch
  <2> QED
    BY <1>0, <1>1, <2>1, <2>2
       DEF Fetch, Received, Keep, MessageFails, Settle, GoTo, local_vars
<1>2. CASE FetchReconnect
  BY <1>0, <1>2
     DEF FetchReconnect, ReconnectSrc, MessageFails, Settle, Hang, local_vars,
         history, mail_vars
<1>3. CASE AppendToDst
  <2>1. PICK status \in Outcome :
          /\ AppendMessage(msg, status)
          /\ \/ /\ Answered(status)
                /\ Settle("copied")
                /\ acked' = acked \cup {<<Uid, msg>>}
             \/ MessageFails /\ UNCHANGED acked
             \/ GoTo("appendReconnect") /\ UNCHANGED acked
    BY <1>3 DEF AppendToDst
  <2>2. msg \in Bodies /\ ImapTypeOK
    BY <1>3 DEF AppendToDst, TypeInv, TypeOK
  <2>3. /\ \A b \in Bodies : dst_box[b] <= dst_box'[b]
        /\ Answered(status) => dst_box' = Store(msg)
    BY <2>1, <2>2, AppendBox DEF Answered
  <2>4. UNCHANGED <<kind, run, base, indexed, last>>
    BY <1>3, <2>1 DEF AppendToDst, AppendMessage
  <2> QED
    BY <1>3, <2>1, <2>3, <2>4
       DEF AppendToDst, MessageFails, Settle, GoTo, local_vars
<1>4. CASE AppendReconnect
  BY <1>0, <1>4
     DEF AppendReconnect, ReconnectDst, MessageFails, Settle, Hang,
         local_vars, history, mail_vars
<1> QED
  BY <1>1, <1>2, <1>3, <1>4
     DEF Step, CreateFolder, Select, Index, Close, ExamineSource, Search,
         Probe, ProbeReconnect, Plan

(***************************************************************************)
(* The report.                                                             *)
(***************************************************************************)
CountInv ==
  /\ pc \in Setup => stats = NoStats
  /\ pc \in Transfer \cup {"done"} =>
       Counted + Cardinality(to_copy) = Cardinality(src_uids)
  /\ pc = "done" => to_copy = {}

LEMMA FiniteUids ==
  ASSUME NEW S \in SUBSET Uids
  PROVE  IsFiniteSet(S) /\ Cardinality(S) \in Nat
BY FS_Subset, FS_CardinalityType, ImapAssumption

LEMMA CardinalityDifference ==
  ASSUME NEW S, IsFiniteSet(S), NEW T \in SUBSET S
  PROVE  Cardinality(S) = Cardinality(S \ T) + Cardinality(T)
<1> DEFINE R == S \ T
<1>1. R \cup T = S /\ R \cap T = {}
  OBVIOUS
<1>2. IsFiniteSet(R) /\ IsFiniteSet(T)
  BY FS_Subset
<1>3. Cardinality(R) \in Nat /\ Cardinality(T) \in Nat
  BY <1>2, FS_CardinalityType
<1> HIDE DEF R
<1>4. Cardinality(R \cup T) =
        Cardinality(R) + Cardinality(T) - Cardinality(R \cap T)
  BY <1>2, FS_Union
<1>5. Cardinality(S) = Cardinality(R) + Cardinality(T)
  BY <1>1, <1>3, <1>4, FS_EmptySet
<1> QED BY <1>5 DEF R

LEMMA CountSettle ==
  ASSUME TypeInv, CountInv, pc \in Transfer, UNCHANGED src_uids,
         NEW field \in Fields, Settle(field)
  PROVE  CountInv'
<1>1. Uid \in to_copy
  BY LeastUid DEF TypeInv, TypeOK
<1>2. IsFiniteSet(to_copy) /\ to_copy' = to_copy \ {Uid}
  BY FiniteUids DEF TypeInv, TypeOK, Settle
<1>3. Cardinality(to_copy') = Cardinality(to_copy) - 1
  BY <1>1, <1>2, FS_RemoveElement
<1>4. Counted' = Counted + 1
  BY DEF Settle, Counted, TypeInv, TypeOK, Fields
<1>5. /\ Cardinality(to_copy) \in Nat
      /\ Cardinality(src_uids) \in Nat
      /\ Counted \in Nat
  BY FiniteUids DEF TypeInv, TypeOK, Counted
<1>6. Counted + Cardinality(to_copy) = Cardinality(src_uids)
  BY DEF CountInv
<1>7. Counted' + Cardinality(to_copy') = Cardinality(src_uids')
  BY <1>3, <1>4, <1>5, <1>6
<1> QED BY <1>7 DEF CountInv, Settle, Setup

LEMMA CountPlan ==
  ASSUME TypeInv, CountInv, Plan
  PROVE  CountInv'
<1>1. AlreadyThere \in SUBSET src_uids /\ src_uids \in SUBSET Uids
  BY DEF TypeInv, TypeOK, AlreadyThere
<1>2. Cardinality(src_uids) =
        Cardinality(src_uids \ AlreadyThere) + Cardinality(AlreadyThere)
  BY <1>1, CardinalityDifference, FiniteUids
<1>3. stats = NoStats /\ pc = "plan"
  BY DEF CountInv, Plan, Setup
<1>4. Counted' = Cardinality(AlreadyThere)
  BY <1>1, <1>3, FiniteUids DEF Plan, Counted, NoStats
<1>5. Counted' + Cardinality(to_copy') = Cardinality(src_uids')
  BY <1>1, <1>2, <1>4, FiniteUids DEF Plan
<1> QED BY <1>5 DEF Plan, CountInv, Setup

LEMMA CountNext == TypeInv /\ CountInv /\ [Next]_vars => CountInv'
<1> SUFFICES ASSUME TypeInv, CountInv, [Next]_vars PROVE CountInv'
  OBVIOUS
<1>1. CASE Step /\ pc \in Setup \ {"plan"}
  BY <1>1, BeforePlan DEF CountInv, Setup, Transfer
<1>2. CASE Plan
  BY <1>2, CountPlan
<1>3. CASE Step /\ pc \in Transfer
  <2>1. CASE \E field \in Fields : Settle(field)
    BY <1>3, <2>1, InTransfer, CountSettle
  <2>2. CASE UNCHANGED <<stats, to_copy>> /\ pc' \in Transfer \cup {"hung"}
    BY <1>3, <2>2, InTransfer DEF CountInv, Counted, Setup, Transfer
  <2> QED BY <1>3, <2>1, <2>2, InTransfer DEF Fields
<1>4. CASE Crash
  BY <1>4 DEF Crash, CountInv, Setup, Transfer
<1>5. CASE Rerun
  BY <1>5 DEF Rerun, CountInv, Setup, Transfer
<1>6. CASE OtherClient \/ UNCHANGED vars
  BY <1>6 DEF OtherClient, vars, local_vars, CountInv, Counted
<1> QED
  BY <1>1, <1>2, <1>3, <1>4, <1>5, <1>6, StepPlace DEF Next, Terminated

LEMMA Counting == Spec => [](TypeInv /\ CountInv)
<1>1. Init => TypeInv /\ CountInv
  BY TypeInit DEF Init, CountInv, Setup, Transfer
<1>2. TypeInv /\ CountInv /\ [Next]_vars => (TypeInv /\ CountInv)'
  BY TypeNext, CountNext
<1> QED BY <1>1, <1>2, PTL DEF Spec

\* A folder that ends is reported in full: copied, skipped, failed and
\* would_copy add up to the number of UIDs that SEARCH listed.
THEOREM ReportIsComplete == Spec => []EveryMessageAccountedOnce
<1>1. TypeInv /\ CountInv => EveryMessageAccountedOnce
  <2> SUFFICES ASSUME TypeInv, CountInv, pc = "done"
               PROVE  Counted = Cardinality(src_uids)
    BY DEF EveryMessageAccountedOnce
  <2>1. Cardinality(to_copy) = 0
    BY FS_EmptySet DEF CountInv
  <2>2. Counted \in Nat
    BY DEF Counted, TypeInv, TypeOK
  <2> QED BY <2>1, <2>2 DEF CountInv
<1> QED BY <1>1, Counting, PTL

(***************************************************************************)
(* The copies.                                                             *)
(***************************************************************************)
CopyInv ==
  /\ pc \in Setup => stats = NoStats
  /\ pc \in Setup \cup {"failed"} => acked = {} /\ dst_box = base
  /\ IsFiniteSet(acked)
  /\ pc # "failed" => stats.copied = Cardinality(acked)
  /\ \A b \in Bodies : base[b] + Cardinality(Sent(b)) <= dst_box[b]
  /\ \A u \in to_copy, b \in Bodies : <<u, b>> \notin acked

LEMMA NothingSent ==
  ASSUME acked = {}
  PROVE  \A b : Cardinality(Sent(b)) = 0
BY FS_EmptySet DEF Sent

LEMMA CopyAppended ==
  ASSUME TypeInv, CopyInv, pc = "append", Settle("copied"),
         acked' = acked \cup {<<Uid, msg>>}, dst_box' = Store(msg),
         UNCHANGED base
  PROVE  CopyInv'
<1>1. Uid \in to_copy /\ Uid \in Uids /\ msg \in Bodies
  BY LeastUid DEF TypeInv, TypeOK, Transfer
<1>2. <<Uid, msg>> \notin acked
  BY <1>1 DEF CopyInv
<1>3. /\ IsFiniteSet(acked')
      /\ Cardinality(acked') = Cardinality(acked) + 1
  BY <1>2, FS_AddElement DEF CopyInv
<1>4. stats'.copied = stats.copied + 1
  BY DEF Settle, TypeInv, TypeOK
<1>5. ASSUME NEW b \in Bodies
      PROVE  base'[b] + Cardinality(Sent(b)') <= dst_box'[b]
  <2>1. /\ base[b] + Cardinality(Sent(b)) <= dst_box[b]
        /\ base[b] \in Nat /\ dst_box[b] \in Nat
    BY DEF CopyInv, TypeInv, TypeOK, ImapTypeOK
  <2>2. IsFiniteSet(Sent(b)) /\ Cardinality(Sent(b)) \in Nat
    BY FiniteUids DEF Sent
  <2>3. CASE b = msg
    <3>1. Sent(b)' = Sent(b) \cup {Uid}
      BY <1>1, <2>3 DEF Sent
    <3>2. Cardinality(Sent(b)') = Cardinality(Sent(b)) + 1
      <4>1. Uid \notin Sent(b)
        BY <1>2, <2>3 DEF Sent
      <4> QED BY <2>2, <3>1, <4>1, FS_AddElement
    <3>3. dst_box'[b] = dst_box[b] + 1
      BY <1>1, <2>3 DEF Store, TypeInv, TypeOK, ImapTypeOK
    <3> QED BY <2>1, <2>2, <3>2, <3>3
  <2>4. CASE b # msg
    <3>1. Sent(b)' = Sent(b)
      BY <2>4 DEF Sent
    <3>2. dst_box'[b] = dst_box[b]
      BY <2>4 DEF Store, TypeInv, TypeOK, ImapTypeOK
    <3> QED BY <2>1, <3>1, <3>2
  <2> QED BY <2>3, <2>4
<1>6. \A u \in to_copy', b \in Bodies : <<u, b>> \notin acked'
  BY DEF Settle, CopyInv
<1> QED BY <1>3, <1>4, <1>5, <1>6 DEF CopyInv, Settle, Setup

LEMMA CopyNext == TypeInv /\ CopyInv /\ [Next]_vars => CopyInv'
<1> SUFFICES ASSUME TypeInv, CopyInv, [Next]_vars PROVE CopyInv'
  OBVIOUS
<1>0. /\ \A b \in Bodies : base[b] \in Nat /\ dst_box[b] \in Nat
      /\ \A b \in Bodies : base'[b] \in Nat /\ dst_box'[b] \in Nat
      /\ \A b \in Bodies : Cardinality(Sent(b)) \in Nat
  BY TypeNext, FiniteUids DEF TypeInv, TypeOK, ImapTypeOK, Sent
<1>1. CASE Step /\ pc \in Setup \ {"plan"}
  <2>1. acked' = {} /\ dst_box' = base' /\ to_copy' = {}
    BY <1>1, BeforePlan DEF CopyInv, TypeInv, Setup
  <2>2. pc' # "failed" => stats' = NoStats
    BY <1>1, BeforePlan DEF CopyInv
  <2> QED
    BY <1>0, <1>1, <2>1, <2>2, BeforePlan, NothingSent, FS_EmptySet
       DEF CopyInv, Setup, NoStats, Sent
<1>2. CASE Plan
  <2>1. acked' = {} /\ dst_box' = base'
    BY <1>2 DEF Plan, CopyInv, Setup, imap_vars, mail_vars, history
  <2>2. stats'.copied = 0 /\ pc' \in {"done", "fetch"}
    BY <1>2 DEF Plan, CopyInv, Setup, NoStats
  <2>3. \A b \in Bodies : Cardinality(Sent(b)') = 0
    BY <2>1, FS_EmptySet DEF Sent
  <2> QED
    BY <1>0, <2>1, <2>2, <2>3, FS_EmptySet DEF CopyInv, Setup
<1>3. CASE Step /\ pc \in Transfer
  <2>1. CASE pc = "append" /\ Settle("copied") /\ dst_box' = Store(msg)
             /\ acked' = acked \cup {<<Uid, msg>>}
    BY <1>3, <2>1, InTransfer, CopyAppended
  <2>2. CASE \E field \in Fields \ {"copied"} :
               Settle(field) /\ UNCHANGED acked
    <3>1. /\ stats'.copied = stats.copied /\ to_copy' \subseteq to_copy
          /\ pc' \in {"done", "fetch"} /\ pc # "failed"
      BY <1>3, <2>2 DEF Settle, Fields, TypeInv, TypeOK, Transfer
    <3> QED
      BY <1>0, <1>3, <2>2, <3>1, InTransfer DEF CopyInv, Setup, Sent
  <2>3. CASE /\ pc' \in Transfer \cup {"hung"}
             /\ UNCHANGED <<stats, to_copy, acked>>
    BY <1>0, <1>3, <2>3, InTransfer DEF CopyInv, Setup, Transfer, Sent
  <2> QED BY <1>3, <2>1, <2>2, <2>3, InTransfer
<1>4. CASE Crash
  <2>1. \A b \in Bodies : dst_box[b] <= dst_box'[b]
    BY <1>0, <1>4 DEF Crash, Store, TypeInv, TypeOK, ImapTypeOK
  <2> QED
    BY <1>0, <1>4, <2>1 DEF Crash, CopyInv, local_vars, Setup, Ended, Sent
<1>5. CASE Rerun
  <2>1. acked' = {} /\ dst_box' = base' /\ to_copy' = {} /\ stats' = NoStats
    BY <1>5 DEF Rerun
  <2>2. \A b \in Bodies : Cardinality(Sent(b)') = 0
    BY <2>1, FS_EmptySet DEF Sent
  <2> QED
    BY <1>0, <1>5, <2>1, <2>2, FS_EmptySet DEF Rerun, CopyInv, NoStats
<1>6. CASE OtherClient \/ UNCHANGED vars
  BY <1>6
     DEF OtherClient, Expunge, vars, imap_vars, mail_vars, local_vars,
         history, CopyInv, Sent
<1> QED
  BY <1>1, <1>2, <1>3, <1>4, <1>5, <1>6, StepPlace DEF Next, Terminated

LEMMA CopyInit == Init => CopyInv
<1> SUFFICES ASSUME Init PROVE CopyInv
  OBVIOUS
<1>1. \A b \in Bodies : base[b] \in Nat
  BY DEF Init
<1> QED BY <1>1, NothingSent, FS_EmptySet DEF Init, CopyInv, NoStats

\* The count of copies is exact: as many acknowledged appends, each with a
\* message of its own on the destination beyond those that were there.
THEOREM CopiesAreThere == Spec => []AckedCopiesExist
<1>1. Init => TypeInv /\ CopyInv
  BY TypeInit, CopyInit
<1>2. TypeInv /\ CopyInv /\ [Next]_vars => (TypeInv /\ CopyInv)'
  BY TypeNext, CopyNext
<1>3. TypeInv /\ CopyInv => AckedCopiesExist
  BY DEF CopyInv, AckedCopiesExist
<1> QED BY <1>1, <1>2, <1>3, PTL DEF Spec

\* A folder reported as one failure has copied nothing that the report hides.
THEOREM FailureHidesNothing == Spec => []FailedFolderCopiedNothing
<1>1. Init => TypeInv /\ CopyInv
  BY TypeInit, CopyInit
<1>2. TypeInv /\ CopyInv /\ [Next]_vars => (TypeInv /\ CopyInv)'
  BY TypeNext, CopyNext
<1>3. CopyInv => FailedFolderCopiedNothing
  BY DEF CopyInv, FailedFolderCopiedNothing
<1> QED BY <1>1, <1>2, <1>3, PTL DEF Spec

(***************************************************************************)
(* Duplicates within a run.                                                *)
(***************************************************************************)
\* How many copies of u may be stored before its next append.
Tried(u) ==
  IF u = Uid /\ (pc = "appendReconnect" \/ (pc = "append" /\ attempt = 2))
  THEN 1 ELSE 0

TwiceInv ==
  /\ AtMostTwice
  /\ pc \in Setup => \A u \in Uids : stored[u] = 0
  /\ pc \in Transfer => \A u \in to_copy : stored[u] <= Tried(u)
  /\ pc = "appendReconnect" => attempt = 1

LEMMA TwiceAppend ==
  ASSUME TypeInv, TwiceInv, AppendToDst
  PROVE  TwiceInv'
<1>1. Uid \in to_copy /\ Uid \in Uids /\ to_copy \subseteq Uids
  BY LeastUid DEF AppendToDst, TypeInv, TypeOK, Transfer
<1>2. /\ \A u \in Uids : stored[u] \in Nat
      /\ \A u \in Uids : stored'[u] <= stored[u] + IF u = Uid THEN 1 ELSE 0
      /\ \A u \in Uids : stored'[u] \in Nat
  BY <1>1 DEF AppendToDst, TypeInv, TypeOK
<1>3. stored[Uid] <= IF attempt = 2 THEN 1 ELSE 0
  BY <1>1 DEF AppendToDst, TwiceInv, Tried, Transfer
<1>4. \A u \in to_copy \ {Uid} : stored[u] <= 0
  BY <1>1 DEF AppendToDst, TwiceInv, Tried, Transfer
<1>5. \A u \in Uids : stored'[u] <= 2
  BY <1>1, <1>2, <1>3 DEF TwiceInv, AtMostTwice
<1>6. \/ Settle("copied") \/ Settle("failed")
      \/ attempt = 1 /\ GoTo("appendReconnect")
  BY DEF AppendToDst, MessageFails, MayRetry
<1>7. CASE Settle("copied") \/ Settle("failed")
  <2>1. /\ pc' \in {"done", "fetch"} /\ to_copy' = to_copy \ {Uid}
    BY <1>7 DEF Settle
  <2>2. \A u \in to_copy' : stored'[u] <= 0
    BY <1>1, <1>2, <1>4, <2>1
  <2>3. \A u \in to_copy' : Tried(u)' = 0
    BY <2>1 DEF Tried
  <2> QED BY <1>5, <2>1, <2>2, <2>3 DEF TwiceInv, AtMostTwice, Setup
<1>8. CASE attempt = 1 /\ GoTo("appendReconnect")
  <2>1. /\ pc' = "appendReconnect" /\ to_copy' = to_copy /\ attempt' = 1
        /\ Uid' = Uid
    BY <1>8 DEF GoTo, local_vars, Uid
  <2>2. \A u \in to_copy : stored'[u] <= IF u = Uid THEN 1 ELSE 0
    BY <1>1, <1>2, <1>3, <1>4, <1>8
  <2>3. \A u \in to_copy : Tried(u)' = IF u = Uid THEN 1 ELSE 0
    BY <2>1 DEF Tried
  <2>4. \A u \in to_copy' : stored'[u] <= Tried(u)'
    BY <2>1, <2>2, <2>3
  <2> QED BY <1>5, <2>1, <2>4 DEF TwiceInv, AtMostTwice, Setup
<1> QED BY <1>6, <1>7, <1>8

LEMMA TwiceNext == TypeInv /\ TwiceInv /\ [Next]_vars => TwiceInv'
<1> SUFFICES ASSUME TypeInv, TwiceInv, [Next]_vars PROVE TwiceInv'
  OBVIOUS
<1>0. to_copy \subseteq Uids /\ \A u \in Uids : stored[u] \in Nat
  BY DEF TypeInv, TypeOK
<1>1. CASE Step /\ pc \in Setup \ {"plan"}
  BY <1>1, BeforePlan DEF TwiceInv, AtMostTwice, Setup, Transfer
<1>2. CASE Plan
  <2>1. stored' = stored /\ \A u \in Uids : stored[u] = 0
    BY <1>2 DEF Plan, TwiceInv, Setup, history
  <2>2. pc' \in {"done", "fetch"} /\ to_copy' \subseteq Uids
    BY <1>2 DEF Plan, TypeInv, TypeOK
  <2> QED BY <2>1, <2>2 DEF TwiceInv, AtMostTwice, Tried, Setup
<1>3. CASE Step /\ pc \in Transfer /\ pc # "append"
  <2>1. stored' = stored
    BY <1>3, InTransfer
  <2>2. CASE \E field \in Fields : Settle(field)
    <3>1. pc' \in {"done", "fetch"} /\ to_copy' = to_copy \ {Uid}
      BY <2>2 DEF Settle
    <3>2. \A u \in to_copy \ {Uid} : stored[u] <= 0
      BY <1>3 DEF TwiceInv, Tried
    <3> QED BY <2>1, <3>1, <3>2 DEF TwiceInv, AtMostTwice, Tried, Setup
  <2>3. CASE pc' \in Transfer \cup {"hung"} /\ UNCHANGED <<stats, to_copy>>
    <3>1. Uid' = Uid
      BY <2>3 DEF Uid
    <3>2. /\ pc' \in {"append", "appendReconnect"} =>
               \/ pc = "fetch" /\ attempt' = 1 /\ pc' = "append"
               \/ pc = "appendReconnect" /\ pc' = "append" /\ attempt' = 2
          /\ pc \in {"fetch", "fetchReconnect"} =>
               \A u \in to_copy : stored[u] <= 0
      <4>1. Fetch \/ FetchReconnect \/ AppendReconnect
        BY <1>3 DEF Step, Transfer, CreateFolder, Select, Index, Close,
                    ExamineSource, Search, Probe, ProbeReconnect, Plan,
                    AppendToDst
      <4>2. pc \in {"fetch", "fetchReconnect"} =>
              \A u \in to_copy : stored[u] <= 0
        BY <1>3 DEF TwiceInv, Tried
      <4>3. CASE Fetch
        <5>1. PICK body \in Bodies \cup {NoBody} :
                Received(body) \/ MessageFails \/ GoTo("fetchReconnect")
          BY <4>3 DEF Fetch
        <5> QED BY <4>2, <4>3, <5>1
             DEF Fetch, Received, Keep, Settle, MessageFails, GoTo
      <4>4. CASE FetchReconnect
        BY <4>2, <4>4 DEF FetchReconnect, MessageFails, Settle, Hang
      <4>5. CASE AppendReconnect
        BY <4>2, <4>5 DEF AppendReconnect, MessageFails, Settle, Hang
      <4> QED BY <4>1, <4>3, <4>4, <4>5
    <3>3. CASE pc \in {"fetch", "fetchReconnect"}
      <4>1. \A u \in to_copy : stored[u] <= Tried(u)'
        BY <1>0, <3>2, <3>3 DEF Tried
      <4> QED
        BY <2>1, <2>3, <3>2, <3>3, <4>1
           DEF TwiceInv, AtMostTwice, Setup, Transfer
    <3>4. CASE pc = "appendReconnect"
      <4>1. \A u \in to_copy : stored[u] <= IF u = Uid THEN 1 ELSE 0
        BY <3>4 DEF TwiceInv, Tried, Transfer
      <4>2. pc' = "append" /\ attempt' = 2 =>
              \A u \in to_copy : Tried(u)' = IF u = Uid THEN 1 ELSE 0
        BY <3>1 DEF Tried
      <4>3. AppendReconnect
        BY <1>3, <3>4
           DEF Step, CreateFolder, Select, Index, Close, ExamineSource,
               Search, Probe, ProbeReconnect, Plan, Fetch, FetchReconnect,
               AppendToDst
      <4>4. Uid \in to_copy
        BY <1>0, <1>3, LeastUid DEF TypeInv
      <4>5. pc' \in Transfer => pc' = "append" /\ attempt' = 2
        BY <2>3, <4>3, <4>4
           DEF AppendReconnect, MessageFails, Settle, Hang, Transfer
      <4> QED
        BY <2>1, <2>3, <4>1, <4>2, <4>5
           DEF TwiceInv, AtMostTwice, Setup, Transfer
    <3> QED BY <1>3, <3>3, <3>4 DEF Transfer
  <2> QED BY <1>3, <2>2, <2>3, InTransfer DEF Fields
<1>4. CASE AppendToDst
  BY <1>4, TwiceAppend
<1>5. CASE Crash
  <2>1. pc = "append" => Uid \in to_copy /\ stored[Uid] <= 1
    BY <1>0, LeastUid DEF TypeInv, TwiceInv, Tried, Transfer
  <2>2. \A u \in Uids : stored'[u] <= 2
    BY <1>0, <1>5, <2>1 DEF Crash, TwiceInv, AtMostTwice, TypeInv, TypeOK
  <2> QED BY <1>5, <2>2 DEF Crash, TwiceInv, AtMostTwice, Setup, Transfer
<1>6. CASE Rerun
  BY <1>6 DEF Rerun, TwiceInv, AtMostTwice, Transfer
<1>7. CASE OtherClient \/ UNCHANGED vars
  <2>1. UNCHANGED <<pc, attempt, to_copy, stored>>
    BY <1>7 DEF OtherClient, vars, local_vars, history
  <2>2. Uid' = Uid
    BY <2>1 DEF Uid
  <2> QED BY <2>1, <2>2 DEF TwiceInv, AtMostTwice, Tried
<1>8. Step /\ pc = "append" => AppendToDst
  BY DEF Step, CreateFolder, Select, Index, Close, ExamineSource, Search,
         Probe, ProbeReconnect, Plan, Fetch, FetchReconnect, AppendReconnect
<1> QED
  BY <1>1, <1>2, <1>3, <1>4, <1>5, <1>6, <1>7, <1>8, StepPlace
     DEF Next, Terminated

\* No message is stored more than twice in a run: the only duplicate comes
\* from the one retry of an append whose answer was lost.
THEOREM BoundedDuplication == Spec => []AtMostTwice
<1>1. Init => TypeInv /\ TwiceInv
  BY TypeInit DEF Init, TwiceInv, AtMostTwice, Transfer
<1>2. TypeInv /\ TwiceInv /\ [Next]_vars => (TypeInv /\ TwiceInv)'
  BY TypeNext, TwiceNext
<1>3. TwiceInv => AtMostTwice
  BY DEF TwiceInv
<1> QED BY <1>1, <1>2, <1>3, PTL DEF Spec

(***************************************************************************)
(* The variant.  StepsLeft never goes below 0 and every step of the        *)
(* program lowers it; with the fairness of the executor that is why a pass *)
(* ends.                                                                   *)
(***************************************************************************)
SetupLeft == 9 * Cardinality(Uids) + 4

\* StepsLeft and TriesLeft, place by place.
Places ==
  /\ pc \in Ended => StepsLeft = 0
  /\ pc \in {"append", "appendReconnect"} =>
       StepsLeft = 6 * Cardinality(to_copy) - 6 + TriesLeft
  /\ pc \in {"fetch", "fetchReconnect"} =>
       StepsLeft = 6 * Cardinality(to_copy) - 3 + TriesLeft
  /\ pc = "plan" => StepsLeft = 6 * Cardinality(src_uids) + 1
  /\ pc \in {"probe", "probeReconnect"} =>
       StepsLeft = 6 * Cardinality(src_uids) + 1
                     + 3 * Cardinality(unprobed) + TriesLeft
  /\ pc = "search" => StepsLeft = SetupLeft + 1
  /\ pc = "examine" => StepsLeft = SetupLeft + 2
  /\ pc = "close" => StepsLeft = SetupLeft + 3
  /\ pc = "index" => StepsLeft = SetupLeft + 4
  /\ pc = "select" => StepsLeft = SetupLeft + 5
  /\ pc = "create" => StepsLeft = SetupLeft + 6
  /\ TriesLeft \in 1..3
  /\ pc \in {"probeReconnect", "fetchReconnect", "appendReconnect"} =>
       TriesLeft = 2
  /\ pc \in {"probe", "fetch", "append"} =>
       TriesLeft = IF attempt = 1 THEN 3 ELSE 1

LEMMA StepsAt == Places
BY DEF Places, StepsLeft, TriesLeft, SetupLeft, Ended

Sizes ==
  /\ Cardinality(src_uids) \in Nat /\ Cardinality(unprobed) \in Nat
  /\ Cardinality(to_copy) \in Nat /\ Cardinality(Uids) \in Nat
  /\ Cardinality(src_uids) <= Cardinality(Uids)
  /\ Cardinality(to_copy) <= Cardinality(src_uids)
  /\ pc \in Transfer => Cardinality(to_copy) >= 1

LEMMA SizesFit == TypeInv => Sizes
<1> SUFFICES ASSUME TypeInv PROVE Sizes
  OBVIOUS
<1>1. /\ src_uids \in SUBSET Uids /\ unprobed \in SUBSET Uids
      /\ to_copy \in SUBSET Uids /\ to_copy \in SUBSET src_uids
  BY DEF TypeInv, TypeOK
<1>2. pc \in Transfer => Cardinality(to_copy) # 0
  BY <1>1, FiniteUids, FS_EmptySet DEF TypeInv
<1>3. IsFiniteSet(src_uids) /\ IsFiniteSet(Uids)
  BY <1>1, FiniteUids, ImapAssumption
<1>4. /\ Cardinality(src_uids) <= Cardinality(Uids)
      /\ Cardinality(to_copy) <= Cardinality(src_uids)
  BY <1>1, <1>3, FS_Subset
<1> QED BY <1>1, <1>2, <1>4, FiniteUids DEF Sizes

StepsCount == StepsLeft \in Nat /\ (pc \notin Ended => StepsLeft > 0)

LEMMA StepsType ==
  Places /\ Sizes /\ pc \in Setup \cup Transfer \cup Ended => StepsCount
<1> SUFFICES ASSUME Places, Sizes, pc \in Setup \cup Transfer \cup Ended
             PROVE  StepsCount
  OBVIOUS
<1> USE DEF StepsCount
<1>1. TriesLeft \in 1..3 /\ SetupLeft \in Nat
  BY DEF Places, Sizes, SetupLeft
<1>2. CASE pc \in Ended
  BY <1>2 DEF Places
<1>3. CASE pc \in Transfer
  BY <1>1, <1>3 DEF Transfer, Places, Sizes
<1>4. CASE pc \in Setup
  BY <1>1, <1>4 DEF Setup, Ended, Places, Sizes
<1> QED BY <1>2, <1>3, <1>4

\* There is something in every chunk, as long as there is anything to probe.
LEMMA ChunkIsSome ==
  ASSUME TypeInv, unprobed # {}
  PROVE  /\ Cardinality(unprobed \ Chunk) \in Nat
         /\ Cardinality(unprobed \ Chunk) < Cardinality(unprobed)
<1> DEFINE u == CHOOSE x \in unprobed : \A v \in unprobed : x <= v
<1>1. unprobed \in SUBSET Uids /\ unprobed \in SUBSET Nat
  BY ImapAssumption DEF TypeInv, TypeOK
<1>2. u \in unprobed /\ \A v \in unprobed : u <= v
  BY <1>1, LeastOf
<1> HIDE DEF u
<1>3. {v \in unprobed : v < u} = {}
  <2>1. \A v \in unprobed : v \in Nat /\ u \in Nat /\ u <= v
    BY <1>1, <1>2
  <2>2. \A v \in unprobed : ~(v < u)
    BY <2>1
  <2> QED BY <2>2
<1>4. u \in Chunk
  BY <1>2, <1>3, FS_EmptySet, SyncAssumption DEF Chunk
<1>5. (unprobed \ Chunk) \subseteq unprobed \ {u}
  BY <1>4
<1>6. /\ IsFiniteSet(unprobed \ {u})
      /\ Cardinality(unprobed \ {u}) = Cardinality(unprobed) - 1
      /\ Cardinality(unprobed) \in Nat
  BY <1>1, <1>2, FiniteUids, FS_RemoveElement
<1>7. Cardinality(unprobed \ Chunk) <= Cardinality(unprobed \ {u})
  BY <1>5, <1>6, FS_Subset
<1>8. Cardinality(unprobed \ Chunk) \in Nat
  BY <1>1, FiniteUids
<1> QED BY <1>6, <1>7, <1>8

\* One message fewer is worth the six steps it may have taken.
LEMMA FewerSettle ==
  ASSUME TypeInv, pc \in Transfer, Places, Places', Sizes, Sizes',
         NEW field, Settle(field)
  PROVE  StepsLeft' < StepsLeft
<1>1. Uid \in to_copy /\ IsFiniteSet(to_copy)
  BY LeastUid, FiniteUids DEF TypeInv, TypeOK
<1>2. Cardinality(to_copy') = Cardinality(to_copy) - 1
  BY <1>1, FS_RemoveElement DEF Settle
<1>3. StepsLeft > 6 * Cardinality(to_copy) - 6 /\ StepsLeft \in Nat
  BY StepsType DEF StepsCount, Transfer, Places, Sizes
<1>4. CASE pc' = "done"
  BY <1>3, <1>4, StepsType DEF StepsCount, Places, Ended, Transfer
<1>5. CASE pc' = "fetch"
  BY <1>2, <1>3, <1>5 DEF Places, Sizes, Settle
<1> QED BY <1>4, <1>5 DEF Settle

LEMMA FewerSetup ==
  ASSUME TypeInv, Places, Places', Sizes, Sizes',
         \/ CreateFolder \/ Select \/ Index \/ Close \/ ExamineSource
         \/ Search \/ Plan
  PROVE  StepsLeft' < StepsLeft
<1> USE DEF Places
<1>1. StepsLeft \in Nat /\ StepsLeft > 0
  BY StepsType
     DEF StepsCount, Setup, Ended, CreateFolder, Select, Index, Close, ExamineSource,
         Search, Plan
<1>2. CASE pc' \in Ended
  BY <1>1, <1>2
<1>3. SetupLeft \in Nat /\ SetupLeft' = SetupLeft
  BY DEF Sizes, SetupLeft
<1>4. CASE CreateFolder \/ Select \/ Index \/ Close \/ ExamineSource
  <2>1. \/ pc' \in Ended
        \/ CreateFolder /\ pc' = "select"
        \/ Select /\ pc' = "index"
        \/ Index /\ pc' = "close"
        \/ Close /\ pc' = "examine"
        \/ ExamineSource /\ pc' = "search"
    BY <1>4
       DEF CreateFolder, Select, Index, Close, ExamineSource, Proceed, GoTo,
           FolderFails, Hang, Ended
  <2> QED
    BY <1>2, <1>3, <2>1
       DEF CreateFolder, Select, Index, Close, ExamineSource
<1>5. CASE Search
  <2>1. StepsLeft = 9 * Cardinality(Uids) + 5
    BY <1>5 DEF Search, Sizes, SetupLeft
  <2>2. \/ pc' \in Ended
        \/ pc' = "plan"
        \/ pc' = "probe" /\ Cardinality(unprobed') = Cardinality(src_uids')
    <3>1. PICK status \in Outcome, uids \in SUBSET Uids :
            \/ /\ pc' = IF uids = {} THEN "plan" ELSE "probe"
               /\ src_uids' = uids
               /\ unprobed' = uids
            \/ status # "ok" /\ Proceed(status, "probe")
      BY <1>5 DEF Search
    <3> QED BY <3>1 DEF Proceed, FolderFails, Hang, Ended
  <2> QED BY <1>2, <2>1, <2>2 DEF Sizes
<1>6. CASE Plan
  <2>1. src_uids' = src_uids /\ pc' \in {"done", "fetch"} /\ pc = "plan"
    BY <1>6 DEF Plan
  <2> QED BY <1>2, <2>1 DEF Sizes, Ended
<1> QED BY <1>4, <1>5, <1>6

LEMMA FewerProbe ==
  ASSUME TypeInv, Places, Places', Sizes, Sizes', Probe \/ ProbeReconnect
  PROVE  StepsLeft' < StepsLeft
<1> USE DEF Places
<1>1. StepsLeft \in Nat /\ StepsLeft > 0
  BY StepsType DEF StepsCount, Setup, Ended, Probe, ProbeReconnect
<1>2. CASE pc' \in Ended
  BY <1>1, <1>2
<1>3. StepsLeft = 6 * Cardinality(src_uids) + 1
                    + 3 * Cardinality(unprobed) + TriesLeft
  BY DEF Probe, ProbeReconnect
<1>4. CASE UNCHANGED <<src_uids, unprobed>> /\ TriesLeft' < TriesLeft
           /\ pc' \in {"probe", "probeReconnect"}
  BY <1>3, <1>4 DEF Sizes
<1>5. CASE Probe
  <2>1. \/ /\ unprobed' = unprobed \ Chunk
           /\ UNCHANGED src_uids
           /\ pc' = IF unprobed' = {} THEN "plan" ELSE "probe"
        \/ MayRetry /\ GoTo("probeReconnect")
        \/ FolderFails
    BY <1>5 DEF Probe, Probed
  <2>2. CASE unprobed' = unprobed \ Chunk /\ UNCHANGED src_uids
             /\ pc' = "plan"
    BY <1>3, <2>2 DEF Sizes
  <2>3. CASE unprobed' = unprobed \ Chunk /\ UNCHANGED src_uids
             /\ pc' = "probe" /\ unprobed' # {}
    <3>1. Cardinality(unprobed') < Cardinality(unprobed)
      BY <2>3, ChunkIsSome
    <3> QED BY <1>3, <2>3, <3>1 DEF Sizes
  <2>4. CASE MayRetry /\ GoTo("probeReconnect")
    BY <1>4, <1>5, <2>4 DEF Probe, MayRetry, GoTo, local_vars
  <2> QED BY <1>2, <2>1, <2>2, <2>3, <2>4 DEF FolderFails, Ended
<1>6. CASE ProbeReconnect
  <2>1. \/ /\ pc' = "probe" /\ attempt' = 2
           /\ UNCHANGED <<src_uids, unprobed>>
        \/ pc' \in Ended
    BY <1>6 DEF ProbeReconnect, FolderFails, Hang, Ended
  <2> QED BY <1>2, <1>4, <1>6, <2>1 DEF ProbeReconnect
<1> QED BY <1>5, <1>6

LEMMA FewerTransfer ==
  ASSUME TypeInv, Places, Places', Sizes, Sizes',
         Fetch \/ FetchReconnect \/ AppendToDst \/ AppendReconnect
  PROVE  StepsLeft' < StepsLeft
<1>1. pc \in Transfer
  BY DEF Transfer, Fetch, FetchReconnect, AppendToDst, AppendReconnect
<1>2. StepsLeft \in Nat /\ StepsLeft > 0
  BY <1>1, StepsType DEF StepsCount, Transfer, Ended
<1>3. CASE \E field : Settle(field)
  BY <1>1, <1>3, FewerSettle
<1>4. CASE pc' = "hung"
  BY <1>2, <1>4 DEF Places, Ended
<1> USE DEF Places
<1>5. CASE Fetch
  <2>1. \/ \E field : Settle(field)
        \/ pc' = "append" /\ UNCHANGED to_copy
        \/ attempt = 1 /\ pc' = "fetchReconnect" /\ UNCHANGED to_copy
    BY <1>5
       DEF Fetch, Received, Keep, MessageFails, MayRetry, GoTo, local_vars
  <2> QED BY <1>3, <1>5, <2>1 DEF Fetch, Sizes
<1>6. CASE FetchReconnect
  <2>1. \/ \E field : Settle(field)
        \/ pc' = "fetch" /\ attempt' = 2 /\ UNCHANGED to_copy
        \/ pc' = "hung"
    BY <1>6 DEF FetchReconnect, MessageFails, Hang
  <2> QED BY <1>3, <1>4, <1>6, <2>1 DEF FetchReconnect, Sizes
<1>7. CASE AppendToDst
  <2>1. \/ \E field : Settle(field)
        \/ attempt = 1 /\ pc' = "appendReconnect" /\ UNCHANGED to_copy
    BY <1>7 DEF AppendToDst, MessageFails, MayRetry, GoTo, local_vars
  <2> QED BY <1>3, <1>7, <2>1 DEF AppendToDst, Sizes
<1>8. CASE AppendReconnect
  <2>1. \/ \E field : Settle(field)
        \/ pc' = "append" /\ attempt' = 2 /\ UNCHANGED to_copy
        \/ pc' = "hung"
    BY <1>8 DEF AppendReconnect, MessageFails, Hang
  <2> QED BY <1>3, <1>4, <1>8, <2>1 DEF AppendReconnect, Sizes
<1> QED BY <1>5, <1>6, <1>7, <1>8

LEMMA StepsFall ==
  ASSUME TypeInv, TypeInv', Places, Places', Sizes, Sizes', [Next]_vars
  PROVE  \/ UNCHANGED vars
         \/ Rerun
         \/ OtherClient /\ UNCHANGED StepsLeft
         \/ StepsLeft' \in 0 .. StepsLeft - 1
<1>1. /\ pc \in Setup \cup Transfer \cup Ended
      /\ pc' \in Setup \cup Transfer \cup Ended
  BY DEF TypeInv, TypeOK
<1>2. StepsCount /\ StepsCount'
  <2>1. (Places /\ Sizes /\ pc \in Setup \cup Transfer \cup Ended
           => StepsCount)'
    BY StepsType, PTL
  <2> QED BY <1>1, <2>1, StepsType DEF Setup, Transfer, Ended
<1>3. CASE Step
  BY <1>2, <1>3, FewerSetup, FewerProbe, FewerTransfer
     DEF StepsCount, Step
<1>4. CASE Crash
  BY <1>2, <1>4 DEF StepsCount, Crash, Places, Ended
<1>5. CASE OtherClient
  BY <1>5 DEF OtherClient, local_vars, StepsLeft, TriesLeft
<1> QED BY <1>3, <1>4, <1>5 DEF Next, Terminated

\* Every step of a pass leaves fewer to take, whatever the faults and however
\* many the messages: no pass goes on for ever, and none takes more than
\* StepsLeft of its start.
THEOREM PassesAreBounded == Spec => BoundedPass
<1> DEFINE Inv == TypeInv /\ Places /\ Sizes
<1>1. TypeInv => Inv
  BY StepsAt, SizesFit
<1>2. Inv /\ Inv' /\ [Next]_vars =>
        [\/ Rerun
         \/ OtherClient /\ UNCHANGED StepsLeft
         \/ StepsLeft' \in 0 .. StepsLeft - 1]_vars
  BY StepsFall
<1> HIDE DEF Inv
<1>3. Spec => []TypeInv
  BY Counting, PTL
<1> QED BY <1>1, <1>2, <1>3, PTL DEF Spec, BoundedPass

=============================================================================
