-------------------------- MODULE FolderSyncReruns --------------------------
(***************************************************************************)
(* Theorems about two runs in a row: what the destination keeps of a clean *)
(* run is recognised by the next one, and what a clean dry run counts is   *)
(* what the next run copies.                                               *)
(***************************************************************************)
EXTENDS FolderSyncContent

Appending == {"append", "appendReconnect"}

(***************************************************************************)
(* Where bodies come from.  What is fetched was listed by this run's own   *)
(* SEARCH, because EXAMINE drops what an earlier folder left on the        *)
(* connection; it is never too big to be appended; and an empty one is     *)
(* remembered for the message in whose place it came.                      *)
(***************************************************************************)
OriginInv ==
  /\ pc \in Setup => blanks = {}
  /\ pc \in Transfer => src_session.late \in src_uids \cup {NoBody}
  /\ pc \in Appending => /\ msg \in src_uids \cup {Blank}
                         /\ ~Big(msg)
                         /\ msg = Blank => Uid \in blanks
  /\ \A u \in Uids : <<u, Blank>> \in acked => u \in blanks

LEMMA OriginFetch ==
  ASSUME TypeInv, OriginInv, Fetch
  PROVE  OriginInv'
<1> USE DEF Transfer, Appending, Setup, Listed
<1>1. PICK status \in Outcome, body \in Bodies \cup {NoBody} :
        /\ FetchFullByUid(Uid, status, body)
        /\ \/ body # NoBody /\ Received(body)
           \/ MessageFails
           \/ GoTo("fetchReconnect")
        /\ blanks' = blanks \cup {u \in {Uid} : body = Blank}
  BY DEF Fetch
<1>2. pc = "fetch" /\ ImapTypeOK /\ Uid \in to_copy /\ to_copy \subseteq src_uids
  BY LeastUid DEF Fetch, TypeInv, TypeOK
<1>3. UNCHANGED <<kind, src_box, acked, src_uids>>
  BY <1>1 DEF Fetch, FetchFullByUid, mail_vars, Received, Keep, MessageFails,
              Settle, GoTo, local_vars
<1>4. src_session'.late \in src_uids \cup {NoBody}
  BY <1>1, <1>2, FetchOutcome DEF OriginInv
<1>5. body # NoBody => body \in src_uids \cup {Blank}
  BY <1>1, <1>2, FetchOutcome DEF OriginInv
<1>6. /\ pc' \in {"fetch", "fetchReconnect", "append", "done"}
      /\ pc' = "append" => /\ msg' = body /\ body # NoBody /\ ~Big(body)
                           /\ to_copy' = to_copy
  BY <1>1 DEF Received, Keep, MessageFails, Settle, GoTo, local_vars
<1>7. pc' = "append" /\ msg' = Blank => Uid' \in blanks'
  BY <1>1, <1>6 DEF Uid
<1> QED
  BY <1>1, <1>2, <1>3, <1>4, <1>5, <1>6, <1>7, AttributesStable DEF OriginInv

LEMMA OriginTransfer ==
  ASSUME TypeInv, OriginInv, FetchReconnect \/ AppendToDst \/ AppendReconnect
  PROVE  OriginInv'
<1> USE DEF Transfer, Appending, Setup, Listed
<1>1. UNCHANGED <<kind, src_box, src_uids, blanks>>
  BY DEF FetchReconnect, ReconnectSrc, AppendToDst, AppendMessage,
         AppendReconnect, ReconnectDst, MessageFails, Settle, GoTo, Hang,
         local_vars, mail_vars, history
<1>2. src_session' = src_session \/ src_session' = FreshSrc
  BY DEF FetchReconnect, ReconnectSrc, AppendToDst, AppendMessage,
         AppendReconnect, ReconnectDst
<1>3. /\ pc \in Transfer /\ pc' \in Transfer \cup {"done", "hung"}
      /\ pc' \in Appending =>
           pc \in Appending /\ UNCHANGED <<msg, to_copy>>
  BY DEF FetchReconnect, AppendToDst, AppendReconnect, MessageFails, Settle,
         GoTo, Hang, local_vars
<1>4. acked' = acked \/ (pc \in Appending /\ acked' = acked \cup {<<Uid, msg>>})
  BY DEF FetchReconnect, AppendToDst, AppendReconnect, history
<1>5. pc' \in Appending => Uid' = Uid
  BY <1>3 DEF Uid
<1> QED
  BY <1>1, <1>2, <1>3, <1>4, <1>5, AttributesStable DEF OriginInv, FreshSrc

LEMMA OriginNext ==
  TypeInv /\ CopyInv /\ IndexInv /\ OriginInv /\ [Next]_vars => OriginInv'
<1> SUFFICES ASSUME TypeInv, CopyInv, IndexInv, OriginInv, [Next]_vars
             PROVE  OriginInv'
  OBVIOUS
<1> USE DEF Setup, Transfer, Appending, Listed
<1>1. CASE Step /\ pc \in Setup \ {"plan"}
  <2>1. /\ pc' \in Setup \cup {"failed", "hung"}
        /\ blanks' = {} /\ acked' = {}
    BY <1>1, BeforePlan DEF OriginInv, CopyInv
  <2> QED BY <2>1 DEF OriginInv
<1>2. CASE Plan
  BY <1>2 DEF Plan, OriginInv, IndexInv, NothingLate, CopyInv, imap_vars,
              mail_vars, history
<1>3. CASE Fetch
  BY <1>3, OriginFetch
<1>4. CASE FetchReconnect \/ AppendToDst \/ AppendReconnect
  BY <1>4, OriginTransfer
<1>5. CASE Crash \/ Rerun
  BY <1>5 DEF Crash, Rerun, OriginInv
<1>6. CASE OtherClient \/ UNCHANGED vars
  <2>1. /\ UNCHANGED <<pc, blanks, src_uids, src_session, msg, to_copy, kind,
                       acked>>
    BY <1>6
       DEF OtherClient, Expunge, vars, imap_vars, mail_vars, local_vars,
           history
  <2>2. Uid' = Uid
    BY <2>1 DEF Uid
  <2> QED BY <2>1, <2>2, AttributesStable DEF OriginInv
<1> QED
  BY <1>1, <1>2, <1>3, <1>4, <1>5, <1>6
     DEF Next, Step, Terminated, CreateFolder, Select, Index, Close,
         ExamineSource, Search, Probe, ProbeReconnect

(***************************************************************************)
(* What a clean run leaves.  The messages it listed are in `last.box';     *)
(* each that the next run can recognise has a copy on the destination, and *)
(* no CLOSE of a later run removes that copy.  So the next index has its   *)
(* Message-Id, unless a refusal cut it short.                              *)
(***************************************************************************)
Recognised(u) == Lasting(u) /\ ~Big(u) /\ u \notin last.blanks

Placed(u) == \E b \in Uids : Mid(b) = Mid(u) /\ dst_box[b] > 0

Indexed == Indexing \cup Transfer \cup {"done"}

AllIndexed == "index" \notin cut

PlacedInv ==
  last.clean /\ ~last.dry =>
    \A u \in last.box :
      Recognised(u) => /\ Placed(u)
                       /\ pc \in Indexed /\ AllIndexed => Mid(u) \in indexed

LEMMA LastingStable ==
  ASSUME kind' = kind
  PROVE  \A u : Lasting(u)' = Lasting(u)
<1>1. \A u : Lasting(u)' <=> Lasting(u)
  BY AttributesStable DEF Lasting
<1> QED BY <1>1 DEF Lasting

\* How a step of one run moves what PlacedInv speaks of.
LEMMA WithinRun ==
  ASSUME TypeInv, Step \/ Crash \/ OtherClient \/ UNCHANGED vars
  PROVE  /\ UNCHANGED <<last, kind>>
         /\ cut \subseteq cut'
         /\ \/ UNCHANGED indexed /\ (pc' \in Indexed => pc \in Indexed)
            \/ /\ AllIndexed' => indexed' = MidsOf(Stored)
               /\ UNCHANGED dst_box
<1> USE DEF Indexed, Indexing, Transfer
<1>1. CASE Index
  BY <1>1 DEF Index, FetchAllMessageIds, Proceed, GoTo, FolderFails, Hang,
              local_vars, mail_vars, AllIndexed
<1>2. CASE Search
  BY <1>2 DEF Search, SearchAllUids, mail_vars, history
<1>3. CASE CreateFolder \/ Select \/ Close \/ ExamineSource
  BY <1>3
     DEF CreateFolder, CreateFolderIfMissing, Select, SelectForWrite, Close,
         CloseMailbox, ExamineSource, Examine, Proceed, GoTo, FolderFails,
         Hang, local_vars, mail_vars, history
<1>4. CASE Probe \/ ProbeReconnect \/ Plan
  BY <1>4
     DEF Probe, FetchMessageIdsForUids, Probed, ProbeReconnect, ReconnectSrc,
         Plan, GoTo, FolderFails, Hang, local_vars, imap_vars, mail_vars,
         history
<1>5. CASE Step /\ pc \in Transfer
  <2>1. cut' = cut
    BY <1>5
       DEF Step, CreateFolder, Select, Index, Close, ExamineSource, Search,
           Probe, ProbeReconnect, Plan, Fetch, FetchReconnect, AppendToDst,
           AppendReconnect, history
  <2> QED BY <1>5, <2>1, InTransfer
<1>6. CASE Crash \/ OtherClient \/ UNCHANGED vars
  BY <1>6 DEF Crash, OtherClient, Expunge, vars, imap_vars, mail_vars,
              local_vars, history
<1> QED
  BY <1>1, <1>2, <1>3, <1>4, <1>5, <1>6
     DEF Step, Fetch, FetchReconnect, AppendToDst, AppendReconnect

\* The copies of a message not flagged \Deleted stay.
LEMMA PlacedStays ==
  ASSUME TypeInv, [Next]_vars, NEW u \in Uids, Lasting(u), Placed(u)
  PROVE  Placed(u)'
<1>1. PICK b \in Uids : Mid(b) = Mid(u) /\ dst_box[b] > 0
  BY DEF Placed
<1>2. ~Deleted(b)
  BY <1>1 DEF Lasting
<1>3. dst_box[b] \in Nat
  BY DEF TypeInv, TypeOK, ImapTypeOK, Bodies
<1>4. kind' = kind /\ dst_box'[b] > 0
  BY <1>1, <1>2, <1>3, BoxKept
<1> QED BY <1>1, <1>4, MidStable DEF Placed

\* A clean run leaves every message that can be recognised.
LEMMA CleanLeaves ==
  ASSUME TypeInv, OriginInv, CleanRunDelivers,
         pc = "done", stats.failed = 0, ~dry_run,
         NEW u \in src_uids, Lasting(u), ~Big(u), u \notin blanks
  PROVE  Placed(u)
<1>1. u \in Uids /\ <<u, Blank>> \notin acked
  BY DEF TypeInv, TypeOK, OriginInv
<1>2. CASE dst_box[u] > 0
  BY <1>1, <1>2 DEF Placed
<1>3. CASE \E b \in Uids : /\ Mid(b) = Mid(u) /\ Mid(u) # NoId
                           /\ dst_box[b] > 0 \/ Deleted(b)
  BY <1>3 DEF Lasting, Placed
<1> QED BY <1>1, <1>2, <1>3 DEF CleanRunDelivers

LEMMA PlacedNext ==
  /\ TypeInv /\ OriginInv /\ CleanRunDelivers /\ PlacedInv
  /\ [Next]_vars
  => PlacedInv'
<1> SUFFICES ASSUME TypeInv, OriginInv, CleanRunDelivers, PlacedInv,
                    [Next]_vars
             PROVE  PlacedInv'
  OBVIOUS
<1>1. CASE Rerun
  <2>1. /\ last'.clean => pc = "done" /\ stats.failed = 0
        /\ last'.dry = dry_run /\ last'.box = src_uids
        /\ last'.blanks = blanks
        /\ UNCHANGED <<kind, dst_box>> /\ pc' = "create"
    BY <1>1 DEF Rerun
  <2>2. ASSUME last'.clean, ~last'.dry, NEW u \in last'.box, Recognised(u)'
        PROVE  Placed(u)'
    <3>1. Lasting(u) /\ ~Big(u) /\ u \notin blanks
      BY <2>1, <2>2, LastingStable, AttributesStable DEF Recognised
    <3>2. Placed(u)
      BY <2>1, <2>2, <3>1, CleanLeaves
    <3> QED BY <2>1, <3>2, MidStable DEF Placed
  <2> QED
    BY <2>1, <2>2 DEF PlacedInv, Indexed, Indexing, Transfer
<1>2. CASE Step \/ Crash \/ OtherClient \/ UNCHANGED vars
  <2>1. UNCHANGED <<last, kind>>
    BY <1>2, WithinRun
  <2>2. last.box \subseteq Uids
    BY DEF TypeInv, TypeOK
  <2>3. AllIndexed' => AllIndexed
    BY <1>2, WithinRun DEF AllIndexed
  <2>4. ASSUME last'.clean, ~last'.dry, NEW u \in last'.box, Recognised(u)'
        PROVE  /\ Placed(u)'
               /\ pc' \in Indexed /\ AllIndexed' => Mid(u)' \in indexed'
    <3>1. u \in Uids /\ Recognised(u)
      BY <2>1, <2>2, <2>4, LastingStable, AttributesStable DEF Recognised
    <3>2. /\ Placed(u)
          /\ pc \in Indexed /\ AllIndexed => Mid(u) \in indexed
      BY <2>1, <2>4, <3>1 DEF PlacedInv
    <3>3. Mid(u) \in MidsOf(Stored)
      <4>1. PICK b \in Uids : Mid(b) = Mid(u) /\ dst_box[b] > 0
        BY <3>2 DEF Placed
      <4> QED BY <3>1, <4>1 DEF MidsOf, Stored, Bodies, Lasting, Recognised
    <3>4. pc' \in Indexed /\ AllIndexed' => Mid(u) \in indexed'
      BY <1>2, <2>3, <3>2, <3>3, WithinRun
    <3> QED BY <2>1, <3>1, <3>2, <3>4, PlacedStays, MidStable DEF Recognised
  <2> QED BY <2>4 DEF PlacedInv
<1> QED BY <1>1, <1>2 DEF Next, Terminated

(***************************************************************************)
(* So nothing of it that can be recognised is appended: its Message-Id is  *)
(* in the index, which IndexInv keeps out of the hand; and what is too big *)
(* is never taken in hand.                                                 *)
(***************************************************************************)
LEMMA RecognisedNotInHand ==
  ASSUME TypeInv, IndexInv, OriginInv, PlacedInv,
         last.clean, ~last.dry, cut = {}, pc \in Appending,
         NEW u \in last.box, Lasting(u), u \notin last.blanks
  PROVE  msg # u
<1>1. SUFFICES ASSUME msg = u PROVE FALSE
  OBVIOUS
<1>2. ~Big(u)
  BY <1>1 DEF OriginInv
<1>3. Mid(u) \in indexed
  BY <1>2 DEF PlacedInv, AllIndexed, Recognised, Indexed, Transfer, Appending
<1> QED BY <1>1, <1>3 DEF IndexInv, AllProbed, Appending

LEMMA GainNext ==
  /\ TypeInv /\ CopyInv /\ IndexInv /\ OriginInv /\ PlacedInv
  /\ RerunCopiesOnlyUnidentified
  /\ [Next]_vars
  => RerunCopiesOnlyUnidentified'
<1> SUFFICES ASSUME TypeInv, CopyInv, IndexInv, OriginInv, PlacedInv,
                    RerunCopiesOnlyUnidentified, [Next]_vars,
                    last'.clean, ~last'.dry, cut' = {},
                    NEW u \in last'.box, Lasting(u)', u \notin last'.blanks
             PROVE  Gain(u)' <= 0
  BY DEF RerunCopiesOnlyUnidentified
<1> USE DEF Gain
<1>1. /\ base[u] \in Nat /\ dst_box[u] \in Nat
      /\ base'[u] \in Nat /\ dst_box'[u] \in Nat
      /\ u \in Uids /\ u \in Bodies
  BY TypeNext DEF TypeInv, TypeOK, ImapTypeOK, Bodies
<1>2. CASE base' = dst_box'
  BY <1>1, <1>2
<1>3. Rerun => base' = dst_box'
  BY DEF Rerun
<1>4. Step /\ pc \in Setup \ {"plan"} => base' = dst_box'
  BY BeforePlan DEF CopyInv
<1>5. CASE UNCHANGED last /\ cut \subseteq cut'
  <2>1. /\ Lasting(u) /\ u \in last.box /\ u \notin last.blanks
        /\ last.clean /\ ~last.dry /\ cut = {}
    BY <1>5, BoxKept, LastingStable
  <2>2. Gain(u) <= 0
    BY <2>1 DEF RerunCopiesOnlyUnidentified
  <2>3. CASE base' = base /\ dst_box'[u] = dst_box[u]
    BY <2>2, <2>3
  <2>4. CASE AppendToDst
    <3>1. dst_box' \in {dst_box, Store(msg), Store(Garbled)} /\ base' = base
      BY <2>4, AppendBox DEF AppendToDst, TypeInv, TypeOK
    <3>2. msg # u /\ Garbled # u
      BY <1>1, <2>1, <2>4, RecognisedNotInHand, ImapAssumption
         DEF AppendToDst, Appending
    <3> QED
      BY <1>1, <2>3, <3>1, <3>2 DEF Store, TypeInv, TypeOK, ImapTypeOK, Bodies
  <2>5. CASE Crash
    <3>1. base' = base
          /\ (dst_box' = dst_box \/ (pc = "append" /\ dst_box' = Store(msg)))
      BY <2>5 DEF Crash
    <3>2. pc = "append" => msg # u
      BY <2>1, RecognisedNotInHand DEF Appending
    <3> QED
      BY <1>1, <2>3, <3>1, <3>2 DEF Store, TypeInv, TypeOK, ImapTypeOK, Bodies
  <2>6. CASE \/ Plan \/ Fetch \/ FetchReconnect \/ AppendReconnect
             \/ OtherClient \/ UNCHANGED vars
    <3>1. UNCHANGED <<base, dst_box>>
      BY <2>6
         DEF Plan, Fetch, FetchFullByUid, FetchReconnect, ReconnectSrc,
             AppendReconnect, ReconnectDst, OtherClient, Expunge, vars,
             imap_vars, mail_vars, history
    <3> QED BY <2>3, <3>1
  <2>7. Step => \/ pc \in Setup \ {"plan"}
                \/ Plan \/ Fetch \/ FetchReconnect
                \/ AppendToDst \/ AppendReconnect
    BY DEF Step, Setup, CreateFolder, Select, Index, Close, ExamineSource,
           Search, Probe, ProbeReconnect
  <2> QED
    BY <1>2, <1>3, <1>4, <2>4, <2>5, <2>6, <2>7 DEF Next, Terminated
<1>6. Rerun \/ (UNCHANGED last /\ cut \subseteq cut')
  BY WithinRun DEF Next, Terminated
<1> QED BY <1>2, <1>3, <1>5, <1>6

LEMMA BetweenRuns ==
  Spec => [](OriginInv /\ PlacedInv /\ RerunCopiesOnlyUnidentified)
<1> DEFINE Inv == OriginInv /\ PlacedInv /\ RerunCopiesOnlyUnidentified
<1>1. Init => Inv
  BY DEF Init, OriginInv, PlacedInv, RerunCopiesOnlyUnidentified, NeverRun,
         Setup, Listed, Transfer, Appending
<1>2. /\ TypeInv /\ CopyInv /\ IndexInv /\ CleanRunDelivers /\ Inv
      /\ [Next]_vars
      => Inv'
  BY OriginNext, PlacedNext, GainNext
<1> QED BY <1>1, <1>2, WithoutLoss, CleanRunsDeliver, PTL DEF Spec

\* The run after a clean run brings no message again that it can recognise,
\* however it ends itself: what was listed before has a copy there, whose
\* Message-Id the index holds, when no refusal cut its index or a probe short.
\* Not recognised are messages without a Message-Id, those that went over as
\* empty ones, and those with a copy flagged \Deleted.
THEOREM RerunsRecognise == Spec => []RerunCopiesOnlyUnidentified
BY BetweenRuns, PTL

(***************************************************************************)
(* What a dry run counts.  In a folder without failures, without empty     *)
(* bodies and without a probe cut short, real or dry, what was copied or   *)
(* would be are exactly the messages dealt with so far that are not too    *)
(* big and whose Message-Id the index lacks: a plan that let too much      *)
(* through for want of a selected mailbox shows as a failure.              *)
(***************************************************************************)
Missing(S, ids) == {u \in S : ~Big(u) /\ Mid(u) \notin ids}

PredictInv ==
  /\ dry_run => stats.copied = 0
  /\ ~dry_run => stats.would_copy = 0
  /\ pc \in Transfer \cup {"done"} /\ stats.failed = 0 /\ blanks = {} =>
       (AllProbed => stats.copied + stats.would_copy =
                       Cardinality(Missing(src_uids \ to_copy, indexed)))

\* One message more is dealt with.
LEMMA MissingSettled ==
  ASSUME TypeInv, pc \in Transfer
  PROVE  LET dealt == src_uids \ to_copy
             now == src_uids \ (to_copy \ {Uid})
         IN  /\ Cardinality(Missing(dealt, indexed)) \in Nat
             /\ Big(Uid) =>
                  Missing(now, indexed) = Missing(dealt, indexed)
             /\ ~Big(Uid) /\ Mid(Uid) \notin indexed =>
                  Cardinality(Missing(now, indexed)) =
                    Cardinality(Missing(dealt, indexed)) + 1
<1> DEFINE before == Missing(src_uids \ to_copy, indexed)
           after == Missing(src_uids \ (to_copy \ {Uid}), indexed)
<1>1. Uid \in to_copy /\ Uid \in src_uids
  BY LeastUid DEF TypeInv, TypeOK
<1>2. before \in SUBSET Uids
  BY DEF Missing, TypeInv, TypeOK
<1>3. IsFiniteSet(before) /\ Cardinality(before) \in Nat
  BY <1>2, FiniteUids
<1>4. Big(Uid) => after = before
  BY <1>1 DEF Missing
<1>5. ASSUME ~Big(Uid), Mid(Uid) \notin indexed
      PROVE  Cardinality(after) = Cardinality(before) + 1
  <2>1. after = before \cup {Uid} /\ Uid \notin before
    BY <1>1, <1>5 DEF Missing
  <2> HIDE DEF before, after
  <2> QED BY <1>3, <2>1, FS_AddElement
<1> QED BY <1>3, <1>4, <1>5

\* What a step of the transfer says, by its count, of the message in hand.
LEMMA PredictFetch ==
  ASSUME TypeInv, IndexInv, FaithInv, Fetch,
         stats'.failed = 0, blanks' = {}, AllProbed
  PROVE  \/ Settle("skipped") /\ Big(Uid)
         \/ /\ Settle("would_copy") /\ dry_run
            /\ ~Big(Uid) /\ Mid(Uid) \notin indexed
         \/ UNCHANGED <<stats, to_copy>>
<1>1. PICK status \in Outcome, body \in Bodies \cup {NoBody} :
        /\ FetchFullByUid(Uid, status, body)
        /\ \/ body # NoBody /\ Received(body)
           \/ MessageFails
           \/ GoTo("fetchReconnect")
        /\ blanks' = blanks \cup {u \in {Uid} : body = Blank}
  BY DEF Fetch
<1>2. pc = "fetch" /\ pc \in Transfer /\ ImapTypeOK
  BY DEF Fetch, Transfer, TypeInv, TypeOK
<1>3. body # Blank
  BY <1>1
<1>4. ~MessageFails
  BY SettleCounts DEF MessageFails, Fields
<1>5. CASE body # NoBody /\ Received(body)
  <2>1. Received(body) => stats.failed = 0
    BY SettleCounts DEF Received, Keep, Fields
  <2>2. body = Uid
    BY <1>1, <1>2, <1>3, <1>5, <2>1, FetchOutcome DEF FaithInv, NothingLate
  <2>3. Mid(Uid) \notin indexed
    BY <1>1, <1>2, <1>5, <2>2, IndexFetched
  <2> QED BY <1>5, <2>2, <2>3 DEF Received, Keep
<1> QED BY <1>1, <1>4, <1>5 DEF GoTo, local_vars

LEMMA PredictStep ==
  ASSUME TypeInv, IndexInv, FaithInv, OriginInv, DryInv,
         Step, pc \in Transfer, stats'.failed = 0, blanks' = {}, AllProbed
  PROVE  /\ stats.failed = 0 /\ blanks = {}
         /\ \/ Settle("skipped") /\ Big(Uid)
            \/ /\ Settle("would_copy") /\ dry_run
               /\ ~Big(Uid) /\ Mid(Uid) \notin indexed
            \/ /\ Settle("copied") /\ ~dry_run
               /\ ~Big(Uid) /\ Mid(Uid) \notin indexed
            \/ UNCHANGED <<stats, to_copy>>
<1>1. stats.failed = 0
  BY InTransfer, SettleCounts DEF Fields
<1>2. ~MessageFails
  BY SettleCounts DEF MessageFails, Fields
<1>3. CASE Fetch
  BY <1>1, <1>3, PredictFetch DEF Fetch
<1>4. CASE FetchReconnect \/ AppendReconnect
  BY <1>1, <1>2, <1>4
     DEF FetchReconnect, AppendReconnect, Hang, local_vars, history
<1>5. CASE AppendToDst
  <2>1. /\ pc = "append" /\ blanks = {}
        /\ Settle("copied") \/ UNCHANGED <<stats, to_copy>>
    BY <1>2, <1>5 DEF AppendToDst, GoTo, local_vars
  <2>2. Mid(msg) \notin indexed /\ ~Big(msg) /\ msg # Blank
    BY <2>1 DEF IndexInv, OriginInv, Appending
  <2>3. msg = Uid
    BY <1>1, <2>1, <2>2 DEF FaithInv, Faithful
  <2> QED BY <1>1, <2>1, <2>2, <2>3 DEF DryInv
<1> QED
  BY <1>3, <1>4, <1>5
     DEF Step, Transfer, CreateFolder, Select, Index, Close, ExamineSource,
         Search, Probe, ProbeReconnect, Plan

LEMMA PredictCounts ==
  ASSUME TypeInv, IndexInv, FaithInv, OriginInv, DryInv, PredictInv,
         Step, pc \in Transfer, stats'.failed = 0, blanks' = {}, AllProbed
  PROVE  stats'.copied + stats'.would_copy =
           Cardinality(Missing(src_uids \ to_copy, indexed))'
<1>1. UNCHANGED <<kind, src_uids, indexed>>
  BY InTransfer
<1>2. stats.copied + stats.would_copy =
        Cardinality(Missing(src_uids \ to_copy, indexed))
  BY PredictStep DEF PredictInv
<1>3. stats'.copied + stats'.would_copy =
        Cardinality(Missing(src_uids \ to_copy', indexed))
  <2>1. CASE Settle("skipped") /\ Big(Uid)
    BY <1>2, <2>1, MissingSettled DEF Settle, TypeInv, TypeOK
  <2>2. CASE /\ Settle("copied") \/ Settle("would_copy")
             /\ ~Big(Uid) /\ Mid(Uid) \notin indexed
    <3>1. stats'.copied + stats'.would_copy =
            stats.copied + stats.would_copy + 1
      BY <2>2 DEF Settle, TypeInv, TypeOK
    <3> QED BY <1>2, <2>2, <3>1, MissingSettled DEF Settle
  <2>3. CASE UNCHANGED <<stats, to_copy>>
    BY <1>2, <2>3
  <2> QED BY <2>1, <2>2, <2>3, PredictStep
<1> QED BY <1>1, <1>3, AttributesStable DEF Missing

\* Only a dry run counts what would be copied, only a real one what was.
LEMMA PredictFields ==
  ASSUME TypeInv, DryInv, PredictInv, Step, pc \in Transfer
  PROVE  /\ dry_run' => stats'.copied = 0
         /\ ~dry_run' => stats'.would_copy = 0
<1>1. UNCHANGED dry_run
  BY InTransfer
<1>2. CASE Fetch
  <2>1. \/ Settle("skipped") \/ Settle("failed")
        \/ dry_run /\ Settle("would_copy")
        \/ UNCHANGED stats
    BY <1>2 DEF Fetch, Received, Keep, MessageFails, GoTo, local_vars
  <2> QED BY <1>1, <2>1 DEF Settle, PredictInv, TypeInv, TypeOK
<1>3. CASE FetchReconnect \/ AppendReconnect \/ AppendToDst
  <2>1. \/ Settle("failed")
        \/ ~dry_run /\ Settle("copied")
        \/ UNCHANGED stats
    BY <1>3 DEF FetchReconnect, AppendReconnect, AppendToDst, MessageFails,
                GoTo, Hang, local_vars, DryInv
  <2> QED BY <1>1, <2>1 DEF Settle, PredictInv, TypeInv, TypeOK
<1> QED
  BY <1>2, <1>3
     DEF Step, Transfer, CreateFolder, Select, Index, Close, ExamineSource,
         Search, Probe, ProbeReconnect, Plan

LEMMA PredictPlan ==
  ASSUME TypeInv, CopyInv, IndexInv, Plan
  PROVE  PredictInv'
<1>1. stats = NoStats /\ dst_ids = indexed
  BY DEF Plan, CopyInv, IndexInv, Setup, Indexing
<1>2. stats'.copied = 0 /\ stats'.would_copy = 0
  BY <1>1 DEF Plan, NoStats
<1>3. UNCHANGED <<src_uids, indexed, kind>>
  BY DEF Plan, history, imap_vars, mail_vars
<1>4. src_uids \ to_copy' \subseteq {u \in src_uids : Mid(u) \in indexed}
  BY <1>1 DEF Plan, AlreadyThere, TypeInv, TypeOK
<1>5. Missing(src_uids \ to_copy', indexed) = {}
  BY <1>4 DEF Missing
<1>6. Missing(src_uids \ to_copy, indexed)' = {}
  BY <1>3, <1>5, AttributesStable DEF Missing
<1>7. Cardinality(Missing(src_uids \ to_copy, indexed))' = 0
  BY <1>6, FS_EmptySet
<1> QED BY <1>2, <1>7 DEF PredictInv

LEMMA PredictNext ==
  /\ TypeInv /\ CopyInv /\ IndexInv /\ FaithInv /\ OriginInv /\ DryInv
  /\ PredictInv /\ [Next]_vars
  => PredictInv'
<1> SUFFICES ASSUME TypeInv, CopyInv, IndexInv, FaithInv, OriginInv, DryInv,
                    PredictInv, [Next]_vars
             PROVE  PredictInv'
  OBVIOUS
<1>1. CASE Step /\ pc \in Setup \ {"plan"}
  <2>1. stats' = NoStats \/ stats' = [NoStats EXCEPT !.failed = 1]
    BY <1>1, BeforePlan
       DEF CopyInv, Step, Setup, Transfer, CreateFolder, Select, Index, Close,
           ExamineSource, Search, Probe, ProbeReconnect, Plan, Fetch,
           FetchReconnect, AppendToDst, AppendReconnect, Proceed, FolderFails,
           GoTo, Hang, local_vars
  <2> QED
    BY <1>1, <2>1, BeforePlan DEF PredictInv, NoStats, Setup, Transfer
<1>2. CASE Plan
  BY <1>2, PredictPlan
<1>3. CASE Step /\ pc \in Transfer
  <2>1. AllProbed' => AllProbed
    BY <1>3, WithinRun DEF AllProbed
  <2> QED BY <1>3, <2>1, PredictFields, PredictCounts DEF PredictInv
<1>4. CASE Crash
  BY <1>4 DEF Crash, PredictInv, local_vars, Transfer
<1>5. CASE Rerun
  BY <1>5 DEF Rerun, PredictInv, NoStats, Transfer
<1>6. CASE OtherClient \/ UNCHANGED vars
  <2>1. UNCHANGED <<pc, dry_run, stats, blanks, src_uids, to_copy, indexed,
                    kind, cut>>
    BY <1>6 DEF OtherClient, Expunge, vars, imap_vars, mail_vars, local_vars,
                history
  <2> QED BY <2>1, AttributesStable DEF PredictInv, AllProbed, Missing
<1> QED
  BY <1>1, <1>2, <1>3, <1>4, <1>5, <1>6, StepPlace DEF Next, Terminated

(***************************************************************************)
(* From the dry run to the next one.  When no message is flagged, the      *)
(* destination stays as the dry run indexed it until the next run indexes  *)
(* it, so both runs look for the same Message-Ids.                         *)
(***************************************************************************)
NoneFlagged == \A u \in Uids : ~Deleted(u)

SeenInv ==
  NoneFlagged /\ dry_run /\ pc \in Indexed /\ AllIndexed =>
    MidsOf(Stored) = indexed

\* The Message-Ids that the index of this run has or will have.
KnownIds ==
  IF pc \in {"create", "select", "index"} THEN MidsOf(Stored) ELSE indexed

ForecastInv ==
  /\ last.clean /\ last.dry /\ last.blanks = {} /\ last.cut = {}
  /\ NoneFlagged /\ AllIndexed
  /\ pc \in Setup \cup Transfer \cup {"done"}
  => last.would = Cardinality(Missing(last.box, KnownIds))

LEMMA FlagsStable ==
  ASSUME kind' = kind
  PROVE  /\ NoneFlagged' = NoneFlagged
         /\ \A S, ids : Missing(S, ids)' = Missing(S, ids)
         /\ \A B : MidsOf(B)' = MidsOf(B)
<1>1. NoneFlagged' <=> NoneFlagged
  BY AttributesStable DEF NoneFlagged
<1>2. ASSUME NEW S, NEW ids
      PROVE  Missing(S, ids)' = Missing(S, ids)
  BY AttributesStable DEF Missing
<1>3. ASSUME NEW B
      PROVE  MidsOf(B)' = MidsOf(B)
  BY AttributesStable DEF MidsOf
<1> QED BY <1>1, <1>2, <1>3 DEF NoneFlagged

\* With nothing flagged a dry run leaves the mailbox as it is.
LEMMA DryStays ==
  ASSUME TypeInv, DryInv, NoneFlagged, dry_run, [Next]_vars
  PROVE  dst_box' = dst_box
<1>1. \A b \in Bodies : ~Deleted(b)
  BY DEF NoneFlagged, Deleted
<1>2. dst_box = [b \in Bodies |-> dst_box[b]]
  BY DEF TypeInv, TypeOK, ImapTypeOK
<1>3. Expunged = dst_box
  BY <1>1, <1>2 DEF Expunged
<1> QED BY <1>3, DryBox

LEMMA SeenNext == TypeInv /\ DryInv /\ SeenInv /\ [Next]_vars => SeenInv'
<1> SUFFICES ASSUME TypeInv, DryInv, SeenInv, [Next]_vars
             PROVE  SeenInv'
  OBVIOUS
<1>1. CASE Rerun
  BY <1>1 DEF Rerun, SeenInv, Indexed, Indexing, Transfer
<1>2. CASE Step \/ Crash \/ OtherClient \/ UNCHANGED vars
  <2>1. UNCHANGED dry_run
    <3>1. Plan => UNCHANGED dry_run
      BY DEF Plan
    <3>2. CASE Step
      BY <3>1, <3>2, StepPlace, BeforePlan, InTransfer
    <3> QED
      BY <1>2, <3>2 DEF Crash, OtherClient, vars, local_vars
  <2>2. kind' = kind
    BY BoxKept
  <2> SUFFICES ASSUME NoneFlagged, dry_run, pc' \in Indexed, AllIndexed'
               PROVE  MidsOf(Stored)' = indexed'
    BY <2>1, <2>2, FlagsStable DEF SeenInv
  <2>3. dst_box' = dst_box
    BY DryStays
  <2>4. MidsOf(Stored)' = MidsOf(Stored)
    BY <2>2, <2>3, AttributesStable DEF MidsOf, Stored
  <2>5. AllIndexed
    BY <1>2, WithinRun DEF AllIndexed
  <2> QED BY <1>2, <2>4, <2>5, WithinRun DEF SeenInv
<1> QED BY <1>1, <1>2 DEF Next, Terminated

LEMMA KnownStays ==
  ASSUME TypeInv, Step \/ Crash \/ OtherClient \/ UNCHANGED vars,
         pc' \in Setup \cup Transfer \cup {"done"}, AllIndexed'
  PROVE  KnownIds' = KnownIds
<1> USE DEF Setup, Transfer, KnownIds
<1>0. kind' = kind
  BY WithinRun
<1>1. ASSUME UNCHANGED dst_box PROVE MidsOf(Stored)' = MidsOf(Stored)
  BY <1>0, <1>1, AttributesStable DEF MidsOf, Stored
<1>2. CASE CreateFolder \/ Select
  <2>1. /\ UNCHANGED dst_box
        /\ pc \in {"create", "select"} /\ pc' \in {"select", "index"}
    BY <1>2
       DEF CreateFolder, CreateFolderIfMissing, Select, SelectForWrite,
           Proceed, GoTo, FolderFails, Hang, mail_vars
  <2> QED BY <1>1, <2>1
<1>3. CASE Index
  <2>1. pc = "index" /\ pc' = "close" /\ indexed' = MidsOf(Stored)
    BY <1>3 DEF Index, FetchAllMessageIds, Proceed, FolderFails, Hang,
                AllIndexed
  <2> QED BY <2>1
<1>4. CASE Step /\ pc \notin {"create", "select", "index"}
  <2>1. pc' \notin {"create", "select", "index"} /\ indexed' = indexed
    BY <1>4
       DEF Step, CreateFolder, Select, Index, Close, ExamineSource, Search,
           Probe, ProbeReconnect, Plan, Fetch, FetchReconnect, AppendToDst,
           AppendReconnect, Proceed, Received, Keep, MessageFails, Settle,
           FolderFails, GoTo, Hang, history
  <2> QED BY <1>4, <2>1
<1>5. CASE Crash
  BY <1>5 DEF Crash
<1>6. CASE OtherClient \/ UNCHANGED vars
  <2>1. UNCHANGED <<dst_box, pc, indexed>>
    BY <1>6 DEF OtherClient, Expunge, vars, imap_vars, mail_vars, history
  <2> QED BY <1>1, <2>1
<1> QED
  BY <1>2, <1>3, <1>4, <1>5, <1>6
     DEF Step, CreateFolder, Select, Index, Close, ExamineSource, Search,
         Probe, ProbeReconnect, Plan, Fetch, FetchReconnect, AppendToDst,
         AppendReconnect

LEMMA ForecastNext ==
  /\ TypeInv /\ CountInv /\ PredictInv /\ SeenInv /\ ForecastInv
  /\ [Next]_vars
  => ForecastInv'
<1> SUFFICES ASSUME TypeInv, CountInv, PredictInv, SeenInv, ForecastInv,
                    [Next]_vars,
                    last'.clean, last'.dry, last'.blanks = {},
                    last'.cut = {}, NoneFlagged', AllIndexed',
                    pc' \in Setup \cup Transfer \cup {"done"}
             PROVE  last'.would = Cardinality(Missing(last.box, KnownIds))'
  BY DEF ForecastInv
<1>1. kind' = kind /\ NoneFlagged
  BY BoxKept, FlagsStable
<1>2. CASE Rerun
  <2>1. /\ pc = "done" /\ stats.failed = 0 /\ dry_run /\ blanks = {}
        /\ AllProbed /\ AllIndexed
        /\ last'.would = stats.would_copy /\ last'.box = src_uids
        /\ pc' = "create" /\ dst_box' = dst_box
    BY <1>2 DEF Rerun, AllProbed, AllIndexed
  <2>2. to_copy = {} /\ stats.copied = 0 /\ stats.would_copy \in Nat
    BY <2>1 DEF CountInv, PredictInv, TypeInv, TypeOK
  <2>3. stats.would_copy = Cardinality(Missing(src_uids \ to_copy, indexed))
    BY <2>1, <2>2 DEF PredictInv
  <2>4. KnownIds' = indexed
    <3>1. MidsOf(Stored)' = MidsOf(Stored)
      BY <1>1, <2>1, AttributesStable DEF MidsOf, Stored
    <3> QED BY <1>1, <2>1, <3>1 DEF KnownIds, SeenInv, Indexed
  <2>5. Missing(last.box, KnownIds)' = Missing(src_uids \ to_copy, indexed)
    BY <1>1, <2>1, <2>2, <2>4, AttributesStable DEF Missing
  <2> QED BY <2>1, <2>3, <2>5
<1>3. CASE Step \/ Crash \/ OtherClient \/ UNCHANGED vars
  <2>1. /\ UNCHANGED last /\ AllIndexed
        /\ pc \in Setup \cup Transfer \cup {"done"}
    BY <1>3, WithinRun
       DEF AllIndexed, Step, Setup, Transfer, CreateFolder, Select, Index, Close,
           ExamineSource, Search, Probe, ProbeReconnect, Plan, Fetch,
           FetchReconnect, AppendToDst, AppendReconnect, Crash, OtherClient,
           vars
  <2>2. last.would = Cardinality(Missing(last.box, KnownIds))
    BY <1>1, <2>1 DEF ForecastInv
  <2>3. Missing(last.box, KnownIds)' = Missing(last.box, KnownIds)
    BY <1>1, <1>3, <2>1, KnownStays, AttributesStable DEF Missing
  <2> QED BY <2>1, <2>2, <2>3
<1> QED BY <1>2, <1>3 DEF Next, Terminated

\* What a clean dry run announces is what the real run after it copies, over
\* any sessions, batches and retries of either: both counts are the number of
\* listed messages, not too big, whose Message-Id neither index had.  Neither
\* run may have taken an empty body for a message or had its index or a probe
\* cut short by a refusal, both list the same messages, and none is flagged
\* \Deleted.
THEOREM DryRunsPredict == Spec => []DryRunPredicts
<1> DEFINE Inv == PredictInv /\ SeenInv /\ ForecastInv
<1>1. Init => Inv
  BY DEF Init, PredictInv, SeenInv, ForecastInv, NoStats, NeverRun, Indexed,
         Indexing, Transfer
<1>2. /\ TypeInv /\ CountInv /\ CopyInv /\ IndexInv /\ FaithInv /\ OriginInv
      /\ DryInv /\ Inv /\ [Next]_vars
      => Inv'
  BY PredictNext, SeenNext, ForecastNext
<1>3. TypeInv /\ CountInv /\ Inv => DryRunPredicts
  <2> SUFFICES ASSUME TypeInv, CountInv, Inv,
                      pc = "done", stats.failed = 0, ~dry_run,
                      last.clean, last.dry, last.box = src_uids,
                      blanks = {}, last.blanks = {}, NoneFlagged,
                      AllProbed, AllIndexed, last.cut = {}
               PROVE  stats.copied = last.would
    BY DEF DryRunPredicts, NoneFlagged, AllProbed, AllIndexed
  <2>1. to_copy = {} /\ stats.would_copy = 0 /\ stats.copied \in Nat
    BY DEF CountInv, PredictInv, TypeInv, TypeOK
  <2>2. stats.copied = Cardinality(Missing(src_uids \ to_copy, indexed))
    BY <2>1 DEF PredictInv
  <2>3. last.would = Cardinality(Missing(last.box, KnownIds))
    BY DEF ForecastInv
  <2>4. src_uids \ to_copy = last.box /\ KnownIds = indexed
    BY <2>1 DEF KnownIds
  <2> QED BY <2>2, <2>3, <2>4
<1> QED
  BY <1>1, <1>2, <1>3, WithoutLoss, Counting, AlwaysDry, BetweenRuns, PTL
     DEF Spec

=============================================================================
