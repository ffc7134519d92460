------------------------- MODULE FolderSyncRefines -------------------------
(***************************************************************************)
(* FolderSync implements FolderPromise.                                    *)
(***************************************************************************)
EXTENDS FolderSyncContent

PassInv == TypeInv /\ CopyInv /\ TwiceInv /\ DryInv

\* The abstract state after a step that shows nothing.
Unseen ==
  UNCHANGED <<PassPhase, dry_run, PassListed, PassLeft, stats, dst_box,
              Strayed>>

LEMMA UnseenStutters == Unseen => UNCHANGED Promise!promise_vars
BY DEF Unseen, Promise!promise_vars

(***************************************************************************)
(* Before the plan: only CLOSE and a failure can be seen.                  *)
(***************************************************************************)
LEMMA SetupFails ==
  ASSUME Step, pc \in Setup \ {"plan"}, pc' = "failed"
  PROVE  pc # "close" /\ stats' = [Promise!Zero EXCEPT !.failed = 1]
BY DEF Step, Setup, CreateFolder, Select, Index, Close, ExamineSource, Search,
       Probe, ProbeReconnect, Plan, Fetch, FetchReconnect, AppendToDst,
       AppendReconnect, Proceed, GoTo, Hang, FolderFails, NoStats,
       Promise!Zero

LEMMA CloseRemoves ==
  ASSUME Step, pc = "close"
  PROVE  /\ pc' \in {"examine", "hung"}
         /\ \E gone \in SUBSET Bodies :
              \/ dst_box' = [b \in Bodies |->
                               IF b \in gone THEN 0 ELSE dst_box[b]]
              \/ dst_box' = dst_box
         /\ pc' = "hung" => dst_box' = dst_box
<1>1. Close
  BY DEF Step, CreateFolder, Select, Index, ExamineSource, Search, Probe,
         ProbeReconnect, Plan, Fetch, FetchReconnect, AppendToDst,
         AppendReconnect
<1>2. /\ pc' \in {"examine", "hung"}
      /\ dst_box' \in {dst_box, Expunged}
      /\ pc' = "hung" => dst_box' = dst_box
  BY <1>1 DEF Close, CloseMailbox, GoTo, Hang
<1>3. Expunged = [b \in Bodies |->
                    IF b \in {c \in Bodies : Deleted(c)} THEN 0
                    ELSE dst_box[b]]
  BY DEF Expunged
<1> QED BY <1>2, <1>3

LEMMA SetupSeen ==
  ASSUME PassInv, Step, pc \in Setup \ {"plan"}
  PROVE  Promise!Next \/ Unseen
<1> USE DEF PassInv, Setup, Transfer
<1>1. /\ pc' \in Setup \cup {"failed", "hung"}
      /\ pc' # "failed" => stats' = stats
      /\ dry_run' = dry_run
      /\ pc # "close" => dst_box' = dst_box
  BY BeforePlan
<1>2. /\ PassPhase = "preparing" /\ PassListed = {} /\ PassLeft = {}
      /\ Strayed = FALSE
      /\ PassListed' = {} /\ PassLeft' = {} /\ Strayed' = FALSE
  BY <1>1 DEF PassPhase, PassListed, PassLeft, Strayed
<1>3. CASE pc' = "failed"
  <2>1. PassPhase' = "failed" /\ dst_box' = dst_box
    BY <1>1, <1>3, SetupFails DEF PassPhase
  <2>2. Promise!Fail
    BY <1>1, <1>2, <1>3, <2>1, SetupFails DEF Promise!Fail
  <2> QED BY <2>2 DEF Promise!Next, Promise!Work
<1>4. CASE pc' = "hung"
  <2>1. PassPhase' = "stopped" /\ dst_box' = dst_box
    BY <1>1, <1>4, CloseRemoves DEF PassPhase
  <2>2. Promise!Stop
    BY <1>1, <1>2, <1>4, <2>1 DEF Promise!Stop
  <2> QED BY <2>2 DEF Promise!Next
<1>5. CASE pc' \in Setup
  <2>1. PassPhase' = "preparing" /\ stats' = stats
    BY <1>1, <1>5 DEF PassPhase
  <2>2. CASE dst_box' = dst_box
    BY <1>1, <1>2, <2>1, <2>2 DEF Unseen
  <2>3. CASE dst_box' # dst_box
    <3>1. \E gone \in SUBSET Bodies :
            dst_box' = [b \in Bodies |->
                          IF b \in gone THEN 0 ELSE dst_box[b]]
      BY <1>1, <2>3, CloseRemoves
    <3>2. Promise!Prepare
      BY <1>1, <1>2, <2>1, <3>1 DEF Promise!Prepare
    <3> QED BY <3>2 DEF Promise!Next, Promise!Work
  <2> QED BY <2>2, <2>3
<1> QED BY <1>1, <1>3, <1>4, <1>5

\* The two specifications count alike.
LEMMA SameCardinality ==
  \A S : Promise!Cardinality(S) = Cardinality(S)
BY DEF Promise!Cardinality, Cardinality

LEMMA PlanSeen ==
  ASSUME PassInv, Plan
  PROVE  Promise!Next
<1> USE DEF PassInv, Setup, Transfer
<1>1. /\ PassPhase = "preparing" /\ Strayed = FALSE
      /\ PassListed' = src_uids /\ PassLeft' = to_copy'
      /\ PassPhase' = IF to_copy' = {} THEN "done" ELSE "copying"
  BY DEF Plan, PassPhase, PassListed, PassLeft, Strayed
<1>2. /\ src_uids \in SUBSET Uids /\ to_copy' \in SUBSET src_uids
      /\ src_uids \ to_copy' = AlreadyThere
  BY DEF Plan, AlreadyThere, TypeInv, TypeOK
<1>3. stats' = [stats EXCEPT !.skipped = Cardinality(AlreadyThere)]
  <2>1. stats = NoStats /\ Cardinality(AlreadyThere) \in Nat
    BY FiniteUids DEF CopyInv, Plan, TypeInv, TypeOK, AlreadyThere
  <2> QED BY <2>1 DEF Plan, NoStats
<1>4. Strayed' = FALSE
  <2>1. to_copy' # {} => Uid' \in to_copy'
    <3>1. TypeInv'
      BY TypeNext DEF Next, Step
    <3>2. to_copy' \in SUBSET Uids
      BY <3>1 DEF TypeInv, TypeOK
    <3> QED BY <3>2, LeastOf DEF Uid
  <2>2. stored' = stored /\ \A u \in Uids : stored[u] = 0
    BY DEF Plan, history, TwiceInv
  <2> QED BY <1>2, <2>1, <2>2 DEF Plan, Strayed
<1>5. UNCHANGED <<dry_run, dst_box, Strayed>>
  BY <1>1, <1>4 DEF Plan, imap_vars, mail_vars
<1>6. stats' = [stats EXCEPT !.skipped =
                  Cardinality(PassListed' \ PassLeft')]
  BY <1>1, <1>2, <1>3
<1>7. Promise!Choose
  BY SameCardinality, <1>1, <1>2, <1>5, <1>6 DEF Promise!Choose
<1> QED BY <1>7 DEF Promise!Next, Promise!Work

(***************************************************************************)
(* The transfer.                                                           *)
(***************************************************************************)
LEMMA Copying ==
  ASSUME PassInv, pc \in Transfer
  PROVE  /\ PassPhase = "copying" /\ PassListed = src_uids
         /\ PassLeft = to_copy /\ Uid \in to_copy /\ to_copy \subseteq Uids
         /\ Strayed = (stored[Uid] > 0)
         /\ pc = "append" /\ attempt = 1 => stored[Uid] = 0
<1>1. Uid \in to_copy /\ to_copy \subseteq Uids
  BY LeastUid DEF PassInv, TypeInv, TypeOK
<1>2. stored[Uid] \in Nat /\ stored[Uid] <= Tried(Uid)
  BY <1>1 DEF PassInv, TwiceInv, TypeInv, TypeOK
<1> QED
  BY <1>1, <1>2
     DEF PassPhase, PassListed, PassLeft, Strayed, Tried, Transfer, Setup

\* Settling a message is what the caller sees as counting it.
LEMMA SettleSeen ==
  ASSUME PassInv, TypeInv', pc \in Transfer, NEW field, Settle(field),
         \A u \in to_copy \ {Uid} : stored'[u] = stored[u]
  PROVE  Promise!Count(Uid, field)
<1>1. /\ PassListed = src_uids /\ PassLeft = to_copy
      /\ to_copy \subseteq Uids
  BY Copying
<1>2. /\ pc' = IF to_copy' = {} THEN "done" ELSE "fetch"
      /\ to_copy' = to_copy \ {Uid}
      /\ UNCHANGED <<src_uids, dry_run>>
  BY DEF Settle
<1>3. /\ PassListed' = src_uids /\ PassLeft' = to_copy'
      /\ PassPhase' = IF to_copy' = {} THEN "done" ELSE "copying"
  BY <1>2 DEF PassListed, PassLeft, PassPhase, Transfer, Setup
<1>4. Strayed' = FALSE
  <2>1. CASE to_copy' = {}
    BY <1>2, <2>1 DEF Strayed, Transfer
  <2>2. CASE to_copy' # {}
    <3>1. Uid' \in to_copy'
      BY <1>1, <1>2, <2>2, LeastOf DEF Uid
    <3>2. stored[Uid'] <= 0 /\ stored[Uid'] \in Nat
      BY <1>1, <1>2, <3>1
         DEF PassInv, TwiceInv, Tried, TypeInv, TypeOK
    <3>3. stored'[Uid'] = stored[Uid']
      BY <1>2, <3>1
    <3> QED BY <3>2, <3>3 DEF Strayed
  <2> QED BY <2>1, <2>2
<1> QED
  BY <1>1, <1>2, <1>3, <1>4 DEF Settle, Promise!Count

LEMMA FetchingSeen ==
  ASSUME PassInv, TypeInv', Fetch \/ FetchReconnect
  PROVE  Promise!Next \/ Unseen
<1> USE DEF Transfer, Setup
<1>1. /\ pc \in {"fetch", "fetchReconnect"}
      /\ UNCHANGED <<dst_box, stored>>
  BY DEF Fetch, FetchFullByUid, FetchReconnect, ReconnectSrc, mail_vars,
         history
<1>2. CASE \/ MessageFails \/ Settle("skipped")
           \/ dry_run /\ Settle("would_copy")
  <2>1. \/ Promise!GiveUp(Uid) \/ Promise!LeaveOut(Uid)
    BY <1>1, <1>2, SettleSeen
       DEF MessageFails, Promise!GiveUp, Promise!LeaveOut
  <2> QED
    BY <1>1, <2>1, Copying
       DEF Promise!Settled, Promise!Next, Promise!Work
<1>3. CASE /\ pc' \in {"fetch", "fetchReconnect", "append"}
           /\ UNCHANGED <<dry_run, src_uids, to_copy, stats>>
  <2>1. Uid' = Uid
    BY <1>3 DEF Uid
  <2> QED
    BY <1>1, <1>3, <2>1, Copying
       DEF Unseen, PassPhase, PassListed, PassLeft, Strayed
<1>4. CASE Hang
  <2>1. Promise!Stop
    BY <1>1, <1>4, Copying
       DEF Hang, local_vars, Promise!Stop, PassPhase, PassListed, PassLeft,
           Strayed
  <2> QED BY <2>1 DEF Promise!Next
<1>5. CASE Fetch
  <2>1. PICK body \in Bodies \cup {NoBody} :
          Received(body) \/ MessageFails \/ GoTo("fetchReconnect")
    BY <1>5 DEF Fetch
  <2> QED
    BY <1>2, <1>3, <2>1 DEF Received, Keep, GoTo, local_vars
<1> QED
  BY <1>2, <1>3, <1>4, <1>5 DEF FetchReconnect

\* What an append adds to the destination.
LEMMA AppendGains ==
  ASSUME PassInv, AppendToDst
  PROVE  /\ ~dry_run
         /\ dst_box' = dst_box \/ Promise!Gains
         /\ \/ Settle("copied") /\ Promise!Gains
            \/ MessageFails
            \/ attempt = 1 /\ GoTo("appendReconnect")
         /\ stored' = [stored EXCEPT ![Uid] =
                         @ + IF dst_box' = dst_box THEN 0 ELSE 1]
<1>1. PICK status \in Outcome :
        /\ AppendMessage(msg, status)
        /\ \/ status = "ok" /\ Settle("copied")
           \/ MessageFails
           \/ attempt = 1 /\ GoTo("appendReconnect")
  BY DEF AppendToDst, Answered, MayRetry
<1>2. msg \in Bodies /\ Garbled \in Bodies /\ ImapTypeOK
  BY DEF AppendToDst, PassInv, TypeInv, TypeOK, Bodies
<1>3. /\ dst_box' \in {dst_box, Store(msg), Store(Garbled)}
      /\ status = "ok" => dst_box' = Store(msg)
  BY <1>1, <1>2, AppendBox
<1>4. \A b \in Bodies : dst_box' = Store(b) => Promise!Gains
  BY DEF Store, Promise!Gains
<1> QED
  BY <1>1, <1>2, <1>3, <1>4 DEF AppendToDst, PassInv, DryInv

LEMMA AppendSeen ==
  ASSUME PassInv, TypeInv', AppendToDst
  PROVE  Promise!Next \/ Unseen
<1> USE DEF Transfer, Setup
<1>1. pc = "append" /\ Uid \in to_copy /\ to_copy \subseteq Uids
  BY Copying DEF AppendToDst
<1>2. \A u \in to_copy \ {Uid} : stored'[u] = stored[u]
  BY <1>1, AppendGains DEF PassInv, TypeInv, TypeOK
<1>3. CASE Settle("copied") /\ Promise!Gains
  <2>1. Promise!Copy(Uid)
    BY <1>1, <1>2, <1>3, SettleSeen, AppendGains DEF Promise!Copy
  <2> QED
    BY <1>1, <2>1, Copying DEF Promise!Settled, Promise!Next, Promise!Work
<1>4. CASE MessageFails
  <2>1. Promise!GiveUp(Uid)
    BY <1>1, <1>2, <1>4, SettleSeen, AppendGains
       DEF MessageFails, Promise!GiveUp
  <2> QED
    BY <1>1, <2>1, Copying DEF Promise!Settled, Promise!Next, Promise!Work
<1>5. CASE attempt = 1 /\ GoTo("appendReconnect")
  <2>1. /\ Uid' = Uid /\ pc' = "appendReconnect"
        /\ UNCHANGED <<dry_run, src_uids, to_copy, stats>>
    BY <1>5 DEF GoTo, local_vars, Uid
  <2>2. stored[Uid] = 0
    BY <1>1, <1>5, Copying DEF PassInv, TypeInv, TypeOK
  <2>3. /\ PassPhase' = PassPhase /\ PassListed' = PassListed
        /\ PassLeft' = PassLeft
    BY <1>1, <2>1 DEF PassPhase, PassListed, PassLeft
  <2>4. CASE dst_box' = dst_box
    <3>1. stored'[Uid] = 0
      BY <1>1, <2>2, <2>4, AppendGains DEF PassInv, TypeInv, TypeOK
    <3>2. Strayed' = FALSE /\ Strayed = FALSE
      BY <2>1, <2>2, <3>1 DEF Strayed
    <3> QED BY <2>1, <2>3, <2>4, <3>2 DEF Unseen
  <2>5. CASE dst_box' # dst_box
    <3>1. stored'[Uid] = 1
      BY <1>1, <2>2, <2>5, AppendGains DEF PassInv, TypeInv, TypeOK
    <3>2. Strayed' = TRUE /\ Strayed = FALSE
      BY <2>1, <2>2, <3>1 DEF Strayed
    <3>3. Promise!Stray
      BY <1>1, <2>1, <2>3, <2>5, <3>2, AppendGains, Copying
         DEF Promise!Stray
    <3> QED BY <3>3 DEF Promise!Next, Promise!Work
  <2> QED BY <2>4, <2>5
<1> QED BY <1>3, <1>4, <1>5, AppendGains

LEMMA AppendReconnectSeen ==
  ASSUME PassInv, TypeInv', AppendReconnect
  PROVE  Promise!Next \/ Unseen
<1> USE DEF Transfer, Setup
<1>1. pc = "appendReconnect" /\ UNCHANGED <<dst_box, stored>>
  BY DEF AppendReconnect, ReconnectDst, mail_vars, history
<1>2. CASE MessageFails
  <2>1. Promise!GiveUp(Uid)
    BY <1>1, <1>2, SettleSeen DEF MessageFails, Promise!GiveUp
  <2> QED
    BY <1>1, <2>1, Copying DEF Promise!Settled, Promise!Next, Promise!Work
<1>3. CASE /\ pc' = "append"
           /\ UNCHANGED <<dry_run, src_uids, to_copy, stats>>
  <2>1. Uid' = Uid
    BY <1>3 DEF Uid
  <2> QED
    BY <1>1, <1>3, <2>1
       DEF Unseen, PassPhase, PassListed, PassLeft, Strayed
<1>4. CASE Hang
  <2>1. Promise!Stop
    BY <1>1, <1>4, Copying
       DEF Hang, local_vars, Promise!Stop, PassPhase, PassListed, PassLeft,
           Strayed
  <2> QED BY <2>1 DEF Promise!Next
<1> QED BY <1>2, <1>3, <1>4 DEF AppendReconnect

(***************************************************************************)
(* The end of a process.                                                   *)
(***************************************************************************)
LEMMA CrashSeen ==
  ASSUME PassInv, Crash
  PROVE  Promise!Next
<1>1. PassPhase \in {"preparing", "copying"}
  BY DEF Crash, PassPhase, PassInv, TypeInv, TypeOK, Ended
<1>2. /\ PassPhase' = "stopped" /\ PassListed' = {} /\ PassLeft' = {}
      /\ Strayed' = FALSE /\ UNCHANGED <<dry_run, stats>>
  BY DEF Crash, PassPhase, PassListed, PassLeft, Strayed, Setup, Transfer,
         local_vars
<1>3. \/ dst_box' = dst_box
      \/ PassPhase = "copying" /\ ~dry_run /\ Promise!Gains
  <2>1. CASE dst_box' = dst_box
    BY <2>1
  <2>2. CASE pc = "append" /\ dst_box' = Store(msg)
    <3>1. msg \in Bodies /\ ~dry_run
      BY <2>2 DEF PassInv, TypeInv, DryInv
    <3>2. Promise!Gains
      BY <2>2, <3>1 DEF Promise!Gains, Store
    <3> QED BY <2>2, <3>1, <3>2 DEF PassPhase, Setup, Transfer
  <2> QED BY <2>1, <2>2 DEF Crash
<1>4. Promise!Stop
  BY <1>1, <1>2, <1>3 DEF Promise!Stop
<1> QED BY <1>4 DEF Promise!Next

LEMMA RerunSeen ==
  ASSUME PassInv, Rerun
  PROVE  Promise!Next
<1>1. PassPhase \in {"done", "failed", "stopped"}
  BY DEF Rerun, PassPhase, Ended, Setup, Transfer
<1>2. /\ PassPhase' = "preparing" /\ PassListed' = {} /\ PassLeft' = {}
      /\ Strayed' = FALSE
  BY DEF Rerun, PassPhase, PassListed, PassLeft, Strayed, Setup, Transfer
<1>3. Promise!Again
  BY <1>1, <1>2
     DEF Rerun, Promise!Again, Promise!Over, Promise!Zero, NoStats
<1> QED BY <1>3 DEF Promise!Next

LEMMA OthersUnseen ==
  ASSUME OtherClient \/ UNCHANGED vars
  PROVE  Unseen
<1>1. UNCHANGED <<pc, dry_run, src_uids, to_copy, stats, dst_box, stored>>
  BY DEF OtherClient, Expunge, vars, imap_vars, mail_vars, local_vars, history
<1>2. Uid' = Uid
  BY <1>1 DEF Uid
<1> QED
  BY <1>1, <1>2 DEF Unseen, PassPhase, PassListed, PassLeft, Strayed

LEMMA PassStep ==
  PassInv /\ [Next]_vars => [Promise!Next]_(Promise!promise_vars)
<1> SUFFICES ASSUME PassInv, [Next]_vars
             PROVE  Promise!Next \/ Unseen
  BY UnseenStutters
<1>1. TypeInv'
  BY TypeNext DEF PassInv
<1>2. CASE Step /\ pc \in Transfer
  <2>1. Fetch \/ FetchReconnect \/ AppendToDst \/ AppendReconnect
    BY <1>2
       DEF Step, Transfer, CreateFolder, Select, Index, Close, ExamineSource,
           Search, Probe, ProbeReconnect, Plan
  <2> QED
    BY <1>1, <2>1, FetchingSeen, AppendSeen, AppendReconnectSeen
<1> QED
  BY <1>2, StepPlace, SetupSeen, PlanSeen, CrashSeen, RerunSeen, OthersUnseen
     DEF Next, Terminated

\* Whatever the servers, the network and the user do, a folder pass looks to
\* run_migration like FolderPromise.
THEOREM PassKeepsPromise == Spec => KeepsPromise
<1>1. Init => PassInv /\ Promise!Init
  <2> SUFFICES ASSUME Init PROVE PassInv /\ Promise!Init
    OBVIOUS
  <2>1. PassInv
    BY TypeInit, CopyInit
       DEF Init, PassInv, TwiceInv, AtMostTwice, DryInv, Transfer
  <2>2. Promise!Init
    BY <2>1
       DEF Init, Promise!Init, PassPhase, PassListed, PassLeft, Strayed,
           Setup, Transfer, NoStats, Promise!Zero
  <2> QED BY <2>1, <2>2
<1>2. PassInv /\ [Next]_vars => PassInv'
  BY TypeNext, CopyNext, TwiceNext, DryNext DEF PassInv
<1>3. PassInv /\ [Next]_vars => [Promise!Next]_(Promise!promise_vars)
  BY PassStep
<1> QED BY <1>1, <1>2, <1>3, PTL DEF Spec, KeepsPromise, Promise!Spec

=============================================================================
