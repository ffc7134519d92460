----------------------------- MODULE FolderSync -----------------------------
(***************************************************************************)
(* sync::sync_folder over one folder, run again and again: every run is a  *)
(* new process (or a later folder of the same one) that finds the          *)
(* destination as the earlier runs left it.                                *)
(*                                                                         *)
(* The program is sequential; what interleaves with it are the two         *)
(* servers, the network, another client of the source account and the end  *)
(* of the process.  Each await of the code is one action, and `pc' names   *)
(* the call the program is about to make:                                  *)
(*                                                                         *)
(*   create - select - index - close        on the destination             *)
(*   examine - search - probe* - plan       on the source                  *)
(*   (fetch [reconnect fetch] append [reconnect append])*   per message    *)
(*   done | failed | hung | crashed                                        *)
(*                                                                         *)
(* An operator that no action uses, such as TimeoutIsAnAnswer, is the one  *)
(* defined after it with a plausible mistake in it: each property below    *)
(* fails when one of them takes the place of the right definition.         *)
(***************************************************************************)
EXTENDS ImapClient

CONSTANTS
  BatchSize,   \* UIDs per probe
  DryRuns,     \* values of --dry-run considered, a subset of BOOLEAN
  FirstFolder, \* runs start with sessions just opened; otherwise with
               \* sessions in any state an earlier folder can leave
  MaxRuns,     \* bound on the number of runs
  FaultyRuns   \* from this run on the environment behaves

ASSUME SyncAssumption ==
  /\ BatchSize \in Nat \ {0}
  /\ DryRuns \subseteq BOOLEAN
  /\ FirstFolder \in BOOLEAN
  /\ MaxRuns \in Nat \ {0}
  /\ FaultyRuns \in Nat

VARIABLES
  pc, attempt,        \* where the program is; which try of a wrapped call
  dry_run,            \* SyncOptions::dry_run
  dst_ids,            \* Message-Ids taken to be on the destination
  src_uids,           \* the answer to UID SEARCH ALL
  unprobed,           \* UIDs of the chunks still to be probed
  src_mids,           \* UIDs whose Message-Id the probes returned
  to_copy,            \* UIDs of the transfer plan not dealt with yet
  msg,                \* the message fetched and not yet appended
  stats,              \* FolderStats
  run                 \* number of the current run

local_vars ==
  <<attempt, dry_run, dst_ids, src_uids, unprobed, src_mids, to_copy, msg,
    stats>>

(* History: what the properties compare with.  No action reads it. *)
VARIABLES
  indexed, \* dst_ids as the index call returned it
  base,    \* dst_box when the transfer of this run could begin
  acked,   \* <<uid, body>>: appends the server acknowledged in this run
  stored,  \* how many messages the appends for each uid left in this run
  blanks,  \* UIDs for which an empty body was fetched in this run
  cut,     \* listings of this run that a refusal cut short, unnoticed
  last     \* how the run before ended

history == <<indexed, base, acked, stored, blanks, cut, last>>

vars == <<imap_vars, pc, local_vars, run, history>>

Ended == {"done", "failed", "hung", "crashed"}
Setup == {"create", "select", "index", "close", "examine", "search", "probe",
          "probeReconnect", "plan"}
Transfer == {"fetch", "fetchReconnect", "append", "appendReconnect"}

Listings == {"index", "probe"}

NoStats == [copied |-> 0, skipped |-> 0, failed |-> 0, would_copy |-> 0]

NeverRun ==
  [clean |-> FALSE, dry |-> FALSE, would |-> 0, box |-> {}, blanks |-> {},
   cut |-> {}]

TypeOK ==
  /\ ImapTypeOK
  /\ pc \in Setup \cup Transfer \cup Ended
  /\ attempt \in {1, 2}
  /\ dry_run \in DryRuns
  /\ dst_ids \in SUBSET MessageIds
  /\ src_uids \in SUBSET Uids
  /\ unprobed \in SUBSET src_uids
  /\ src_mids \in SUBSET src_uids
  /\ to_copy \in SUBSET src_uids
  /\ msg \in Bodies \cup {NoBody}
  /\ stats \in [copied : Nat, skipped : Nat, failed : Nat, would_copy : Nat]
  /\ run \in 1..MaxRuns
  /\ indexed \in SUBSET MessageIds
  /\ base \in [Bodies -> Nat]
  /\ acked \in SUBSET (Uids \X Bodies)
  /\ stored \in [Uids -> Nat]
  /\ blanks \in SUBSET Uids
  /\ cut \in SUBSET Listings
  /\ last \in [clean : BOOLEAN, dry : BOOLEAN, would : Nat, box : SUBSET Uids,
               blanks : SUBSET Uids, cut : SUBSET Listings]

-----------------------------------------------------------------------------

FaultsOf(r) == IF r <= FaultyRuns THEN Faults ELSE {}

\* Sessions at the start: just connected, or as an earlier folder of this
\* process left them.
SrcStart ==
  IF FirstFolder THEN {FreshSrc}
  ELSE {s \in SrcSession : s.late # NoBody => s.up /\ s.selected}
DstStart == IF FirstFolder THEN {FreshDst} ELSE DstSession

Init ==
  /\ kind \in [Uids -> Kinds]
  /\ src_box = Uids
  /\ dst_folder \in BOOLEAN
  /\ \E already \in SUBSET Uids :
       /\ already # {} => dst_folder
       /\ dst_box = [b \in Bodies |-> IF b \in already THEN 1 ELSE 0]
  /\ src_session \in SrcStart
  /\ dst_session \in DstStart
  /\ faults = FaultsOf(1)
  /\ pc = "create"
  /\ attempt = 1
  /\ dry_run \in DryRuns
  /\ dst_ids = {} /\ src_uids = {} /\ unprobed = {} /\ src_mids = {}
  /\ to_copy = {}
  /\ msg = NoBody
  /\ stats = NoStats
  /\ run = 1
  /\ indexed = {}
  /\ base = dst_box
  /\ acked = {}
  /\ stored = [u \in Uids |-> 0]
  /\ blanks = {}
  /\ cut = {}
  /\ last = NeverRun

-----------------------------------------------------------------------------
(* How a call's outcome moves the program. *)

Hang == pc' = "hung" /\ UNCHANGED local_vars

\* `?' leaves sync_folder; run_migration puts one failure in the place of
\* whatever the folder had counted.
FolderFails ==
  /\ pc' = "failed"
  /\ stats' = [NoStats EXCEPT !.failed = 1]
  /\ UNCHANGED <<attempt, dry_run, dst_ids, src_uids, unprobed, src_mids,
                 to_copy, msg>>

GoTo(label) == pc' = label /\ UNCHANGED local_vars

\* A setup call that returns nothing: on to the next one, or out.
Proceed(status, next) ==
  \/ status = "ok" /\ GoTo(next)
  \/ status = "err" /\ FolderFails
  \/ status = "hang" /\ Hang

Outcome == {"ok", "err", "timeout", "hang"}

\* The Ok(Ok(_)) arm of a wrapped call; every other outcome is tried again
\* once, after a reconnect.
TimeoutIsAnAnswer(status) == status \in {"ok", "timeout"}
Answered(status) == status = "ok"

RetriesForever == TRUE
MayRetry == attempt = 1

-----------------------------------------------------------------------------
(* Preparing the destination. *)

CreateFolder ==
  /\ pc = "create"
  /\ \E status \in Outcome :
       /\ CreateFolderIfMissing(status)
       /\ Proceed(status, "select")
  /\ UNCHANGED <<run, history>>

Select ==
  /\ pc = "select"
  /\ \E status \in Outcome :
       /\ SelectForWrite(status)
       /\ Proceed(status, "index")
  /\ UNCHANGED <<run, history>>

Index ==
  /\ pc = "index"
  /\ \E status \in Outcome, ids \in SUBSET MessageIds :
       /\ FetchAllMessageIds(status, ids)
       /\ \/ /\ status = "ok"
             /\ pc' = "close"
             /\ dst_ids' = ids
             /\ indexed' = ids
             /\ cut' = cut \cup {c \in {"index"} : ids # MidsOf(Stored)}
             /\ UNCHANGED <<attempt, dry_run, src_uids, unprobed, src_mids,
                            to_copy, msg, stats>>
          \/ /\ status # "ok"
             /\ Proceed(status, "close")
             /\ UNCHANGED <<indexed, cut>>
  /\ UNCHANGED <<run, base, acked, stored, blanks, last>>

\* An error of CLOSE is logged and ignored.
Close ==
  /\ pc = "close"
  /\ \E status \in Outcome :
       /\ CloseMailbox(status)
       /\ \/ status \in {"ok", "err"} /\ GoTo("examine")
          \/ status = "hang" /\ Hang
  /\ base' = dst_box'
  /\ UNCHANGED <<run, indexed, acked, stored, blanks, cut, last>>

-----------------------------------------------------------------------------
(* Listing and probing the source, then the transfer plan. *)

ExamineSource ==
  /\ pc = "examine"
  /\ \E status \in Outcome :
       /\ Examine(status)
       /\ Proceed(status, "search")
  /\ UNCHANGED <<run, history>>

Search ==
  /\ pc = "search"
  /\ \E status \in Outcome, uids \in SUBSET Uids :
       /\ SearchAllUids(status, uids)
       /\ \/ /\ status = "ok"
             /\ pc' = IF uids = {} THEN "plan" ELSE "probe"
             /\ src_uids' = uids
             /\ unprobed' = uids
             /\ UNCHANGED <<attempt, dry_run, dst_ids, src_mids, to_copy, msg,
                            stats>>
          \/ /\ status # "ok"
             /\ Proceed(status, "probe")
  /\ UNCHANGED <<run, history>>

\* The next chunk of the sorted UID list.
Chunk == {u \in unprobed : Cardinality({v \in unprobed : v < u}) < BatchSize}

\* The map of one chunk is added to the maps of those before it.
ProbedReplaces(found) ==
  /\ src_mids' = found
  /\ unprobed' = unprobed \ Chunk
ProbedAgain(found) ==
  /\ src_mids' = src_mids \cup found
  /\ UNCHANGED unprobed
Probed(found) ==
  /\ src_mids' = src_mids \cup found
  /\ unprobed' = unprobed \ Chunk

\* A first failure reconnects and asks again; a second one ends the folder.
Probe ==
  /\ pc = "probe"
  /\ \E status \in Outcome, found \in SUBSET Uids :
       /\ FetchMessageIdsForUids(Chunk, status, found)
       /\ \/ /\ Answered(status)
             /\ Probed(found)
             /\ attempt' = 1
             /\ pc' = IF unprobed' = {} THEN "plan" ELSE "probe"
             /\ cut' = cut \cup {c \in {"probe"} : found # Identified(Chunk)}
             /\ UNCHANGED <<dry_run, dst_ids, src_uids, to_copy, msg, stats>>
          \/ /\ ~Answered(status)
             /\ \/ MayRetry /\ GoTo("probeReconnect")
                \/ ~MayRetry /\ FolderFails
             /\ UNCHANGED cut
  /\ UNCHANGED <<run, indexed, base, acked, stored, blanks, last>>

ProbeReconnect ==
  /\ pc = "probeReconnect"
  /\ \E status \in Outcome :
       /\ ReconnectSrc(status)
       /\ \/ /\ status = "ok"
             /\ pc' = "probe"
             /\ attempt' = 2
             /\ UNCHANGED <<dry_run, dst_ids, src_uids, unprobed, src_mids,
                            to_copy, msg, stats>>
          \/ status = "err" /\ FolderFails
          \/ status = "hang" /\ Hang
  /\ UNCHANGED <<run, history>>

\* A message is left out only when its Message-Id is known and indexed.
UnknownIsThere == {u \in src_uids : u \in src_mids => Mid(u) \in dst_ids}
AlreadyThere == {u \in src_mids : Mid(u) \in dst_ids}

Plan ==
  /\ pc = "plan"
  /\ to_copy' = src_uids \ AlreadyThere
  /\ stats' = [stats EXCEPT !.skipped = @ + Cardinality(AlreadyThere)]
  /\ pc' = IF to_copy' = {} THEN "done" ELSE "fetch"
  /\ UNCHANGED <<imap_vars, attempt, dry_run, dst_ids, src_uids, unprobed,
                 src_mids, msg, run, history>>

-----------------------------------------------------------------------------
(* The transfer: ascending UIDs, each fetched and appended with at most    *)
(* one reconnect and one more try per call.                                *)

Uid == CHOOSE u \in to_copy : \A v \in to_copy : u <= v

\* Count the message under `field' and go on to the next one.
SettleSkipsNext(field) ==
  /\ stats' = [stats EXCEPT ![field] = @ + 1]
  /\ to_copy' = to_copy \ {Uid, Uid + 1}
  /\ pc' = IF to_copy' = {} THEN "done" ELSE "fetch"
  /\ attempt' = 1
  /\ msg' = NoBody
  /\ UNCHANGED <<dry_run, src_uids, unprobed, src_mids>>
Settle(field) ==
  /\ stats' = [stats EXCEPT ![field] = @ + 1]
  /\ to_copy' = to_copy \ {Uid}
  /\ pc' = IF to_copy' = {} THEN "done" ELSE "fetch"
  /\ attempt' = 1
  /\ msg' = NoBody
  /\ UNCHANGED <<dry_run, src_uids, unprobed, src_mids>>

\* An error of one message stays with that message.
ErrorEndsFolder == FolderFails
ErrorIsSkip == Settle("skipped") /\ UNCHANGED dst_ids
MessageFails == Settle("failed") /\ UNCHANGED dst_ids

\* A message that was fetched: too big, only counted, or to be appended.
Keep(body) ==
  /\ msg' = body
  /\ attempt' = 1
  /\ pc' = "append"
  /\ UNCHANGED <<dry_run, src_uids, unprobed, src_mids, to_copy, stats>>
DryRunIgnored(body) ==
  /\ UNCHANGED dst_ids
  /\ \/ Big(body) /\ Settle("skipped")
     \/ ~Big(body) /\ Keep(body)
DryRunFirst(body) ==
  /\ UNCHANGED dst_ids
  /\ \/ dry_run /\ Settle("would_copy")
     \/ ~dry_run /\ Big(body) /\ Settle("skipped")
     \/ ~dry_run /\ ~Big(body) /\ Keep(body)
Received(body) ==
  /\ UNCHANGED dst_ids
  /\ \/ Big(body) /\ Settle("skipped")
     \/ ~Big(body) /\ dry_run /\ Settle("would_copy")
     \/ ~Big(body) /\ ~dry_run /\ Keep(body)

Fetch ==
  /\ pc = "fetch"
  /\ \E status \in Outcome, body \in Bodies \cup {NoBody} :
       /\ FetchFullByUid(Uid, status, body)
       /\ \/ Answered(status) /\ body # NoBody /\ Received(body)
          \/ Answered(status) /\ body = NoBody /\ MessageFails
          \/ ~Answered(status) /\ MayRetry /\ GoTo("fetchReconnect")
          \/ ~Answered(status) /\ ~MayRetry /\ MessageFails
       /\ blanks' = blanks \cup {u \in {Uid} : body = Blank}
  /\ UNCHANGED <<run, indexed, base, acked, stored, cut, last>>

\* When the reconnect fails the message counts as failed and the next one
\* is fetched over the session that was there before.
FetchReconnect ==
  /\ pc = "fetchReconnect"
  /\ \E status \in Outcome :
       /\ ReconnectSrc(status)
       /\ \/ /\ status = "ok"
             /\ pc' = "fetch"
             /\ attempt' = 2
             /\ UNCHANGED <<dry_run, dst_ids, src_uids, unprobed, src_mids,
                            to_copy, msg, stats>>
          \/ status = "err" /\ MessageFails
          \/ status = "hang" /\ Hang
  /\ UNCHANGED <<run, history>>

\* The Message-Id inserted after an append: the body's own, else the probed.
AnyId == {Mid(msg)}
CopiedId == IF Mid(msg) # NoId THEN {Mid(msg)}
            ELSE IF Uid \in src_mids THEN {Mid(Uid)} ELSE {}

AppendToDst ==
  /\ pc = "append"
  /\ \E status \in Outcome :
       /\ AppendMessage(msg, status)
       /\ \/ /\ Answered(status)
             /\ Settle("copied")
             /\ dst_ids' = dst_ids \cup CopiedId
             /\ acked' = acked \cup {<<Uid, msg>>}
          \/ /\ ~Answered(status) /\ MayRetry
             /\ GoTo("appendReconnect")
             /\ UNCHANGED acked
          \/ /\ ~Answered(status) /\ ~MayRetry
             /\ MessageFails
             /\ UNCHANGED acked
  /\ stored' = [stored EXCEPT ![Uid] =
                  @ + IF dst_box' = dst_box THEN 0 ELSE 1]
  /\ UNCHANGED <<run, indexed, base, blanks, cut, last>>

AppendReconnect ==
  /\ pc = "appendReconnect"
  /\ \E status \in Outcome :
       /\ ReconnectDst(status)
       /\ \/ /\ status = "ok"
             /\ pc' = "append"
             /\ attempt' = 2
             /\ UNCHANGED <<dry_run, dst_ids, src_uids, unprobed, src_mids,
                            to_copy, msg, stats>>
          \/ status = "err" /\ MessageFails
          \/ status = "hang" /\ Hang
  /\ UNCHANGED <<run, history>>

-----------------------------------------------------------------------------
(* The end of a process, and the next one. *)

\* A kill during APPEND leaves the message stored or not.
Crash ==
  /\ "crash" \in faults
  /\ pc \notin Ended
  /\ pc' = "crashed"
  /\ \/ UNCHANGED <<dst_box, stored>>
     \/ /\ pc = "append" /\ dst_session.up /\ dst_session.owes = "nothing"
        /\ dst_box' = Store(msg)
        /\ stored' = [stored EXCEPT ![Uid] = @ + 1]
  /\ UNCHANGED <<kind, src_box, dst_folder, src_session, dst_session, faults,
                 local_vars, run, indexed, base, acked, blanks, cut, last>>

\* The user starts the program again (killing it first when it hangs).
Rerun ==
  /\ pc \in Ended
  /\ run < MaxRuns
  /\ run' = run + 1
  /\ faults' = FaultsOf(run')
  /\ src_session' = FreshSrc
  /\ dst_session' = FreshDst
  /\ pc' = "create"
  /\ attempt' = 1
  /\ dry_run' \in DryRuns
  /\ dst_ids' = {} /\ src_uids' = {} /\ unprobed' = {} /\ src_mids' = {}
  /\ to_copy' = {}
  /\ msg' = NoBody
  /\ stats' = NoStats
  /\ indexed' = {}
  /\ base' = dst_box
  /\ acked' = {}
  /\ stored' = [u \in Uids |-> 0]
  /\ blanks' = {}
  /\ cut' = {}
  /\ last' = [clean |-> pc = "done" /\ stats.failed = 0, dry |-> dry_run,
              would |-> stats.would_copy, box |-> src_uids,
              blanks |-> blanks, cut |-> cut]
  /\ UNCHANGED <<kind, src_box, dst_box, dst_folder>>

OtherClient == Expunge /\ UNCHANGED <<pc, local_vars, run, history>>

Terminated == pc \in Ended /\ run = MaxRuns /\ UNCHANGED vars

Step ==
  \/ CreateFolder \/ Select \/ Index \/ Close
  \/ ExamineSource \/ Search \/ Probe \/ ProbeReconnect \/ Plan
  \/ Fetch \/ FetchReconnect \/ AppendToDst \/ AppendReconnect

Next == Step \/ Crash \/ Rerun \/ OtherClient \/ Terminated

Spec == Init /\ [][Next]_vars

\* The executor polls the task as long as it can move, and the user runs
\* the program again.
FairSpec == Spec /\ WF_vars(Step) /\ WF_vars(Rerun)

-----------------------------------------------------------------------------
(* What a folder pass promises.                                            *)

Counted == stats.copied + stats.skipped + stats.failed + stats.would_copy

\* A folder that sync_folder finished is reported without loss: every UID
\* that SEARCH listed is counted once, as copied, skipped, failed or
\* would_copy, through all retries and failures of single messages.
EveryMessageAccountedOnce == pc = "done" => Counted = Cardinality(src_uids)

Gain(b) == dst_box[b] - base[b]

\* UIDs for which an append of b was acknowledged.
Sent(b) == {u \in Uids : <<u, b>> \in acked}

\* The count `copied' is never too high: there are that many acknowledged
\* appends, and the copies they stand for came to the destination on top of
\* those that were there, whatever was lost or retried in between.
AckedCopiesExist ==
  /\ pc # "failed" => stats.copied = Cardinality(acked)
  /\ \A b \in Bodies : base[b] + Cardinality(Sent(b)) <= dst_box[b]

\* The append that is retried when its answer was lost (or when the process
\* dies over it) can store a message again, but never a third time in a run.
AtMostTwice == \A u \in Uids : stored[u] <= 2

\* A message whose Message-Id the index held is not appended in this run,
\* though a failed probe, a lost session or a late answer may have hidden
\* that Message-Id from the plan.  Only a probe that the server refused and
\* that passed for an answer makes the run copy such a message.
IndexedNeverAppended ==
  pc \in Transfer \cup {"done"} /\ "probe" \notin cut =>
    \A b \in Bodies : Mid(b) \in indexed => Gain(b) = 0

\* run_migration replaces the counts of a folder that failed by `failed: 1';
\* no copy is hidden by that, because no error of the transfer loop leaves
\* sync_folder.
FailedFolderCopiedNothing == pc = "failed" => acked = {} /\ dst_box = base

\* A run with no failure in its report copied every message as itself: an
\* answer that belongs to an earlier, timed-out FETCH can be appended only
\* in a run that also reports a failure.  Only the flags-only answer about
\* another client's change gets past the report, as an empty message.
CleanRunCopiesFaithfully ==
  pc = "done" /\ stats.failed = 0 =>
    \A u \in Uids, b \in Bodies :
      <<u, b>> \in acked => b = u \/ (b = Blank /\ "unsolicited" \in faults)

\* After a real run with no failure in its report the destination holds each
\* message of the source, or one of the same Message-Id.  The exceptions are
\* messages that are too big, or went over as empty ones, or that the index
\* saw on the destination flagged \Deleted, where CLOSE removes them.
CleanRunDelivers ==
  pc = "done" /\ stats.failed = 0 /\ ~dry_run =>
    \A u \in src_uids :
      \/ Big(u)
      \/ dst_box[u] > 0
      \/ <<u, Blank>> \in acked
      \/ \E b \in Uids : /\ Mid(b) = Mid(u) /\ Mid(u) # NoId
                         /\ dst_box[b] > 0 \/ Deleted(b)

\* --dry-run adds no message to the destination in any step, retries and
\* reconnects included.
DryRunAddsNothing ==
  [][dry_run => \A b \in Bodies : dst_box'[b] <= dst_box[b]]_vars

\* Messages that the next run can recognise once they are on the destination.
Lasting(u) ==
  Mid(u) # NoId /\ \A v \in Uids : Mid(v) = Mid(u) => ~Deleted(v)

\* The run after a real run with no failure copies nothing that it can
\* recognise: of the messages listed before only those with no Message-Id,
\* or with the Message-Id of a message flagged \Deleted, come to the
\* destination again, and those that went over as empty ones.  (The report of
\* that run shows no failure for such a message either.)  The index and the
\* probes of the second run must not have been cut short by a refusal.
RerunCopiesOnlyUnidentified ==
  last.clean /\ ~last.dry /\ cut = {} =>
    \A u \in last.box : Lasting(u) /\ u \notin last.blanks => Gain(u) <= 0

\* What a dry run announces (would_copy) is what the real run after it
\* copies, when neither reports a failure, took an empty body for a message
\* or had its index or a probe cut short by a refusal, the source is the same
\* and no message is flagged \Deleted, so that indexing removes nothing from
\* the destination.
DryRunPredicts ==
  /\ pc = "done" /\ stats.failed = 0 /\ ~dry_run
  /\ last.clean /\ last.dry /\ last.box = src_uids
  /\ blanks = {} /\ last.blanks = {}
  /\ cut = {} /\ last.cut = {}
  /\ \A u \in Uids : ~Deleted(u)
  => stats.copied = last.would

\* How many steps a pass can still take: three for each wrapped call (the try,
\* a reconnect, the second try), with two such calls for each message to
\* transfer and at most one for each UID to probe.
TriesLeft ==
  IF pc \in {"probeReconnect", "fetchReconnect", "appendReconnect"} THEN 2
  ELSE IF attempt = 1 THEN 3 ELSE 1
StepsLeft ==
  CASE pc \in Ended -> 0
    [] pc \in {"append", "appendReconnect"} ->
         6 * Cardinality(to_copy) - 6 + TriesLeft
    [] pc \in {"fetch", "fetchReconnect"} ->
         6 * Cardinality(to_copy) - 3 + TriesLeft
    [] pc = "plan" -> 6 * Cardinality(src_uids) + 1
    [] pc \in {"probe", "probeReconnect"} ->
         6 * Cardinality(src_uids) + 1 + 3 * Cardinality(unprobed) + TriesLeft
    [] OTHER ->
         9 * Cardinality(Uids) + 4 + [search |-> 1, examine |-> 2, close |-> 3,
                                      index |-> 4, select |-> 5,
                                      create |-> 6][pc]

\* No retry, no chunk of the probe and no message is ever gone back to: every
\* step of a pass, over however many messages and faults, leaves fewer to
\* take.  (The loops of sync_folder and the one retry of its wrapped calls.)
BoundedPass ==
  [][\/ Rerun
     \/ OtherClient /\ UNCHANGED StepsLeft
     \/ StepsLeft' \in 0 .. StepsLeft - 1]_vars

\* The retries of a folder pass are bounded: it ends, if only by waiting for
\* an answer that never comes.
FolderEnds == pc = "create" ~> pc \in Ended

\* However the runs before ended (killed, lost, half done), a last run in
\* which nothing fails leaves every recognisable message of the source on
\* the destination.
Resumes ==
  run = MaxRuns /\ ~dry_run ~>
    /\ pc = "done"
    /\ \A u \in src_box :
         ~Big(u) /\ Lasting(u) =>
           \E b \in Uids : Mid(b) = Mid(u) /\ dst_box[b] > 0

-----------------------------------------------------------------------------
(* A folder pass seen from outside: the sessions, the probes and the       *)
(* retries are gone, and so is the message in hand but for the copy that   *)
(* an append without an answer may have left.                              *)

PassPhase ==
  IF pc \in Setup THEN "preparing"
  ELSE IF pc \in Transfer THEN "copying"
  ELSE IF pc \in {"hung", "crashed"} THEN "stopped" ELSE pc
PassListed == IF pc \in Transfer \cup {"done"} THEN src_uids ELSE {}
PassLeft == IF pc \in Transfer THEN to_copy ELSE {}
Strayed == pc \in Transfer /\ stored[Uid] > 0

Promise == INSTANCE FolderPromise WITH
  phase <- PassPhase, listed <- PassListed, left <- PassLeft, box <- dst_box,
  strayed <- Strayed

\* Whatever happens on the wire, run_migration sees a folder pass that deals
\* with the listed messages one by one, counts each once, adds only the
\* copies it counts and at most one more for each message, and fails as a
\* whole only before its first copy.
KeepsPromise == Promise!Spec

-----------------------------------------------------------------------------
(* What the documents say and the program does not do.                     *)

\* sync.rs:223: the body is fetched again after a reconnect.  The FETCH of
\* that second try needs a selected mailbox, and nobody EXAMINEs again.
RetriedFetchIsSelected ==
  pc = "fetch" /\ attempt = 2 => src_session.selected

\* docs/index.md: the body fetched for a UID is what is appended for it.
OwnBodyIsAppended == pc = "append" => msg = Uid

\* SPEC.md: `Idempotent: second run after success transfers zero messages.'
SecondRunCopiesNothing == last.clean /\ ~last.dry => stats.copied = 0

\* docs/index.md: what is skipped is a duplicate of a message on the
\* destination.
SkippedIsOnDestination ==
  pc = "done" => \A u \in AlreadyThere :
                   \E b \in Stored : Mid(b) = Mid(u)

\* SPEC.md:136: `Add Message-Id to dst_ids (defensive against same-folder
\* dupes)': once that is done, no second message of the Message-Id goes over.
TwinsHeldBack ==
  \A t \in acked, u \in acked :
    t[1] # u[1] => Mid(t[2]) # Mid(u[2]) \/ Mid(t[2]) = NoId

\* SPEC.md:153: exit code 0 is for `All folders synced; zero per-message
\* failures'.
CleanFolderIsSynced ==
  pc = "done" /\ stats.failed = 0 /\ ~dry_run =>
    \A u \in src_box : Big(u) \/ \E b \in Stored : b = u \/ Mid(b) = Mid(u)
=============================================================================
