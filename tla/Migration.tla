----------------------------- MODULE Migration -----------------------------
(***************************************************************************)
(* One process from its command line to its exit code: main.rs and         *)
(* sync::run_migration.  The folders are migrated one after the other over *)
(* the same two connections; each of them is a pass that keeps the promise *)
(* of FolderPromise, which FolderSync is shown to implement.               *)
(*                                                                         *)
(*   config - resolve src, dst - connect src, dst - globs - list           *)
(*          - (enter, pass, leave)* - logout src, dst - exited             *)
(*                                                                         *)
(* An operator that no action uses is the one defined after it with a      *)
(* plausible mistake in it.                                                *)
(***************************************************************************)
EXTENDS Naturals, Sequences, FiniteSets, SequencesExt

CONSTANTS
  Mailboxes, \* names LIST can return
  Uids,      \* UIDs a folder may hold
  Bodies,    \* what a message on the destination can consist of
  DryRuns    \* values of --dry-run considered

ASSUME MigrationAssumption ==
  /\ IsFiniteSet(Mailboxes)
  /\ IsFiniteSet(Uids)
  /\ DryRuns \subseteq BOOLEAN

VARIABLES
  stage,
  queue,   \* selected folders not dealt with, the one in hand first
  report,  \* MigrationReport::folders
  summary, \* the report was printed
  exit,    \* the exit code, once stage is "exited"
  boxes    \* the destination: copies of each body by folder

\* The pass over the folder in hand; `phase' is "idle" between folders.
VARIABLES phase, dry_run, listed, left, stats, box, strayed

pass_vars == <<phase, listed, left, stats, box, strayed>>

(* History: what the properties compare with.  No action reads it. *)
VARIABLES
  wanted,  \* selectable folders that LIST returned and the filters let through
  found,   \* UIDs listed in each folder
  before,  \* boxes at the start
  base     \* the box of each folder when its transfer began

history == <<wanted, found, before, base>>

vars == <<stage, dry_run, queue, report, summary, exit, boxes, pass_vars,
          history>>

Pass == INSTANCE FolderPromise

NoBox == [b \in Bodies |-> 0]

Fields == {"copied", "skipped", "failed", "would_copy"}

Working ==
  {"config", "resolve_src", "resolve_dst", "connect_src", "connect_dst",
   "globs", "list", "folders", "logout_src", "logout_dst"}

TypeOK ==
  /\ stage \in Working \cup {"exited", "stopped"}
  /\ dry_run \in DryRuns
  /\ wanted \in SUBSET Mailboxes
  /\ queue \in Seq(wanted) /\ IsInjective(queue)
  /\ report \in Seq([folder : wanted, count : [Fields -> Nat]])
  /\ summary \in BOOLEAN
  /\ exit \in 0..5
  /\ boxes \in [Mailboxes -> [Bodies -> Nat]]
  /\ phase \in {"idle", "preparing", "copying"} \cup Pass!Over
  /\ listed \in SUBSET Uids /\ left \in SUBSET listed
  /\ stats \in [Fields -> Nat]
  /\ box \in [Bodies -> Nat]
  /\ strayed \in BOOLEAN
  /\ found \in [Mailboxes -> SUBSET Uids]
  /\ before \in [Mailboxes -> [Bodies -> Nat]]
  /\ base \in [Mailboxes -> [Bodies -> Nat]]

Init ==
  /\ stage = "config"
  /\ dry_run \in DryRuns
  /\ queue = <<>> /\ report = <<>>
  /\ summary = FALSE
  /\ exit = 0
  /\ boxes \in [Mailboxes -> {[b \in Bodies |-> n] : n \in {0, 1}}]
  /\ phase = "idle"
  /\ listed = {} /\ left = {}
  /\ stats = Pass!Zero
  /\ box = NoBox
  /\ strayed = FALSE
  /\ wanted = {}
  /\ found = [f \in Mailboxes |-> {}]
  /\ before = boxes
  /\ base = boxes

-----------------------------------------------------------------------------
(* The exit code. *)

\* total_failed() > 0: a sum of counts that none can take back.
AnyFailed == \E i \in DOMAIN report : report[i].count.failed > 0

AnyErrorIsNetwork(error) == 4
ExitCode(error) ==
  CASE error = "Auth" -> 3
    [] error = "Network" -> 4
    [] error = "Tls" -> 5
    [] OTHER -> 1

\* `?' leaves run_migration: the report is dropped unprinted.
Abort(error) ==
  /\ stage' = "exited"
  /\ exit' = ExitCode(error)
  /\ UNCHANGED <<dry_run, queue, report, summary, boxes, pass_vars, history>>

GoTo(next) ==
  /\ stage' = next
  /\ UNCHANGED <<dry_run, queue, report, summary, exit, boxes, pass_vars,
                 history>>

-----------------------------------------------------------------------------
(* Before the first folder. *)

Configure ==
  /\ stage = "config"
  /\ \/ GoTo("resolve_src")
     \/ /\ stage' = "exited"
        /\ exit' = 2
        /\ UNCHANGED <<dry_run, queue, report, summary, boxes, pass_vars,
                       history>>

\* A side with a password has its credentials at hand.  One with OAuth2 may
\* lack a URL, name an unknown provider, or fail in the browser flow.
Resolve(here, next) ==
  /\ stage = here
  /\ GoTo(next) \/ \E error \in {"Config", "OAuth"} : Abort(error)

ResolveSrc == Resolve("resolve_src", "resolve_dst")
ResolveDst == Resolve("resolve_dst", "connect_src")

\* Only --tls imaps is implemented, the other modes are a Config error.  Any
\* failure of the login exchange counts as a refused login.
Connect(here, next) ==
  /\ stage = here
  /\ \/ GoTo(next)
     \/ \E error \in {"Config", "Network", "Tls", "Auth"} : Abort(error)

ConnectSrc == Connect("connect_src", "connect_dst")
ConnectDst == Connect("connect_dst", "globs")

BuildGlobs ==
  /\ stage = "globs"
  /\ GoTo("list") \/ Abort("Config")

\* list_folders and filter_folders: \NoSelect mailboxes and those the
\* patterns leave out are dropped.
AllSelected(all, noselect, include, exclude) == (all \cap include) \ exclude
Selected(all, noselect, include, exclude) ==
  ((all \ noselect) \cap include) \ exclude

\* The order is that of LIST, which the server chooses.

List ==
  /\ stage = "list"
  /\ \/ Abort("Imap")
     \/ \E all, noselect, include, exclude \in SUBSET Mailboxes :
          /\ stage' = "folders"
          /\ queue' \in SetToSeqs(Selected(all, noselect, include, exclude))
          /\ wanted' = {f \in all : f \notin noselect /\ f \in include
                                   /\ f \notin exclude}
          /\ UNCHANGED <<dry_run, report, summary, exit, boxes, pass_vars,
                         found, before, base>>

-----------------------------------------------------------------------------
(* The folders. *)

Enter ==
  /\ stage = "folders" /\ phase = "idle" /\ queue # <<>>
  /\ phase' = "preparing"
  /\ box' = boxes[Head(queue)]
  /\ UNCHANGED <<stage, dry_run, queue, report, summary, exit, boxes, listed,
                 left, stats, strayed, history>>

\* One step of sync_folder.
PassStep ==
  /\ stage = "folders" /\ phase # "idle"
  /\ Pass!Work
  /\ found' = [found EXCEPT ![Head(queue)] = listed']
  /\ base' = IF phase = "preparing"
             THEN [base EXCEPT ![Head(queue)] = box'] ELSE base
  /\ UNCHANGED <<stage, queue, report, summary, exit, boxes,
                 wanted, before>>

\* A folder that failed is one failure in the report, and the next one has
\* its turn.
CountsNothing == Pass!Zero
Result ==
  IF phase = "failed" THEN [Pass!Zero EXCEPT !.failed = 1] ELSE stats

FailedStaysInHand == IF phase = "failed" THEN queue ELSE Tail(queue)
Remaining == Tail(queue)

FailureAborts ==
  /\ stage = "folders"
  /\ \/ phase = "failed" /\ Abort("Network")
     \/ /\ phase = "done"
        /\ report' = Append(report, [folder |-> Head(queue), count |-> stats])
        /\ boxes' = [boxes EXCEPT ![Head(queue)] = box]
        /\ queue' = Tail(queue)
        /\ phase' = "idle"
        /\ listed' = {} /\ left' = {} /\ stats' = Pass!Zero
        /\ box' = NoBox /\ strayed' = FALSE
        /\ UNCHANGED <<stage, dry_run, summary, exit, history>>
Leave ==
  /\ stage = "folders"
  /\ phase \in {"done", "failed"}
  /\ report' = Append(report, [folder |-> Head(queue), count |-> Result])
  /\ boxes' = [boxes EXCEPT ![Head(queue)] = box]
  /\ queue' = Remaining
  /\ phase' = "idle"
  /\ listed' = {} /\ left' = {} /\ stats' = Pass!Zero
  /\ box' = NoBox /\ strayed' = FALSE
  /\ UNCHANGED <<stage, dry_run, summary, exit, history>>

LastFolder ==
  /\ stage = "folders" /\ phase = "idle" /\ queue = <<>>
  /\ GoTo("logout_src")

-----------------------------------------------------------------------------
(* After the last folder. *)

LogoutSrc ==
  /\ stage = "logout_src"
  /\ GoTo("logout_dst") \/ Abort("Imap")

\* With the report in hand, main prints it and turns it into an exit code.
LogoutDst ==
  /\ stage = "logout_dst"
  /\ \/ Abort("Imap")
     \/ /\ stage' = "exited"
        /\ summary' = TRUE
        /\ exit' = IF AnyFailed THEN 1 ELSE 0
        /\ UNCHANGED <<dry_run, queue, report, boxes, pass_vars, history>>

\* Killed, or waiting for ever for a server: no call made here has a timeout.
Stop ==
  /\ stage \in Working
  /\ stage' = "stopped"
  /\ IF phase \in {"preparing", "copying"}
     THEN Pass!Stop
     ELSE UNCHANGED <<pass_vars, dry_run>>
  /\ UNCHANGED <<queue, report, summary, exit, boxes, history>>

Over == stage \in {"exited", "stopped"} /\ UNCHANGED vars

Step ==
  \/ Configure \/ ResolveSrc \/ ResolveDst \/ ConnectSrc \/ ConnectDst
  \/ BuildGlobs \/ List \/ Enter \/ PassStep \/ Leave \/ LastFolder
  \/ LogoutSrc \/ LogoutDst

Next == Step \/ Stop \/ Over

Spec == Init /\ [][Next]_vars

\* The executor polls the task as long as it can move.
FairSpec == Spec /\ WF_vars(Step)

-----------------------------------------------------------------------------
(* What a run promises. *)

\* The destination folder now, the one in hand included.
Box(f) == IF phase # "idle" /\ queue # <<>> /\ f = Head(queue)
          THEN box ELSE boxes[f]

Entry(f) == {e \in ToSet(report) : e.folder = f}

\* The copies, numbered by body, that `now' holds beyond those of `then'.
Gained(then, now) == UNION {{b} \X (then[b] + 1 .. now[b]) : b \in Bodies}

\* Exit code 0 says that every folder the user asked for was migrated: each
\* one was listed, and each of its messages went over, was there, or was
\* left out on purpose.  (main.rs turns the report into the code, sync.rs
\* puts what the folders return, or one failure, into the report.)
ExitZeroMeansComplete ==
  stage = "exited" /\ exit = 0 =>
    \A f \in wanted :
      \E e \in Entry(f) :
        /\ e.count.failed = 0
        /\ e.count.copied + e.count.skipped + e.count.would_copy =
             Cardinality(found[f])

\* The summary is true of the destination: every folder the user asked for
\* has exactly one line in it, nothing has left that folder since its transfer
\* began, and the line claims no more copies than have come to it since.  (The
\* loop over the folders pushes one FolderStats for each, whatever sync_folder
\* returns.)
SummaryIsTrue ==
  summary =>
    \A f \in wanted :
      /\ Cardinality(Entry(f)) = 1
      /\ \A b \in Bodies : base[f][b] <= boxes[f][b]
      /\ \A e \in Entry(f) :
           e.count.copied <= Cardinality(Gained(base[f], boxes[f]))

\* The codes 2 to 5 tell scripts that nothing was done: an error that comes
\* up once a folder is in hand never ends in one of them, and the destination
\* is as it was.
EarlyExitWroteNothing ==
  stage = "exited" /\ exit \in 2..5 =>
    \A f \in Mailboxes : Box(f) = before[f]

\* A folder that fails does not keep the ones after it from being tried.
EveryFolderHasItsTurn ==
  stage = "folders" ~> stage = "stopped" \/ Len(report) = Cardinality(wanted)
=============================================================================
