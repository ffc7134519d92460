--------------------------- MODULE FolderPromise ---------------------------
(***************************************************************************)
(* What sync_folder promises its caller, with no word about connections,   *)
(* probes, timeouts and retries: messages are listed, some are left out,   *)
(* the others are dealt with one at a time and counted once each, and the  *)
(* destination gains the copies that are counted, plus at most one more    *)
(* for each message that was tried.  The folder fails as a whole only      *)
(* before its first copy.                                                  *)
(*                                                                         *)
(* FolderSync implements this specification; Migration is built on it.     *)
(***************************************************************************)
EXTENDS Naturals, FiniteSets

CONSTANTS
  Uids,    \* UIDs the source folder may hold
  Bodies,  \* what a message on the destination can consist of
  DryRuns  \* values of --dry-run considered

VARIABLES
  phase,   \* "preparing", "copying", or how the pass ended
  dry_run,
  listed,  \* UIDs found on the source
  left,    \* UIDs still to be dealt with
  stats,   \* FolderStats
  box,     \* copies of each body in the destination folder
  strayed  \* an append for the message in hand left an uncounted copy

promise_vars == <<phase, dry_run, listed, left, stats, box, strayed>>

Zero == [copied |-> 0, skipped |-> 0, failed |-> 0, would_copy |-> 0]

Over == {"done", "failed", "stopped"}

Init ==
  /\ phase = "preparing"
  /\ dry_run \in DryRuns
  /\ listed = {} /\ left = {}
  /\ stats = Zero
  /\ box \in [Bodies -> Nat]
  /\ strayed = FALSE

\* Some copy, of whatever body, came to the destination.
Gains == \E b \in Bodies : box' = [box EXCEPT ![b] = @ + 1]

\* Indexing the destination can remove messages from it.
Prepare ==
  /\ phase = "preparing"
  /\ \E gone \in SUBSET Bodies :
       box' = [b \in Bodies |-> IF b \in gone THEN 0 ELSE box[b]]
  /\ UNCHANGED <<phase, dry_run, listed, left, stats, strayed>>

Choose ==
  /\ phase = "preparing"
  /\ listed' \in SUBSET Uids
  /\ left' \in SUBSET listed'
  /\ stats' = [stats EXCEPT !.skipped = Cardinality(listed' \ left')]
  /\ phase' = IF left' = {} THEN "done" ELSE "copying"
  /\ UNCHANGED <<dry_run, box, strayed>>

Fail ==
  /\ phase = "preparing"
  /\ phase' = "failed"
  /\ stats' = [Zero EXCEPT !.failed = 1]
  /\ UNCHANGED <<dry_run, listed, left, box, strayed>>

\* One message is dealt with for good.
Count(u, field) ==
  /\ left' = left \ {u}
  /\ stats' = [stats EXCEPT ![field] = @ + 1]
  /\ phase' = IF left' = {} THEN "done" ELSE "copying"
  /\ strayed' = FALSE
  /\ UNCHANGED <<dry_run, listed>>

Copy(u) == ~dry_run /\ Gains /\ Count(u, "copied")

LeaveOut(u) ==
  /\ UNCHANGED box
  /\ \/ Count(u, "skipped")
     \/ dry_run /\ Count(u, "would_copy")

GiveUp(u) ==
  /\ UNCHANGED box \/ (~dry_run /\ Gains)
  /\ Count(u, "failed")

Settled ==
  /\ phase = "copying"
  /\ \E u \in left : Copy(u) \/ LeaveOut(u) \/ GiveUp(u)

\* The answer to an append was lost; it will be tried once more.
Stray ==
  /\ phase = "copying" /\ ~dry_run /\ ~strayed
  /\ Gains
  /\ strayed' = TRUE
  /\ UNCHANGED <<phase, dry_run, listed, left, stats>>

\* Killed, or waiting for ever: what the pass knew is lost.
Stop ==
  /\ phase \in {"preparing", "copying"}
  /\ phase' = "stopped"
  /\ UNCHANGED box \/ (phase = "copying" /\ ~dry_run /\ Gains)
  /\ listed' = {} /\ left' = {}
  /\ strayed' = FALSE
  /\ UNCHANGED <<dry_run, stats>>

Again ==
  /\ phase \in Over
  /\ phase' = "preparing"
  /\ dry_run' \in DryRuns
  /\ listed' = {} /\ left' = {}
  /\ stats' = Zero
  /\ strayed' = FALSE
  /\ UNCHANGED box

Work == Prepare \/ Choose \/ Fail \/ Settled \/ Stray

Next == Work \/ Stop \/ Again

Spec == Init /\ [][Next]_promise_vars
=============================================================================
