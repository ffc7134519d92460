# Specifications of CrabImapSync

CrabImapSync copies the folders of one IMAP account to another. The program
is small and sequential, and what makes it hard is everything at the other end
of its two connections: servers that refuse, answer late or not at all,
connections that break between a command and its answer, another client of
the source account, a user at a browser, and a user who kills the program and
starts it again. These
modules say what the program promises in such a world, and what it does not.

TLC checks them on small instances; TLAPS proves the most important results for
every value of the constants.

    tlc -config folder_pass.cfg MCFolderSync      # any run of the table below
    tlapm FolderSyncRefines.tla                   # any *Proofs/*Safety/... module

## 1. The system

| Component | Source | State it keeps | Operations |
|---|---|---|---|
| Folder synchroniser | `sync.rs:51-285` | `dst_ids`, `src_uids`, `src_mids`, `to_copy`, the message in hand, `FolderStats` | `sync_folder`, `fetch_full_with_reconnect`, `append_with_reconnect` |
| IMAP client | `imap_client.rs` | one `async_imap::Session` per side, with what is left on its wire; credentials for a reconnect | `connect_and_auth`, `reconnect`, and one method per IMAP command |
| Migration | `sync.rs:11-32, 319-455`, `main.rs` | `MigrationReport`, the list of folders, the exit code | `run_migration`, `resolve_auth`, `build_globset`, `filter_folders`, `run` |
| OAuth2 flow | `oauth.rs`, `sync.rs:411-455` | a refresh token in the keyring; a listening port | `resolve_auth`, `obtain_token` |
| Message-Id parser | `imap_client.rs:371-414` | none | `parse_message_id` |
| Retry helper | `retry.rs` | an attempt counter | `with_retry` (no caller) |
| Configuration | `cli.rs`, `config.rs` | `Settings`, fixed after start-up | `Settings::from_cli`, `EndpointInputs::build` |
| TLS | `imap_client.rs:100-172` | none | `build_tls_config` |
| Values, errors, output | `auth.rs`, `error.rs`, `progress.rs` | none | |

How they interact. `main` builds `Settings` and calls `run_migration`, which
obtains credentials (OAuth2 or password) for both sides, opens one `Client` per
side, lists and filters the folders, and passes the *same two clients* to
`sync_folder` for each folder in turn. There is one task and no shared state
between tasks; every interaction is an `await` on one of the two sessions. A
session outlives the folder: what one folder leaves on it (a dead connection, a
mailbox still selected, an answer still to come, an APPEND literal half sent) is
what the next one starts with. Between runs only the destination mailbox and,
if the build has one, the keyring persist; a run knows what earlier ones did from
the Message-Ids it finds there.

What is hard:

- **Timeouts that race the answer.** `tokio::time::timeout` drops the future, not
  the command. The server may have stored the message, and its answer is read by
  whichever call comes next on that session.
- **Retries after a reconnect.** `reconnect` replaces the session by one with no
  mailbox selected, or leaves the old one in place when it fails.
- **Partial failure.** A message, a folder, a probe of 500 UIDs, or a LOGOUT can
  fail, each with a different arm of code, and the report must add up.
- **Stale state.** The Message-Id index, the source UID list and the probes are all
  taken before the loop that relies on them; CLOSE removes what was indexed.
- **Crash and rerun.** Killing the program over an APPEND leaves a message that
  nobody counted; killing it between the refresh of a token and its storing can
  leave a dead token.
- **A port open to anyone.** The first request on the callback port ends the wait of
  the browser flow, whoever sent it.

`PROJECT.json` lists each of these at the line where it bites (`hazards`), with the
properties that would catch it going wrong.

What makes each component right:

- folder synchroniser: each listed message is counted once; `copied` is backed by
  acknowledged copies; no message is stored more than twice in a run; nothing
  indexed is appended again, as long as no refusal passes for an answer; a run without
  failures copied every message as itself and left none out; a dry run adds nothing; the pass ends; a rerun
  completes what was left undone;
- IMAP client: after any outcome of any call the session is in a state the next
  call can be judged from;
- migration: exit code 0 means complete; the summary is true; codes 2-5 mean that
  nothing was written; every folder has its turn;
- OAuth2 and configuration: each side gets the credentials its half of the command
  line names; a stored token spares the browser; whatever was
  left in the keyring, a good command gets its credentials in the end;
- retry helper: `retries + 1` calls and no more, and it returns;
- Message-Id parser: it finds the one identifier however the header is folded.

## 2. The modules

    ImapClient  <--EXTENDS--  FolderSync  --refines-->  FolderPromise
                                  ^                          ^
                                  |                          | INSTANCE
                             MCFolderSync                 Migration
                                                             ^
                                                             | refines
    Retry  <--+                                            OAuth  <--  MCOAuth
              +-- MCHelpers
    MessageId <--+

### ImapClient

The two sessions and the mailboxes behind them. Every method of `Client` that a
folder pass calls is an operator with the outcome of the call (`status`, and what
it returned) as parameters: `AppendMessage(body, status)` is
`Client::append_message`. `status` is `"ok"`, `"err"`, `"timeout"` (only the calls
that `sync.rs` wraps) or `"hang"` (only those that it does not).

A session is `up` or not, has a mailbox `selected` or not, and remembers what a
dropped future left on its wire: `late` is the first FETCH answer still to be
read on the source; `owes` says whether the destination still owes the tagged
answer of an APPEND (`"answer"`) or still waits for the bytes of its literal
(`"literal"`). A message is its source UID with the three attributes the
program tells apart (`kind`): the Message-Id that `parse_message_id` yields or
`NoId`, whether it exceeds `--max-message-size`, and whether it carries
`\Deleted`. `Blank` is the empty body of an answer without one, `Garbled` what
a desynchronised server took for a message.

The servers and the `async-imap` 0.10.4 library are external. They are modelled from how
the code uses them, with these assumptions:

- the stream of a SEARCH or FETCH ends at the tagged answer, whose status nobody looks
  at: the caller of a command that is *refused*, half way or at once, gets `Ok` with what
  came before the NO. So a refused SEARCH lists nothing, a refused index or probe lacks
  Message-Ids, and a refused FETCH has no message; an error is allowed as well, as
  another version of the library would give it. A FETCH with no mailbox selected is
  refused always;
- a stream that breaks off because the connection is lost ends in an error;
- a FETCH collects every FETCH answer up to its own tag, whatever its UID;
  `fetch_full_by_uid` then takes the first one;
- APPEND reads one response for its continuation, and takes any other for an error;
- SELECT, EXAMINE, CREATE and CLOSE read up to their own tag;
- a message whose APPEND was given up is stored by the time of the timeout, or
  never; nobody else writes to the destination folder; UIDs are stable.

`Faults` is what the environment may do: `refuse`, `drop`, `slow`, `stall`,
`unreachable`, `unsolicited`, `expunge`, `crash`. Each action may meet each of them,
so a run explores every order.

### FolderSync

`sync_folder` and its two wrappers, one action per `await`; `pc` names the call
about to be made. `Proceed` is the `?` operator, `FolderFails` the error arm of
`run_migration`, `MessageFails` the error arms of the transfer loop. `attempt`
is the position inside a wrapper (first call, or the one after the reconnect). The
set `to_copy` with `Uid`, its least element, is the sorted vector and its iterator;
`src_mids` is the domain of the map, as the Message-Id of a UID is `Mid(uid)`.
Counters, log lines and the byte total are left out: nothing reads them.
`parse_message_id` on a full body only feeds `dst_ids.insert`, which nothing
consults after the plan is made; `CopiedId` models the insertion.

`Rerun` is the user starting the program again, on the destination as it is;
`Crash` a kill between any two steps, or over an APPEND. With `FirstFolder` FALSE a
run starts on sessions in every state an earlier folder can leave.

`indexed`, `base`, `acked`, `stored`, `blanks`, `cut` and `last` are history variables:
properties compare with them and no action reads them. `blanks` are the UIDs for which a
FETCH gave an empty body in this run; `cut` says whether the index or a probe of this run
passed for complete though a refusal had cut it short; `last` is what the run before
listed and counted, with its `blanks` and `cut`.

Operators that no action uses (`RetriesForever`, `ErrorIsSkip`, ...) are plausible
mistakes, each defined before the operator it would replace. Every property
below has one that breaks it (`mutants` in `PROJECT.json`).

### FolderPromise

What a caller may rely on, with no word about connections: messages are listed,
some are left out, the others are dealt with one at a time and counted once, and
the destination gains the copies that are counted plus at most one more for each
message tried. The folder fails as a whole only before its first copy.
`FolderSync!KeepsPromise` is this specification under the refinement mapping

    phase   <- "preparing" / "copying" / "stopped" / done / failed, from pc
    listed  <- src_uids once the transfer began        left <- to_copy
    box     <- dst_box                                 stats, dry_run as they are
    strayed <- an APPEND of the message in hand stored a copy nobody counted

### Migration

A whole process, from `Settings::from_cli` to the exit code: one action per `?` or
`await` of `run_migration`, and for the folder in hand the steps of FolderPromise.
Because FolderSync implements FolderPromise, the properties of Migration hold with
the detailed passes in its place. Glob patterns are the sets of names they match;
OAuth2 (detailed in the module OAuth) and `connect_and_auth` are their outcomes.
`Leave` is both arms of the match in the loop, `Result` what they push. `AnyFailed` is
`total_failed() > 0`; the other totals of the report are printed and nothing reads
them.

### OAuth

From the command line to the credentials of both sides, over several runs. `cmd` is the
command line with its environment, half by half: `Accepted` is
`EndpointInputs::build`, `Input` the half that `Settings::from_cli` hands to this
call of `resolve_auth`. `ResolveOAuth` and `ObtainToken` go from there to the keyring or
to the browser. What follows is one action per step that can fail or wait:

    keyring - refresh - persist      exchange_refresh_token, set_password
    listen - wait - exchange - keep  callback, exchange_code, set_password

and every way out is `Resolved` or `Abort`. The keyring is external and comes in two
back ends: one that keeps what it is given, and the `mock` of the `keyring` crate, which
keeps nothing from one `Entry` to the next. The second is what the repository builds:
`keyring = "3"` (Cargo.toml:33) selects no platform, and Cargo.lock has no platform
crate below it.

A token says which server issued it, to which account, and whether it is still
`live`; with each server one client id is used, on both sides and in all runs. A server
may rotate: it answers a refresh with a new token, and the stored one
is dead from then on, whether or not the answer arrives. PKCE and the CSRF state become
one attribute of a request, `own`: it carries the state of this run's authorisation.
`Faults`: a `locked` keyring, `offline` servers, `revoke`d tokens, a `local` failure (no
port, no HTTP client), a user who `deny`s, stays `silent` or signs in as another
(`stranger`), a `stray` request on the port, a server that `withhold`s the refresh
token, a `crash`.

`StagesOfMigration` is the refinement: a run of this module, folders left out, goes
through the stages `config`, `resolve_src`, `resolve_dst` of Migration to `connect_src`, to
an exit, or to a stop. `Way` maps an exit to the way the run took there (over the command
line, or over a side), which Migration tells apart by code, and not the code OAuth itself
computes. The variables about folders are mapped to their initial values, so this says
nothing about folders and needs not.

### Retry

`with_retry`, one call after another: `Answer` is the operation returning, `Step` what the
helper does, a timeout included. `MaxU32` is the width of the counter, so that `retries +
1` wraps (release) or panics (debug) at the last limit. The library exports the helper
and tests it; the program does not call it, so nothing else depends on it.

### MessageId

`parse_message_id` as operators on lines of atoms (`Atoms`: white space, the key, the
brackets, anything else), with a recursive function over the lines for the unfolding
(`Unfolded`, `AddLine`), and the search for the first line with a value (`FirstId`).
`message` is a constant of a behaviour: any header fields, body and encoding
(`GivenMessage`), of which TLC takes each of a set. A field is a name, an identifier with
what stands before and after it (`open`, `close`: white space around brackets), and the
places `ends` where its lines end; `Rendered` cuts it there, at any of its white space. A
field that is no Message-Id may hold any text. Comments and white space inside an
identifier are not among the `Identifiers`: the parser would keep them. Identity of
identifiers elsewhere is equality of what this parser returns.

### MCFolderSync

Definitions for TLC: two Message-Ids, the kinds of messages and the sets of faults
of each run.

### MCOAuth, MCHelpers

The command lines of `oauth`: the usual move, two sides under one keyring entry, two custom
servers under one entry, one side without keyring, and each way a command line can be
wrong. The messages of `helpers`, next to one call of `with_retry`.

## 3. What TLC checks

| Run | Instance | What it shows |
|---|---|---|
| `folder_pass` | 2 UIDs of 5 kinds, fresh sessions, all faults, real and dry, batch of 1 | the safety properties of one pass; it implements FolderPromise, in a bounded number of steps |
| `reruns` | 2 UIDs of 4 kinds, real and dry; sessions in any state and all faults but `expunge`, then a run without faults; batch of 1 | what a pass still guarantees over sessions that earlier folders left; each pass ends and implements FolderPromise; what the second run can rely on from the first, and completes of it |
| `migration` | 2 mailboxes, 2 UIDs, one kind of body, any stage may fail | exit codes, the summary, isolation of folders |
| `oauth` | 9 command lines, 2 accounts, 2 custom servers, both keyring back ends, three runs, all faults in the first two | credentials, the browser flow, the keyring over several runs; refinement of Migration |
| `helpers` | limits 0, 1, 2, 7 and 8 of a counter up to 8, both builds; 6000 messages | `with_retry` and `parse_message_id` |
| `refetch`, `own_body`, `second_run`, `skipped`, `twins`, `refused`, `browser` | as small as shows it | places where documents and code disagree (section 6) |

Properties of a pass (FolderSync):

- `EveryMessageAccountedOnce`: in a finished folder copied + skipped + failed +
  would_copy is the number of listed UIDs.
- `AckedCopiesExist`: `copied` is the number of acknowledged appends, and each has a
  copy of its own on the destination.
- `AtMostTwice`: no message is stored more than twice in a run.
- `IndexedNeverAppended`: what was indexed is not appended, although a failed probe, a
  lost session or a late answer may have hidden its Message-Id from the plan. This
  is a subtle one: a probe repeated over a session with nothing selected *does* let
  indexed messages into the plan. They are harmless only because over such a
  session no body arrives either. A probe that is *refused* while the mailbox stays selected
  is the exception in the formula (`"probe" \notin cut`): its empty answer passes for a
  true one, bodies do arrive, and the messages are copied again.
- `FailedFolderCopiedNothing`: the `failed: 1` that replaces a folder's counts hides
  no copy.
- `CleanRunCopiesFaithfully`, `CleanRunDelivers`: a pass that reports no failure copied
  every message as itself, and left none out. The exceptions are in the formulas: a
  flags-only answer is appended as an empty message; messages flagged `\Deleted` on
  the destination vanish at CLOSE after they were indexed.
- `DryRunAddsNothing` (action property).
- `DryRunPredicts`: what a clean dry run announces a clean real run then copies, from the
  same listing. Not when an answer without a body came in either: the empty message
  it becomes is neither too big nor known by a Message-Id. Not with messages flagged
  `\Deleted`, which the dry run's CLOSE removes, and not when a refusal cut the index or a
  probe of either run short.
- `RerunCopiesOnlyUnidentified`: of the messages a clean run listed, the next one copies only
  those without a Message-Id, or whose twin CLOSE removed, or that went over as an empty
  message, unless a refusal cut its index or a probe short.
- `BoundedPass` (action property): each step of a pass lowers `StepsLeft`, a number between
  0 and 9 for each UID and 10 more; nothing that fails makes a pass begin again.
- `FolderEnds`, `Resumes` (liveness).

Properties of a process (Migration): `ExitZeroMeansComplete`; `SummaryIsTrue` (one line
for each selected folder, which claims no more copies than came there since its transfer
began, and nothing that was there is gone); `EarlyExitWroteNothing`;
`EveryFolderHasItsTurn` (liveness).

Properties of the credentials (OAuth):

- `CredsFit`: each side has its own password, or a token of its own server for an account
  that consented there. *An* account and not the one on the command line: nothing
  compares them, and the wrong one's token is stored too.
- `SecondRunNeedsNoBrowser`: with a keyring that persists, a run after a clean run of the same command asks
  nobody, although tokens rotate and both sides may share an entry. The exception is in
  the formula: two custom servers under the one name `custom` (`Collide`).
- `FlowEnds`, `Recovers` (liveness): the stage ends, and no failure of earlier runs (a
  kill between refresh and storing, a lost answer, a locked keyring) keeps a good
  command from its credentials.
- `StagesOfMigration`: the refinement. A run connects only after both sides were resolved,
  the source first, gives up over the command line before anything else and over a
  side while that side is resolved, and goes back only as a new run. The codes of the
  exits are not part of it: `Way` tells Migration only over what the run gave up.

Properties of the helpers: `CallsAreCounted`, `ReportIsTrue` (the number in the timeout error;
0 or a panic at the last limit), `Returns` (liveness: it returns even if no call ever does);
`FindsTheId`, and `WholeMessageAgrees`: `fetch_full_by_uid` parses the whole message where the
probes parse its header, and gets the same identifier, unless the message is not UTF-8 or
its body begins with white space right after the field.

Bounds, and why they are enough:

- `Uids`. What happens to one message depends on others only through the session it
  inherits, the Message-Id it shares and the chunk it is probed in. Two messages show
  all of them but a shorter last chunk, which is left to the proofs: they are for any
  UIDs and any batch size.
- `Kinds`. All combinations of the attributes that matter to a property occur in some
  run; the program treats the attributes independently.
- `BatchSize` is 500 in the code. 1 makes a chunk of each UID, so that a probe can fail
  or be refused between two others.
- `MaxRuns`, `FaultyRuns`. A run depends on the ones before it only through the
  destination, which Init lets hold any of the messages: the first of two runs begins
  as one that follows others, but that it has no `last`.
- `Mailboxes`. Two show what one folder does to the next and to the totals.
- `Commands`, `Accounts`, `CustomServers`. Two sides interact only through a shared keyring entry,
  which needs one user and, to collide, two custom servers; a second account is who
  else may sign in. Three runs: one that leaves something, one that spoils it, one
  that must cope; a token knows nothing of the runs before the last that stored it.
- `MaxU32`. 8 in place of 2^32 - 1: above the cap of the back-off (6), so that all pauses
  occur, and with the last limit and the one before it among `Limits`.
- Messages of `helpers`: eight atoms; up to two header fields show which one is read; the values have
  white space and brackets at each end, and a body of up to two lines is enough for one
  line to follow the header.

None of the variables needs a bound of its own: counters and copies are bounded by the
number of UIDs and runs. The constants have no symmetry sets: UIDs are ordered
(`Uid`, `Chunk`), and liveness is checked.

Deadlock is checked in every run; a finished process stutters in `Terminated`, `Over`.

### Fairness

`WF_vars(Step)`: the tokio runtime polls the task as long as it can move. A call
that never returns is not a failure of fairness but an outcome (`"hang"`), as most
calls have no timeout; `FolderEnds` therefore counts `hung` as an end.
`WF_vars(Rerun)` is used by `Resumes` alone: *if* the user runs the program again.
Nothing is assumed about faults going away except where the run says so:
`FaultyRuns` is the last run in which they happen.

In OAuth, `WF_vars(Step)` is the same assumption for the thread of `spawn_blocking`: its waits
all end (300 seconds for the callback, the default timeout of the blocking HTTP client
for a server). `WF_vars(Browser /\ "silent" \notin faults)`: a user who is not silent answers
the browser; while `silent` is among the faults nothing is assumed of the user, and
`FlowEnds` rests on the timeout. `WF_vars(Rerun)` is again the premise that the program is
started again. In Retry, weak fairness is on the helper's own steps only: that an
operation ever answers is not assumed.

## 4. What TLAPS proves

For any sets of UIDs, messages, Message-Ids and faults, any batch size and any number of
runs, from `ImapAssumption` and `SyncAssumption` (finite sets of natural UIDs, the
special bodies distinct from them); for any finite sets of mailboxes and messages
(the assumption of Migration); for any accounts, custom servers, command lines, stores, faults and
number of runs (`OAuthAssumption`: they have the right shape, and no server is called
"none", "unknown" or "bad"); for any counter width and limits (`RetryAssumption`); for any
atoms that include white space, the key and the brackets (`MessageAssumption`), and messages of
any length:

| Theorem | Module | Statement |
|---|---|---|
| `TypeCorrect` | FolderSyncProofs | `Spec => []TypeOK` |
| `ReportIsComplete` | FolderSyncSafety | `Spec => []EveryMessageAccountedOnce` |
| `CopiesAreThere` | FolderSyncSafety | `Spec => []AckedCopiesExist` |
| `FailureHidesNothing` | FolderSyncSafety | `Spec => []FailedFolderCopiedNothing` |
| `BoundedDuplication` | FolderSyncSafety | `Spec => []AtMostTwice` |
| `PassesAreBounded` | FolderSyncSafety | `Spec => BoundedPass` |
| `IndexedStays` | FolderSyncContent | `Spec => []IndexedNeverAppended` |
| `CleanCopiesAreFaithful` | FolderSyncContent | `Spec => []CleanRunCopiesFaithfully` |
| `DryRunIsDry` | FolderSyncContent | `Spec => DryRunAddsNothing` |
| `CleanRunsDeliver` | FolderSyncContent | `Spec => []CleanRunDelivers` |
| `RerunsRecognise` | FolderSyncReruns | `Spec => []RerunCopiesOnlyUnidentified` |
| `DryRunsPredict` | FolderSyncReruns | `Spec => []DryRunPredicts` |
| `PassKeepsPromise` | FolderSyncRefines | `Spec => KeepsPromise`, the refinement |
| `TypeCorrect` | MigrationProofs | `Spec => []TypeOK` |
| `EarlyExitsAreHarmless` | MigrationProofs | `Spec => []EarlyExitWroteNothing` |
| `ZeroIsComplete` | MigrationProofs | `Spec => []ExitZeroMeansComplete` |
| `SummariesAreTrue` | MigrationProofs | `Spec => []SummaryIsTrue` |
| `TypeCorrect` | OAuthProofs | `Spec => []TypeOK` |
| `CredentialsFit` | OAuthProofs | `Spec => []CredsFit` |
| `StoredIsSpared` | OAuthProofs | `Spec => []SecondRunNeedsNoBrowser` |
| `ResolvesAsMigration` | OAuthProofs | `Spec => StagesOfMigration`, the refinement |
| `TypeCorrect` | HelperProofs | `Spec => []TypeOK` |
| `EveryTryIsMade` | HelperProofs | `Spec => []CallsAreCounted` |
| `CountIsRight` | HelperProofs | `Spec => []ReportIsTrue` |
| `FoldedIdsAreFound` | HelperProofs | `MessageSpec => []FindsTheId` |
| `WholeMessagesAgree` | HelperProofs | `MessageSpec => []WholeMessageAgrees` |

`FolderSyncProofs` begins with what each call of ImapClient preserves and what each
outcome implies; the proofs above cite it and do not open the calls again unless they
have to.

The arguments:

- `TypeInv` strengthens TypeOK: no plan before the listing, a message to work on
  throughout the transfer (`Uid` is a CHOOSE), and only parsed Message-Ids in `src_mids`.
- `CountInv`: counted messages plus those left are the listed ones. It needs that the
  skipped ones of the plan are exactly those not in `to_copy`.
- `CopyInv`: `acked` has one pair for each message counted as copied, none for a
  message still to come, and before the transfer the destination is `base`.
- `TwiceInv`: the copies of the message in hand number at most the tries made
  (`Tried`), and there are only two.
- `IndexInv`: as long as no probe was cut short (`AllProbed`) and **while the source session
  has a mailbox selected**, no UID of the plan that is still on the source has an
  indexed Message-Id. A reconnect makes the second premise
  false, and it never becomes true again in that pass: this is why the repeated probe
  with an empty answer does no harm. A late answer is one of the plan.
- `FaithInv`: an answer can be late only if a failure was counted or the FETCH it
  belongs to is about to be repeated over a new session.
- `DryInv`: a dry run never reaches an append.
- `PassInv`, their conjunction, carries the refinement: each action maps to an abstract
  one or to a stutter, and the copy an unanswered APPEND may leave maps to `Stray`.

- `DeliverInv`: what has left the plan of a run without failures was indexed, too big or
  sent. With `IdInv` (an indexed Message-Id belongs to a message that is on the
  destination still, or was flagged `\Deleted`) and `CopyInv` it gives `CleanRunDelivers`.
- `Sizes` bounds `to_copy`, `unprobed` and `src_uids` by the UIDs, and `Places` says which of
  them is in use at which call. A step then either goes on to a later call, or to the
  reconnect and the second try of the same one, or takes a message or a chunk from its
  set: `StepsLeft` falls. As a step is always possible until the pass has ended
  (deadlock is checked), this and fairness are why `FolderEnds` holds.
- `OriginInv`: what is fetched was listed by this run (EXAMINE drops what an earlier folder
  left on the session), is not too big, and if empty is noted in `blanks`. `PlacedInv`:
  after a clean real run each listed message that can be recognised has a copy of its
  Message-Id on the destination, and once the next run has indexed all that is stored
  (`AllIndexed`), that Message-Id is in its index. With `IndexedNeverAppended` this gives `RerunsRecognise`.
- `PredictInv`: without failures, empty bodies and probes cut short, what was copied or would be are
  exactly the messages dealt with that are not too big and not indexed (`Missing`).
  `SeenInv` and `ForecastInv` carry the Message-Ids a dry run indexed over to the index of
  the run after it, so that both count the same set.
- Migration: `EarlyInv` (before the first folder the mailboxes are as they were, and the
  codes 2 to 5 come from there alone); `PassInv` and `ReportInv` (the folder in hand has
  counted what has left its plan; the folders reported and those still queued are the
  selected ones and disjoint; a line without a failure adds up). The totals need no
  induction over the report, because `total_failed() > 0` is `AnyFailed`. For the summary,
  the copies a folder gained are numbered (`Gained`), so that a copy more is an element more
  of a set and not a step of a sum: `HandInv` covers the count of the folder in hand,
  `LinesInv` the lines of the report, of which there is one for each folder, and
  `SummaryInv` says that the summary comes after the last of them.
- OAuth, `FitInv`: every token in the keyring or in hand, and every access token, is of a
  grant the user gave, and a code is taken only out of a request of this run. `StoreInv`: while nothing has
  gone wrong, the entry of a side that is resolved, or was in the run before, holds a live
  token of its server. That breaks for one moment, between a rotating server's answer
  and `set_password`; then the token in hand is as good (`InHand`). Two sides that share an
  entry and a server keep it good for each other; `Collide` is exactly the other case.
- OAuth as Migration: Migration sees of a state its stage and its exit code
  (`Seen`), so each action is a stutter, a step to the next stage or an exit.
- Retry, `CallInv`: before a call as many were made as the attempt says, after it one more,
  and a failure is returned only at the last attempt.

- `parse_message_id`: a message never changes, so what has to be proved is a statement about
  data of any length. The library's induction theorems take an operator, which the provers
  cannot instantiate; `Induction` and `SeqInduction` take the *set* of numbers, or
  sequences, that have the property, and follow from well-foundedness of the naturals.
  - One field (`Joined`): a continuation loses some of its white space and gains a blank, so
    the line the parser has joined is not the text. Before the identifier it is white
    space and brackets such that all brackets stand together (`Pads`), and has a bracket
    only if the text has one by then; from the identifier on it has all of the identifier,
    unbroken (a field is cut at white space, of which it has none), and the same kind of
    padding after it. Every continuation keeps this (`JoinedNext`). The second half is
    needed: a blank between two brackets would stop `trim_matches` half-way.
  - The value (`ValueOfShape`): after the two trims and the bracket trim between them
    exactly the identifier is left, and nothing where there is none.
  - A header (`HeaderRead`): each field becomes one line (`UnfoldedField`), and the first
    line with a value is the first field with an identifier (`FirstGrows`, of both).
  - A whole message (`Settled`): once the lines before the last have the identifier, no line
    that follows changes it. A field after the identified one settles the header; if there
    is none, the first body line that is not empty does, unless it begins with white
    space, which is the exception in the formula.

Only model-checked: the liveness properties (`FolderEnds`, `Resumes`, `EveryFolderHasItsTurn`,
`FlowEnds`, `Recovers`, `Returns`), as the prover has no fairness. Every safety invariant and action
property that a passing run checks is proved, but those of the runs that expect a violation.

## 5. Not modelled

- Of the configuration: ports, TLS mode, patterns, limits and output options. They are
  independent values, copied once; the other modules take them as constants. clap's
  parsing is external.
- Of OAuth2: scopes, the client secret, the text of the URLs, PKCE beyond "this run's
  request".
- Of Message-Ids: comments, and white space inside an identifier.
- TLS and the certificate verifier: a constant handed to rustls; its outcome is that
  connecting fails.
- Progress bars, logs, wording, byte counts: output that nothing reads.
- INTERNALDATE and flags of appended messages, apart from `\Deleted`.

## 6. Where documents and code disagree

Each of these runs is expected to find a violation; `findings` in `PROJECT.json` quotes
the document and the lines.

| Run | Property | |
|---|---|---|
| `refetch` | `RetriedFetchIsSelected` | the FETCH repeated after a reconnect runs with no mailbox selected, so the retry `sync.rs:223` announces cannot succeed, nor any later FETCH of the folder |
| `own_body` | `OwnBodyIsAppended` | after a timeout and a failed reconnect the body of one UID is appended and counted for another |
| `second_run` | `SecondRunCopiesNothing` | a second run copies messages without a Message-Id again (SPEC.md:286) |
| `skipped` | `SkippedIsOnDestination` | a message is skipped as the duplicate of one that the program's own CLOSE has just expunged |
| `twins` | `TwinsHeldBack` | two source messages with one Message-Id are both copied: the plan is made before `dst_ids` gains the first (SPEC.md:136) |
| `refused` | `CleanFolderIsSynced` | a refused UID SEARCH reads as an empty folder; the pass ends clean (SPEC.md:153). A refused probe or index has messages copied a second time in the same way |
| `browser` | `SubsequentRunsSkipBrowser` | as built (Cargo.toml:33) the keyring is the mock store, and every run opens the browser (README.md:74-75, docs/OAUTH2.md:24-26) |

Also found, and without a run: the actions named show it, and no property says otherwise.

- SPEC.md:98 has `--dry-run` write nothing. A dry run creates missing folders on the
  destination, and its SELECT and CLOSE expunge what is flagged `\Deleted`
  (`CreateFolder`, `Close`; `DryRunAddsNothing` is what does hold).
- SPEC.md:153-154. A LOGOUT that fails after a complete migration makes the process exit with 1
  and drops the summary (sync.rs:406-407; `LogoutSrc`, `LogoutDst`).
- LIST is read as SEARCH is: folders after a NO are not seen, and exit code 0 is about the
  folders that LIST returned (`wanted` in Migration).
- SPEC.md:155 gives code 2 to configuration errors. An unknown provider, or a custom one
  without its URLs, is found by `resolve_auth`, for the destination after the source's
  browser flow, and exits with 1, as does a bad glob (`ResolveOAuth`, `ExitCode`).
- SPEC.md:147 promises retries with back-off for a lost connection: sync.rs retries once
  and at once, and a connection lost while a folder is prepared fails this folder and
  those after it. SPEC.md:148 has a persistent authentication failure abort the run: a
  failed login of a reconnect fails one message at a time.
- SPEC.md:99 promises a timeout for each IMAP operation: only FETCH of a message, the probes
  and APPEND have one (`hung` in FolderSync).
- The page that says "Authentication successful!" (oauth.rs:205) is sent before the code and
  the state are looked at.

## 7. Plan

Done: every module of section 2, its run and the theorems of section 4. Left, in this order:

1. **Expired tokens**: the access token of OAuth ends during the run, so that `reconnect`
   (imap_client.rs:83-97) fails for ever after; a composition of OAuth's `creds` with
   the sessions of ImapClient.
