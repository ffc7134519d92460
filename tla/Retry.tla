------------------------------- MODULE Retry -------------------------------
(***************************************************************************)
(* retry::with_retry: an operation called again after an error, with a     *)
(* growing pause, or after a timeout, without one.  The library exports it *)
(* and tests it; the program itself does not call it.                      *)
(*                                                                         *)
(* An operator that no action uses is the one defined after it with a      *)
(* plausible mistake in it.                                                *)
(***************************************************************************)
EXTENDS Naturals

CONSTANTS
  MaxU32, \* the largest attempt counter; 2^32 - 1 in the code
  Limits  \* values of `retries' considered

ASSUME RetryAssumption == MaxU32 \in Nat /\ Limits \subseteq 0..MaxU32

VARIABLES
  build,    \* the profile: "debug" checks for overflow, "release" wraps
  retries,
  attempt,
  pc,
  pause,    \* seconds to sleep
  reported, \* number of attempts the timeout error speaks of
  calls     \* history: how often the operation was started

vars == <<build, retries, attempt, pc, pause, reported, calls>>

Returned == {"ok", "error", "timed_out", "panicked"}

\* 1u64 << attempt.min(6)
Uncapped(n) == 2 ^ n
Backoff(n) == 2 ^ (IF n < 6 THEN n ELSE 6)

TypeOK ==
  /\ build \in {"debug", "release"}
  /\ retries \in Limits
  /\ attempt \in 0..retries
  /\ pc \in {"call", "await", "sleep"} \cup Returned
  /\ pause \in {0} \cup {2 ^ i : i \in 0..6}
  /\ reported \in 0..MaxU32
  /\ calls \in Nat

Init ==
  /\ build \in {"debug", "release"}
  /\ retries \in Limits
  /\ attempt = 0
  /\ pc = "call"
  /\ pause = 0
  /\ reported = 0
  /\ calls = 0

GivesUpLate == attempt > retries
GivesUp == attempt >= retries

Call ==
  /\ pc = "call"
  /\ pc' = "await"
  /\ calls' = calls + 1
  /\ UNCHANGED <<build, retries, attempt, pause, reported>>

Succeed ==
  /\ pc = "await"
  /\ pc' = "ok"
  /\ UNCHANGED <<build, retries, attempt, pause, reported, calls>>

Fail ==
  /\ pc = "await"
  /\ IF GivesUp
     THEN pc' = "error" /\ UNCHANGED pause
     ELSE pc' = "sleep" /\ pause' = Backoff(attempt)
  /\ UNCHANGED <<build, retries, attempt, reported, calls>>

Wake ==
  /\ pc = "sleep"
  /\ pc' = "call"
  /\ pause' = 0
  /\ attempt' = attempt + 1
  /\ UNCHANGED <<build, retries, reported, calls>>

\* `retries + 1' in the text of the error overflows at the largest limit.
LastAttempt == retries
Attempts == (retries + 1) % (MaxU32 + 1)

NoTimeOut == FALSE
TimeOut ==
  /\ pc = "await"
  /\ \/ /\ ~ GivesUp
        /\ pc' = "call"
        /\ attempt' = attempt + 1
        /\ UNCHANGED reported
     \/ /\ GivesUp
        /\ IF build = "debug" /\ retries = MaxU32
           THEN pc' = "panicked" /\ UNCHANGED reported
           ELSE pc' = "timed_out" /\ reported' = Attempts
        /\ UNCHANGED attempt
  /\ UNCHANGED <<build, retries, pause, calls>>

Over == pc \in Returned /\ UNCHANGED vars

Step == Call \/ Wake \/ TimeOut
Answer == Succeed \/ Fail
Next == Step \/ Answer \/ Over

Spec == Init /\ [][Next]_vars

-----------------------------------------------------------------------------

\* `retries + 1' calls at most, and no failure is returned before the last of
\* them, whatever the order of errors and timeouts.  (The two tests of
\* `attempt >= retries' and the two increments of with_retry.)
CallsAreCounted ==
  /\ calls <= retries + 1
  /\ pc \in Returned \ {"ok"} => calls = retries + 1

\* The error of a timeout names the number of calls made.  At the largest
\* limit a debug build panics over the text, and a release build says 0.
ReportIsTrue ==
  /\ pc = "timed_out" =>
       \/ reported = calls
       \/ build = "release" /\ retries = MaxU32 /\ reported = 0
  /\ pc = "panicked" => build = "debug" /\ retries = MaxU32

\* The helper returns, even if no call ever does.
Returns == <>(pc \in Returned)
=============================================================================
