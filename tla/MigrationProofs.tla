-------------------------- MODULE MigrationProofs ---------------------------
(***************************************************************************)
(* Theorems about Migration, for any mailboxes, messages and order of      *)
(* LIST, whatever stage fails and whenever the process is killed.          *)
(***************************************************************************)
EXTENDS Migration, FiniteSetTheorems, SequenceTheorems, TLAPS

(***************************************************************************)
(* The orders of a finite set.                                             *)
(***************************************************************************)
LEMMA OrderOf ==
  ASSUME NEW S, IsFiniteSet(S), NEW q \in SetToSeqs(S)
  PROVE  q \in Seq(S) /\ IsInjective(q) /\ ToSet(q) = S
<1> DEFINE n == Cardinality(S)
<1>1. n \in Nat
  BY FS_CardinalityType
<1>2. q \in [1..n -> S] /\ \A i, j \in 1..n : i # j => q[i] # q[j]
  BY DEF SetToSeqs
<1>3. q \in Seq(S) /\ IsInjective(q)
  BY <1>1, <1>2 DEF IsInjective
<1>4. ASSUME NEW x \in S PROVE \E i \in 1..n : q[i] = x
  <2> SUFFICES ASSUME \A i \in 1..n : q[i] # x PROVE FALSE
    OBVIOUS
  <2> DEFINE R == S \ {x}
  <2>1. IsFiniteSet(R) /\ Cardinality(R) = n - 1
    BY FS_RemoveElement
  <2>2. IsFiniteSet(1..n) /\ Cardinality(1..n) = n
    BY <1>1, FS_Interval
  <2>3. q \in [1..n -> R]
    BY <1>2
  <2>4. Cardinality(R) < Cardinality(1..n)
    BY <1>1, <2>1, <2>2
  <2> HIDE DEF R, n
  <2>5. \E i, j \in 1..n : i # j /\ q[i] = q[j]
    BY <2>1, <2>2, <2>3, <2>4, FS_PigeonHole
  <2> QED BY <1>2, <2>5
<1>5. ToSet(q) = S
  BY <1>2, <1>4 DEF ToSet
<1> QED BY <1>3, <1>5

LEMMA TailOf ==
  ASSUME NEW S, NEW q \in Seq(S), IsInjective(q), q # <<>>
  PROVE  /\ Head(q) \in S
         /\ Tail(q) \in Seq(S) /\ IsInjective(Tail(q))
         /\ ToSet(q) = {Head(q)} \cup ToSet(Tail(q))
         /\ Head(q) \notin ToSet(Tail(q))
<1>1. /\ Head(q) \in S /\ Tail(q) \in Seq(S)
      /\ Len(q) \in Nat \ {0} /\ DOMAIN q = 1..Len(q)
      /\ DOMAIN Tail(q) = 1..(Len(q) - 1)
      /\ \A i \in 1..(Len(q) - 1) : Tail(q)[i] = q[i + 1]
      /\ Head(q) = q[1]
  BY HeadTailProperties, LenProperties, EmptySeq
<1>2. \A i, j \in 1..Len(q) : q[i] = q[j] => i = j
  BY <1>1 DEF IsInjective
<1>3. IsInjective(Tail(q))
  BY <1>1, <1>2 DEF IsInjective
<1>4. Head(q) \notin ToSet(Tail(q))
  BY <1>1, <1>2 DEF ToSet
<1>5. ToSet(q) \subseteq {Head(q)} \cup ToSet(Tail(q))
  <2>1. ASSUME NEW i \in 1..Len(q), i # 1
        PROVE  \E j \in 1..(Len(q) - 1) : Tail(q)[j] = q[i]
    <3>0. Len(q) \in Nat
      BY <1>1
    <3>1. i - 1 \in 1..(Len(q) - 1)
      BY ONLY <3>0, <2>1
    <3>2. Tail(q)[i - 1] = q[(i - 1) + 1] /\ (i - 1) + 1 = i
      BY <1>1, <3>1
    <3> QED BY <3>1, <3>2
  <2>2. \A x \in ToSet(q) : \E i \in 1..Len(q) : x = q[i]
    BY <1>1 DEF ToSet
  <2>3. \A j \in 1..(Len(q) - 1) : Tail(q)[j] \in ToSet(Tail(q))
    BY <1>1 DEF ToSet
  <2> QED BY <1>1, <2>1, <2>2, <2>3
<1>6. {Head(q)} \cup ToSet(Tail(q)) \subseteq ToSet(q)
  BY <1>1 DEF ToSet
<1> QED BY <1>1, <1>3, <1>4, <1>5, <1>6

LEMMA Appended ==
  ASSUME NEW S, NEW s \in Seq(S), NEW e \in S
  PROVE  /\ Append(s, e) \in Seq(S)
         /\ DOMAIN Append(s, e) = DOMAIN s \cup {Len(s) + 1}
         /\ \A i \in DOMAIN s : i # Len(s) + 1 /\ Append(s, e)[i] = s[i]
         /\ Append(s, e)[Len(s) + 1] = e
BY LenProperties

LEMMA SameCardinality ==
  \A S : Pass!Cardinality(S) = Cardinality(S)
BY DEF Pass!Cardinality, Cardinality

(***************************************************************************)
(* Types.  A pass is under way only among the folders, and then there is a *)
(* folder in hand.                                                         *)
(***************************************************************************)
TypeInv ==
  /\ TypeOK
  /\ phase # "idle" => stage \in {"folders", "stopped"} /\ queue # <<>>

Counts == [Fields -> Nat]

LEMMA ZeroType ==
  /\ Pass!Zero \in Counts
  /\ [Pass!Zero EXCEPT !.failed = 1] \in Counts
  /\ [Pass!Zero EXCEPT !.failed = 1].failed = 1
  /\ Pass!Zero.failed = 0
BY DEF Pass!Zero, Counts, Fields

LEMMA TypeInit == Init => TypeInv
<1> SUFFICES ASSUME Init PROVE TypeInv
  OBVIOUS
<1>1. queue \in Seq(wanted) /\ IsInjective(queue)
  BY EmptySeq DEF Init, IsInjective
<1>2. report \in Seq([folder : wanted, count : [Fields -> Nat]])
  BY EmptySeq DEF Init
<1>3. boxes \in [Mailboxes -> [Bodies -> Nat]]
  BY DEF Init
<1>4. stats \in [Fields -> Nat]
  BY ZeroType DEF Init, Counts
<1>5. box \in [Bodies -> Nat] /\ exit \in 0..5
  BY DEF Init, NoBox
<1>6. phase = "idle" /\ stage \in Working
  BY DEF Init, Working
<1> QED
  BY <1>1, <1>2, <1>3, <1>4, <1>5, <1>6 DEF Init, TypeInv, TypeOK

\* Leaving a stage, for the next one or for good.
LEMMA TypeStage ==
  ASSUME TypeInv, phase = "idle",
         NEW next \in Working \cup {"exited", "stopped"},
         stage' = next, exit' \in 0..5, summary' \in BOOLEAN,
         UNCHANGED <<dry_run, queue, report, boxes, pass_vars, history>>
  PROVE  TypeInv'
BY DEF TypeInv, TypeOK, pass_vars, history

LEMMA ExitCodes ==
  /\ \A error : ExitCode(error) \in {1, 3, 4, 5}
  /\ \A error \in {"Config", "OAuth", "Imap"} : ExitCode(error) = 1
BY DEF ExitCode

LEMMA TypeStages ==
  ASSUME TypeInv,
         \/ Configure \/ ResolveSrc \/ ResolveDst \/ ConnectSrc
         \/ ConnectDst \/ BuildGlobs \/ LastFolder \/ LogoutSrc
         \/ LogoutDst
  PROVE  TypeInv'
<1>1. phase = "idle" /\ exit \in 0..5 /\ summary \in BOOLEAN
  BY DEF TypeInv, TypeOK, Configure, ResolveSrc, ResolveDst, Resolve,
         ConnectSrc, ConnectDst, Connect, BuildGlobs, LastFolder, LogoutSrc,
         LogoutDst
<1>2. ASSUME NEW error, Abort(error) PROVE TypeInv'
  BY <1>1, <1>2, TypeStage, ExitCodes DEF Abort
<1>3. ASSUME NEW next \in Working, GoTo(next) PROVE TypeInv'
  BY <1>1, <1>3, TypeStage DEF GoTo
<1>4. CASE Configure \/ LogoutDst
  <2>1. CASE /\ stage' = "exited" /\ exit' \in {0, 1, 2}
             /\ summary' \in BOOLEAN
             /\ UNCHANGED <<dry_run, queue, report, boxes, pass_vars, history>>
    BY <1>1, <2>1, TypeStage
  <2> QED
    BY <1>1, <1>2, <1>3, <1>4, <2>1 DEF Configure, LogoutDst, Working
<1>5. CASE ~(Configure \/ LogoutDst)
  BY <1>2, <1>3, <1>5
     DEF ResolveSrc, ResolveDst, Resolve, ConnectSrc, ConnectDst, Connect,
         BuildGlobs, LastFolder, LogoutSrc, Working
<1> QED BY <1>4, <1>5

LEMMA Chosen ==
  ASSUME NEW all \in SUBSET Mailboxes, NEW noselect, NEW include, NEW exclude
  PROVE  /\ Selected(all, noselect, include, exclude) =
              {f \in all : f \notin noselect /\ f \in include
                          /\ f \notin exclude}
         /\ IsFiniteSet(Selected(all, noselect, include, exclude))
<1>1. Selected(all, noselect, include, exclude) \in SUBSET Mailboxes
  BY DEF Selected
<1> QED BY <1>1, FS_Subset, MigrationAssumption DEF Selected

LEMMA Listing ==
  ASSUME TypeInv, List, ~Abort("Imap")
  PROVE  /\ stage = "list" /\ stage' = "folders"
         /\ wanted' \in SUBSET Mailboxes
         /\ queue' \in Seq(wanted') /\ IsInjective(queue')
         /\ ToSet(queue') = wanted'
         /\ UNCHANGED <<dry_run, report, summary, exit, boxes, pass_vars,
                        found, before, base>>
<1>1. PICK all, noselect, include, exclude \in SUBSET Mailboxes :
        /\ stage' = "folders"
        /\ queue' \in SetToSeqs(Selected(all, noselect, include, exclude))
        /\ wanted' = {f \in all : f \notin noselect /\ f \in include
                                 /\ f \notin exclude}
        /\ UNCHANGED <<dry_run, report, summary, exit, boxes, pass_vars,
                       found, before, base>>
  BY DEF List
<1>2. /\ Selected(all, noselect, include, exclude) = wanted'
      /\ IsFiniteSet(wanted')
  BY <1>1, Chosen
<1>3. wanted' \in SUBSET Mailboxes
  BY <1>1
<1> QED BY <1>1, <1>2, <1>3, OrderOf DEF List

LEMMA ReportGrows ==
  ASSUME NEW W, NEW V, W \subseteq V,
         NEW r \in Seq([folder : W, count : Counts])
  PROVE  r \in Seq([folder : V, count : Counts])
<1>1. [folder : W, count : Counts] \subseteq [folder : V, count : Counts]
  OBVIOUS
<1> QED BY <1>1, SeqMonotonic

LEMMA TypeList ==
  ASSUME TypeInv, List, report = <<>>
  PROVE  TypeInv'
<1>1. CASE Abort("Imap")
  <2>1. phase = "idle" /\ exit' \in 0..5
    BY <1>1, ExitCodes DEF Abort, TypeInv, List
  <2> QED BY <1>1, <2>1, TypeStage DEF Abort, TypeInv, TypeOK
<1>2. CASE ~Abort("Imap")
  <2>1. phase = "idle"
    BY <1>2, Listing DEF TypeInv
  <2>2. report' \in Seq([folder : wanted', count : [Fields -> Nat]])
    BY <1>2, Listing, EmptySeq
  <2> QED
    BY <1>2, <2>1, <2>2, Listing DEF TypeInv, TypeOK, pass_vars, Working
<1> QED BY <1>1, <1>2

LEMMA GainType ==
  ASSUME box \in [Bodies -> Nat], Pass!Gains
  PROVE  box' \in [Bodies -> Nat]
BY DEF Pass!Gains

\* A step of the pass keeps the types of what it works on.
LEMMA TypeWork ==
  ASSUME TypeInv, phase # "idle", Pass!Work
  PROVE  /\ phase' \in {"preparing", "copying"} \cup Pass!Over
         /\ dry_run' = dry_run
         /\ listed' \in SUBSET Uids /\ left' \in SUBSET listed'
         /\ stats' \in Counts
         /\ box' \in [Bodies -> Nat]
         /\ strayed' \in BOOLEAN
<1> USE DEF TypeInv, TypeOK, Counts, Pass!Over
<1>1. ASSUME Pass!Gains PROVE box' \in [Bodies -> Nat]
  BY <1>1, GainType
<1>2. ASSUME NEW u, NEW field \in Fields, Pass!Count(u, field)
      PROVE  /\ phase' \in {"done", "copying"} /\ dry_run' = dry_run
             /\ listed' = listed /\ left' \in SUBSET listed'
             /\ stats' \in Counts /\ strayed' \in BOOLEAN
  <2>1. stats \in [Fields -> Nat] /\ stats' = [stats EXCEPT ![field] = @ + 1]
    BY <1>2 DEF Pass!Count
  <2>2. stats' \in Counts
    BY ONLY <2>1 DEF Counts
  <2> QED BY <1>2, <2>2 DEF Pass!Count
<1>3. CASE Pass!Prepare
  BY <1>3 DEF Pass!Prepare
<1>4. CASE Pass!Choose
  <2>1. listed' \ left' \in SUBSET Uids
    BY <1>4 DEF Pass!Choose
  <2>2. Pass!Cardinality(listed' \ left') \in Nat
    BY <2>1, SameCardinality, FS_Subset, FS_CardinalityType,
       MigrationAssumption
  <2> QED BY <1>4, <2>2 DEF Pass!Choose, Fields
<1>5. CASE Pass!Fail
  BY <1>5, ZeroType DEF Pass!Fail
<1>6. CASE Pass!Settled
  <2>1. PICK u \in left : Pass!Copy(u) \/ Pass!LeaveOut(u) \/ Pass!GiveUp(u)
    BY <1>6 DEF Pass!Settled
  <2>2. PICK field \in Fields : Pass!Count(u, field)
    BY <2>1 DEF Pass!Copy, Pass!LeaveOut, Pass!GiveUp, Fields
  <2>3. box' \in [Bodies -> Nat]
    BY <1>1, <2>1 DEF Pass!Copy, Pass!LeaveOut, Pass!GiveUp
  <2> QED BY <1>2, <2>2, <2>3
<1>7. CASE Pass!Stray
  BY <1>1, <1>7 DEF Pass!Stray
<1> QED
  BY <1>3, <1>4, <1>5, <1>6, <1>7 DEF Pass!Work

LEMMA TypeFolders ==
  ASSUME TypeInv, Enter \/ PassStep \/ Leave \/ Stop
  PROVE  TypeInv'
<1>1. CASE Enter
  <2>1. Head(queue) \in Mailboxes
    BY <1>1, HeadTailProperties DEF Enter, TypeInv, TypeOK
  <2> QED
    BY <1>1, <2>1 DEF Enter, TypeInv, TypeOK, history
<1>2. CASE PassStep
  <2>1. Head(queue) \in Mailboxes
    BY <1>2, HeadTailProperties DEF PassStep, TypeInv, TypeOK
  <2>2. /\ found' \in [Mailboxes -> SUBSET Uids]
        /\ base' \in [Mailboxes -> [Bodies -> Nat]]
    BY <1>2, <2>1, TypeWork DEF PassStep, TypeInv, TypeOK
  <2> QED
    BY <1>2, <2>2, TypeWork DEF PassStep, TypeInv, TypeOK, Counts
<1>3. CASE Leave
  <2>1. queue # <<>> /\ phase' = "idle"
    BY <1>3 DEF Leave, TypeInv
  <2>2. /\ queue' = Tail(queue)
        /\ UNCHANGED <<stage, dry_run, summary, exit, wanted, found, before,
                       base>>
    BY <1>3 DEF Leave, Remaining, history
  <2>3. /\ Head(queue) \in wanted
        /\ queue' \in Seq(wanted) /\ IsInjective(queue')
    BY <2>1, <2>2, TailOf DEF TypeInv, TypeOK
  <2>4. Result \in Counts
    BY ZeroType DEF Result, TypeInv, TypeOK, Counts
  <2>5. [folder |-> Head(queue), count |-> Result] \in
          [folder : wanted, count : Counts]
    BY <2>3, <2>4
  <2>6. report' \in Seq([folder : wanted, count : [Fields -> Nat]])
    BY <1>3, <2>5, Appended DEF Leave, TypeInv, TypeOK, Counts
  <2>7. boxes' \in [Mailboxes -> [Bodies -> Nat]] /\ box' \in [Bodies -> Nat]
    BY <1>3, <2>3 DEF Leave, TypeInv, TypeOK, NoBox
  <2>8. /\ listed' = {} /\ left' = {} /\ strayed' = FALSE
        /\ stats' \in [Fields -> Nat]
    BY <1>3, ZeroType DEF Leave, Counts
  <2> QED
    BY <2>1, <2>2, <2>3, <2>6, <2>7, <2>8 DEF TypeInv, TypeOK
<1>4. CASE Stop
  <2>1. /\ stage' = "stopped"
        /\ UNCHANGED <<queue, report, summary, exit, boxes, wanted, found,
                       before, base>>
    BY <1>4 DEF Stop, history
  <2>2. CASE UNCHANGED <<pass_vars, dry_run>>
    BY <2>1, <2>2 DEF TypeInv, TypeOK, pass_vars
  <2>3. CASE Pass!Stop
    <3>1. box' \in [Bodies -> Nat]
      BY <2>3, GainType DEF Pass!Stop, TypeInv, TypeOK
    <3>2. phase # "idle"
      BY <2>3 DEF Pass!Stop
    <3> QED
      BY <2>1, <2>3, <3>1, <3>2 DEF Pass!Stop, Pass!Over, TypeInv, TypeOK
  <2> QED BY <1>4, <2>2, <2>3 DEF Stop
<1> QED BY <1>1, <1>2, <1>3, <1>4

(***************************************************************************)
(* Where the codes come from.  Only errors before the first folder have    *)
(* codes of their own, and until then the destination is untouched.        *)
(***************************************************************************)
Early ==
  {"config", "resolve_src", "resolve_dst", "connect_src", "connect_dst",
   "globs", "list"}

EarlyInv ==
  /\ stage \in Early => report = <<>> /\ boxes = before
  /\ exit # 0 => stage = "exited"
  /\ stage = "exited" /\ exit \in 2..5 => boxes = before

\* The steps that are no step of a folder: how each can move the stage.
LEMMA StageStep ==
  ASSUME \/ Configure \/ ResolveSrc \/ ResolveDst \/ ConnectSrc
         \/ ConnectDst \/ BuildGlobs \/ LastFolder \/ LogoutSrc
         \/ LogoutDst
  PROVE  /\ UNCHANGED <<dry_run, queue, report, boxes, pass_vars, history>>
         /\ \/ /\ stage \in Early /\ stage' \in Early /\ exit' = exit
            \/ /\ stage \in Early /\ stage' = "exited"
               /\ exit' \in {1, 2, 3, 4, 5}
            \/ /\ stage = "folders" /\ phase = "idle" /\ queue = <<>>
               /\ stage' = "logout_src" /\ exit' = exit
            \/ /\ stage = "logout_src" /\ stage' = "logout_dst"
               /\ exit' = exit
            \/ /\ stage \in {"logout_src", "logout_dst"}
               /\ stage' = "exited" /\ exit' = 1
            \/ /\ stage = "logout_dst" /\ stage' = "exited"
               /\ exit' = IF AnyFailed THEN 1 ELSE 0
<1> USE ExitCodes DEF Early, GoTo, Abort
<1>1. CASE Configure
  BY <1>1 DEF Configure
<1>2. CASE ResolveSrc \/ ResolveDst
  BY <1>2 DEF ResolveSrc, ResolveDst, Resolve
<1>3. CASE ConnectSrc \/ ConnectDst
  BY <1>3 DEF ConnectSrc, ConnectDst, Connect
<1>4. CASE BuildGlobs \/ LastFolder
  BY <1>4 DEF BuildGlobs, LastFolder
<1>5. CASE LogoutSrc \/ LogoutDst
  BY <1>5 DEF LogoutSrc, LogoutDst
<1> QED BY <1>1, <1>2, <1>3, <1>4, <1>5

LEMMA TypeNext == TypeInv /\ EarlyInv /\ [Next]_vars => TypeInv'
<1> SUFFICES ASSUME TypeInv, EarlyInv, [Next]_vars PROVE TypeInv'
  OBVIOUS
<1>1. CASE List
  BY <1>1, TypeList DEF EarlyInv, Early, List
<1>2. CASE UNCHANGED vars
  BY <1>2 DEF vars, pass_vars, history, TypeInv, TypeOK
<1> QED
  BY <1>1, <1>2, TypeStages, TypeFolders DEF Next, Step, Over

LEMMA EarlyNext == TypeInv /\ EarlyInv /\ [Next]_vars => EarlyInv'
<1> SUFFICES ASSUME TypeInv, EarlyInv, [Next]_vars PROVE EarlyInv'
  OBVIOUS
<1>1. CASE \/ Configure \/ ResolveSrc \/ ResolveDst \/ ConnectSrc
           \/ ConnectDst \/ BuildGlobs \/ LastFolder \/ LogoutSrc
           \/ LogoutDst
  BY <1>1, StageStep DEF EarlyInv, Early, history
<1>2. CASE List
  <2>1. CASE Abort("Imap")
    BY <1>2, <2>1, ExitCodes DEF List, Abort, EarlyInv, Early, history
  <2>2. CASE ~Abort("Imap")
    BY <1>2, <2>2, Listing DEF EarlyInv, Early
  <2> QED BY <2>1, <2>2
<1>3. CASE Enter \/ PassStep \/ Leave
  BY <1>3 DEF Enter, PassStep, Leave, EarlyInv, Early
<1>4. CASE Stop
  BY <1>4 DEF Stop, EarlyInv, Early, Working
<1>5. CASE UNCHANGED vars
  BY <1>5 DEF vars, history, EarlyInv
<1> QED
  BY <1>1, <1>2, <1>3, <1>4, <1>5 DEF Next, Step, Over

LEMMA Types == Spec => [](TypeInv /\ EarlyInv)
<1>1. Init => TypeInv /\ EarlyInv
  BY TypeInit DEF Init, EarlyInv
<1>2. TypeInv /\ EarlyInv /\ [Next]_vars => (TypeInv /\ EarlyInv)'
  BY TypeNext, EarlyNext
<1> QED BY <1>1, <1>2, PTL DEF Spec

\* The state stays within its types; that needs the filters to let only
\* wanted folders into the queue and each of them once.
THEOREM TypeCorrect == Spec => []TypeOK
<1>1. TypeInv => TypeOK
  BY DEF TypeInv
<1> QED BY <1>1, Types, PTL

\* Whoever sees one of the codes 2 to 5 may start over: the destination is
\* as it was.
THEOREM EarlyExitsAreHarmless == Spec => []EarlyExitWroteNothing
<1>1. TypeInv /\ EarlyInv => EarlyExitWroteNothing
  BY DEF TypeInv, EarlyInv, EarlyExitWroteNothing, Box
<1> QED BY <1>1, Types, PTL

(***************************************************************************)
(* Completeness.  Each wanted folder is in the queue or in the report and  *)
(* never in both; an entry without failures counts what its folder listed, *)
(* and so does the pass in hand.                                           *)
(***************************************************************************)
Handled == stats.copied + stats.skipped + stats.failed + stats.would_copy

Reported == {report[i].folder : i \in DOMAIN report}

SoundEntry(e, seen) ==
  e.count.failed = 0 =>
    e.count.copied + e.count.skipped + e.count.would_copy =
      Cardinality(seen[e.folder])

PassInv ==
  /\ phase \in {"idle", "preparing"} => stats = Pass!Zero
  /\ phase \in {"copying", "done"} =>
       /\ found[Head(queue)] = listed
       /\ Handled + Cardinality(left) = Cardinality(listed)
  /\ phase = "done" => left = {}

ReportInv ==
  /\ stage \in {"folders", "logout_src", "logout_dst"} \/
     (stage = "exited" /\ exit = 0) => wanted = ToSet(queue) \cup Reported
  /\ ToSet(queue) \cap Reported = {}
  /\ \A i \in DOMAIN report : SoundEntry(report[i], found)
  /\ stage \in {"logout_src", "logout_dst"} => queue = <<>>
  /\ stage = "exited" /\ exit = 0 => queue = <<>> /\ ~AnyFailed
  /\ stage \in Early => queue = <<>>

LEMMA EntryType ==
  ASSUME TypeInv, NEW i \in DOMAIN report
  PROVE  report[i] \in [folder : wanted, count : Counts]
<1>1. report \in Seq([folder : wanted, count : Counts])
  BY DEF TypeInv, TypeOK, Counts
<1> QED BY <1>1, ElementOfSeq, LenProperties

LEMMA CardinalityDifference ==
  ASSUME NEW S \in SUBSET Uids, NEW T \in SUBSET S
  PROVE  /\ Cardinality(S \ T) + Cardinality(T) = Cardinality(S)
         /\ Cardinality(S \ T) \in Nat /\ Cardinality(T) \in Nat
         /\ Cardinality(S) \in Nat
<1> DEFINE R == S \ T
<1>1. R \cup T = S /\ R \cap T = {}
  OBVIOUS
<1>2. IsFiniteSet(S) /\ IsFiniteSet(R) /\ IsFiniteSet(T)
  BY FS_Subset, MigrationAssumption
<1>3. /\ Cardinality(R) \in Nat /\ Cardinality(T) \in Nat
      /\ Cardinality(S) \in Nat
  BY <1>2, FS_CardinalityType
<1> HIDE DEF R
<1>4. Cardinality(R \cup T) =
        Cardinality(R) + Cardinality(T) - Cardinality(R \cap T)
  BY <1>2, FS_Union
<1>5. Cardinality(R \cap T) = 0 /\ Cardinality(R \cup T) = Cardinality(S)
  BY <1>1, FS_EmptySet
<1>6. Cardinality(R) + Cardinality(T) = Cardinality(S)
  BY ONLY <1>3, <1>4, <1>5
<1> QED BY <1>3, <1>6 DEF R

\* What a step of the pass does to the count of the folder in hand.
LEMMA WorkCounts ==
  ASSUME TypeInv, PassInv, PassStep
  PROVE  PassInv'
<1> USE DEF TypeInv, TypeOK, Pass!Over
<1>1. /\ queue' = queue /\ queue # <<>> /\ Head(queue) \in Mailboxes
      /\ found' = [found EXCEPT ![Head(queue)] = listed']
  BY HeadTailProperties DEF PassStep
<1>2. found'[Head(queue')] = listed'
  BY <1>1
<1>3. CASE Pass!Prepare \/ Pass!Fail
  BY <1>3 DEF Pass!Prepare, Pass!Fail, PassInv
<1>4. CASE Pass!Choose
  <2>1. listed' \in SUBSET Uids /\ left' \in SUBSET listed'
    BY <1>4 DEF Pass!Choose
  <2>2. stats = Pass!Zero /\ phase = "preparing"
    BY <1>4 DEF Pass!Choose, PassInv
  <2>3. Handled' = Cardinality(listed' \ left')
    <3> DEFINE c == Cardinality(listed' \ left')
    <3>1. c \in Nat
      BY <2>1, CardinalityDifference
    <3>2. stats' = [Pass!Zero EXCEPT !.skipped = c]
      BY <1>4, <2>2, SameCardinality DEF Pass!Choose
    <3> HIDE DEF c
    <3>3. Handled' = c
      BY ONLY <3>1, <3>2 DEF Pass!Zero, Handled
    <3> QED BY <3>3 DEF c
  <2>4. Handled' + Cardinality(left') = Cardinality(listed')
    BY <2>1, <2>3, CardinalityDifference
  <2> QED BY <1>2, <1>4, <2>4 DEF Pass!Choose, PassInv
<1>5. CASE Pass!Settled
  <2>1. PICK u \in left, field \in Fields : Pass!Count(u, field)
    BY <1>5
       DEF Pass!Settled, Pass!Copy, Pass!LeaveOut, Pass!GiveUp, Fields
  <2>2. /\ left' = left \ {u} /\ listed' = listed
        /\ phase' \in {"done", "copying"}
        /\ phase' = "done" => left' = {}
    BY <2>1 DEF Pass!Count
  <2>3. Handled' = Handled + 1 /\ Handled \in Nat
    <3>1. stats' = [stats EXCEPT ![field] = @ + 1]
      BY <2>1 DEF Pass!Count
    <3> QED BY <3>1 DEF Handled, Fields
  <2>4. IsFiniteSet(left) /\ Cardinality(left) \in Nat
    BY FS_Subset, FS_CardinalityType, MigrationAssumption
  <2>5. Cardinality(left') = Cardinality(left) - 1
    BY <2>2, <2>4, FS_RemoveElement
  <2>6. Handled + Cardinality(left) = Cardinality(listed)
    BY <1>5 DEF Pass!Settled, PassInv
  <2>7. Handled' + Cardinality(left') = Cardinality(listed')
    BY <2>2, <2>3, <2>4, <2>5, <2>6
  <2> QED BY <1>2, <2>2, <2>7 DEF PassInv
<1>6. CASE Pass!Stray
  <2>1. UNCHANGED <<phase, listed, left, stats>> /\ phase = "copying"
    BY <1>6 DEF Pass!Stray
  <2> QED BY <1>2, <2>1 DEF PassInv, Handled
<1> QED BY <1>3, <1>4, <1>5, <1>6 DEF PassStep, Pass!Work

LEMMA PassNext == TypeInv /\ EarlyInv /\ PassInv /\ [Next]_vars => PassInv'
<1> SUFFICES ASSUME TypeInv, EarlyInv, PassInv, [Next]_vars PROVE PassInv'
  OBVIOUS
<1>1. CASE \/ Configure \/ ResolveSrc \/ ResolveDst \/ ConnectSrc
           \/ ConnectDst \/ BuildGlobs \/ LastFolder \/ LogoutSrc
           \/ LogoutDst \/ UNCHANGED vars
  <2>1. UNCHANGED <<queue, pass_vars, history>>
    BY <1>1, StageStep DEF vars
  <2> QED BY <2>1 DEF pass_vars, history, PassInv, Handled
<1>2. CASE List
  <2>1. phase = "idle" /\ UNCHANGED pass_vars
    BY <1>2, Listing DEF List, Abort, TypeInv
  <2> QED BY <2>1 DEF PassInv, pass_vars
<1>3. CASE Enter
  BY <1>3 DEF Enter, PassInv
<1>4. CASE PassStep
  BY <1>4, WorkCounts
<1>5. CASE Leave
  BY <1>5 DEF Leave, PassInv
<1>6. CASE Stop
  <2>1. UNCHANGED <<queue, found>>
    BY <1>6 DEF Stop, history
  <2>2. CASE Pass!Stop
    BY <2>2 DEF Pass!Stop, PassInv
  <2>3. CASE UNCHANGED pass_vars
    BY <2>1, <2>3 DEF pass_vars, PassInv, Handled
  <2> QED BY <1>6, <2>2, <2>3 DEF Stop
<1> QED
  BY <1>1, <1>2, <1>3, <1>4, <1>5, <1>6 DEF Next, Step, Over

\* The folder in hand moves from the queue to the report.
LEMMA ReportLeave ==
  ASSUME TypeInv, EarlyInv, PassInv, ReportInv, Leave
  PROVE  ReportInv'
<1> DEFINE f == Head(queue)
           e == [folder |-> f, count |-> Result]
<1>1. /\ queue # <<>> /\ stage = "folders" /\ exit = 0
      /\ UNCHANGED <<stage, exit, wanted, found>>
      /\ queue' = Tail(queue) /\ report' = Append(report, e)
  BY DEF Leave, TypeInv, EarlyInv, Remaining, history
<1>2. /\ f \in wanted
      /\ ToSet(queue) = {f} \cup ToSet(Tail(queue))
      /\ f \notin ToSet(Tail(queue))
  BY <1>1, TailOf DEF TypeInv, TypeOK
<1>3. Result \in Counts
  BY ZeroType DEF Result, TypeInv, TypeOK, Counts
<1>4. e \in [folder : wanted, count : Counts]
  BY <1>2, <1>3
<1>5. /\ DOMAIN report' = DOMAIN report \cup {Len(report) + 1}
      /\ \A i \in DOMAIN report : report'[i] = report[i]
      /\ report'[Len(report) + 1] = e
  <2> HIDE DEF e
  <2> QED BY <1>1, <1>4, Appended DEF TypeInv, TypeOK, Counts
<1>6. Reported' = Reported \cup {f}
  BY <1>5 DEF Reported
<1>7. SoundEntry(e, found)
  <2>1. CASE phase = "failed"
    <3>1. Result.failed = 1
      BY <2>1, ZeroType DEF Result
    <3> QED BY <3>1 DEF SoundEntry
  <2>2. CASE phase = "done"
    <3>1. /\ Handled + Cardinality(left) = Cardinality(listed)
          /\ found[f] = listed /\ Cardinality(left) = 0
      BY <2>2, FS_EmptySet DEF PassInv
    <3>2. Result = stats
      BY <2>2 DEF Result
    <3>3. \A field \in Fields : stats[field] \in Nat
      BY DEF TypeInv, TypeOK
    <3>4. SUFFICES ASSUME stats.failed = 0
                   PROVE  stats.copied + stats.skipped + stats.would_copy
                            = Cardinality(found[f])
      BY <3>2 DEF SoundEntry
    <3>5. stats.copied + stats.skipped + stats.failed + stats.would_copy + 0
            = Cardinality(listed)
      BY <3>1 DEF Handled
    <3>6. stats.copied + stats.skipped + stats.would_copy = Cardinality(listed)
      BY <3>3, <3>4, <3>5 DEF Fields
    <3> QED BY <3>1, <3>6
  <2> QED BY <2>1, <2>2 DEF Leave
<1>8. \A i \in DOMAIN report' : SoundEntry(report'[i], found')
  <2> HIDE DEF e
  <2> QED BY <1>1, <1>5, <1>7 DEF ReportInv
<1>9. /\ wanted' = ToSet(queue') \cup Reported'
      /\ ToSet(queue') \cap Reported' = {}
  BY <1>1, <1>2, <1>6 DEF ReportInv
<1> QED BY <1>1, <1>8, <1>9 DEF ReportInv, Early

LEMMA ReportNext ==
  /\ TypeInv /\ EarlyInv /\ PassInv /\ ReportInv
  /\ [Next]_vars
  => ReportInv'
<1> SUFFICES ASSUME TypeInv, EarlyInv, PassInv, ReportInv, [Next]_vars
             PROVE  ReportInv'
  OBVIOUS
<1>1. CASE \/ Configure \/ ResolveSrc \/ ResolveDst \/ ConnectSrc
           \/ ConnectDst \/ BuildGlobs \/ LastFolder \/ LogoutSrc
           \/ LogoutDst
  <2>1. UNCHANGED <<queue, report, wanted, found>>
    BY <1>1, StageStep DEF history
  <2>2. Reported' = Reported /\ AnyFailed' = AnyFailed
    BY <2>1 DEF Reported, AnyFailed
  <2>3. stage \in Early => exit = 0
    BY DEF Early, EarlyInv
  <2> QED BY <1>1, <2>1, <2>2, <2>3, StageStep DEF ReportInv, Early
<1>2. CASE List
  <2>1. report = <<>>
    BY <1>2 DEF List, EarlyInv, Early
  <2>2. CASE Abort("Imap")
    <3>1. /\ UNCHANGED <<queue, report, wanted, found>>
          /\ stage' = "exited" /\ exit' = 1
      BY <2>2, ExitCodes DEF Abort, history
    <3> QED BY <2>1, <3>1 DEF ReportInv, Reported, Early
  <2>3. CASE ~Abort("Imap")
    <3>1. /\ stage' = "folders" /\ ToSet(queue') = wanted'
          /\ report' = <<>>
      BY <1>2, <2>1, <2>3, Listing
    <3>2. Reported' = {}
      BY <3>1 DEF Reported
    <3> QED BY <3>1, <3>2 DEF ReportInv, Early
  <2> QED BY <2>2, <2>3
<1>3. CASE Enter
  BY <1>3 DEF Enter, ReportInv, Reported, AnyFailed, history, SoundEntry
<1>4. CASE PassStep
  <2>1. /\ stage = "folders" /\ queue # <<>>
        /\ UNCHANGED <<stage, exit, queue, report, wanted>>
        /\ found' = [found EXCEPT ![Head(queue)] = listed']
    BY <1>4 DEF PassStep, TypeInv
  <2>2. Head(queue) \in ToSet(queue)
    BY <2>1, TailOf DEF TypeInv, TypeOK
  <2>3. \A i \in DOMAIN report :
          /\ report[i].folder \in Mailboxes
          /\ report[i].folder # Head(queue)
    <3>1. \A i \in DOMAIN report : report[i].folder \in Reported
      BY DEF Reported
    <3>2. \A i \in DOMAIN report : report[i].folder \in wanted
      BY EntryType
    <3> QED BY <2>2, <3>1, <3>2 DEF ReportInv, TypeInv, TypeOK
  <2>4. \A i \in DOMAIN report :
          found'[report[i].folder] = found[report[i].folder]
    BY <2>1, <2>3 DEF TypeInv, TypeOK
  <2>5. \A i \in DOMAIN report' : SoundEntry(report'[i], found')
    BY <2>1, <2>4 DEF ReportInv, SoundEntry
  <2> QED BY <2>1, <2>5 DEF ReportInv, Reported, Early
<1>5. CASE Leave
  BY <1>5, ReportLeave
<1>6. CASE Stop
  BY <1>6 DEF Stop, history, ReportInv, Reported, SoundEntry, Early
<1>7. CASE UNCHANGED vars
  BY <1>7 DEF vars, history, ReportInv, Reported, AnyFailed, SoundEntry
<1> QED
  BY <1>1, <1>2, <1>3, <1>4, <1>5, <1>6, <1>7 DEF Next, Step, Over

\* Exit code 0 is the truth about every folder: nothing the user asked for
\* is missing from the report, nothing listed is missing from its counts.
THEOREM ZeroIsComplete == Spec => []ExitZeroMeansComplete
<1>1. Init => TypeInv /\ EarlyInv /\ PassInv /\ ReportInv
  BY TypeInit
     DEF Init, EarlyInv, PassInv, ReportInv, Reported, ToSet
<1>2. /\ TypeInv /\ EarlyInv /\ PassInv /\ ReportInv
      /\ [Next]_vars
      => (TypeInv /\ EarlyInv /\ PassInv /\ ReportInv)'
  BY TypeNext, EarlyNext, PassNext, ReportNext
<1>3. TypeInv /\ ReportInv => ExitZeroMeansComplete
  <2> SUFFICES ASSUME TypeInv, ReportInv, stage = "exited", exit = 0,
                      NEW f \in wanted
               PROVE  \E e \in Entry(f) :
                        /\ e.count.failed = 0
                        /\ e.count.copied + e.count.skipped
                             + e.count.would_copy = Cardinality(found[f])
    BY DEF ExitZeroMeansComplete
  <2>1. wanted = ToSet(<<>>) \cup Reported
    BY DEF ReportInv
  <2>2. PICK i \in DOMAIN report : report[i].folder = f
    BY <2>1 DEF Reported, ToSet
  <2>3. report[i].count.failed \in Nat
    BY EntryType DEF Counts, Fields
  <2>4. report[i].count.failed = 0
    BY <2>3 DEF ReportInv, AnyFailed
  <2>5. report[i] \in Entry(f)
    BY <2>2 DEF Entry, ToSet
  <2> QED BY <2>2, <2>4, <2>5 DEF ReportInv, SoundEntry
<1> QED BY <1>1, <1>2, <1>3, PTL DEF Spec

(***************************************************************************)
(* The summary.  Since its transfer began a folder has lost nothing and    *)
(* gained a copy for each message counted as copied, whether it is in hand *)
(* or in the report; no folder is reported twice; and the summary is       *)
(* printed when the queue is empty, after which nothing moves.             *)
(***************************************************************************)
Covers(then, now, n) ==
  /\ \A b \in Bodies : then[b] <= now[b]
  /\ IsFiniteSet(Gained(then, now))
  /\ n <= Cardinality(Gained(then, now))

HandInv ==
  phase \in {"copying", "done", "failed"} =>
    Covers(base[Head(queue)], box, stats.copied)

LinesInv ==
  /\ \A i \in DOMAIN report :
       Covers(base[report[i].folder], boxes[report[i].folder],
              report[i].count.copied)
  /\ \A i, j \in DOMAIN report : report[i].folder = report[j].folder => i = j

SummaryInv ==
  summary => stage = "exited" /\ wanted = Reported

LEMMA NothingGained ==
  ASSUME NEW box0 \in [Bodies -> Nat]
  PROVE  Covers(box0, box0, 0)
<1>1. \A b \in Bodies : box0[b] + 1 .. box0[b] = {}
  OBVIOUS
<1>2. Gained(box0, box0) = {}
  BY <1>1 DEF Gained
<1> QED BY <1>2, FS_EmptySet DEF Covers

\* One more copy, counted or not.
LEMMA OneMore ==
  ASSUME NEW then \in [Bodies -> Nat], NEW now \in [Bodies -> Nat],
         NEW c \in Bodies, NEW n \in Nat, Covers(then, now, n)
  PROVE  /\ Covers(then, [now EXCEPT ![c] = @ + 1], n)
         /\ Covers(then, [now EXCEPT ![c] = @ + 1], n + 1)
<1> DEFINE more == [now EXCEPT ![c] = @ + 1]
           new == <<c, now[c] + 1>>
<1>1. more \in [Bodies -> Nat] /\ more[c] = now[c] + 1
  OBVIOUS
<1>2. \A b \in Bodies : b # c => more[b] = now[b]
  OBVIOUS
<1>3. \A b \in Bodies : then[b] \in Nat /\ now[b] \in Nat /\ then[b] <= now[b]
  BY DEF Covers
<1> HIDE DEF more
<1>4. then[c] + 1 .. more[c] = (then[c] + 1 .. now[c]) \cup {now[c] + 1}
  BY <1>1, <1>3
<1>5. Gained(then, more) = Gained(then, now) \cup {new}
  <2>1. \A b, k : <<b, k>> \in Gained(then, more)
                    <=> b \in Bodies /\ k \in then[b] + 1 .. more[b]
    BY DEF Gained
  <2>2. \A b, k : <<b, k>> \in Gained(then, now)
                    <=> b \in Bodies /\ k \in then[b] + 1 .. now[b]
    BY DEF Gained
  <2>3. /\ \A p \in Gained(then, more) : p = <<p[1], p[2]>>
        /\ \A p \in Gained(then, now) : p = <<p[1], p[2]>>
    BY DEF Gained
  <2>4. \A b, k : <<b, k>> \in Gained(then, more)
                    <=> <<b, k>> \in Gained(then, now) \/ <<b, k>> = new
    BY <1>2, <1>4, <2>1, <2>2
  <2> HIDE DEF new
  <2>5. \A p : p \in Gained(then, more)
                 <=> p \in Gained(then, now) \/ p = new
    <3>1. new = <<new[1], new[2]>>
      BY DEF new
    <3> QED BY <2>3, <2>4, <3>1
  <2> QED BY <2>5
<1>6. new \notin Gained(then, now)
  <2>1. now[c] + 1 \notin then[c] + 1 .. now[c]
    BY <1>3
  <2> QED BY <2>1 DEF Gained
<1> HIDE DEF new
<1>7. /\ IsFiniteSet(Gained(then, now))
      /\ Cardinality(Gained(then, now)) \in Nat
      /\ n <= Cardinality(Gained(then, now))
  BY FS_CardinalityType DEF Covers
<1>8. /\ IsFiniteSet(Gained(then, more))
      /\ Cardinality(Gained(then, more)) = Cardinality(Gained(then, now)) + 1
  BY <1>5, <1>6, <1>7, FS_AddElement
<1>9. \A b \in Bodies : then[b] <= more[b]
  BY <1>1, <1>2, <1>3
<1>10. n + 1 <= Cardinality(Gained(then, more))
  BY <1>7, <1>8
<1>11. n <= Cardinality(Gained(then, more))
  BY <1>7, <1>8
<1> QED BY <1>8, <1>9, <1>10, <1>11 DEF Covers, more

\* Every append of the pass leaves one copy more, and only a counted one
\* moves the count.
LEMMA HandWork ==
  ASSUME TypeInv, PassInv, HandInv, PassStep
  PROVE  HandInv'
<1> DEFINE f == Head(queue)
<1>1. /\ queue' = queue /\ queue # <<>> /\ f \in Mailboxes
      /\ base' = IF phase = "preparing"
                 THEN [base EXCEPT ![f] = box'] ELSE base
      /\ base \in [Mailboxes -> [Bodies -> Nat]]
      /\ box \in [Bodies -> Nat] /\ box' \in [Bodies -> Nat]
      /\ stats \in Counts /\ stats.copied \in Nat
  BY HeadTailProperties, TypeWork
     DEF PassStep, TypeInv, TypeOK, Counts, Fields
<1>2. CASE phase = "preparing"
  <2>1. base'[f] = box'
    BY <1>1, <1>2
  <2>2. Covers(box', box', 0)
    BY <1>1, NothingGained
  <2>3. stats'.copied = 0
    <3>1. stats = Pass!Zero
      BY <1>2 DEF PassInv
    <3>2. \/ stats' = stats
          \/ stats' = [Pass!Zero EXCEPT !.failed = 1]
          \/ \E n : stats' = [stats EXCEPT !.skipped = n]
      BY <1>2
         DEF PassStep, Pass!Work, Pass!Prepare, Pass!Choose, Pass!Fail,
             Pass!Settled, Pass!Stray
    <3> QED BY ONLY <3>1, <3>2 DEF Pass!Zero
  <2> QED BY <1>1, <2>1, <2>2, <2>3 DEF HandInv
<1>3. CASE phase = "copying"
  <2>1. /\ base'[f] = base[f] /\ base[f] \in [Bodies -> Nat]
        /\ Covers(base[f], box, stats.copied)
    BY <1>1, <1>3 DEF HandInv
  <2>2. CASE box' = box /\ stats'.copied = stats.copied
    BY <1>1, <2>1, <2>2 DEF HandInv
  <2>3. ASSUME Pass!Gains,
               stats'.copied \in {stats.copied, stats.copied + 1}
        PROVE  HandInv'
    <3>1. PICK c \in Bodies : box' = [box EXCEPT ![c] = @ + 1]
      BY <2>3 DEF Pass!Gains
    <3>2. /\ Covers(base[f], box', stats.copied)
          /\ Covers(base[f], box', stats.copied + 1)
      BY <1>1, <2>1, <3>1, OneMore
    <3> QED BY <1>1, <2>1, <2>3, <3>2 DEF HandInv
  <2>4. CASE Pass!Stray
    BY <2>3, <2>4 DEF Pass!Stray
  <2>5. CASE Pass!Settled
    <3>1. PICK u \in left : Pass!Copy(u) \/ Pass!LeaveOut(u) \/ Pass!GiveUp(u)
      BY <2>5 DEF Pass!Settled
    <3>2. CASE Pass!Copy(u)
      <4>1. stats'.copied = stats.copied + 1
        BY <1>1, <3>2 DEF Pass!Copy, Pass!Count, Counts, Fields
      <4> QED BY <2>3, <3>2, <4>1 DEF Pass!Copy
    <3>3. CASE Pass!LeaveOut(u) \/ Pass!GiveUp(u)
      <4>1. stats'.copied = stats.copied
        BY <1>1, <3>3
           DEF Pass!LeaveOut, Pass!GiveUp, Pass!Count, Counts, Fields
      <4> QED BY <2>2, <2>3, <3>3, <4>1 DEF Pass!LeaveOut, Pass!GiveUp
    <3> QED BY <3>1, <3>2, <3>3
  <2> QED
    BY <1>3, <2>4, <2>5
       DEF PassStep, Pass!Work, Pass!Prepare, Pass!Choose, Pass!Fail
<1> QED
  BY <1>2, <1>3
     DEF PassStep, Pass!Work, Pass!Prepare, Pass!Choose, Pass!Fail,
         Pass!Settled, Pass!Stray

LEMMA HandNext ==
  TypeInv /\ EarlyInv /\ PassInv /\ HandInv /\ [Next]_vars => HandInv'
<1> SUFFICES ASSUME TypeInv, EarlyInv, PassInv, HandInv, [Next]_vars
             PROVE  HandInv'
  OBVIOUS
<1>1. CASE \/ Configure \/ ResolveSrc \/ ResolveDst \/ ConnectSrc
           \/ ConnectDst \/ BuildGlobs \/ LastFolder \/ LogoutSrc
           \/ LogoutDst \/ UNCHANGED vars
  <2>1. UNCHANGED <<queue, pass_vars, history>>
    BY <1>1, StageStep DEF vars
  <2> QED BY <2>1 DEF pass_vars, history, HandInv
<1>2. CASE List
  <2>1. phase = "idle" /\ UNCHANGED pass_vars
    BY <1>2, Listing DEF List, Abort, TypeInv
  <2> QED BY <2>1 DEF HandInv, pass_vars
<1>3. CASE Enter
  BY <1>3 DEF Enter, HandInv
<1>4. CASE PassStep
  BY <1>4, HandWork
<1>5. CASE Leave
  BY <1>5 DEF Leave, HandInv
<1>6. CASE Stop
  <2>1. UNCHANGED <<queue, base>>
    BY <1>6 DEF Stop, history
  <2>2. CASE Pass!Stop
    BY <2>2 DEF Pass!Stop, HandInv
  <2>3. CASE UNCHANGED pass_vars
    BY <2>1, <2>3 DEF pass_vars, HandInv
  <2> QED BY <1>6, <2>2, <2>3 DEF Stop
<1> QED
  BY <1>1, <1>2, <1>3, <1>4, <1>5, <1>6 DEF Next, Step, Over

\* The line of the folder in hand is as true as its counts; the folders of
\* the other lines are not touched.
LEMMA LinesLeave ==
  ASSUME TypeInv, EarlyInv, PassInv, ReportInv, HandInv, LinesInv, Leave
  PROVE  LinesInv'
<1> DEFINE f == Head(queue)
           e == [folder |-> f, count |-> Result]
<1>1. /\ queue # <<>> /\ UNCHANGED base
      /\ report' = Append(report, e)
      /\ boxes' = [boxes EXCEPT ![f] = box]
  BY DEF Leave, TypeInv, history
<1>2. f \in wanted /\ f \in Mailboxes /\ f \notin Reported
  <2>1. f \in wanted /\ f \in ToSet(queue)
    BY <1>1, TailOf DEF TypeInv, TypeOK
  <2> QED BY <2>1 DEF ReportInv, TypeInv, TypeOK
<1>3. Result \in Counts
  BY ZeroType DEF Result, TypeInv, TypeOK, Counts
<1>4. e \in [folder : wanted, count : Counts]
  BY <1>2, <1>3
<1>5. /\ DOMAIN report' = DOMAIN report \cup {Len(report) + 1}
      /\ \A i \in DOMAIN report : report'[i] = report[i]
      /\ report'[Len(report) + 1] = e
  <2> HIDE DEF e
  <2> QED BY <1>1, <1>4, Appended DEF TypeInv, TypeOK, Counts
<1>6. Covers(base[f], box, Result.copied)
  <2>1. CASE phase = "done"
    BY <2>1 DEF Result, HandInv
  <2>2. CASE phase = "failed"
    <3>1. Covers(base[f], box, stats.copied) /\ stats.copied \in Nat
      BY <2>2 DEF HandInv, TypeInv, TypeOK, Fields
    <3>2. Result.copied = 0
      BY <2>2 DEF Result, Pass!Zero
    <3>3. 0 <= Cardinality(Gained(base[f], box))
      BY <3>1, FS_CardinalityType DEF Covers
    <3> QED BY <3>1, <3>2, <3>3 DEF Covers
  <2> QED BY <2>1, <2>2 DEF Leave
<1>7. \A i \in DOMAIN report :
        report[i].folder \in Mailboxes /\ report[i].folder # f
  BY <1>2, EntryType DEF Reported, TypeInv, TypeOK
<1>8. boxes'[f] = box /\ \A g \in Mailboxes : g # f => boxes'[g] = boxes[g]
  BY <1>1, <1>2 DEF TypeInv, TypeOK
<1>9. e.folder = f /\ e.count = Result
  OBVIOUS
<1> HIDE DEF e, f
<1>10. ASSUME NEW i \in DOMAIN report'
       PROVE  Covers(base'[report'[i].folder], boxes'[report'[i].folder],
                     report'[i].count.copied)
  <2>1. CASE i \in DOMAIN report
    BY <1>1, <1>5, <1>7, <1>8, <2>1 DEF LinesInv
  <2>2. CASE i = Len(report) + 1
    BY <1>1, <1>5, <1>6, <1>8, <1>9, <2>2
  <2> QED BY <1>5, <2>1, <2>2
<1>11. \A i, j \in DOMAIN report' :
         report'[i].folder = report'[j].folder => i = j
  BY <1>5, <1>7, <1>9 DEF LinesInv
<1> QED BY <1>10, <1>11 DEF LinesInv

LEMMA LinesNext ==
  /\ TypeInv /\ EarlyInv /\ PassInv /\ ReportInv /\ HandInv /\ LinesInv
  /\ [Next]_vars
  => LinesInv'
<1> SUFFICES ASSUME TypeInv, EarlyInv, PassInv, ReportInv, HandInv, LinesInv,
                    [Next]_vars
             PROVE  LinesInv'
  OBVIOUS
<1>1. CASE Leave
  BY <1>1, LinesLeave
<1>2. CASE PassStep
  <2>1. /\ queue # <<>> /\ UNCHANGED <<report, boxes>>
        /\ base' = IF phase = "preparing"
                   THEN [base EXCEPT ![Head(queue)] = box'] ELSE base
    BY <1>2 DEF PassStep, TypeInv
  <2>2. Head(queue) \notin Reported
    BY <2>1, TailOf DEF ReportInv, TypeInv, TypeOK
  <2>3. \A i \in DOMAIN report :
          /\ report[i].folder \in Mailboxes
          /\ report[i].folder # Head(queue)
    BY <2>2, EntryType DEF Reported, TypeInv, TypeOK
  <2>4. \A i \in DOMAIN report :
          base'[report[i].folder] = base[report[i].folder]
    BY <2>1, <2>3 DEF TypeInv, TypeOK
  <2> QED BY <2>1, <2>4 DEF LinesInv
<1>3. CASE ~Leave /\ ~PassStep
  <2>1. UNCHANGED <<report, boxes, base>>
    BY <1>3, StageStep, Listing
       DEF Next, Step, Over, Stop, Enter, List, Abort, vars, history
  <2> QED BY <2>1 DEF LinesInv
<1> QED BY <1>1, <1>2, <1>3

LEMMA SummaryNext ==
  TypeInv /\ EarlyInv /\ ReportInv /\ SummaryInv /\ [Next]_vars => SummaryInv'
<1> SUFFICES ASSUME TypeInv, EarlyInv, ReportInv, SummaryInv, [Next]_vars
             PROVE  SummaryInv'
  OBVIOUS
<1>1. CASE summary
  <2>1. UNCHANGED vars
    BY <1>1
       DEF SummaryInv, Next, Step, Over, Stop, Working, Configure, ResolveSrc,
           ResolveDst, Resolve, ConnectSrc, ConnectDst, Connect, BuildGlobs,
           List, Enter, PassStep, Leave, LastFolder, LogoutSrc, LogoutDst
  <2> QED BY <1>1, <2>1 DEF vars, history, SummaryInv, Reported
<1>2. CASE ~summary /\ summary'
  <2>1. LogoutDst /\ ~Abort("Imap")
    BY <1>2
       DEF Next, Step, Over, Stop, Configure, ResolveSrc, ResolveDst, Resolve,
           ConnectSrc, ConnectDst, Connect, BuildGlobs, List, Enter, PassStep,
           Leave, LastFolder, LogoutSrc, LogoutDst, Abort, GoTo, vars
  <2>2. stage = "logout_dst" /\ stage' = "exited" /\ UNCHANGED <<wanted, report>>
    BY <2>1 DEF LogoutDst, history
  <2>3. wanted = ToSet(<<>>) \cup Reported
    BY <2>2 DEF ReportInv
  <2>4. wanted = Reported
    BY <2>3 DEF ToSet
  <2> QED BY <2>2, <2>4 DEF SummaryInv, Reported
<1>3. CASE ~summary'
  BY <1>3 DEF SummaryInv
<1> QED
  <2>1. summary \in BOOLEAN
    BY DEF TypeInv, TypeOK
  <2> QED BY <1>1, <1>2, <1>3

\* What the user reads at the end is so: one line for each folder asked for,
\* and at least as many new copies in it as the line claims.
THEOREM SummariesAreTrue == Spec => []SummaryIsTrue
<1> DEFINE Inv == /\ TypeInv /\ EarlyInv /\ PassInv /\ ReportInv
                  /\ HandInv /\ LinesInv /\ SummaryInv
<1>1. Init => Inv
  BY TypeInit
     DEF Init, EarlyInv, PassInv, ReportInv, Reported, ToSet, HandInv,
         LinesInv, SummaryInv
<1>2. Inv /\ [Next]_vars => Inv'
  BY TypeNext, EarlyNext, PassNext, ReportNext, HandNext, LinesNext,
     SummaryNext
<1>3. Inv => SummaryIsTrue
  <2> SUFFICES ASSUME TypeInv, LinesInv, SummaryInv, summary,
                      NEW f \in wanted
               PROVE  /\ Cardinality(Entry(f)) = 1
                      /\ \A b \in Bodies : base[f][b] <= boxes[f][b]
                      /\ \A e \in Entry(f) :
                           e.count.copied <=
                             Cardinality(Gained(base[f], boxes[f]))
    BY DEF SummaryIsTrue
  <2>1. PICK i \in DOMAIN report : report[i].folder = f
    BY DEF SummaryInv, Reported
  <2>2. Entry(f) = {report[i]}
    BY <2>1 DEF Entry, ToSet, LinesInv
  <2>3. Cardinality(Entry(f)) = 1
    BY <2>2, FS_Singleton
  <2>4. Covers(base[f], boxes[f], report[i].count.copied)
    BY <2>1 DEF LinesInv
  <2> QED BY <2>2, <2>3, <2>4 DEF Covers
<1> QED BY <1>1, <1>2, <1>3, PTL DEF Spec

=============================================================================
