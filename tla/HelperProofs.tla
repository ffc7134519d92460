---------------------------- MODULE HelperProofs ----------------------------
(***************************************************************************)
(* What holds of with_retry for every limit and every width of its counter,*)
(* and of parse_message_id for every message.                              *)
(*                                                                         *)
(* The induction theorems of the library take an operator, which the       *)
(* provers cannot instantiate; `Induction' and `SeqInduction' below take   *)
(* the set of the numbers, or sequences, that have the property.           *)
(***************************************************************************)
EXTENDS Retry, MessageId, SequenceTheorems, NaturalsInduction,
        WellFoundedInduction, TLAPS

(***************************************************************************)
(* with_retry.                                                             *)
(***************************************************************************)
\* The pause is one of the seven.
LEMMA PauseType ==
  ASSUME NEW n \in Nat PROVE Backoff(n) \in {0} \cup {2 ^ i : i \in 0..6}
<1>1. (IF n < 6 THEN n ELSE 6) \in 0..6
  OBVIOUS
<1>. QED BY <1>1, Zenon DEF Backoff

\* One call has been started for every attempt, but for the one about to be.
CallInv ==
  /\ TypeOK
  /\ pc = "call" => calls = attempt
  /\ pc # "call" => calls = attempt + 1
  /\ pc = "sleep" => attempt < retries
  /\ pc \in Returned \ {"ok"} => attempt = retries
  /\ pc = "timed_out" => reported = (retries + 1) % (MaxU32 + 1)
  /\ pc = "panicked" => build = "debug" /\ retries = MaxU32
  /\ pc = "timed_out" /\ retries = MaxU32 => build = "release"

\* It holds at the start.
LEMMA CallInit == Init => CallInv
BY RetryAssumption DEF Init, CallInv, TypeOK, Returned

\* Every step keeps it.
LEMMA CallNext == CallInv /\ [Next]_vars => CallInv'
<1>. SUFFICES ASSUME CallInv, [Next]_vars PROVE CallInv'
  OBVIOUS
<1>t. /\ retries \in Nat /\ attempt \in 0..retries /\ MaxU32 \in Nat
      /\ retries <= MaxU32
  BY RetryAssumption DEF CallInv, TypeOK
<1>1. CASE Call
  BY <1>1, <1>t DEF Call, CallInv, TypeOK, Returned
<1>2. CASE Succeed
  BY <1>2, <1>t DEF Succeed, CallInv, TypeOK, Returned
<1>3. CASE Fail
  <2>1. attempt \in Nat
    BY <1>t
  <2>2. pause' \in {0} \cup {2 ^ i : i \in 0..6}
    BY <1>3, <2>1, PauseType DEF Fail, CallInv, TypeOK
  <2>. QED BY <1>3, <1>t, <2>2 DEF Fail, GivesUp, CallInv, TypeOK, Returned
<1>4. CASE Wake
  BY <1>4, <1>t DEF Wake, CallInv, TypeOK, Returned
<1>5. CASE TimeOut
  <2>1. (retries + 1) % (MaxU32 + 1) \in 0..MaxU32
    BY <1>t
  <2>. QED BY <1>5, <1>t, <2>1
       DEF TimeOut, GivesUp, Attempts, CallInv, TypeOK, Returned
<1>6. CASE UNCHANGED vars
  BY <1>6 DEF vars, CallInv, TypeOK
<1>. QED BY <1>1, <1>2, <1>3, <1>4, <1>5, <1>6 DEF Next, Step, Answer, Over

\* The invariant holds of every call of with_retry.
LEMMA CallAlways == Spec => []CallInv
BY CallInit, CallNext, PTL DEF Spec

\* The attempt counter never passes the limit, and so never overflows, and the
\* pause stays within its seven values.  (with_retry.)
THEOREM TypeCorrect == Spec => []TypeOK
<1>1. CallInv => TypeOK
  BY DEF CallInv
<1>. QED BY <1>1, CallAlways, PTL

\* No failure comes back before the last call, and there are no calls after it.
\* (The loop of with_retry.)
THEOREM EveryTryIsMade == Spec => []CallsAreCounted
<1>1. CallInv => CallsAreCounted
  BY RetryAssumption DEF CallInv, TypeOK, CallsAreCounted, Returned
<1>. QED BY <1>1, CallAlways, PTL

\* The count in the error is that of the calls, but at the largest limit.
\* (`retries + 1' in with_retry.)
THEOREM CountIsRight == Spec => []ReportIsTrue
<1>1. CallInv => ReportIsTrue
  <2>. SUFFICES ASSUME CallInv PROVE ReportIsTrue
    OBVIOUS
  <2>1. /\ retries \in Nat /\ attempt \in 0..retries /\ MaxU32 \in Nat
        /\ retries <= MaxU32
    BY RetryAssumption DEF CallInv, TypeOK
  <2>2. retries < MaxU32 => (retries + 1) % (MaxU32 + 1) = retries + 1
    BY ONLY <2>1
  <2>3. retries = MaxU32 => (retries + 1) % (MaxU32 + 1) = 0
    BY ONLY <2>1
  <2>. QED BY <2>1, <2>2, <2>3 DEF CallInv, ReportIsTrue, Returned
<1>. QED BY <1>1, CallAlways, PTL

(***************************************************************************)
(* Numbers.                                                                *)
(***************************************************************************)

\* A set of numbers that is not empty has a least one.
LEMMA LeastNat ==
  ASSUME NEW S \in SUBSET Nat, S # {}
  PROVE  \E n \in S : \A m \in S : n <= m
<1> DEFINE R == {ss \in Nat \X Nat : ss[1] < ss[2]}
<1>1. IsWellFoundedOn(R, Nat)
  BY NatLessThanWellFounded DEF OpToRel
<1>2. \E n \in S : \A m \in S : ~(<<m, n>> \in R)
  <2> HIDE DEF R
  <2> QED BY <1>1, WFMin
<1>3. \A m, n \in Nat : <<m, n>> \notin R => n <= m
  OBVIOUS
<1> QED BY <1>2, <1>3

\* Induction, for a set in place of a predicate.
LEMMA Induction ==
  ASSUME NEW P \in SUBSET Nat, 0 \in P, \A n \in P : n + 1 \in P
  PROVE  P = Nat
<1>1. SUFFICES ASSUME Nat \ P # {} PROVE FALSE
  OBVIOUS
<1>2. PICK n \in Nat \ P : \A m \in Nat \ P : n <= m
  BY <1>1, LeastNat
<1>3. n # 0 /\ n - 1 \in Nat
  OBVIOUS
<1>4. n - 1 \in P
  BY <1>2, <1>3
<1> QED BY <1>3, <1>4

\* The least of a set of numbers.
LEMMA MinIs ==
  ASSUME NEW S \in SUBSET Nat, NEW n \in S, \A m \in S : n <= m
  PROVE  Min(S) = n
<1>1. Min(S) \in S /\ \A m \in S : Min(S) <= m
  <2>1. \E x \in S : \A m \in S : x <= m
    OBVIOUS
  <2> QED BY <2>1, Zenon DEF Min
<1>2. Min(S) \in Nat /\ n \in Nat
  BY <1>1
<1> QED BY <1>1, <1>2

\* The greatest.
LEMMA MaxIs ==
  ASSUME NEW S \in SUBSET Nat, NEW n \in S, \A m \in S : m <= n
  PROVE  Max(S) = n
<1>1. Max(S) \in S /\ \A m \in S : Max(S) >= m
  <2>1. \E x \in S : \A m \in S : x >= m
    OBVIOUS
  <2> QED BY <2>1, Zenon DEF Max
<1>2. Max(S) \in Nat /\ n \in Nat
  BY <1>1
<1> QED BY <1>1, <1>2

\* A set that is not empty has its Min for an element.
LEMMA MinOf ==
  ASSUME NEW S \in SUBSET Nat, S # {}
  PROVE  Min(S) \in S /\ \A m \in S : Min(S) <= m
BY LeastNat, MinIs

\* The ends of a set of places in a line.
LEMMA EndsOf ==
  ASSUME NEW i \in Nat, NEW j \in Nat, NEW Q \in SUBSET (i..j), Q # {}
  PROVE  \E k, l \in Q : k <= l /\ \A x \in Q : k <= x /\ x <= l
<1>1. PICK k \in Q : \A x \in Q : k <= x
  BY LeastNat
<1> DEFINE D == {j - x : x \in Q}
<1>2. D \in SUBSET Nat /\ D # {}
  OBVIOUS
<1>3. PICK d \in D : \A y \in D : d <= y
  <2> HIDE DEF D
  <2> QED BY <1>2, LeastNat
<1>4. PICK l \in Q : d = j - l
  BY <1>3
<1>5. ASSUME NEW x \in Q PROVE x <= l
  <2>1. j - l <= j - x
    BY <1>3, <1>4
  <2> QED BY <2>1
<1> QED BY <1>1, <1>4, <1>5

\* The atoms of two lines put together.
LEMMA Concat ==
  ASSUME NEW s \in Seq(Atoms), NEW t \in Seq(Atoms)
  PROVE  /\ s \o t \in Seq(Atoms)
         /\ Len(s \o t) = Len(s) + Len(t)
         /\ \A x \in 1 .. Len(s) : (s \o t)[x] = s[x]
         /\ \A x \in Len(s) + 1 .. Len(s) + Len(t) :
              (s \o t)[x] = t[x - Len(s)]
<1>1. Len(s) \in Nat /\ Len(t) \in Nat
  BY LenProperties
<1> QED BY <1>1, ConcatProperties

(***************************************************************************)
(* Trimming.                                                               *)
(***************************************************************************)

\* Trimming a part of a line leaves what is between two kept atoms if nothing
\* outside them is kept.
Between(line, i, j, S, k, l) ==
  /\ i <= k /\ k <= l /\ l <= j
  /\ line[k] \notin S /\ line[l] \notin S
  /\ \A x \in i .. j : line[x] \notin S => k <= x /\ x <= l

TrimsTo(line, i, j, S, k, l) ==
  /\ Between(line, i, j, S, k, l)
  /\ Trim(SubSeq(line, i, j), S) = SubSeq(line, k, l)

\* What trimming a part of a line leaves.
LEMMA TrimTo ==
  ASSUME NEW line \in Seq(Atoms), NEW S,
         NEW i \in Nat, NEW j \in Nat, NEW k \in Nat, NEW l \in Nat,
         1 <= i, j <= Len(line), Between(line, i, j, S, k, l)
  PROVE  TrimsTo(line, i, j, S, k, l)
<1> DEFINE part == SubSeq(line, i, j)
           kept == {x \in DOMAIN part : part[x] \notin S}
<1>. i <= k /\ k <= l /\ l <= j
  BY DEF Between
<1>1. /\ part \in Seq(Atoms) /\ Len(part) = j - i + 1
      /\ \A x \in 1 .. j - i + 1 : part[x] = line[i + x - 1]
  BY SubSeqProperties, LenProperties
<1>2. DOMAIN part = 1 .. j - i + 1
  BY <1>1, LenProperties
<1>3. k - i + 1 \in kept /\ l - i + 1 \in kept
  BY <1>1, <1>2 DEF Between
<1>4. \A x \in kept : k - i + 1 <= x /\ x <= l - i + 1
  BY <1>1, <1>2 DEF Between
<1>5. kept \in SUBSET Nat
  BY <1>2
<1>6. Min(kept) = k - i + 1 /\ Max(kept) = l - i + 1
  <2> HIDE DEF kept
  <2> QED BY <1>3, <1>4, <1>5, MinIs, MaxIs
<1>7. SubSeq(part, k - i + 1, l - i + 1) = SubSeq(line, k, l)
  <2>1. SubSeq(part, k - i + 1, l - i + 1)
          = SubSeq(line, i + (k - i + 1) - 1, i + (l - i + 1) - 1)
    BY SubSeqOfSubSeq, LenProperties
  <2>2. i + (k - i + 1) - 1 = k /\ i + (l - i + 1) - 1 = l
    OBVIOUS
  <2> QED BY <2>1, <2>2
<1>8. Trim(part, S) = SubSeq(part, Min(kept), Max(kept))
  BY <1>3 DEF Trim
<1> QED BY <1>6, <1>7, <1>8 DEF TrimsTo

\* Nothing is left of a part that has only what is trimmed.
LEMMA TrimNothing ==
  ASSUME NEW line \in Seq(Atoms), NEW S, NEW i \in Nat, NEW j \in Nat,
         1 <= i, j <= Len(line), \A x \in i .. j : line[x] \in S
  PROVE  Trim(SubSeq(line, i, j), S) = <<>>
<1> DEFINE part == SubSeq(line, i, j)
<1>1. CASE j < i
  <2>1. part = <<>>
    BY <1>1, SubSeqEmpty
  <2> QED BY <2>1 DEF Trim
<1>2. CASE i <= j
  <2>1. /\ part \in Seq(Atoms) /\ Len(part) = j - i + 1
        /\ \A x \in 1 .. j - i + 1 : part[x] = line[i + x - 1]
    BY <1>2, SubSeqProperties, LenProperties
  <2>2. DOMAIN part = 1 .. j - i + 1
    BY <2>1, LenProperties
  <2>3. {x \in DOMAIN part : part[x] \notin S} = {}
    BY <2>1, <2>2
  <2> QED BY <2>3 DEF Trim
<1> QED BY <1>1, <1>2

\* Either nothing is kept, or it is what lies between two atoms.
TrimsAway(line, i, j, S) ==
  /\ Trim(SubSeq(line, i, j), S) = <<>>
  /\ \A x \in i .. j : line[x] \in S

\* One or the other.
LEMMA Trimmed ==
  ASSUME NEW line \in Seq(Atoms), NEW S, NEW i \in Nat, NEW j \in Nat,
         1 <= i, j <= Len(line)
  PROVE  \/ TrimsAway(line, i, j, S)
         \/ \E k, l \in Nat : TrimsTo(line, i, j, S, k, l)
<1> DEFINE Q == {x \in i .. j : line[x] \notin S}
<1>1. CASE Q = {}
  BY <1>1, TrimNothing DEF TrimsAway
<1>2. CASE Q # {}
  <2>1. Q \in SUBSET (i .. j)
    OBVIOUS
  <2>2. PICK k, l \in Q : k <= l /\ \A x \in Q : k <= x /\ x <= l
    <3> HIDE DEF Q
    <3> QED BY <1>2, <2>1, EndsOf
  <2>3. k \in Nat /\ l \in Nat /\ Between(line, i, j, S, k, l)
    BY <2>2 DEF Between
  <2> HIDE DEF Q
  <2> QED BY <2>3, TrimTo
<1> QED BY <1>1, <1>2

\* Nothing is left of nothing.
LEMMA TrimEmpty == ASSUME NEW S PROVE Trim(<<>>, S) = <<>>
BY DEF Trim

\* What is left at the start begins where the white space ends.
LEMMA TrimStartAt ==
  ASSUME NEW line \in Seq(Atoms)
  PROVE  \E k \in 1 .. Len(line) + 1 :
           /\ TrimStart(line) = SubSeq(line, k, Len(line))
           /\ \A x \in 1 .. k - 1 : line[x] = Space
           /\ k <= Len(line) => line[k] # Space
<1> DEFINE kept == {x \in DOMAIN line : line[x] # Space}
<1>1. DOMAIN line = 1 .. Len(line) /\ Len(line) \in Nat
  BY LenProperties
<1>2. CASE kept = {}
  <2>1. SubSeq(line, Len(line) + 1, Len(line)) = <<>>
    BY <1>1, SubSeqEmpty
  <2>2. TrimStart(line) = <<>>
    BY <1>2 DEF TrimStart
  <2> DEFINE k == Len(line) + 1
  <2>3. /\ k \in 1 .. Len(line) + 1 /\ ~ (k <= Len(line))
        /\ \A x \in 1 .. k - 1 : line[x] = Space
    BY <1>1, <1>2
  <2> QED BY <2>1, <2>2, <2>3
<1>3. CASE kept # {}
  <2>1. kept \in SUBSET Nat
    BY <1>1
  <2>2. PICK k \in kept : Min(kept) = k /\ \A x \in kept : k <= x
    <3> HIDE DEF kept
    <3> QED BY <1>3, <2>1, MinOf
  <2>3. TrimStart(line) = SubSeq(line, k, Len(line))
    BY <1>3, <2>2 DEF TrimStart
  <2>4. k \in 1 .. Len(line) + 1 /\ line[k] # Space
    BY <1>1
  <2>5. \A x \in 1 .. k - 1 : line[x] = Space
    BY <1>1, <2>2
  <2> QED BY <2>3, <2>4, <2>5
<1> QED BY <1>2, <1>3

\* A line that does not begin with white space is left as it is.
LEMMA TrimStartNothing ==
  ASSUME NEW line \in Seq(Atoms), line # <<>>, line[1] # Space
  PROVE  TrimStart(line) = line
<1>1. Len(line) \in Nat \ {0}
  BY EmptySeq
<1>2. PICK k \in 1 .. Len(line) + 1 :
        /\ TrimStart(line) = SubSeq(line, k, Len(line))
        /\ \A x \in 1 .. k - 1 : line[x] = Space
  BY TrimStartAt
<1>3. k = 1
  BY <1>1, <1>2
<1> QED BY <1>2, <1>3, SubSeqFull

(***************************************************************************)
(* The value of a line.  `Pads' says of the atoms from i to j what Padding *)
(* says of a sequence.                                                     *)
(***************************************************************************)
Pads(line, i, j) ==
  /\ \A x \in i .. j : line[x] \in {Space} \cup Brackets
  /\ \A x, y, z \in i .. j :
       x < y /\ y < z /\ line[x] \in Brackets /\ line[y] = Space
         => line[z] \notin Brackets

Edge(x) == x \notin {Space} \cup Brackets

\* A bracket is not white space.
LEMMA BracketsAreNoSpace == Space \notin Brackets
BY DEF Space, Brackets

\* Two trimmings leave something that begins and ends in white space, or the
\* identifier is already there: the second takes no atom of it.
LEMMA ValueOfId ==
  ASSUME NEW line \in Seq(Atoms), NEW a \in Nat, NEW b \in Nat,
         1 <= a, a < b, b <= Len(line),
         Pads(line, 2, a), Pads(line, b + 1, Len(line)),
         Edge(line[a + 1]), Edge(line[b]), line[1] # Space
  PROVE  Value(line) = SubSeq(line, a + 1, b)
<1>1. Len(line) \in Nat /\ line # <<>>
  BY LenProperties, EmptySeq
<1> DEFINE text == SubSeq(line, 2, Len(line))
<1>2. Tail(TrimStart(line)) = text
  BY <1>1, TrimStartNothing, TailIsSubSeq
<1>3. PICK k1 \in Nat, l1 \in Nat : TrimsTo(line, 2, Len(line), {Space}, k1, l1)
  <2>1. ~ TrimsAway(line, 2, Len(line), {Space})
    BY <1>1 DEF TrimsAway, Edge
  <2> QED BY <1>1, <2>1, Trimmed
<1>4. /\ 2 <= k1 /\ k1 <= a + 1 /\ b <= l1 /\ l1 <= Len(line)
      /\ line[k1] # Space /\ line[l1] # Space
      /\ Trim(text, {Space}) = SubSeq(line, k1, l1)
  <2>1. /\ a + 1 \in 2 .. Len(line) /\ b \in 2 .. Len(line)
        /\ line[a + 1] \notin {Space} /\ line[b] \notin {Space}
    BY <1>1 DEF Edge
  <2> QED BY <1>3, <2>1 DEF TrimsTo, Between
<1>5. PICK k2 \in Nat, l2 \in Nat : TrimsTo(line, k1, l1, Brackets, k2, l2)
  <2>1. ~ TrimsAway(line, k1, l1, Brackets)
    BY <1>4 DEF TrimsAway, Edge
  <2>2. 1 <= k1 /\ l1 <= Len(line)
    BY <1>4
  <2> QED BY <2>1, <2>2, Trimmed
<1>6. /\ k1 <= k2 /\ k2 <= a + 1 /\ b <= l2 /\ l2 <= l1
      /\ line[k2] \notin Brackets /\ line[l2] \notin Brackets
      /\ Trim(SubSeq(line, k1, l1), Brackets) = SubSeq(line, k2, l2)
  <2>1. /\ a + 1 \in k1 .. l1 /\ b \in k1 .. l1
        /\ line[a + 1] \notin Brackets /\ line[b] \notin Brackets
    BY <1>4 DEF Edge
  <2> QED BY <1>5, <2>1 DEF TrimsTo, Between
<1>7. \A x \in k2 .. l2 : line[x] # Space => a + 1 <= x /\ x <= b
  <2>1. SUFFICES ASSUME NEW x \in k2 .. l2, line[x] # Space, x <= a \/ b < x
                 PROVE  FALSE
    OBVIOUS
  <2>2. CASE x <= a
    <3>1. /\ x \in 2 .. a /\ k1 \in 2 .. a /\ k2 \in 2 .. a
      BY <1>4, <1>6, <2>2
    <3>2. line[x] \in Brackets /\ line[k2] = Space /\ line[k1] \in Brackets
      BY <1>4, <1>6, <2>1, <3>1 DEF Pads
    <3>3. k1 < k2 /\ k2 < x
      BY <1>6, <2>1, <3>2
    <3> QED BY <3>1, <3>2, <3>3 DEF Pads
  <2>3. CASE b < x
    <3>1. /\ x \in b + 1 .. Len(line) /\ l1 \in b + 1 .. Len(line)
          /\ l2 \in b + 1 .. Len(line)
      <4>1. x \in Int /\ x <= l2
        OBVIOUS
      <4>2. b + 1 <= x /\ x <= Len(line) /\ l1 <= Len(line)
        BY <1>1, <1>4, <1>6, <2>3, <4>1
      <4>3. b + 1 <= l2 /\ l2 <= Len(line) /\ b + 1 <= l1
        BY <1>1, <1>4, <1>6, <4>1, <4>2
      <4> QED BY <1>1, <4>1, <4>2, <4>3
    <3>2. line[x] \in Brackets /\ line[l2] = Space /\ line[l1] \in Brackets
      BY <1>4, <1>6, <2>1, <3>1 DEF Pads
    <3>3. x < l2 /\ l2 < l1
      BY <1>6, <2>1, <3>2
    <3> QED BY <3>1, <3>2, <3>3 DEF Pads
  <2> QED BY <2>1, <2>2, <2>3
<1>8. PICK k3 \in Nat, l3 \in Nat : TrimsTo(line, k2, l2, {Space}, k3, l3)
  <2>1. a + 1 \in k2 .. l2
    BY <1>6
  <2>2. ~ TrimsAway(line, k2, l2, {Space})
    BY <2>1 DEF TrimsAway, Edge
  <2>3. 1 <= k2 /\ l2 <= Len(line)
    BY <1>1, <1>4, <1>6
  <2> QED BY <2>2, <2>3, Trimmed
<1>9. k3 = a + 1 /\ l3 = b
  <2>1. /\ a + 1 \in k2 .. l2 /\ b \in k2 .. l2
        /\ line[a + 1] \notin {Space} /\ line[b] \notin {Space}
    BY <1>6 DEF Edge
  <2>2. k3 <= a + 1 /\ b <= l3 /\ k3 \in k2 .. l2 /\ l3 \in k2 .. l2
        /\ line[k3] # Space /\ line[l3] # Space
    BY <1>8, <2>1 DEF TrimsTo, Between
  <2> QED BY <1>7, <2>2
<1>10. Trim(SubSeq(line, k2, l2), {Space}) = SubSeq(line, a + 1, b)
  BY <1>8, <1>9 DEF TrimsTo, Between
<1> QED BY <1>2, <1>4, <1>6, <1>10 DEF Value

\* Nothing is left of a line without an identifier.
LEMMA ValueOfNothing ==
  ASSUME NEW line \in Seq(Atoms), NEW a \in Nat,
         1 <= a, a <= Len(line),
         Pads(line, 2, a), Pads(line, a + 1, Len(line)), line[1] # Space
  PROVE  Value(line) = <<>>
<1>1. Len(line) \in Nat /\ line # <<>>
  BY LenProperties, EmptySeq
<1> DEFINE text == SubSeq(line, 2, Len(line))
<1>2. Tail(TrimStart(line)) = text
  BY <1>1, TrimStartNothing, TailIsSubSeq
<1>3. \A x \in 2 .. Len(line) : line[x] \in {Space} \cup Brackets
  BY <1>1 DEF Pads
<1>4. CASE TrimsAway(line, 2, Len(line), {Space})
  <2>1. Trim(text, {Space}) = <<>>
    BY <1>4 DEF TrimsAway
  <2> QED BY <1>2, <2>1, TrimEmpty DEF Value
<1>5. ASSUME NEW k1 \in Nat, NEW l1 \in Nat,
             TrimsTo(line, 2, Len(line), {Space}, k1, l1)
      PROVE  Value(line) = <<>>
  <2>1. /\ 2 <= k1 /\ k1 <= l1 /\ l1 <= Len(line)
        /\ line[k1] # Space /\ line[l1] # Space
        /\ Trim(text, {Space}) = SubSeq(line, k1, l1)
    BY <1>5 DEF TrimsTo, Between
  <2>2. CASE TrimsAway(line, k1, l1, Brackets)
    <3>1. Trim(SubSeq(line, k1, l1), Brackets) = <<>>
      BY <2>2 DEF TrimsAway
    <3> QED BY <1>2, <2>1, <3>1, TrimEmpty DEF Value
  <2>3. ASSUME NEW k2 \in Nat, NEW l2 \in Nat,
               TrimsTo(line, k1, l1, Brackets, k2, l2)
        PROVE  Value(line) = <<>>
    <3>1. /\ k1 <= k2 /\ k2 <= l2 /\ l2 <= l1
          /\ line[k2] \notin Brackets /\ line[l2] \notin Brackets
          /\ Trim(SubSeq(line, k1, l1), Brackets) = SubSeq(line, k2, l2)
      BY <2>3 DEF TrimsTo, Between
    <3>2. /\ line[k1] \in Brackets /\ line[l1] \in Brackets
          /\ line[k2] = Space /\ line[l2] = Space
      BY <1>1, <1>3, <2>1, <3>1
    <3>3. k1 < k2 /\ l2 < l1
      BY <2>1, <3>1, <3>2
    <3>4. ASSUME NEW x \in k2 .. l2 PROVE line[x] \in {Space}
      <4>1. SUFFICES ASSUME line[x] \in Brackets PROVE FALSE
        BY <1>1, <1>3, <2>1, <3>1
      <4>2. k2 < x /\ x < l2
        BY <3>1, <3>2, <4>1, BracketsAreNoSpace
      <4>3. CASE x <= a
        <5>1. k1 \in 2 .. a /\ k2 \in 2 .. a /\ x \in 2 .. a
          BY <2>1, <3>3, <4>2, <4>3
        <5> QED BY <3>2, <3>3, <4>1, <4>2, <5>1 DEF Pads
      <4>4. CASE a < x
        <5>1. /\ x \in a + 1 .. Len(line) /\ l2 \in a + 1 .. Len(line)
              /\ l1 \in a + 1 .. Len(line)
          BY <1>1, <2>1, <3>3, <4>2, <4>4
        <5> QED BY <3>2, <3>3, <4>1, <4>2, <5>1 DEF Pads
      <4> QED BY <4>3, <4>4
    <3>5. Trim(SubSeq(line, k2, l2), {Space}) = <<>>
      <4>1. 1 <= k2 /\ l2 <= Len(line)
        BY <1>1, <2>1, <3>1
      <4> QED BY <3>4, <4>1, TrimNothing
    <3> QED BY <1>2, <2>1, <3>1, <3>5 DEF Value
  <2>4. 1 <= k1 /\ l1 <= Len(line)
    BY <2>1
  <2> QED BY <2>2, <2>3, <2>4, Trimmed
<1>6. 1 <= 2 /\ Len(line) <= Len(line)
  BY <1>1
<1> QED BY <1>1, <1>4, <1>5, <1>6, Trimmed

(***************************************************************************)
(* The text of a Message-Id field: its name, white space and brackets up   *)
(* to a, the identifier up to b, white space and brackets.                 *)
(***************************************************************************)
Shape(text, a, b) ==
  /\ text \in Seq(Atoms) /\ text # <<>> /\ text[1] # Space
  /\ a \in Nat /\ b \in Nat /\ 1 <= a /\ a <= b /\ b <= Len(text)
  /\ Pads(text, 2, a) /\ Pads(text, b + 1, Len(text))
  /\ \A x \in a + 1 .. b : text[x] # Space
  /\ a < b => Edge(text[a + 1]) /\ Edge(text[b])

\* What parse_message_id takes from such a line, its key stripped off.
LEMMA ValueOfShape ==
  ASSUME NEW text, NEW a, NEW b, Shape(text, a, b)
  PROVE  Value(text) = SubSeq(text, a + 1, b)
<1> USE DEF Shape
<1>1. CASE a < b
  BY <1>1, ValueOfId
<1>2. CASE a = b
  <2>1. SubSeq(text, a + 1, b) = <<>>
    BY <1>2, SubSeqEmpty
  <2>2. Value(text) = <<>>
    BY <1>2, ValueOfNothing
  <2> QED BY <2>1, <2>2
<1> QED BY <1>1, <1>2

\* The atoms from i to j of one line are those s places further in another.
Same(more, line, i, j) == \A x \in i .. j : more[x] = line[x]
Copied(more, i, j, text, s) == \A x \in i .. j : more[x] = text[x + s]

\* A line that has grown by the atoms of the text after e, up to e2: all of
\* them but some white space at their start, though not all of that; the first
\* of them is at p.
LongerAt(text, e, e2, line, more, p) ==
  /\ p \in e + 1 .. e2 /\ \A x \in e + 1 .. p : text[x] = Space
  /\ more \in Seq(Atoms) /\ Len(more) = Len(line) + e2 - p + 1
  /\ Same(more, line, 1, Len(line))
  /\ Copied(more, Len(line) + 1, Len(more), text, p - 1 - Len(line))

Longer(text, e, e2, line, more) ==
  \E p \in Nat : LongerAt(text, e, e2, line, more, p)

\* AddLine makes the line before a folded one longer in this way.
LEMMA Continued ==
  ASSUME NEW text \in Seq(Atoms), NEW line \in Seq(Atoms),
         NEW e \in Nat, NEW e2 \in Nat, e < e2, e2 <= Len(text),
         text[e + 1] = Space
  PROVE  Longer(text, e, e2, line,
                line \o <<Space>> \o TrimStart(SubSeq(text, e + 1, e2)))
<1> DEFINE chunk == SubSeq(text, e + 1, e2)
           rest == TrimStart(chunk)
           more == line \o <<Space>> \o rest
<1>1. /\ chunk \in Seq(Atoms) /\ Len(chunk) = e2 - e
      /\ \A x \in 1 .. e2 - e : chunk[x] = text[e + x]
  <2>1. /\ chunk \in Seq(Atoms) /\ Len(chunk) = e2 - (e + 1) + 1
        /\ \A x \in 1 .. e2 - (e + 1) + 1 : chunk[x] = text[(e + 1) + x - 1]
    BY SubSeqProperties, LenProperties
  <2> QED BY <2>1
<1>2. PICK k \in 1 .. e2 - e + 1 :
        /\ rest = SubSeq(chunk, k, e2 - e)
        /\ \A x \in 1 .. k - 1 : chunk[x] = Space
        /\ k <= e2 - e => chunk[k] # Space
  <2> HIDE DEF chunk
  <2>1. \E k \in 1 .. Len(chunk) + 1 :
           /\ TrimStart(chunk) = SubSeq(chunk, k, Len(chunk))
           /\ \A x \in 1 .. k - 1 : chunk[x] = Space
           /\ k <= Len(chunk) => chunk[k] # Space
    BY <1>1, TrimStartAt
  <2> QED BY <1>1, <2>1
<1>3. k # 1
  BY <1>1, <1>2
<1>4. /\ rest \in Seq(Atoms) /\ Len(rest) = e2 - e - k + 1
      /\ \A x \in 1 .. e2 - e - k + 1 : rest[x] = chunk[k + x - 1]
  <2> HIDE DEF chunk, rest
  <2>1. \A x \in k .. e2 - e : chunk[x] \in Atoms
    BY <1>1, <1>2, ElementOfSeq
  <2> QED BY <1>2, <2>1, SubSeqProperties
<1>5. /\ <<Space>> \in Seq(Atoms) /\ Len(<<Space>>) = 1
      /\ <<Space>>[1] = Space
  BY MessageAssumption
<1>6. /\ line \o <<Space>> \in Seq(Atoms)
      /\ Len(line \o <<Space>>) = Len(line) + 1
      /\ \A x \in 1 .. Len(line) : (line \o <<Space>>)[x] = line[x]
      /\ (line \o <<Space>>)[Len(line) + 1] = Space
  BY <1>5, ConcatProperties, LenProperties
<1>7. Len(line) \in Nat
  BY LenProperties
<1>8. /\ more \in Seq(Atoms)
      /\ Len(more) = Len(line) + 1 + (e2 - e - k + 1)
      /\ \A x \in 1 .. Len(line) + 1 : more[x] = (line \o <<Space>>)[x]
      /\ \A x \in Len(line) + 2 .. Len(more) : more[x] = rest[x - Len(line) - 1]
  <2> DEFINE head == line \o <<Space>>
  <2>1. head \in Seq(Atoms) /\ Len(head) = Len(line) + 1
    BY <1>6
  <2>2. Len(rest) = e2 - e - k + 1 /\ rest \in Seq(Atoms)
    BY <1>4
  <2> HIDE DEF rest, head
  <2>3. /\ head \o rest \in Seq(Atoms)
        /\ Len(head \o rest) = Len(head) + Len(rest)
        /\ \A x \in 1 .. Len(head) : (head \o rest)[x] = head[x]
        /\ \A x \in Len(head) + 1 .. Len(head) + Len(rest) :
             (head \o rest)[x] = rest[x - Len(head)]
    BY <2>1, <2>2, Concat
  <2> DEFINE all == head \o rest
  <2>4. /\ all \in Seq(Atoms) /\ Len(all) = Len(line) + 1 + (e2 - e - k + 1)
        /\ \A x \in 1 .. Len(line) + 1 : all[x] = head[x]
    BY <2>1, <2>2, <2>3
  <2>5. ASSUME NEW x \in Len(line) + 2 .. Len(all)
        PROVE  all[x] = rest[x - Len(line) - 1]
    <3>1. x \in Len(head) + 1 .. Len(head) + Len(rest)
      BY <1>2, <1>7, <2>1, <2>2, <2>4
    <3>2. x - Len(head) = x - Len(line) - 1
      BY <1>7, <2>1, <3>1
    <3> QED BY <2>3, <3>1, <3>2
  <2>6. more = all
    BY DEF head
  <2> HIDE DEF all, more
  <2> QED BY <2>4, <2>5, <2>6 DEF head
<1>9. \A x \in 1 .. Len(line) : more[x] = line[x]
  BY <1>6, <1>7, <1>8
<1> DEFINE p == e + k - 1
<1>10. p \in e + 1 .. e2
  BY <1>2, <1>3
<1>11. \A x \in e + 1 .. p : text[x] = Space
  <2> HIDE DEF chunk, rest, more
  <2>1. ASSUME NEW x \in e + 1 .. p PROVE text[x] = Space
    <3>1. x - e \in 1 .. k - 1 /\ x - e \in 1 .. e2 - e
      BY <1>2
    <3>2. chunk[x - e] = text[e + (x - e)]
      BY <1>1, <3>1
    <3>3. e + (x - e) = x
      OBVIOUS
    <3> QED BY <1>2, <3>1, <3>2, <3>3
  <2> QED BY <2>1
<1>12. Len(more) = Len(line) + e2 - p + 1
  BY <1>2, <1>7, <1>8
<1>13. ASSUME NEW x \in Len(line) + 1 .. Len(more)
       PROVE  more[x] = text[x - Len(line) + p - 1]
  <2> HIDE DEF chunk, rest, more
  <2>1. CASE x = Len(line) + 1
    <3>1. more[x] = Space
      BY <1>6, <1>7, <1>8, <2>1
    <3>2. x - Len(line) + p - 1 = p
      BY <1>7, <1>10, <2>1
    <3> QED BY <1>10, <1>11, <3>1, <3>2
  <2>2. CASE x # Len(line) + 1
    <3> DEFINE y == x - Len(line) - 1
    <3>1. x \in Len(line) + 2 .. Len(more) /\ y \in 1 .. e2 - e - k + 1
      BY <1>2, <1>7, <1>8, <2>2
    <3>2. more[x] = rest[y]
      BY <1>8, <3>1
    <3>3. rest[y] = chunk[k + y - 1]
      BY <1>4, <3>1
    <3>4. k + y - 1 \in 1 .. e2 - e
      BY <1>2, <3>1
    <3>5. chunk[k + y - 1] = text[e + (k + y - 1)]
      BY <1>1, <3>4
    <3>6. e + (k + y - 1) = x - Len(line) + p - 1
      BY <1>2, <1>7, <3>1
    <3> QED BY <3>2, <3>3, <3>5, <3>6
  <2> QED BY <2>1, <2>2
<1> HIDE DEF more
<1>14. Same(more, line, 1, Len(line))
  BY <1>9 DEF Same
<1>15. Copied(more, Len(line) + 1, Len(more), text, p - 1 - Len(line))
  <2>1. ASSUME NEW x \in Len(line) + 1 .. Len(more)
        PROVE  more[x] = text[x + (p - 1 - Len(line))]
    <3>1. x - Len(line) + p - 1 = x + (p - 1 - Len(line))
      BY <1>7, <1>10
    <3> QED BY <1>13, <3>1
  <2> QED BY <2>1 DEF Copied
<1>16. LongerAt(text, e, e2, line, more, p)
  <2> HIDE DEF p
  <2> QED BY <1>8, <1>10, <1>11, <1>12, <1>14, <1>15 DEF LongerAt
<1>17. p \in Nat
  BY <1>10
<1> QED BY <1>16, <1>17 DEF Longer, more

\* White space and brackets that are copied, or that grow by more of them
\* after white space.
Marked(line, i, j) == \E x \in i .. j : line[x] \in Brackets

\* Padding that is the same in another line is padding there.
LEMMA PadsSame ==
  ASSUME NEW text, NEW more, NEW i \in Int, NEW j \in Int,
         Pads(text, i, j), Same(more, text, i, j)
  PROVE  Pads(more, i, j) /\ (Marked(more, i, j) => Marked(text, i, j))
BY DEF Pads, Marked, Same

\* So it is when it has moved.
LEMMA PadsCopied ==
  ASSUME NEW text, NEW more, NEW i \in Int, NEW j \in Int, NEW lo \in Int,
         NEW hi \in Int, NEW s \in Int, Pads(text, lo, hi),
         lo <= i + s, j + s <= hi, Copied(more, i, j, text, s)
  PROVE  Pads(more, i, j) /\ (Marked(more, i, j) => Marked(text, lo, hi))
<1>0. \A x \in i .. j : x + s \in lo .. hi /\ more[x] = text[x + s]
  BY DEF Copied
<1>1. \A x \in i .. j : more[x] \in {Space} \cup Brackets
  BY <1>0 DEF Pads
<1>2. ASSUME NEW x \in i .. j, NEW y \in i .. j, NEW z \in i .. j,
             x < y, y < z, more[x] \in Brackets, more[y] = Space
      PROVE  more[z] \notin Brackets
  <2>1. x + s < y + s /\ y + s < z + s
    BY <1>2
  <2>2. /\ x + s \in lo .. hi /\ y + s \in lo .. hi /\ z + s \in lo .. hi
        /\ text[x + s] \in Brackets /\ text[y + s] = Space
        /\ text[z + s] = more[z]
    BY <1>0, <1>2
  <2> QED BY <2>1, <2>2 DEF Pads
<1>3. Marked(more, i, j) => Marked(text, lo, hi)
  BY <1>0 DEF Marked
<1> QED BY <1>1, <1>2, <1>3 DEF Pads

Grows(text, line, more, i, n, lo, e, p, hi, m) ==
  /\ i <= n + 1 /\ lo <= e + 1 /\ e < p /\ p <= hi /\ m = n + (hi - p) + 1
  /\ Pads(line, i, n) /\ (Marked(line, i, n) => Marked(text, lo, e))
  /\ Pads(text, lo, hi) /\ text[p] = Space
  /\ Same(more, line, i, n) /\ Copied(more, n + 1, m, text, p - 1 - n)

\* Padding grows by padding after white space, if there is no bracket before
\* that white space that is not also in the text.
LEMMA PadsGrow ==
  ASSUME NEW text, NEW line, NEW more,
         NEW i \in Int, NEW n \in Int, NEW lo \in Int, NEW e \in Int,
         NEW p \in Int, NEW hi \in Int, NEW m \in Int,
         Grows(text, line, more, i, n, lo, e, p, hi, m)
  PROVE  Pads(more, i, m) /\ (Marked(more, i, m) => Marked(text, lo, hi))
<1>. /\ i <= n + 1 /\ lo <= e + 1 /\ e < p /\ p <= hi /\ m = n + (hi - p) + 1
     /\ Pads(line, i, n) /\ (Marked(line, i, n) => Marked(text, lo, e))
     /\ Pads(text, lo, hi) /\ text[p] = Space
     /\ Same(more, line, i, n) /\ Copied(more, n + 1, m, text, p - 1 - n)
  BY DEF Grows
<1>1. ASSUME NEW x \in n + 1 .. m
      PROVE  /\ x - n + p - 1 \in p .. hi /\ x - n + p - 1 \in lo .. hi
             /\ more[x] = text[x - n + p - 1]
  <2>1. more[x] = text[x + (p - 1 - n)]
    BY DEF Copied
  <2>2. x + (p - 1 - n) = x - n + p - 1
    OBVIOUS
  <2> QED BY <2>1, <2>2
<1>0. \A x \in i .. n : more[x] = line[x]
  BY DEF Same
<1>2. \A x \in i .. m : more[x] \in {Space} \cup Brackets
  <2>1. ASSUME NEW x \in i .. n PROVE more[x] \in {Space} \cup Brackets
    BY <1>0 DEF Pads
  <2>2. ASSUME NEW x \in n + 1 .. m PROVE more[x] \in {Space} \cup Brackets
    BY <1>1 DEF Pads
  <2> QED BY <2>1, <2>2
<1>3. ASSUME NEW x \in i .. m, NEW y \in i .. m, NEW z \in i .. m,
             x < y, y < z, more[x] \in Brackets, more[y] = Space,
             more[z] \in Brackets
      PROVE  FALSE
  <2>1. CASE z <= n
    <3>1. x \in i .. n /\ y \in i .. n /\ z \in i .. n
      BY <1>3, <2>1
    <3>2. /\ line[x] \in Brackets /\ line[y] = Space /\ line[z] \in Brackets
      BY <1>0, <1>3, <3>1
    <3> QED BY <1>3, <3>1, <3>2 DEF Pads
  <2>2. CASE n < z /\ x <= n
    <3>1. x \in i .. n /\ z \in n + 1 .. m
      BY <2>2
    <3>2. PICK w \in lo .. e : text[w] \in Brackets
      <4>1. line[x] \in Brackets
        BY <1>0, <1>3, <3>1
      <4> QED BY <3>1, <4>1 DEF Marked
    <3> DEFINE z2 == z - n + p - 1
    <3>3. z2 \in p .. hi /\ text[z2] \in Brackets
      BY <1>1, <1>3, <3>1
    <3>4. z2 # p
      BY <3>3, BracketsAreNoSpace
    <3>5. /\ w \in lo .. hi /\ p \in lo .. hi /\ z2 \in lo .. hi
          /\ w < p /\ p < z2
      BY <3>3, <3>4
    <3> HIDE DEF z2
    <3> QED BY <3>2, <3>3, <3>5 DEF Pads
  <2>3. CASE n < x
    <3> DEFINE x2 == x - n + p - 1
               y2 == y - n + p - 1
               z2 == z - n + p - 1
    <3>1. x \in n + 1 .. m /\ y \in n + 1 .. m /\ z \in n + 1 .. m
      BY <1>3, <2>3
    <3>2. /\ x2 \in lo .. hi /\ y2 \in lo .. hi /\ z2 \in lo .. hi
          /\ text[x2] \in Brackets /\ text[y2] = Space
          /\ text[z2] \in Brackets
      BY <1>1, <1>3, <3>1
    <3>3. x2 < y2 /\ y2 < z2
      BY <1>3
    <3> HIDE DEF x2, y2, z2
    <3> QED BY <3>2, <3>3 DEF Pads
  <2> QED BY <2>1, <2>2, <2>3
<1>4. ASSUME Marked(more, i, m) PROVE Marked(text, lo, hi)
  <2>1. PICK x \in i .. m : more[x] \in Brackets
    BY <1>4 DEF Marked
  <2>2. CASE x <= n
    <3>1. x \in i .. n /\ line[x] \in Brackets
      BY <1>0, <2>1, <2>2
    <3>2. PICK w \in lo .. e : text[w] \in Brackets
      BY <3>1 DEF Marked
    <3>3. w \in lo .. hi
      OBVIOUS
    <3> QED BY <3>2, <3>3 DEF Marked
  <2>3. CASE n < x
    BY <1>1, <2>1, <2>3 DEF Marked
  <2> QED BY <2>2, <2>3
<1> QED BY <1>2, <1>3, <1>4 DEF Pads

(***************************************************************************)
(* The line that the unfolding has made of the first e atoms of a field.   *)
(* Before the identifier it is padding, and has a bracket only if the text *)
(* has one by then; after it, the same holds of what follows it.           *)
(***************************************************************************)
Opening(text, a, e, line) ==
  /\ e <= a /\ Pads(line, 2, Len(line))
  /\ Marked(line, 2, Len(line)) => Marked(text, 2, e)

Closing(text, a, b, e, line, c) ==
  /\ b <= e /\ 1 <= c /\ c + (b - a) <= Len(line)
  /\ Pads(line, 2, c) /\ Pads(line, c + (b - a) + 1, Len(line))
  /\ \A x \in c + 1 .. c + (b - a) : line[x] = text[x - c + a]
  /\ Marked(line, c + (b - a) + 1, Len(line)) => Marked(text, b + 1, e)

Joined(text, a, b, e, line) ==
  /\ line \in Seq(Atoms) /\ line # <<>> /\ line[1] = text[1]
  /\ \/ Opening(text, a, e, line)
     \/ \E c \in Nat : Closing(text, a, b, e, line, c)

\* A line ends at e: nothing follows, or white space.
Cut(text, e) == e = Len(text) \/ text[e + 1] = Space

\* A part of padding is padding.
LEMMA PadsPart ==
  ASSUME NEW line, NEW i \in Int, NEW j \in Int, NEW lo \in Int,
         NEW hi \in Int, Pads(line, lo, hi), lo <= i, j <= hi
  PROVE  Pads(line, i, j)
<1>1. \A x \in i .. j : x \in lo .. hi
  OBVIOUS
<1> QED BY <1>1 DEF Pads

\* A field is not cut inside the identifier, which has no white space.
LEMMA CutOutside ==
  ASSUME NEW text, NEW a, NEW b, Shape(text, a, b), NEW e \in Nat,
         e <= Len(text), Cut(text, e)
  PROVE  e <= a \/ b <= e
<1>1. SUFFICES ASSUME a < e, e < b PROVE FALSE
  BY DEF Shape
<1>2. e # Len(text) /\ e + 1 \in a + 1 .. b
  BY <1>1, LenProperties DEF Shape
<1> QED BY <1>2 DEF Cut, Shape

\* The first line of a field is joined.
LEMMA JoinedFirst ==
  ASSUME NEW text, NEW a, NEW b, Shape(text, a, b), NEW e \in Nat,
         1 <= e, e <= Len(text), Cut(text, e)
  PROVE  Joined(text, a, b, e, SubSeq(text, 1, e))
<1> DEFINE line == SubSeq(text, 1, e)
<1>1. text \in Seq(Atoms) /\ Len(text) \in Nat /\ a \in Nat /\ b \in Nat
      /\ 1 <= a /\ a <= b /\ b <= Len(text)
  BY LenProperties DEF Shape
<1>2. /\ line \in Seq(Atoms) /\ Len(line) = e
      /\ \A x \in 1 .. e : line[x] = text[x]
  <2>1. \A x \in 1 .. e : text[x] \in Atoms
    BY <1>1, ElementOfSeq
  <2>2. /\ line \in Seq(Atoms) /\ Len(line) = e - 1 + 1
        /\ \A x \in 1 .. e - 1 + 1 : line[x] = text[1 + x - 1]
    BY <2>1, SubSeqProperties
  <2> QED BY <2>2
<1> HIDE DEF line
<1>3. line # <<>> /\ line[1] = text[1]
  BY <1>2, EmptySeq
<1>4. CASE e <= a
  <2>1. Pads(text, 2, e)
    BY <1>1, <1>4, PadsPart DEF Shape
  <2>2. Same(line, text, 2, e)
    BY <1>2 DEF Same
  <2>3. Pads(line, 2, e) /\ (Marked(line, 2, e) => Marked(text, 2, e))
    BY <2>1, <2>2, PadsSame
  <2> QED BY <1>2, <1>3, <1>4, <2>3 DEF Joined, Opening, line
<1>5. CASE b <= e
  <2>1. Pads(text, 2, a) /\ Pads(text, b + 1, e)
    BY <1>1, <1>5, PadsPart DEF Shape
  <2>2. Same(line, text, 2, a) /\ Same(line, text, b + 1, e)
    BY <1>1, <1>2, <1>5 DEF Same
  <2>3. Pads(line, 2, a)
    BY <1>1, <2>1, <2>2, PadsSame
  <2>4. /\ Pads(line, b + 1, e)
        /\ Marked(line, b + 1, e) => Marked(text, b + 1, e)
    <3>1. b + 1 \in Int /\ e \in Int
      BY <1>1
    <3> QED BY <2>1, <2>2, <3>1, PadsSame
  <2>5. a + (b - a) = b
    BY <1>1
  <2>6. \A x \in a + 1 .. b : line[x] = text[x - a + a]
    BY <1>1, <1>2, <1>5
  <2>7. Closing(text, a, b, e, line, a)
    BY <1>1, <1>2, <1>5, <2>3, <2>4, <2>5, <2>6 DEF Closing
  <2> QED BY <1>1, <1>2, <1>3, <2>7 DEF Joined, line
<1> QED BY <1>4, <1>5, CutOutside

\* A continuation that ends before the identifier.
LEMMA OpeningGoesOn ==
  ASSUME NEW text, NEW a, NEW b, Shape(text, a, b), NEW e \in Nat,
         NEW e2 \in Nat, 1 <= e, e < e2, e2 <= a, NEW line \in Seq(Atoms),
         line # <<>>, Opening(text, a, e, line), NEW more, NEW p \in Nat,
         LongerAt(text, e, e2, line, more, p)
  PROVE  Opening(text, a, e2, more)
<1> DEFINE n == Len(line)
           m == Len(more)
<1>1. n \in Nat /\ 1 <= n
  BY LenProperties, EmptySeq
<1>2. a \in Nat /\ b \in Nat /\ p <= e2 /\ e < p /\ m = n + (e2 - p) + 1
  BY <1>1 DEF Shape, LongerAt
<1>3. Pads(text, 2, e2) /\ text[p] = Space
  <2>1. Pads(text, 2, a)
    BY DEF Shape
  <2>2. Pads(text, 2, e2)
    BY <1>2, <2>1, PadsPart
  <2> QED BY <2>2 DEF LongerAt
<1>4. Same(more, line, 2, n) /\ Copied(more, n + 1, m, text, p - 1 - n)
  BY DEF LongerAt, Same
<1>5. Pads(line, 2, n) /\ (Marked(line, 2, n) => Marked(text, 2, e))
  BY DEF Opening
<1>6. m \in Int /\ n \in Int
  BY <1>1, <1>2
<1>7. Pads(more, 2, m) /\ (Marked(more, 2, m) => Marked(text, 2, e2))
  <2> HIDE DEF n, m
  <2>1. 2 <= n + 1 /\ 2 <= e + 1
    BY <1>1
  <2>2. Grows(text, line, more, 2, n, 2, e, p, e2, m)
    BY <1>2, <1>3, <1>4, <1>5, <2>1 DEF Grows
  <2> QED BY <1>6, <2>2, PadsGrow
<1> QED BY <1>7 DEF Opening

\* One that holds the identifier: all of it, as it is not cut.
LEMMA OpeningEnds ==
  ASSUME NEW text, NEW a, NEW b, Shape(text, a, b), NEW e \in Nat,
         NEW e2 \in Nat, 1 <= e, e < e2, b <= e2, e2 <= Len(text),
         NEW line \in Seq(Atoms),
         line # <<>>, Opening(text, a, e, line), NEW more, NEW p \in Nat,
         LongerAt(text, e, e2, line, more, p)
  PROVE  \E c \in Nat : Closing(text, a, b, e2, more, c)
<1> DEFINE n == Len(line)
           m == Len(more)
<1>1. n \in Nat /\ 1 <= n
  BY LenProperties, EmptySeq
<1>2. /\ a \in Nat /\ b \in Nat /\ a <= b /\ e <= a
      /\ p <= e2 /\ e < p /\ m = n + (e2 - p) + 1
  BY <1>1 DEF Shape, LongerAt, Opening
<1>3. text[p] = Space
  BY <1>2 DEF LongerAt
<1>4. Same(more, line, 2, n)
  BY DEF LongerAt, Same
<1>5. Copied(more, n + 1, m, text, p - 1 - n)
  BY DEF LongerAt
<1>6. Pads(line, 2, n) /\ (Marked(line, 2, n) => Marked(text, 2, e))
  BY DEF Opening
<1>7. m \in Int /\ n \in Int
  BY <1>1, <1>2
<1>8. Pads(text, 2, a) /\ Pads(text, b + 1, e2)
  <2>1. /\ Len(text) \in Int /\ b + 1 \in Int /\ b + 1 <= b + 1
        /\ Pads(text, b + 1, Len(text))
    BY <1>2, LenProperties DEF Shape
  <2>2. Pads(text, b + 1, e2)
    BY <2>1, PadsPart
  <2> QED BY <2>2 DEF Shape
<1> HIDE DEF n, m
<1>9. CASE p <= a
  <2> DEFINE c == n + (a - p) + 1
             d == c + (b - a)
  <2>1. /\ c \in Nat /\ 1 <= c /\ c + (b - a) \in Int /\ c + (b - a) <= m
        /\ n + 1 <= c
    BY <1>1, <1>2, <1>9
  <2>2. Copied(more, n + 1, c, text, p - 1 - n)
    BY <1>1, <1>2, <1>5, <1>9, <2>1 DEF Copied
  <2>3. Pads(more, 2, c)
    <3>1. 2 <= n + 1 /\ 2 <= e + 1 /\ c \in Int /\ c = n + (a - p) + 1
      BY <1>1, <2>1
    <3> HIDE DEF c
    <3>2. Grows(text, line, more, 2, n, 2, e, p, a, c)
      BY <1>2, <1>3, <1>4, <1>6, <1>8, <1>9, <2>2, <3>1 DEF Grows
    <3> QED BY <1>2, <1>7, <3>1, <3>2, PadsGrow
  <2>4. \A x \in c + 1 .. c + (b - a) : more[x] = text[x - c + a]
    <3>1. ASSUME NEW x \in c + 1 .. c + (b - a)
          PROVE  more[x] = text[x - c + a]
      <4>1. x \in n + 1 .. m
        BY <1>1, <1>2, <2>1
      <4>2. more[x] = text[x + (p - 1 - n)]
        BY <1>5, <4>1 DEF Copied
      <4>3. x + (p - 1 - n) = x - c + a
        BY <1>1, <1>2
      <4> QED BY <4>2, <4>3
    <3> QED BY <3>1
  <2>5. Copied(more, d + 1, m, text, p - 1 - n)
    BY <1>1, <1>2, <1>5, <2>1 DEF Copied
  <2>6. /\ Pads(more, d + 1, m)
        /\ Marked(more, d + 1, m) => Marked(text, b + 1, e2)
    <3>1. /\ d + 1 \in Int /\ b + 1 \in Int /\ p - 1 - n \in Int
          /\ b + 1 <= d + 1 + (p - 1 - n) /\ m + (p - 1 - n) <= e2
      BY <1>1, <1>2
    <3> DEFINE s == p - 1 - n
               d1 == d + 1
               b1 == b + 1
    <3>2. /\ d1 \in Int /\ b1 \in Int /\ s \in Int /\ b1 <= d1 + s
          /\ m + s <= e2 /\ Copied(more, d1, m, text, s) /\ Pads(text, b1, e2)
      BY <1>8, <2>5, <3>1
    <3>3. /\ Pads(more, d1, m)
          /\ Marked(more, d1, m) => Marked(text, b1, e2)
      <4> HIDE DEF d1, s, b1, d
      <4> QED BY <1>7, <3>2, PadsCopied
    <3> QED BY <3>3
  <2> HIDE DEF c
  <2> QED BY <2>1, <2>3, <2>4, <2>6 DEF Closing, m
<1>10. CASE a < p
  <2>1. a = b
    <3>1. SUFFICES ASSUME a < b PROVE FALSE
      BY <1>2
    <3>2. text[a + 1] = Space
      <4>1. a + 1 \in e + 1 .. p
        BY <1>2, <1>10
      <4> QED BY <4>1 DEF LongerAt
    <3> QED BY <1>2, <3>1, <3>2 DEF Shape
  <2>2. Pads(more, 2, n)
    BY <1>4, <1>6, <1>7, PadsSame
  <2>3. /\ Pads(more, n + 1, m)
        /\ Marked(more, n + 1, m) => Marked(text, b + 1, e2)
    <3> DEFINE s == p - 1 - n
               d1 == n + 1
               b1 == b + 1
    <3>2. /\ d1 \in Int /\ b1 \in Int /\ s \in Int /\ b1 <= d1 + s
          /\ m + s <= e2 /\ Copied(more, d1, m, text, s) /\ Pads(text, b1, e2)
      BY <1>1, <1>2, <1>5, <1>8, <1>10, <2>1
    <3>3. /\ Pads(more, d1, m)
          /\ Marked(more, d1, m) => Marked(text, b1, e2)
      <4> HIDE DEF d1, s, b1
      <4> QED BY <1>7, <3>2, PadsCopied
    <3> QED BY <3>3
  <2>4. n + (b - a) = n /\ n + 1 <= m /\ n <= m
    BY <1>1, <1>2, <2>1
  <2>5. \A x \in n + 1 .. n + (b - a) : more[x] = text[x - n + a]
    BY <1>1, <2>4
  <2> QED BY <1>1, <2>2, <2>3, <2>4, <2>5 DEF Closing, m
<1> QED BY <1>2, <1>9, <1>10

\* One after the identifier.
LEMMA ClosingGoesOn ==
  ASSUME NEW text, NEW a, NEW b, Shape(text, a, b), NEW e \in Nat,
         NEW e2 \in Nat, 1 <= e, e < e2, e2 <= Len(text),
         NEW line \in Seq(Atoms), line # <<>>, NEW c \in Nat,
         Closing(text, a, b, e, line, c), NEW more, NEW p \in Nat,
         LongerAt(text, e, e2, line, more, p)
  PROVE  Closing(text, a, b, e2, more, c)
<1> DEFINE n == Len(line)
           m == Len(more)
           d == c + (b - a)
           d1 == d + 1
           b1 == b + 1
<1>1. n \in Nat /\ 1 <= n
  BY LenProperties, EmptySeq
<1>2. /\ a \in Nat /\ b \in Nat /\ a <= b /\ b <= e /\ 1 <= c /\ d <= n
      /\ p <= e2 /\ e < p /\ m = n + (e2 - p) + 1
  BY <1>1 DEF Shape, LongerAt, Closing
<1>3. text[p] = Space
  BY <1>2 DEF LongerAt
<1>4. Same(more, line, 2, c) /\ Same(more, line, d1, n)
      /\ \A x \in 1 .. n : more[x] = line[x]
  BY <1>1, <1>2 DEF LongerAt, Same
<1>5. Copied(more, n + 1, m, text, p - 1 - n)
  BY DEF LongerAt
<1>6. /\ Pads(line, 2, c) /\ Pads(line, d1, n)
      /\ Marked(line, d1, n) => Marked(text, b1, e)
      /\ \A x \in c + 1 .. d : line[x] = text[x - c + a]
  BY DEF Closing
<1>7. m \in Int /\ n \in Int /\ d1 \in Int /\ b1 \in Int /\ c \in Int
      /\ d1 <= n + 1 /\ b1 <= e + 1
  BY <1>1, <1>2
<1>8. Pads(text, b1, e2)
  <2>1. Len(text) \in Int /\ b1 <= b1 /\ Pads(text, b1, Len(text))
    BY <1>2, LenProperties DEF Shape
  <2> HIDE DEF b1
  <2> QED BY <1>7, <2>1, PadsPart
<1>9. Pads(more, 2, c)
  BY <1>4, <1>6, <1>7, PadsSame
<1>10. Pads(more, d1, m) /\ (Marked(more, d1, m) => Marked(text, b1, e2))
  <2> HIDE DEF n, m, d1, b1, d
  <2>1. Grows(text, line, more, d1, n, b1, e, p, e2, m)
    BY <1>2, <1>3, <1>4, <1>5, <1>6, <1>7, <1>8 DEF Grows
  <2> QED BY <1>7, <2>1, PadsGrow
<1>11. \A x \in c + 1 .. d : more[x] = text[x - c + a]
  <2>1. \A x \in c + 1 .. d : x \in 1 .. n
    BY <1>1, <1>2
  <2> QED BY <1>4, <1>6, <2>1
<1>12. d <= m /\ b <= e2
  BY <1>1, <1>2
<1> QED BY <1>2, <1>9, <1>10, <1>11, <1>12 DEF Closing

\* A line that is joined stays so with each continuation.
LEMMA JoinedNext ==
  ASSUME NEW text, NEW a, NEW b, Shape(text, a, b), NEW e \in Nat,
         NEW e2 \in Nat, 1 <= e, e < e2, e2 <= Len(text), Cut(text, e2),
         NEW line, Joined(text, a, b, e, line),
         NEW more, Longer(text, e, e2, line, more)
  PROVE  Joined(text, a, b, e2, more)
<1>1. line \in Seq(Atoms) /\ line # <<>> /\ line[1] = text[1]
  BY DEF Joined
<1>2. Len(line) \in Nat /\ 1 <= Len(line)
  BY <1>1, LenProperties, EmptySeq
<1>3. PICK p \in Nat : LongerAt(text, e, e2, line, more, p)
  BY DEF Longer
<1>4. more \in Seq(Atoms) /\ more # <<>> /\ more[1] = text[1]
  <2>1. more \in Seq(Atoms) /\ Len(more) # 0
    BY <1>2, <1>3 DEF LongerAt
  <2>2. more[1] = line[1]
    BY <1>2, <1>3 DEF LongerAt, Same
  <2> QED BY <1>1, <2>1, <2>2, EmptySeq
<1>5. a \in Nat /\ b \in Nat /\ (e2 <= a \/ b <= e2)
  BY CutOutside DEF Shape
<1>6. CASE Opening(text, a, e, line) /\ e2 <= a
  <2>1. Opening(text, a, e2, more)
    BY <1>1, <1>3, <1>6, OpeningGoesOn
  <2> QED BY <1>4, <2>1 DEF Joined
<1>7. CASE Opening(text, a, e, line) /\ b <= e2
  <2>1. \E c \in Nat : Closing(text, a, b, e2, more, c)
    BY <1>1, <1>3, <1>7, OpeningEnds
  <2> QED BY <1>4, <2>1 DEF Joined
<1>8. ASSUME NEW c \in Nat, Closing(text, a, b, e, line, c)
      PROVE  Joined(text, a, b, e2, more)
  <2>1. Closing(text, a, b, e2, more, c)
    BY <1>1, <1>3, <1>8, ClosingGoesOn
  <2> QED BY <1>4, <2>1 DEF Joined
<1> QED BY <1>5, <1>6, <1>7, <1>8 DEF Joined

\* When all of the text is there, what the line has for a value is the
\* identifier.
LEMMA JoinedWhole ==
  ASSUME NEW text, NEW a, NEW b, Shape(text, a, b),
         NEW line, Joined(text, a, b, Len(text), line)
  PROVE  Value(line) = SubSeq(text, a + 1, b)
<1>1. /\ line \in Seq(Atoms) /\ line # <<>> /\ line[1] # Space
      /\ Len(line) \in Nat /\ 1 <= Len(line)
  BY LenProperties, EmptySeq DEF Joined, Shape
<1>2. /\ text \in Seq(Atoms) /\ Len(text) \in Nat /\ a \in Nat /\ b \in Nat
      /\ 1 <= a /\ a <= b /\ b <= Len(text)
  BY LenProperties DEF Shape
<1>3. CASE Opening(text, a, Len(text), line)
  <2>1. a = b /\ Pads(line, 2, Len(line))
    BY <1>2, <1>3 DEF Opening
  <2>2. Pads(line, Len(line) + 1, Len(line))
    BY <1>1 DEF Pads
  <2>3. Value(line) = <<>>
    BY <1>1, <2>1, <2>2, ValueOfNothing
  <2>4. SubSeq(text, a + 1, b) = <<>>
    BY <1>2, <2>1, SubSeqEmpty
  <2> QED BY <2>3, <2>4
<1>4. ASSUME NEW c \in Nat, Closing(text, a, b, Len(text), line, c)
      PROVE  Value(line) = SubSeq(text, a + 1, b)
  <2> DEFINE d == c + (b - a)
  <2>1. /\ 1 <= c /\ d <= Len(line) /\ c <= d /\ d \in Nat
        /\ Pads(line, 2, c) /\ Pads(line, d + 1, Len(line))
        /\ \A x \in c + 1 .. d : line[x] = text[x - c + a]
    BY <1>2, <1>4 DEF Closing
  <2>2. \A x \in c + 1 .. d : x - c + a \in a + 1 .. b
    BY <1>2
  <2>3. \A x \in c + 1 .. d : line[x] # Space
    BY <2>1, <2>2 DEF Shape
  <2>4. c < d => Edge(line[c + 1]) /\ Edge(line[d])
    <3>1. SUFFICES ASSUME c < d PROVE Edge(line[c + 1]) /\ Edge(line[d])
      OBVIOUS
    <3>2. a < b /\ c + 1 \in c + 1 .. d /\ d \in c + 1 .. d
      BY <1>2, <2>1, <3>1
    <3>3. (c + 1) - c + a = a + 1 /\ d - c + a = b
      BY <1>2
    <3>4. line[c + 1] = text[a + 1] /\ line[d] = text[b]
      BY <2>1, <3>2, <3>3
    <3> QED BY <3>2, <3>4 DEF Shape
  <2>5. Shape(line, c, d)
    BY <1>1, <2>1, <2>3, <2>4 DEF Shape
  <2>6. Value(line) = SubSeq(line, c + 1, d)
    <3> HIDE DEF d
    <3> QED BY <2>5, ValueOfShape
  <2> DEFINE s == SubSeq(line, c + 1, d)
             t == SubSeq(text, a + 1, b)
  <2>7. /\ s \in Seq(Atoms) /\ Len(s) = b - a
        /\ \A x \in 1 .. b - a : s[x] = line[c + x]
    <3>1. \A x \in c + 1 .. d : line[x] \in Atoms
      BY <1>1, <2>1, ElementOfSeq
    <3>2. /\ s \in Seq(Atoms)
          /\ Len(s) = IF c + 1 <= d THEN d - (c + 1) + 1 ELSE 0
          /\ \A x \in 1 .. d - (c + 1) + 1 : s[x] = line[(c + 1) + x - 1]
      BY <2>1, <3>1, SubSeqProperties
    <3> HIDE DEF s
    <3>3. Len(s) = b - a
      BY <1>2, <2>1, <3>2
    <3>4. ASSUME NEW x \in 1 .. b - a PROVE s[x] = line[c + x]
      <4>1. x \in 1 .. d - (c + 1) + 1 /\ (c + 1) + x - 1 = c + x
        BY <1>2
      <4> QED BY <3>2, <4>1
    <3> QED BY <3>2, <3>3, <3>4
  <2>8. /\ t \in Seq(Atoms) /\ Len(t) = b - a
        /\ \A x \in 1 .. b - a : t[x] = text[a + x]
    <3>1. \A x \in a + 1 .. b : text[x] \in Atoms
      BY <1>2, ElementOfSeq
    <3>2. /\ t \in Seq(Atoms)
          /\ Len(t) = IF a + 1 <= b THEN b - (a + 1) + 1 ELSE 0
          /\ \A x \in 1 .. b - (a + 1) + 1 : t[x] = text[(a + 1) + x - 1]
      BY <1>2, <3>1, SubSeqProperties
    <3> HIDE DEF t
    <3> QED BY <1>2, <3>2
  <2>9. ASSUME NEW x \in 1 .. b - a PROVE s[x] = t[x]
    <3>1. c + x \in c + 1 .. d /\ (c + x) - c + a = a + x
      BY <1>2
    <3>2. line[c + x] = text[a + x]
      BY <2>1, <3>1
    <3> HIDE DEF s, t
    <3> QED BY <2>7, <2>8, <3>2
  <2>10. s = t
    <3> HIDE DEF s, t
    <3> QED BY <2>7, <2>8, <2>9, SeqEqual
  <2> QED BY <2>6, <2>10
<1> QED BY <1>3, <1>4 DEF Joined

\* Induction over the sequences of a set, one element more at a time.
LEMMA SeqInduction ==
  ASSUME NEW X, NEW P \in SUBSET Seq(X), <<>> \in P,
         \A s \in P, x \in X : Append(s, x) \in P
  PROVE  P = Seq(X)
<1> DEFINE Q == {n \in Nat : \A s \in Seq(X) : Len(s) = n => s \in P}
<1>1. 0 \in Q
  BY EmptySeq
<1>2. ASSUME NEW n \in Q PROVE n + 1 \in Q
  <2>1. ASSUME NEW s \in Seq(X), Len(s) = n + 1 PROVE s \in P
    <3>1. s # <<>>
      BY <2>1, EmptySeq
    <3>2. PICK t \in Seq(X), x \in X : s = Append(t, x)
      BY <3>1, SequenceEmptyOrAppend
    <3>3. Len(t) = n
      BY <2>1, <3>2, AppendProperties, LenProperties
    <3> QED BY <3>2, <3>3
  <2> QED BY <2>1
<1>3. Q = Nat
  <2> HIDE DEF Q
  <2>1. Q \in SUBSET Nat
    BY DEF Q
  <2> QED BY <1>1, <1>2, <2>1, Induction
<1> QED BY <1>3, LenProperties

(***************************************************************************)
(* The two recursions, one line or one field more.                         *)
(***************************************************************************)
IsUnfolding(g, lines) ==
  g = [n \in 0 .. Len(lines) |->
         IF n = 0 THEN <<>> ELSE AddLine(g[n - 1], lines[n])]

\* The function that Unfolded chooses exists.
LEMMA Unfolds ==
  ASSUME NEW lines \in Seq(Seq(Atoms))
  PROVE  \E g : IsUnfolding(g, lines) /\ Unfolded(lines) = g[Len(lines)]
<1> DEFINE Is(g, m) ==
             g = [n \in 0 .. m |->
                    IF n = 0 THEN <<>> ELSE AddLine(g[n - 1], lines[n])]
           P == {m \in Nat : \E g : Is(g, m)}
<1>1. 0 \in P
  <2>1. Is([n \in 0 .. 0 |-> <<>>], 0)
    OBVIOUS
  <2> QED BY <2>1
<1>2. ASSUME NEW m \in P PROVE m + 1 \in P
  <2>1. PICK g : Is(g, m)
    OBVIOUS
  <2> DEFINE h == [n \in 0 .. m + 1 |->
                     IF n = m + 1 THEN AddLine(g[m], lines[m + 1]) ELSE g[n]]
  <2>2. ASSUME NEW n \in 0 .. m + 1
        PROVE  h[n] = IF n = 0 THEN <<>> ELSE AddLine(h[n - 1], lines[n])
    BY <2>1
  <2>3. Is(h, m + 1)
    BY <2>2
  <2>4. m + 1 \in Nat
    OBVIOUS
  <2> QED BY <2>3, <2>4
<1>3. P = Nat
  <2>1. P \in SUBSET Nat
    OBVIOUS
  <2> HIDE DEF P
  <2> QED BY <1>1, <1>2, <2>1, Induction
<1>4. Len(lines) \in Nat
  BY LenProperties
<1>5. \E g : Is(g, Len(lines))
  BY <1>3, <1>4
<1> QED BY <1>5 DEF IsUnfolding, Unfolded

\* No lines unfold to none.
LEMMA UnfoldedEmpty == Unfolded(<<>>) = <<>>
<1>1. <<>> \in Seq(Seq(Atoms)) /\ Len(<<>>) = 0
  BY EmptySeq
<1>2. PICK g : IsUnfolding(g, <<>>) /\ Unfolded(<<>>) = g[Len(<<>>)]
  BY <1>1, Unfolds
<1> QED BY <1>1, <1>2 DEF IsUnfolding

\* One line more is one AddLine more.
LEMMA UnfoldedAppend ==
  ASSUME NEW lines \in Seq(Seq(Atoms)), NEW raw \in Seq(Atoms)
  PROVE  Unfolded(Append(lines, raw)) = AddLine(Unfolded(lines), raw)
<1> DEFINE more == Append(lines, raw)
           m == Len(lines)
<1>1. /\ m \in Nat /\ more \in Seq(Seq(Atoms)) /\ Len(more) = m + 1
      /\ \A n \in 1 .. m : more[n] = lines[n]
      /\ more[m + 1] = raw
  BY AppendProperties, LenProperties
<1>2. PICK g : IsUnfolding(g, lines) /\ Unfolded(lines) = g[m]
  BY Unfolds
<1>3. PICK h : IsUnfolding(h, more) /\ Unfolded(more) = h[m + 1]
  BY <1>1, Unfolds
<1> HIDE DEF more, m
<1>4. \A n \in 0 .. m : g[n] = IF n = 0 THEN <<>> ELSE AddLine(g[n - 1], lines[n])
  BY <1>2 DEF IsUnfolding, m
<1>5. \A n \in 0 .. m + 1 :
        h[n] = IF n = 0 THEN <<>> ELSE AddLine(h[n - 1], more[n])
  BY <1>1, <1>3 DEF IsUnfolding
<1> DEFINE P == {n \in Nat : n <= m => h[n] = g[n]}
<1>6. 0 \in P
  BY <1>1, <1>4, <1>5
<1>7. ASSUME NEW n \in P PROVE n + 1 \in P
  <2>1. SUFFICES ASSUME n + 1 <= m PROVE h[n + 1] = g[n + 1]
    OBVIOUS
  <2>2. h[n + 1] = AddLine(h[n], more[n + 1])
    BY <1>1, <1>5, <2>1
  <2>3. g[n + 1] = AddLine(g[n], lines[n + 1])
    BY <1>1, <1>4, <2>1
  <2>4. h[n] = g[n] /\ more[n + 1] = lines[n + 1]
    BY <1>1, <2>1
  <2> QED BY <2>2, <2>3, <2>4
<1>8. P = Nat
  <2>1. P \in SUBSET Nat
    OBVIOUS
  <2> HIDE DEF P
  <2> QED BY <1>6, <1>7, <2>1, Induction
<1>9. h[m] = g[m]
  BY <1>1, <1>8
<1> QED BY <1>1, <1>2, <1>3, <1>5, <1>9 DEF more

IsListing(g, fields, shown) ==
  g = [n \in 0 .. Len(fields) |->
         IF n = 0 THEN <<>>
         ELSE IF n \in shown THEN g[n - 1] \o Rendered(fields[n])
         ELSE g[n - 1]]

\* The function that Lines chooses exists.
LEMMA Lists ==
  ASSUME NEW fields \in Seq(Fields), NEW shown
  PROVE  \E g : /\ IsListing(g, fields, shown)
                /\ Lines(fields, shown) = g[Len(fields)]
<1> DEFINE More(u, n) ==
             IF n \in shown THEN u \o Rendered(fields[n]) ELSE u
           Is(g, m) ==
             g = [n \in 0 .. m |-> IF n = 0 THEN <<>> ELSE More(g[n - 1], n)]
           P == {m \in Nat : \E g : Is(g, m)}
<1>1. 0 \in P
  <2>1. Is([n \in 0 .. 0 |-> <<>>], 0)
    OBVIOUS
  <2> QED BY <2>1
<1>2. ASSUME NEW m \in P PROVE m + 1 \in P
  <2>1. PICK g : Is(g, m)
    OBVIOUS
  <2> DEFINE h == [n \in 0 .. m + 1 |->
                     IF n = m + 1 THEN More(g[m], m + 1) ELSE g[n]]
  <2> HIDE DEF More
  <2>2. ASSUME NEW n \in 0 .. m + 1
        PROVE  h[n] = IF n = 0 THEN <<>> ELSE More(h[n - 1], n)
    BY <2>1
  <2>3. Is(h, m + 1)
    BY <2>2
  <2>4. m + 1 \in Nat
    OBVIOUS
  <2> QED BY <2>3, <2>4
<1>3. P = Nat
  <2>1. P \in SUBSET Nat
    OBVIOUS
  <2> HIDE DEF P
  <2> QED BY <1>1, <1>2, <2>1, Induction
<1>4. Len(fields) \in Nat
  BY LenProperties
<1>5. \E g : Is(g, Len(fields))
  BY <1>3, <1>4
<1> QED BY <1>5 DEF IsListing, Lines

\* No fields have no lines.
LEMMA LinesEmpty == ASSUME NEW shown PROVE Lines(<<>>, shown) = <<>>
<1>1. <<>> \in Seq(Fields) /\ Len(<<>>) = 0
  BY EmptySeq
<1>2. PICK g : IsListing(g, <<>>, shown) /\ Lines(<<>>, shown) = g[Len(<<>>)]
  BY <1>1, Lists
<1> QED BY <1>1, <1>2 DEF IsListing

\* One field more adds its lines if it is shown.
LEMMA LinesAppend ==
  ASSUME NEW fields \in Seq(Fields), NEW f \in Fields, NEW shown
  PROVE  Lines(Append(fields, f), shown) =
           IF Len(fields) + 1 \in shown
           THEN Lines(fields, shown) \o Rendered(f) ELSE Lines(fields, shown)
<1> DEFINE more == Append(fields, f)
           m == Len(fields)
<1>1. /\ m \in Nat /\ more \in Seq(Fields) /\ Len(more) = m + 1
      /\ \A n \in 1 .. m : more[n] = fields[n]
      /\ more[m + 1] = f
  BY AppendProperties, LenProperties
<1>2. PICK g : IsListing(g, fields, shown) /\ Lines(fields, shown) = g[m]
  BY Lists
<1>3. PICK h : IsListing(h, more, shown) /\ Lines(more, shown) = h[m + 1]
  BY <1>1, Lists
<1> HIDE DEF more, m
<1>4. \A n \in 0 .. m :
        g[n] = IF n = 0 THEN <<>>
               ELSE IF n \in shown THEN g[n - 1] \o Rendered(fields[n])
               ELSE g[n - 1]
  BY <1>2 DEF IsListing, m
<1>5. \A n \in 0 .. m + 1 :
        h[n] = IF n = 0 THEN <<>>
               ELSE IF n \in shown THEN h[n - 1] \o Rendered(more[n])
               ELSE h[n - 1]
  BY <1>1, <1>3 DEF IsListing
<1> DEFINE P == {n \in Nat : n <= m => h[n] = g[n]}
<1>6. 0 \in P
  BY <1>1, <1>4, <1>5
<1>7. ASSUME NEW n \in P PROVE n + 1 \in P
  <2>1. SUFFICES ASSUME n + 1 <= m PROVE h[n + 1] = g[n + 1]
    OBVIOUS
  <2>2. h[n + 1] = IF n + 1 \in shown THEN h[n] \o Rendered(more[n + 1])
                   ELSE h[n]
    BY <1>1, <1>5, <2>1
  <2>3. g[n + 1] = IF n + 1 \in shown THEN g[n] \o Rendered(fields[n + 1])
                   ELSE g[n]
    BY <1>1, <1>4, <2>1
  <2>4. h[n] = g[n] /\ more[n + 1] = fields[n + 1]
    BY <1>1, <2>1
  <2> QED BY <2>2, <2>3, <2>4
<1>8. P = Nat
  <2>1. P \in SUBSET Nat
    OBVIOUS
  <2> HIDE DEF P
  <2> QED BY <1>6, <1>7, <2>1, Induction
<1>9. h[m] = g[m]
  BY <1>1, <1>8
<1>10. m + 1 \in 0 .. m + 1 /\ m + 1 # 0 /\ m + 1 - 1 = m
  BY <1>1
<1>11. h[m + 1] = IF m + 1 \in shown THEN h[m] \o Rendered(more[m + 1]) ELSE h[m]
  BY <1>1, <1>5, <1>10
<1> QED BY <1>1, <1>2, <1>3, <1>9, <1>11 DEF more, m

(***************************************************************************)
(* The fields.                                                             *)
(***************************************************************************)

\* What Padding says of a sequence, of its place in a line.
LEMMA PadsOfPadding ==
  ASSUME NEW p \in Padding, NEW text, NEW i \in Nat,
         \A x \in 1 .. Len(p) : text[i + x] = p[x]
  PROVE  Pads(text, i + 1, i + Len(p))
<1>1. /\ p \in Seq({Space} \cup Brackets) /\ Len(p) \in Nat
      /\ DOMAIN p = 1 .. Len(p)
      /\ \A x \in 1 .. Len(p) : p[x] \in {Space} \cup Brackets
  BY LenProperties, ElementOfSeq DEF Padding
<1>2. \A x \in i + 1 .. i + Len(p) : x - i \in 1 .. Len(p) /\ text[x] = p[x - i]
  <2>1. ASSUME NEW x \in i + 1 .. i + Len(p)
        PROVE  x - i \in 1 .. Len(p) /\ text[x] = p[x - i]
    <3>1. x - i \in 1 .. Len(p) /\ i + (x - i) = x
      BY <1>1
    <3> QED BY <3>1
  <2> QED BY <2>1
<1>3. \A x, y, z \in 1 .. Len(p) :
        x < y /\ y < z /\ p[x] \in Brackets /\ p[y] = Space
          => p[z] \notin Brackets
  BY <1>1 DEF Padding
<1>4. ASSUME NEW x \in i + 1 .. i + Len(p), NEW y \in i + 1 .. i + Len(p),
             NEW z \in i + 1 .. i + Len(p), x < y, y < z,
             text[x] \in Brackets, text[y] = Space
      PROVE  text[z] \notin Brackets
  <2>1. x - i < y - i /\ y - i < z - i
    BY <1>4
  <2>2. /\ x - i \in 1 .. Len(p) /\ y - i \in 1 .. Len(p)
        /\ z - i \in 1 .. Len(p)
        /\ p[x - i] \in Brackets /\ p[y - i] = Space /\ text[z] = p[z - i]
    BY <1>2, <1>4
  <2> QED BY <1>3, <2>1, <2>2
<1> QED BY <1>1, <1>2, <1>4 DEF Pads

\* The atoms of two lines put together, by their place in each.
LEMMA ConcatAt ==
  ASSUME NEW s \in Seq(Atoms), NEW t \in Seq(Atoms)
  PROVE  /\ s \o t \in Seq(Atoms)
         /\ Len(s \o t) = Len(s) + Len(t)
         /\ \A x \in 1 .. Len(s) : (s \o t)[x] = s[x]
         /\ \A x \in 1 .. Len(t) : (s \o t)[Len(s) + x] = t[x]
<1>1. Len(s) \in Nat /\ Len(t) \in Nat
  BY LenProperties
<1>2. ASSUME NEW x \in 1 .. Len(t) PROVE (s \o t)[Len(s) + x] = t[x]
  <2>1. /\ Len(s) + x \in Len(s) + 1 .. Len(s) + Len(t)
        /\ (Len(s) + x) - Len(s) = x
    BY <1>1
  <2> QED BY <2>1, Concat
<1> QED BY <1>2, Concat

\* Where the parts of a field's text lie.
LEMMA TextIs ==
  ASSUME NEW f \in Fields
  PROVE  LET o == Len(f.open)
             k == Len(f.id)
             z == Len(f.close)
             text == Text(f)
         IN /\ o \in Nat /\ k \in Nat /\ z \in Nat
            /\ text \in Seq(Atoms) /\ Len(text) = 1 + o + k + z
            /\ Len(text) \in Nat /\ 1 <= Len(text)
            /\ text[1] = f.name /\ f.name \in Atoms /\ f.name # Space
            /\ \A x \in 1 .. o : text[1 + x] = f.open[x]
            /\ \A x \in 1 .. k : text[1 + o + x] = f.id[x]
            /\ \A x \in 1 .. z : text[1 + o + k + x] = f.close[x]
<1>1. /\ f.open \in Seq(Atoms) /\ f.id \in Seq(Atoms) /\ f.close \in Seq(Atoms)
      /\ f.name \in Atoms /\ f.name # Space
  BY DEF Fields
<1> DEFINE o == Len(f.open)
           k == Len(f.id)
           z == Len(f.close)
           n == <<f.name>>
           t1 == n \o f.open
           t2 == t1 \o f.id
           t3 == t2 \o f.close
<1>2. o \in Nat /\ k \in Nat /\ z \in Nat
  BY <1>1, LenProperties
<1>3. n \in Seq(Atoms) /\ Len(n) = 1 /\ n[1] = f.name
  BY <1>1
<1>4. /\ t1 \in Seq(Atoms) /\ Len(t1) = Len(n) + o
      /\ \A x \in 1 .. Len(n) : t1[x] = n[x]
      /\ \A x \in 1 .. o : t1[Len(n) + x] = f.open[x]
  <2> HIDE DEF n
  <2> QED BY <1>1, <1>3, ConcatAt
<1>5. /\ t2 \in Seq(Atoms) /\ Len(t2) = Len(t1) + k
      /\ \A x \in 1 .. Len(t1) : t2[x] = t1[x]
      /\ \A x \in 1 .. k : t2[Len(t1) + x] = f.id[x]
  <2> HIDE DEF t1
  <2> QED BY <1>1, <1>4, ConcatAt
<1>6. /\ t3 \in Seq(Atoms) /\ Len(t3) = Len(t2) + z
      /\ \A x \in 1 .. Len(t2) : t3[x] = t2[x]
      /\ \A x \in 1 .. z : t3[Len(t2) + x] = f.close[x]
  <2> HIDE DEF t2
  <2> QED BY <1>1, <1>5, ConcatAt
<1>7. t3 = Text(f)
  BY DEF Text
<1> HIDE DEF n, t1, t2, t3, o, k, z
<1>8. Len(t1) = 1 + o /\ Len(t2) = 1 + o + k /\ Len(t3) = 1 + o + k + z
  BY <1>2, <1>3, <1>4, <1>5, <1>6
<1>9. t3[1] = f.name
  BY <1>2, <1>3, <1>4, <1>5, <1>6, <1>8
<1>10. ASSUME NEW x \in 1 .. o PROVE t3[1 + x] = f.open[x]
  <2>1. 1 + x \in 1 .. 1 + o /\ 1 + x \in 1 .. 1 + o + k
    BY <1>2
  <2>2. t3[1 + x] = t1[1 + x]
    BY <1>5, <1>6, <1>8, <2>1
  <2> QED BY <1>3, <1>4, <2>2
<1>11. ASSUME NEW x \in 1 .. k PROVE t3[1 + o + x] = f.id[x]
  <2>1. 1 + o + x \in 1 .. 1 + o + k
    BY <1>2
  <2> QED BY <1>5, <1>6, <1>8, <2>1
<1>12. ASSUME NEW x \in 1 .. z PROVE t3[1 + o + k + x] = f.close[x]
  BY <1>6, <1>8
<1>13. Len(t3) \in Nat /\ 1 <= Len(t3)
  BY <1>2, <1>8
<1> QED
  BY <1>1, <1>2, <1>6, <1>7, <1>8, <1>9, <1>10, <1>11, <1>12, <1>13
  DEF o, k, z

\* The text of a Message-Id field has the shape that parse_message_id reads.
LEMMA TextShape ==
  ASSUME NEW f \in Fields, IsMessageId(f)
  PROVE  \E a, b : /\ Shape(Text(f), a, b)
                   /\ SubSeq(Text(f), a + 1, b) = f.id
<1> DEFINE o == Len(f.open)
           k == Len(f.id)
           z == Len(f.close)
           text == Text(f)
           a == 1 + o
           b == 1 + o + k
<1>1. /\ o \in Nat /\ k \in Nat /\ z \in Nat
      /\ text \in Seq(Atoms) /\ Len(text) = 1 + o + k + z
      /\ text[1] = f.name /\ f.name \in Atoms /\ f.name # Space
      /\ \A x \in 1 .. o : text[1 + x] = f.open[x]
      /\ \A x \in 1 .. k : text[1 + o + x] = f.id[x]
      /\ \A x \in 1 .. z : text[1 + o + k + x] = f.close[x]
  BY TextIs
<1>2. f.open \in Padding /\ f.id \in Identifiers /\ f.close \in Padding
  BY DEF Fields
<1>3. Pads(text, 1 + 1, 1 + o)
  <2> HIDE DEF text
  <2> QED BY <1>1, <1>2, PadsOfPadding
<1>4. Pads(text, b + 1, b + z)
  <2> HIDE DEF o, k, text
  <2>1. b \in Nat /\ \A x \in 1 .. Len(f.close) : text[b + x] = f.close[x]
    BY <1>1 DEF z
  <2> HIDE DEF b
  <2> QED BY <1>2, <2>1, PadsOfPadding
<1>5. /\ f.id \in Seq(Atoms \ {Space})
      /\ k # 0 => f.id[1] \notin Brackets /\ f.id[k] \notin Brackets
  <2>1. f.id \in Seq(Atoms \ {Space}) /\
        (f.id # <<>> => f.id[1] \notin Brackets /\ f.id[Len(f.id)] \notin Brackets)
    BY <1>2 DEF Identifiers
  <2>2. f.id = <<>> => k = 0
    BY EmptySeq
  <2> QED BY <2>1, <2>2
<1>12. f.id \in Seq(Atoms)
  BY DEF Fields
<1>6. \A x \in 1 .. k : f.id[x] # Space
  BY <1>5, ElementOfSeq
<1> HIDE DEF text, o, k, z
<1>7. ASSUME NEW x \in a + 1 .. b PROVE text[x] # Space
  <2>1. x - a \in 1 .. k /\ 1 + o + (x - a) = x
    BY <1>1
  <2>2. text[1 + o + (x - a)] = f.id[x - a] /\ f.id[x - a] # Space
    BY <1>1, <1>6, <2>1
  <2> QED BY <2>1, <2>2
<1>8. a < b => Edge(text[a + 1]) /\ Edge(text[b])
  <2>1. SUFFICES ASSUME a < b PROVE Edge(text[a + 1]) /\ Edge(text[b])
    OBVIOUS
  <2>2. k # 0 /\ 1 \in 1 .. k /\ k \in 1 .. k /\ 1 + o + 1 = a + 1
        /\ 1 + o + k = b
    BY <1>1, <2>1
  <2>3. text[a + 1] = f.id[1] /\ text[b] = f.id[k]
    BY <1>1, <2>2
  <2> QED BY <1>5, <1>6, <2>2, <2>3 DEF Edge
<1>9. text # <<>>
  BY <1>1, EmptySeq
<1>10. Shape(text, a, b)
  <2>1. /\ 1 + 1 = 2 /\ a = 1 + o /\ b + z = Len(text) /\ a \in Nat /\ b \in Nat
        /\ 1 <= a /\ a <= b /\ b <= Len(text)
    BY <1>1
  <2>2. Pads(text, 2, a) /\ Pads(text, b + 1, Len(text))
    BY <1>3, <1>4, <2>1
  <2> HIDE DEF a, b
  <2> QED BY <1>1, <1>7, <1>8, <1>9, <2>1, <2>2 DEF Shape
<1>11. SubSeq(text, a + 1, b) = f.id
  <2> DEFINE s == SubSeq(text, a + 1, b)
  <2>1. \A x \in a + 1 .. b : text[x] \in Atoms
    BY <1>1, ElementOfSeq
  <2>2. /\ s \in Seq(Atoms)
        /\ Len(s) = IF a + 1 <= b THEN b - (a + 1) + 1 ELSE 0
        /\ \A x \in 1 .. b - (a + 1) + 1 : s[x] = text[(a + 1) + x - 1]
    BY <1>1, <2>1, SubSeqProperties
  <2> HIDE DEF s
  <2>3. Len(s) = k
    BY <1>1, <2>2
  <2>4. ASSUME NEW x \in 1 .. k PROVE s[x] = f.id[x]
    <3>1. x \in 1 .. b - (a + 1) + 1 /\ (a + 1) + x - 1 = 1 + o + x
      BY <1>1
    <3> QED BY <1>1, <2>2, <3>1
  <2>5. Len(f.id) = k
    BY DEF k
  <2>6. s = f.id
    BY <1>12, <2>2, <2>3, <2>4, <2>5, SeqEqual
  <2> QED BY <2>6 DEF s
<1> QED BY <1>10, <1>11 DEF text

\* Where a field is cut.
LEMMA CutsAre ==
  ASSUME NEW f \in Fields
  PROVE  LET m == Len(f.ends)
             text == Text(f)
         IN /\ m \in Nat /\ 1 <= m /\ DOMAIN f.ends = 1 .. m
            /\ f.ends[m] = Len(text)
            /\ \A j \in 1 .. m : /\ f.ends[j] \in Nat /\ 1 <= f.ends[j]
                                 /\ f.ends[j] <= Len(text)
                                 /\ Cut(text, f.ends[j])
            /\ \A j \in 1 .. m - 1 : /\ f.ends[j] < f.ends[j + 1]
                                     /\ text[f.ends[j] + 1] = Space
<1> DEFINE m == Len(f.ends)
           text == Text(f)
           ends == f.ends
<1>1. /\ ends \in Seq(Nat) /\ ends # <<>> /\ ends[m] = Len(text)
      /\ \A j \in 1 .. m - 1 : /\ ends[j] < ends[j + 1]
                               /\ text[ends[j] + 1] = Space
  BY DEF Fields
<1>2. /\ m \in Nat /\ 1 <= m /\ DOMAIN ends = 1 .. m
      /\ \A j \in 1 .. m : ends[j] \in Nat
  <2> HIDE DEF ends
  <2>1. m = Len(ends)
    BY DEF ends
  <2> HIDE DEF m
  <2> QED BY <1>1, <2>1, LenProperties, EmptySeq, ElementOfSeq
<1>3. Len(text) \in Nat /\ 1 <= Len(text) /\ text[1] # Space
  BY TextIs
<1> HIDE DEF m, text, ends
<1> DEFINE P == {d \in Nat : d < m => ends[m - d] <= Len(text)}
<1>4. 0 \in P
  BY <1>1, <1>2, <1>3
<1>5. ASSUME NEW d \in P PROVE d + 1 \in P
  <2>1. SUFFICES ASSUME d + 1 < m PROVE ends[m - (d + 1)] <= Len(text)
    OBVIOUS
  <2> DEFINE j == m - (d + 1)
  <2>2. j \in 1 .. m - 1 /\ j + 1 = m - d /\ d < m
    BY <1>2, <2>1
  <2>3. ends[j] < ends[j + 1] /\ ends[j + 1] <= Len(text)
    BY <1>1, <2>2
  <2>4. ends[j] \in Nat /\ ends[j + 1] \in Nat
    BY <1>2, <2>2
  <2> HIDE DEF j
  <2>5. ends[j] <= Len(text)
    BY <1>3, <2>3, <2>4
  <2> QED BY <2>5 DEF j
<1>6. P = Nat
  <2>1. P \in SUBSET Nat
    OBVIOUS
  <2> HIDE DEF P
  <2> QED BY <1>4, <1>5, <2>1, Induction
<1>7. ASSUME NEW j \in 1 .. m
      PROVE  /\ 1 <= ends[j] /\ ends[j] <= Len(text) /\ Cut(text, ends[j])
  <2>1. m - j \in Nat /\ m - j < m /\ m - (m - j) = j
    BY <1>2
  <2>2. ends[j] <= Len(text)
    <3>1. m - j \in P
      BY <1>6, <2>1
    <3>2. ends[m - (m - j)] <= Len(text)
      BY <2>1, <3>1
    <3> QED BY <2>1, <3>2
  <2>3. CASE j = m
    BY <1>1, <1>3, <2>2, <2>3 DEF Cut
  <2>4. CASE j # m
    <3>1. j \in 1 .. m - 1
      BY <1>2, <2>4
    <3>2. text[ends[j] + 1] = Space
      BY <1>1, <3>1
    <3>3. ends[j] # 0
      BY <1>3, <3>2
    <3> QED BY <1>2, <2>2, <3>2, <3>3 DEF Cut
  <2> QED BY <2>3, <2>4
<1> QED BY <1>1, <1>2, <1>7 DEF m, text, ends

\* The lines of a field.
LEMMA RenderedIs ==
  ASSUME NEW f \in Fields
  PROVE  LET m == Len(f.ends)
             text == Text(f)
         IN /\ Rendered(f) \in Seq(Seq(Atoms)) /\ Len(Rendered(f)) = m
            /\ Rendered(f)[1] = SubSeq(text, 1, f.ends[1])
            /\ \A j \in 1 .. m - 1 :
                 Rendered(f)[j + 1] = SubSeq(text, f.ends[j] + 1, f.ends[j + 1])
<1> DEFINE m == Len(f.ends)
           text == Text(f)
           ends == f.ends
           r == Rendered(f)
           start(j) == IF j = 1 THEN 1 ELSE ends[j - 1] + 1
<1>1. /\ m \in Nat /\ 1 <= m /\ DOMAIN ends = 1 .. m
      /\ \A j \in 1 .. m : /\ ends[j] \in Nat /\ 1 <= ends[j]
                           /\ ends[j] <= Len(text)
  BY CutsAre
<1>2. text \in Seq(Atoms) /\ Len(text) \in Nat
  BY TextIs, LenProperties
<1>3. r = [j \in DOMAIN ends |-> SubSeq(text, start(j), ends[j])]
  BY DEF Rendered
<1> HIDE DEF m, text, ends, r
<1>4. ASSUME NEW j \in 1 .. m PROVE SubSeq(text, start(j), ends[j]) \in Seq(Atoms)
  <2>1. start(j) \in Nat /\ 1 <= start(j)
    <3>1. CASE j = 1
      BY <3>1
    <3>2. CASE j # 1
      <4>1. j - 1 \in 1 .. m
        BY <1>1, <3>2
      <4> QED BY <1>1, <3>2, <4>1
    <3> QED BY <3>1, <3>2
  <2> HIDE DEF start
  <2>2. \A x \in start(j) .. ends[j] : text[x] \in Atoms
    BY <1>1, <1>2, <2>1, ElementOfSeq
  <2> QED BY <1>1, <2>1, <2>2, SubSeqProperties
<1>5. r \in [1 .. m -> Seq(Atoms)]
  BY <1>1, <1>3, <1>4
<1>6. r \in Seq(Seq(Atoms))
  BY <1>1, <1>5, SeqDef
<1>7. Len(r) = m
  <2>1. DOMAIN r = 1 .. m /\ DOMAIN r = 1 .. Len(r) /\ Len(r) \in Nat
    BY <1>5, <1>6, LenProperties
  <2> QED BY <1>1, <2>1
<1>8. r[1] = SubSeq(text, 1, ends[1])
  BY <1>1, <1>3
<1>9. ASSUME NEW j \in 1 .. m - 1
      PROVE  r[j + 1] = SubSeq(text, ends[j] + 1, ends[j + 1])
  <2>1. j + 1 \in 1 .. m /\ j + 1 # 1 /\ (j + 1) - 1 = j
    BY <1>1
  <2>2. r[j + 1] = SubSeq(text, start(j + 1), ends[j + 1])
    BY <1>1, <1>3, <2>1
  <2> QED BY <2>1, <2>2
<1> QED BY <1>6, <1>7, <1>8, <1>9 DEF m, text, ends, r

\* What the unfolding has made of a field when it has read e of its atoms.
Kept(f, e, line) ==
  /\ line \in Seq(Atoms) /\ line # <<>> /\ line[1] = f.name
  /\ IsMessageId(f) =>
       \A a, b : Shape(Text(f), a, b) => Joined(Text(f), a, b, e, line)

\* It begins with the first line of the field.
LEMMA KeptFirst ==
  ASSUME NEW f \in Fields
  PROVE  /\ Rendered(f)[1] \in Seq(Atoms) /\ Rendered(f)[1] # <<>>
         /\ Rendered(f)[1][1] # Space
         /\ Kept(f, f.ends[1], Rendered(f)[1])
<1> DEFINE text == Text(f)
           e == f.ends[1]
           line == SubSeq(text, 1, e)
<1>1. e \in Nat /\ 1 <= e /\ e <= Len(text) /\ Cut(text, e)
  <2>1. 1 \in 1 .. Len(f.ends)
    BY CutsAre
  <2> QED BY <2>1, CutsAre
<1>2. text \in Seq(Atoms) /\ text[1] = f.name /\ f.name # Space
  BY TextIs
<1>3. Rendered(f)[1] = line
  BY RenderedIs
<1> HIDE DEF text, e
<1>4. line \in Seq(Atoms) /\ Len(line) = e /\ line[1] = text[1]
  <2>1. \A x \in 1 .. e : text[x] \in Atoms
    BY <1>1, <1>2, LenProperties, ElementOfSeq
  <2>2. /\ line \in Seq(Atoms) /\ Len(line) = e - 1 + 1
        /\ \A x \in 1 .. e - 1 + 1 : line[x] = text[1 + x - 1]
    BY <1>1, <2>1, SubSeqProperties
  <2> HIDE DEF line
  <2> QED BY <1>1, <2>2
<1>5. line # <<>>
  BY <1>1, <1>4, EmptySeq
<1>6. ASSUME NEW a, NEW b, Shape(text, a, b)
      PROVE  Joined(text, a, b, e, line)
  BY <1>1, <1>6, JoinedFirst
<1> HIDE DEF line
<1>7. Kept(f, e, line)
  BY <1>2, <1>4, <1>5, <1>6 DEF Kept, text
<1> QED BY <1>2, <1>3, <1>4, <1>5, <1>7 DEF e

\* Every further line of the field continues it.
LEMMA KeptNext ==
  ASSUME NEW f \in Fields, NEW j \in 1 .. Len(f.ends) - 1, NEW line,
         Kept(f, f.ends[j], line)
  PROVE  LET raw == Rendered(f)[j + 1]
         IN /\ raw \in Seq(Atoms) /\ raw # <<>> /\ raw[1] = Space
            /\ Kept(f, f.ends[j + 1], line \o <<Space>> \o TrimStart(raw))
<1> DEFINE text == Text(f)
           e == f.ends[j]
           e2 == f.ends[j + 1]
           raw == SubSeq(text, e + 1, e2)
           more == line \o <<Space>> \o TrimStart(raw)
<1>1. /\ e \in Nat /\ 1 <= e /\ e < e2 /\ e2 \in Nat /\ e2 <= Len(text)
      /\ Cut(text, e2) /\ text[e + 1] = Space
  <2>1. j \in 1 .. Len(f.ends) /\ j + 1 \in 1 .. Len(f.ends)
    BY CutsAre
  <2> QED BY <2>1, CutsAre
<1>2. text \in Seq(Atoms)
  BY TextIs
<1>3. Rendered(f)[j + 1] = raw
  BY RenderedIs
<1>4. line \in Seq(Atoms) /\ line # <<>> /\ line[1] = f.name
  BY DEF Kept
<1> HIDE DEF text, e, e2
<1>5. raw \in Seq(Atoms) /\ raw # <<>> /\ raw[1] = Space
  <2>1. \A x \in e + 1 .. e2 : text[x] \in Atoms
    BY <1>1, <1>2, LenProperties, ElementOfSeq
  <2>2. /\ raw \in Seq(Atoms)
        /\ Len(raw) = IF e + 1 <= e2 THEN e2 - (e + 1) + 1 ELSE 0
        /\ \A x \in 1 .. e2 - (e + 1) + 1 : raw[x] = text[(e + 1) + x - 1]
    BY <1>1, <2>1, SubSeqProperties
  <2> HIDE DEF raw
  <2>3. Len(raw) # 0 /\ raw[1] = text[(e + 1) + 1 - 1] /\ (e + 1) + 1 - 1 = e + 1
    BY <1>1, <2>2
  <2> QED BY <1>1, <2>2, <2>3, EmptySeq
<1>6. Longer(text, e, e2, line, more)
  BY <1>1, <1>2, <1>4, Continued
<1> HIDE DEF more, raw
<1>7. more \in Seq(Atoms) /\ more # <<>> /\ more[1] = f.name
  <2>1. Len(line) \in Nat /\ 1 <= Len(line)
    BY <1>4, LenProperties, EmptySeq
  <2>2. PICK p \in e + 1 .. e2 :
          /\ more \in Seq(Atoms) /\ Len(more) = Len(line) + e2 - p + 1
          /\ Same(more, line, 1, Len(line))
    BY <1>6 DEF Longer, LongerAt
  <2>3. Len(more) # 0
    BY <1>1, <2>1, <2>2
  <2> QED BY <1>4, <2>1, <2>2, <2>3, EmptySeq DEF Same
<1>8. ASSUME IsMessageId(f), NEW a, NEW b, Shape(text, a, b)
      PROVE  Joined(text, a, b, e2, more)
  <2>1. Joined(text, a, b, e, line)
    BY <1>8 DEF Kept, text, e
  <2> QED BY <1>1, <1>6, <1>8, <2>1, JoinedNext
<1>9. Kept(f, e2, more)
  BY <1>7, <1>8 DEF Kept, text
<1> QED BY <1>3, <1>5, <1>9 DEF more, e2

\* What a line has for a value, if it has the key.
Found(line) == IF HasKey(line) THEN Value(line) ELSE <<>>
Identifier(f) == IF IsMessageId(f) THEN f.id ELSE <<>>

\* At the end it has the identifier of the field, and no other field has one.
LEMMA KeptWhole ==
  ASSUME NEW f \in Fields, NEW line, Kept(f, Len(Text(f)), line)
  PROVE  Found(line) = Identifier(f)
<1>1. line \in Seq(Atoms) /\ line # <<>> /\ line[1] = f.name
  BY DEF Kept
<1>2. f.name # Space
  BY TextIs
<1>3. HasKey(line) <=> IsMessageId(f)
  <2>1. TrimStart(line) = line
    BY <1>1, <1>2, TrimStartNothing
  <2> QED BY <1>1, <2>1 DEF HasKey, IsMessageId
<1>4. ASSUME IsMessageId(f) PROVE Value(line) = f.id
  <2>1. PICK a, b : Shape(Text(f), a, b) /\ SubSeq(Text(f), a + 1, b) = f.id
    BY <1>4, TextShape
  <2>2. Joined(Text(f), a, b, Len(Text(f)), line)
    BY <1>4, <2>1 DEF Kept
  <2> QED BY <2>1, <2>2, JoinedWhole
<1> QED BY <1>3, <1>4 DEF Found, Identifier

LinesOfAtoms == Seq(Seq(Atoms))

\* What is left of a line is a line.
LEMMA TrimStartType ==
  ASSUME NEW line \in Seq(Atoms) PROVE TrimStart(line) \in Seq(Atoms)
<1>1. PICK k \in 1 .. Len(line) + 1 : TrimStart(line) = SubSeq(line, k, Len(line))
  BY TrimStartAt
<1>2. Len(line) \in Nat /\ \A x \in k .. Len(line) : line[x] \in Atoms
  BY LenProperties, ElementOfSeq
<1> QED BY <1>1, <1>2, SubSeqProperties

\* A line that begins with white space lengthens the one before it.
LEMMA AddLineContinues ==
  ASSUME NEW u \in LinesOfAtoms, NEW line \in Seq(Atoms),
         NEW raw \in Seq(Atoms), raw # <<>>, raw[1] = Space
  PROVE  LET more == line \o <<Space>> \o TrimStart(raw)
         IN more \in Seq(Atoms)
            /\ AddLine(Append(u, line), raw) = Append(u, more)
<1> DEFINE more == line \o <<Space>> \o TrimStart(raw)
           v == Append(u, line)
           w == Append(u, more)
           n == Len(u)
<1>1. more \in Seq(Atoms)
  <2>1. <<Space>> \in Seq(Atoms)
    BY MessageAssumption
  <2>2. line \o <<Space>> \in Seq(Atoms)
    BY <2>1, Concat
  <2> QED BY <2>2, TrimStartType, Concat
<1>2. /\ n \in Nat /\ v \in Seq(Seq(Atoms)) /\ v # <<>> /\ Len(v) = n + 1
      /\ \A i \in 1 .. n : v[i] = u[i]
      /\ v[n + 1] = line
  <2>1. u \in Seq(Seq(Atoms))
    BY DEF LinesOfAtoms
  <2> QED BY <2>1, AppendProperties, LenProperties
<1>3. /\ w \in Seq(Seq(Atoms)) /\ Len(w) = n + 1
      /\ \A i \in 1 .. n : w[i] = u[i]
      /\ w[n + 1] = more
  <2> HIDE DEF more
  <2> QED BY <1>1, AppendProperties DEF LinesOfAtoms
<1>4. AddLine(v, raw) = [v EXCEPT ![n + 1] = more]
  <2>1. AddLine(v, raw)
          = [v EXCEPT ![Len(v)] = v[Len(v)] \o <<Space>> \o TrimStart(raw)]
    BY <1>2 DEF AddLine
  <2> QED BY <1>2, <2>1
<1> HIDE DEF more, v, w, n
<1> DEFINE z == [v EXCEPT ![n + 1] = more]
<1>5. /\ z \in Seq(Seq(Atoms)) /\ Len(z) = n + 1
      /\ \A i \in 1 .. n + 1 : z[i] = IF i = n + 1 THEN more ELSE v[i]
  <2>1. n + 1 \in 1 .. Len(v)
    BY <1>2
  <2> QED BY <1>1, <1>2, <2>1, ExceptSeq
<1> HIDE DEF z
<1>6. ASSUME NEW i \in 1 .. n + 1 PROVE z[i] = w[i]
  BY <1>2, <1>3, <1>5
<1>7. z = w
  BY <1>3, <1>5, <1>6, SeqEqual
<1> QED BY <1>1, <1>4, <1>7 DEF more, v, w, z

\* A line that does not begin with white space is a line of its own.
LEMMA AddLineBegins ==
  ASSUME NEW u, NEW raw, raw # <<>>, raw[1] # Space
  PROVE  AddLine(u, raw) = Append(u, raw)
BY DEF AddLine

\* An empty line is skipped.
LEMMA AddLineSkips == ASSUME NEW u PROVE AddLine(u, <<>>) = u
BY DEF AddLine

\* Lines stay sequences of atoms.
LEMMA AddLineType ==
  ASSUME NEW u \in LinesOfAtoms, NEW raw \in Seq(Atoms)
  PROVE  AddLine(u, raw) \in LinesOfAtoms
<1>1. CASE raw = <<>>
  BY <1>1, AddLineSkips
<1>2. CASE raw # <<>> /\ raw[1] = Space /\ u # <<>>
  <2>1. PICK v \in LinesOfAtoms, line \in Seq(Atoms) : u = Append(v, line)
    BY <1>2, SequenceEmptyOrAppend DEF LinesOfAtoms
  <2> DEFINE more == line \o <<Space>> \o TrimStart(raw)
  <2>2. more \in Seq(Atoms) /\ AddLine(u, raw) = Append(v, more)
    BY <1>2, <2>1, AddLineContinues
  <2> HIDE DEF more
  <2> QED BY <2>2, AppendProperties DEF LinesOfAtoms
<1>3. CASE raw # <<>> /\ ~ (raw[1] = Space /\ u # <<>>)
  <2>1. AddLine(u, raw) = Append(u, raw)
    BY <1>3 DEF AddLine
  <2> QED BY <2>1, AppendProperties DEF LinesOfAtoms
<1> QED BY <1>1, <1>2, <1>3

\* So do all of them.
LEMMA UnfoldedType ==
  ASSUME NEW lines \in LinesOfAtoms PROVE Unfolded(lines) \in LinesOfAtoms
<1> DEFINE P == {l \in LinesOfAtoms : Unfolded(l) \in LinesOfAtoms}
<1>1. <<>> \in P
  BY UnfoldedEmpty, EmptySeq DEF LinesOfAtoms
<1>2. ASSUME NEW l \in P, NEW raw \in Seq(Atoms) PROVE Append(l, raw) \in P
  <2>1. Unfolded(Append(l, raw)) = AddLine(Unfolded(l), raw)
    BY UnfoldedAppend DEF LinesOfAtoms
  <2>2. Append(l, raw) \in LinesOfAtoms
    BY AppendProperties DEF LinesOfAtoms
  <2> QED BY <2>1, <2>2, AddLineType
<1>3. P = LinesOfAtoms
  <2>1. P \in SUBSET LinesOfAtoms
    OBVIOUS
  <2> HIDE DEF P
  <2> QED BY <1>1, <1>2, <2>1, SeqInduction DEF LinesOfAtoms
<1> QED BY <1>3

\* A sequence put after another, one element at a time.
LEMMA AppendPart ==
  ASSUME NEW X, NEW s \in Seq(X), NEW r \in Seq(X), NEW j \in 1 .. Len(r)
  PROVE  /\ s \o SubSeq(r, 1, j - 1) \in Seq(X) /\ r[j] \in X
         /\ s \o SubSeq(r, 1, j) = Append(s \o SubSeq(r, 1, j - 1), r[j])
<1> DEFINE h == SubSeq(r, 1, j - 1)
<1>1. Len(r) \in Nat /\ \A x \in 1 .. Len(r) : r[x] \in X
  BY LenProperties, ElementOfSeq
<1>2. h \in Seq(X)
  <2>1. \A x \in 1 .. j - 1 : r[x] \in X
    BY <1>1
  <2> QED BY <1>1, <2>1, SubSeqProperties
<1>3. SubSeq(r, 1, j) = h \o <<r[j]>>
  <2>1. 1 \in 1 .. Len(r) /\ j \in 1 .. Len(r)
    BY <1>1
  <2> QED BY <2>1, SubSeqRecursiveSecond
<1>4. r[j] \in X /\ <<r[j]>> \in Seq(X)
  BY <1>1
<1> HIDE DEF h
<1>5. s \o (h \o <<r[j]>>) = (s \o h) \o <<r[j]>>
  BY <1>2, <1>4, ConcatAssociative
<1>6. s \o h \in Seq(X)
  BY <1>2, ConcatProperties
<1>7. Append(s \o h, r[j]) = (s \o h) \o <<r[j]>>
  BY <1>4, <1>6, AppendIsConcat
<1> QED BY <1>3, <1>4, <1>5, <1>6, <1>7 DEF h

\* A field becomes one line, and that line has the field's identifier.
LEMMA UnfoldedField ==
  ASSUME NEW lines \in LinesOfAtoms, NEW f \in Fields
  PROVE  /\ lines \o Rendered(f) \in LinesOfAtoms
         /\ \E line \in Seq(Atoms) :
              /\ Unfolded(lines \o Rendered(f)) = Append(Unfolded(lines), line)
              /\ Found(line) = Identifier(f)
<1> DEFINE m == Len(f.ends)
           r == Rendered(f)
           u == Unfolded(lines)
           Upto(k) == lines \o SubSeq(r, 1, k)
           P == {k \in Nat : k < m =>
                   \E line : /\ Unfolded(Upto(k + 1)) = Append(u, line)
                             /\ Kept(f, f.ends[k + 1], line)}
<1>1. m \in Nat /\ 1 <= m
  BY CutsAre
<1>2. r \in Seq(Seq(Atoms)) /\ Len(r) = m
  BY RenderedIs
<1>3. u \in LinesOfAtoms /\ lines \in Seq(Seq(Atoms))
  BY UnfoldedType DEF LinesOfAtoms
<1> HIDE DEF m, r, u
<1>4. ASSUME NEW k \in Nat, k < m
      PROVE  /\ Upto(k) \in Seq(Seq(Atoms)) /\ r[k + 1] \in Seq(Atoms)
             /\ Unfolded(Upto(k + 1)) = AddLine(Unfolded(Upto(k)), r[k + 1])
  <2> DEFINE j == k + 1
  <2>1. j \in 1 .. Len(r) /\ j - 1 = k
    BY <1>1, <1>2, <1>4
  <2> HIDE DEF j
  <2>2. /\ lines \o SubSeq(r, 1, j - 1) \in Seq(Seq(Atoms)) /\ r[j] \in Seq(Atoms)
        /\ lines \o SubSeq(r, 1, j) = Append(lines \o SubSeq(r, 1, j - 1), r[j])
    BY <1>2, <1>3, <2>1, AppendPart
  <2>3. /\ Upto(k) \in Seq(Seq(Atoms)) /\ r[j] \in Seq(Atoms)
        /\ Upto(j) = Append(Upto(k), r[j])
    BY <2>1, <2>2
  <2> HIDE DEF Upto
  <2>4. Unfolded(Upto(j)) = AddLine(Unfolded(Upto(k)), r[j])
    BY <2>3, UnfoldedAppend
  <2> QED BY <2>3, <2>4 DEF j
<1>5. 0 \in P
  <2>1. Upto(0) = lines
    <3>1. SubSeq(r, 1, 0) = <<>>
      BY SubSeqEmpty
    <3> QED BY <1>3, <3>1, ConcatEmptySeq
  <2> HIDE DEF Upto
  <2>2. Unfolded(Upto(0 + 1)) = AddLine(u, r[0 + 1])
    BY <1>1, <1>4, <2>1 DEF u
  <2>3. r[1] # <<>> /\ r[1][1] # Space /\ Kept(f, f.ends[1], r[1])
    BY KeptFirst DEF r
  <2>4. AddLine(u, r[1]) = Append(u, r[1])
    BY <2>3, AddLineBegins
  <2>5. Unfolded(Upto(0 + 1)) = Append(u, r[1]) /\ Kept(f, f.ends[0 + 1], r[1])
    BY <2>2, <2>3, <2>4
  <2> QED BY <2>5
<1>6. ASSUME NEW k \in P PROVE k + 1 \in P
  <2> HIDE DEF Upto
  <2>1. SUFFICES ASSUME k + 1 < m
                 PROVE  \E line : /\ Unfolded(Upto((k + 1) + 1)) = Append(u, line)
                                  /\ Kept(f, f.ends[(k + 1) + 1], line)
    OBVIOUS
  <2>2. k \in Nat /\ k < m
    BY <1>1, <2>1
  <2>3. PICK line : /\ Unfolded(Upto(k + 1)) = Append(u, line)
                    /\ Kept(f, f.ends[k + 1], line)
    BY <2>2
  <2> DEFINE j == k + 1
             raw == r[j + 1]
             more == line \o <<Space>> \o TrimStart(raw)
  <2>4. j \in 1 .. m - 1 /\ j \in Nat /\ j < m
    BY <1>1, <2>1, <2>2
  <2>5. Unfolded(Upto(j + 1)) = AddLine(Unfolded(Upto(j)), raw)
    <3> HIDE DEF j
    <3> QED BY <1>4, <2>4
  <2>6. /\ raw \in Seq(Atoms) /\ raw # <<>> /\ raw[1] = Space
        /\ Kept(f, f.ends[j + 1], more)
    <3>1. j \in 1 .. Len(f.ends) - 1 /\ Kept(f, f.ends[j], line)
      BY <2>3, <2>4 DEF m
    <3> HIDE DEF j
    <3> QED BY <3>1, KeptNext DEF r
  <2>7. line \in Seq(Atoms)
    BY <2>3 DEF Kept
  <2>8. AddLine(Append(u, line), raw) = Append(u, more)
    <3> HIDE DEF raw
    <3> QED BY <1>3, <2>6, <2>7, AddLineContinues
  <2>9. Unfolded(Upto(j)) = Append(u, line)
    BY <2>3
  <2> HIDE DEF raw, more
  <2>10. Unfolded(Upto(j + 1)) = Append(u, more)
    BY <2>5, <2>8, <2>9
  <2> QED BY <2>6, <2>10
<1>7. P = Nat
  <2>1. P \in SUBSET Nat
    OBVIOUS
  <2> HIDE DEF P
  <2> QED BY <1>5, <1>6, <2>1, Induction
<1>8. PICK line : /\ Unfolded(Upto(m)) = Append(u, line)
                  /\ Kept(f, f.ends[m], line)
  <2> HIDE DEF Upto
  <2>1. m - 1 \in Nat /\ m - 1 < m /\ (m - 1) + 1 = m
    BY <1>1
  <2>3. m - 1 \in P
    <3> HIDE DEF P
    <3> QED BY <1>7, <2>1
  <2>2. \E line : /\ Unfolded(Upto((m - 1) + 1)) = Append(u, line)
                  /\ Kept(f, f.ends[(m - 1) + 1], line)
    BY <2>1, <2>3
  <2> QED BY <2>1, <2>2
<1>9. Upto(m) = lines \o r
  BY <1>2, SubSeqFull
<1>10. lines \o r \in LinesOfAtoms
  BY <1>2, <1>3, ConcatProperties DEF LinesOfAtoms
<1>11. f.ends[m] = Len(Text(f))
  BY CutsAre DEF m
<1>12. line \in Seq(Atoms) /\ Found(line) = Identifier(f)
  BY <1>8, <1>11, KeptWhole DEF Kept
<1> HIDE DEF Upto
<1> QED BY <1>8, <1>9, <1>10, <1>12 DEF r, u

(***************************************************************************)
(* The first of n things that is not empty.                                *)
(***************************************************************************)
First(g, n) ==
  LET found == {i \in 1 .. n : g[i] # <<>>}
  IN IF found = {} THEN <<>> ELSE g[Min(found)]

\* One thing more is the first only if there was none.
LEMMA FirstGrows ==
  ASSUME NEW n \in Nat, NEW g, NEW h, \A i \in 1 .. n : h[i] = g[i]
  PROVE  First(h, n + 1) = IF First(g, n) # <<>> THEN First(g, n) ELSE h[n + 1]
<1> DEFINE old == {i \in 1 .. n : g[i] # <<>>}
           new == {i \in 1 .. n + 1 : h[i] # <<>>}
<1>1. new = old \cup (IF h[n + 1] # <<>> THEN {n + 1} ELSE {})
  OBVIOUS
<1>2. CASE old # {}
  <2>1. PICK i \in old : Min(old) = i /\ \A x \in old : i <= x
    <3>1. old \in SUBSET Nat
      OBVIOUS
    <3> HIDE DEF old
    <3> QED BY <1>2, <3>1, MinOf
  <2>2. i \in new /\ (\A x \in new : i <= x) /\ new \in SUBSET Nat
    BY <1>1, <2>1
  <2>3. Min(new) = i
    <3> HIDE DEF new, old
    <3> QED BY <2>2, MinIs
  <2>4. h[i] = g[i] /\ g[i] # <<>>
    OBVIOUS
  <2>5. First(g, n) = g[i]
    BY <1>2, <2>1 DEF First
  <2>6. First(h, n + 1) = h[i]
    BY <2>2, <2>3 DEF First
  <2> QED BY <2>4, <2>5, <2>6
<1>3. CASE old = {}
  <2>1. First(g, n) = <<>>
    BY <1>3 DEF First
  <2>2. CASE h[n + 1] # <<>>
    <3>1. new = {n + 1}
      BY <1>1, <1>3, <2>2
    <3>2. Min(new) = n + 1
      <4>1. n + 1 \in Nat /\ n + 1 \in new /\ new \in SUBSET Nat
            /\ \A x \in new : n + 1 <= x
        BY <3>1
      <4> HIDE DEF new
      <4> QED BY <4>1, MinIs
    <3>3. First(h, n + 1) = h[n + 1]
      BY <3>1, <3>2 DEF First
    <3> QED BY <2>1, <3>3
  <2>3. CASE h[n + 1] = <<>>
    <3>1. new = {}
      BY <1>1, <1>3, <2>3
    <3>2. First(h, n + 1) = <<>>
      BY <3>1 DEF First
    <3> QED BY <2>1, <2>3, <3>2
  <2> QED BY <2>2, <2>3
<1> QED BY <1>2, <1>3

Values(u) == [i \in DOMAIN u |-> Found(u[i])]
Names(fields) == [i \in DOMAIN fields |-> Identifier(fields[i])]

\* parse_message_id takes the first value that is not empty.
LEMMA FirstIdIs ==
  ASSUME NEW u \in LinesOfAtoms
  PROVE  FirstId(u) = First(Values(u), Len(u))
<1> DEFINE found == {i \in DOMAIN u : HasKey(u[i]) /\ Value(u[i]) # <<>>}
           g == Values(u)
<1>1. DOMAIN u = 1 .. Len(u)
  BY LenProperties DEF LinesOfAtoms
<1>2. found = {i \in 1 .. Len(u) : g[i] # <<>>}
  BY <1>1 DEF Values, Found
<1>3. CASE found = {}
  BY <1>2, <1>3 DEF FirstId, First
<1>4. CASE found # {}
  <2>1. found \in SUBSET Nat
    BY <1>1
  <2>2. Min(found) \in found
    <3> HIDE DEF found
    <3> QED BY <1>4, <2>1, MinOf
  <2>3. g[Min(found)] = Value(u[Min(found)])
    BY <2>2 DEF Values, Found
  <2>4. FirstId(u) = Value(u[Min(found)])
    BY <1>4 DEF FirstId, FirstOf
  <2>5. First(g, Len(u)) = g[Min(found)]
    BY <1>2, <1>4 DEF First
  <2> QED BY <2>3, <2>4, <2>5
<1> QED BY <1>3, <1>4

\* One line more has the identifier only if no line before it had one.
LEMMA FirstIdAppend ==
  ASSUME NEW u \in LinesOfAtoms, NEW line \in Seq(Atoms)
  PROVE  /\ Append(u, line) \in LinesOfAtoms
         /\ FirstId(Append(u, line)) =
              IF FirstId(u) # <<>> THEN FirstId(u) ELSE Found(line)
<1> DEFINE v == Append(u, line)
           n == Len(u)
<1>1. /\ n \in Nat /\ v \in LinesOfAtoms /\ Len(v) = n + 1
      /\ \A i \in 1 .. n : v[i] = u[i]
      /\ v[n + 1] = line
      /\ DOMAIN u = 1 .. n /\ DOMAIN v = 1 .. n + 1
  <2>1. u \in Seq(Seq(Atoms))
    BY DEF LinesOfAtoms
  <2>2. /\ v \in Seq(Seq(Atoms)) /\ Len(v) = n + 1
        /\ \A i \in 1 .. n : v[i] = u[i]
        /\ v[n + 1] = line
    BY <2>1, AppendProperties
  <2> HIDE DEF v
  <2> QED BY <2>1, <2>2, LenProperties DEF LinesOfAtoms
<1> HIDE DEF v, n
<1>2. /\ \A i \in 1 .. n : Values(v)[i] = Values(u)[i]
      /\ Values(v)[n + 1] = Found(line)
  BY <1>1 DEF Values
<1>3. First(Values(v), n + 1) =
        IF First(Values(u), n) # <<>> THEN First(Values(u), n)
        ELSE Values(v)[n + 1]
  BY <1>1, <1>2, FirstGrows
<1>4. FirstId(u) = First(Values(u), n) /\ FirstId(v) = First(Values(v), n + 1)
  BY <1>1, FirstIdIs DEF n
<1> QED BY <1>1, <1>2, <1>3, <1>4 DEF v

FirstName(fields) == First(Names(fields), Len(fields))

\* The same for one field more.
LEMMA FirstNameAppend ==
  ASSUME NEW fields \in Seq(Fields), NEW f \in Fields
  PROVE  FirstName(Append(fields, f)) =
           IF FirstName(fields) # <<>> THEN FirstName(fields)
           ELSE Identifier(f)
<1> DEFINE more == Append(fields, f)
           n == Len(fields)
<1>1. /\ n \in Nat /\ more \in Seq(Fields) /\ Len(more) = n + 1
      /\ \A i \in 1 .. n : more[i] = fields[i]
      /\ more[n + 1] = f
      /\ DOMAIN fields = 1 .. n /\ DOMAIN more = 1 .. n + 1
  <2>1. /\ more \in Seq(Fields) /\ Len(more) = n + 1
        /\ \A i \in 1 .. n : more[i] = fields[i]
        /\ more[n + 1] = f
    BY AppendProperties
  <2> HIDE DEF more
  <2> QED BY <2>1, LenProperties
<1> HIDE DEF more, n
<1>2. /\ \A i \in 1 .. n : Names(more)[i] = Names(fields)[i]
      /\ Names(more)[n + 1] = Identifier(f)
  BY <1>1 DEF Names
<1>3. First(Names(more), n + 1) =
        IF First(Names(fields), n) # <<>> THEN First(Names(fields), n)
        ELSE Names(more)[n + 1]
  BY <1>1, <1>2, FirstGrows
<1> QED BY <1>1, <1>2, <1>3 DEF FirstName, more, n

(***************************************************************************)
(* The header.                                                             *)
(***************************************************************************)
\* Every Message-Id field is shown.
Covers(fields, shown) ==
  \A i \in DOMAIN fields : IsMessageId(fields[i]) => i \in shown

ReadsFirst(fields, shown) ==
  /\ Lines(fields, shown) \in LinesOfAtoms
  /\ FirstId(Unfolded(Lines(fields, shown))) = FirstName(fields)

\* An empty header has no identifier.
LEMMA HeaderEmpty == ASSUME NEW shown PROVE ReadsFirst(<<>>, shown)
<1>1. /\ <<>> \in LinesOfAtoms /\ <<>> \in Seq(Fields) /\ Len(<<>>) = 0
  BY EmptySeq DEF LinesOfAtoms
<1>2. Lines(<<>>, shown) = <<>> /\ Unfolded(<<>>) = <<>>
  BY LinesEmpty, UnfoldedEmpty
<1>3. ASSUME NEW g PROVE First(g, 0) = <<>>
  BY DEF First
<1>4. FirstId(<<>>) = <<>> /\ FirstName(<<>>) = <<>>
  BY <1>1, <1>3, FirstIdIs DEF FirstName
<1> QED BY <1>1, <1>2, <1>4 DEF ReadsFirst

\* A field more, and what it adds to the lines.
LEMMA HeaderAppend ==
  ASSUME NEW fields \in Seq(Fields), NEW f \in Fields, NEW shown,
         ReadsFirst(fields, shown),
         IsMessageId(f) => Len(fields) + 1 \in shown
  PROVE  /\ ReadsFirst(Append(fields, f), shown)
         /\ Len(fields) + 1 \in shown =>
              \E line \in Seq(Atoms) :
                Unfolded(Lines(Append(fields, f), shown))
                  = Append(Unfolded(Lines(fields, shown)), line)
<1> DEFINE l == Lines(fields, shown)
           more == Lines(Append(fields, f), shown)
<1>1. l \in LinesOfAtoms /\ FirstId(Unfolded(l)) = FirstName(fields)
  BY DEF ReadsFirst
<1>2. FirstName(Append(fields, f)) =
        IF FirstName(fields) # <<>> THEN FirstName(fields) ELSE Identifier(f)
  BY FirstNameAppend
<1>3. more = IF Len(fields) + 1 \in shown THEN l \o Rendered(f) ELSE l
  BY LinesAppend
<1> HIDE DEF l, more
<1>4. CASE Len(fields) + 1 \in shown
  <2>1. l \o Rendered(f) \in LinesOfAtoms
    BY <1>1, UnfoldedField
  <2>2. PICK line \in Seq(Atoms) :
          /\ Unfolded(l \o Rendered(f)) = Append(Unfolded(l), line)
          /\ Found(line) = Identifier(f)
    BY <1>1, UnfoldedField
  <2>3. FirstId(Append(Unfolded(l), line)) =
          IF FirstId(Unfolded(l)) # <<>> THEN FirstId(Unfolded(l))
          ELSE Found(line)
    BY <1>1, UnfoldedType, FirstIdAppend
  <2>4. more \in LinesOfAtoms
    BY <1>3, <1>4, <2>1
  <2>5. Unfolded(more) = Append(Unfolded(l), line)
    BY <1>3, <1>4, <2>2
  <2>6. FirstId(Unfolded(more)) = FirstName(Append(fields, f))
    BY <1>1, <1>2, <2>2, <2>3, <2>5
  <2> QED BY <2>4, <2>5, <2>6 DEF ReadsFirst, l, more
<1>5. CASE Len(fields) + 1 \notin shown
  <2>1. Identifier(f) = <<>>
    BY <1>5 DEF Identifier
  <2>2. FirstName(Append(fields, f)) = FirstName(fields)
    BY <1>2, <2>1
  <2> QED BY <1>1, <1>3, <1>5, <2>2 DEF ReadsFirst, more
<1> QED BY <1>4, <1>5

\* What is shown of a header is shown of its beginning.
LEMMA CoversPrefix ==
  ASSUME NEW fields \in Seq(Fields), NEW f \in Fields, NEW shown,
         Covers(Append(fields, f), shown)
  PROVE  /\ Covers(fields, shown)
         /\ IsMessageId(f) => Len(fields) + 1 \in shown
<1> DEFINE more == Append(fields, f)
           n == Len(fields)
<1>1. /\ more \in Seq(Fields) /\ Len(more) = n + 1
      /\ \A i \in 1 .. n : more[i] = fields[i]
      /\ more[n + 1] = f
  BY AppendProperties
<1> HIDE DEF more
<1>2. n \in Nat /\ DOMAIN fields = 1 .. n /\ DOMAIN more = 1 .. n + 1
  BY <1>1, LenProperties
<1>3. \A i \in DOMAIN more : IsMessageId(more[i]) => i \in shown
  BY DEF Covers, more
<1> HIDE DEF n
<1>4. Covers(fields, shown)
  BY <1>1, <1>2, <1>3 DEF Covers
<1>5. IsMessageId(f) => n + 1 \in shown
  BY <1>1, <1>2, <1>3
<1> QED BY <1>4, <1>5 DEF n

\* Of a header that shows every Message-Id field, the parser reads the first
\* identifier.
LEMMA HeaderRead ==
  ASSUME NEW fields \in Seq(Fields), NEW shown, Covers(fields, shown)
  PROVE  ReadsFirst(fields, shown)
<1> DEFINE P == {l \in Seq(Fields) : Covers(l, shown) => ReadsFirst(l, shown)}
<1>1. <<>> \in P
  BY HeaderEmpty, EmptySeq
<1>2. ASSUME NEW l \in P, NEW f \in Fields PROVE Append(l, f) \in P
  <2>1. Append(l, f) \in Seq(Fields)
    BY AppendProperties
  <2>2. Covers(Append(l, f), shown) => ReadsFirst(Append(l, f), shown)
    BY CoversPrefix, HeaderAppend
  <2> QED BY <2>1, <2>2
<1>3. P = Seq(Fields)
  <2>1. P \in SUBSET Seq(Fields)
    OBVIOUS
  <2> HIDE DEF P
  <2> QED BY <1>1, <1>2, <2>1, SeqInduction
<1> QED BY <1>3

\* What FindsTheId expects of the parser.
LEMMA FirstNameIs ==
  ASSUME GivenMessage
  PROVE  FirstName(message.fields) =
           IF Identifying = {} THEN <<>> ELSE message.fields[Min(Identifying)].id
<1> DEFINE fields == message.fields
           g == Names(fields)
           found == {i \in 1 .. Len(fields) : g[i] # <<>>}
<1>1. fields \in Seq(Fields) /\ DOMAIN fields = 1 .. Len(fields)
  BY LenProperties DEF GivenMessage
<1>2. found = Identifying
  BY <1>1 DEF Identifying, MessageIdFields, Names, Identifier
<1>3. CASE found = {}
  BY <1>2, <1>3 DEF FirstName, First
<1>4. CASE found # {}
  <2>1. Min(found) \in found
    <3>1. found \in SUBSET Nat
      OBVIOUS
    <3> HIDE DEF found
    <3> QED BY <1>4, <3>1, MinOf
  <2>2. FirstName(fields) = g[Min(found)]
    BY <1>4 DEF FirstName, First
  <2>3. g[Min(found)] = fields[Min(found)].id
    BY <1>1, <2>1 DEF Names, Identifier
  <2> QED BY <1>2, <1>4, <2>2, <2>3
<1> QED BY <1>3, <1>4

\* FindsTheId, of every message.
LEMMA ParsedHeader ==
  ASSUME GivenMessage PROVE FindsTheId
<1> DEFINE fields == message.fields
           l == Lines(fields, MessageIdFields)
<1>1. fields \in Seq(Fields) /\ Covers(fields, MessageIdFields)
  BY DEF GivenMessage, Covers, MessageIdFields
<1>2. l \in LinesOfAtoms /\ FirstId(Unfolded(l)) = FirstName(fields)
  BY <1>1, HeaderRead DEF ReadsFirst
<1> HIDE DEF l
<1>3. Unfolded(l \o << <<>> >>) = Unfolded(l)
  <2>1. <<>> \in Seq(Atoms) /\ l \in Seq(Seq(Atoms))
    BY <1>2, EmptySeq DEF LinesOfAtoms
  <2>2. l \o << <<>> >> = Append(l, <<>>)
    BY <2>1, AppendIsConcat
  <2> QED BY <2>1, <2>2, UnfoldedAppend, AddLineSkips
<1>4. Parse(Header, TRUE) = FirstName(fields)
  BY <1>2, <1>3 DEF Parse, Header, l
<1> QED BY <1>4, FirstNameIs DEF FindsTheId

(***************************************************************************)
(* The whole message.  Once the lines before the last have the identifier, *)
(* no line that follows can change it.                                     *)
(***************************************************************************)
Settled(u, id) ==
  \E v \in LinesOfAtoms, line \in Seq(Atoms) :
    u = Append(v, line) /\ FirstId(v) = id

\* The identifier of settled lines is the one they were settled with.
LEMMA SettledIs ==
  ASSUME NEW u, NEW id, id # <<>>, Settled(u, id)
  PROVE  u \in LinesOfAtoms /\ FirstId(u) = id
BY FirstIdAppend DEF Settled

\* No further line unsettles them.
LEMMA SettledStays ==
  ASSUME NEW u, NEW id, id # <<>>, Settled(u, id), NEW raw \in Seq(Atoms)
  PROVE  Settled(AddLine(u, raw), id)
<1>1. PICK v \in LinesOfAtoms, line \in Seq(Atoms) :
        u = Append(v, line) /\ FirstId(v) = id
  BY DEF Settled
<1>2. CASE raw = <<>>
  BY <1>2, AddLineSkips
<1>3. CASE raw # <<>> /\ raw[1] = Space
  <2> DEFINE more == line \o <<Space>> \o TrimStart(raw)
  <2>1. more \in Seq(Atoms) /\ AddLine(u, raw) = Append(v, more)
    BY <1>1, <1>3, AddLineContinues
  <2> HIDE DEF more
  <2> QED BY <1>1, <2>1 DEF Settled
<1>4. CASE raw # <<>> /\ raw[1] # Space
  <2>1. AddLine(u, raw) = Append(u, raw)
    BY <1>4, AddLineBegins
  <2>2. u \in LinesOfAtoms /\ FirstId(u) = id
    BY SettledIs
  <2> QED BY <2>1, <2>2 DEF Settled
<1> QED BY <1>2, <1>3, <1>4

\* The lines of the header are settled, unless the last field is the one that
\* has the identifier.
LEMMA HeaderSettles ==
  ASSUME NEW fields \in Seq(Fields), NEW id, id # <<>>,
         FirstName(fields) = id, NEW k \in 1 .. Len(fields) - 1,
         Identifier(fields[k]) # <<>>
  PROVE  Settled(Unfolded(Lines(fields, DOMAIN fields)), id)
<1> DEFINE shown == DOMAIN fields
<1>1. Len(fields) \in Nat /\ shown = 1 .. Len(fields) /\ Covers(fields, shown)
  BY LenProperties DEF Covers
<1>2. fields # <<>>
  BY <1>1, EmptySeq
<1>3. PICK front \in Seq(Fields), f \in Fields : fields = Append(front, f)
  BY <1>2, SequenceEmptyOrAppend
<1>4. /\ Len(fields) = Len(front) + 1 /\ Len(front) \in Nat
      /\ \A i \in 1 .. Len(front) : fields[i] = front[i]
      /\ DOMAIN front = 1 .. Len(front)
  BY <1>3, AppendProperties, LenProperties
<1> HIDE DEF shown
<1>5. /\ Covers(front, shown) /\ (IsMessageId(f) => Len(front) + 1 \in shown)
      /\ Len(front) + 1 \in shown
  BY <1>1, <1>3, <1>4, CoversPrefix
<1>6. ReadsFirst(front, shown)
  BY <1>5, HeaderRead
<1> DEFINE v == Unfolded(Lines(front, shown))
<1>7. PICK line \in Seq(Atoms) :
        Unfolded(Lines(fields, shown)) = Append(v, line)
  BY <1>3, <1>5, <1>6, HeaderAppend
<1>8. v \in LinesOfAtoms /\ FirstId(v) = FirstName(front)
  BY <1>6, UnfoldedType DEF ReadsFirst
<1>9. FirstName(front) # <<>>
  <2> DEFINE g == Names(front)
             found == {i \in 1 .. Len(front) : g[i] # <<>>}
  <2>1. k \in 1 .. Len(front)
    BY <1>4
  <2>2. fields[k] = front[k] /\ g[k] # <<>>
    BY <1>4, <2>1 DEF Names
  <2>3. k \in found /\ found \in SUBSET Nat
    BY <2>1, <2>2
  <2>4. Min(found) \in found
    <3> HIDE DEF found
    <3> QED BY <2>3, MinOf
  <2>5. FirstName(front) = g[Min(found)]
    BY <2>3 DEF FirstName, First
  <2> QED BY <2>4, <2>5
<1>10. FirstName(front) = id
  <2>1. FirstName(fields) =
          IF FirstName(front) # <<>> THEN FirstName(front) ELSE Identifier(f)
    BY <1>3, FirstNameAppend
  <2> QED BY <1>9, <2>1
<1> HIDE DEF v
<1> QED BY <1>7, <1>8, <1>10 DEF Settled, shown

\* WholeMessageAgrees, of every message: an empty body line changes nothing,
\* and the first that is not empty begins a line of its own or comes after a
\* line that settled the header.
LEMMA ParsedWhole ==
  ASSUME GivenMessage PROVE WholeMessageAgrees
<1> DEFINE fields == message.fields
           body == message.body
           l == Lines(fields, DOMAIN fields)
           u == Unfolded(l)
           written == {i \in DOMAIN body : body[i] # <<>>}
           last == Min(Identifying) = Len(fields)
           id == fields[Min(Identifying)].id
           head == l \o << <<>> >>
           Upto(k) == head \o SubSeq(body, 1, k)
<1>1. SUFFICES ASSUME Identifying # {}, message.utf8,
                      last /\ written # {} => body[Min(written)][1] # Space
               PROVE  Parse(Whole, message.utf8) = Parse(Header, TRUE)
  BY DEF WholeMessageAgrees
<1>2. /\ fields \in Seq(Fields) /\ body \in Seq(Seq(Atoms))
      /\ message.utf8 = TRUE /\ Covers(fields, DOMAIN fields)
      /\ DOMAIN fields = 1 .. Len(fields) /\ Len(fields) \in Nat
      /\ DOMAIN body = 1 .. Len(body) /\ Len(body) \in Nat
  <2>1. /\ fields \in Seq(Fields) /\ body \in Seq(Seq(Atoms))
        /\ message.utf8 \in BOOLEAN
    BY DEF GivenMessage
  <2> HIDE DEF fields, body
  <2> QED BY <1>1, <2>1, LenProperties DEF Covers
<1>3. /\ Parse(Header, TRUE) = id /\ FirstName(fields) = id
  BY <1>1, ParsedHeader, FirstNameIs DEF FindsTheId
<1>4. /\ Min(Identifying) \in Identifying
      /\ Min(Identifying) \in 1 .. Len(fields) /\ id # <<>>
      /\ Identifier(fields[Min(Identifying)]) # <<>>
  <2>1. Identifying \in SUBSET Nat
    BY <1>2 DEF Identifying, MessageIdFields
  <2>2. Min(Identifying) \in Identifying
    BY <1>1, <2>1, MinOf
  <2> QED BY <1>2, <2>2 DEF Identifying, MessageIdFields, Identifier
<1>5. l \in LinesOfAtoms /\ u \in LinesOfAtoms /\ FirstId(u) = id
  BY <1>2, <1>3, HeaderRead, UnfoldedType DEF ReadsFirst
<1>6. Settled(u, id) \/ last
  <2>1. CASE ~ last
    <3> DEFINE k == Min(Identifying)
    <3>1. k \in 1 .. Len(fields) - 1 /\ Identifier(fields[k]) # <<>>
      BY <1>2, <1>4, <2>1
    <3> HIDE DEF k, id, fields
    <3> QED BY <1>2, <1>3, <1>4, <3>1, HeaderSettles
  <2> QED BY <2>1
<1>7. Parse(Whole, message.utf8) = FirstId(Unfolded(head \o body))
  BY <1>2 DEF Parse, Whole
<1> HIDE DEF fields, body, l, u, id, head, last
<1>8. head \in Seq(Seq(Atoms)) /\ Unfolded(head) = u
  <2>1. <<>> \in Seq(Atoms) /\ l \in Seq(Seq(Atoms))
    BY <1>5, EmptySeq DEF LinesOfAtoms
  <2>2. head = Append(l, <<>>)
    BY <2>1, AppendIsConcat DEF head
  <2>3. head \in Seq(Seq(Atoms))
    BY <2>1, <2>2, AppendProperties
  <2>4. Unfolded(head) = u
    BY <2>1, <2>2, UnfoldedAppend, AddLineSkips DEF u
  <2> QED BY <2>3, <2>4
<1> DEFINE Still(k) == /\ Unfolded(Upto(k)) = u
                       /\ \A i \in 1 .. k : body[i] = <<>>
           P == {k \in Nat : k <= Len(body) =>
                               Settled(Unfolded(Upto(k)), id) \/ Still(k)}
<1>9. 0 \in P
  <2>1. Upto(0) = head
    <3>1. SubSeq(body, 1, 0) = <<>>
      BY SubSeqEmpty
    <3> QED BY <1>8, <3>1, ConcatEmptySeq
  <2> HIDE DEF Upto
  <2>2. Unfolded(Upto(0)) = u
    BY <1>8, <2>1
  <2>3. Still(0)
    BY <2>2
  <2> QED BY <2>3
<1>10. ASSUME NEW k \in P PROVE k + 1 \in P
  <2>1. SUFFICES ASSUME k + 1 <= Len(body)
                 PROVE  Settled(Unfolded(Upto(k + 1)), id) \/ Still(k + 1)
    OBVIOUS
  <2> DEFINE raw == body[k + 1]
  <2>2. k \in Nat /\ (Settled(Unfolded(Upto(k)), id) \/ Still(k))
    BY <1>2, <2>1
  <2>7. k \in Nat /\ k + 1 \in 1 .. Len(body) /\ (k + 1) - 1 = k
    <3>1. k \in Nat
      BY <2>2
    <3> HIDE DEF P
    <3> QED BY <1>2, <2>1, <3>1
  <2>3. raw \in Seq(Atoms) /\ Unfolded(Upto(k + 1)) = AddLine(Unfolded(Upto(k)), raw)
    <3> DEFINE j == k + 1
    <3>1. j \in 1 .. Len(body) /\ j - 1 = k
      BY <2>7
    <3> HIDE DEF j
    <3>2. /\ head \o SubSeq(body, 1, j - 1) \in Seq(Seq(Atoms))
          /\ body[j] \in Seq(Atoms)
          /\ head \o SubSeq(body, 1, j)
               = Append(head \o SubSeq(body, 1, j - 1), body[j])
      BY <1>2, <1>8, <3>1, AppendPart
    <3>3. /\ Upto(k) \in Seq(Seq(Atoms)) /\ body[j] \in Seq(Atoms)
          /\ Upto(j) = Append(Upto(k), body[j])
      BY <3>1, <3>2
    <3> HIDE DEF Upto
    <3>4. Unfolded(Upto(j)) = AddLine(Unfolded(Upto(k)), body[j])
      BY <3>3, UnfoldedAppend
    <3> QED BY <3>3, <3>4 DEF j
  <2> HIDE DEF Upto
  <2>4. CASE Settled(Unfolded(Upto(k)), id)
    <3> HIDE DEF raw
    <3> QED BY <1>4, <2>3, <2>4, SettledStays
  <2>5. CASE Still(k) /\ raw = <<>>
    <3>1. Unfolded(Upto(k + 1)) = u
      BY <2>3, <2>5, AddLineSkips
    <3>2. \A i \in 1 .. k + 1 : body[i] = <<>>
      BY <2>2, <2>5
    <3> QED BY <3>1, <3>2
  <2>6. CASE Still(k) /\ raw # <<>>
    <3>1. CASE Settled(u, id)
      <4> HIDE DEF raw
      <4>1. Unfolded(Upto(k + 1)) = AddLine(u, raw)
        BY <2>3, <2>6
      <4> QED BY <1>4, <2>3, <3>1, <4>1, SettledStays
    <3>2. CASE last
      <4>1. k + 1 \in written /\ \A i \in written : k + 1 <= i
        BY <1>2, <2>1, <2>2, <2>6
      <4>2. Min(written) = k + 1
        <5>1. written \in SUBSET Nat
          BY <1>2
        <5> HIDE DEF written
        <5> QED BY <4>1, <5>1, MinIs
      <4>3. raw[1] # Space
        BY <1>1, <3>2, <4>1, <4>2
      <4> HIDE DEF raw
      <4>4. Unfolded(Upto(k + 1)) = Append(u, raw)
        BY <2>3, <2>6, <4>3, AddLineBegins
      <4> QED BY <1>5, <2>3, <4>4 DEF Settled
    <3> QED BY <1>6, <3>1, <3>2
  <2> QED BY <2>2, <2>4, <2>5, <2>6
<1>11. P = Nat
  <2>1. P \in SUBSET Nat
    OBVIOUS
  <2> HIDE DEF P
  <2> QED BY <1>9, <1>10, <2>1, Induction
<1>12. Upto(Len(body)) = head \o body
  BY <1>2, SubSeqFull
<1> HIDE DEF Upto
<1>13. Settled(Unfolded(Upto(Len(body))), id) \/ Unfolded(Upto(Len(body))) = u
  BY <1>2, <1>11
<1>14. FirstId(Unfolded(Upto(Len(body)))) = id
  BY <1>4, <1>5, <1>13, SettledIs
<1> QED BY <1>3, <1>7, <1>12, <1>14

\* FindsTheId for every message, whatever its fields, however they are folded:
\* parse_message_id finds the first identifier of the header, or none if the
\* header has none.
THEOREM FoldedIdsAreFound == MessageSpec => []FindsTheId
<1>1. GivenMessage /\ UNCHANGED message => GivenMessage'
  BY DEF GivenMessage
<1>2. MessageSpec => []GivenMessage
  BY <1>1, PTL DEF MessageSpec
<1>3. GivenMessage => FindsTheId
  BY ParsedHeader
<1> QED BY <1>2, <1>3, PTL

\* WholeMessageAgrees for every message: what fetch_full_by_uid parses from the
\* whole message is what the header alone gives.
THEOREM WholeMessagesAgree == MessageSpec => []WholeMessageAgrees
<1>1. GivenMessage /\ UNCHANGED message => GivenMessage'
  BY DEF GivenMessage
<1>2. MessageSpec => []GivenMessage
  BY <1>1, PTL DEF MessageSpec
<1>3. GivenMessage => WholeMessageAgrees
  BY ParsedWhole
<1> QED BY <1>2, <1>3, PTL

=============================================================================
