------------------------ MODULE QuestionPracticeProofs ------------------------
(***************************************************************************)
(* Proofs about QuestionPractice, for any threads, questions and attempts: *)
(* its types, that a question carries what was last written to it, and     *)
(* that statistics added up one grading at a time are those of a replay of *)
(* all graded attempts.                                                    *)
(*                                                                         *)
(* Replay and Kept are recursive functions over sequences.  What they      *)
(* compute is shown by induction in set form: a set of numbers (of         *)
(* sequences) with the first and closed under the next is all of them,     *)
(* because any other would have a least element (WFMin).                   *)
(***************************************************************************)
EXTENDS QuestionPractice, SequenceTheorems, WellFoundedInduction, TLAPS

LEMMA ConstantsAre ==
  /\ NoThread \notin Threads /\ NoKey \notin Keys /\ NoAttempt \notin Attempts
  /\ Questions # {} /\ Texts # {}
BY PracticeAssumption

USE ConstantsAre

-----------------------------------------------------------------------------
(* Induction and recursive functions *)

\* Sets of naturals that hold 0 and every successor hold all, by the least
\* element of the rest.
LEMMA NatSetInduction ==
  ASSUME NEW S \in SUBSET Nat, 0 \in S, \A n \in S : n + 1 \in S
  PROVE  S = Nat
<1> DEFINE R == OpToRel(<, Nat)
<1> DEFINE T == Nat \ S
<1>1. IsWellFoundedOn(R, Nat)
  BY NatLessThanWellFounded
<1>2. \A x, y \in Nat : x < y => <<x, y>> \in R
  BY DEF OpToRel
<1> SUFFICES ASSUME T # {} PROVE FALSE
  OBVIOUS
<1> HIDE DEF R
<1>3. PICK x \in T : \A y \in T : ~ (<<y, x>> \in R)
  BY <1>1, WFMin
<1>4. x # 0 /\ x - 1 \in Nat /\ x - 1 < x
  OBVIOUS
<1>5. x - 1 \in T
  OBVIOUS
<1>6. QED
  BY <1>2, <1>3, <1>4, <1>5

\* One answer, as a replay counts it.
Added(r, isRight) ==
  IF isRight THEN [r EXCEPT !.right = @ + 1, !.weight = Halved(@)]
  ELSE [r EXCEPT !.wrong = @ + 1, !.weight = Doubled(@)]

\* What a replay of the first n answers of s leaves, after each of them.
Replayed(g, s, k, n) ==
  g = [i \in 0 .. n |-> IF i = 0 THEN Start ELSE Added(g[i - 1], s[i] = k)]

LEMMA ReplayedAt ==
  ASSUME NEW g, NEW s, NEW k, NEW n \in Nat, Replayed(g, s, k, n)
  PROVE  g[0] = Start /\ \A i \in 0 .. n - 1 : g[i + 1] = Added(g[i], s[i + 1] = k)
<1>1. g[0] = Start
  BY DEF Replayed
<1>2. ASSUME NEW i \in 0 .. n - 1 PROVE g[i + 1] = Added(g[i], s[i + 1] = k)
  <2>1. i + 1 \in 0 .. n /\ i + 1 # 0 /\ (i + 1) - 1 = i
    OBVIOUS
  <2>2. QED
    BY <2>1 DEF Replayed
<1>3. QED
  BY <1>1, <1>2

LEMMA ReplayExists ==
  ASSUME NEW s, NEW k, NEW n \in Nat
  PROVE  \E g : Replayed(g, s, k, n)
<1> DEFINE S == {m \in Nat : \E g : Replayed(g, s, k, m)}
<1>1. 0 \in S
  <2> DEFINE g == [i \in 0 .. 0 |-> Start]
  <2>1. Replayed(g, s, k, 0)
    BY DEF Replayed
  <2>2. QED
    BY <2>1
<1>2. ASSUME NEW m \in S PROVE m + 1 \in S
  <2>1. PICK g : Replayed(g, s, k, m)
    OBVIOUS
  <2> DEFINE x == Added(g[m], s[m + 1] = k)
  <2> DEFINE h == [i \in 0 .. (m + 1) |-> IF i = m + 1 THEN x ELSE g[i]]
  <2>2. \A i \in 0 .. (m + 1) : i # 0 => h[i - 1] = g[i - 1]
    OBVIOUS
  <2>3. \A i \in 0 .. m : h[i] = g[i]
    OBVIOUS
  <2>4. \A i \in 0 .. m : g[i] = IF i = 0 THEN Start ELSE Added(g[i - 1], s[i] = k)
    BY <2>1 DEF Replayed
  <2>5. h[m + 1] = Added(h[(m + 1) - 1], s[m + 1] = k)
    OBVIOUS
  <2>6. h = [i \in 0 .. (m + 1) |-> h[i]]
    OBVIOUS
  <2> HIDE DEF h
  <2>7. ASSUME NEW i \in 0 .. (m + 1)
        PROVE  h[i] = IF i = 0 THEN Start ELSE Added(h[i - 1], s[i] = k)
    <3>1. CASE i \in 0 .. m
      BY <2>2, <2>3, <2>4, <3>1
    <3>2. CASE i = m + 1
      BY <2>5, <3>2
    <3>3. QED
      BY <3>1, <3>2
  <2>8. Replayed(h, s, k, m + 1)
    BY <2>6, <2>7 DEF Replayed
  <2>9. QED
    BY <2>8
<1>3. S \in SUBSET Nat
  OBVIOUS
<1>4. S = Nat
  <2> HIDE DEF S
  <2>1. QED
    BY <1>1, <1>2, <1>3, NatSetInduction
<1>5. QED
  BY <1>4

\* Two replays agree as long as their answers do.
LEMMA ReplayUnique ==
  ASSUME NEW s, NEW u, NEW k, NEW n \in Nat, NEW m \in Nat, NEW g, NEW h,
         Replayed(g, s, k, n), Replayed(h, u, k, m),
         NEW l \in Nat, l <= n, l <= m, \A i \in 1 .. l : s[i] = u[i]
  PROVE  g[l] = h[l]
<1> DEFINE S == {i \in Nat : i <= l => g[i] = h[i]}
<1>1. 0 \in S
  <2>1. g[0] = h[0]
    BY ReplayedAt
  <2>2. QED
    BY <2>1
<1>2. ASSUME NEW i \in S PROVE i + 1 \in S
  <2>1. CASE i + 1 <= l
    <3>1. g[i] = h[i] /\ s[i + 1] = u[i + 1]
      BY <2>1
    <3>2. i \in 0 .. n - 1 /\ i \in 0 .. m - 1
      BY <2>1
    <3>3. g[i + 1] = Added(g[i], s[i + 1] = k) /\ h[i + 1] = Added(h[i], u[i + 1] = k)
      <4> HIDE DEF S
      <4>1. QED
        BY <3>2, ReplayedAt
    <3>4. QED
      BY <3>1, <3>3
  <2>2. QED
    BY <2>1
<1>3. S \in SUBSET Nat
  OBVIOUS
<1>4. S = Nat
  <2> HIDE DEF S
  <2>1. QED
    BY <1>1, <1>2, <1>3, NatSetInduction
<1>5. QED
  BY <1>4

LEMMA ReplayIs ==
  ASSUME NEW s, Len(s) \in Nat, NEW k, NEW g, Replayed(g, s, k, Len(s))
  PROVE  Replay(s, k) = g[Len(s)]
<1>1. PICK h : Replayed(h, s, k, Len(s)) /\ Replay(s, k) = h[Len(s)]
  BY DEF Replayed, Replay, Added
<1>2. QED
  BY <1>1, ReplayUnique

\* A replay goes on where the shorter one ended.
LEMMA ReplayNone ==
  ASSUME NEW k
  PROVE  Replay(<<>>, k) = Start
<1>1. PICK g : Replayed(g, <<>>, k, 0)
  BY ReplayExists
<1>2. Len(<<>>) = 0
  OBVIOUS
<1>3. Replay(<<>>, k) = g[0] /\ g[0] = Start
  BY <1>1, <1>2, ReplayIs, ReplayedAt
<1>4. QED
  BY <1>3

LEMMA ReplayMore ==
  ASSUME NEW A, NEW s \in Seq(A), NEW x \in A, NEW k
  PROVE  Replay(Append(s, x), k) = Added(Replay(s, k), x = k)
<1> DEFINE u == Append(s, x)
<1> DEFINE n == Len(s)
<1> DEFINE m == Len(u)
<1>1. /\ n \in Nat /\ m \in Nat /\ m = n + 1 /\ n <= m /\ n \in 0 .. m - 1
      /\ u[n + 1] = x /\ \A i \in 1 .. n : s[i] = u[i]
  OBVIOUS
<1>2. n = Len(s) /\ m = Len(u)
  OBVIOUS
<1> HIDE DEF n, m
<1>3. PICK g : Replayed(g, s, k, n)
  BY <1>1, ReplayExists
<1>4. PICK h : Replayed(h, u, k, m)
  BY <1>1, ReplayExists
<1> HIDE DEF u
<1>5. g[n] = h[n]
  BY <1>1, <1>3, <1>4, ReplayUnique
<1>6. h[n + 1] = Added(h[n], u[n + 1] = k)
  <2>1. m \in Nat
    BY <1>1
  <2>2. \A i \in 0 .. m - 1 : h[i + 1] = Added(h[i], u[i + 1] = k)
    BY <2>1, <1>4, ReplayedAt
  <2>3. n \in 0 .. m - 1
    BY <1>1
  <2> HIDE DEF Added
  <2>4. QED
    BY <2>2, <2>3
<1>7. Replay(s, k) = g[n]
  BY <1>1, <1>2, <1>3, ReplayIs
<1>8. Replay(u, k) = h[m]
  BY <1>1, <1>2, <1>4, ReplayIs
<1>9. Replay(u, k) = Added(Replay(s, k), x = k)
  BY <1>1, <1>5, <1>6, <1>7, <1>8
<1>10. QED
  BY <1>9 DEF u

LEMMA AppendAt ==
  ASSUME NEW A, NEW s \in Seq(A), NEW x \in A, NEW n, Len(s) = n
  PROVE  /\ Append(s, x)[n + 1] = x
         /\ \A i \in 1 .. n : Append(s, x)[i] = s[i]
OBVIOUS

LEMMA FunctionIsSeq ==
  ASSUME NEW R, NEW n \in Nat, NEW x \in [1 .. n -> R]
  PROVE  x \in Seq(R) /\ Len(x) = n
BY SeqDef

\* A sequence is its front and its last element.
LEMMA FrontAndLast ==
  ASSUME NEW A, NEW s \in Seq(A), NEW n \in Nat, Len(s) = n + 1
  PROVE  /\ SubSeq(s, 1, n) \in Seq(A) /\ Len(SubSeq(s, 1, n)) = n /\ s[n + 1] \in A
         /\ Append(SubSeq(s, 1, n), s[n + 1]) = s
<1> DEFINE f == SubSeq(s, 1, n)
<1> DEFINE y == s[n + 1]
<1> DEFINE u == Append(f, y)
<1>1. f \in Seq(A) /\ Len(f) = n /\ y \in A
  OBVIOUS
<1>2. \A i \in 1 .. n : f[i] = s[i]
  OBVIOUS
<1>3. y = s[n + 1]
  OBVIOUS
<1> HIDE DEF f, y
<1>4. u \in Seq(A) /\ Len(u) = n + 1
  BY <1>1
<1>5. u[n + 1] = y /\ \A i \in 1 .. n : u[i] = f[i]
  BY <1>1, AppendAt
<1> HIDE DEF u
<1>6. ASSUME NEW i \in 1 .. (n + 1) PROVE u[i] = s[i]
  <2>1. i \in 1 .. n \/ i = n + 1
    OBVIOUS
  <2>2. QED
    BY <1>2, <1>3, <1>5, <2>1
<1>7. u = s
  BY <1>4, <1>6
<1>8. QED
  BY <1>1, <1>7 DEF f, y, u

\* A set of sequences over A that holds the empty one and every longer one
\* holds all of them.
LEMMA SeqSetInduction ==
  ASSUME NEW A, NEW P \in SUBSET Seq(A), <<>> \in P,
         \A s \in P, x \in A : Append(s, x) \in P
  PROVE  P = Seq(A)
<1> DEFINE S == {n \in Nat : \A s \in Seq(A) : Len(s) = n => s \in P}
<1>1. 0 \in S
  <2>1. \A s \in Seq(A) : Len(s) = 0 => s = <<>>
    OBVIOUS
  <2>2. QED
    BY <2>1
<1>2. ASSUME NEW n \in S PROVE n + 1 \in S
  <2>1. n \in Nat /\ n + 1 \in Nat /\ \A s \in Seq(A) : Len(s) = n => s \in P
    OBVIOUS
  <2>2. ASSUME NEW s \in Seq(A), Len(s) = n + 1 PROVE s \in P
    <3> HIDE DEF S
    <3> DEFINE f == SubSeq(s, 1, n)
    <3>1. f \in Seq(A) /\ Len(f) = n /\ s[n + 1] \in A /\ Append(f, s[n + 1]) = s
      BY <2>1, <2>2, FrontAndLast
    <3>2. f \in P
      BY <2>1, <3>1
    <3>3. QED
      BY <3>1, <3>2
  <2>3. QED
    BY <2>1, <2>2
<1>3. S \in SUBSET Nat
  OBVIOUS
<1>4. S = Nat
  <2> HIDE DEF S
  <2>1. QED
    BY <1>1, <1>2, <1>3, NatSetInduction
<1>5. \A s \in Seq(A) : Len(s) \in Nat
  OBVIOUS
<1>6. QED
  BY <1>4, <1>5

\* What is kept of the first n elements of s.
Sieved(g, s, S, n) ==
  g = [i \in 0 .. n |->
         IF i = 0 THEN <<>> ELSE IF s[i] \in S THEN Append(g[i - 1], s[i]) ELSE g[i - 1]]

Sieve(r, x, S) == IF x \in S THEN Append(r, x) ELSE r

LEMMA SievedAt ==
  ASSUME NEW g, NEW s, NEW S, NEW n \in Nat, Sieved(g, s, S, n)
  PROVE  g[0] = <<>> /\ \A i \in 0 .. n - 1 : g[i + 1] = Sieve(g[i], s[i + 1], S)
<1>1. g[0] = <<>>
  BY DEF Sieved
<1>2. ASSUME NEW i \in 0 .. n - 1 PROVE g[i + 1] = Sieve(g[i], s[i + 1], S)
  <2>1. i + 1 \in 0 .. n /\ i + 1 # 0 /\ (i + 1) - 1 = i
    OBVIOUS
  <2>2. QED
    BY <2>1 DEF Sieved, Sieve
<1>3. QED
  BY <1>1, <1>2

LEMMA SieveExists ==
  ASSUME NEW s, NEW S, NEW n \in Nat
  PROVE  \E g : Sieved(g, s, S, n)
<1> DEFINE N == {m \in Nat : \E g : Sieved(g, s, S, m)}
<1>1. 0 \in N
  <2> DEFINE g == [i \in 0 .. 0 |-> <<>>]
  <2>1. Sieved(g, s, S, 0)
    BY DEF Sieved
  <2>2. QED
    BY <2>1
<1>2. ASSUME NEW m \in N PROVE m + 1 \in N
  <2>1. PICK g : Sieved(g, s, S, m)
    OBVIOUS
  <2> DEFINE x == Sieve(g[m], s[m + 1], S)
  <2> DEFINE h == [i \in 0 .. (m + 1) |-> IF i = m + 1 THEN x ELSE g[i]]
  <2>2. \A i \in 0 .. (m + 1) : i # 0 => h[i - 1] = g[i - 1]
    OBVIOUS
  <2>3. \A i \in 0 .. m : h[i] = g[i]
    OBVIOUS
  <2>4. \A i \in 0 .. m : g[i] = IF i = 0 THEN <<>> ELSE Sieve(g[i - 1], s[i], S)
    BY <2>1 DEF Sieved, Sieve
  <2>5. h[m + 1] = Sieve(h[(m + 1) - 1], s[m + 1], S)
    OBVIOUS
  <2>6. h = [i \in 0 .. (m + 1) |-> h[i]]
    OBVIOUS
  <2> HIDE DEF h
  <2>7. ASSUME NEW i \in 0 .. (m + 1)
        PROVE  h[i] = IF i = 0 THEN <<>> ELSE Sieve(h[i - 1], s[i], S)
    <3>1. CASE i \in 0 .. m
      BY <2>2, <2>3, <2>4, <3>1
    <3>2. CASE i = m + 1
      BY <2>5, <3>2
    <3>3. QED
      BY <3>1, <3>2
  <2>8. Sieved(h, s, S, m + 1)
    BY <2>6, <2>7 DEF Sieved, Sieve
  <2>9. QED
    BY <2>8
<1>3. N \in SUBSET Nat
  OBVIOUS
<1>4. N = Nat
  <2> HIDE DEF N
  <2>1. QED
    BY <1>1, <1>2, <1>3, NatSetInduction
<1>5. QED
  BY <1>4

LEMMA SieveUnique ==
  ASSUME NEW s, NEW u, NEW S, NEW n \in Nat, NEW m \in Nat, NEW g, NEW h,
         Sieved(g, s, S, n), Sieved(h, u, S, m),
         NEW l \in Nat, l <= n, l <= m, \A i \in 1 .. l : s[i] = u[i]
  PROVE  g[l] = h[l]
<1> DEFINE N == {i \in Nat : i <= l => g[i] = h[i]}
<1>1. 0 \in N
  <2>1. g[0] = h[0]
    BY SievedAt
  <2>2. QED
    BY <2>1
<1>2. ASSUME NEW i \in N PROVE i + 1 \in N
  <2>1. CASE i + 1 <= l
    <3>1. g[i] = h[i] /\ s[i + 1] = u[i + 1]
      BY <2>1
    <3>2. i \in 0 .. n - 1 /\ i \in 0 .. m - 1
      BY <2>1
    <3>3. g[i + 1] = Sieve(g[i], s[i + 1], S) /\ h[i + 1] = Sieve(h[i], u[i + 1], S)
      <4> HIDE DEF N
      <4>1. QED
        BY <3>2, SievedAt
    <3>4. QED
      BY <3>1, <3>3
  <2>2. QED
    BY <2>1
<1>3. N \in SUBSET Nat
  OBVIOUS
<1>4. N = Nat
  <2> HIDE DEF N
  <2>1. QED
    BY <1>1, <1>2, <1>3, NatSetInduction
<1>5. QED
  BY <1>4

LEMMA KeptIs ==
  ASSUME NEW s, Len(s) \in Nat, NEW S, NEW g, Sieved(g, s, S, Len(s))
  PROVE  Kept(s, S) = g[Len(s)]
<1>1. PICK h : Sieved(h, s, S, Len(s)) /\ Kept(s, S) = h[Len(s)]
  BY DEF Sieved, Kept
<1>2. QED
  BY <1>1, SieveUnique

LEMMA KeptNone ==
  ASSUME NEW S
  PROVE  Kept(<<>>, S) = <<>>
<1>1. PICK g : Sieved(g, <<>>, S, 0)
  BY SieveExists
<1>2. Len(<<>>) = 0
  OBVIOUS
<1>3. Kept(<<>>, S) = g[0] /\ g[0] = <<>>
  BY <1>1, <1>2, KeptIs, SievedAt
<1>4. QED
  BY <1>3

LEMMA KeptMore ==
  ASSUME NEW A, NEW s \in Seq(A), NEW x \in A, NEW S
  PROVE  Kept(Append(s, x), S) = IF x \in S THEN Append(Kept(s, S), x) ELSE Kept(s, S)
<1> DEFINE u == Append(s, x)
<1> DEFINE n == Len(s)
<1> DEFINE m == Len(u)
<1>1. /\ n \in Nat /\ m \in Nat /\ m = n + 1 /\ n <= m /\ n \in 0 .. m - 1
      /\ u[n + 1] = x /\ \A i \in 1 .. n : s[i] = u[i]
  OBVIOUS
<1>2. n = Len(s) /\ m = Len(u)
  OBVIOUS
<1> HIDE DEF n, m
<1>3. PICK g : Sieved(g, s, S, n)
  BY <1>1, SieveExists
<1>4. PICK h : Sieved(h, u, S, m)
  BY <1>1, SieveExists
<1> HIDE DEF u
<1>5. g[n] = h[n]
  BY <1>1, <1>3, <1>4, SieveUnique
<1>6. h[n + 1] = Sieve(h[n], u[n + 1], S)
  <2>1. m \in Nat
    BY <1>1
  <2>2. \A i \in 0 .. m - 1 : h[i + 1] = Sieve(h[i], u[i + 1], S)
    BY <1>4, <2>1, SievedAt
  <2>3. QED
    BY <1>1, <2>2
<1>7. Kept(s, S) = g[n]
  BY <1>1, <1>2, <1>3, KeptIs
<1>8. Kept(u, S) = h[m]
  BY <1>1, <1>2, <1>4, KeptIs
<1>9. Kept(u, S) = Sieve(Kept(s, S), x, S)
  BY <1>1, <1>5, <1>6, <1>7, <1>8
<1>10. QED
  BY <1>9 DEF u, Sieve

\* What is kept is of A and of S.
LEMMA KeptType ==
  ASSUME NEW A, NEW S
  PROVE  \A s \in Seq(A) : Kept(s, S) \in Seq(A \cap S)
<1> DEFINE P == {s \in Seq(A) : Kept(s, S) \in Seq(A \cap S)}
<1>1. <<>> \in P
  <2>1. <<>> \in Seq(A) /\ <<>> \in Seq(A \cap S)
    OBVIOUS
  <2>2. QED
    BY <2>1, KeptNone
<1>2. ASSUME NEW s \in P, NEW x \in A PROVE Append(s, x) \in P
  <2>1. Append(s, x) \in Seq(A) /\ s \in Seq(A) /\ Kept(s, S) \in Seq(A \cap S)
    OBVIOUS
  <2>2. x \in S => Append(Kept(s, S), x) \in Seq(A \cap S)
    BY <2>1
  <2>3. Kept(Append(s, x), S) = IF x \in S THEN Append(Kept(s, S), x) ELSE Kept(s, S)
    BY <2>1, KeptMore
  <2>4. QED
    BY <2>1, <2>2, <2>3
<1>3. P \in SUBSET Seq(A)
  OBVIOUS
<1>4. P = Seq(A)
  <2> HIDE DEF P
  <2>1. QED
    BY <1>1, <1>2, <1>3, SeqSetInduction
<1>5. QED
  BY <1>4

\* Keeping twice is keeping what is in both sets.
LEMMA KeptKept ==
  ASSUME NEW A, NEW S, NEW T
  PROVE  \A s \in Seq(A) : Kept(Kept(s, T), S) = Kept(s, S \cap T)
<1> DEFINE P == {s \in Seq(A) : Kept(Kept(s, T), S) = Kept(s, S \cap T)}
<1>1. <<>> \in P
  <2>1. <<>> \in Seq(A)
    OBVIOUS
  <2>2. QED
    BY <2>1, KeptNone
<1>2. ASSUME NEW s \in P, NEW x \in A PROVE Append(s, x) \in P
  <2>1. Append(s, x) \in Seq(A) /\ s \in Seq(A)
    OBVIOUS
  <2>2. Kept(Kept(s, T), S) = Kept(s, S \cap T)
    OBVIOUS
  <2>3. Kept(s, T) \in Seq(A)
    <3>1. Kept(s, T) \in Seq(A \cap T)
      BY <2>1, KeptType
    <3>2. QED
      BY <3>1
  <2> HIDE DEF P
  <2>4. Kept(Append(s, x), T) = IF x \in T THEN Append(Kept(s, T), x) ELSE Kept(s, T)
    BY <2>1, KeptMore
  <2>5. Kept(Append(s, x), S \cap T) =
          IF x \in S \cap T THEN Append(Kept(s, S \cap T), x) ELSE Kept(s, S \cap T)
    BY <2>1, KeptMore
  <2>6. Kept(Append(Kept(s, T), x), S) =
          IF x \in S THEN Append(Kept(Kept(s, T), S), x) ELSE Kept(Kept(s, T), S)
    BY <2>3, KeptMore
  <2>7. Kept(Kept(Append(s, x), T), S) = Kept(Append(s, x), S \cap T)
    <3>1. CASE x \in T
      <4>1. x \in S \cap T <=> x \in S
        BY <3>1
      <4>2. Kept(Append(s, x), T) = Append(Kept(s, T), x)
        BY <2>4, <3>1
      <4>3. QED
        BY <2>2, <2>5, <2>6, <4>1, <4>2
    <3>2. CASE x \notin T
      <4>1. x \notin S \cap T
        BY <3>2
      <4>2. Kept(Append(s, x), T) = Kept(s, T)
        BY <2>4, <3>2
      <4>3. QED
        BY <2>2, <2>5, <4>1, <4>2
    <3>3. QED
      BY <3>1, <3>2
  <2>8. QED
    BY <2>1, <2>7 DEF P
<1>3. P \in SUBSET Seq(A)
  OBVIOUS
<1>4. P = Seq(A)
  <2> HIDE DEF P
  <2>1. QED
    BY <1>1, <1>2, <1>3, SeqSetInduction
<1>5. QED
  BY <1>4

\* Nothing is kept of nothing.
LEMMA KeptEmpty ==
  ASSUME NEW A
  PROVE  \A s \in Seq(A) : Kept(s, {}) = <<>>
<1>1. ASSUME NEW s \in Seq(A) PROVE Kept(s, {}) = <<>>
  <2>1. Kept(s, {}) \in Seq(A \cap {})
    BY KeptType
  <2>2. QED
    BY <2>1
<1>2. QED
  BY <1>1

-----------------------------------------------------------------------------
(* Values *)

Selections == Keys \cup {NoKey}
Contents   == Statuses \cup Keys \cup {NoKey} \cup Texts
Parts      == Questions \X Fields
Rows       == [Questions -> Records]
Stages     == {"none", "pending", "graded", "expired"}
AttemptRow == [status : Stages, qs : SUBSET Questions, answers : [Questions -> Selections]]
AttemptRows == [Attempts -> AttemptRow]

LEMMA WeightsAre ==
  MinWeight \in Int /\ InitialWeight \in Int /\ MaxWeight \in Int /\ Weightless \in Int
BY PracticeAssumption

LEMMA ExtractedKeys == \A q \in Questions, x \in Texts : Extracted[q][x] \in Keys
BY PracticeAssumption

LEMMA SameStats ==
  ASSUME NEW s \in Stats, NEW u \in Stats,
         s.weight = u.weight, s.right = u.right, s.wrong = u.wrong
  PROVE  s = u
BY DEF Stats

LEMMA StatsTypes ==
  /\ Start \in Stats
  /\ \A s \in Stats, b \in BOOLEAN : Scored(s, b) \in Stats /\ Added(s, b) = Scored(s, b)
<1>1. Start \in Stats
  BY WeightsAre DEF Start, Stats
<1>2. ASSUME NEW w \in Int
      PROVE  Halved(w) \in Int /\ Doubled(w) \in Int
  BY WeightsAre DEF Halved, Doubled
<1>3. ASSUME NEW s \in Stats, NEW b \in BOOLEAN
      PROVE  Scored(s, b) \in Stats /\ Added(s, b) = Scored(s, b)
  <2>1. /\ s.weight \in Int /\ s.right \in Int /\ s.wrong \in Int
        /\ s = [weight |-> s.weight, right |-> s.right, wrong |-> s.wrong]
    BY DEF Stats
  <2>2. Halved(s.weight) \in Int /\ Doubled(s.weight) \in Int
    BY <1>2, <2>1
  <2>3. Scored(s, b) \in Stats
    BY <2>1, <2>2 DEF Scored, Stats
  <2>4. Added(s, b) \in Stats
    <3>1. s.right + 1 \in Int /\ s.wrong + 1 \in Int
      BY <2>1
    <3>2. ASSUME NEW n \in Int, NEW w \in Int
          PROVE  /\ [s EXCEPT !.right = n, !.weight = w] \in Stats
                 /\ [s EXCEPT !.wrong = n, !.weight = w] \in Stats
      BY DEF Stats
    <3>3. QED
      BY <2>2, <3>1, <3>2 DEF Added
  <2>5. /\ Added(s, b).weight = Scored(s, b).weight
        /\ Added(s, b).right = Scored(s, b).right /\ Added(s, b).wrong = Scored(s, b).wrong
    <3>1. CASE b
      BY <2>1, <3>1 DEF Scored, Added
    <3>2. CASE ~b
      BY <2>1, <3>2 DEF Scored, Added
    <3>3. QED
      BY <3>1, <3>2
  <2>6. QED
    BY <2>3, <2>4, <2>5, SameStats
<1>4. QED
  BY <1>1, <1>3

\* A replay gives statistics, and one more answer is scored as a grading does.
LEMMA ReplayType ==
  ASSUME NEW A, NEW k
  PROVE  \A s \in Seq(A) : Replay(s, k) \in Stats
<1> DEFINE P == {s \in Seq(A) : Replay(s, k) \in Stats}
<1>1. <<>> \in P
  <2>1. <<>> \in Seq(A)
    OBVIOUS
  <2>2. QED
    BY <2>1, ReplayNone, StatsTypes
<1>2. ASSUME NEW s \in P, NEW x \in A PROVE Append(s, x) \in P
  <2>1. Append(s, x) \in Seq(A) /\ s \in Seq(A) /\ Replay(s, k) \in Stats
    OBVIOUS
  <2> HIDE DEF P
  <2>2. Replay(Append(s, x), k) = Added(Replay(s, k), x = k)
    BY <2>1, ReplayMore
  <2>3. Added(Replay(s, k), x = k) \in Stats
    <3>1. (x = k) \in BOOLEAN
      OBVIOUS
    <3>2. QED
      BY <2>1, <3>1, StatsTypes
  <2>4. QED
    BY <2>1, <2>2, <2>3 DEF P
<1>3. P \in SUBSET Seq(A)
  OBVIOUS
<1>4. P = Seq(A)
  <2> HIDE DEF P
  <2>1. QED
    BY <1>1, <1>2, <1>3, SeqSetInduction
<1>5. QED
  BY <1>4

LEMMA ReplayScores ==
  ASSUME NEW A, NEW s \in Seq(A), NEW x \in A, NEW k
  PROVE  Replay(Append(s, x), k) = Scored(Replay(s, k), x = k)
<1> DEFINE b == x = k
<1>1. Replay(s, k) \in Stats /\ b \in BOOLEAN
  BY ReplayType
<1>2. Replay(Append(s, x), k) = Added(Replay(s, k), b)
  BY ReplayMore
<1> HIDE DEF b
<1>3. Added(Replay(s, k), b) = Scored(Replay(s, k), b)
  BY <1>1, StatsTypes
<1>4. QED
  BY <1>2, <1>3 DEF b

LEMMA RecordTypes ==
  /\ FirstText \in Texts /\ Unborn \in Records /\ Gone \in Records
  /\ NothingSeen \in Rows /\ NothingPicked \in [Questions -> Selections] /\ NothingSent \in Sent
<1>1. FirstText \in Texts
  BY DEF FirstText
<1>2. Unborn \in Records
  BY <1>1, StatsTypes DEF Unborn, Records, Statuses
<1>3. Gone \in Records
  BY <1>2 DEF Gone, Records, Statuses
<1>4. NothingSent \in Sent
  BY <1>1 DEF NothingSent, Sent
<1>5. QED
  BY <1>1, <1>2, <1>3, <1>4 DEF NothingSeen, NothingPicked, Rows, Selections

LEMMA StatusesAre ==
  /\ AnswerStatuses \subseteq Statuses /\ Scorable \subseteq AnswerStatuses
  /\ \A r : r.status \in AnswerStatuses => Present(r)
  /\ \A r \in Records : ~Present(r) => r.status \in {"unborn", "deleted"}
  /\ ~Present(Unborn) /\ ~Present(Gone) /\ Gone.status = "deleted"
BY DEF AnswerStatuses, Statuses, Scorable, Present, Records, Unborn, Gone

\* What a request may send for each field.
LEMMA SentHas ==
  ASSUME NEW p \in Sent
  PROVE  /\ "status" \in DOMAIN p => p["status"] \in AnswerStatuses
         /\ "key" \in DOMAIN p => p["key"] \in Selections
         /\ "text" \in DOMAIN p => p["text"] \in Texts
         /\ "weight" \in DOMAIN p => p["weight"] \in Int
         /\ "right" \in DOMAIN p => p["right"] \in Int
         /\ "wrong" \in DOMAIN p => p["wrong"] \in Int
<1>1. CASE p \in Patches
  <2>1. \A f \in DOMAIN p : p[f] \in Values[f]
    BY <1>1, PatchesAssumption
  <2>2. /\ Values["status"] = AnswerStatuses /\ Values["key"] = Selections
        /\ Values["text"] = Texts /\ Values["weight"] = Int
        /\ Values["right"] = Int /\ Values["wrong"] = Int
    BY DEF Values, Selections
  <2>3. QED
    BY <2>1, <2>2
<1>2. CASE p \in {[text |-> x] : x \in Texts}
  <2>1. PICK x \in Texts : p = [text |-> x]
    BY <1>2
  <2>2. DOMAIN p = {"text"} /\ p["text"] = x
    BY <2>1
  <2>3. QED
    BY <2>2
<1>3. QED
  BY <1>1, <1>2 DEF Sent

\* Sending some fields of a record leaves the others.
LEMMA MergedHas ==
  ASSUME NEW r \in Records, NEW p \in Sent
  PROVE  /\ Merged(r, p) \in Records
         /\ Present(r) => Present(Merged(r, p))
         /\ \A f \in Fields \ DOMAIN p : Merged(r, p)[f] = r[f]
<1> DEFINE field(f, old) == IF f \in DOMAIN p THEN p[f] ELSE old
<1> DEFINE a == field("status", r.status)
<1> DEFINE b == field("key", r.key)
<1> DEFINE c == field("text", r.text)
<1> DEFINE w == field("weight", r.stats.weight)
<1> DEFINE m == field("right", r.stats.right)
<1> DEFINE n == field("wrong", r.stats.wrong)
<1>1. /\ r.status \in Statuses /\ r.key \in Selections /\ r.text \in Texts
      /\ r.stats.weight \in Int /\ r.stats.right \in Int /\ r.stats.wrong \in Int
  BY DEF Records, Stats, Selections
<1>2. /\ a \in Statuses /\ b \in Selections /\ c \in Texts
      /\ w \in Int /\ m \in Int /\ n \in Int
  BY <1>1, SentHas, StatusesAre
<1>3. a = r.status \/ a \in AnswerStatuses
  BY SentHas
<1>4. /\ "status" \notin DOMAIN p => a = r.status
      /\ "key" \notin DOMAIN p => b = r.key
      /\ "text" \notin DOMAIN p => c = r.text
  OBVIOUS
<1>5. Merged(r, p) = [status |-> a, key |-> b, text |-> c,
                      stats |-> [weight |-> w, right |-> m, wrong |-> n]]
  BY DEF Merged
<1> HIDE DEF a, b, c, w, m, n
<1>6. Merged(r, p) \in Records
  BY <1>2, <1>5 DEF Records, Stats, Selections
<1>7. Merged(r, p).status = a
  BY <1>5
<1>8. Present(r) => Present(Merged(r, p))
  BY <1>3, <1>7, StatusesAre DEF Present
<1>9. ASSUME NEW f \in Fields \ DOMAIN p PROVE Merged(r, p)[f] = r[f]
  BY <1>4, <1>5 DEF Fields
<1>10. QED
  BY <1>6, <1>8, <1>9

LEMMA FreshHas ==
  ASSUME NEW q \in Questions, NEW x \in Texts, NEW status \in AnswerStatuses
  PROVE  Fresh(q, x, status) \in Records /\ Present(Fresh(q, x, status))
<1>1. Fresh(q, x, status).status = status
  BY DEF Fresh
<1>2. Extracted[q][x] \in Keys
  BY ExtractedKeys
<1>3. QED
  BY <1>1, <1>2, StatsTypes, StatusesAre DEF Fresh, Records

\* Recomputing touches the statistics only.
LEMMA RecomputedHas ==
  ASSUME NEW r \in Records, NEW s \in Seq(Selections)
  PROVE  /\ Recomputed(r, s) \in Records
         /\ Recomputed(r, s).status = r.status /\ Recomputed(r, s).key = r.key
         /\ Recomputed(r, s).text = r.text
         /\ Recomputed(r, s).stats = IF r.status \in Scorable THEN Replay(s, r.key) ELSE Start
<1>1. Replay(s, r.key) \in Stats /\ Start \in Stats
  BY ReplayType, StatsTypes
<1>2. QED
  BY <1>1 DEF Recomputed, Records

LEMMA AnswersType ==
  ASSUME order \in Seq(Attempts), NEW at \in AttemptRows, NEW q \in Questions
  PROVE  AnswersTo(q, at) \in Seq(Selections)
<1> DEFINE g == Kept(order, Counting(q, at))
<1>1. g \in Seq(Attempts \cap Counting(q, at))
  BY KeptType
<1>2. g \in Seq(Attempts)
  BY <1>1
<1> HIDE DEF g
<1> DEFINE n == Len(g)
<1>3. n \in Nat /\ DOMAIN g = 1 .. n /\ \A i \in 1 .. n : at[g[i]].answers[q] \in Selections
  BY <1>2 DEF AttemptRows, AttemptRow
<1> HIDE DEF n
<1>4. [i \in DOMAIN g |-> at[g[i]].answers[q]] \in Seq(Selections)
  <2> DEFINE x == [i \in 1 .. n |-> at[g[i]].answers[q]]
  <2>1. x \in [1 .. n -> Selections]
    BY <1>3
  <2> HIDE DEF x
  <2>2. x \in Seq(Selections)
    BY <1>3, <2>1, FunctionIsSeq
  <2>3. QED
    BY <1>3, <2>2 DEF x
<1>5. QED
  BY <1>4 DEF AnswersTo, g

-----------------------------------------------------------------------------
(* Types *)

Opens == [by : Threads \cup {NoThread}, q : Questions, data : Records,
          fresh : BOOLEAN, parts : SUBSET Parts]

TablesOK ==
  /\ rec \in Rows
  /\ audit \in [Questions -> Statuses \X Selections]
  /\ att \in AttemptRows
  /\ order \in Seq(Attempts) /\ overdue \subseteq Attempts
  /\ open \in Opens

RequestsOK ==
  /\ pc \in [Threads -> {"idle", "expire", "prepare", "write", "row", "attempts", "update"}]
  /\ op \in [Threads -> {"none", "grade", "regrade", "patch", "import"} \cup Revisions]
  /\ on \in [Threads -> Attempts \cup {NoAttempt}]
  /\ todo \in [Threads -> SUBSET Questions]
  /\ seen \in [Threads -> Rows]
  /\ picked \in [Threads -> [Questions -> Selections]]
  /\ sent \in [Threads -> Sent]
  /\ read \in [Threads -> Seq(Selections)]

NotesOK ==
  /\ wanted \in [Questions -> [Fields -> Contents]]
  /\ unaudited \subseteq Questions
  /\ disturbed \subseteq Questions /\ clobbered \subseteq Parts
  /\ reqs \in Nat /\ crashes \in Nat

\* An attempt is known as long as a request is about one, and a text as long as
\* one is to be imported.
OnKnown ==
  \A t \in Threads :
    /\ pc[t] = "expire" \/ op[t] \in {"grade", "regrade"} \cup Revisions => on[t] \in Attempts
    /\ op[t] = "import" => "text" \in DOMAIN sent[t]

Sound == TablesOK /\ RequestsOK /\ NotesOK /\ OnKnown

LEMMA TypeParts == TypeOK <=> TablesOK /\ RequestsOK /\ NotesOK
BY DEF TypeOK, TablesOK, RequestsOK, NotesOK, Rows, AttemptRows, AttemptRow,
   Stages, Opens, Parts, Selections, Contents

LEMMA ClosedType == Closed \in Opens /\ Closed.by = NoThread
BY RecordTypes DEF Closed, Opens

LEMMA OpenHas ==
  ASSUME open \in Opens
  PROVE  /\ open.by \in Threads \cup {NoThread} /\ open.q \in Questions
         /\ open.data \in Records /\ open.fresh \in BOOLEAN /\ open.parts \subseteq Parts
BY DEF Opens

LEMMA ViewHas ==
  ASSUME TablesOK, NEW t \in Threads
  PROVE  /\ View(t) \in Rows
         /\ \A q \in Questions : View(t)[q] \in Records /\ rec[q] \in Records
         /\ open.by # t => View(t) = rec
         /\ open.by = t => /\ View(t)[open.q] = open.data
                           /\ \A q \in Questions : q # open.q => View(t)[q] = rec[q]
BY OpenHas DEF TablesOK, View, Rows

LEMMA StaleType ==
  ASSUME NEW t \in Threads, NEW qs \in SUBSET Questions
  PROVE  StaleStats(t, qs) \subseteq qs /\ Stale(t, qs) \subseteq Parts
BY DEF StaleStats, Stale, Parts

\* What a thread leaves of its transaction.
LEMMA LeftOver ==
  ASSUME TablesOK, NotesOK, NEW t \in Threads
  PROVE  Disturbed(t) \subseteq Questions /\ Clobbered(t) \subseteq Parts
BY OpenHas DEF TablesOK, NotesOK, Disturbed, Clobbered

LEMMA CommitTypes ==
  ASSUME TablesOK, NotesOK, NEW t \in Threads, NEW r \in Rows,
         NEW spoilt \in SUBSET Questions, NEW setBack \in SUBSET Parts, NEW setAnew,
         Commit(t, r, spoilt, setBack, setAnew)
  PROVE  /\ rec' \in Rows /\ open' \in Opens
         /\ disturbed' \subseteq Questions /\ clobbered' \subseteq Parts
BY LeftOver, ClosedType DEF Commit

LEMMA RollbackTypes ==
  ASSUME TablesOK, NotesOK, NEW t \in Threads, Rollback(t)
  PROVE  open' \in Opens /\ disturbed' \subseteq Questions
BY OpenHas, ClosedType DEF Rollback, TablesOK, NotesOK

\* What a request that ends leaves.
LEMMA FinishTypes ==
  ASSUME RequestsOK, NEW t \in Threads, Finish(t)
  PROVE  RequestsOK'
<1>1. <<>> \in Seq(Selections)
  OBVIOUS
<1>2. QED
  BY <1>1, RecordTypes DEF RequestsOK, Finish, To

LEMMA RequestsStay == RequestsOK /\ UNCHANGED <<pc, request>> => RequestsOK'
BY DEF RequestsOK, request

\* A record with other contents is a record.
LEMMA RecordChanges ==
  ASSUME NEW r \in Records
  PROVE  /\ \A s \in Stats : [r EXCEPT !.stats = s] \in Records
         /\ \A k \in Selections, s \in Statuses :
              [r EXCEPT !.key = k, !.status = s] \in Records
         /\ r.status \in Statuses /\ r.key \in Selections /\ r.text \in Texts /\ r.stats \in Stats
BY DEF Records, Selections

LEMMA InitSound == Init => Sound
<1> SUFFICES ASSUME Init PROVE Sound
  OBVIOUS
<1>1. <<>> \in Seq(Attempts) /\ <<>> \in Seq(Selections)
  OBVIOUS
<1>2. TablesOK
  <2>1. [status |-> "none", qs |-> {}, answers |-> NothingPicked] \in AttemptRow
    BY RecordTypes DEF AttemptRow, Stages
  <2>2. <<"unborn", NoKey>> \in Statuses \X Selections
    BY DEF Statuses, Selections
  <2>3. QED
    BY <1>1, <2>1, <2>2, RecordTypes, ClosedType DEF Init, TablesOK, Rows, AttemptRows
<1>3. RequestsOK
  BY <1>1, RecordTypes DEF Init, RequestsOK
<1>4. NotesOK
  <2>1. \A f \in Fields : Unborn[f] \in Contents
    BY RecordTypes DEF Fields, Unborn, Contents, Statuses
  <2>2. QED
    BY <2>1 DEF Init, NotesOK
<1>5. OnKnown
  BY DEF Init, OnKnown, Revisions
<1>6. QED
  BY <1>2, <1>3, <1>4, <1>5 DEF Sound

\* Attempts by one of their fields.
LEMMA AttemptChanges ==
  ASSUME NEW r \in AttemptRow
  PROVE  /\ r.status \in Stages /\ r.qs \in SUBSET Questions
         /\ r.answers \in [Questions -> Selections]
         /\ \A s \in Stages : [r EXCEPT !.status = s] \in AttemptRow
         /\ \A s \in Stages, qs \in SUBSET Questions :
              [r EXCEPT !.status = s, !.qs = qs] \in AttemptRow
         /\ \A x \in [Questions -> Selections] : [r EXCEPT !.answers = x] \in AttemptRow
         /\ \A s \in Stages, x \in [Questions -> Selections] :
              [r EXCEPT !.status = s, !.answers = x] \in AttemptRow
BY DEF AttemptRow

LEMMA AttRow ==
  ASSUME TablesOK, NEW a \in Attempts
  PROVE  att[a] \in AttemptRow
BY DEF TablesOK, AttemptRows

LEMMA AttStep ==
  ASSUME TablesOK, NEW a \in Attempts, NEW r \in AttemptRow, att' = [att EXCEPT ![a] = r]
  PROVE  att' \in AttemptRows
BY DEF TablesOK, AttemptRows

LEMMA StagesAre == {"none", "pending", "graded", "expired"} = Stages
BY DEF Stages

-----------------------------------------------------------------------------
(* Types are kept, action by action *)

LEMMA OnKnownStays == OnKnown /\ UNCHANGED <<pc, op, on, sent>> => OnKnown'
BY DEF OnKnown

LEMMA FinishKnown ==
  ASSUME Sound, NEW t \in Threads, Finish(t)
  PROVE  OnKnown'
BY DEF Finish, To, OnKnown, Sound, RequestsOK, Revisions

LEMMA TextIsSent ==
  ASSUME Sound, NEW t \in Threads, op[t] = "import"
  PROVE  sent[t].text \in Texts
BY SentHas DEF Sound, OnKnown, RequestsOK

\* A step that leaves the requests alone.
LEMMA SoundTables ==
  ASSUME Sound, TablesOK', NotesOK', UNCHANGED <<pc, request>>
  PROVE  Sound'
BY RequestsStay, OnKnownStays DEF Sound, request

\* A step that ends one.
LEMMA SoundFinish ==
  ASSUME Sound, TablesOK', NotesOK', NEW t \in Threads, Finish(t)
  PROVE  Sound'
BY FinishTypes, FinishKnown DEF Sound

LEMMA DrawSound ==
  ASSUME Sound, NEW t \in Threads, NEW a \in Attempts, NEW qs \in SUBSET Questions,
         Draw(t, a, qs)
  PROVE  Sound'
<1>0. TablesOK /\ RequestsOK /\ NotesOK
  BY DEF Sound
<1>1. Commit(t, View(t), {}, {}, {})
  BY DEF Draw
<1>2./\ rec' \in Rows /\ open' \in Opens
      /\ disturbed' \subseteq Questions /\ clobbered' \subseteq Parts
  BY <1>0, <1>1, CommitTypes, ViewHas
<1>3. att' \in AttemptRows
  <2>1. att' = [att EXCEPT ![a] = [att[a] EXCEPT !.status = "pending", !.qs = qs]]
    BY DEF Draw
  <2>2. [att[a] EXCEPT !.status = "pending", !.qs = qs] \in AttemptRow
    BY <1>0, AttRow, AttemptChanges, StagesAre
  <2>3. QED
    BY <1>0, <2>1, <2>2, AttStep
<1>4. TablesOK' /\ NotesOK'
  BY <1>0, <1>2, <1>3 DEF Draw, TablesOK, NotesOK, entries
<1>5. QED
  BY <1>4, SoundTables DEF Draw

LEMMA AgeSound ==
  ASSUME Sound, NEW a \in Attempts, Age(a)
  PROVE  Sound'
<1>1. TablesOK' /\ NotesOK'
  BY DEF Sound, Age, TablesOK, NotesOK, history, entries
<1>2. QED
  BY <1>1, SoundTables DEF Age

LEMMA LookupSound ==
  ASSUME Sound, NEW t \in Threads, NEW o \in {"grade", "regrade"} \cup Revisions,
         NEW a \in Attempts, NEW qs \in SUBSET Questions, NEW p \in [Questions -> Selections],
         Lookup(t, o, a, qs, p)
  PROVE  Sound'
<1>0. TablesOK /\ RequestsOK /\ NotesOK /\ OnKnown
  BY DEF Sound
<1>1. TablesOK' /\ NotesOK'
  BY <1>0 DEF Lookup, TablesOK, NotesOK, history, entries, tables
<1>2. /\ op' = [op EXCEPT ![t] = o] /\ on' = [on EXCEPT ![t] = a]
      /\ seen' = seen /\ sent' = sent /\ read' = read
  BY DEF Lookup
<1>3. \/ /\ pc' = [pc EXCEPT ![t] = "expire"] /\ todo' = todo /\ picked' = picked
      \/ /\ pc' = [pc EXCEPT ![t] = "prepare"]
         /\ todo' = [todo EXCEPT ![t] = qs] /\ picked' = [picked EXCEPT ![t] = p]
  BY DEF Lookup, To
<1>4. RequestsOK'
  <2>1. /\ pc' \in [Threads -> {"idle", "expire", "prepare", "write", "row", "attempts", "update"}]
        /\ todo' \in [Threads -> SUBSET Questions]
        /\ picked' \in [Threads -> [Questions -> Selections]]
    <3>1. CASE pc' = [pc EXCEPT ![t] = "expire"] /\ todo' = todo /\ picked' = picked
      BY <1>0, <3>1 DEF RequestsOK
    <3>2. CASE /\ pc' = [pc EXCEPT ![t] = "prepare"]
               /\ todo' = [todo EXCEPT ![t] = qs] /\ picked' = [picked EXCEPT ![t] = p]
      <4>1. pc' \in [Threads -> {"idle", "expire", "prepare", "write", "row", "attempts",
                                "update"}]
        BY <1>0, <3>2 DEF RequestsOK
      <4>2. todo' \in [Threads -> SUBSET Questions]
        BY <1>0, <3>2 DEF RequestsOK
      <4>3. picked' \in [Threads -> [Questions -> Selections]]
        BY <1>0, <3>2 DEF RequestsOK
      <4>4. QED
        BY <4>1, <4>2, <4>3
    <3>3. QED
      BY <1>3, <3>1, <3>2
  <2>2. /\ op' \in [Threads -> {"none", "grade", "regrade", "patch", "import"} \cup Revisions]
        /\ on' \in [Threads -> Attempts \cup {NoAttempt}]
    BY <1>0, <1>2 DEF RequestsOK
  <2>3. QED
    BY <1>0, <1>2, <2>1, <2>2 DEF RequestsOK
<1>5. OnKnown'
  <2>1. op'[t] = o /\ on'[t] = a /\ \A u \in Threads : u # t => on'[u] = on[u] /\ op'[u] = op[u]
    BY <1>0, <1>2 DEF RequestsOK
  <2>2. \A u \in Threads : u # t => pc'[u] = pc[u]
    BY <1>0, <1>3 DEF RequestsOK
  <2>3. o # "import"
    BY DEF Revisions
  <2>4. QED
    BY <1>0, <1>2, <2>1, <2>2, <2>3 DEF OnKnown
<1>6. QED
  BY <1>1, <1>4, <1>5 DEF Sound

\* The look-ups of gradings, regradings and revisions.
LEMMA RequestIs ==
  ASSUME Sound, NEW t \in Threads, NEW a \in Attempts,
         Grade(t, a) \/ Regrade(t, a) \/ Revise(t, a)
  PROVE  \E o \in {"grade", "regrade"} \cup Revisions, qs \in SUBSET Questions,
            p \in [Questions -> Selections] : /\ qs \subseteq att[a].qs
                                              /\ Lookup(t, o, a, qs, p)
<1>0. att[a].qs \in SUBSET Questions
  BY AttRow, AttemptChanges DEF Sound
<1>1. CASE Grade(t, a)
  <2>1. PICK s \in Answers(a) : Lookup(t, "grade", a, att[a].qs, s)
    BY <1>1 DEF Grade
  <2>2. s \in [Questions -> Selections]
    BY DEF Answers, Selections
  <2>3. QED
    BY <1>0, <2>1, <2>2
<1>2. CASE Regrade(t, a)
  <2>1. PICK s \in Answers(a) : Lookup(t, "regrade", a, att[a].qs, s)
    BY <1>2 DEF Regrade
  <2>2. s \in [Questions -> Selections]
    BY DEF Answers, Selections
  <2>3. QED
    BY <1>0, <2>1, <2>2
<1>3. CASE Revise(t, a)
  <2>1. PICK q \in att[a].qs, o \in Revisions, k \in Keys \cup {NoKey} :
          Lookup(t, o, a, {q}, [NothingPicked EXCEPT ![q] = k])
    BY <1>3 DEF Revise
  <2>2. [NothingPicked EXCEPT ![q] = k] \in [Questions -> Selections]
    BY DEF NothingPicked, Selections
  <2>3. {q} \in SUBSET Questions /\ {q} \subseteq att[a].qs
    BY <1>0
  <2>4. QED
    BY <2>1, <2>2, <2>3
<1>4. QED
  BY <1>1, <1>2, <1>3

LEMMA ExpireSound ==
  ASSUME Sound, NEW t \in Threads, Expire(t)
  PROVE  Sound'
<1>0. TablesOK /\ RequestsOK /\ NotesOK /\ on[t] \in Attempts
  BY DEF Sound, OnKnown, Expire
<1>1. att[on[t]] \in AttemptRow
  BY <1>0, AttRow
<1> DEFINE spoilt == IF att[on[t]].status = "graded" THEN att[on[t]].qs ELSE {}
<1>2. Commit(t, View(t), spoilt, {}, {}) /\ spoilt \in SUBSET Questions
  BY <1>1, AttemptChanges DEF Expire
<1> HIDE DEF spoilt
<1>3./\ rec' \in Rows /\ open' \in Opens
      /\ disturbed' \subseteq Questions /\ clobbered' \subseteq Parts
  BY <1>0, <1>2, CommitTypes, ViewHas
<1>4. att' \in AttemptRows
  <2>1. att' = [att EXCEPT ![on[t]] = [att[on[t]] EXCEPT !.status = "expired"]]
    BY DEF Expire
  <2>2. [att[on[t]] EXCEPT !.status = "expired"] \in AttemptRow
    BY <1>1, AttemptChanges, StagesAre
  <2>3. QED
    BY <1>0, <2>1, <2>2, AttStep
<1>5. TablesOK' /\ NotesOK'
  BY <1>0, <1>3, <1>4 DEF Expire, TablesOK, NotesOK, entries
<1>6. QED
  BY <1>5, SoundFinish DEF Expire

\* Reading a record.
LEMMA SeenStep ==
  ASSUME Sound, NEW t \in Threads, NEW q \in Questions,
         seen' = [seen EXCEPT ![t][q] = View(t)[q]]
  PROVE  /\ seen' \in [Threads -> Rows]
         /\ seen'[t][q] = View(t)[q]
         /\ \A p \in Questions : p # q => seen'[t][p] = seen[t][p]
         /\ \A u \in Threads : u # t => seen'[u] = seen[u]
BY ViewHas DEF Sound, RequestsOK, Rows

LEMMA PrepareSound ==
  ASSUME Sound, NEW t \in Threads, NEW q \in Questions, Prepare(t, q)
  PROVE  Sound'
<1>0. TablesOK /\ RequestsOK /\ NotesOK /\ OnKnown
  BY DEF Sound
<1>1. TablesOK' /\ NotesOK'
  BY <1>0 DEF Prepare, TablesOK, NotesOK, history, entries, tables
<1>2. seen' \in [Threads -> Rows]
  BY SeenStep DEF Prepare
<1>3. RequestsOK'
  <2>1. pc' \in [Threads -> {"idle", "expire", "prepare", "write", "row", "attempts", "update"}]
    BY <1>0 DEF Prepare, To, RequestsOK
  <2>2. todo' \in [Threads -> SUBSET Questions]
    BY <1>0 DEF Prepare, RequestsOK
  <2>3. QED
    BY <1>0, <1>2, <2>1, <2>2 DEF Prepare, RequestsOK
<1>4. OnKnown'
  BY <1>0 DEF Prepare, To, OnKnown, RequestsOK
<1>5. QED
  BY <1>1, <1>3, <1>4 DEF Sound

LEMMA PrepareFailsSound ==
  ASSUME Sound, NEW t \in Threads, PrepareFails(t)
  PROVE  Sound'
<1>1. TablesOK' /\ NotesOK'
  BY DEF Sound, PrepareFails, TablesOK, NotesOK, history, entries, tables
<1>2. QED
  BY <1>1, SoundFinish DEF PrepareFails

LEMMA BusySound ==
  ASSUME Sound, NEW t \in Threads, Busy(t)
  PROVE  Sound'
<1>1. TablesOK' /\ NotesOK'
  BY DEF Sound, Busy, TablesOK, NotesOK, history, entries, tables
<1>2. QED
  BY <1>1, SoundFinish DEF Busy

\* An UPDATE by id of records that were read.
UpdatedOf(t, qs, d) ==
  [q \in Questions |-> IF q \in qs /\ Present(View(t)[q]) THEN d[q] ELSE View(t)[q]]

LEMMA UpdatedType ==
  ASSUME Sound, NEW t \in Threads, NEW qs \in SUBSET Questions, NEW d,
         \A q \in qs : d[q] \in Records
  PROVE  /\ UpdatedOf(t, qs, d) \in Rows
         /\ \A q \in Questions : UpdatedOf(t, qs, d)[q] =
              IF q \in qs /\ Present(View(t)[q]) THEN d[q] ELSE View(t)[q]
BY ViewHas DEF UpdatedOf, Rows, Sound

\* What a grading writes.
Scoring1(t) == {q \in att[on[t]].qs : seen[t][q].status \in Scorable}
Graded(t) == [q \in Questions |->
  [seen[t][q] EXCEPT !.stats = Scored(seen[t][q].stats, picked[t][q] = seen[t][q].key)]]

LEMMA SeenHas ==
  ASSUME Sound, NEW t \in Threads, NEW q \in Questions
  PROVE  /\ seen[t][q] \in Records /\ picked[t][q] \in Selections
         /\ sent[t] \in Sent /\ read[t] \in Seq(Selections)
BY DEF Sound, RequestsOK, Rows

LEMMA GradedHas ==
  ASSUME Sound, NEW t \in Threads, NEW q \in Questions
  PROVE  /\ Graded(t)[q] \in Records
         /\ Graded(t)[q].status = seen[t][q].status /\ Graded(t)[q].key = seen[t][q].key
         /\ Graded(t)[q].text = seen[t][q].text
         /\ Graded(t)[q].stats = Scored(seen[t][q].stats, picked[t][q] = seen[t][q].key)
<1> DEFINE b == picked[t][q] = seen[t][q].key
<1> DEFINE s == Scored(seen[t][q].stats, b)
<1>1. seen[t][q] \in Records /\ seen[t][q].stats \in Stats
  BY SeenHas, RecordChanges
<1>2. b \in BOOLEAN
  OBVIOUS
<1>3. s \in Stats
  <2> HIDE DEF b
  <2>1. QED
    BY <1>1, <1>2, StatsTypes
<1>4. Graded(t)[q] = [seen[t][q] EXCEPT !.stats = s]
  BY DEF Graded
<1> HIDE DEF s
<1>5. \A r \in Records, x \in Stats :
        LET y == [r EXCEPT !.stats = x] IN
        y \in Records /\ y.status = r.status /\ y.key = r.key /\ y.text = r.text /\ y.stats = x
  BY DEF Records
<1>6. QED
  BY <1>1, <1>3, <1>4, <1>5 DEF s

LEMMA WriteGradeIs ==
  ASSUME Sound, NEW t \in Threads, WriteGrade(t)
  PROVE  LET a == on[t]
             spoilt == StaleStats(t, att[a].qs) \cup
                       (IF att[a].status = "graded" THEN att[a].qs ELSE {})
             r == UpdatedOf(t, Scoring1(t), Graded(t))
         IN  /\ a \in Attempts /\ att[a].qs \in SUBSET Questions
             /\ Scoring1(t) \in SUBSET Questions
             /\ spoilt \in SUBSET Questions
             /\ r \in Rows
             /\ Commit(t, r, spoilt, Stale(t, Scoring1(t)), {})
<1>1. on[t] \in Attempts
  BY DEF Sound, OnKnown, WriteGrade
<1>2. att[on[t]].qs \in SUBSET Questions
  BY <1>1, AttRow, AttemptChanges DEF Sound
<1>3. Scoring1(t) \in SUBSET Questions
  BY <1>2 DEF Scoring1
<1>4. UpdatedOf(t, Scoring1(t), Graded(t)) \in Rows
  BY <1>3, GradedHas, UpdatedType
<1> DEFINE data(q) == [seen[t][q] EXCEPT !.stats = Scored(@, picked[t][q] = seen[t][q].key)]
<1>5. Updated(t, Scoring1(t), data) = UpdatedOf(t, Scoring1(t), Graded(t))
  BY <1>3 DEF Updated, UpdatedOf, Graded
<1>6. Commit(t, UpdatedOf(t, Scoring1(t), Graded(t)),
            StaleStats(t, att[on[t]].qs)
              \cup (IF att[on[t]].status = "graded" THEN att[on[t]].qs ELSE {}),
            Stale(t, Scoring1(t)), {})
  <2>1. Commit(t, Updated(t, Scoring1(t), data),
            StaleStats(t, att[on[t]].qs)
              \cup (IF att[on[t]].status = "graded" THEN att[on[t]].qs ELSE {}),
            Stale(t, Scoring1(t)), {})
    BY DEF WriteGrade, Scoring1
  <2> HIDE DEF data
  <2>2. QED
    BY <1>5, <2>1
<1>7. StaleStats(t, att[on[t]].qs) \subseteq Questions
  BY <1>2, StaleType
<1>8. QED
  BY <1>1, <1>2, <1>3, <1>4, <1>6, <1>7

LEMMA WriteGradeSound ==
  ASSUME Sound, NEW t \in Threads, WriteGrade(t)
  PROVE  Sound'
<1>0. TablesOK /\ RequestsOK /\ NotesOK
  BY DEF Sound
<1>1. on[t] \in Attempts
  BY WriteGradeIs
<1>2./\ rec' \in Rows /\ open' \in Opens
      /\ disturbed' \subseteq Questions /\ clobbered' \subseteq Parts
  <2>1. Stale(t, Scoring1(t)) \in SUBSET Parts
    BY WriteGradeIs, StaleType
  <2>2. QED
    BY <1>0, <2>1, WriteGradeIs, CommitTypes
<1>3. att' \in AttemptRows
  <2>1. att' =
          [att EXCEPT ![on[t]] = [att[on[t]] EXCEPT !.status = "graded", !.answers = picked[t]]]
    BY DEF WriteGrade
  <2>2. picked[t] \in [Questions -> Selections]
    BY <1>0 DEF RequestsOK
  <2>3. [att[on[t]] EXCEPT !.status = "graded", !.answers = picked[t]] \in AttemptRow
    BY <1>0, <1>1, <2>2, AttRow, AttemptChanges, StagesAre
  <2>4. QED
    BY <1>0, <1>1, <2>1, <2>3, AttStep
<1>4. order' \in Seq(Attempts)
  <2>1. order' = Append(Kept(order, Attempts \ {on[t]}), on[t])
    BY DEF WriteGrade
  <2>2. Kept(order, Attempts \ {on[t]}) \in Seq(Attempts \cap (Attempts \ {on[t]}))
    BY <1>0, KeptType DEF TablesOK
  <2>3. Kept(order, Attempts \ {on[t]}) \in Seq(Attempts)
    BY <2>2
  <2>4. QED
    BY <1>1, <2>1, <2>3
<1>5. TablesOK' /\ NotesOK'
  BY <1>0, <1>2, <1>3, <1>4 DEF WriteGrade, TablesOK, NotesOK, entries
<1>6. QED
  BY <1>5, SoundFinish DEF WriteGrade

\* What a regrade writes.
Reanswered(t) == [att EXCEPT ![on[t]].answers = picked[t]]
Regraded(t)   == [q \in Questions |-> Recomputed(View(t)[q], AnswersTo(q, Reanswered(t)))]

LEMMA WriteRegradeIs ==
  ASSUME Sound, NEW t \in Threads, WriteRegrade(t)
  PROVE  /\ on[t] \in Attempts /\ att[on[t]].qs \in SUBSET Questions
         /\ Reanswered(t) \in AttemptRows /\ att' = Reanswered(t)
         /\ \A q \in Questions : Regraded(t)[q] \in Records
         /\ rec' = UpdatedOf(t, att[on[t]].qs, Regraded(t)) /\ rec' \in Rows
         /\ CanWrite(t) /\ open' = Closed
         /\ disturbed' = Disturbed(t) \ att[on[t]].qs /\ clobbered' = Clobbered(t)
<1>0. TablesOK /\ RequestsOK
  BY DEF Sound
<1>1. on[t] \in Attempts
  BY DEF Sound, OnKnown, WriteRegrade
<1>2. att[on[t]].qs \in SUBSET Questions
  BY <1>0, <1>1, AttRow, AttemptChanges
<1>3. Reanswered(t) \in AttemptRows
  <2>1. picked[t] \in [Questions -> Selections]
    BY <1>0 DEF RequestsOK
  <2>2. [att[on[t]] EXCEPT !.answers = picked[t]] \in AttemptRow
    BY <1>0, <1>1, <2>1, AttRow, AttemptChanges
  <2>3. QED
    BY <1>0, <1>1, <2>2 DEF Reanswered, TablesOK, AttemptRows
<1>4. ASSUME NEW q \in Questions PROVE Regraded(t)[q] \in Records
  <2>1. AnswersTo(q, Reanswered(t)) \in Seq(Selections)
    BY <1>0, <1>3, AnswersType DEF TablesOK
  <2>2. View(t)[q] \in Records
    BY <1>0, ViewHas
  <2>3. QED
    BY <2>1, <2>2, RecomputedHas DEF Regraded
<1>5. rec' = UpdatedOf(t, att[on[t]].qs, Regraded(t))
  BY <1>2 DEF WriteRegrade, Updated, UpdatedOf, Regraded, Reanswered
<1>6. UpdatedOf(t, att[on[t]].qs, Regraded(t)) \in Rows
  BY <1>2, <1>4, UpdatedType
<1>7. att' = Reanswered(t) /\ CanWrite(t) /\ open' = Closed
      /\ disturbed' = Disturbed(t) \ att[on[t]].qs /\ clobbered' = Clobbered(t)
  BY DEF WriteRegrade, Reanswered
<1>8. QED
  BY <1>1, <1>2, <1>3, <1>4, <1>5, <1>6, <1>7

LEMMA WriteRegradeSound ==
  ASSUME Sound, NEW t \in Threads, WriteRegrade(t)
  PROVE  Sound'
<1>0. TablesOK /\ RequestsOK /\ NotesOK
  BY DEF Sound
<1>1. rec' \in Rows /\ open' \in Opens /\ att' \in AttemptRows
  BY WriteRegradeIs, ClosedType
<1>2. disturbed' \subseteq Questions /\ clobbered' \subseteq Parts
  BY <1>0, WriteRegradeIs, LeftOver
<1>3. TablesOK' /\ NotesOK'
  BY <1>0, <1>1, <1>2 DEF WriteRegrade, TablesOK, NotesOK, entries
<1>4. QED
  BY <1>3, SoundFinish DEF WriteRegrade

LEMMA RegradeFailsSound ==
  ASSUME Sound, NEW t \in Threads, RegradeFails(t)
  PROVE  Sound'
<1>0. TablesOK /\ RequestsOK /\ NotesOK
  BY DEF Sound
<1>1. open' \in Opens /\ disturbed' \subseteq Questions
  BY <1>0, RollbackTypes DEF RegradeFails
<1>2. TablesOK' /\ NotesOK'
  BY <1>0, <1>1 DEF RegradeFails, TablesOK, NotesOK, entries, tables
<1>3. QED
  BY <1>2, SoundFinish DEF RegradeFails

LEMMA GradeFailsSound ==
  ASSUME Sound, NEW t \in Threads, GradeFails(t)
  PROVE  Sound'
<1>0. TablesOK /\ RequestsOK /\ NotesOK
  BY DEF Sound
<1>1. open' \in Opens /\ disturbed' \subseteq Questions
  BY <1>0, RollbackTypes DEF GradeFails
<1>2. TablesOK' /\ NotesOK'
  BY <1>0, <1>1 DEF GradeFails, TablesOK, NotesOK, tables, entries
<1>3. QED
  BY <1>2, SoundFinish DEF GradeFails

\* A commit of t that writes the records qs, of whose fields it means set.
StoredRows(t, qs, set) ==
  /\ CanWrite(t) /\ open' = Closed /\ rec' \in Rows
  /\ disturbed' = Disturbed(t) \cup {q \in qs : Spoils(View(t)[q], rec'[q])}
  /\ clobbered' = (Clobbered(t) \cup Stale(t, qs)) \ (qs \X set)
  /\ wanted' = [q \in Questions |-> [f \in Fields |->
                  IF q \in qs /\ (f \in set \/ ~Present(View(t)[q]))
                  THEN rec'[q][f] ELSE wanted[q][f]]]

\* It leaves the other fields as they were read, the other records as they are,
\* and an audit row, or counts them as not audited.
Stored(t, qs, set) ==
  /\ StoredRows(t, qs, set)
  /\ \A q \in Questions \ qs : rec'[q] = View(t)[q]
  /\ \A q \in qs : Present(rec'[q]) /\ View(t)[q].status # "deleted"
  /\ \A q \in qs : Present(View(t)[q]) => \A f \in Fields \ set : rec'[q][f] = seen[t][q][f]
  /\ att' = att /\ order' = order /\ overdue' = overdue
  /\ audit' \in [Questions -> Statuses \X Selections] /\ unaudited' \subseteq Questions
  /\ \A q \in Questions \ unaudited' :
       \/ ~Present(rec'[q])
       \/ /\ q \in qs /\ {"status", "key"} \subseteq set
          /\ audit'[q] = <<rec'[q].status, rec'[q].key>>
       \/ /\ q \notin unaudited /\ audit'[q] = audit[q]
          /\ q \in qs => Present(View(t)[q]) /\ set \subseteq {"text"}

\* What Store does to the records, the data given as a function.
StoredAs(t, qs, set, d) ==
  /\ CanWrite(t) /\ open' = Closed
  /\ rec' = [q \in Questions |-> IF q \in qs THEN d[q] ELSE View(t)[q]]
  /\ disturbed' = Disturbed(t) \cup {q \in qs : Spoils(View(t)[q], d[q])}
  /\ clobbered' = (Clobbered(t) \cup Stale(t, qs)) \ (qs \X set)
  /\ wanted' = [q \in Questions |-> [f \in Fields |->
                  IF q \in qs /\ (f \in set \/ ~Present(View(t)[q]))
                  THEN d[q][f] ELSE wanted[q][f]]]

LEMMA StoreIs ==
  ASSUME Sound, NEW t \in Threads, NEW qs \in SUBSET Questions, NEW set, NEW d,
         \A q \in qs : d[q] \in Records, StoredAs(t, qs, set, d)
  PROVE  /\ StoredRows(t, qs, set)
         /\ \A q \in Questions : rec'[q] = IF q \in qs THEN d[q] ELSE View(t)[q]
<1>1. \A q \in Questions : rec'[q] = IF q \in qs THEN d[q] ELSE View(t)[q]
  BY DEF StoredAs
<1>2. rec' \in Rows
  BY ViewHas DEF Rows, Sound, StoredAs
<1>3. \A q \in qs : rec'[q] = d[q]
  BY <1>1
<1>4. {q \in qs : Spoils(View(t)[q], d[q])} = {q \in qs : Spoils(View(t)[q], rec'[q])}
  BY <1>3
<1>5. \A q \in Questions, f \in Fields :
        (IF q \in qs /\ (f \in set \/ ~Present(View(t)[q])) THEN d[q][f] ELSE wanted[q][f]) =
        (IF q \in qs /\ (f \in set \/ ~Present(View(t)[q])) THEN rec'[q][f] ELSE wanted[q][f])
  BY <1>3
<1>6. QED
  BY <1>1, <1>2, <1>4, <1>5 DEF StoredAs, StoredRows

LEMMA StoredTypes ==
  ASSUME Sound, NEW t \in Threads, NEW qs \in SUBSET Questions, NEW set, Stored(t, qs, set),
         reqs' \in Nat, crashes' = crashes
  PROVE  TablesOK' /\ NotesOK'
<1>0. TablesOK /\ NotesOK
  BY DEF Sound
<1>1. rec' \in Rows /\ open' \in Opens
  BY ClosedType DEF Stored, StoredRows
<1>2. disturbed' \subseteq Questions /\ clobbered' \subseteq Parts
  BY <1>0, LeftOver, StaleType DEF Stored, StoredRows
<1>3. wanted' \in [Questions -> [Fields -> Contents]]
  <2>1. \A r \in Records, f \in Fields : r[f] \in Contents
    BY DEF Records, Fields, Contents
  <2>2. \A q \in Questions, f \in Fields : rec'[q][f] \in Contents
    BY <1>1, <2>1 DEF Rows
  <2>3. \A q \in Questions, f \in Fields : wanted[q][f] \in Contents
    BY <1>0 DEF NotesOK
  <2>4. QED
    BY <2>2, <2>3 DEF Stored, StoredRows
<1>4. QED
  BY <1>0, <1>1, <1>2, <1>3 DEF Stored, StoredRows, TablesOK, NotesOK

\* What a revision writes.
LEMMA RevisedHas ==
  ASSUME Sound, NEW t \in Threads, op[t] \in Revisions, NEW q \in Questions
  PROVE  /\ Revised(t, q) \in Records /\ Present(Revised(t, q))
         /\ Revised(t, q).status = After(op[t]) /\ Revised(t, q).key = NewKey(t, q)
         /\ \A f \in Fields \ {"status", "key"} : Revised(t, q)[f] = seen[t][q][f]
         /\ After(op[t]) \in AnswerStatuses /\ NewKey(t, q) \in Selections
<1>1. After(op[t]) \in AnswerStatuses
  BY DEF After, Revisions, AnswerStatuses, Scorable
<1>2. seen[t][q] \in Records /\ picked[t][q] \in Selections
  BY SeenHas
<1>3. NewKey(t, q) \in Selections
  <2>1. seen[t][q].text \in Texts
    BY <1>2 DEF Records
  <2>2. Extracted[q][seen[t][q].text] \in Keys
    BY <2>1, ExtractedKeys
  <2>3. QED
    BY <1>2, <2>2 DEF NewKey, Selections
<1> DEFINE k == NewKey(t, q)
<1> DEFINE s == After(op[t])
<1> DEFINE r == seen[t][q]
<1>4. Revised(t, q) = [r EXCEPT !.key = k, !.status = s]
  BY DEF Revised
<1>5. r \in Records /\ k \in Selections /\ s \in AnswerStatuses /\ s \in Statuses
  BY <1>1, <1>2, <1>3, StatusesAre
<1> HIDE DEF k, s, r
<1>6. /\ Revised(t, q) \in Records
      /\ Revised(t, q).status = s /\ Revised(t, q).key = k
      /\ Revised(t, q).text = r.text
  BY <1>4, <1>5 DEF Records, Selections
<1>7. \A f \in Fields \ {"status", "key"} : Revised(t, q)[f] = r[f]
  BY <1>6 DEF Fields
<1>8. QED
  BY <1>5, <1>6, <1>7, StatusesAre DEF k, s, r

RevisedQs(t, q) == IF Present(View(t)[q]) THEN {q} ELSE {}

LEMMA WriteRevisionIs ==
  ASSUME Sound, NEW t \in Threads, NEW q \in Questions, WriteRevision(t, q)
  PROVE  /\ RevisedQs(t, q) \in SUBSET Questions
         /\ Stored(t, RevisedQs(t, q), {"status", "key"})
<1> DEFINE qs == RevisedQs(t, q)
<1> DEFINE set == {"status", "key"}
<1> DEFINE d == [p \in Questions |-> Revised(t, p)]
<1> DEFINE a == <<After(op[t]), NewKey(t, q)>>
<1>1. qs \in SUBSET Questions /\ (\A p \in qs : p = q /\ Present(View(t)[p]))
      /\ (Present(View(t)[q]) => q \in qs) /\ op[t] \in Revisions
  BY DEF RevisedQs, WriteRevision
<1>2. \A p \in qs : d[p] = Revised(t, p) /\ d[p] \in Records
  BY <1>1, RevisedHas
<1>3. StoredAs(t, qs, set, d)
  <2>1. CASE Present(View(t)[q])
    BY <2>1 DEF WriteRevision, Store, Commit, RevisedQs, StoredAs
  <2>2. CASE ~Present(View(t)[q])
    BY <2>2 DEF WriteRevision, Store, Commit, RevisedQs, StoredAs
  <2>3. QED
    BY <2>1, <2>2
<1>4. /\ audit' = [audit EXCEPT ![q] = a] /\ unaudited' = unaudited \ {q}
      /\ att' = att /\ order' = order /\ overdue' = overdue
  BY DEF WriteRevision
<1>5. a \in Statuses \X Selections
  BY <1>1, RevisedHas, StatusesAre
<1>6. audit \in [Questions -> Statuses \X Selections] /\ unaudited \subseteq Questions
  BY DEF Sound, TablesOK, NotesOK
<1>7. \A p \in qs : Present(d[p]) /\ (\A f \in Fields \ set : d[p][f] = seen[t][p][f])
  BY <1>1, <1>2, RevisedHas
<1>8. q \in qs => a = <<d[q].status, d[q].key>>
  BY <1>1, <1>2, RevisedHas
<1>9. \A p \in qs : View(t)[p].status # "deleted"
  BY <1>1 DEF Present
<1> HIDE DEF qs, set, d, a
<1>10. /\ StoredRows(t, qs, set)
       /\ \A p \in Questions : rec'[p] = IF p \in qs THEN d[p] ELSE View(t)[p]
  BY <1>1, <1>2, <1>3, StoreIs
<1>11. audit' \in [Questions -> Statuses \X Selections]
  BY <1>4, <1>5, <1>6
<1>12. ASSUME NEW p \in Questions \ unaudited'
       PROVE  \/ ~Present(rec'[p])
              \/ /\ p \in qs /\ {"status", "key"} \subseteq set
                 /\ audit'[p] = <<rec'[p].status, rec'[p].key>>
              \/ /\ p \notin unaudited /\ audit'[p] = audit[p]
                 /\ p \in qs => Present(View(t)[p]) /\ set \subseteq {"text"}
  <2>1. CASE p # q
    BY <1>1, <1>4, <1>6, <2>1
  <2>2. CASE p = q /\ q \in qs
    <3>1. audit'[p] = a
      BY <1>4, <1>6, <2>2
    <3>2. QED
      BY <1>8, <1>10, <2>2, <3>1 DEF set
  <2>3. CASE p = q /\ q \notin qs
    BY <1>1, <1>10, <2>3
  <2>4. QED
    BY <2>1, <2>2, <2>3
<1>13. Stored(t, qs, set)
  <2>1. \A p \in qs : Present(rec'[p]) /\ View(t)[p].status # "deleted"
    BY <1>1, <1>7, <1>9, <1>10
  <2>2. \A p \in qs : \A f \in Fields \ set : rec'[p][f] = seen[t][p][f]
    BY <1>1, <1>7, <1>10
  <2>3. \A p \in Questions \ qs : rec'[p] = View(t)[p]
    BY <1>10
  <2>4. unaudited' \subseteq Questions
    BY <1>4, <1>6
  <2>5. QED
    BY <1>4, <1>10, <1>11, <1>12, <2>1, <2>2, <2>3, <2>4 DEF Stored
<1>14. QED
  BY <1>1, <1>13 DEF qs, set

LEMMA WriteRevisionSound ==
  ASSUME Sound, NEW t \in Threads, NEW q \in Questions, WriteRevision(t, q)
  PROVE  Sound'
<1>0. TablesOK /\ RequestsOK /\ NotesOK /\ OnKnown /\ op[t] \in Revisions
  BY DEF Sound, WriteRevision
<1>1. TablesOK' /\ NotesOK'
  <2>1. reqs' \in Nat /\ crashes' = crashes
    BY <1>0 DEF WriteRevision, NotesOK
  <2>2. QED
    BY <2>1, WriteRevisionIs, StoredTypes
<1>2. RequestsOK'
  BY <1>0 DEF WriteRevision, To, RequestsOK, request
<1>3. OnKnown'
  BY <1>0 DEF WriteRevision, To, OnKnown, RequestsOK, request
<1>4. QED
  BY <1>1, <1>2, <1>3 DEF Sound

LEMMA RecomputeRowSound ==
  ASSUME Sound, NEW t \in Threads, NEW q \in Questions, RecomputeRow(t, q)
  PROVE  Sound'
<1>0. TablesOK /\ RequestsOK /\ NotesOK /\ OnKnown
  BY DEF Sound
<1>1. TablesOK' /\ NotesOK'
  BY <1>0 DEF RecomputeRow, TablesOK, NotesOK, history, entries, tables
<1>2. CASE Finish(t)
  BY <1>1, <1>2, SoundFinish
<1>3. CASE ~Finish(t)
  <2>1. /\ seen' = [seen EXCEPT ![t][q] = View(t)[q]]
        /\ To(t, IF View(t)[q].status \in Scorable THEN "attempts" ELSE "update")
        /\ UNCHANGED <<op, on, todo, picked, sent, read>>
    BY <1>3 DEF RecomputeRow
  <2>2. seen' \in [Threads -> Rows]
    BY <2>1, SeenStep
  <2>3. pc' \in [Threads -> {"idle", "expire", "prepare", "write", "row", "attempts", "update"}]
    BY <1>0, <2>1 DEF To, RequestsOK
  <2>4. RequestsOK'
    BY <1>0, <2>1, <2>2, <2>3 DEF RequestsOK
  <2>5. OnKnown'
    BY <1>0, <2>1 DEF To, OnKnown, RequestsOK
  <2>6. QED
    BY <1>1, <2>4, <2>5 DEF Sound
<1>4. QED
  BY <1>2, <1>3

LEMMA RecomputeAttemptsSound ==
  ASSUME Sound, NEW t \in Threads, NEW q \in Questions, RecomputeAttempts(t, q)
  PROVE  Sound'
<1>0. TablesOK /\ RequestsOK /\ NotesOK /\ OnKnown
  BY DEF Sound
<1>1. TablesOK' /\ NotesOK'
  BY <1>0 DEF RecomputeAttempts, TablesOK, NotesOK, history, entries, tables
<1>2. AnswersTo(q, att) \in Seq(Selections)
  BY <1>0, AnswersType DEF TablesOK
<1>3. RequestsOK'
  BY <1>0, <1>2 DEF RecomputeAttempts, To, RequestsOK
<1>4. OnKnown'
  BY <1>0 DEF RecomputeAttempts, To, OnKnown, RequestsOK
<1>5. QED
  BY <1>1, <1>3, <1>4 DEF Sound

LEMMA RecomputeUpdateIs ==
  ASSUME Sound, NEW t \in Threads, NEW q \in Questions, RecomputeUpdate(t, q)
  PROVE  /\ open' \in Opens /\ open'.by = t /\ open'.q = q
         /\ open'.data = IF Present(rec[q]) THEN Recomputed(seen[t][q], read[t]) ELSE rec[q]
         /\ open'.fresh = (/\ Scoring(seen[t][q]) = Scoring(rec[q])
                           /\ read[t] = IF seen[t][q].status \in Scorable
                                        THEN AnswersTo(q, att) ELSE <<>>)
         /\ open'.parts = Stale(t, {q})
         /\ open.by = NoThread
         /\ rec' = rec /\ audit' = audit /\ att' = att /\ order' = order /\ overdue' = overdue
         /\ wanted' = wanted /\ unaudited' = unaudited
         /\ disturbed' = disturbed /\ clobbered' = clobbered
         /\ Present(seen[t][q])
<1> DEFINE data  == IF Present(rec[q]) THEN Recomputed(seen[t][q], read[t]) ELSE rec[q]
<1> DEFINE fresh == /\ Scoring(seen[t][q]) = Scoring(rec[q])
                    /\ read[t] = IF seen[t][q].status \in Scorable THEN AnswersTo(q, att) ELSE <<>>
<1>1. open' = [by |-> t, q |-> q, data |-> data, fresh |-> fresh, parts |-> Stale(t, {q})]
  BY DEF RecomputeUpdate
<1>2. data \in Records
  <2>1. rec[q] \in Records
    BY ViewHas DEF Sound
  <2>2. Recomputed(seen[t][q], read[t]) \in Records
    BY SeenHas, RecomputedHas
  <2>3. QED
    BY <2>1, <2>2
<1>3. fresh \in BOOLEAN
  OBVIOUS
<1>4. Stale(t, {q}) \subseteq Parts
  BY StaleType
<1>5. open' \in Opens /\ open'.by = t /\ open'.q = q /\ open'.data = data /\ open'.fresh = fresh
      /\ open'.parts = Stale(t, {q})
  <2> HIDE DEF data, fresh
  <2>1. QED
    BY <1>1, <1>2, <1>3, <1>4 DEF Opens
<1>6. /\ open.by = NoThread
      /\ rec' = rec /\ audit' = audit /\ att' = att /\ order' = order /\ overdue' = overdue
      /\ wanted' = wanted /\ unaudited' = unaudited
      /\ disturbed' = disturbed /\ clobbered' = clobbered
      /\ Present(seen[t][q])
  BY DEF RecomputeUpdate, tables, history, entries
<1>7. QED
  BY <1>5, <1>6

LEMMA RecomputeUpdateSound ==
  ASSUME Sound, NEW t \in Threads, NEW q \in Questions, RecomputeUpdate(t, q)
  PROVE  Sound'
<1>1. TablesOK' /\ NotesOK'
  BY RecomputeUpdateIs DEF Sound, RecomputeUpdate, TablesOK, NotesOK, history, entries, tables
<1>2. QED
  BY <1>1, SoundFinish DEF RecomputeUpdate

LEMMA ReadForSound ==
  ASSUME Sound, NEW t \in Threads, NEW o \in {"patch", "import"},
         NEW qs \in SUBSET Questions, NEW p \in Sent, ReadFor(t, o, qs, p),
         o = "import" => "text" \in DOMAIN p
  PROVE  Sound'
<1>0. TablesOK /\ RequestsOK /\ NotesOK /\ OnKnown
  BY DEF Sound
<1>1. TablesOK' /\ NotesOK'
  BY <1>0 DEF ReadFor, TablesOK, NotesOK, history, entries, tables
<1>2. [q \in Questions |-> IF q \in qs THEN View(t)[q] ELSE Unborn] \in Rows
  BY <1>0, ViewHas, RecordTypes DEF Rows
<1>3. RequestsOK'
  <2> DEFINE r == [q \in Questions |-> IF q \in qs THEN View(t)[q] ELSE Unborn]
  <2>1. seen' = [seen EXCEPT ![t] = r] /\ r \in Rows
    BY <1>2 DEF ReadFor
  <2> HIDE DEF r
  <2>2. seen' \in [Threads -> Rows]
    BY <1>0, <2>1 DEF RequestsOK
  <2>3. /\ pc' \in [Threads -> {"idle", "expire", "prepare", "write", "row", "attempts", "update"}]
        /\ op' \in [Threads -> {"none", "grade", "regrade", "patch", "import"} \cup Revisions]
        /\ sent' \in [Threads -> Sent]
    BY <1>0 DEF ReadFor, To, RequestsOK
  <2>4. QED
    BY <1>0, <2>2, <2>3 DEF ReadFor, RequestsOK
<1>4. OnKnown'
  <2>1. /\ op'[t] = o /\ sent'[t] = p /\ pc'[t] = "write" /\ on' = on
        /\ \A u \in Threads : u # t =>
             pc'[u] = pc[u] /\ op'[u] = op[u] /\ sent'[u] = sent[u]
    BY <1>0 DEF ReadFor, To, RequestsOK
  <2>2. o \notin {"grade", "regrade"} \cup Revisions
    BY DEF Revisions
  <2>3. QED
    BY <1>0, <2>1, <2>2 DEF OnKnown
<1>5. QED
  BY <1>1, <1>3, <1>4 DEF Sound

LEMMA ReadingIs ==
  ASSUME Sound, NEW t \in Threads, Patch(t) \/ Import(t)
  PROVE  \E o \in {"patch", "import"}, qs \in SUBSET Questions, p \in Sent :
           ReadFor(t, o, qs, p) /\ (o = "import" => "text" \in DOMAIN p)
<1>1. CASE Patch(t)
  <2>1. PICK q \in Questions, p \in Patches : ReadFor(t, "patch", {q}, p)
    BY <1>1 DEF Patch
  <2>2. {q} \in SUBSET Questions /\ p \in Sent /\ "patch" # "import"
    BY DEF Sent
  <2>3. QED
    BY <2>1, <2>2
<1>2. CASE Import(t)
  <2>1. PICK qs \in SUBSET {q \in Questions : Present(View(t)[q])}, x \in Texts :
          ReadFor(t, "import", qs, [text |-> x])
    BY <1>2 DEF Import
  <2>2. qs \in SUBSET Questions /\ [text |-> x] \in Sent /\ "text" \in DOMAIN [text |-> x]
    BY DEF Sent
  <2>3. QED
    BY <2>1, <2>2
<1>3. QED
  BY <1>1, <1>2

\* What a patch or an import writes.
LEMMA WriteRecordsIs ==
  ASSUME Sound, NEW t \in Threads, WriteRecords(t)
  PROVE  \E qs \in SUBSET Questions, set \in SUBSET Fields : Stored(t, qs, set)
<1>1. PICK new \in SUBSET {q \in Questions : op[t] = "import" /\ View(t)[q].status = "unborn"},
           doubtful \in SUBSET Questions :
        LET old == {q \in Questions : Present(seen[t][q]) /\ Present(View(t)[q])}
            set == DOMAIN sent[t] \cap Fields
            data(q) == IF q \in new
                       THEN Fresh(q, sent[t].text, IF q \in doubtful THEN "conflict" ELSE "active")
                       ELSE Merged(seen[t][q], sent[t])
        IN
        /\ Store(t, old \cup new, set, data)
        /\ unaudited' = unaudited \cup new \cup (IF set \subseteq {"text"} THEN {} ELSE old)
  BY DEF WriteRecords
<1> DEFINE old == {q \in Questions : Present(seen[t][q]) /\ Present(View(t)[q])}
<1> DEFINE set == DOMAIN sent[t] \cap Fields
<1> DEFINE fresh(q) == Fresh(q, sent[t].text, IF q \in doubtful THEN "conflict" ELSE "active")
<1> DEFINE d == [q \in Questions |-> IF q \in new THEN fresh(q) ELSE Merged(seen[t][q], sent[t])]
<1> DEFINE qs == old \cup new
<1>2. /\ qs \in SUBSET Questions /\ set \in SUBSET Fields
      /\ old \subseteq Questions /\ new \subseteq Questions
      /\ \A q \in old : Present(seen[t][q]) /\ Present(View(t)[q])
      /\ \A q \in new : View(t)[q].status = "unborn"
      /\ \A q \in qs : q \in new \/ q \in old
  OBVIOUS
<1>3. StoredAs(t, qs, set, d)
  BY <1>1 DEF Store, Commit, StoredAs
<1>4. /\ unaudited' = unaudited \cup new \cup (IF set \subseteq {"text"} THEN {} ELSE old)
      /\ audit' = audit /\ att' = att /\ order' = order /\ overdue' = overdue
  BY <1>1 DEF WriteRecords
<1>5. ASSUME NEW q \in new PROVE d[q] \in Records /\ Present(d[q])
  <2>1. sent[t].text \in Texts
    BY <1>5, TextIsSent
  <2>2. d[q] = fresh(q) /\ q \in Questions
    BY <1>2
  <2>3. (IF q \in doubtful THEN "conflict" ELSE "active") \in AnswerStatuses
    BY DEF AnswerStatuses, Scorable
  <2>4. QED
    BY <2>1, <2>2, <2>3, FreshHas
<1>6. ASSUME NEW q \in old \ new
      PROVE  /\ d[q] \in Records /\ Present(d[q])
             /\ \A f \in Fields \ set : d[q][f] = seen[t][q][f]
  <2>1. d[q] = Merged(seen[t][q], sent[t]) /\ q \in Questions /\ Present(seen[t][q])
    BY <1>2
  <2>2. seen[t][q] \in Records /\ sent[t] \in Sent
    BY <2>1, SeenHas
  <2>3. Fields \ set = Fields \ DOMAIN sent[t]
    OBVIOUS
  <2> HIDE DEF d, set
  <2>4. QED
    BY <2>1, <2>2, <2>3, MergedHas
<1>7. \A q \in new : ~Present(View(t)[q])
  BY <1>2 DEF Present
<1>8. \A q \in qs : View(t)[q].status # "deleted"
  BY <1>2 DEF Present
<1>9. audit \in [Questions -> Statuses \X Selections] /\ unaudited \subseteq Questions
  BY DEF Sound, TablesOK, NotesOK
<1> HIDE DEF old, set, fresh, d, qs
<1>10. \A q \in qs : d[q] \in Records /\ Present(d[q])
  BY <1>2, <1>5, <1>6
<1>11. /\ StoredRows(t, qs, set)
       /\ \A q \in Questions : rec'[q] = IF q \in qs THEN d[q] ELSE View(t)[q]
  <2>1. qs \in SUBSET Questions /\ \A q \in qs : d[q] \in Records
    BY <1>2, <1>10
  <2>2. QED
    BY <1>3, <2>1, StoreIs
<1>12. Stored(t, qs, set)
  <2>1. \A q \in qs : Present(rec'[q]) /\ View(t)[q].status # "deleted"
    BY <1>2, <1>8, <1>10, <1>11
  <2>2. \A q \in qs : Present(View(t)[q]) => \A f \in Fields \ set : rec'[q][f] = seen[t][q][f]
    BY <1>2, <1>6, <1>7, <1>11
  <2>3. \A q \in Questions \ qs : rec'[q] = View(t)[q]
    BY <1>11
  <2>4. unaudited' \subseteq Questions
    BY <1>2, <1>4, <1>9
  <2>5. ASSUME NEW q \in Questions \ unaudited'
        PROVE  q \notin unaudited /\ (q \in qs => Present(View(t)[q]) /\ set \subseteq {"text"})
    BY <1>2, <1>4
  <2>6. QED
    BY <1>4, <1>9, <1>11, <2>1, <2>2, <2>3, <2>4, <2>5 DEF Stored
<1>13. QED
  BY <1>2, <1>12

LEMMA WriteRecordsSound ==
  ASSUME Sound, NEW t \in Threads, WriteRecords(t)
  PROVE  Sound'
<1>1. reqs' \in Nat /\ crashes' = crashes /\ Finish(t)
  BY DEF WriteRecords, Sound, NotesOK
<1>2. TablesOK' /\ NotesOK'
  BY <1>1, WriteRecordsIs, StoredTypes
<1>3. QED
  BY <1>1, <1>2, SoundFinish

\* What an insertion writes.
LEMMA InsertIs ==
  ASSUME Sound, NEW t \in Threads, Insert(t)
  PROVE  \E qs \in SUBSET Questions, set \in SUBSET Fields : Stored(t, qs, set)
<1>0. PICK qs \in SUBSET {q \in Questions : View(t)[q].status = "unborn"} :
        \E x \in [qs -> Texts], p \in [qs -> Patches] :
          LET data(q) == Merged(Fresh(q, x[q], "active"), p[q]) IN
          Store(t, qs, Fields, data) /\ unaudited' = unaudited \cup qs
  BY DEF Insert
<1>1. PICK x \in [qs -> Texts], p \in [qs -> Patches] :
        LET data(q) == Merged(Fresh(q, x[q], "active"), p[q]) IN
        Store(t, qs, Fields, data) /\ unaudited' = unaudited \cup qs
  BY <1>0
<1> DEFINE set == Fields
<1> DEFINE d == [q \in Questions |-> Merged(Fresh(q, x[q], "active"), p[q])]
<1>2. /\ qs \in SUBSET Questions /\ set \in SUBSET Fields
      /\ \A q \in qs : View(t)[q].status = "unborn"
  OBVIOUS
<1>3. StoredAs(t, qs, set, d)
  BY <1>1 DEF Store, Commit, StoredAs
<1>4. /\ unaudited' = unaudited \cup qs
      /\ audit' = audit /\ att' = att /\ order' = order /\ overdue' = overdue
  BY <1>1 DEF Insert
<1>5. ASSUME NEW q \in qs PROVE d[q] \in Records /\ Present(d[q])
  <2>1. x[q] \in Texts /\ p[q] \in Sent /\ q \in Questions
    BY <1>1, <1>2 DEF Sent
  <2>2. d[q] = Merged(Fresh(q, x[q], "active"), p[q])
    BY <2>1
  <2>3. "active" \in AnswerStatuses
    BY DEF AnswerStatuses, Scorable
  <2>4. Fresh(q, x[q], "active") \in Records /\ Present(Fresh(q, x[q], "active"))
    BY <2>1, <2>3, FreshHas
  <2> HIDE DEF d
  <2>5. QED
    BY <2>1, <2>2, <2>4, MergedHas
<1>6. audit \in [Questions -> Statuses \X Selections] /\ unaudited \subseteq Questions
  BY DEF Sound, TablesOK, NotesOK
<1> HIDE DEF d, set
<1>7. /\ StoredRows(t, qs, set)
      /\ \A q \in Questions : rec'[q] = IF q \in qs THEN d[q] ELSE View(t)[q]
  <2>1. qs \in SUBSET Questions /\ \A q \in qs : d[q] \in Records
    BY <1>2, <1>5
  <2>2. QED
    BY <1>3, <2>1, StoreIs
<1>8. Stored(t, qs, set)
  <2>1. \A q \in qs : Present(rec'[q]) /\ View(t)[q].status # "deleted"
    BY <1>2, <1>5, <1>7
  <2>2. \A q \in qs : \A f \in Fields \ set : rec'[q][f] = seen[t][q][f]
    BY DEF set
  <2>3. \A q \in Questions \ qs : rec'[q] = View(t)[q]
    BY <1>7
  <2>4. unaudited' \subseteq Questions
    BY <1>2, <1>4, <1>6
  <2>5. ASSUME NEW q \in Questions \ unaudited' PROVE q \notin unaudited /\ q \notin qs
    BY <1>4
  <2>6. QED
    BY <1>4, <1>6, <1>7, <2>1, <2>2, <2>3, <2>4, <2>5 DEF Stored
<1>9. QED
  BY <1>2, <1>8

LEMMA InsertSound ==
  ASSUME Sound, NEW t \in Threads, Insert(t)
  PROVE  Sound'
<1>1. reqs' \in Nat /\ crashes' = crashes /\ UNCHANGED <<pc, request>>
  BY DEF Insert, Sound, NotesOK
<1>2. TablesOK' /\ NotesOK'
  BY <1>1, InsertIs, StoredTypes
<1>3. QED
  BY <1>1, <1>2, SoundTables

LEMMA DeleteSound ==
  ASSUME Sound, NEW t \in Threads, NEW q \in Questions, Delete(t, q)
  PROVE  Sound'
<1>0. TablesOK /\ RequestsOK /\ NotesOK
  BY DEF Sound
<1>1. [View(t) EXCEPT ![q] = Gone] \in Rows
  BY <1>0, ViewHas, RecordTypes DEF Rows
<1>2./\ rec' \in Rows /\ open' \in Opens
      /\ disturbed' \subseteq Questions /\ clobbered' \subseteq Parts
  BY <1>0, <1>1, CommitTypes DEF Delete
<1>3. TablesOK' /\ NotesOK'
  BY <1>0, <1>2 DEF Delete, TablesOK, NotesOK, entries
<1>4. QED
  BY <1>3, SoundTables DEF Delete

LEMMA ThreadEndsSound ==
  ASSUME Sound, NEW t \in Threads, ThreadEnds(t)
  PROVE  Sound'
<1>0. TablesOK /\ RequestsOK /\ NotesOK
  BY DEF Sound
<1>1. open' \in Opens /\ disturbed' \subseteq Questions
  BY <1>0, RollbackTypes DEF ThreadEnds
<1>2. TablesOK' /\ NotesOK'
  BY <1>0, <1>1 DEF ThreadEnds, TablesOK, NotesOK, entries, tables
<1>3. QED
  BY <1>2, SoundTables DEF ThreadEnds

LEMMA CrashSound ==
  ASSUME Sound, Crash
  PROVE  Sound'
<1>0. TablesOK /\ RequestsOK /\ NotesOK
  BY DEF Sound
<1>1. <<>> \in Seq(Selections)
  OBVIOUS
<1>2. TablesOK' /\ NotesOK'
  BY <1>0, ClosedType, OpenHas DEF Crash, TablesOK, NotesOK, entries, tables
<1>3. RequestsOK'
  BY <1>1, RecordTypes DEF Crash, RequestsOK
<1>4. OnKnown'
  BY DEF Crash, OnKnown, Revisions
<1>5. QED
  BY <1>2, <1>3, <1>4 DEF Sound

LEMMA StutterSound == Sound /\ UNCHANGED vars => Sound'
BY DEF Sound, TablesOK, RequestsOK, NotesOK, OnKnown, vars, tables, request, history, entries

\* The steps of the system.
LEMMA NextIs ==
  ASSUME Sound, Next
  PROVE  \/ \E t \in Threads, a \in Attempts, qs \in SUBSET Questions : Draw(t, a, qs)
         \/ \E a \in Attempts : Age(a)
         \/ \E t \in Threads, a \in Attempts, o \in {"grade", "regrade"} \cup Revisions,
               qs \in SUBSET Questions, p \in [Questions -> Selections] :
               qs \subseteq att[a].qs /\ Lookup(t, o, a, qs, p)
         \/ \E t \in Threads : Expire(t) \/ WriteGrade(t) \/ WriteRegrade(t) \/ RegradeFails(t)
                               \/ GradeFails(t) \/ WriteRecords(t) \/ Insert(t) \/ ThreadEnds(t)
         \/ \E t \in Threads : PrepareFails(t) \/ Busy(t)
         \/ \E t \in Threads, q \in Questions :
               \/ Prepare(t, q) \/ WriteRevision(t, q) \/ RecomputeRow(t, q)
               \/ RecomputeAttempts(t, q) \/ RecomputeUpdate(t, q) \/ Delete(t, q)
         \/ \E t \in Threads, o \in {"patch", "import"}, qs \in SUBSET Questions, p \in Sent :
               ReadFor(t, o, qs, p) /\ (o = "import" => "text" \in DOMAIN p)
         \/ Crash
<1>1. ASSUME NEW t \in Threads, AttemptStep(t)
      PROVE  \/ \E a \in Attempts, qs \in SUBSET Questions : Draw(t, a, qs)
             \/ \E a \in Attempts : Grade(t, a) \/ Regrade(t, a) \/ Revise(t, a)
             \/ Expire(t) \/ PrepareFails(t) \/ WriteGrade(t) \/ WriteRegrade(t) \/ RegradeFails(t)
             \/ GradeFails(t)
             \/ \E q \in Questions : Prepare(t, q)
  BY <1>1 DEF AttemptStep
<1>2. ASSUME NEW t \in Threads, RevisionStep(t)
      PROVE  \E q \in Questions : \/ WriteRevision(t, q) \/ RecomputeRow(t, q)
                                  \/ RecomputeAttempts(t, q) \/ RecomputeUpdate(t, q)
  BY <1>2 DEF RevisionStep
<1>3. ASSUME NEW t \in Threads, RecordStep(t)
      PROVE  Patch(t) \/ Import(t) \/ WriteRecords(t) \/ Insert(t) \/ \E q \in Questions : Delete(t, q)
  BY <1>3 DEF RecordStep
<1>4. \/ \E t \in Threads : AttemptStep(t) \/ RevisionStep(t) \/ RecordStep(t)
                            \/ Busy(t) \/ ThreadEnds(t)
      \/ \E a \in Attempts : Age(a)
      \/ Crash
  BY DEF Next
<1>5. ASSUME NEW t \in Threads, AttemptStep(t) PROVE
         \/ \E a \in Attempts, qs \in SUBSET Questions : Draw(t, a, qs)
         \/ \E a \in Attempts, o \in {"grade", "regrade"} \cup Revisions,
               qs \in SUBSET Questions, p \in [Questions -> Selections] :
               qs \subseteq att[a].qs /\ Lookup(t, o, a, qs, p)
         \/ Expire(t) \/ PrepareFails(t) \/ WriteGrade(t) \/ WriteRegrade(t) \/ RegradeFails(t)
         \/ GradeFails(t)
         \/ \E q \in Questions : Prepare(t, q)
  <2>1. CASE \E a \in Attempts : Grade(t, a) \/ Regrade(t, a) \/ Revise(t, a)
    BY <2>1, RequestIs
  <2>2. QED
    BY <1>1, <1>5, <2>1
<1>6. ASSUME NEW t \in Threads, RecordStep(t) PROVE
         \/ \E o \in {"patch", "import"}, qs \in SUBSET Questions, p \in Sent :
               ReadFor(t, o, qs, p) /\ (o = "import" => "text" \in DOMAIN p)
         \/ WriteRecords(t) \/ Insert(t) \/ \E q \in Questions : Delete(t, q)
  BY <1>3, <1>6, ReadingIs
<1>7. QED
  BY <1>2, <1>4, <1>5, <1>6

LEMMA NextSound ==
  ASSUME Sound, Next
  PROVE  Sound'
BY NextIs, DrawSound, AgeSound, LookupSound, ExpireSound, WriteGradeSound, WriteRegradeSound,
   RegradeFailsSound, GradeFailsSound, WriteRecordsSound, InsertSound, ThreadEndsSound,
   PrepareFailsSound, BusySound,
   PrepareSound, WriteRevisionSound, RecomputeRowSound, RecomputeAttemptsSound,
   RecomputeUpdateSound, DeleteSound, ReadForSound, CrashSound

\* Rows, connections and requests hold what the code can put there, however
\* gradings, revisions, imports and hand-made edits of any field interleave.
THEOREM TypeCorrect == Spec => []TypeOK
<1>1. Sound /\ [Next]_vars => Sound'
  BY NextSound, StutterSound
<1>2. Sound => TypeOK
  BY TypeParts DEF Sound
<1>3. QED
  BY InitSound, <1>1, <1>2, PTL DEF Spec

-----------------------------------------------------------------------------
(* Answers that count *)

LEMMA OneLonger ==
  ASSUME NEW n \in Nat, NEW R, NEW x \in [1 .. n -> R], NEW z \in R,
         NEW y \in [1 .. (n + 1) -> R], y[n + 1] = z, \A i \in 1 .. n : y[i] = x[i]
  PROVE  y = Append(x, z)
<1>1. x \in Seq(R) /\ Len(x) = n
  BY FunctionIsSeq
<1>2. y \in Seq(R) /\ Len(y) = n + 1
  <2>1. n + 1 \in Nat
    OBVIOUS
  <2> DEFINE m == n + 1
  <2> HIDE DEF m
  <2>2. m \in Nat /\ y \in [1 .. m -> R]
    BY <2>1 DEF m
  <2>3. y \in Seq(R) /\ Len(y) = m
    BY <2>2, FunctionIsSeq
  <2>4. QED
    BY <2>3 DEF m
<1> DEFINE u == Append(x, z)
<1>3. u \in Seq(R) /\ Len(u) = n + 1
  BY <1>1
<1>4. u[n + 1] = z /\ \A i \in 1 .. n : u[i] = x[i]
  BY <1>1, AppendAt
<1> HIDE DEF u
<1>5. ASSUME NEW i \in 1 .. (n + 1) PROVE u[i] = y[i]
  <2>1. i \in 1 .. n \/ i = n + 1
    OBVIOUS
  <2>2. QED
    BY <1>4, <2>1
<1>6. u = y
  BY <1>2, <1>3, <1>5
<1>7. QED
  BY <1>6 DEF u

\* AnswersTo, for any order of the attempts.
AnswersAt(o, q, at) ==
  LET graded == Kept(o, Counting(q, at))
  IN  [i \in DOMAIN graded |-> at[graded[i]].answers[q]]

LEMMA AnswersAre ==
  ASSUME NEW q
  PROVE  /\ \A at : AnswersTo(q, at) = AnswersAt(order, q, at)
         /\ AnswersTo(q, att)' = AnswersAt(order', q, att')
BY DEF AnswersTo, AnswersAt, Counting

LEMMA CountingIs ==
  ASSUME NEW q, NEW at, NEW a \in Attempts
  PROVE  a \in Counting(q, at) <=> at[a].status = "graded" /\ q \in at[a].qs
BY DEF Counting

Others(a) == Attempts \ {a}
MovedLast(o, a) == Append(Kept(o, Others(a)), a)

\* Moving one attempt to the end does not touch what is kept of the others.
LEMMA MovedKeeps ==
  ASSUME NEW o \in Seq(Attempts), NEW a \in Attempts, NEW S \in SUBSET Attempts, a \notin S
  PROVE  /\ Kept(Append(Kept(o, Others(a)), a), S) = Kept(o, S)
         /\ \A T : T = S \cup {a} =>
              Kept(Append(Kept(o, Others(a)), a), T) = Append(Kept(o, S), a)
<1> DEFINE k == Kept(o, Others(a))
<1>1. k \in Seq(Attempts)
  <2>1. k \in Seq(Attempts \cap Others(a))
    BY KeptType
  <2>2. QED
    BY <2>1
<1>2. \A T : Kept(k, T) = Kept(o, T \cap Others(a))
  BY KeptKept
<1> HIDE DEF k
<1>3. \A T : Kept(Append(k, a), T) = IF a \in T THEN Append(Kept(k, T), a) ELSE Kept(k, T)
  BY <1>1, KeptMore
<1>4. \A T : T = S \/ T = S \cup {a} => T \cap Others(a) = S
  BY DEF Others
<1>5. \A T : T = S \/ T = S \cup {a} => Kept(k, T) = Kept(o, S)
  BY <1>2, <1>4
<1>6. Kept(Append(k, a), S) = Kept(o, S)
  BY <1>3, <1>5
<1>7. ASSUME NEW T, T = S \cup {a} PROVE Kept(Append(k, a), T) = Append(Kept(o, S), a)
  <2>1. a \in T
    BY <1>7
  <2>2. Kept(k, T) = Kept(o, S)
    BY <1>5, <1>7
  <2>3. QED
    BY <1>3, <2>1, <2>2
<1>8. QED
  BY <1>6, <1>7 DEF k

\* An attempt that does not count, before and after, changes no answers.
LEMMA AnswersSame ==
  ASSUME NEW o \in Seq(Attempts), NEW a \in Attempts, NEW at, NEW at2, NEW o2, NEW q,
         \A b \in Attempts : b # a => at2[b] = at[b],
         a \notin Counting(q, at), a \notin Counting(q, at2),
         o2 = o \/ o2 = MovedLast(o, a)
  PROVE  AnswersAt(o2, q, at2) = AnswersAt(o, q, at)
<1> DEFINE S == Counting(q, at)
<1> DEFINE g == Kept(o, S)
<1>1. Counting(q, at2) = S
  BY DEF Counting
<1>2. S \in SUBSET Attempts
  BY DEF Counting
<1>3. Kept(o2, S) = g
  <2>1. CASE o2 = o
    BY <2>1
  <2>2. CASE o2 = MovedLast(o, a)
    <3>1. a \notin S
      OBVIOUS
    <3> HIDE DEF S
    <3>2. QED
      BY <1>2, <2>2, <3>1, MovedKeeps DEF MovedLast
  <2>3. QED
    BY <2>1, <2>2
<1>4. g \in Seq(Attempts \cap S)
  BY KeptType
<1>5. \A i \in DOMAIN g : g[i] \in Attempts /\ g[i] # a
  BY <1>4
<1> HIDE DEF g, S
<1>6. \A i \in DOMAIN g : at2[g[i]].answers[q] = at[g[i]].answers[q]
  BY <1>5
<1>7. [i \in DOMAIN g |-> at2[g[i]].answers[q]] = [i \in DOMAIN g |-> at[g[i]].answers[q]]
  BY <1>6
<1>8. AnswersAt(o2, q, at2) = [i \in DOMAIN g |-> at2[g[i]].answers[q]]
  BY <1>1, <1>3 DEF AnswersAt
<1>9. AnswersAt(o, q, at) = [i \in DOMAIN g |-> at[g[i]].answers[q]]
  BY DEF AnswersAt, g, S
<1>10. QED
  BY <1>7, <1>8, <1>9

\* An attempt that is graded for the first time adds its answer.
LEMMA AnswersMore ==
  ASSUME NEW o \in Seq(Attempts), NEW a \in Attempts, NEW at, NEW at2, NEW o2, NEW q,
         \A b \in Attempts : b # a => at2[b] = at[b],
         a \notin Counting(q, at), a \in Counting(q, at2),
         o2 = MovedLast(o, a)
  PROVE  AnswersAt(o2, q, at2) = Append(AnswersAt(o, q, at), at2[a].answers[q])
<1> DEFINE S == Counting(q, at)
<1> DEFINE g == Kept(o, S)
<1> DEFINE h == Append(g, a)
<1>1. Counting(q, at2) = S \cup {a}
  BY DEF Counting
<1>2. S \in SUBSET Attempts
  BY DEF Counting
<1>3. Kept(o2, Counting(q, at2)) = h
  <2>1. a \notin S
    OBVIOUS
  <2> HIDE DEF S
  <2>2. QED
    BY <1>1, <1>2, <2>1, MovedKeeps DEF MovedLast
<1>4. g \in Seq(Attempts \cap S)
  BY KeptType
<1>5. g \in Seq(Attempts) /\ \A i \in DOMAIN g : g[i] \in Attempts /\ g[i] # a
  BY <1>4
<1>6. AnswersAt(o, q, at) = [i \in DOMAIN g |-> at[g[i]].answers[q]]
  BY DEF AnswersAt
<1> HIDE DEF g, S
<1> DEFINE n == Len(g)
<1>7. /\ n \in Nat /\ DOMAIN g = 1 .. n /\ DOMAIN h = 1 .. (n + 1) /\ h[n + 1] = a
      /\ \A i \in 1 .. n : h[i] = g[i]
  BY <1>5
<1> HIDE DEF n, h
<1> DEFINE x == [i \in 1 .. n |-> at[g[i]].answers[q]]
<1> DEFINE y == [i \in 1 .. (n + 1) |-> at2[h[i]].answers[q]]
<1>8. AnswersAt(o, q, at) = x
  BY <1>6, <1>7
<1>9. AnswersAt(o2, q, at2) = y
  BY <1>3, <1>7 DEF AnswersAt
<1>10. y = Append(x, at2[a].answers[q])
  <2>1. \A i \in 1 .. n : at2[h[i]].answers[q] = at[g[i]].answers[q]
    BY <1>5, <1>7
  <2>2. y[n + 1] = at2[a].answers[q] /\ \A i \in 1 .. n : y[i] = x[i]
    BY <1>7, <2>1
  <2> DEFINE R == {y[i] : i \in 1 .. (n + 1)}
  <2>3. n \in Nat /\ y \in [1 .. (n + 1) -> R] /\ y[n + 1] \in R
    BY <1>7
  <2>4. x \in [1 .. n -> R]
    <3>1. \A i \in 1 .. n : y[i] \in R
      BY <1>7
    <3> HIDE DEF y, R
    <3>2. QED
      BY <2>2, <3>1
  <2> HIDE DEF x, y, R
  <2>5. QED
    BY <2>2, <2>3, <2>4, OneLonger
<1>11. QED
  BY <1>8, <1>9, <1>10

-----------------------------------------------------------------------------
(* Writers and the rest *)

\* Steps that touch no row, and steps that lose what a connection had open.
Quiet    == UNCHANGED <<rec, audit, att, order, open, wanted, unaudited, disturbed, clobbered>>
Dropping == /\ UNCHANGED <<rec, audit, att, order, wanted, unaudited, clobbered>>
            /\ open' = open \/ open'.by = NoThread
            /\ disturbed \subseteq disturbed'

\* Those that set fields of records.
Stores(t) == WriteRecords(t) \/ Insert(t) \/ \E q \in Questions : WriteRevision(t, q)

Writes(t) ==
  \/ \E a \in Attempts, qs \in SUBSET Questions : Draw(t, a, qs)
  \/ Expire(t) \/ WriteGrade(t) \/ WriteRegrade(t) \/ Stores(t)
  \/ \E q \in Questions : Delete(t, q)

LEMMA StoresIs ==
  ASSUME Sound, NEW t \in Threads, Stores(t)
  PROVE  \E qs \in SUBSET Questions, set \in SUBSET Fields : Stored(t, qs, set)
<1>1. CASE \E q \in Questions : WriteRevision(t, q)
  <2>1. {"status", "key"} \in SUBSET Fields
    BY DEF Fields
  <2>2. QED
    BY <1>1, <2>1, WriteRevisionIs
<1>2. QED
  BY <1>1, WriteRecordsIs, InsertIs DEF Stores

LEMMA EffectIs ==
  ASSUME Sound, Next
  PROVE  \/ Quiet \/ Dropping
         \/ \E t \in Threads : Writes(t)
         \/ \E t \in Threads, q \in Questions : RecomputeUpdate(t, q)
<1>1. ASSUME NEW t \in Threads, RegradeFails(t) \/ GradeFails(t) \/ ThreadEnds(t)
      PROVE  Dropping
  BY <1>1, ClosedType DEF RegradeFails, GradeFails, ThreadEnds, Rollback, Dropping, tables, entries
<1>2. ASSUME Crash PROVE Dropping
  BY <1>2, ClosedType DEF Crash, Dropping, tables, entries
<1>3. ASSUME NEW t \in Threads, PrepareFails(t) \/ Busy(t) PROVE Quiet
  BY <1>3 DEF PrepareFails, Busy, Quiet, tables, history, entries
<1>4. ASSUME NEW t \in Threads, NEW q \in Questions,
             Prepare(t, q) \/ RecomputeRow(t, q) \/ RecomputeAttempts(t, q)
      PROVE Quiet
  BY <1>4 DEF Prepare, RecomputeRow, RecomputeAttempts, Quiet, tables, history, entries
<1>5. ASSUME NEW a \in Attempts, Age(a) PROVE Quiet
  BY <1>5 DEF Age, Quiet, history, entries
<1>6. ASSUME NEW t, NEW o, NEW a, NEW qs, NEW p, Lookup(t, o, a, qs, p) PROVE Quiet
  BY <1>6 DEF Lookup, Quiet, tables, history, entries
<1>7. ASSUME NEW t, NEW o, NEW qs, NEW x, ReadFor(t, o, qs, x) PROVE Quiet
  BY <1>7 DEF ReadFor, Quiet, tables, history, entries
<1>8. QED
  BY <1>1, <1>2, <1>3, <1>4, <1>5, <1>6, <1>7, NextIs DEF Writes, Stores

\* A writer holds the only transaction, and leaves none.
LEMMA WriterIs ==
  ASSUME Sound, NEW t \in Threads, Writes(t)
  PROVE  /\ open.by \in {NoThread, t} /\ open'.by = NoThread /\ open' = Closed
         /\ rec' \in Rows /\ \A q \in Questions : rec'[q] \in Records
<1>1. CanWrite(t) /\ open' = Closed
  <2>1. ASSUME Stores(t) PROVE CanWrite(t) /\ open' = Closed
    BY <2>1, StoresIs DEF Stored, StoredRows
  <2>2. QED
    BY <2>1, WriteGradeIs DEF Writes, Draw, Expire, WriteRegrade, Delete, Commit
<1>2. Sound'
  BY DrawSound, ExpireSound, WriteGradeSound, WriteRegradeSound, WriteRecordsSound,
     InsertSound, WriteRevisionSound, DeleteSound DEF Writes, Stores
<1>3. rec' \in Rows
  BY <1>2 DEF Sound, TablesOK
<1>4. QED
  BY <1>1, <1>3, ClosedType DEF CanWrite, Rows

\* What a writer makes of a record: what its connection saw, unless it is one of
\* those it writes.
LEMMA WrittenIs ==
  ASSUME Sound, NEW t \in Threads, Writes(t), NEW q \in Questions
  PROVE  \/ rec'[q] = View(t)[q]
         \/ /\ Present(View(t)[q])
            /\ \/ WriteGrade(t) /\ q \in Scoring1(t) /\ rec'[q] = Graded(t)[q]
               \/ WriteRegrade(t) /\ q \in att[on[t]].qs /\ rec'[q] = Regraded(t)[q]
               \/ Delete(t, q) /\ rec'[q] = Gone
         \/ Stores(t) /\ Present(rec'[q]) /\ View(t)[q].status # "deleted"
<1>0. View(t) \in Rows
  BY ViewHas DEF Sound
<1>1. ASSUME NEW qs \in SUBSET Questions, NEW d, rec' = UpdatedOf(t, qs, d)
      PROVE  rec'[q] = IF q \in qs /\ Present(View(t)[q]) THEN d[q] ELSE View(t)[q]
  BY <1>1 DEF UpdatedOf
<1>2. CASE (\E a \in Attempts, qs \in SUBSET Questions : Draw(t, a, qs)) \/ Expire(t)
  BY <1>2 DEF Draw, Expire, Commit
<1>3. CASE WriteGrade(t)
  <2>1. rec' = UpdatedOf(t, Scoring1(t), Graded(t)) /\ Scoring1(t) \in SUBSET Questions
    BY <1>3, WriteGradeIs DEF Commit
  <2>2. QED
    BY <1>1, <1>3, <2>1
<1>4. CASE WriteRegrade(t)
  <2>1. rec' = UpdatedOf(t, att[on[t]].qs, Regraded(t)) /\ att[on[t]].qs \in SUBSET Questions
    BY <1>4, WriteRegradeIs
  <2>2. QED
    BY <1>1, <1>4, <2>1
<1>5. CASE Stores(t)
  <2>1. PICK qs \in SUBSET Questions, set \in SUBSET Fields : Stored(t, qs, set)
    BY <1>5, StoresIs
  <2>2. QED
    BY <1>5, <2>1 DEF Stored
<1>7. CASE \E p \in Questions : Delete(t, p)
  <2>1. PICK p \in Questions : Delete(t, p)
    BY <1>7
  <2>2. rec' = [View(t) EXCEPT ![p] = Gone] /\ Present(View(t)[p])
    BY <2>1 DEF Delete, Commit
  <2>3. rec'[q] = IF q = p THEN Gone ELSE View(t)[q]
    BY <1>0, <2>2 DEF Rows
  <2>4. QED
    BY <2>1, <2>2, <2>3
<1>8. QED
  BY <1>2, <1>3, <1>4, <1>5, <1>7 DEF Writes

-----------------------------------------------------------------------------
(* Born records *)

\* A question that was read, drawn or revised was imported, and no record goes
\* back to that.
BornInv ==
  /\ \A t \in Threads, q \in Questions : Present(seen[t][q]) => rec[q].status # "unborn"
  /\ \A a \in Attempts : \A q \in att[a].qs : rec[q].status # "unborn"
  /\ open.by # NoThread => open.data.status # "unborn" /\ rec[open.q].status # "unborn"

LEMMA ViewBorn ==
  ASSUME Sound, BornInv, NEW t \in Threads, NEW q \in Questions
  PROVE  View(t)[q].status = "unborn" <=> rec[q].status = "unborn"
<1>1. CASE open.by # t
  BY <1>1, ViewHas DEF Sound
<1>2. CASE open.by = t
  <2>1. open.data.status # "unborn" /\ rec[open.q].status # "unborn"
    BY <1>2 DEF BornInv
  <2>2. QED
    BY <1>2, <2>1, ViewHas DEF Sound
<1>3. QED
  BY <1>1, <1>2

LEMMA WritesBorn ==
  ASSUME Sound, BornInv, NEW t \in Threads, Writes(t), NEW q \in Questions,
         rec[q].status # "unborn"
  PROVE  rec'[q].status # "unborn"
<1>0. View(t)[q].status # "unborn"
  BY ViewBorn
<1>1. WriteGrade(t) => Graded(t)[q].status = seen[t][q].status
  BY GradedHas
<1>2. q \in Scoring1(t) => seen[t][q].status \in Scorable
  BY DEF Scoring1
<1>3. WriteRegrade(t) /\ q \in att[on[t]].qs => Regraded(t)[q].status = View(t)[q].status
  <2>1. SUFFICES ASSUME WriteRegrade(t) PROVE Regraded(t)[q].status = View(t)[q].status
    OBVIOUS
  <2>2. View(t)[q] \in Records
    BY ViewHas DEF Sound
  <2>3. AnswersTo(q, Reanswered(t)) \in Seq(Selections)
    BY <2>1, WriteRegradeIs, AnswersType DEF Sound, TablesOK
  <2>4. QED
    BY <2>2, <2>3, RecomputedHas DEF Regraded
<1>4. Gone.status # "unborn"
  BY StatusesAre
<1>5. Present(rec'[q]) => rec'[q].status # "unborn"
  BY DEF Present
<1>6. "unborn" \notin Scorable
  BY DEF Scorable
<1>7. QED
  BY <1>0, <1>1, <1>2, <1>3, <1>4, <1>5, <1>6, WrittenIs

LEMMA StepBorn ==
  ASSUME Sound, BornInv, Next, NEW q \in Questions, rec[q].status # "unborn"
  PROVE  rec'[q].status # "unborn"
BY EffectIs, WritesBorn, RecomputeUpdateIs DEF Quiet, Dropping

\* Where what a thread has read of a record comes from.
LEMMA SeenIs ==
  ASSUME Sound, Next, NEW u \in Threads, NEW q \in Questions
  PROVE  seen'[u][q] \in {seen[u][q], View(u)[q], Unborn}
<1>1. ASSUME NEW t \in Threads, Finish(t) PROVE seen'[u][q] \in {seen[u][q], Unborn}
  BY <1>1 DEF Finish, Sound, RequestsOK, NothingSeen
<1>2. ASSUME seen' = seen PROVE seen'[u][q] = seen[u][q]
  BY <1>2
<1>3. ASSUME NEW t \in Threads, NEW p \in Questions, seen' = [seen EXCEPT ![t][p] = View(t)[p]]
      PROVE  seen'[u][q] \in {seen[u][q], View(u)[q]}
  <2>1. seen'[t][p] = View(t)[p]
    BY <1>3, SeenStep
  <2>2. \A r \in Questions : r # p => seen'[t][r] = seen[t][r]
    BY <1>3, SeenStep
  <2>3. \A v \in Threads : v # t => seen'[v] = seen[v]
    BY <1>3, SeenStep
  <2>4. QED
    BY <2>1, <2>2, <2>3
<1>4. ASSUME NEW t \in Threads, NEW o, NEW qs \in SUBSET Questions, NEW x, ReadFor(t, o, qs, x)
      PROVE  seen'[u][q] \in {seen[u][q], View(u)[q], Unborn}
  <2>1. seen' = [seen EXCEPT ![t] = [p \in Questions |-> IF p \in qs THEN View(t)[p] ELSE Unborn]]
    BY <1>4 DEF ReadFor
  <2>2. CASE u = t
    BY <2>1, <2>2 DEF Sound, RequestsOK
  <2>3. CASE u # t
    BY <2>1, <2>3 DEF Sound, RequestsOK
  <2>4. QED
    BY <2>2, <2>3
<1>5. ASSUME Crash PROVE seen'[u][q] = Unborn
  BY <1>5 DEF Crash, NothingSeen
<1>6. \/ seen' = seen \/ Crash
      \/ \E t \in Threads : Finish(t)
      \/ \E t \in Threads, p \in Questions : seen' = [seen EXCEPT ![t][p] = View(t)[p]]
      \/ \E t \in Threads, o \in {"patch", "import"}, qs \in SUBSET Questions, p \in Sent :
               ReadFor(t, o, qs, p)
  <2>1. ASSUME NEW t \in Threads, Expire(t) \/ WriteGrade(t) \/ WriteRegrade(t) \/ RegradeFails(t)
                               \/ GradeFails(t) \/ WriteRecords(t) \/ PrepareFails(t) \/ Busy(t)
        PROVE  Finish(t)
    BY <2>1 DEF Expire, WriteGrade, WriteRegrade, RegradeFails, GradeFails, WriteRecords,
                PrepareFails, Busy
  <2>2. ASSUME NEW t \in Threads, ThreadEnds(t) \/ Insert(t) PROVE seen' = seen
    BY <2>2 DEF ThreadEnds, Insert, request
  <2>3. ASSUME NEW t \in Threads, NEW p \in Questions,
               \/ Prepare(t, p) \/ WriteRevision(t, p) \/ RecomputeRow(t, p)
               \/ RecomputeAttempts(t, p) \/ RecomputeUpdate(t, p) \/ Delete(t, p)
        PROVE  seen' = seen \/ Finish(t) \/ seen' = [seen EXCEPT ![t][p] = View(t)[p]]
    BY <2>3 DEF Prepare, WriteRevision, RecomputeRow, RecomputeAttempts, RecomputeUpdate, Delete,
                request
  <2>4. ASSUME NEW t, NEW a, NEW qs, Draw(t, a, qs) PROVE seen' = seen
    BY <2>4 DEF Draw, request
  <2>5. ASSUME NEW a, Age(a) PROVE seen' = seen
    BY <2>5 DEF Age, request
  <2>6. ASSUME NEW t, NEW o, NEW a, NEW qs, NEW p, Lookup(t, o, a, qs, p) PROVE seen' = seen
    BY <2>6 DEF Lookup
  <2>7. QED
    BY <2>1, <2>2, <2>3, <2>4, <2>5, <2>6, NextIs
<1>7. QED
  BY <1>1, <1>2, <1>3, <1>4, <1>5, <1>6

\* The questions of an attempt are those it was drawn with.
LEMMA QsAre ==
  ASSUME Sound, Next, NEW a \in Attempts
  PROVE  \/ att'[a].qs = att[a].qs
         \/ \E t \in Threads, qs \in SUBSET Questions : Draw(t, a, qs) /\ att'[a].qs = qs
<1>1. ASSUME NEW t \in Threads, NEW b \in Attempts, NEW qs \in SUBSET Questions, Draw(t, b, qs)
      PROVE  /\ a # b => att'[a] = att[a]
             /\ att'[b].qs = qs
  BY <1>1, AttRow DEF Draw, Sound, TablesOK, AttemptRows, AttemptRow
<1>2. ASSUME NEW t \in Threads, Expire(t)
      PROVE  att'[a].qs = att[a].qs
  <2>1. att' = [att EXCEPT ![on[t]].status = "expired"]
    BY <1>2 DEF Expire
  <2>2. QED
    BY <2>1 DEF Sound, TablesOK, AttemptRows, AttemptRow
<1>3. ASSUME NEW t \in Threads, WriteGrade(t)
      PROVE  att'[a].qs = att[a].qs
  <2>1. att' = [att EXCEPT ![on[t]].status = "graded", ![on[t]].answers = picked[t]]
    BY <1>3 DEF WriteGrade
  <2>2. QED
    BY <2>1 DEF Sound, TablesOK, AttemptRows, AttemptRow
<1>4. ASSUME NEW t \in Threads, WriteRegrade(t)
      PROVE  att'[a].qs = att[a].qs
  <2>1. att' = [att EXCEPT ![on[t]].answers = picked[t]]
    BY <1>4 DEF WriteRegrade
  <2>2. QED
    BY <2>1 DEF Sound, TablesOK, AttemptRows, AttemptRow
<1>5. ASSUME NEW t \in Threads, Stores(t) \/ \E q \in Questions : Delete(t, q)
      PROVE  att'[a].qs = att[a].qs
  BY <1>5 DEF Stores, WriteRecords, Insert, WriteRevision, Delete
<1>6. Quiet \/ Dropping => att'[a].qs = att[a].qs
  BY DEF Quiet, Dropping
<1>7. ASSUME NEW t \in Threads, NEW q \in Questions, RecomputeUpdate(t, q)
      PROVE  att'[a].qs = att[a].qs
  BY <1>7, RecomputeUpdateIs
<1>8. QED
  BY <1>1, <1>2, <1>3, <1>4, <1>5, <1>6, <1>7, EffectIs DEF Writes

LEMMA BornKept ==
  ASSUME Sound, BornInv, Next
  PROVE  BornInv'
<1>1. \A q \in Questions : rec[q].status # "unborn" => rec'[q].status # "unborn"
  BY StepBorn
<1>2. ASSUME NEW u \in Threads, NEW q \in Questions, Present(seen'[u][q])
      PROVE  rec'[q].status # "unborn"
  <2>1. seen'[u][q] = seen[u][q] \/ seen'[u][q] = View(u)[q]
    <3>1. ~Present(Unborn)
      BY DEF Present, Unborn
    <3>2. QED
      BY <1>2, <3>1, SeenIs
  <2>2. Present(seen[u][q]) => rec[q].status # "unborn"
    BY DEF BornInv
  <2>3. Present(View(u)[q]) => rec[q].status # "unborn"
    BY ViewBorn DEF Present
  <2>4. QED
    BY <1>1, <1>2, <2>1, <2>2, <2>3
<1>3. ASSUME NEW a \in Attempts, NEW q \in att'[a].qs
      PROVE  rec'[q].status # "unborn"
  <2>1. CASE att'[a].qs = att[a].qs
    <3>1. q \in Questions
      BY <2>1, AttRow, AttemptChanges DEF Sound
    <3>2. rec[q].status # "unborn"
      BY <2>1 DEF BornInv
    <3>3. QED
      BY <1>1, <3>1, <3>2
  <2>2. CASE \E t \in Threads, qs \in SUBSET Questions : Draw(t, a, qs) /\ att'[a].qs = qs
    <3>1. PICK t \in Threads, qs \in SUBSET Questions : Draw(t, a, qs) /\ att'[a].qs = qs
      BY <2>2
    <3>2. q \in Questions /\ View(t)[q].status \in Scorable
      BY <3>1 DEF Draw
    <3>3. View(t)[q].status # "unborn"
      BY <3>2 DEF Scorable
    <3>4. QED
      BY <1>1, <3>2, <3>3, ViewBorn
  <2>3. QED
    BY <2>1, <2>2, QsAre
<1>4. ASSUME open'.by # NoThread
      PROVE  open'.data.status # "unborn" /\ rec'[open'.q].status # "unborn"
  <2>1. CASE open' = open
    BY <1>1, <1>4, <2>1, OpenHas DEF BornInv, Sound, TablesOK
  <2>2. CASE \E t \in Threads, q \in Questions : RecomputeUpdate(t, q)
    <3>1. PICK t \in Threads, q \in Questions : RecomputeUpdate(t, q)
      BY <2>2
    <3>2. /\ Present(seen[t][q]) /\ rec' = rec /\ open'.q = q
          /\ open'.data = IF Present(rec[q]) THEN Recomputed(seen[t][q], read[t]) ELSE rec[q]
      BY <3>1, RecomputeUpdateIs
    <3>3. rec[q].status # "unborn"
      BY <3>2 DEF BornInv
    <3>4. Recomputed(seen[t][q], read[t]).status = seen[t][q].status
      BY SeenHas, RecomputedHas
    <3>5. seen[t][q].status # "unborn"
      BY <3>2 DEF Present
    <3>6. open'.data.status # "unborn"
      BY <3>2, <3>3, <3>4, <3>5
    <3>7. QED
      BY <3>2, <3>3, <3>6
  <2>3. CASE \E t \in Threads : Writes(t)
    BY <1>4, <2>3, WriterIs
  <2>4. QED
    BY <1>4, <2>1, <2>2, <2>3, EffectIs DEF Quiet, Dropping
<1>5. QED
  <2>1. \A u \in Threads, q \in Questions : Present(seen[u][q])' => rec'[q].status # "unborn"
    BY <1>2 DEF Present
  <2>2. QED
    BY <1>3, <1>4, <2>1 DEF BornInv

LEMMA BornInit == Init => BornInv
BY ClosedType DEF Init, BornInv, NothingSeen, Unborn, Present

LEMMA BornStutter == BornInv /\ UNCHANGED vars => BornInv'
BY DEF BornInv, vars, tables, request, history, entries, Present

-----------------------------------------------------------------------------
(* The last write *)

\* A row of q has what was last written to each of its fields, as far as c does
\* not excuse it.
Carries(r, q, c) ==
  Present(r) => \A f \in Fields : <<q, f>> \notin c => r[f] = wanted[q][f]

\* The audit row of q tells what was last written to its status and key.
Audited(q) ==
  Present(rec[q]) /\ q \notin unaudited =>
    audit[q] = <<wanted[q]["status"], wanted[q]["key"]>>

\* The invariant: the rows, the one an open transaction will write, which has
\* its record on file, and the audit rows.
CarryInv ==
  /\ \A q \in Questions : Carries(rec[q], q, clobbered) /\ Audited(q)
  /\ open.by # NoThread => /\ Carries(open.data, open.q, clobbered \cup open.parts)
                           /\ Present(open.data) => Present(rec[open.q])

LEMMA CarryHolds == CarryInv => LastWriteIsKept
<1> SUFFICES ASSUME CarryInv, NEW q \in Questions, Present(rec[q])
             PROVE  /\ \A f \in Fields : <<q, f>> \notin clobbered => rec[q][f] = wanted[q][f]
                    /\ q \notin unaudited /\ {<<q, "status">>, <<q, "key">>} \cap clobbered = {} =>
                         audit[q] = <<rec[q].status, rec[q].key>>
  BY DEF LastWriteIsKept
<1>1. \A f \in Fields : <<q, f>> \notin clobbered => rec[q][f] = wanted[q][f]
  BY DEF CarryInv, Carries
<1>2. "status" \in Fields /\ "key" \in Fields
  BY DEF Fields
<1>3. q \notin unaudited => audit[q] = <<wanted[q]["status"], wanted[q]["key"]>>
  BY DEF CarryInv, Audited
<1>4. QED
  BY <1>1, <1>2, <1>3

\* What the connection of a writer sees carries the last write as well.
LEMMA ViewCarries ==
  ASSUME Sound, CarryInv, NEW t \in Threads, open.by \in {NoThread, t}, NEW q \in Questions
  PROVE  Carries(View(t)[q], q, Clobbered(t)) /\ clobbered \subseteq Clobbered(t)
<1>1. CASE open.by # t
  BY <1>1, ViewHas DEF CarryInv, Sound, Clobbered
<1>2. CASE open.by = t
  <2>1. Clobbered(t) = clobbered \cup open.parts
    BY <1>2 DEF Clobbered
  <2>2. CASE q = open.q
    <3>1. Carries(open.data, open.q, clobbered \cup open.parts)
      BY <1>2 DEF CarryInv
    <3>2. QED
      BY <1>2, <2>1, <2>2, <3>1, ViewHas DEF Sound
  <2>3. CASE q # open.q
    <3>1. Carries(rec[q], q, clobbered) /\ View(t)[q] = rec[q]
      BY <1>2, <2>3, ViewHas DEF CarryInv, Sound
    <3>2. QED
      BY <2>1, <3>1 DEF Carries
  <2>4. QED
    BY <2>2, <2>3
<1>3. QED
  BY <1>1, <1>2

\* The record of what a writer sees is on file.
LEMMA ViewOnFile ==
  ASSUME Sound, CarryInv, NEW t \in Threads, NEW q \in Questions, Present(View(t)[q])
  PROVE  Present(rec[q])
<1>1. CASE open.by # t
  BY <1>1, ViewHas DEF Sound
<1>2. CASE open.by = t
  <2>1. Present(open.data) => Present(rec[open.q])
    BY <1>2 DEF CarryInv
  <2>2. QED
    BY <1>2, <2>1, ViewHas DEF Sound
<1>3. QED
  BY <1>1, <1>2

\* What an outdated read leaves on record.
LEMMA StaleIs ==
  ASSUME Sound, NEW t \in Threads, NEW qs \in SUBSET Questions, NEW q \in qs, Present(View(t)[q])
  PROVE  /\ \A f \in Fields : <<q, f>> \notin Stale(t, qs) => seen[t][q][f] = View(t)[q][f]
         /\ q \notin StaleStats(t, qs) => Scoring(seen[t][q]) = Scoring(View(t)[q])
<1>1. ASSUME NEW f \in Fields, <<q, f>> \notin Stale(t, qs)
      PROVE  seen[t][q][f] = View(t)[q][f]
  <2> DEFINE x == <<q, f>>
  <2>1. x \in qs \X Fields /\ x[1] = q /\ x[2] = f
    OBVIOUS
  <2> HIDE DEF x
  <2>2. x \notin Stale(t, qs)
    BY <1>1 DEF x
  <2>3. QED
    BY <2>1, <2>2 DEF Stale
<1>2. QED
  BY <1>1 DEF StaleStats

\* Writers that set no fields excuse no more, and leave what was wanted.
LEMMA ClobberedIs ==
  ASSUME Sound, NEW t \in Threads, Writes(t), ~Stores(t)
  PROVE  /\ Clobbered(t) \subseteq clobbered'
         /\ wanted' = wanted /\ unaudited' = unaudited /\ audit' = audit
<1>1. ASSUME NEW r, NEW spoilt, NEW setBack, Commit(t, r, spoilt, setBack, {})
      PROVE  Clobbered(t) \subseteq clobbered'
  BY <1>1 DEF Commit
<1>2. ASSUME WriteRegrade(t) PROVE Clobbered(t) \subseteq clobbered'
  BY <1>2, WriteRegradeIs
<1>3. ASSUME \/ \E a \in Attempts, qs \in SUBSET Questions : Draw(t, a, qs)
             \/ Expire(t) \/ WriteGrade(t)
             \/ \E q \in Questions : Delete(t, q)
      PROVE Clobbered(t) \subseteq clobbered'
  BY <1>1, <1>3, WriteGradeIs DEF Draw, Expire, Delete
<1>4. wanted' = wanted /\ unaudited' = unaudited /\ audit' = audit
  BY DEF Writes, Draw, Expire, WriteGrade, WriteRegrade, Delete, entries
<1>5. QED
  BY <1>2, <1>3, <1>4 DEF Writes

-----------------------------------------------------------------------------
LEMMA CarryInit == Init => CarryInv
BY ClosedType DEF Init, CarryInv, Carries, Audited, Present, Unborn

LEMMA CarryStutter == CarryInv /\ UNCHANGED vars => CarryInv'
BY DEF CarryInv, Carries, Audited, vars, tables, request, history, entries, Present

\* A writer that sets no fields leaves those of q, or excuses them.
LEMMA CarriedOn ==
  ASSUME Sound, CarryInv, NEW t \in Threads, Writes(t), ~Stores(t), NEW q \in Questions,
         \A f \in Fields : Present(View(t)[q]) /\ <<q, f>> \notin clobbered' =>
                            rec'[q][f] = View(t)[q][f],
         Present(rec'[q]) => Present(View(t)[q])
  PROVE  Carries(rec[q], q, clobbered)' /\ Audited(q)'
<1>1. Carries(View(t)[q], q, Clobbered(t))
  BY ViewCarries, WriterIs
<1>2. /\ Clobbered(t) \subseteq clobbered'
      /\ wanted' = wanted /\ unaudited' = unaudited /\ audit' = audit
  BY ClobberedIs
<1>3. Carries(rec[q], q, clobbered)'
  BY <1>1, <1>2 DEF Carries, Present
<1>4. Audited(q)'
  <2>1. Present(rec[q])' => Present(rec[q])
    BY ViewOnFile DEF Present
  <2>2. QED
    BY <1>2, <2>1 DEF CarryInv, Audited
<1>5. QED
  BY <1>3, <1>4

\* One that does sets them anew, leaves them, or excuses them; and leaves an
\* audit row of what it sets, or counts the question as not audited.
LEMMA StoreCarries ==
  ASSUME Sound, CarryInv, NEW t \in Threads,
         NEW qs \in SUBSET Questions, NEW set \in SUBSET Fields, Stored(t, qs, set),
         NEW q \in Questions
  PROVE  Carries(rec[q], q, clobbered)' /\ Audited(q)'
<1>1. open.by \in {NoThread, t}
  BY DEF Stored, StoredRows, CanWrite
<1>2. Carries(View(t)[q], q, Clobbered(t))
  BY <1>1, ViewCarries
<1>3. ASSUME NEW f \in Fields
      PROVE  wanted'[q][f] = IF q \in qs /\ (f \in set \/ ~Present(View(t)[q]))
                             THEN rec'[q][f] ELSE wanted[q][f]
  BY DEF Stored, StoredRows
<1>4. ASSUME NEW f \in Fields, <<q, f>> \notin clobbered', Present(rec'[q])
      PROVE  rec'[q][f] = wanted'[q][f]
  <2>1. CASE q \in qs /\ (f \in set \/ ~Present(View(t)[q]))
    BY <1>3, <2>1
  <2>2. CASE ~(q \in qs /\ (f \in set \/ ~Present(View(t)[q])))
    <3>1. <<q, f>> \notin qs \X set
      BY <2>2
    <3>2. <<q, f>> \notin Clobbered(t) /\ <<q, f>> \notin Stale(t, qs)
      BY <1>4, <3>1 DEF Stored, StoredRows
    <3>3. Present(View(t)[q]) /\ rec'[q][f] = View(t)[q][f]
      <4>1. CASE q \notin qs
        BY <1>4, <4>1 DEF Stored
      <4>2. CASE q \in qs
        <5>1. Present(View(t)[q]) /\ f \in Fields \ set
          BY <2>2, <4>2
        <5>2. rec'[q][f] = seen[t][q][f]
          BY <4>2, <5>1 DEF Stored
        <5>3. seen[t][q][f] = View(t)[q][f]
          BY <3>2, <4>2, <5>1, StaleIs
        <5>4. QED
          BY <5>1, <5>2, <5>3
      <4>3. QED
        BY <4>1, <4>2
    <3>4. View(t)[q][f] = wanted[q][f]
      BY <1>2, <3>2, <3>3 DEF Carries
    <3>5. QED
      BY <1>3, <2>2, <3>3, <3>4
  <2>3. QED
    BY <2>1, <2>2
<1>5. ASSUME Present(rec'[q]), q \notin unaudited'
      PROVE  audit'[q] = <<wanted'[q]["status"], wanted'[q]["key"]>>
  <2>1. "status" \in Fields /\ "key" \in Fields
    BY DEF Fields
  <2>2. \/ /\ q \in qs /\ {"status", "key"} \subseteq set
           /\ audit'[q] = <<rec'[q].status, rec'[q].key>>
        \/ /\ q \notin unaudited /\ audit'[q] = audit[q]
           /\ q \in qs => Present(View(t)[q]) /\ set \subseteq {"text"}
    BY <1>5 DEF Stored
  <2>3. CASE /\ q \in qs /\ {"status", "key"} \subseteq set
             /\ audit'[q] = <<rec'[q].status, rec'[q].key>>
    BY <1>3, <2>1, <2>3
  <2>4. CASE /\ q \notin unaudited /\ audit'[q] = audit[q]
             /\ q \in qs => Present(View(t)[q]) /\ set \subseteq {"text"}
    <3>1. Present(View(t)[q])
      BY <1>5, <2>4 DEF Stored
    <3>2. Present(rec[q])
      BY <3>1, ViewOnFile
    <3>3. audit[q] = <<wanted[q]["status"], wanted[q]["key"]>>
      BY <2>4, <3>2 DEF CarryInv, Audited
    <3>4. wanted'[q]["status"] = wanted[q]["status"] /\ wanted'[q]["key"] = wanted[q]["key"]
      BY <1>3, <2>1, <2>4, <3>1
    <3>5. QED
      BY <2>4, <3>3, <3>4
  <2>5. QED
    BY <2>2, <2>3, <2>4
<1>6. QED
  BY <1>4, <1>5 DEF Carries, Audited, Present

LEMMA WriterCarries ==
  ASSUME Sound, CarryInv, NEW t \in Threads, Writes(t), NEW q \in Questions
  PROVE  Carries(rec[q], q, clobbered)' /\ Audited(q)'
<1>0. Fields = {"status", "key", "text"}
  BY DEF Fields
<1>1. CASE Stores(t)
  BY <1>1, StoresIs, StoreCarries
<1>2. CASE ~Stores(t)
  <2>1. CASE rec'[q] = View(t)[q]
    BY <1>2, <2>1, CarriedOn
  <2>2. CASE Present(View(t)[q]) /\ WriteGrade(t) /\ q \in Scoring1(t) /\ rec'[q] = Graded(t)[q]
    <3>1. \A f \in Fields : rec'[q][f] = seen[t][q][f]
      BY <1>0, <2>2, GradedHas
    <3>2. Scoring1(t) \in SUBSET Questions /\ Stale(t, Scoring1(t)) \subseteq clobbered'
      BY <2>2, WriteGradeIs DEF Commit
    <3>3. \A f \in Fields : <<q, f>> \notin clobbered' => seen[t][q][f] = View(t)[q][f]
      BY <2>2, <3>2, StaleIs
    <3>4. QED
      BY <1>2, <2>2, <3>1, <3>3, CarriedOn
  <2>3. CASE Present(View(t)[q]) /\ WriteRegrade(t) /\ rec'[q] = Regraded(t)[q]
    <3>1. AnswersTo(q, Reanswered(t)) \in Seq(Selections)
      BY <2>3, WriteRegradeIs, AnswersType DEF Sound, TablesOK
    <3>2. View(t)[q] \in Records
      BY ViewHas DEF Sound
    <3>3. \A f \in Fields : rec'[q][f] = View(t)[q][f]
      BY <1>0, <2>3, <3>1, <3>2, RecomputedHas DEF Regraded
    <3>4. QED
      BY <1>2, <2>3, <3>3, CarriedOn
  <2>4. CASE rec'[q] = Gone
    <3>1. ~Present(rec[q])'
      BY <2>4 DEF Present, Gone, Unborn
    <3>2. QED
      BY <3>1 DEF Carries, Audited, Present
  <2>5. QED
    BY <1>2, <2>1, <2>2, <2>3, <2>4, WrittenIs
<1>3. QED
  BY <1>1, <1>2

LEMMA CarryKept ==
  ASSUME Sound, CarryInv, Next
  PROVE  CarryInv'
<1>1. CASE Quiet
  BY <1>1 DEF Quiet, CarryInv, Carries, Audited, Present
<1>2. CASE Dropping
  BY <1>2 DEF Dropping, CarryInv, Carries, Audited, Present
<1>3. CASE \E t \in Threads : Writes(t)
  <2>1. PICK t \in Threads : Writes(t)
    BY <1>3
  <2>2. \A q \in Questions : Carries(rec[q], q, clobbered)' /\ Audited(q)'
    BY <2>1, WriterCarries
  <2>3. open'.by = NoThread
    BY <2>1, WriterIs
  <2>4. QED
    BY <2>2, <2>3 DEF CarryInv
<1>4. CASE \E t \in Threads, q \in Questions : RecomputeUpdate(t, q)
  <2>1. PICK t \in Threads, q \in Questions : RecomputeUpdate(t, q)
    BY <1>4
  <2>2. /\ open'.q = q /\ open'.parts = Stale(t, {q}) /\ open.by = NoThread
        /\ open'.data = IF Present(rec[q]) THEN Recomputed(seen[t][q], read[t]) ELSE rec[q]
        /\ rec' = rec /\ audit' = audit /\ wanted' = wanted /\ unaudited' = unaudited
        /\ clobbered' = clobbered
    BY <2>1, RecomputeUpdateIs
  <2>3. \A f \in Fields : Recomputed(seen[t][q], read[t])[f] = seen[t][q][f]
    BY SeenHas, RecomputedHas DEF Fields
  <2>4. View(t) = rec
    BY <2>2, ViewHas DEF Sound
  <2>5. Carries(open.data, open.q, clobbered \cup open.parts)'
    <3>1. CASE ~Present(rec[q])
      BY <2>2, <3>1 DEF Carries, Present
    <3>2. CASE Present(rec[q])
      <4>1. {q} \in SUBSET Questions /\ q \in {q}
        OBVIOUS
      <4>2. \A f \in Fields : <<q, f>> \notin open'.parts => seen[t][q][f] = rec[q][f]
        BY <2>2, <2>4, <3>2, <4>1, StaleIs
      <4>3. Carries(rec[q], q, clobbered)
        BY DEF CarryInv
      <4>4. QED
        BY <2>2, <2>3, <3>2, <4>2, <4>3 DEF Carries
    <3>3. QED
      BY <3>1, <3>2
  <2>6. Present(open.data)' => Present(rec[open.q])'
    BY <2>2 DEF Present
  <2>7. \A p \in Questions : Carries(rec[p], p, clobbered)' /\ Audited(p)'
    BY <2>2 DEF CarryInv, Carries, Audited, Present
  <2>8. QED
    BY <2>5, <2>6, <2>7 DEF CarryInv
<1>5. QED
  BY <1>1, <1>2, <1>3, <1>4, EffectIs

\* Each field of a question is as last written, by revision, patch, import or
\* insertion, however many handlers read and write records whole, wherever no
\* handler wrote back what it had read before; and the last audit row tells its
\* status and key unless a patch, import or insertion set one of them since.
THEOREM LastWriteIsKeptHolds == Spec => []LastWriteIsKept
<1>1. Sound /\ CarryInv /\ [Next]_vars => Sound' /\ CarryInv'
  BY NextSound, StutterSound, CarryKept, CarryStutter
<1>2. QED
  BY InitSound, CarryInit, <1>1, CarryHolds, PTL DEF Spec

-----------------------------------------------------------------------------
(* Statistics *)

\* The statistics of a row are those of a replay of the answers s.
Replays(r, s) ==
  Present(r) => r.stats = IF r.status \in Scorable THEN Replay(s, r.key) ELSE Start

\* The invariant: the rows that nothing spoiled, and the one an open transaction
\* will write if it was computed from what is still there.
StatsInv ==
  /\ \A q \in Questions : q \notin disturbed => Replays(rec[q], AnswersAt(order, q, att))
  /\ open.by # NoThread /\ open.fresh => Replays(open.data, AnswersAt(order, open.q, att))

LEMMA AnswersAtType ==
  ASSUME Sound, NEW q \in Questions
  PROVE  AnswersAt(order, q, att) \in Seq(Selections)
BY AnswersType, AnswersAre DEF Sound, TablesOK

LEMMA StatsHolds ==
  ASSUME Sound, StatsInv
  PROVE  StatsReplayHistory
<1>1. ASSUME NEW q \in Questions, Present(rec[q]), q \notin disturbed
      PROVE  rec[q].stats = Recomputed(rec[q], AnswersTo(q, att)).stats
  <2>1. AnswersTo(q, att) = AnswersAt(order, q, att)
    BY AnswersAre
  <2>2. rec[q] \in Records /\ AnswersTo(q, att) \in Seq(Selections)
    BY <2>1, AnswersAtType DEF Sound, TablesOK, Rows
  <2>3. Recomputed(rec[q], AnswersTo(q, att)).stats =
          IF rec[q].status \in Scorable THEN Replay(AnswersTo(q, att), rec[q].key) ELSE Start
    BY <2>2, RecomputedHas
  <2>4. Replays(rec[q], AnswersTo(q, att))
    BY <1>1, <2>1 DEF StatsInv
  <2>5. QED
    BY <1>1, <2>3, <2>4 DEF Replays
<1>2. QED
  BY <1>1 DEF StatsReplayHistory

LEMMA StatsInit == Init => StatsInv
BY ClosedType DEF Init, StatsInv, Replays, Present, Unborn

LEMMA StatsStutter ==
  ASSUME StatsInv, UNCHANGED <<rec, att, order>>, disturbed \subseteq disturbed',
         open' = open \/ open'.by = NoThread
  PROVE  StatsInv'
BY DEF StatsInv, Replays, Present, AnswersAt, Counting

\* What the connection of a writer sees replays the history as well.
LEMMA ViewReplays ==
  ASSUME Sound, StatsInv, NEW t \in Threads, open.by \in {NoThread, t}, NEW q \in Questions,
         q \notin Disturbed(t)
  PROVE  Replays(View(t)[q], AnswersAt(order, q, att))
<1>1. CASE open.by # t
  BY <1>1, ViewHas DEF StatsInv, Sound, Disturbed
<1>2. CASE open.by = t
  <2>1. CASE q = open.q
    <3>1. open.fresh
      BY <1>2, <2>1 DEF Disturbed
    <3>2. Replays(open.data, AnswersAt(order, open.q, att))
      BY <1>2, <3>1 DEF StatsInv
    <3>3. View(t)[q] = open.data
      BY <1>2, <2>1, ViewHas DEF Sound
    <3>4. QED
      BY <2>1, <3>2, <3>3
  <2>2. CASE q # open.q
    <3>1. q \notin disturbed /\ View(t)[q] = rec[q]
      BY <1>2, <2>2, ViewHas DEF Disturbed, Sound
    <3>2. QED
      BY <3>1 DEF StatsInv
  <2>3. QED
    BY <2>1, <2>2
<1>3. QED
  BY <1>1, <1>2

\* A row that keeps what is scored keeps replaying.
LEMMA ReplaysOn ==
  ASSUME NEW r, NEW u, NEW s, Replays(r, s), Present(r) \/ ~Present(u),
         Present(u) => Scoring(u) = Scoring(r)
  PROVE  Replays(u, s)
BY DEF Replays, Scoring

\* A question never imported was never answered.
LEMMA UnbornUnanswered ==
  ASSUME Sound, BornInv, NEW q \in Questions, rec[q].status = "unborn"
  PROVE  AnswersAt(order, q, att) = <<>>
<1>1. Counting(q, att) = {}
  BY DEF Counting, BornInv
<1>2. Kept(order, {}) = <<>>
  BY KeptEmpty DEF Sound, TablesOK
<1>3. QED
  BY <1>1, <1>2 DEF AnswersAt

-----------------------------------------------------------------------------
(* Writers keep the statistics *)

\* Attempts that neither were nor are graded.
LEMMA DrawReplays ==
  ASSUME Sound, StatsInv, NEW t \in Threads, NEW a \in Attempts, NEW qs \in SUBSET Questions,
         Draw(t, a, qs), NEW q \in Questions, q \notin disturbed'
  PROVE  Replays(rec'[q], AnswersAt(order', q, att'))
<1>1. /\ rec' = View(t) /\ disturbed' = Disturbed(t) \cup {} /\ order' = order /\ CanWrite(t)
      /\ att[a].status = "none"
      /\ att' = [att EXCEPT ![a].status = "pending", ![a].qs = qs]
  BY DEF Draw, Commit
<1>2. att'[a].status = "pending" /\ order' = order /\ \A b \in Attempts : b # a => att'[b] = att[b]
  BY <1>1 DEF Sound, TablesOK, AttemptRows, AttemptRow
<1>3. a \notin Counting(q, att) /\ a \notin Counting(q, att')
  BY <1>1, <1>2, CountingIs
<1>4. order \in Seq(Attempts)
  BY DEF Sound, TablesOK
<1>5. AnswersAt(order', q, att') = AnswersAt(order, q, att)
  BY <1>2, <1>3, <1>4, AnswersSame
<1>6. QED
  BY <1>1, <1>5, ViewReplays DEF CanWrite

\* An expiry takes the answers of a graded attempt away, and spoils for it.
LEMMA ExpireReplays ==
  ASSUME Sound, StatsInv, NEW t \in Threads, Expire(t), NEW q \in Questions, q \notin disturbed'
  PROVE  Replays(rec'[q], AnswersAt(order', q, att'))
<1> DEFINE a == on[t]
<1>0. a \in Attempts
  BY DEF Expire, Sound, OnKnown
<1>1. /\ rec' = View(t) /\ order' = order /\ CanWrite(t)
      /\ disturbed' = Disturbed(t) \cup (IF att[a].status = "graded" THEN att[a].qs ELSE {})
      /\ att' = [att EXCEPT ![a].status = "expired"]
  BY DEF Expire, Commit
<1> HIDE DEF a
<1>2. att'[a].status = "expired" /\ order' = order /\ \A b \in Attempts : b # a => att'[b] = att[b]
  BY <1>0, <1>1 DEF Sound, TablesOK, AttemptRows, AttemptRow
<1>3. a \notin Counting(q, att) /\ a \notin Counting(q, att')
  BY <1>0, <1>1, <1>2, CountingIs
<1>4. order \in Seq(Attempts)
  BY DEF Sound, TablesOK
<1>5. AnswersAt(order', q, att') = AnswersAt(order, q, att)
  BY <1>0, <1>2, <1>3, <1>4, AnswersSame
<1>6. QED
  BY <1>1, <1>5, ViewReplays DEF CanWrite

LEMMA GradeReplays ==
  ASSUME Sound, StatsInv, NEW t \in Threads, WriteGrade(t), NEW q \in Questions,
         q \notin disturbed'
  PROVE  Replays(rec'[q], AnswersAt(order', q, att'))
<1> DEFINE a == on[t]
<1> DEFINE s == AnswersAt(order, q, att)
<1> DEFINE x == picked[t][q]
<1>1. /\ a \in Attempts /\ att[a].qs \in SUBSET Questions
      /\ CanWrite(t) /\ rec' = UpdatedOf(t, Scoring1(t), Graded(t))
      /\ disturbed' = Disturbed(t) \cup
           (StaleStats(t, att[a].qs) \cup (IF att[a].status = "graded" THEN att[a].qs ELSE {}))
  BY WriteGradeIs DEF Commit
<1>2. /\ att' = [att EXCEPT ![a].status = "graded", ![a].answers = picked[t]]
      /\ order' = MovedLast(order, a)
  BY DEF WriteGrade, MovedLast, Others
<1>3. rec'[q] = IF q \in Scoring1(t) /\ Present(View(t)[q]) THEN Graded(t)[q] ELSE View(t)[q]
  BY <1>1 DEF UpdatedOf
<1>4. q \in Scoring1(t) <=> q \in att[a].qs /\ seen[t][q].status \in Scorable
  BY DEF Scoring1
<1>5. order \in Seq(Attempts) /\ s \in Seq(Selections) /\ x \in Selections
  BY AnswersAtType, SeenHas DEF Sound, TablesOK
<1>6. Replays(View(t)[q], s)
  BY <1>1, ViewReplays DEF CanWrite
<1> HIDE DEF a, s
<1>7. /\ att'[a].status = "graded" /\ att'[a].qs = att[a].qs /\ att'[a].answers[q] = x
      /\ \A b \in Attempts : b # a => att'[b] = att[b]
      /\ order' = MovedLast(order, a) /\ a \in Attempts
  BY <1>1, <1>2 DEF Sound, TablesOK, AttemptRows, AttemptRow
<1> HIDE DEF x
<1>8. CASE q \notin att[a].qs
  <2>1. a \notin Counting(q, att) /\ a \notin Counting(q, att')
    BY <1>1, <1>7, <1>8, CountingIs
  <2>2. AnswersAt(order', q, att') = AnswersAt(order, q, att)
    <3>1. order \in Seq(Attempts)
      BY <1>5
    <3>2. /\ order' = MovedLast(order, a) /\ a \in Attempts
          /\ \A b \in Attempts : b # a => att'[b] = att[b]
      BY <1>7
    <3>3. QED
      BY <2>1, <3>1, <3>2, AnswersSame
  <2>3. QED
    BY <1>3, <1>4, <1>6, <1>8, <2>2 DEF s
<1>9. CASE q \in att[a].qs
  <2>1. att[a].status # "graded" /\ q \notin StaleStats(t, att[a].qs)
    BY <1>1, <1>9
  <2>2. a \notin Counting(q, att) /\ a \in Counting(q, att')
    BY <1>1, <1>7, <1>9, <2>1, CountingIs
  <2>3. AnswersAt(order', q, att') = Append(s, x)
    <3>1. order \in Seq(Attempts)
      BY <1>5
    <3>2. /\ order' = MovedLast(order, a) /\ a \in Attempts
          /\ \A b \in Attempts : b # a => att'[b] = att[b]
      BY <1>7
    <3>3. AnswersAt(order', q, att') = Append(AnswersAt(order, q, att), att'[a].answers[q])
      BY <2>2, <3>1, <3>2, AnswersMore
    <3>4. QED
      BY <1>7, <3>3 DEF s
  <2>4. CASE ~Present(View(t)[q])
    BY <1>3, <2>4 DEF Replays
  <2>5. CASE Present(View(t)[q])
    <3>1. Scoring(seen[t][q]) = Scoring(View(t)[q])
      BY <1>1, <1>9, <2>1, <2>5, StaleIs
    <3>2. /\ seen[t][q].status = View(t)[q].status /\ seen[t][q].key = View(t)[q].key
          /\ seen[t][q].stats = View(t)[q].stats
      BY <3>1 DEF Scoring
    <3>3. CASE View(t)[q].status \notin Scorable
      <4>1. rec'[q] = View(t)[q]
        BY <1>3, <1>4, <3>2, <3>3
      <4>2. QED
        BY <1>6, <3>3, <4>1 DEF Replays
    <3>4. CASE View(t)[q].status \in Scorable
      <4>1. rec'[q] = Graded(t)[q]
        BY <1>3, <1>4, <1>9, <2>5, <3>2, <3>4
      <4>2. /\ rec'[q].status = View(t)[q].status /\ rec'[q].key = View(t)[q].key
            /\ rec'[q].stats = Scored(View(t)[q].stats, x = View(t)[q].key)
        BY <3>2, <4>1, GradedHas DEF x
      <4>3. View(t)[q].stats = Replay(s, View(t)[q].key)
        BY <1>6, <2>5, <3>4 DEF Replays
      <4>4. Replay(Append(s, x), View(t)[q].key) =
              Scored(Replay(s, View(t)[q].key), x = View(t)[q].key)
        BY <1>5, ReplayScores
      <4>5. QED
        BY <2>3, <3>4, <4>2, <4>3, <4>4 DEF Replays
    <3>5. QED
      BY <3>3, <3>4
  <2>6. QED
    BY <2>4, <2>5
<1>10. QED
  BY <1>8, <1>9

LEMMA RegradeReplays ==
  ASSUME Sound, StatsInv, NEW t \in Threads, WriteRegrade(t), NEW q \in Questions,
         q \notin disturbed'
  PROVE  Replays(rec'[q], AnswersAt(order', q, att'))
<1> DEFINE a == on[t]
<1>1. /\ a \in Attempts /\ att[a].qs \in SUBSET Questions
      /\ att' = Reanswered(t) /\ Reanswered(t) \in AttemptRows
      /\ rec' = UpdatedOf(t, att[a].qs, Regraded(t))
      /\ CanWrite(t) /\ disturbed' = Disturbed(t) \ att[a].qs
  BY WriteRegradeIs
<1>2. order' = order /\ \A p \in att[a].qs : Present(View(t)[p])
  BY DEF WriteRegrade
<1>3. rec'[q] = IF q \in att[a].qs /\ Present(View(t)[q]) THEN Regraded(t)[q] ELSE View(t)[q]
  BY <1>1 DEF UpdatedOf
<1>4. att'[a].qs = att[a].qs /\ \A b \in Attempts : b # a => att'[b] = att[b]
  BY <1>1 DEF Sound, TablesOK, AttemptRows, AttemptRow, Reanswered
<1>5. order \in Seq(Attempts)
  BY DEF Sound, TablesOK
<1> HIDE DEF a
<1>6. CASE q \notin att[a].qs
  <2>1. a \notin Counting(q, att) /\ a \notin Counting(q, att')
    BY <1>1, <1>4, <1>6, CountingIs
  <2>2. AnswersAt(order', q, att') = AnswersAt(order, q, att)
    BY <1>1, <1>2, <1>4, <1>5, <2>1, AnswersSame
  <2>3. Replays(View(t)[q], AnswersAt(order, q, att))
    BY <1>1, <1>6, ViewReplays DEF CanWrite
  <2>4. QED
    BY <1>3, <1>6, <2>2, <2>3
<1>7. CASE q \in att[a].qs
  <2> DEFINE s == AnswersTo(q, Reanswered(t))
  <2>1. rec'[q] = Recomputed(View(t)[q], s)
    BY <1>2, <1>3, <1>7 DEF Regraded
  <2>2. AnswersAt(order', q, att') = s
    BY <1>1, <1>2, AnswersAre
  <2>3. View(t)[q] \in Records
    BY ViewHas DEF Sound
  <2>4. s \in Seq(Selections)
    BY <1>1, <1>5, AnswersType
  <2> HIDE DEF s
  <2>5. /\ rec'[q].status = View(t)[q].status /\ rec'[q].key = View(t)[q].key
        /\ rec'[q].stats =
             IF View(t)[q].status \in Scorable THEN Replay(s, View(t)[q].key) ELSE Start
    BY <2>1, <2>3, <2>4, RecomputedHas
  <2>6. QED
    BY <2>2, <2>5 DEF Replays
<1>8. QED
  BY <1>6, <1>7

\* Writers that set fields leave the answers; a question whose key, status or
\* statistics they change is spoiled, a new one has no answers yet.
LEMMA StoreReplays ==
  ASSUME Sound, BornInv, StatsInv, NEW t \in Threads,
         NEW qs \in SUBSET Questions, NEW set, Stored(t, qs, set),
         NEW q \in Questions, q \notin disturbed'
  PROVE  Replays(rec'[q], AnswersAt(order', q, att'))
<1> DEFINE s == AnswersAt(order, q, att)
<1>1. /\ open.by \in {NoThread, t} /\ order' = order /\ att' = att
      /\ disturbed' = Disturbed(t) \cup {p \in qs : Spoils(View(t)[p], rec'[p])}
  BY DEF Stored, StoredRows, CanWrite
<1>2. Replays(View(t)[q], s)
  BY <1>1, ViewReplays
<1>3. AnswersAt(order', q, att') = s
  BY <1>1
<1> HIDE DEF s
<1>4. CASE q \notin qs
  BY <1>2, <1>3, <1>4 DEF Stored
<1>5. CASE q \in qs
  <2>1. ~Spoils(View(t)[q], rec'[q])
    BY <1>1, <1>5
  <2>2. CASE Present(View(t)[q])
    <3>1. Scoring(rec'[q]) = Scoring(View(t)[q])
      BY <2>1, <2>2 DEF Spoils
    <3>2. QED
      BY <1>2, <1>3, <2>2, <3>1, ReplaysOn
  <2>3. CASE ~Present(View(t)[q])
    <3>1. View(t)[q].status = "unborn"
      BY <1>5, <2>3 DEF Stored, Present
    <3>2. s = <<>>
      BY <3>1, ViewBorn, UnbornUnanswered DEF s
    <3>3. rec'[q].stats = Start
      BY <2>1, <2>3 DEF Spoils
    <3>4. QED
      BY <1>3, <3>2, <3>3, ReplayNone DEF Replays
  <2>4. QED
    BY <2>2, <2>3
<1>6. QED
  BY <1>4, <1>5

LEMMA DeleteReplays ==
  ASSUME Sound, StatsInv, NEW t \in Threads, NEW p \in Questions, Delete(t, p),
         NEW q \in Questions, q \notin disturbed'
  PROVE  Replays(rec'[q], AnswersAt(order', q, att'))
<1>1. /\ rec' = [View(t) EXCEPT ![p] = Gone] /\ CanWrite(t)
      /\ disturbed' = Disturbed(t) \cup {} /\ order' = order /\ att' = att
  BY DEF Delete, Commit
<1>2. rec'[q] = IF q = p THEN Gone ELSE View(t)[q]
  BY <1>1, ViewHas DEF Sound, Rows
<1>3. ~Present(Gone)
  BY DEF Present, Gone, Unborn
<1>4. Replays(View(t)[q], AnswersAt(order, q, att))
  BY <1>1, ViewReplays DEF CanWrite
<1>5. QED
  BY <1>1, <1>2, <1>3, <1>4 DEF Replays

\* What a recomputation will write, if nothing it read has changed.
LEMMA RecomputeReplays ==
  ASSUME Sound, StatsInv, NEW t \in Threads, NEW q \in Questions, RecomputeUpdate(t, q),
         open'.fresh
  PROVE  Replays(open'.data, AnswersAt(order, q, att))
<1>1. /\ open'.data = IF Present(rec[q]) THEN Recomputed(seen[t][q], read[t]) ELSE rec[q]
      /\ Scoring(seen[t][q]) = Scoring(rec[q])
      /\ read[t] = IF seen[t][q].status \in Scorable THEN AnswersTo(q, att) ELSE <<>>
  BY RecomputeUpdateIs
<1>2. SUFFICES ASSUME Present(rec[q]) PROVE Replays(open'.data, AnswersAt(order, q, att))
  BY <1>1 DEF Replays
<1>3. AnswersTo(q, att) = AnswersAt(order, q, att)
  BY AnswersAre
<1>4. open'.data = Recomputed(seen[t][q], read[t])
  BY <1>1, <1>2
<1>5. seen[t][q] \in Records /\ read[t] \in Seq(Selections)
  BY SeenHas
<1>6. /\ open'.data.status = seen[t][q].status /\ open'.data.key = seen[t][q].key
      /\ open'.data.stats =
           IF seen[t][q].status \in Scorable THEN Replay(read[t], seen[t][q].key) ELSE Start
  BY <1>4, <1>5, RecomputedHas
<1>7. QED
  BY <1>1, <1>3, <1>6 DEF Replays

LEMMA WriterReplays ==
  ASSUME Sound, BornInv, StatsInv, NEW t \in Threads, Writes(t), NEW q \in Questions,
         q \notin disturbed'
  PROVE  Replays(rec'[q], AnswersAt(order', q, att'))
BY DrawReplays, ExpireReplays, GradeReplays, RegradeReplays, DeleteReplays, StoreReplays,
   StoresIs DEF Writes

LEMMA StatsKept ==
  ASSUME Sound, BornInv, StatsInv, Next
  PROVE  StatsInv'
<1>1. CASE \E t \in Threads : Writes(t)
  <2>1. PICK t \in Threads : Writes(t)
    BY <1>1
  <2>2. open'.by = NoThread
    BY <2>1, WriterIs
  <2>3. \A q \in Questions : q \notin disturbed' => Replays(rec'[q], AnswersAt(order', q, att'))
    BY <2>1, WriterReplays
  <2>4. QED
    BY <2>2, <2>3 DEF StatsInv, Replays, Present, AnswersAt, Counting
<1>2. CASE \E t \in Threads, q \in Questions : RecomputeUpdate(t, q)
  <2>1. PICK t \in Threads, q \in Questions : RecomputeUpdate(t, q)
    BY <1>2
  <2>2. /\ rec' = rec /\ att' = att /\ order' = order /\ disturbed' = disturbed
        /\ open'.q = q
    BY <2>1, RecomputeUpdateIs
  <2>3. open'.fresh => Replays(open'.data, AnswersAt(order', open'.q, att'))
    BY <2>1, <2>2, RecomputeReplays
  <2>4. \A p \in Questions : p \notin disturbed' => Replays(rec'[p], AnswersAt(order', p, att'))
    BY <2>2 DEF StatsInv
  <2>5. QED
    BY <2>3, <2>4 DEF StatsInv, Replays, Present, AnswersAt, Counting
<1>3. CASE Quiet \/ Dropping
  BY <1>3, StatsStutter DEF Quiet, Dropping
<1>4. QED
  BY <1>1, <1>2, <1>3, EffectIs

\* The statistics that gradings add up one by one are those of a replay of the
\* graded attempts, for any number of threads, questions and attempts: unless an
\* outdated read, a late expiry, an interrupted revision, or a patch, import or
\* insertion of key, status or statistics spoiled them.
THEOREM StatsReplayHistoryHolds == Spec => []StatsReplayHistory
<1> DEFINE Inv == Sound /\ BornInv /\ StatsInv
<1>1. Init => Inv
  BY InitSound, BornInit, StatsInit
<1>2. Inv /\ [Next]_vars => Inv'
  <2>1. ASSUME Inv, Next PROVE Inv'
    BY <2>1, NextSound, BornKept, StatsKept
  <2>2. ASSUME Inv, UNCHANGED vars PROVE Inv'
    <3>1. Sound' /\ BornInv'
      BY <2>2, StutterSound, BornStutter
    <3>2. StatsInv'
      BY <2>2, StatsStutter DEF vars, tables, history, entries
    <3>3. QED
      BY <3>1, <3>2
  <2>3. QED
    BY <2>1, <2>2
<1>3. Inv => StatsReplayHistory
  BY StatsHolds
<1>4. QED
  BY <1>1, <1>2, <1>3, PTL DEF Spec

=============================================================================
