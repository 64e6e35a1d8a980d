---------------------------- MODULE DataTheorems ----------------------------
(* What the proofs need of the data the code works on: the greatest of a set *)
(* of numbers up to a bound, as the SELECT MAX of the api, and the least; the *)
(* sequences that loops put one after the other, and turn round; what loops   *)
(* over sets add up; and the pages that LIMIT and OFFSET make of ordered rows. *)
EXTENDS SequencesExt, SequenceTheorems, FiniteSetTheorems, WellFoundedInduction, TLAPS

\* A set of numbers has a greatest one, and Max is it: the complement to the
\* bound has a least one, as < is well founded.
LEMMA MaxExists ==
  ASSUME NEW N \in Nat, NEW T \in SUBSET (0..N), T # {}
  PROVE  Max(T) \in T /\ \A x \in T : Max(T) >= x
<1> DEFINE Less == {p \in Nat \X Nat : p[1] < p[2]}
           D    == {d \in 0..N : N - d \in T}
<1>1. IsWellFoundedOn(Less, Nat)
  BY NatLessThanWellFounded DEF OpToRel
<1>2. D \subseteq Nat /\ D # {}
  <2>1. PICK x \in T : TRUE
    OBVIOUS
  <2>2. x \in 0..N /\ N - x \in 0..N /\ N - (N - x) = x
    BY <2>1
  <2>3. N - x \in D
    BY <2>2
  <2>4. D \subseteq 0..N /\ 0..N \subseteq Nat
    OBVIOUS
  <2> HIDE DEF D
  <2>5. QED
    BY <2>3, <2>4
<1>3. PICK d \in D : \A y \in D : ~ <<y, d>> \in Less
  <2> HIDE DEF Less, D
  <2>1. QED
    BY <1>1, <1>2, WFMin
<1>4. ASSUME NEW x \in T PROVE N - d >= x
  <2>1. x \in 0..N /\ N - x \in 0..N /\ N - (N - x) = x /\ d \in 0..N
    OBVIOUS
  <2>2. N - x \in D
    BY <2>1
  <2>3. N - x < d => <<N - x, d>> \in Less
    BY <2>1
  <2>4. QED
    BY <1>3, <2>1, <2>2, <2>3
<1>5. N - d \in T
  OBVIOUS
<1>6. QED
  BY <1>4, <1>5 DEF Max

LEMMA MaxGrows ==
  ASSUME NEW N \in Nat, NEW S \in SUBSET (0..N), NEW T \in SUBSET (0..N), S \subseteq T, S # {}
  PROVE  Max(T) >= Max(S)
  BY MaxExists

\* What holds of 0, and of the next number with each, holds of all: the set of
\* those it does not hold of would have a least one.
LEMMA NatSetInduction ==
  ASSUME NEW T, 0 \in T, \A k \in Nat : k \in T => k + 1 \in T
  PROVE  \A n \in Nat : n \in T
<1> SUFFICES ASSUME NEW n \in Nat, n \notin T PROVE FALSE
  OBVIOUS
<1> DEFINE Less == {p \in Nat \X Nat : p[1] < p[2]}
           D    == Nat \ T
<1>1. IsWellFoundedOn(Less, Nat)
  BY NatLessThanWellFounded DEF OpToRel
<1>2. D \subseteq Nat /\ D # {}
  OBVIOUS
<1>3. PICK d \in D : \A y \in D : ~ <<y, d>> \in Less
  <2> HIDE DEF Less, D
  <2>1. QED
    BY <1>1, <1>2, WFMin
<1>4. d \in Nat /\ d # 0 /\ d - 1 \in Nat /\ d - 1 + 1 = d
  OBVIOUS
<1>5. d - 1 \in D /\ <<d - 1, d>> \in Less
  BY <1>4
<1>6. QED
  BY <1>3, <1>5

\* What FlattenSeq computes, step by step: its recursive function exists.
LEMMA FlattenSteps ==
  ASSUME NEW X, NEW n \in Nat, NEW f \in [1..n -> Seq(X)]
  PROVE  \E g \in [0..n -> Seq(X)] :
            /\ g[0] = <<>>
            /\ \A i \in 1..n : g[i] = g[i - 1] \o f[i]
            /\ FlattenSeq(f) = g[n]
<1>1. f \in Seq(Seq(X)) /\ Len(f) = n
  OBVIOUS
<1>2. CASE n = 0
  <2>1. FlattenSeq(f) = <<>>
    BY <1>1, <1>2 DEF FlattenSeq
  <2> DEFINE g == [i \in 0..n |-> <<>>]
  <2>2. g \in [0..n -> Seq(X)]
    BY EmptySeq
  <2>3. g[0] = <<>> /\ 1..n = {} /\ FlattenSeq(f) = g[n]
    BY <1>2, <2>1
  <2> HIDE DEF g
  <2>4. QED
    BY <2>2, <2>3
<1>3. CASE n # 0
  <2> DEFINE Is(h, k) == h = [i \in 1..k |-> IF i = 1 THEN f[i] ELSE h[i - 1] \o f[i]]
             T == {k \in Nat : k <= n => \E h : Is(h, k)}
             h == CHOOSE x : Is(x, n)
  <2>1. 0 \in T
    <3>1. Is([i \in 1..0 |-> <<>>], 0)
      OBVIOUS
    <3>2. QED
      BY <3>1
  <2>2. ASSUME NEW k \in Nat, k \in T, k + 1 <= n
        PROVE  \E x : Is(x, k + 1)
    <3>1. PICK x : Is(x, k)
      <4>1. k <= n
        BY <2>2
      <4> HIDE DEF Is
      <4>2. QED
        BY <2>2, <4>1
    <3> DEFINE y == [i \in 1..k + 1 |-> IF i \in 1..k THEN x[i]
                                        ELSE IF i = 1 THEN f[i] ELSE x[i - 1] \o f[i]]
    <3>2. ASSUME NEW i \in 1..k + 1
          PROVE  y[i] = IF i = 1 THEN f[i] ELSE y[i - 1] \o f[i]
      <4>1. CASE i \in 1..k
        <5>1. x[i] = IF i = 1 THEN f[i] ELSE x[i - 1] \o f[i]
          BY <3>1, <4>1
        <5>2. y[i] = x[i] /\ (i # 1 => y[i - 1] = x[i - 1])
          BY <4>1
        <5> HIDE DEF y
        <5>3. QED
          BY <5>1, <5>2
      <4>2. CASE i = k + 1
        <5>1. y[i] = IF i = 1 THEN f[i] ELSE x[i - 1] \o f[i]
          BY <4>2
        <5>2. i # 1 => y[i - 1] = x[i - 1]
          BY <4>2
        <5> HIDE DEF y
        <5>3. QED
          BY <5>1, <5>2
      <4>3. QED
        BY <4>1, <4>2
    <3>3. y = [i \in 1..k + 1 |-> IF i = 1 THEN f[i] ELSE y[i - 1] \o f[i]]
      <4>1. y = [i \in 1..k + 1 |-> y[i]]
        OBVIOUS
      <4> HIDE DEF y
      <4>2. QED
        BY <3>2, <4>1
    <3> HIDE DEF y
    <3>4. QED
      BY <3>3
  <2>3. ASSUME NEW k \in Nat, k \in T PROVE k + 1 \in T
    <3> HIDE DEF Is
    <3>1. QED
      BY <2>2, <2>3, SMTT(30)
  <2>4. n \in T
    <3> HIDE DEF T
    <3>1. QED
      BY <2>1, <2>3, NatSetInduction
  <2>5. Is(h, n)
    <3> HIDE DEF Is
    <3>1. QED
      BY <2>4
  <2>6. FlattenSeq(f) = h[n]
    BY <1>1, <1>3 DEF FlattenSeq
  <2> HIDE DEF h
  <2> DEFINE U == {k \in Nat : k \in 1..n => h[k] \in Seq(X)}
  <2>7. ASSUME NEW k \in Nat, k \in U PROVE k + 1 \in U
    <3> SUFFICES ASSUME k + 1 \in 1..n PROVE h[k + 1] \in Seq(X)
      OBVIOUS
    <3>1. h[k + 1] = IF k + 1 = 1 THEN f[k + 1] ELSE h[k] \o f[k + 1]
      <4>1. \A i \in 1..n : h[i] = IF i = 1 THEN f[i] ELSE h[i - 1] \o f[i]
        BY <2>5
      <4>2. k + 1 - 1 = k
        OBVIOUS
      <4> HIDE DEF Is
      <4>3. QED
        BY <4>1, <4>2
    <3>2. f[k + 1] \in Seq(X)
      OBVIOUS
    <3>3. CASE k = 0
      BY <3>1, <3>2, <3>3
    <3>4. CASE k # 0
      <4>1. h[k] \in Seq(X)
        BY <2>7, <3>4
      <4>2. h[k + 1] = h[k] \o f[k + 1]
        <5>1. k + 1 # 1
          BY <3>4
        <5> HIDE DEF Is
        <5>2. QED
          BY <3>1, <5>1
      <4>3. QED
        BY <3>2, <4>1, <4>2, ConcatProperties
    <3>5. QED
      BY <3>3, <3>4
  <2>8. \A k \in Nat : k \in U
    <3>1. 0 \in U
      OBVIOUS
    <3> HIDE DEF U
    <3>2. QED
      BY <2>7, <3>1, NatSetInduction
  <2> DEFINE g == [i \in 0..n |-> IF i = 0 THEN <<>> ELSE h[i]]
  <2>9. g \in [0..n -> Seq(X)]
    BY <2>8, EmptySeq
  <2>10. ASSUME NEW i \in 1..n PROVE g[i] = g[i - 1] \o f[i]
    <3>1. h[i] = IF i = 1 THEN f[i] ELSE h[i - 1] \o f[i]
      BY <2>5
    <3>2. f[i] \in Seq(X) /\ <<>> \o f[i] = f[i]
      BY ConcatEmptySeq
    <3>3. g[i] = h[i] /\ g[i - 1] = IF i = 1 THEN <<>> ELSE h[i - 1]
      OBVIOUS
    <3> HIDE DEF g
    <3>4. QED
      BY <3>1, <3>2, <3>3
  <2>11. g[0] = <<>> /\ g[n] = h[n]
    BY <1>3
  <2> HIDE DEF g
  <2>12. QED
    BY <2>6, <2>9, <2>10, <2>11
<1>4. QED
  BY <1>2, <1>3

\* The elements of the loop's sequence are those of its steps.
LEMMA FlattenRange ==
  ASSUME NEW X, NEW n \in Nat, NEW f \in [1..n -> Seq(X)]
  PROVE  /\ FlattenSeq(f) \in Seq(X)
         /\ Range(FlattenSeq(f)) = UNION {Range(f[i]) : i \in 1..n}
<1>1. PICK g \in [0..n -> Seq(X)] : /\ g[0] = <<>>
                                    /\ \A i \in 1..n : g[i] = g[i - 1] \o f[i]
                                    /\ FlattenSeq(f) = g[n]
  BY FlattenSteps
<1> DEFINE T == {k \in Nat : k <= n => Range(g[k]) = UNION {Range(f[i]) : i \in 1..k}}
<1>2. 0 \in T
  BY <1>1 DEF Range
<1>3. ASSUME NEW k \in Nat, k \in T PROVE k + 1 \in T
  <2> SUFFICES ASSUME k + 1 <= n
               PROVE  Range(g[k + 1]) = UNION {Range(f[i]) : i \in 1..k + 1}
    OBVIOUS
  <2>1. k \in 0..n /\ k + 1 \in 1..n /\ k + 1 - 1 = k /\ 1..k + 1 = (1..k) \cup {k + 1}
    OBVIOUS
  <2>2. g[k + 1] = g[k] \o f[k + 1]
    <3>1. \A i \in 1..n : g[i] = g[i - 1] \o f[i]
      BY <1>1
    <3> HIDE DEF T
    <3>2. QED
      BY <2>1, <3>1, SMTT(30)
  <2>3. Range(g[k + 1]) = Range(g[k]) \cup Range(f[k + 1])
    BY <2>1, <2>2, RangeConcatenation
  <2>4. Range(g[k]) = UNION {Range(f[i]) : i \in 1..k}
    BY <1>3, <2>1
  <2>5. QED
    BY <2>1, <2>3, <2>4
<1>4. n \in T
  <2> HIDE DEF T
  <2>1. QED
    BY <1>2, <1>3, NatSetInduction
<1>5. QED
  BY <1>1, <1>4

\* One more step of a loop puts its sequence at the end.
LEMMA FlattenAppend ==
  ASSUME NEW X, NEW n \in Nat, NEW f \in [1..n -> Seq(X)], NEW e \in [1..n + 1 -> Seq(X)],
         \A i \in 1..n : e[i] = f[i]
  PROVE  FlattenSeq(e) = FlattenSeq(f) \o e[n + 1]
<1>1. PICK g \in [0..n -> Seq(X)] : /\ g[0] = <<>>
                                    /\ \A i \in 1..n : g[i] = g[i - 1] \o f[i]
                                    /\ FlattenSeq(f) = g[n]
  BY FlattenSteps
<1>2. PICK h \in [0..n + 1 -> Seq(X)] : /\ h[0] = <<>>
                                        /\ \A i \in 1..n + 1 : h[i] = h[i - 1] \o e[i]
                                        /\ FlattenSeq(e) = h[n + 1]
  <2>1. n + 1 \in Nat
    OBVIOUS
  <2>2. QED
    BY <2>1, FlattenSteps
<1> DEFINE T == {k \in Nat : k <= n => h[k] = g[k]}
<1>3. 0 \in T
  BY <1>1, <1>2
<1>4. ASSUME NEW k \in Nat, k \in T PROVE k + 1 \in T
  <2> SUFFICES ASSUME k + 1 <= n PROVE h[k + 1] = g[k + 1]
    OBVIOUS
  <2>1. k + 1 \in 1..n /\ k + 1 \in 1..n + 1 /\ k + 1 - 1 = k /\ h[k] = g[k]
    BY <1>4
  <2> HIDE DEF T
  <2>2. g[k + 1] = g[k] \o f[k + 1]
    <3>1. \A i \in 1..n : g[i] = g[i - 1] \o f[i]
      BY <1>1
    <3>2. PICK j \in 1..n : j = k + 1 /\ j - 1 = k
      BY <2>1
    <3>3. g[j] = g[j - 1] \o f[j]
      BY <3>1
    <3>4. QED
      BY <3>2, <3>3
  <2>3. h[k + 1] = h[k] \o e[k + 1]
    <3>1. \A i \in 1..n + 1 : h[i] = h[i - 1] \o e[i]
      BY <1>2
    <3>2. PICK j \in 1..n + 1 : j = k + 1 /\ j - 1 = k
      BY <2>1
    <3>3. h[j] = h[j - 1] \o e[j]
      BY <3>1
    <3>4. QED
      BY <3>2, <3>3
  <2>4. QED
    BY <2>1, <2>2, <2>3
<1>5. n \in T
  <2> HIDE DEF T
  <2>1. QED
    BY <1>3, <1>4, NatSetInduction
<1>6. h[n] = g[n]
  BY <1>5
<1>7. h[n + 1] = h[n] \o e[n + 1]
  <2>1. \A i \in 1..n + 1 : h[i] = h[i - 1] \o e[i]
    BY <1>2
  <2>2. PICK j \in 1..n + 1 : j = n + 1 /\ j - 1 = n
    OBVIOUS
  <2> HIDE DEF T
  <2>3. h[j] = h[j - 1] \o e[j]
    BY <2>1
  <2>4. QED
    BY <2>2, <2>3
<1>8. QED
  BY <1>1, <1>2, <1>6, <1>7

\* Of two numbers.
LEMMA MaxOfTwo ==
  ASSUME NEW a \in Int, NEW b \in Int
  PROVE  Max({a, b}) = IF a >= b THEN a ELSE b
  BY DEF Max

LEMMA MinOfTwo ==
  ASSUME NEW a \in Int, NEW b \in Int
  PROVE  Min({a, b}) = IF a <= b THEN a ELSE b
  BY DEF Min

LEMMA ReverseProperties ==
  ASSUME NEW X, NEW s \in Seq(X)
  PROVE  /\ Reverse(s) \in Seq(X) /\ Len(Reverse(s)) = Len(s)
         /\ \A i \in 1..Len(s) : Reverse(s)[i] = s[Len(s) - i + 1]
<1>1. Len(s) \in Nat /\ s \in [1..Len(s) -> X]
  BY LenProperties
<1>2. \A i \in 1..Len(s) : Len(s) - i + 1 \in 1..Len(s)
  BY <1>1
<1>3. Reverse(s) = [i \in 1..Len(s) |-> s[Len(s) - i + 1]]
  BY DEF Reverse
<1>4. Reverse(s) \in [1..Len(s) -> X]
  BY <1>1, <1>2, <1>3
<1>5. QED
  BY <1>1, <1>3, <1>4

\* h folds the sequence s with F from base, on each set of its n places, the
\* highest first, as FoldLeft does.
IsFold(h, F, base, s, n) == \A S \in SUBSET (1..n) :
    h[S] = IF S = {} THEN base ELSE F[h[S \ {Max(S)}]][s[Max(S)]]

\* There is such a function.
LEMMA FoldByPlaces ==
  ASSUME NEW A, NEW B, NEW F \in [A -> [B -> A]], NEW base \in A,
         NEW n \in Nat, NEW s \in [1..n -> B]
  PROVE  \E h \in [SUBSET (1..n) -> A] : IsFold(h, F, base, s, n)
<1> DEFINE Is(h, k) == h = [S \in SUBSET (1..k) |->
                              IF S = {} THEN base ELSE F[h[S \ {Max(S)}]][s[Max(S)]]]
           T == {k \in Nat : k <= n => \E h \in [SUBSET (1..k) -> A] : Is(h, k)}
<1>1. ASSUME NEW k \in Nat, NEW S \in SUBSET (1..k), S # {}
      PROVE  Max(S) \in S /\ \A i \in S : Max(S) >= i
  <2>1. S \in SUBSET (0..k)
    OBVIOUS
  <2>2. QED
    BY <1>1, <2>1, MaxExists
<1>2. 0 \in T
  <2> DEFINE h == [S \in SUBSET (1..0) |-> base]
  <2>1. Is(h, 0) /\ h \in [SUBSET (1..0) -> A]
    <3>1. \A S \in SUBSET (1..0) : S = {}
      OBVIOUS
    <3>2. QED
      BY <3>1
  <2> HIDE DEF h, Is
  <2>2. QED
    BY <2>1
<1>3. ASSUME NEW k \in Nat, k \in T, k + 1 <= n
      PROVE  \E h \in [SUBSET (1..k + 1) -> A] : Is(h, k + 1)
  <2>1. PICK h \in [SUBSET (1..k) -> A] : Is(h, k)
    <3>1. k <= n
      BY <1>3
    <3> HIDE DEF Is
    <3>2. QED
      BY <1>3, <3>1
  <2> DEFINE Sets == SUBSET (1..k)
             y == [S \in SUBSET (1..k + 1) |->
                     IF S \in Sets THEN h[S] ELSE F[h[S \ {k + 1}]][s[k + 1]]]
  <2>2. y \in [SUBSET (1..k + 1) -> A]
    <3>1. ASSUME NEW S \in SUBSET (1..k + 1)
          PROVE  (IF S \in Sets THEN h[S] ELSE F[h[S \ {k + 1}]][s[k + 1]]) \in A
      <4>1. S \ {k + 1} \in Sets /\ k + 1 \in 1..n
        BY <1>3
      <4>2. h[S \ {k + 1}] \in A /\ s[k + 1] \in B
        BY <4>1
      <4>3. F[h[S \ {k + 1}]][s[k + 1]] \in A
        <5>1. \A a \in A, b \in B : F[a][b] \in A
          OBVIOUS
        <5> HIDE DEF Sets, y, Is
        <5>2. QED
          BY <4>2, <5>1
      <4>4. S \in Sets => h[S] \in A
        OBVIOUS
      <4>5. QED
        BY <4>3, <4>4
    <3>2. QED
      BY <3>1
  <2>3. ASSUME NEW S \in SUBSET (1..k + 1)
        PROVE  y[S] = IF S = {} THEN base ELSE F[y[S \ {Max(S)}]][s[Max(S)]]
    <3>1. CASE S \in Sets
      <4>1. h[S] = IF S = {} THEN base ELSE F[h[S \ {Max(S)}]][s[Max(S)]]
        BY <2>1, <3>1
      <4>2. y[S] = h[S]
        BY <3>1
      <4>3. S \ {Max(S)} \in Sets /\ S \ {Max(S)} \in SUBSET (1..k + 1)
        BY <3>1
      <4>4. y[S \ {Max(S)}] = h[S \ {Max(S)}]
        BY <4>3
      <4> HIDE DEF y, Is
      <4>5. QED
        BY <4>1, <4>2, <4>4
    <3>2. CASE S \notin Sets
      <4>1. k + 1 \in S /\ S # {} /\ k + 1 \in Nat
        BY <3>2
      <4>2. Max(S) = k + 1
        <5>1. Max(S) \in S /\ \A i \in S : Max(S) >= i
          BY <1>1, <4>1
        <5>2. Max(S) \in 1..k + 1 /\ Max(S) >= k + 1
          BY <4>1, <5>1
        <5>3. QED
          BY <5>2
      <4>3. S \ {k + 1} \in Sets /\ S \ {k + 1} \in SUBSET (1..k + 1)
        OBVIOUS
      <4>4. y[S] = F[h[S \ {k + 1}]][s[k + 1]]
        BY <3>2
      <4>5. y[S \ {k + 1}] = h[S \ {k + 1}]
        BY <4>3
      <4> HIDE DEF y, Is
      <4>6. QED
        BY <4>1, <4>2, <4>4, <4>5
    <3>3. QED
      BY <3>1, <3>2
  <2>4. y = [S \in SUBSET (1..k + 1) |-> y[S]]
    OBVIOUS
  <2> HIDE DEF y
  <2>5. Is(y, k + 1)
    BY <2>3, <2>4
  <2> HIDE DEF Is
  <2>6. QED
    BY <2>2, <2>5
<1>4. n \in T
  <2>1. ASSUME NEW k \in Nat, k \in T PROVE k + 1 \in T
    <3> HIDE DEF Is
    <3>1. k + 1 <= n => \E h \in [SUBSET (1..k + 1) -> A] : Is(h, k + 1)
      <4> HIDE DEF T
      <4>1. QED
        BY <1>3, <2>1
    <3>2. k + 1 \in Nat
      OBVIOUS
    <3>3. QED
      BY <3>1, <3>2
  <2> HIDE DEF T
  <2>2. QED
    BY <1>2, <2>1, NatSetInduction
<1>5. \E h \in [SUBSET (1..n) -> A] : Is(h, n)
  <2> HIDE DEF Is
  <2>1. n <= n
    OBVIOUS
  <2>2. QED
    BY <1>4, <2>1
<1>6. PICK h \in [SUBSET (1..n) -> A] : Is(h, n)
  <2> HIDE DEF Is
  <2>1. QED
    BY <1>5
<1>7. IsFold(h, F, base, s, n)
  BY <1>6 DEF IsFold
<1>8. QED
  BY <1>7

\* The places up to the i-th, and the one a fold takes first.
LEMMA LastPlace ==
  ASSUME NEW n \in Nat, NEW i \in 1..n
  PROVE  /\ 1..i \in SUBSET (1..n) /\ 1..i # {}
         /\ Max(1..i) = i /\ (1..i) \ {Max(1..i)} = 1..i - 1
<1>1. 1..i \in SUBSET (1..n) /\ 1..i # {} /\ i \in 1..i /\ i \in Nat /\ 1..i \in SUBSET (0..i)
  OBVIOUS
<1>2. Max(1..i) \in 1..i /\ Max(1..i) >= i
  BY <1>1, MaxExists
<1>3. Max(1..i) = i
  BY <1>2
<1>4. (1..i) \ {i} = 1..i - 1
  OBVIOUS
<1>5. QED
  BY <1>1, <1>3, <1>4
(***************************************************************************)
(* Pages of rows under an order, of which LIMIT and OFFSET return one: the *)
(* order is a set of pairs B, rows it ties share their places.             *)
(***************************************************************************)
WeakOrder(B, X) ==
    /\ \A r \in X : <<r, r>> \notin B
    /\ \A r, s, t \in X : <<r, s>> \in B /\ <<s, t>> \in B => <<r, t>> \in B
    /\ \A r, s, t \in X : <<r, s>> \notin B /\ <<s, t>> \notin B => <<r, t>> \notin B

RowsBefore(rows, B, r) == {s \in rows : <<s, r>> \in B}
RowsTied(rows, B, r)   == {s \in rows : <<r, s>> \notin B /\ <<s, r>> \notin B}

PlacesShared(rows, B, r) ==
    Cardinality(RowsBefore(rows, B, r)) + 1..
        Cardinality(RowsBefore(rows, B, r)) + Cardinality(RowsTied(rows, B, r))

IsPage(P, rows, B, w) ==
    /\ P \in SUBSET rows
    /\ \A r \in rows : Cardinality(P \cap RowsTied(rows, B, r))
                         = Cardinality(PlacesShared(rows, B, r) \cap w)

LEMMA CardinalityUnion ==
  \A S, T : IsFiniteSet(S) /\ IsFiniteSet(T) /\ S \cap T = {} =>
              /\ IsFiniteSet(S \cup T) /\ Cardinality(S \cup T) = Cardinality(S) + Cardinality(T)
              /\ Cardinality(S) \in Nat /\ Cardinality(T) \in Nat
<1> SUFFICES ASSUME NEW S, NEW T, IsFiniteSet(S), IsFiniteSet(T), S \cap T = {}
             PROVE  /\ IsFiniteSet(S \cup T)
                    /\ Cardinality(S \cup T) = Cardinality(S) + Cardinality(T)
                    /\ Cardinality(S) \in Nat /\ Cardinality(T) \in Nat
  OBVIOUS
<1>1. Cardinality(S) \in Nat /\ Cardinality(T) \in Nat
  BY FS_CardinalityType
<1>2. IsFiniteSet(S \cup T)
      /\ Cardinality(S \cup T) = Cardinality(S) + Cardinality(T) - Cardinality(S \cap T)
  BY FS_Union
<1>3. Cardinality(S \cap T) = 0
  BY FS_EmptySet
<1>4. QED
  BY <1>1, <1>2, <1>3

\* Some rows have none after them.
LEMMA LastRow ==
  ASSUME NEW X, NEW B, WeakOrder(B, X), NEW rows \in SUBSET X, IsFiniteSet(rows), rows # {}
  PROVE  \E m \in rows : \A s \in rows : <<m, s>> \notin B
<1> DEFINE N == Cardinality(rows)
           A(r) == Cardinality(RowsBefore(rows, B, r))
           T == {A(r) : r \in rows}
<1>1. \A r \in rows : RowsBefore(rows, B, r) \in SUBSET rows
  BY DEF RowsBefore
<1>2. N \in Nat /\ \A R \in SUBSET rows : IsFiniteSet(R) /\ Cardinality(R) \in 0..N
  <2>1. N \in Nat
    BY FS_CardinalityType
  <2>2. \A R \in SUBSET rows : IsFiniteSet(R) /\ Cardinality(R) <= N
    BY FS_Subset
  <2>3. \A R \in SUBSET rows : Cardinality(R) \in Nat
    BY <2>2, FS_CardinalityType
  <2>4. QED
    BY <2>1, <2>2, <2>3
<1>3. \A r \in rows : A(r) \in 0..N
  BY <1>1, <1>2
<1> HIDE DEF A
<1>4. T \in SUBSET (0..N) /\ T # {}
  BY <1>3
<1> HIDE DEF N, T
<1>5. Max(T) \in T /\ \A x \in T : Max(T) >= x
  BY <1>2, <1>4, MaxExists
<1>6. PICK m \in rows : Max(T) = A(m)
  BY <1>5 DEF T
<1>7. ASSUME NEW s \in rows, <<m, s>> \in B PROVE FALSE
  <2> DEFINE R == RowsBefore(rows, B, m)
             S == RowsBefore(rows, B, s)
  <2>1. R \subseteq S /\ m \in S /\ m \notin R /\ S \in SUBSET rows /\ R \in SUBSET rows
    BY <1>7 DEF RowsBefore, WeakOrder
  <2> HIDE DEF R, S
  <2>2. IsFiniteSet(R) /\ Cardinality(R \cup {m}) = Cardinality(R) + 1
    BY <1>2, <2>1, FS_AddElement
  <2>3. Cardinality(R \cup {m}) <= Cardinality(S)
    BY <1>2, <2>1, FS_Subset
  <2>4. A(s) = Cardinality(S) /\ A(m) = Cardinality(R) /\ A(s) \in T
    BY DEF A, R, S, T
  <2>5. A(m) \in Nat /\ A(s) \in Nat
    BY <1>3
  <2>6. QED
    BY <1>5, <1>6, <2>2, <2>3, <2>4, <2>5
<1>8. QED
  BY <1>7

\* Without the last rows and those tied with them the rest have the places they had.
LEMMA WithoutLast ==
  ASSUME NEW X, NEW B, WeakOrder(B, X), NEW rows \in SUBSET X,
         NEW m \in rows, \A s \in rows : <<m, s>> \notin B, NEW P, NEW w, IsPage(P, rows, B, w)
  PROVE  LET C == RowsTied(rows, B, m)
         IN  /\ m \in C /\ C \subseteq rows /\ RowsBefore(rows, B, m) = rows \ C
             /\ IsPage(P \ C, rows \ C, B, w)
<1> DEFINE C == RowsTied(rows, B, m)
           R == rows \ C
           Q == P \ C
<1>1. m \in C /\ C \subseteq rows
  BY DEF RowsTied, WeakOrder
<1>2. RowsBefore(rows, B, m) = R
  BY DEF RowsTied, RowsBefore
<1>3. ASSUME NEW r \in R
      PROVE  /\ RowsBefore(R, B, r) = RowsBefore(rows, B, r)
             /\ RowsTied(R, B, r) = RowsTied(rows, B, r)
             /\ Q \cap RowsTied(R, B, r) = P \cap RowsTied(rows, B, r)
  <2>1. <<r, m>> \in B /\ r \in rows
    BY DEF RowsTied
  <2>2. \A c \in C : <<c, r>> \notin B /\ <<r, c>> \in B
    <3> SUFFICES ASSUME NEW c \in C PROVE <<c, r>> \notin B /\ <<r, c>> \in B
      OBVIOUS
    <3>1. c \in X /\ r \in X /\ m \in X /\ <<m, c>> \notin B /\ <<c, m>> \notin B
      BY <1>1, <2>1 DEF RowsTied
    <3>2. QED
      BY <2>1, <3>1 DEF WeakOrder
  <2>3. QED
    BY <2>2 DEF RowsBefore, RowsTied
<1>4. Q \in SUBSET R
  BY DEF IsPage
<1>5. \A r \in R : Cardinality(Q \cap RowsTied(R, B, r)) = Cardinality(PlacesShared(R, B, r) \cap w)
  <2> SUFFICES ASSUME NEW r \in R
               PROVE  Cardinality(Q \cap RowsTied(R, B, r))
                        = Cardinality(PlacesShared(R, B, r) \cap w)
    OBVIOUS
  <2>1. r \in rows
    OBVIOUS
  <2> HIDE DEF R, Q
  <2>2. PlacesShared(R, B, r) = PlacesShared(rows, B, r)
    BY <1>3 DEF PlacesShared
  <2>3. QED
    BY <1>3, <2>1, <2>2 DEF IsPage
<1>6. IsPage(Q, R, B, w)
  BY <1>4, <1>5 DEF IsPage
<1>7. QED
  BY <1>1, <1>2, <1>6

\* A page has a row for each of its places that there is a row for.
Fills(P, rows, w) == Cardinality(P) = Cardinality((1..Cardinality(rows)) \cap w)

LEMMA PageFills ==
  ASSUME NEW X, NEW B, WeakOrder(B, X), NEW a \in Int, NEW b \in Int,
         NEW rows \in SUBSET X, IsFiniteSet(rows), NEW P, IsPage(P, rows, B, a..b)
  PROVE  Fills(P, rows, a..b)
<1> DEFINE w == a..b
           T == {k \in Nat : \A R \in SUBSET X : \A Q :
                   IsFiniteSet(R) /\ Cardinality(R) <= k /\ IsPage(Q, R, B, w) => Fills(Q, R, w)}
<1>1. \A i, j \in Int : IsFiniteSet(i..j) /\ IsFiniteSet((i..j) \cap w)
  <2>1. \A i, j \in Int : IsFiniteSet(i..j)
    BY FS_Interval
  <2>2. \A i, j \in Int : (i..j) \cap w \in SUBSET (i..j)
    OBVIOUS
  <2>3. QED
    BY <2>1, <2>2, FS_Subset
<1> HIDE DEF w
<1>2. 0 \in T
  <2> SUFFICES ASSUME NEW R \in SUBSET X, NEW Q, IsFiniteSet(R), Cardinality(R) <= 0,
                      IsPage(Q, R, B, w)
               PROVE  Fills(Q, R, w)
    OBVIOUS
  <2>1. Cardinality(R) = 0
    BY FS_CardinalityType
  <2>2. R = {}
    BY <2>1, FS_EmptySet
  <2>3. Q = {} /\ (1..0) \cap w = {}
    BY <2>2 DEF IsPage
  <2>4. QED
    BY <2>1, <2>3 DEF Fills
<1>3. ASSUME NEW k \in Nat, k \in T PROVE k + 1 \in T
  <2> SUFFICES ASSUME NEW R \in SUBSET X, NEW Q, IsFiniteSet(R), Cardinality(R) <= k + 1,
                      IsPage(Q, R, B, w)
               PROVE  Fills(Q, R, w)
    OBVIOUS
  <2>1. CASE R = {}
    <3>1. Cardinality(R) <= k
      BY <2>1, FS_EmptySet
    <3>2. QED
      BY <1>3, <3>1
  <2>2. CASE R # {}
    <3>1. PICK m \in R : \A s \in R : <<m, s>> \notin B
      BY <2>2, LastRow
    <3> DEFINE C == RowsTied(R, B, m)
               D == R \ C
               E == Q \ C
               n == Cardinality(D)
               c == Cardinality(C)
               I == (1..n) \cap w
               J == (n + 1..n + c) \cap w
    <3>2. m \in C /\ C \subseteq R /\ RowsBefore(R, B, m) = D /\ IsPage(E, D, B, w)
      BY <3>1, WithoutLast
    <3>3. Q \in SUBSET R /\ Cardinality(Q \cap C) = Cardinality(PlacesShared(R, B, m) \cap w)
      BY DEF IsPage
    <3>4. PlacesShared(R, B, m) \cap w = J
      BY <3>2 DEF PlacesShared
    <3> HIDE DEF C
    <3>5. R = D \cup C /\ D \cap C = {} /\ Q = E \cup (Q \cap C) /\ E \cap (Q \cap C) = {}
          /\ D \in SUBSET R /\ C \in SUBSET R /\ E \in SUBSET R /\ Q \cap C \in SUBSET R
      BY <3>2, <3>3
    <3> HIDE DEF D, E
    <3>6. IsFiniteSet(D) /\ IsFiniteSet(C) /\ IsFiniteSet(E) /\ IsFiniteSet(Q \cap C)
      BY <3>5, FS_Subset
    <3>7. Cardinality(R) = n + c /\ n \in Nat /\ c \in Nat
      BY <3>5, <3>6, CardinalityUnion
    <3>8. Cardinality(Q) = Cardinality(E) + Cardinality(Q \cap C)
      BY <3>5, <3>6, CardinalityUnion
    <3>9. c # 0
      BY <3>2, <3>6, FS_EmptySet
    <3> HIDE DEF n, c
    <3>10. n <= k
      BY <3>7, <3>9
    <3>11. Cardinality(E) = Cardinality(I)
      <4>1. D \in SUBSET X
        BY <3>5
      <4>2. Fills(E, D, w)
        BY <1>3, <3>2, <3>6, <3>10, <4>1 DEF n
      <4>3. QED
        BY <4>2 DEF Fills, n
    <3>12. (1..n + c) \cap w = I \cup J /\ I \cap J = {}
      BY <3>7
    <3>13. IsFiniteSet(I) /\ IsFiniteSet(J)
      <4>1. PICK i \in Int, j \in Int : i = n + 1 /\ j = n + c
        BY <3>7
      <4>2. PICK u \in Int, v \in Int : u = 1 /\ v = n
        BY <3>7
      <4>3. IsFiniteSet((u..v) \cap w) /\ IsFiniteSet((i..j) \cap w)
        BY <1>1
      <4>4. QED
        BY <4>1, <4>2, <4>3
    <3>14. Cardinality((1..n + c) \cap w) = Cardinality(I) + Cardinality(J)
      BY <3>12, <3>13, CardinalityUnion
    <3>15. QED
      BY <3>3, <3>4, <3>7, <3>8, <3>11, <3>14 DEF Fills
  <2>3. QED
    BY <2>1, <2>2
<1>4. \A k \in Nat : k \in T
  <2> HIDE DEF T
  <2>1. QED
    BY <1>2, <1>3, NatSetInduction
<1>5. Cardinality(rows) \in Nat
  BY FS_CardinalityType
<1>6. QED
  BY <1>4, <1>5 DEF w

\* So the first row of a page is beyond the offset, and there are as many rows as
\* up to the last of them.
LEMMA PageIs ==
  ASSUME NEW X, NEW B, WeakOrder(B, X), NEW o \in Nat, NEW l \in Nat,
         NEW rows \in SUBSET X, IsFiniteSet(rows), NEW P, IsPage(P, rows, B, o + 1..o + l)
  PROVE  LET n == Cardinality(rows)
         IN  Cardinality(P) = IF n <= o THEN 0 ELSE IF n <= o + l THEN n - o ELSE l
<1> DEFINE n == Cardinality(rows)
           last == IF n <= o + l THEN n ELSE o + l
<1>1. n \in Nat
  BY FS_CardinalityType
<1>2. Cardinality(P) = Cardinality((1..n) \cap (o + 1..o + l))
  BY PageFills DEF Fills
<1> HIDE DEF n
<1>3. (1..n) \cap (o + 1..o + l) = o + 1..last /\ last \in Int
  BY <1>1
<1>4. Cardinality(o + 1..last) = IF o + 1 > last THEN 0 ELSE last - (o + 1) + 1
  BY <1>3, FS_Interval
<1>5. Cardinality(P) = Cardinality(o + 1..last)
  BY <1>2, <1>3 DEF n
<1>6. Cardinality(P) = IF n <= o THEN 0 ELSE IF n <= o + l THEN n - o ELSE l
  BY <1>1, <1>4, <1>5
<1>7. QED
  BY <1>6 DEF n

\* A row that is tied with no other, whose place a page P has.
Untied(r, rows, B) == \A s \in rows \ {r} : <<r, s>> \in B \/ <<s, r>> \in B

PlaceOn(P, r, rows, B, o, l) ==
    LET before == Cardinality(RowsBefore(rows, B, r))
    IN  IsPage(P, rows, B, o + 1..o + l) /\ Untied(r, rows, B) /\ before >= o /\ before < o + l

\* Such a row is on the page.
LEMMA OwnPlace ==
  ASSUME NEW X, NEW B, WeakOrder(B, X), NEW o \in Nat, NEW l \in Nat,
         NEW rows \in SUBSET X, IsFiniteSet(rows), NEW r \in rows, NEW P,
         PlaceOn(P, r, rows, B, o, l)
  PROVE  r \in P
<1> DEFINE k == Cardinality(RowsBefore(rows, B, r))
<1> USE DEF PlaceOn
<1>1. RowsTied(rows, B, r) = {r}
  BY DEF RowsTied, WeakOrder, Untied
<1>2. Cardinality({r}) = 1
  BY FS_Singleton
<1>3. RowsBefore(rows, B, r) \in SUBSET rows
  BY DEF RowsBefore
<1>4. k \in Nat
  BY <1>3, FS_Subset, FS_CardinalityType
<1>5. Cardinality(P \cap {r}) = Cardinality((k + 1..k + 1) \cap (o + 1..o + l))
  BY <1>1, <1>2 DEF IsPage, PlacesShared
<1> HIDE DEF k
<1>6. (k + 1..k + 1) \cap (o + 1..o + l) = {k + 1}
  BY <1>4 DEF k
<1>7. Cardinality({k + 1}) = 1
  BY FS_Singleton
<1>8. Cardinality(P \cap {r}) = 1
  BY <1>5, <1>6, <1>7
<1>9. P \cap {r} # {}
  <2> DEFINE S == P \cap {r}
  <2>1. Cardinality(S) = 1 /\ S \in SUBSET {r} /\ IsFiniteSet({r})
    BY <1>8, FS_Singleton
  <2> HIDE DEF S
  <2>2. S # {}
    BY <2>1, FS_EmptySet, FS_Subset
  <2>3. QED
    BY <2>2 DEF S
<1>10. QED
  BY <1>9

=============================================================================
