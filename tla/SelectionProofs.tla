--------------------------- MODULE SelectionProofs --------------------------
(***************************************************************************)
(* What the other proofs use of sequences: induction over a set of         *)
(* numbers, recursion along a sequence, and what a selection of a sequence *)
(* holds, in which order, and how selections compose.                      *)
(***************************************************************************)
EXTENDS Selections, FiniteSetTheorems, SequenceTheorems, WellFoundedInduction, TLAPS

(* A set of numbers that holds 0 and, with a number, its successor, holds  *)
(* every number.                                                           *)
LEMMA Induction ==
    ASSUME NEW S, 0 \in S, \A n \in Nat : n \in S => n + 1 \in S
    PROVE  Nat \subseteq S
<1>1. SUFFICES ASSUME Nat \ S # {} PROVE FALSE
  OBVIOUS
<1>2. PICK n \in Nat \ S : \A m \in Nat \ S : ~ (<<m, n>> \in OpToRel(<, Nat))
  BY <1>1, NatLessThanWellFounded, WFMin, Zenon
<1>3. \A m \in Nat \ S : ~ (m < n)
  BY <1>2, Zenon DEF OpToRel
<1>4. n \in Nat /\ n \notin S
  OBVIOUS
<1> HIDE <1>2
<1>5. n # 0 /\ n - 1 \in Nat
  BY <1>4
<1>6. n - 1 \in S
  BY <1>3, <1>4, <1>5
<1> QED
  BY <1>4, <1>5, <1>6

(* Steps along 1 .. len from a first value have a course of values.        *)
HasCourse(S, base, len, step) ==
    \E f \in [0 .. len -> S] : f[0] = base /\ \A i \in 1 .. len : f[i] = step[i][f[i - 1]]

(* They have one: what a recursive function is a case of.                  *)
LEMMA Recursion ==
    ASSUME NEW S, NEW base \in S, NEW len \in Nat, NEW step \in [1 .. len -> [S -> S]]
    PROVE  HasCourse(S, base, len, step)
<1> DEFINE Course(n, f) == f[0] = base /\ \A i \in 1 .. n : f[i] = step[i][f[i - 1]]
           Done == {n \in Nat : n <= len => \E f \in [0 .. n -> S] : Course(n, f)}
<1>1. 0 \in Done
  <2>1. [i \in 0 .. 0 |-> base] \in [0 .. 0 -> S] /\ Course(0, [i \in 0 .. 0 |-> base])
    OBVIOUS
  <2> QED
    BY <2>1
<1>2. ASSUME NEW n \in Nat, n \in Done PROVE n + 1 \in Done
  <2>1. SUFFICES ASSUME n + 1 <= len PROVE \E f \in [0 .. n + 1 -> S] : Course(n + 1, f)
    OBVIOUS
  <2>2. PICK f \in [0 .. n -> S] : Course(n, f)
    BY <1>2, <2>1
  <2> DEFINE g == [i \in 0 .. n + 1 |-> IF i <= n THEN f[i] ELSE step[n + 1][f[n]]]
  <2>3. step[n + 1] \in [S -> S] /\ f[n] \in S
    BY <2>1
  <2>4. g \in [0 .. n + 1 -> S]
    BY <2>3
  <2>5. \A i \in 0 .. n : g[i] = f[i]
    OBVIOUS
  <2>6. g[n + 1] = step[n + 1][g[n]]
    BY <2>5
  <2> HIDE DEF g
  <2>7. \A i \in 1 .. n + 1 : g[i] = step[i][g[i - 1]]
    <3> SUFFICES ASSUME NEW i \in 1 .. n + 1 PROVE g[i] = step[i][g[i - 1]]
      OBVIOUS
    <3>1. CASE i = n + 1
      BY <2>6, <3>1
    <3>2. CASE i # n + 1
      <4>1. i \in 1 .. n /\ i \in 0 .. n /\ i - 1 \in 0 .. n
        BY <3>2
      <4> QED
        BY <2>2, <2>5, <4>1
    <3> QED
      BY <3>1, <3>2
  <2>8. g[0] = base
    BY <2>2, <2>5
  <2> QED
    BY <2>4, <2>7, <2>8
<1> HIDE DEF Done
<1>3. len \in Done
  BY <1>1, <1>2, Induction
<1> QED
  BY <1>3 DEF Done, HasCourse

-----------------------------------------------------------------------------
(* Selections                                                              *)

(* A later place has a higher rank, and there are as many ranks as places. *)
LEMMA RanksAreOrdered ==
    ASSUME NEW len \in Nat, NEW places \in SUBSET (1 .. len)
    PROVE  /\ IsFiniteSet(places)
           /\ Cardinality(places) \in Nat /\ Cardinality(places) <= len
           /\ \A i \in places : Rank(places, i) \in 1 .. Cardinality(places)
           /\ \A i, j \in places : i < j => Rank(places, i) < Rank(places, j)
<1> DEFINE N == Cardinality(places)
<1>1. IsFiniteSet(1 .. len) /\ Cardinality(1 .. len) = len
  BY FS_Interval
<1>2. IsFiniteSet(places) /\ N \in Nat /\ N <= len
  BY <1>1, FS_Subset, FS_CardinalityType
<1>3. ASSUME NEW i \in places
      PROVE  /\ IsFiniteSet({k \in places : k <= i})
             /\ Rank(places, i) \in 1 .. N
  <2> DEFINE low == {k \in places : k <= i}
  <2>1. IsFiniteSet(low) /\ Cardinality(low) <= N /\ Cardinality(low) \in Nat
    BY <1>2, FS_Subset, FS_CardinalityType
  <2>2. i \in low
    OBVIOUS
  <2>3. Cardinality(low) # 0
    BY <2>1, <2>2, FS_EmptySet
  <2> QED
    BY <1>2, <2>1, <2>3 DEF Rank
<1>4. ASSUME NEW i \in places, NEW j \in places, i < j
      PROVE  Rank(places, i) < Rank(places, j)
  <2> DEFINE low == {k \in places : k <= i}
             high == {k \in places : k <= j}
  <2>1. low \subseteq high /\ j \in high /\ j \notin low
    <3>1. i \in Nat /\ j \in Nat /\ i <= j /\ ~(j <= i)
      BY <1>4
    <3>2. \A k \in places : k \in Nat
      OBVIOUS
    <3>3. \A k \in places : k <= i => k <= j
      BY <3>1, <3>2
    <3>4. j \in high
      BY <3>1
    <3> QED
      BY <3>1, <3>3, <3>4, Zenon
  <2>2. IsFiniteSet(high) /\ Cardinality(high) \in Nat /\ Cardinality(low) \in Nat
    BY <1>2, <1>3 DEF Rank
  <2>3. Cardinality(low) <= Cardinality(high) /\ Cardinality(high) # Cardinality(low)
    BY <2>1, <2>2, FS_Subset
  <2> QED
    BY <2>2, <2>3 DEF Rank
<1> QED
  BY <1>2, <1>3, <1>4

(* The places of a selection have the ranks 1, 2 and so on, each its own.  *)
LEMMA RanksAreDense ==
    ASSUME NEW len \in Nat, NEW places \in SUBSET (1 .. len)
    PROVE  /\ Cardinality(places) \in Nat /\ Cardinality(places) <= len
           /\ \A n \in 1 .. Cardinality(places) : \E i \in places : Rank(places, i) = n
<1> DEFINE N == Cardinality(places)
           rank == [i \in places |-> Rank(places, i)]
<1>1. IsFiniteSet(1 .. N) /\ Cardinality(1 .. N) = N /\ N \in Nat /\ N <= len
  <2>1. N \in Nat /\ N <= len
    BY RanksAreOrdered
  <2> QED
    BY <2>1, FS_Interval
<1>2. rank \in [places -> 1 .. N]
  BY RanksAreOrdered
<1>3. \A i, j \in places : rank[i] = rank[j] => i = j
  <2> SUFFICES ASSUME NEW i \in places, NEW j \in places, i # j PROVE rank[i] # rank[j]
    OBVIOUS
  <2>1. i < j \/ j < i
    OBVIOUS
  <2>2. Rank(places, i) \in Nat /\ Rank(places, j) \in Nat
    BY <1>1, RanksAreOrdered
  <2> QED
    BY <2>1, <2>2, RanksAreOrdered
<1> HIDE DEF rank
<1>4. rank \in Injection(places, 1 .. N)
  BY <1>2, <1>3 DEF Injection, IsInjective
<1>5. rank \in Surjection(places, 1 .. N)
  BY <1>1, <1>4, FS_Injection, RanksAreOrdered
<1>6. \A n \in 1 .. N : \E i \in places : rank[i] = n
  BY <1>5 DEF Surjection
<1> QED
  BY <1>1, <1>6 DEF rank

(* The n-th places are the places, one after the other.                    *)
LEMMA NthsAreOrdered ==
    ASSUME NEW len \in Nat, NEW places \in SUBSET (1 .. len)
    PROVE  /\ Cardinality(places) \in Nat
           /\ \A n \in 1 .. Cardinality(places) :
                 Nth(places, n) \in places /\ Rank(places, Nth(places, n)) = n
           /\ \A n, m \in 1 .. Cardinality(places) :
                 n < m => Nth(places, n) < Nth(places, m)
           /\ \A i \in places : \E n \in 1 .. Cardinality(places) : Nth(places, n) = i
<1> DEFINE N == Cardinality(places)
<1>1. N \in Nat
  BY RanksAreDense
<1>2. \A n \in 1 .. N : Nth(places, n) \in places /\ Rank(places, Nth(places, n)) = n
  BY RanksAreDense DEF Nth
<1>3. \A i, j \in places : i < j => Rank(places, i) < Rank(places, j)
  BY RanksAreOrdered
<1>4. ASSUME NEW n \in 1 .. N, NEW m \in 1 .. N, n < m
      PROVE  Nth(places, n) < Nth(places, m)
  <2> DEFINE i == Nth(places, n)
             j == Nth(places, m)
  <2>1. i \in places /\ j \in places /\ Rank(places, i) = n /\ Rank(places, j) = m
    BY <1>2
  <2> HIDE DEF i, j
  <2>2. i < j \/ i = j \/ j < i
    BY <2>1
  <2>3. ~ (j < i) /\ i # j
    BY <1>3, <1>4, <2>1
  <2> QED
    BY <2>2, <2>3 DEF i, j
<1>5. ASSUME NEW i \in places
      PROVE  \E n \in 1 .. N : Nth(places, n) = i
  <2> DEFINE n == Rank(places, i)
             j == Nth(places, n)
  <2>1. n \in 1 .. N
    BY RanksAreOrdered
  <2>2. j \in places /\ Rank(places, j) = n
    BY <1>2, <2>1
  <2> HIDE DEF j
  <2>3. i < j \/ i = j \/ j < i
    BY <2>2
  <2>4. i = j
    BY <1>3, <2>1, <2>2, <2>3
  <2> QED
    BY <2>1, <2>4 DEF j
<1> QED
  BY <1>1, <1>2, <1>4, <1>5

(* Whatever goes through the places one after the other, gives the n-th.   *)
LEMMA Enumeration ==
    ASSUME NEW len \in Nat, NEW places \in SUBSET (1 .. len), NEW N \in Nat,
           NEW g \in [1 .. N -> places],
           \A n, m \in 1 .. N : n < m => g[n] < g[m],
           \A i \in places : \E n \in 1 .. N : g[n] = i
    PROVE  Cardinality(places) = N /\ \A n \in 1 .. N : Nth(places, n) = g[n]
<1>1. \A n \in 1 .. N : g[n] \in places /\ g[n] \in Nat
  <2>1. \A i \in places : i \in Nat
    OBVIOUS
  <2> QED
    BY <2>1
<1>2. \A n, m \in 1 .. N : g[n] <= g[m] <=> n <= m
  <2> SUFFICES ASSUME NEW n \in 1 .. N, NEW m \in 1 .. N PROVE g[n] <= g[m] <=> n <= m
    OBVIOUS
  <2>1. n < m \/ n = m \/ m < n
    OBVIOUS
  <2>2. (n < m => g[n] < g[m]) /\ (m < n => g[m] < g[n]) /\ g[n] \in Nat /\ g[m] \in Nat
    BY <1>1
  <2> QED
    BY <2>1, <2>2
<1>3. ASSUME NEW n \in 0 .. N, NEW low \in SUBSET places, \A i \in places : i \in low <=> \E m \in 1 .. n : g[m] = i
      PROVE  Cardinality(low) = n
  <2> DEFINE f == [m \in 1 .. n |-> g[m]]
  <2>1. f \in [1 .. n -> low]
    BY <1>1, <1>3
  <2>2. \A m, k \in 1 .. n : f[m] = f[k] => m = k
    <3> SUFFICES ASSUME NEW m \in 1 .. n, NEW k \in 1 .. n, g[m] = g[k] PROVE m = k
      OBVIOUS
    <3>1. m \in 1 .. N /\ k \in 1 .. N /\ g[m] \in Nat /\ g[k] \in Nat
      BY <1>1
    <3>2. g[m] <= g[k] /\ g[k] <= g[m]
      BY <3>1
    <3> QED
      BY <1>2, <3>1, <3>2
  <2>3. \A i \in low : \E m \in 1 .. n : f[m] = i
    BY <1>3
  <2> HIDE DEF f
  <2>4. f \in Bijection(1 .. n, low)
    BY <2>1, <2>2, <2>3 DEF Bijection, Injection, IsInjective, Surjection
  <2>5. ExistsBijection(1 .. n, low)
    BY <2>4 DEF ExistsBijection
  <2>6. IsFiniteSet(1 .. n) /\ Cardinality(1 .. n) = n
    BY FS_Interval
  <2> QED
    BY <2>5, <2>6, FS_Bijection
<1>4. Cardinality(places) = N
  BY <1>3
<1>5. ASSUME NEW n \in 1 .. N PROVE Rank(places, g[n]) = n
  <2> DEFINE low == {k \in places : k <= g[n]}
  <2>1. \A i \in places : i \in low <=> \E m \in 1 .. n : g[m] = i
    <3> SUFFICES ASSUME NEW i \in places PROVE i \in low <=> \E m \in 1 .. n : g[m] = i
      OBVIOUS
    <3>1. PICK k \in 1 .. N : g[k] = i
      OBVIOUS
    <3>2. i \in low <=> k <= n
      BY <1>2, <3>1
    <3>3. ASSUME NEW m \in 1 .. n, g[m] = i PROVE i \in low
      <4>1. m \in 1 .. N /\ m <= n
        OBVIOUS
      <4> QED
        BY <1>2, <3>3, <4>1
    <3> QED
      BY <3>1, <3>2, <3>3
  <2> HIDE DEF low
  <2>2. low \in SUBSET places
    BY DEF low
  <2>3. Cardinality(low) = n
    BY <1>3, <2>1, <2>2
  <2> QED
    BY <2>3 DEF low, Rank
<1>6. ASSUME NEW n \in 1 .. N PROVE Nth(places, n) = g[n]
  <2>1. \A i \in places : Rank(places, i) = n => i = g[n]
    <3> SUFFICES ASSUME NEW i \in places, Rank(places, i) = n PROVE i = g[n]
      OBVIOUS
    <3>1. PICK k \in 1 .. N : g[k] = i
      OBVIOUS
    <3> QED
      BY <1>5, <3>1
  <2>2. g[n] \in places /\ Rank(places, g[n]) = n
    BY <1>1, <1>5
  <2> QED
    BY <2>1, <2>2 DEF Nth
<1> QED
  BY <1>4, <1>6

(* What is selected of a sequence is in it, and from different places.     *)
LEMMA ThoseAreOfIt ==
    ASSUME NEW S, NEW s \in Seq(S), NEW places \in SUBSET DOMAIN s
    PROVE  /\ Those(s, places) \in Seq(S)
           /\ \A n \in DOMAIN Those(s, places) : \E i \in places :
                 Rank(places, i) = n /\ Those(s, places)[n] = s[i]
<1> DEFINE N == Cardinality(places)
           at(n) == Nth(places, n)
<1>1. Len(s) \in Nat /\ DOMAIN s = 1 .. Len(s) /\ \A i \in DOMAIN s : s[i] \in S
  BY LenProperties
<1>2. N \in Nat
  BY <1>1, RanksAreDense
<1>3. ASSUME NEW n \in 1 .. N PROVE at(n) \in places /\ Rank(places, at(n)) = n
  BY <1>1, RanksAreDense DEF Nth
<1>4. Those(s, places) = [n \in 1 .. N |-> s[at(n)]]
  BY DEF Those, Rank
<1> HIDE DEF at, N
<1>5. \A n \in 1 .. N : s[at(n)] \in S
  BY <1>1, <1>3
<1>6. Those(s, places) \in Seq(S) /\ DOMAIN Those(s, places) = 1 .. N
  BY <1>2, <1>4, <1>5
<1>7. \A n \in 1 .. N : Those(s, places)[n] = s[at(n)]
  BY <1>4
<1> QED
  BY <1>3, <1>6, <1>7

(* All of it is the sequence itself.                                       *)
LEMMA ThoseAreAll ==
    ASSUME NEW S, NEW s \in Seq(S)
    PROVE  Those(s, DOMAIN s) = s
<1>1. Len(s) \in Nat /\ DOMAIN s = 1 .. Len(s) /\ s \in [1 .. Len(s) -> S]
  BY LenProperties
<1>2. Cardinality(DOMAIN s) = Len(s)
  BY <1>1, FS_Interval
<1>3. ASSUME NEW i \in DOMAIN s PROVE Rank(DOMAIN s, i) = i
  <2>1. {k \in DOMAIN s : k <= i} = 1 .. i
    BY <1>1
  <2>2. i \in Nat /\ i >= 1
    BY <1>1
  <2>3. Cardinality(1 .. i) = i
    BY <2>2, FS_Interval
  <2> QED
    BY <2>1, <2>3 DEF Rank
<1>4. \A n \in DOMAIN s : (CHOOSE i \in DOMAIN s : Rank(DOMAIN s, i) = n) = n
  BY <1>3
<1>5. Those(s, DOMAIN s)
        = [n \in DOMAIN s |-> s[CHOOSE i \in DOMAIN s : Rank(DOMAIN s, i) = n]]
  BY <1>1, <1>2 DEF Those, Nth
<1>6. Those(s, DOMAIN s) = [n \in DOMAIN s |-> s[n]]
  BY <1>4, <1>5
<1> QED
  BY <1>1, <1>6
(* A selection has a place of the sequence for each of its own.            *)
LEMMA ThosePlaces ==
    ASSUME NEW S, NEW s \in Seq(S), NEW places \in SUBSET DOMAIN s
    PROVE  /\ Those(s, places) \in Seq(S)
           /\ Cardinality(places) \in Nat /\ Cardinality(places) <= Len(s)
           /\ Len(Those(s, places)) = Cardinality(places)
           /\ DOMAIN Those(s, places) = 1 .. Cardinality(places)
           /\ \A n \in 1 .. Cardinality(places) :
                 Nth(places, n) \in places /\ Those(s, places)[n] = s[Nth(places, n)]
<1> DEFINE N == Cardinality(places)
<1>1. Len(s) \in Nat /\ DOMAIN s = 1 .. Len(s) /\ \A i \in DOMAIN s : s[i] \in S
  BY LenProperties
<1>2. N \in Nat /\ N <= Len(s) /\ \A n \in 1 .. N : Nth(places, n) \in places
  BY <1>1, RanksAreOrdered, NthsAreOrdered
<1>3. Those(s, places) = [n \in 1 .. N |-> s[Nth(places, n)]]
  BY DEF Those
<1> HIDE DEF N
<1>4. \A n \in 1 .. N : s[Nth(places, n)] \in S
  BY <1>1, <1>2
<1>5. Those(s, places) \in Seq(S) /\ Len(Those(s, places)) = N
  BY <1>2, <1>3, <1>4
<1> QED
  BY <1>2, <1>3, <1>5 DEF N

(* Nothing is selected at no place.                                        *)
LEMMA ThoseOfNone ==
    ASSUME NEW S, NEW s \in Seq(S)
    PROVE  Those(s, {}) = <<>>
<1>1. {} \in SUBSET DOMAIN s /\ Cardinality({}) = 0
  BY FS_EmptySet
<1>2. Those(s, {}) \in Seq(S) /\ Len(Those(s, {})) = 0
  BY <1>1, ThosePlaces
<1> QED
  BY <1>2

(* A selection of a selection is one of the sequence.                      *)
LEMMA ThoseOfThose ==
    ASSUME NEW S, NEW s \in Seq(S), NEW P \in SUBSET DOMAIN s, NEW R \in SUBSET P,
           NEW Q \in SUBSET DOMAIN Those(s, P),
           \A n \in DOMAIN Those(s, P) : n \in Q <=> Nth(P, n) \in R
    PROVE  Those(Those(s, P), Q) = Those(s, R)
<1> DEFINE t == Those(s, P)
           K == Cardinality(P)
           N == Cardinality(Q)
           g == [n \in 1 .. N |-> Nth(P, Nth(Q, n))]
<1>1. Len(s) \in Nat /\ DOMAIN s = 1 .. Len(s)
  BY LenProperties
<1>2. t \in Seq(S) /\ K \in Nat /\ DOMAIN t = 1 .. K /\ \A n \in 1 .. K : t[n] = s[Nth(P, n)]
  BY ThosePlaces
<1>3. /\ \A n \in 1 .. K : Nth(P, n) \in P
      /\ \A n, m \in 1 .. K : n < m => Nth(P, n) < Nth(P, m)
      /\ \A i \in P : \E n \in 1 .. K : Nth(P, n) = i
  BY <1>1, NthsAreOrdered
<1>4. Q \in SUBSET (1 .. K)
  BY <1>2
<1>5. /\ N \in Nat
      /\ \A n \in 1 .. N : Nth(Q, n) \in Q
      /\ \A n, m \in 1 .. N : n < m => Nth(Q, n) < Nth(Q, m)
      /\ \A i \in Q : \E n \in 1 .. N : Nth(Q, n) = i
  BY <1>2, <1>4, NthsAreOrdered
<1>6. \A n \in 1 .. K : n \in Q <=> Nth(P, n) \in R
  BY <1>2
<1> HIDE DEF K, N
<1>7. g \in [1 .. N -> R]
  BY <1>4, <1>5, <1>6
<1>8. \A n, m \in 1 .. N : n < m => g[n] < g[m]
  BY <1>3, <1>4, <1>5
<1>9. \A i \in R : \E n \in 1 .. N : g[n] = i
  <2> TAKE i \in R
  <2>1. PICK k \in 1 .. K : Nth(P, k) = i
    BY <1>3
  <2>2. k \in Q
    BY <1>6, <2>1
  <2>3. PICK n \in 1 .. N : Nth(Q, n) = k
    BY <1>5, <2>2
  <2> QED
    BY <2>1, <2>3
<1> HIDE DEF g
<1>10. R \in SUBSET (1 .. Len(s))
  BY <1>1
<1>11. Cardinality(R) = N /\ \A n \in 1 .. N : Nth(R, n) = g[n]
  <2>1. N \in Nat /\ Len(s) \in Nat
    BY <1>1, <1>5
  <2> QED
    BY <2>1, <1>7, <1>8, <1>9, <1>10, Enumeration
<1>12. Those(t, Q) = [n \in 1 .. N |-> t[Nth(Q, n)]]
  BY DEF Those, N
<1>13. \A n \in 1 .. N : t[Nth(Q, n)] = s[g[n]]
  BY <1>2, <1>4, <1>5 DEF g
<1>14. Those(s, R) = [n \in 1 .. N |-> s[g[n]]]
  BY <1>11 DEF Those
<1> QED
  BY <1>12, <1>13, <1>14

(* Some values of a selection, and the others.                             *)
LEMMA OnlyOfThose ==
    ASSUME NEW S, NEW s \in Seq(S), NEW P \in SUBSET DOMAIN s, NEW V, NEW R \in SUBSET P,
           \A i \in P : i \in R <=> s[i] \in V
    PROVE  Only(Those(s, P), V) = Those(s, R)
<1> DEFINE t == Those(s, P)
           Q == {n \in DOMAIN t : t[n] \in V}
<1>1. \A n \in DOMAIN t : Nth(P, n) \in P /\ t[n] = s[Nth(P, n)]
  BY ThosePlaces
<1>2. Q \in SUBSET DOMAIN t /\ \A n \in DOMAIN t : n \in Q <=> Nth(P, n) \in R
  BY <1>1
<1>3. Those(t, Q) = Those(s, R)
  BY <1>2, ThoseOfThose
<1> QED
  BY <1>3 DEF Only

(* What Without leaves of a selection is a selection of the list.          *)
LEMMA WithoutOfThose ==
    ASSUME NEW S, NEW s \in Seq(S), NEW P \in SUBSET DOMAIN s, NEW V, NEW R \in SUBSET P,
           \A i \in P : i \in R <=> s[i] \notin V
    PROVE  Without(Those(s, P), V) = Those(s, R)
<1> DEFINE t == Those(s, P)
           Q == {n \in DOMAIN t : t[n] \notin V}
<1>1. \A n \in DOMAIN t : Nth(P, n) \in P /\ t[n] = s[Nth(P, n)]
  BY ThosePlaces
<1>2. Q \in SUBSET DOMAIN t /\ \A n \in DOMAIN t : n \in Q <=> Nth(P, n) \in R
  BY <1>1
<1>3. Those(t, Q) = Those(s, R)
  BY <1>2, ThoseOfThose
<1> QED
  BY <1>3 DEF Without

(* A selection that leaves out only what is not looked for anyway.         *)
LEMMA OnlyOfWithout ==
    ASSUME NEW S, NEW s \in Seq(S), NEW U, NEW V, U \cap V = {}
    PROVE  Only(Without(s, V), U) = Only(s, U)
<1> DEFINE P == {i \in DOMAIN s : s[i] \notin V}
           R == {i \in DOMAIN s : s[i] \in U}
<1>1. P \in SUBSET DOMAIN s /\ R \in SUBSET P /\ \A i \in P : i \in R <=> s[i] \in U
  OBVIOUS
<1> HIDE DEF P, R
<1>2. Only(Those(s, P), U) = Those(s, R)
  BY <1>1, OnlyOfThose
<1> QED
  BY <1>2 DEF Only, Without, P, R

(* What of a sequence has some values, and what has not.                   *)
LEMMA OnlyHolds ==
    ASSUME NEW S, NEW s \in Seq(S), NEW V
    PROVE  /\ Only(s, V) \in Seq(S)
           /\ \A n \in DOMAIN Only(s, V) : Only(s, V)[n] \in V
           /\ Without(s, V) \in Seq(S)
           /\ \A n \in DOMAIN Without(s, V) : Without(s, V)[n] \notin V
<1> DEFINE P == {i \in DOMAIN s : s[i] \in V}
           Q == {i \in DOMAIN s : s[i] \notin V}
<1>1. P \in SUBSET DOMAIN s /\ Q \in SUBSET DOMAIN s
  OBVIOUS
<1>2. Those(s, P) \in Seq(S) /\ \A n \in DOMAIN Those(s, P) : Nth(P, n) \in P /\ Those(s, P)[n] = s[Nth(P, n)]
  BY <1>1, ThosePlaces
<1>3. Those(s, Q) \in Seq(S) /\ \A n \in DOMAIN Those(s, Q) : Nth(Q, n) \in Q /\ Those(s, Q)[n] = s[Nth(Q, n)]
  BY <1>1, ThosePlaces
<1> QED
  BY <1>2, <1>3 DEF Only, Without
(* Selections of sequences that are the same at their places.              *)
LEMMA ThoseAgree ==
    ASSUME NEW S, NEW s \in Seq(S), NEW t, NEW places \in SUBSET DOMAIN s,
           \A i \in places : s[i] = t[i]
    PROVE  Those(s, places) = Those(t, places)
<1>1. \A n \in 1 .. Cardinality(places) : Nth(places, n) \in places
  BY ThosePlaces
<1> QED
  BY <1>1 DEF Those

(* A value at the end that is not looked for.                              *)
LEMMA LastLeftOut ==
    ASSUME NEW S, NEW s \in Seq(S), NEW e \in S, NEW V
    PROVE  /\ e \notin V => Only(Append(s, e), V) = Only(s, V)
           /\ e \in V => Without(Append(s, e), V) = Without(s, V)
<1> DEFINE t == Append(s, e)
<1>1. /\ Len(s) \in Nat /\ DOMAIN s = 1 .. Len(s)
      /\ t \in Seq(S) /\ DOMAIN t = 1 .. Len(s) + 1
      /\ \A i \in DOMAIN s : t[i] = s[i]
      /\ t[Len(s) + 1] = e
  BY AppendProperties, LenProperties
<1> HIDE DEF t
<1>2. ASSUME e \notin V PROVE Only(t, V) = Only(s, V)
  <2>1. {i \in DOMAIN t : t[i] \in V} = {i \in DOMAIN s : s[i] \in V}
    BY <1>1, <1>2
  <2> DEFINE P == {i \in DOMAIN s : s[i] \in V}
  <2>2. Those(s, P) = Those(t, P)
    BY <1>1, ThoseAgree
  <2> QED
    BY <2>1, <2>2 DEF Only
<1>3. ASSUME e \in V PROVE Without(t, V) = Without(s, V)
  <2>1. {i \in DOMAIN t : t[i] \notin V} = {i \in DOMAIN s : s[i] \notin V}
    BY <1>1, <1>3
  <2> DEFINE P == {i \in DOMAIN s : s[i] \notin V}
  <2>2. Those(s, P) = Those(t, P)
    BY <1>1, ThoseAgree
  <2> QED
    BY <2>1, <2>2 DEF Without
<1> QED
  BY <1>2, <1>3 DEF t

(* Some values of two sequences, one behind the other.                     *)
LEMMA OnlyOfConcat ==
    ASSUME NEW S, NEW s \in Seq(S), NEW t \in Seq(S), NEW V
    PROVE  Only(s \o t, V) = Only(s, V) \o Only(t, V)
<1> DEFINE P == {i \in DOMAIN s : s[i] \in V}
           Q == {i \in DOMAIN t : t[i] \in V}
           w == s \o t
           R == {i \in DOMAIN w : w[i] \in V}
<1>a. /\ Len(s) \in Nat /\ Len(t) \in Nat /\ DOMAIN s = 1 .. Len(s) /\ DOMAIN t = 1 .. Len(t)
      /\ w \in Seq(S) /\ Len(w) = Len(s) + Len(t) /\ DOMAIN w = 1 .. Len(s) + Len(t)
      /\ \A i \in 1 .. Len(s) + Len(t) : w[i] = IF i <= Len(s) THEN s[i] ELSE t[i - Len(s)]
  BY ConcatProperties, LenProperties
<1>b. \A i \in DOMAIN s : i \in R <=> i \in P
  BY <1>a
<1>c. \A j \in DOMAIN t : Len(s) + j \in R <=> j \in Q
  <2> TAKE j \in DOMAIN t
  <2>1. Len(s) + j \in 1 .. Len(s) + Len(t) /\ ~ (Len(s) + j <= Len(s)) /\ (Len(s) + j) - Len(s) = j
    BY <1>a
  <2> QED
    BY <1>a, <2>1
<1>d. P \in SUBSET DOMAIN s /\ Q \in SUBSET DOMAIN t /\ R \in SUBSET DOMAIN w
  OBVIOUS
<1> HIDE DEF P, Q, R, w
<1> DEFINE L == Len(s)
           M == Len(t)
           K == Cardinality(P)
           N == Cardinality(Q)
           g == [n \in 1 .. K + N |-> IF n <= K THEN Nth(P, n) ELSE L + Nth(Q, n - K)]
<1>1. L \in Nat /\ M \in Nat /\ DOMAIN s = 1 .. L /\ DOMAIN t = 1 .. M
  BY LenProperties
<1>2. /\ w \in Seq(S) /\ DOMAIN w = 1 .. L + M
      /\ \A i \in 1 .. L : w[i] = s[i]
      /\ \A j \in 1 .. M : w[L + j] = t[j]
  BY <1>1, <1>a
<1>3. P \in SUBSET (1 .. L) /\ Q \in SUBSET (1 .. M)
  BY <1>1, <1>d
<1>4. /\ K \in Nat /\ \A n \in 1 .. K : Nth(P, n) \in P
      /\ \A n, m \in 1 .. K : n < m => Nth(P, n) < Nth(P, m)
      /\ \A i \in P : \E n \in 1 .. K : Nth(P, n) = i
  BY <1>1, <1>3, NthsAreOrdered
<1>5. /\ N \in Nat /\ \A n \in 1 .. N : Nth(Q, n) \in Q
      /\ \A n, m \in 1 .. N : n < m => Nth(Q, n) < Nth(Q, m)
      /\ \A i \in Q : \E n \in 1 .. N : Nth(Q, n) = i
  BY <1>1, <1>3, NthsAreOrdered
<1>6. /\ Those(s, P) \in Seq(S) /\ Len(Those(s, P)) = K /\ \A n \in 1 .. K : Those(s, P)[n] = s[Nth(P, n)]
      /\ Those(t, Q) \in Seq(S) /\ Len(Those(t, Q)) = N /\ \A n \in 1 .. N : Those(t, Q)[n] = t[Nth(Q, n)]
  BY <1>d, ThosePlaces
<1>7. \A i \in 1 .. L + M : i \in R <=> IF i <= L THEN i \in P ELSE i - L \in Q
  <2> TAKE i \in 1 .. L + M
  <2>1. CASE i <= L
    BY <1>1, <1>b, <2>1
  <2>2. CASE ~ (i <= L)
    <3>1. i - L \in DOMAIN t /\ i = L + (i - L)
      BY <1>1, <2>2
    <3> QED
      BY <1>c, <2>2, <3>1
  <2> QED
    BY <2>1, <2>2
<1> HIDE DEF K, N, L, M
<1>8. ASSUME NEW n \in 1 .. K + N
      PROVE  /\ n <= K => n \in 1 .. K /\ g[n] = Nth(P, n) /\ g[n] \in 1 .. L /\ g[n] \in P
             /\ ~ (n <= K) => /\ n - K \in 1 .. N /\ g[n] = L + Nth(Q, n - K)
                              /\ g[n] \in 1 .. L + M /\ ~ (g[n] <= L) /\ g[n] - L \in Q
  <2>1. n \in Nat /\ K \in Nat /\ N \in Nat /\ L \in Nat /\ M \in Nat
    BY <1>1, <1>4, <1>5
  <2>2. ASSUME n <= K PROVE n \in 1 .. K /\ g[n] = Nth(P, n) /\ g[n] \in 1 .. L /\ g[n] \in P
    <3>1. n \in 1 .. K /\ g[n] = Nth(P, n)
      BY <2>1, <2>2
    <3> QED
      BY <1>3, <1>4, <3>1
  <2>3. ASSUME ~ (n <= K)
        PROVE  /\ n - K \in 1 .. N /\ g[n] = L + Nth(Q, n - K)
               /\ g[n] \in 1 .. L + M /\ ~ (g[n] <= L) /\ g[n] - L \in Q
    <3>1. n - K \in 1 .. N /\ g[n] = L + Nth(Q, n - K)
      BY <2>1, <2>3
    <3>2. Nth(Q, n - K) \in Q /\ Nth(Q, n - K) \in 1 .. M
      BY <1>3, <1>5, <3>1
    <3> QED
      BY <2>1, <3>1, <3>2
  <2> QED
    BY <2>2, <2>3
<1>9. g \in [1 .. K + N -> R]
  <2>1. \A n \in 1 .. K + N : g[n] \in 1 .. L + M /\ g[n] \in R
    BY <1>1, <1>7, <1>8
  <2> QED
    BY <2>1
<1>10. \A n, m \in 1 .. K + N : n < m => g[n] < g[m]
  <2> SUFFICES ASSUME NEW n \in 1 .. K + N, NEW m \in 1 .. K + N, n < m PROVE g[n] < g[m]
    OBVIOUS
  <2> HIDE DEF g
  <2>1. CASE m <= K
    <3>1. n <= K /\ n \in 1 .. K /\ m \in 1 .. K /\ g[n] = Nth(P, n) /\ g[m] = Nth(P, m)
      BY <1>4, <1>8, <2>1
    <3> QED
      BY <1>4, <3>1
  <2>2. CASE n <= K /\ ~ (m <= K)
    <3>1. g[n] \in 1 .. L /\ g[m] \in 1 .. L + M /\ ~ (g[m] <= L)
      BY <1>8, <2>2
    <3> QED
      BY <1>1, <3>1
  <2>3. CASE ~ (n <= K)
    <3>1. ~ (m <= K) /\ n - K \in 1 .. N /\ m - K \in 1 .. N /\ n - K < m - K
      BY <1>4, <1>8, <2>3
    <3>2. Nth(Q, n - K) < Nth(Q, m - K) /\ Nth(Q, n - K) \in 1 .. M /\ Nth(Q, m - K) \in 1 .. M
      BY <1>3, <1>5, <3>1
    <3>3. g[n] = L + Nth(Q, n - K) /\ g[m] = L + Nth(Q, m - K)
      BY <1>8, <2>3, <3>1
    <3> QED
      BY <1>1, <3>2, <3>3
  <2> QED
    BY <1>4, <2>1, <2>2, <2>3
<1>11. \A i \in R : \E n \in 1 .. K + N : g[n] = i
  <2> TAKE i \in R
  <2>1. i \in 1 .. L + M
    BY <1>2, <1>d
  <2>2. CASE i <= L
    <3>1. PICK n \in 1 .. K : Nth(P, n) = i
      BY <1>4, <1>7, <2>1, <2>2
    <3> QED
      BY <1>4, <1>5, <3>1
  <2>3. CASE ~ (i <= L)
    <3>1. PICK n \in 1 .. N : Nth(Q, n) = i - L
      BY <1>5, <1>7, <2>1, <2>3
    <3>2. K + n \in 1 .. K + N /\ ~ (K + n <= K) /\ (K + n) - K = n
      BY <1>4, <1>5
    <3>3. g[K + n] = L + (i - L)
      BY <3>1, <3>2
    <3> QED
      BY <1>1, <2>1, <3>2, <3>3
  <2> QED
    BY <2>2, <2>3
<1> HIDE DEF g
<1>12. Cardinality(R) = K + N /\ \A n \in 1 .. K + N : Nth(R, n) = g[n]
  <2>1. K + N \in Nat /\ L + M \in Nat /\ R \in SUBSET (1 .. L + M)
    BY <1>1, <1>2, <1>4, <1>5, <1>d
  <2> QED
    BY <2>1, <1>9, <1>10, <1>11, Enumeration
<1>13. Those(w, R) \in Seq(S) /\ Len(Those(w, R)) = K + N
       /\ \A n \in 1 .. K + N : Those(w, R)[n] = w[g[n]]
  <2>1. /\ Those(w, R) \in Seq(S) /\ Len(Those(w, R)) = Cardinality(R)
        /\ \A n \in 1 .. Cardinality(R) : Those(w, R)[n] = w[Nth(R, n)]
    BY <1>2, <1>d, ThosePlaces, Zenon
  <2> QED
    BY <1>12, <2>1
<1> DEFINE u == Those(s, P) \o Those(t, Q)
<1>14. u \in Seq(S) /\ Len(u) = K + N
       /\ \A n \in 1 .. K + N : u[n] = IF n <= K THEN Those(s, P)[n] ELSE Those(t, Q)[n - K]
  <2> DEFINE a == Those(s, P)
             b == Those(t, Q)
  <2>1. a \in Seq(S) /\ b \in Seq(S) /\ Len(a) = K /\ Len(b) = N
    BY <1>6
  <2> HIDE DEF a, b
  <2>2. /\ a \o b \in Seq(S) /\ Len(a \o b) = Len(a) + Len(b)
        /\ \A i \in 1 .. Len(a) + Len(b) : (a \o b)[i] = IF i <= Len(a) THEN a[i] ELSE b[i - Len(a)]
    BY <2>1, ConcatProperties
  <2> QED
    BY <2>1, <2>2 DEF a, b
<1> HIDE DEF u
<1>15. ASSUME NEW n \in 1 .. K + N PROVE Those(w, R)[n] = u[n]
  <2>1. CASE n <= K
    <3>1. g[n] = Nth(P, n) /\ g[n] \in 1 .. L + M /\ g[n] <= L /\ n \in 1 .. K
      BY <1>1, <1>8, <2>1
    <3>2. w[g[n]] = s[Nth(P, n)]
      BY <1>1, <1>2, <3>1
    <3> QED
      BY <1>6, <1>13, <1>14, <2>1, <3>1, <3>2
  <2>2. CASE ~ (n <= K)
    <3>1. g[n] = L + Nth(Q, n - K) /\ g[n] \in 1 .. L + M /\ ~ (g[n] <= L) /\ n - K \in 1 .. N
      BY <1>8, <2>2
    <3>3. Nth(Q, n - K) \in 1 .. M
      BY <1>1, <1>3, <1>5, <3>1
    <3>2. w[g[n]] = t[Nth(Q, n - K)]
      BY <1>2, <3>1, <3>3
    <3> QED
      BY <1>6, <1>13, <1>14, <2>2, <3>1, <3>2, <3>3
  <2> QED
    BY <2>1, <2>2
<1> QED
  BY <1>13, <1>14, <1>15, SeqEqual DEF u, Only, P, Q, R, w

(* A function on 1 .. n is a sequence of length n.                         *)
LEMMA FunctionIsSeq ==
    ASSUME NEW S, NEW n \in Nat, NEW f \in [1 .. n -> S]
    PROVE  f \in Seq(S) /\ Len(f) = n /\ DOMAIN f = 1 .. n
OBVIOUS

(* Each place of a selection is in it once.                                *)
LEMMA ThoseOnce ==
    ASSUME NEW S, NEW s \in Seq(S), NEW places \in SUBSET DOMAIN s
    PROVE  /\ \A n, m \in DOMAIN Those(s, places) : Nth(places, n) = Nth(places, m) => n = m
           /\ \A i \in places : \E n \in DOMAIN Those(s, places) : Nth(places, n) = i
<1> DEFINE N == Cardinality(places)
<1>1. Len(s) \in Nat /\ DOMAIN s = 1 .. Len(s) /\ DOMAIN Those(s, places) = 1 .. N
  BY ThosePlaces, LenProperties
<1>2. /\ N \in Nat /\ \A n \in 1 .. N : Nth(places, n) \in places
      /\ \A n, m \in 1 .. N : n < m => Nth(places, n) < Nth(places, m)
      /\ \A i \in places : \E n \in 1 .. N : Nth(places, n) = i
  <2>1. Len(s) \in Nat /\ places \in SUBSET (1 .. Len(s))
    BY <1>1
  <2> QED
    BY <2>1, NthsAreOrdered
<1> HIDE DEF N
<1>3. ASSUME NEW n \in 1 .. N, NEW m \in 1 .. N, Nth(places, n) = Nth(places, m) PROVE n = m
  <2>1. Nth(places, n) \in Nat /\ Nth(places, m) \in Nat
    BY <1>1, <1>2
  <2>2. ~ (n < m) /\ ~ (m < n)
    BY <1>2, <1>3, <2>1
  <2> QED
    BY <1>2, <2>2
<1> QED
  BY <1>1, <1>2, <1>3
=============================================================================
