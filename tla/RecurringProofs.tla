--------------------------- MODULE RecurringProofs ---------------------------
(***************************************************************************)
(* Proofs about Recurring and Suggest: what detection reports and what the *)
(* counting tools answer, for any rows, arguments and orders of names, and *)
(* snapshots of any length.                                                *)
(***************************************************************************)
EXTENDS Suggest, FiniteSetTheorems, SequenceTheorems, TLAPS

(***************************************************************************)
(* The places of a finite set under a strict order R: they are 0, 1, ...   *)
(* without a gap.                                                          *)
(***************************************************************************)
LowerIn(I, R, i) == {j \in I : <<j, i>> \in R}
RankIn(I, R, i) == Cardinality(LowerIn(I, R, i))

IsOrder(I, R) ==
  /\ \A i \in I : <<i, i>> \notin R
  /\ \A i, j, k \in I : <<i, j>> \in R /\ <<j, k>> \in R => <<i, k>> \in R
  /\ \A i, j \in I : i = j \/ <<i, j>> \in R \/ <<j, i>> \in R

LEMMA RankRange ==
  ASSUME NEW I, IsFiniteSet(I), NEW R, IsOrder(I, R), NEW i \in I
  PROVE  /\ IsFiniteSet(LowerIn(I, R, i))
         /\ RankIn(I, R, i) \in Nat /\ RankIn(I, R, i) < Cardinality(I)
<1>1. LowerIn(I, R, i) \in SUBSET I /\ i \notin LowerIn(I, R, i)
  BY DEF LowerIn, IsOrder
<1>2. /\ IsFiniteSet(LowerIn(I, R, i)) /\ Cardinality(LowerIn(I, R, i)) \in Nat
      /\ Cardinality(LowerIn(I, R, i)) <= Cardinality(I)
      /\ Cardinality(LowerIn(I, R, i)) # Cardinality(I)
  BY <1>1, FS_Subset, FS_CardinalityType
<1>3. Cardinality(I) \in Nat
  BY FS_CardinalityType
<1>4. QED
  BY <1>2, <1>3 DEF RankIn

LEMMA RankGrows ==
  ASSUME NEW I, IsFiniteSet(I), NEW R, IsOrder(I, R), NEW i \in I, NEW j \in I, <<j, i>> \in R
  PROVE  RankIn(I, R, j) < RankIn(I, R, i)
<1>1. /\ LowerIn(I, R, j) \in SUBSET LowerIn(I, R, i)
      /\ j \in LowerIn(I, R, i) /\ j \notin LowerIn(I, R, j)
  BY DEF LowerIn, IsOrder
<1>2. /\ Cardinality(LowerIn(I, R, j)) <= Cardinality(LowerIn(I, R, i))
      /\ Cardinality(LowerIn(I, R, j)) # Cardinality(LowerIn(I, R, i))
  BY <1>1, RankRange, FS_Subset
<1>3. RankIn(I, R, j) \in Nat /\ RankIn(I, R, i) \in Nat
  BY RankRange
<1>4. QED
  BY <1>2, <1>3 DEF RankIn

LEMMA RankApart ==
  ASSUME NEW I, IsFiniteSet(I), NEW R, IsOrder(I, R), NEW i \in I, NEW j \in I,
         RankIn(I, R, i) = RankIn(I, R, j)
  PROVE  i = j
<1>1. RankIn(I, R, i) \in Nat /\ RankIn(I, R, j) \in Nat
  BY RankRange
<1>2. <<i, j>> \notin R /\ <<j, i>> \notin R
  BY <1>1, RankGrows
<1>3. QED
  BY <1>2 DEF IsOrder

LEMMA RankCovers ==
  ASSUME NEW I, IsFiniteSet(I), NEW R, IsOrder(I, R), NEW n \in 1 .. Cardinality(I)
  PROVE  \E i \in I : RankIn(I, R, i) = n - 1
<1> DEFINE N == Cardinality(I)
           f == [i \in I |-> RankIn(I, R, i) + 1]
<1>1. N \in Nat
  BY FS_CardinalityType
<1>2. IsFiniteSet(1 .. N) /\ Cardinality(1 .. N) = N
  BY <1>1, FS_Interval
<1>3. ASSUME NEW i \in I PROVE RankIn(I, R, i) + 1 \in 1 .. N
  BY <1>1, RankRange
<1>4. ASSUME NEW i \in I, NEW j \in I, f[i] = f[j] PROVE i = j
  <2>1. RankIn(I, R, i) \in Nat /\ RankIn(I, R, j) \in Nat
    BY RankRange
  <2>2. RankIn(I, R, i) = RankIn(I, R, j)
    BY <1>4, <2>1
  <2>3. QED
    BY <2>2, RankApart
<1>5. f \in [I -> 1 .. N]
  BY <1>3
<1> HIDE DEF f
<1>6. f \in Injection(I, 1 .. N)
  BY <1>4, <1>5 DEF Injection, IsInjective
<1>7. f \in Surjection(I, 1 .. N)
  BY <1>2, <1>6, FS_Injection
<1>8. PICK i \in I : f[i] = n
  BY <1>7 DEF Surjection
<1>9. RankIn(I, R, i) + 1 = n /\ RankIn(I, R, i) \in Nat
  BY <1>8, RankRange DEF f
<1>10. QED
  BY <1>9

\* Taking what has each rank in turn goes once over the set, in order.
LEMMA Ranked ==
  ASSUME NEW I, IsFiniteSet(I), NEW R, IsOrder(I, R), NEW p \in [1 .. Cardinality(I) -> I],
         \A n \in 1 .. Cardinality(I) : RankIn(I, R, p[n]) = n - 1
  PROVE  /\ p \in Bijection(1 .. Cardinality(I), I)
         /\ \A m, n \in 1 .. Cardinality(I) : m < n => <<p[m], p[n]>> \in R
<1> DEFINE N == Cardinality(I)
<1>1. N \in Nat
  BY FS_CardinalityType
<1>2. \A n \in 1 .. N : p[n] \in I /\ RankIn(I, R, p[n]) = n - 1
  OBVIOUS
<1>3. p \in [1 .. N -> I]
  OBVIOUS
<1>4. ASSUME NEW i \in I PROVE RankIn(I, R, i) + 1 \in 1 .. N /\ p[RankIn(I, R, i) + 1] = i
  <2>1. RankIn(I, R, i) \in Nat /\ RankIn(I, R, i) < N
    BY RankRange
  <2>2. RankIn(I, R, i) + 1 \in 1 .. N /\ (RankIn(I, R, i) + 1) - 1 = RankIn(I, R, i)
    BY <1>1, <2>1
  <2>3. p[RankIn(I, R, i) + 1] \in I /\ RankIn(I, R, p[RankIn(I, R, i) + 1]) = RankIn(I, R, i)
    BY <1>2, <2>2
  <2>4. QED
    BY <2>2, <2>3, RankApart
<1>5. ASSUME NEW m \in 1 .. N, NEW n \in 1 .. N, p[m] = p[n] PROVE m = n
  BY <1>1, <1>2, <1>5
<1>6. ASSUME NEW m \in 1 .. N, NEW n \in 1 .. N, m < n PROVE <<p[m], p[n]>> \in R
  <2>1. RankIn(I, R, p[m]) < RankIn(I, R, p[n]) /\ p[m] \in I /\ p[n] \in I
    BY <1>1, <1>2, <1>6
  <2>2. RankIn(I, R, p[m]) \in Nat /\ RankIn(I, R, p[n]) \in Nat
    BY <2>1, RankRange
  <2>3. <<p[n], p[m]>> \notin R
    BY <2>1, <2>2, RankGrows
  <2>4. p[m] # p[n]
    BY <1>1, <1>2, <1>6
  <2>5. QED
    BY <2>1, <2>3, <2>4 DEF IsOrder
<1>7. p \in Injection(1 .. N, I)
  BY <1>3, <1>5 DEF Injection, IsInjective
<1>8. p \in Surjection(1 .. N, I)
  BY <1>3, <1>4 DEF Surjection
<1>9. QED
  BY <1>6, <1>7, <1>8 DEF Bijection

-----------------------------------------------------------------------------
(***************************************************************************)
(* Picked and Sorted go once over what they are given.                     *)
(***************************************************************************)
Ascends(s) == \A m, n \in DOMAIN s : m <= n => s[m] <= s[n]

LEMMA PickedOnce ==
  ASSUME NEW T, NEW s \in Seq(T), NEW I \in SUBSET DOMAIN s
  PROVE  /\ IsFiniteSet(I) /\ Cardinality(I) \in Nat
         /\ Picked(s, I) \in Seq(T) /\ Len(Picked(s, I)) = Cardinality(I)
         /\ \E p \in Bijection(1 .. Cardinality(I), I) :
              \A n \in 1 .. Cardinality(I) : Picked(s, I)[n] = s[p[n]]
<1> DEFINE R == {r \in I \X I : r[1] < r[2]}
           p == [n \in 1 .. Cardinality(I) |->
                   CHOOSE i \in I : Cardinality({j \in I : j < i}) = n - 1]
<1>1. DOMAIN s = 1 .. Len(s) /\ Len(s) \in Nat
  OBVIOUS
<1>2. IsFiniteSet(DOMAIN s)
  BY <1>1, FS_Interval
<1>3. IsFiniteSet(I) /\ Cardinality(I) \in Nat
  BY <1>2, FS_Subset, FS_CardinalityType
<1>4. \A i \in I : i \in Nat
  BY <1>1
<1>5. IsOrder(I, R)
  BY <1>4 DEF IsOrder
<1>6. ASSUME NEW i \in I PROVE Cardinality({j \in I : j < i}) = RankIn(I, R, i)
  <2>1. {j \in I : j < i} = LowerIn(I, R, i)
    BY DEF LowerIn
  <2>2. QED
    BY <2>1 DEF RankIn
<1> HIDE DEF R
<1>7. ASSUME NEW n \in 1 .. Cardinality(I) PROVE p[n] \in I /\ RankIn(I, R, p[n]) = n - 1
  <2>1. \E i \in I : Cardinality({j \in I : j < i}) = n - 1
    BY <1>3, <1>5, <1>6, RankCovers
  <2>2. p[n] \in I /\ Cardinality({j \in I : j < p[n]}) = n - 1
    BY <2>1
  <2>3. QED
    BY <1>6, <2>2
<1>8. Picked(s, I) = [n \in 1 .. Cardinality(I) |-> s[p[n]]]
  BY DEF Picked
<1> HIDE DEF p
<1>9. p \in Bijection(1 .. Cardinality(I), I)
  <2>1. p \in [1 .. Cardinality(I) -> I]
    BY <1>7 DEF p
  <2>2. QED
    BY <1>3, <1>5, <1>7, <2>1, Ranked
<1>10. \A n \in 1 .. Cardinality(I) : p[n] \in I /\ s[p[n]] \in T
  BY <1>1, <1>7
<1>11. Picked(s, I) \in Seq(T) /\ Len(Picked(s, I)) = Cardinality(I)
  BY <1>3, <1>8, <1>10
<1>12. QED
  BY <1>3, <1>8, <1>9, <1>11

LEMMA Upto ==
  ASSUME NEW n \in Nat
  PROVE  IsFiniteSet(1 .. n) /\ Cardinality(1 .. n) = n
<1>1. 1 \in Int /\ n \in Int
  OBVIOUS
<1>2. IsFiniteSet(1 .. n) /\ Cardinality(1 .. n) = IF 1 > n THEN 0 ELSE n - 1 + 1
  BY <1>1, FS_Interval
<1>3. QED
  BY <1>2

LEMMA SortedOnce ==
  ASSUME NEW s \in Seq(Int)
  PROVE  /\ Sorted(s) \in Seq(Int) /\ DOMAIN Sorted(s) = DOMAIN s /\ Len(Sorted(s)) = Len(s)
         /\ Ascends(Sorted(s))
         /\ \E p \in Bijection(DOMAIN s, DOMAIN s) : \A n \in DOMAIN s : Sorted(s)[n] = s[p[n]]
<1> DEFINE I == DOMAIN s
           N == Cardinality(I)
           Under(i) == {j \in I : s[j] < s[i] \/ (s[j] = s[i] /\ j < i)}
           R == {r \in I \X I : s[r[1]] < s[r[2]] \/ (s[r[1]] = s[r[2]] /\ r[1] < r[2])}
           p == [n \in I |-> CHOOSE i \in I : Cardinality(Under(i)) = n - 1]
<1>1. I = 1 .. Len(s) /\ Len(s) \in Nat /\ \A n \in I : n \in Nat /\ s[n] \in Int
  OBVIOUS
<1> HIDE DEF I
<1>2. IsFiniteSet(I) /\ N = Len(s) /\ I = 1 .. N
  BY <1>1, Upto
<1>3. IsOrder(I, R)
  <2>1. \A i, j, k \in I : <<i, j>> \in R /\ <<j, k>> \in R => <<i, k>> \in R
    BY <1>1
  <2>2. QED
    BY <1>1, <2>1 DEF IsOrder
<1>4. ASSUME NEW i \in I PROVE Cardinality(Under(i)) = RankIn(I, R, i)
  <2>1. Under(i) = LowerIn(I, R, i)
    BY DEF LowerIn
  <2>2. QED
    BY <2>1 DEF RankIn
<1>5. Sorted(s) = [n \in I |-> s[p[n]]]
  BY DEF Sorted, I
<1> HIDE DEF N, R, Under
<1>6. ASSUME NEW n \in I PROVE p[n] \in I /\ RankIn(I, R, p[n]) = n - 1
  <2>1. \E i \in I : Cardinality(Under(i)) = n - 1
    <3>1. n \in 1 .. Cardinality(I)
      BY <1>2 DEF N
    <3>2. PICK i \in I : RankIn(I, R, i) = n - 1
      BY <1>2, <1>3, <3>1, RankCovers
    <3>3. QED
      BY <1>4, <3>2
  <2>2. p[n] \in I /\ Cardinality(Under(p[n])) = n - 1
    BY <2>1
  <2>3. QED
    BY <1>4, <2>2
<1>7. /\ p \in Bijection(I, I)
      /\ \A m, n \in I : m < n => <<p[m], p[n]>> \in R
  <2>1. p \in [I -> I]
    BY <1>6 DEF p
  <2>2. QED
    BY <1>2, <1>3, <1>6, <2>1, Ranked DEF N
<1> HIDE DEF p
<1>8. \A n \in I : p[n] \in I /\ s[p[n]] \in Int /\ Sorted(s)[n] = s[p[n]]
  BY <1>1, <1>5, <1>6
<1>9. Sorted(s) \in Seq(Int) /\ DOMAIN Sorted(s) = I /\ Len(Sorted(s)) = Len(s)
  BY <1>1, <1>5, <1>8
<1>10. Ascends(Sorted(s))
  <2>1. ASSUME NEW m \in I, NEW n \in I, m < n PROVE s[p[m]] <= s[p[n]]
    <3>1. <<p[m], p[n]>> \in R
      BY <1>7, <2>1
    <3>2. s[p[m]] < s[p[n]] \/ s[p[m]] = s[p[n]]
      BY <3>1 DEF R
    <3>3. QED
      BY <1>8, <3>2
  <2>2. ASSUME NEW m \in I, NEW n \in I, m <= n PROVE s[p[m]] <= s[p[n]]
    BY <1>1, <1>8, <2>1, <2>2
  <2>3. QED
    BY <1>8, <1>9, <2>2 DEF Ascends
<1>11. QED
  BY <1>7, <1>8, <1>9, <1>10 DEF I

\* Counting what goes to J, or going on from B to C, changes no number.
LEMMA BijectionCounts ==
  ASSUME NEW A, NEW B, IsFiniteSet(A), NEW p \in Bijection(A, B), NEW J \in SUBSET B
  PROVE  /\ IsFiniteSet(J) /\ Cardinality({a \in A : p[a] \in J}) = Cardinality(J)
         /\ IsFiniteSet(B) /\ Cardinality(B) = Cardinality(A)
<1> DEFINE K == {a \in A : p[a] \in J}
           q == [a \in K |-> p[a]]
<1>1. /\ p \in [A -> B] /\ \A b \in B : \E a \in A : p[a] = b
      /\ \A a, b \in A : p[a] = p[b] => a = b
  BY DEF Bijection, Injection, IsInjective, Surjection
<1>2. IsFiniteSet(K)
  BY FS_Subset
<1>3. q \in [K -> J] /\ \A a \in K : q[a] = p[a]
  OBVIOUS
<1>4. \A b \in J : \E a \in K : q[a] = b
  BY <1>1
<1>5. \A a, b \in K : q[a] = q[b] => a = b
  BY <1>1, <1>3
<1> HIDE DEF K, q
<1>6. q \in Bijection(K, J)
  BY <1>3, <1>4, <1>5 DEF Bijection, Injection, IsInjective, Surjection
<1>7. IsFiniteSet(J) /\ Cardinality(K) = Cardinality(J)
  BY <1>2, <1>6, FS_Bijection DEF ExistsBijection
<1>8. IsFiniteSet(B) /\ Cardinality(B) = Cardinality(A)
  BY FS_Bijection DEF ExistsBijection
<1>9. QED
  BY <1>7, <1>8 DEF K

LEMMA BijectionChain ==
  ASSUME NEW A, NEW B, NEW C, NEW p \in Bijection(A, B), NEW q \in Bijection(B, C)
  PROVE  [a \in A |-> q[p[a]]] \in Bijection(A, C)
<1> DEFINE r == [a \in A |-> q[p[a]]]
<1>1. /\ p \in [A -> B] /\ \A b \in B : \E a \in A : p[a] = b
      /\ \A a, b \in A : p[a] = p[b] => a = b
  BY DEF Bijection, Injection, IsInjective, Surjection
<1>2. /\ q \in [B -> C] /\ \A c \in C : \E b \in B : q[b] = c
      /\ \A a, b \in B : q[a] = q[b] => a = b
  BY DEF Bijection, Injection, IsInjective, Surjection
<1>3. r \in [A -> C] /\ \A a \in A : r[a] = q[p[a]]
  BY <1>1, <1>2
<1> HIDE DEF r
<1>4. \A a, b \in A : r[a] = r[b] => a = b
  BY <1>1, <1>2, <1>3
<1>5. \A c \in C : \E a \in A : r[a] = c
  BY <1>1, <1>2, <1>3
<1>6. r \in Bijection(A, C)
  BY <1>3, <1>4, <1>5 DEF Bijection, Injection, IsInjective, Surjection
<1>7. QED
  BY <1>6 DEF r

-----------------------------------------------------------------------------
(***************************************************************************)
(* The median.                                                             *)
(***************************************************************************)
\* The median of equal numbers is that number.
LEMMA MedianOfEqual ==
  ASSUME NEW s \in Seq(Int), Len(s) > 0, NEW g \in Int, \A n \in DOMAIN s : s[n] = g
  PROVE  median(s) = g
<1> DEFINE N == Len(s)
<1>1. N \in Nat /\ N > 0 /\ DOMAIN s = 1 .. N
  OBVIOUS
<1> HIDE DEF N
<1>2. CASE N % 2 = 1
  <2>1. N \div 2 + 1 \in 1 .. N
    BY <1>1, <1>2
  <2>2. QED
    BY <1>1, <1>2, <2>1 DEF median, N
<1>3. CASE N % 2 # 1
  <2>1. N \div 2 \in 1 .. N /\ N \div 2 + 1 \in 1 .. N
    BY <1>1, <1>3
  <2>2. s[N \div 2] = g /\ s[N \div 2 + 1] = g /\ (g + g) \div 2 = g
    BY <1>1, <2>1
  <2>3. median(s) = (s[N \div 2] + s[N \div 2 + 1]) \div 2
    BY <1>1, <1>3 DEF median, N
  <2>4. QED
    BY <2>2, <2>3
<1>4. QED
  BY <1>2, <1>3

\* One number that is not g does not move the median of three or more.
LEMMA MedianOfMost ==
  ASSUME NEW s \in Seq(Int), Ascends(s), Len(s) >= 3, NEW g \in Int, NEW o \in DOMAIN s,
         \A n \in DOMAIN s : n # o => s[n] = g
  PROVE  median(s) = g
<1> DEFINE N == Len(s)
<1>1. N \in Nat /\ N >= 3 /\ DOMAIN s = 1 .. N /\ o \in 1 .. N
  OBVIOUS
<1> HIDE DEF N
<1>2. ASSUME NEW n \in 2 .. (N - 1) PROVE s[n] = g
  <2>1. CASE n # o
    BY <1>1, <2>1
  <2>2. CASE n = o
    <3>1. 1 \in DOMAIN s /\ N \in DOMAIN s /\ 1 # o /\ N # o /\ 1 <= n /\ n <= N /\ n \in DOMAIN s
      BY <1>1, <2>2
    <3>2. s[1] = g /\ s[N] = g /\ s[1] <= s[n] /\ s[n] <= s[N] /\ s[n] \in Int
      BY <3>1 DEF Ascends
    <3>3. QED
      BY <3>2
  <2>3. QED
    BY <2>1, <2>2
<1>3. CASE N % 2 = 1
  <2>1. N \div 2 + 1 \in 2 .. (N - 1)
    BY <1>1, <1>3
  <2>2. QED
    BY <1>1, <1>2, <1>3, <2>1 DEF median, N
<1>4. CASE N % 2 # 1
  <2>1. N \div 2 \in 2 .. (N - 1) /\ N \div 2 + 1 \in 2 .. (N - 1)
    BY <1>1, <1>4
  <2>2. (g + g) \div 2 = g
    OBVIOUS
  <2>3. QED
    BY <1>1, <1>2, <1>4, <2>1, <2>2 DEF median, N
<1>5. QED
  BY <1>3, <1>4

\* Half of the numbers at least are no greater than their median.
LEMMA MedianHalves ==
  ASSUME NEW s \in Seq(Int), Ascends(s), Len(s) > 0
  PROVE  /\ median(s) \in Int
         /\ 2 * Cardinality({n \in DOMAIN s : s[n] <= median(s)}) >= Len(s)
<1> DEFINE N == Len(s)
           Low == {n \in DOMAIN s : s[n] <= median(s)}
<1>1. N \in Nat /\ N > 0 /\ DOMAIN s = 1 .. N /\ \A n \in 1 .. N : s[n] \in Int
  OBVIOUS
<1>2. PICK h \in 1 .. N : 2 * h >= N /\ s[h] <= median(s) /\ median(s) \in Int
  <2> HIDE DEF N
  <2>1. CASE N % 2 = 1
    <3>1. N \div 2 + 1 \in 1 .. N /\ 2 * (N \div 2 + 1) >= N
      BY <1>1, <2>1
    <3>2. median(s) = s[N \div 2 + 1]
      BY <1>1, <2>1 DEF median, N
    <3>3. s[N \div 2 + 1] \in Int
      BY <1>1, <3>1
    <3>4. QED
      BY <3>1, <3>2, <3>3
  <2>2. CASE N % 2 # 1
    <3>1. N \div 2 \in 1 .. N /\ N \div 2 + 1 \in 1 .. N /\ 2 * (N \div 2) >= N /\ N \div 2 <= N \div 2 + 1
      BY <1>1, <2>2
    <3>2. median(s) = (s[N \div 2] + s[N \div 2 + 1]) \div 2
      BY <1>1, <2>2 DEF median, N
    <3>3. s[N \div 2] \in Int /\ s[N \div 2 + 1] \in Int /\ s[N \div 2] <= s[N \div 2 + 1]
      BY <1>1, <3>1 DEF Ascends
    <3>4. s[N \div 2] <= median(s) /\ median(s) \in Int
      BY <3>2, <3>3
    <3>5. QED
      BY <3>1, <3>4
  <2>3. QED
    BY <2>1, <2>2
<1> HIDE DEF N
<1>3. 1 .. h \in SUBSET Low
  <2>1. ASSUME NEW n \in 1 .. h PROVE n \in Low
    <3>1. n \in DOMAIN s /\ h \in DOMAIN s /\ n <= h
      BY <1>1, <1>2
    <3>2. s[n] <= s[h] /\ s[n] \in Int /\ s[h] \in Int
      BY <1>1, <3>1 DEF Ascends
    <3>3. s[n] <= median(s)
      BY <1>2, <3>2
    <3>4. QED
      BY <3>1, <3>3
  <2>2. QED
    BY <2>1
<1>4. IsFiniteSet(Low)
  <2>1. IsFiniteSet(DOMAIN s)
    BY <1>1, FS_Interval
  <2>2. QED
    BY <2>1, FS_Subset
<1> HIDE DEF Low
<1>5. Cardinality(1 .. h) = h /\ h \in Nat
  BY <1>1, Upto
<1>6. Cardinality(1 .. h) <= Cardinality(Low) /\ Cardinality(Low) \in Nat
  BY <1>3, <1>4, FS_Subset, FS_CardinalityType
<1>7. 2 * Cardinality(Low) >= N
  BY <1>1, <1>2, <1>5, <1>6
<1>8. QED
  BY <1>2, <1>7 DEF Low, N

-----------------------------------------------------------------------------
(***************************************************************************)
(* Days and the intervals between them.                                    *)
(***************************************************************************)
LEMMA Extremes ==
  ASSUME NEW S \in SUBSET Nat, IsFiniteSet(S), S # {}
  PROVE  /\ \E i \in S : \A j \in S : j <= i
         /\ \E i \in S : \A j \in S : i <= j
<1> DEFINE R == {r \in S \X S : r[1] < r[2]}
           N == Cardinality(S)
<1>1. \A i \in S : i \in Nat
  OBVIOUS
<1>2. IsOrder(S, R)
  BY <1>1 DEF IsOrder
<1>3. \A i, j \in S : j < i => <<j, i>> \in R
  OBVIOUS
<1> HIDE DEF R
<1>4. N \in Nat /\ N # 0
  BY FS_CardinalityType, FS_EmptySet
<1>5. \A i \in S : RankIn(S, R, i) \in Nat /\ RankIn(S, R, i) < N
  BY <1>2, RankRange
<1>6. \A i, j \in S : j < i => RankIn(S, R, j) < RankIn(S, R, i)
  BY <1>2, <1>3, RankGrows
<1>7. \A n \in 1 .. N : \E i \in S : RankIn(S, R, i) = n - 1
  BY <1>2, RankCovers
<1> HIDE DEF N
<1>8. PICK i \in S : RankIn(S, R, i) = N - 1
  <2>1. N \in 1 .. N
    BY <1>4
  <2>2. QED
    BY <1>7, <2>1
<1>9. PICK k \in S : RankIn(S, R, k) = 0
  <2>1. 1 \in 1 .. N /\ 1 - 1 = 0
    BY <1>4
  <2>2. QED
    BY <1>7, <2>1
<1>10. \A j \in S : ~(i < j) /\ ~(j < k)
  BY <1>4, <1>5, <1>6, <1>8, <1>9
<1>11. \A j \in S : j <= i /\ k <= j
  BY <1>1, <1>10
<1>12. QED
  BY <1>11

LEMMA LatestIs ==
  ASSUME NEW S \in SUBSET Nat, IsFiniteSet(S), S # {}
  PROVE  Latest(S) \in S /\ \A a \in S : a <= Latest(S)
<1>1. \E i \in S : \A j \in S : j <= i
  BY Extremes
<1>2. QED
  BY <1>1 DEF Latest

\* There is one interval less than there are days.
LEMMA SuccessiveCount ==
  ASSUME NEW S \in SUBSET Nat, IsFiniteSet(S), S # {}
  PROVE  /\ IsFiniteSet(Successive(S)) /\ Cardinality(Successive(S)) \in Nat
         /\ Cardinality(S) \in Nat
         /\ Cardinality(S) = Cardinality(Successive(S)) + 1
<1> DEFINE T == S \ {Latest(S)}
           f == [p \in Successive(S) |-> p[1]]
<1>1. IsFiniteSet(Successive(S)) /\ Cardinality(Successive(S)) \in Nat
  <2>1. IsFiniteSet(S \X S) /\ Successive(S) \in SUBSET (S \X S)
    BY FS_Product DEF Successive
  <2>2. QED
    BY <2>1, FS_Subset, FS_CardinalityType
<1>2. Latest(S) \in S /\ \A a \in S : a <= Latest(S) /\ a \in Nat
  BY LatestIs
<1>3. ASSUME NEW p \in Successive(S) PROVE p[1] \in T
  <2>1. p[1] \in S /\ p[2] \in S /\ p[1] < p[2]
    BY DEF Successive
  <2>2. p[2] <= Latest(S) /\ p[1] \in Nat /\ p[2] \in Nat /\ Latest(S) \in Nat
    BY <1>2, <2>1
  <2>3. p[1] # Latest(S)
    BY <2>1, <2>2
  <2>4. QED
    BY <2>1, <2>3
<1>4. ASSUME NEW p \in Successive(S), NEW q \in Successive(S), p[1] = q[1] PROVE p = q
  <2>1. /\ p = <<p[1], p[2]>> /\ p[1] \in S /\ p[2] \in S /\ p[1] < p[2]
        /\ \A c \in S : ~(p[1] < c /\ c < p[2])
    BY DEF Successive
  <2>2. /\ q = <<q[1], q[2]>> /\ q[1] \in S /\ q[2] \in S /\ q[1] < q[2]
        /\ \A c \in S : ~(q[1] < c /\ c < q[2])
    BY DEF Successive
  <2>3. p[2] \in Nat /\ q[2] \in Nat /\ ~(p[2] < q[2]) /\ ~(q[2] < p[2])
    BY <1>2, <1>4, <2>1, <2>2
  <2>4. p[2] = q[2]
    BY <2>3
  <2>5. QED
    BY <1>4, <2>1, <2>2, <2>4
<1>5. ASSUME NEW a \in T PROVE \E p \in Successive(S) : p[1] = a
  <2> DEFINE U == {b \in S : a < b}
  <2>1. U \in SUBSET Nat /\ IsFiniteSet(U)
    BY FS_Subset
  <2>2. a \in Nat /\ a # Latest(S) /\ a <= Latest(S) /\ Latest(S) \in Nat
    BY <1>2
  <2>3. Latest(S) \in U
    BY <1>2, <2>2
  <2>4. PICK b \in U : \A c \in U : b <= c
    BY <2>1, <2>3, Extremes
  <2>5. \A c \in S : ~(a < c /\ c < b)
    BY <1>2, <2>4
  <2>6. <<a, b>> \in Successive(S)
    BY <2>4, <2>5 DEF Successive
  <2>7. QED
    BY <2>6
<1> HIDE DEF T
<1>6. f \in [Successive(S) -> T] /\ \A p \in Successive(S) : f[p] = p[1]
  BY <1>3
<1> HIDE DEF f
<1>7. f \in Bijection(Successive(S), T)
  BY <1>4, <1>5, <1>6 DEF Bijection, Injection, IsInjective, Surjection
<1>8. Cardinality(T) = Cardinality(Successive(S))
  BY <1>1, <1>7, BijectionCounts
<1>9. Cardinality(S) \in Nat /\ Cardinality(T) = Cardinality(S) - 1
  BY <1>2, FS_RemoveElement, FS_CardinalityType DEF T
<1>10. QED
  BY <1>1, <1>8, <1>9

\* The gaps of ascending days are the intervals between the days they show.
LEMMA GapsAreIntervals ==
  ASSUME NEW d \in Seq(Nat), Ascends(d), Len(d) > 0,
         NEW S, S = {d[n] : n \in DOMAIN d}
  PROVE  /\ Gaps(d) \in Seq(Int)
         /\ \E c \in Bijection(1 .. Len(Gaps(d)), Successive(S)) :
              \A n \in 1 .. Len(Gaps(d)) : Gaps(d)[n] = c[n][2] - c[n][1]
<1> DEFINE N == Len(d) - 1
           gaps == [n \in 1 .. N |-> d[n + 1] - d[n]]
           I == {n \in 1 .. N : gaps[n] > 0}
           f == [n \in I |-> <<d[n], d[n + 1]>>]
<1>1. /\ N \in Nat /\ DOMAIN d = 1 .. (N + 1) /\ \A n \in 1 .. (N + 1) : d[n] \in Nat
      /\ \A n \in 1 .. N : n \in 1 .. (N + 1) /\ n + 1 \in 1 .. (N + 1)
  OBVIOUS
<1>2. \A m, n \in 1 .. (N + 1) : m <= n => d[m] <= d[n]
  BY <1>1 DEF Ascends
<1> HIDE DEF N
<1>3. gaps \in Seq(Int) /\ DOMAIN gaps = 1 .. N /\ I \in SUBSET DOMAIN gaps
  <2>1. \A n \in 1 .. N : d[n + 1] - d[n] \in Int
    BY <1>1
  <2>2. gaps \in [1 .. N -> Int]
    BY <2>1
  <2>3. QED
    BY <1>1, <2>2
<1>4. Gaps(d) = Picked(gaps, I)
  BY <1>3 DEF Gaps, N
<1>5. \A n \in I : n \in 1 .. N /\ d[n] \in S /\ d[n + 1] \in S /\ d[n] < d[n + 1]
      /\ gaps[n] = d[n + 1] - d[n]
  <2>1. TAKE n \in I
  <2>2. n \in 1 .. N /\ gaps[n] > 0 /\ gaps[n] = d[n + 1] - d[n]
    OBVIOUS
  <2>3. n \in DOMAIN d /\ n + 1 \in DOMAIN d /\ d[n] \in Nat /\ d[n + 1] \in Nat
    BY <1>1, <2>2
  <2>4. d[n] < d[n + 1]
    BY <2>2, <2>3
  <2>5. QED
    BY <2>2, <2>3, <2>4
<1>6. \A n \in 1 .. N : d[n] < d[n + 1] => n \in I
  BY <1>1
<1> HIDE DEF gaps, I
<1>7. ASSUME NEW n \in I PROVE <<d[n], d[n + 1]>> \in Successive(S)
  <2>1. ASSUME NEW j \in 1 .. (N + 1) PROVE ~(d[n] < d[j] /\ d[j] < d[n + 1])
    <3>1. j <= n \/ n + 1 <= j
      BY <1>1, <1>5
    <3>2. n \in 1 .. (N + 1) /\ n + 1 \in 1 .. (N + 1)
      BY <1>1, <1>5
    <3>3. d[j] <= d[n] \/ d[n + 1] <= d[j]
      BY <1>2, <3>1, <3>2
    <3>4. d[j] \in Nat /\ d[n] \in Nat /\ d[n + 1] \in Nat
      BY <1>1, <3>2
    <3>5. QED
      BY <3>3, <3>4
  <2>2. \A c \in S : ~(d[n] < c /\ c < d[n + 1])
    BY <1>1, <2>1
  <2>3. QED
    BY <1>5, <2>2 DEF Successive
<1>8. f \in [I -> Successive(S)] /\ \A n \in I : f[n] = <<d[n], d[n + 1]>>
  BY <1>7
<1> HIDE DEF f
<1>9. ASSUME NEW m \in I, NEW n \in I, m < n PROVE f[m] # f[n]
  <2>1. m + 1 <= n /\ m + 1 \in 1 .. (N + 1) /\ n \in 1 .. (N + 1) /\ m \in 1 .. (N + 1)
    BY <1>1, <1>5, <1>9
  <2>2. d[m + 1] <= d[n] /\ d[m] < d[m + 1]
    BY <1>2, <1>5, <2>1
  <2>3. d[m] # d[n]
    BY <1>1, <2>1, <2>2
  <2>4. QED
    BY <1>8, <2>3
<1>10. ASSUME NEW m \in I, NEW n \in I, f[m] = f[n] PROVE m = n
  <2>1. m \in Nat /\ n \in Nat
    BY <1>1, <1>5
  <2>2. QED
    BY <1>9, <1>10, <2>1
<1>11. ASSUME NEW p \in Successive(S) PROVE \E n \in I : f[n] = p
  <2>1. /\ p = <<p[1], p[2]>> /\ p[1] \in S /\ p[2] \in S /\ p[1] < p[2]
        /\ \A c \in S : ~(p[1] < c /\ c < p[2])
    BY DEF Successive
  <2> DEFINE U == {n \in 1 .. (N + 1) : d[n] = p[1]}
  <2>2. IsFiniteSet(1 .. (N + 1)) /\ U \in SUBSET (1 .. (N + 1)) /\ U \in SUBSET Nat
    BY <1>1, Upto
  <2>3. IsFiniteSet(U) /\ U # {}
    BY <1>1, <2>1, <2>2, FS_Subset
  <2>4. PICK n \in U : \A m \in U : m <= n
    BY <2>2, <2>3, Extremes
  <2>5. PICK m \in 1 .. (N + 1) : d[m] = p[2]
    BY <1>1, <2>1
  <2>6. n \in 1 .. (N + 1) /\ d[n] = p[1]
    OBVIOUS
  <2>7. n < m
    <3>1. ~(d[m] <= d[n])
      BY <1>1, <2>1, <2>5, <2>6
    <3>2. ~(m <= n)
      BY <1>2, <2>6, <3>1
    <3>3. QED
      BY <3>2, <1>1
  <2>8. n \in 1 .. N /\ n + 1 \in 1 .. (N + 1) /\ n <= n + 1 /\ n + 1 <= m
    BY <1>1, <2>7
  <2>9. n + 1 \notin U
    BY <1>1, <2>4
  <2>10. d[n + 1] # d[n] /\ d[n] <= d[n + 1] /\ d[n + 1] <= p[2]
    BY <1>2, <2>5, <2>6, <2>8, <2>9
  <2>11. d[n + 1] \in S /\ d[n + 1] \in Nat /\ d[n] \in Nat /\ p[2] \in Nat
    BY <1>1, <2>5, <2>6, <2>8
  <2>12. d[n] < d[n + 1] /\ d[n + 1] = p[2]
    <3>1. d[n] < d[n + 1]
      BY <2>10, <2>11
    <3>2. ~(d[n + 1] < p[2])
      BY <2>1, <2>6, <2>11, <3>1
    <3>3. QED
      BY <2>10, <2>11, <3>1, <3>2
  <2>13. n \in I
    BY <1>6, <2>8, <2>12
  <2>14. QED
    BY <1>8, <2>1, <2>6, <2>12, <2>13
<1>12. f \in Bijection(I, Successive(S))
  BY <1>8, <1>10, <1>11 DEF Bijection, Injection, IsInjective, Surjection
<1>13. /\ Gaps(d) \in Seq(Int) /\ Len(Gaps(d)) = Cardinality(I)
       /\ \E p \in Bijection(1 .. Cardinality(I), I) :
            \A n \in 1 .. Cardinality(I) : Gaps(d)[n] = gaps[p[n]]
  <2>1. /\ Picked(gaps, I) \in Seq(Int) /\ Len(Picked(gaps, I)) = Cardinality(I)
        /\ \E p \in Bijection(1 .. Cardinality(I), I) :
             \A n \in 1 .. Cardinality(I) : Picked(gaps, I)[n] = gaps[p[n]]
    BY <1>3, PickedOnce
  <2>2. QED
    BY <1>4, <2>1
<1>14. PICK p \in Bijection(1 .. Cardinality(I), I) :
         \A n \in 1 .. Cardinality(I) : Gaps(d)[n] = gaps[p[n]]
  BY <1>13
<1> DEFINE c == [n \in 1 .. Cardinality(I) |-> f[p[n]]]
<1>15. c \in Bijection(1 .. Cardinality(I), Successive(S))
  BY <1>12, BijectionChain
<1>16. ASSUME NEW n \in 1 .. Cardinality(I) PROVE Gaps(d)[n] = c[n][2] - c[n][1]
  <2>1. p[n] \in I
    BY <1>14 DEF Bijection, Injection
  <2>2. f[p[n]] = <<d[p[n]], d[p[n] + 1]>> /\ gaps[p[n]] = d[p[n] + 1] - d[p[n]]
    BY <1>5, <1>8, <2>1
  <2>3. c[n] = f[p[n]]
    OBVIOUS
  <2>4. Gaps(d)[n] = gaps[p[n]]
    BY <1>14
  <2>5. QED
    BY <2>2, <2>3, <2>4
<1> HIDE DEF c
<1>17. QED
  BY <1>13, <1>15, <1>16

-----------------------------------------------------------------------------
(***************************************************************************)
(* Detection.                                                              *)
(***************************************************************************)
RowsInv ==
  /\ txns \in Seq(Txn) /\ minimum \in Minimum /\ from \in From /\ account \in Account

LEMMA RowsInit == Init => RowsInv
  BY DEF Init, RowsInv

LEMMA RowsStep == RowsInv /\ [Next]_vars => RowsInv'
<1> SUFFICES ASSUME RowsInv, [Next]_vars PROVE RowsInv'
  OBVIOUS
<1>1. ASSUME NEW t \in Txn, Added(t) PROVE RowsInv'
  <2>1. <<t>> \in Seq(Txn)
    OBVIOUS
  <2>2. txns' \in Seq(Txn)
    BY <1>1, <2>1 DEF Added, RowsInv, args
  <2>3. QED
    BY <1>1, <2>2 DEF Added, RowsInv, args
<1>2. CASE UNCHANGED vars
  BY <1>2 DEF RowsInv, vars, args
<1>3. QED
  BY <1>1, <1>2 DEF Next

LEMMA Narrowed ==
  ASSUME NEW T, NEW s \in Seq(Int), \A n \in DOMAIN s : s[n] \in T
  PROVE  s \in Seq(T)
  OBVIOUS

\* Where date_from compares as its day, the rows of a merchant are those
\* that name it on a day asked for.
LEMMA MembersByDay ==
  ASSUME RowsInv, ComparesAsDay, NEW k, NEW n \in DOMAIN txns
  PROVE  IsMember(txns[n], k) <=>
           /\ ~txns[n].deleted /\ txns[n].posted \in DOMAIN Day
           /\ account = None \/ txns[n].account = account
           /\ from = None \/ Day[txns[n].posted] >= Day[from]
           /\ Called(txns[n]) # None /\ Called(txns[n]).key = k
<1> DEFINE t == txns[n]
<1>1. account \in {None, t.account} <=> account = None \/ t.account = account
  OBVIOUS
<1>2. t.posted \in DOMAIN Day => t.posted # None
  BY DayAssumption, NoneAssumption
<1>3. t.posted \in DOMAIN Day =>
        ((from # None => t.posted >= from) <=> (from = None \/ Day[t.posted] >= Day[from]))
  BY DEF ComparesAsDay
<1>4. merchant_of(t) = Called(t)
  BY DEF merchant_of, Called
<1> HIDE DEF t
<1>5. IsMember(t, k) <=>
        /\ ~t.deleted /\ t.posted \in DOMAIN Day
        /\ account = None \/ t.account = account
        /\ from = None \/ Day[t.posted] >= Day[from]
        /\ Called(t) # None /\ Called(t).key = k
  BY <1>1, <1>2, <1>3, <1>4 DEF IsMember, normalize_payee
<1>6. QED
  BY <1>5 DEF t

\* The days of a merchant ascend and are those it was paid on.
LEMMA DaysArePaid ==
  ASSUME RowsInv, ComparesAsDay, NEW k
  PROVE  /\ Days(k) \in Seq(Nat) /\ Ascends(Days(k))
         /\ PaidOn(k) = {Days(k)[n] : n \in DOMAIN Days(k)}
<1> DEFINE I == {n \in DOMAIN txns : IsMember(txns[n], k)}
           M == Cardinality(I)
           m == Members(k)
           s == [n \in DOMAIN m |-> Day[m[n].posted]]
<1>1. txns \in Seq(Txn) /\ I \in SUBSET DOMAIN txns /\ \A n \in DOMAIN txns : txns[n] \in Txn
  BY DEF RowsInv
<1>2. ASSUME NEW n \in I PROVE Day[txns[n].posted] \in Nat
  BY DayAssumption DEF IsMember
<1>3. PaidOn(k) = {Day[txns[n].posted] : n \in I}
  BY MembersByDay DEF PaidOn
<1>4. m = Picked(txns, I)
  BY DEF Members
<1> HIDE DEF I, m
<1>5. /\ M \in Nat /\ m \in Seq(Txn) /\ Len(m) = M
      /\ \E p \in Bijection(1 .. M, I) : \A n \in 1 .. M : m[n] = txns[p[n]]
  <2>1. /\ Cardinality(I) \in Nat /\ Picked(txns, I) \in Seq(Txn)
        /\ Len(Picked(txns, I)) = Cardinality(I)
        /\ \E p \in Bijection(1 .. Cardinality(I), I) :
             \A n \in 1 .. Cardinality(I) : Picked(txns, I)[n] = txns[p[n]]
    BY <1>1, PickedOnce
  <2>2. QED
    BY <1>4, <2>1
<1>6. PICK p \in Bijection(1 .. M, I) : \A n \in 1 .. M : m[n] = txns[p[n]]
  BY <1>5
<1>7. (\A n \in 1 .. M : p[n] \in I) /\ (\A i \in I : \E n \in 1 .. M : p[n] = i)
  BY DEF Bijection, Injection, Surjection
<1> HIDE DEF M
<1>8. DOMAIN m = 1 .. M
  BY <1>5
<1>9. s \in [1 .. M -> Nat] /\ \A n \in 1 .. M : s[n] = Day[txns[p[n]].posted]
  BY <1>2, <1>6, <1>7, <1>8
<1> HIDE DEF s
<1>10. DOMAIN s = 1 .. M /\ s \in Seq(Nat) /\ s \in Seq(Int)
  BY <1>5, <1>9
<1>11. Days(k) = Sorted(s)
  BY DEF Days, s, m
<1>12. /\ Sorted(s) \in Seq(Int) /\ DOMAIN Sorted(s) = 1 .. M /\ Ascends(Sorted(s))
       /\ \E q \in Bijection(1 .. M, 1 .. M) : \A n \in 1 .. M : Sorted(s)[n] = s[q[n]]
  <2>1. /\ Sorted(s) \in Seq(Int) /\ DOMAIN Sorted(s) = DOMAIN s /\ Ascends(Sorted(s))
        /\ \E q \in Bijection(DOMAIN s, DOMAIN s) : \A n \in DOMAIN s : Sorted(s)[n] = s[q[n]]
    BY <1>10, SortedOnce
  <2>2. QED
    BY <1>10, <2>1
<1>13. PICK q \in Bijection(1 .. M, 1 .. M) : \A n \in 1 .. M : Sorted(s)[n] = s[q[n]]
  BY <1>12
<1>14. /\ \A n \in 1 .. M : q[n] \in 1 .. M
       /\ \A i \in 1 .. M : \E n \in 1 .. M : q[n] = i
  BY DEF Bijection, Injection, Surjection
<1>15. \A n \in 1 .. M : Sorted(s)[n] = Day[txns[p[q[n]]].posted] /\ p[q[n]] \in I
  BY <1>7, <1>9, <1>13, <1>14
<1>16. Sorted(s) \in Seq(Nat)
  <2>1. \A n \in 1 .. M : Sorted(s)[n] \in Nat
    BY <1>2, <1>15
  <2>2. QED
    BY <1>12, <2>1, Narrowed
<1>17. PaidOn(k) = {Sorted(s)[n] : n \in 1 .. M}
  <2>1. ASSUME NEW i \in I PROVE \E n \in 1 .. M : Sorted(s)[n] = Day[txns[i].posted]
    <3>1. PICK j \in 1 .. M : p[j] = i
      BY <1>7
    <3>2. PICK n \in 1 .. M : q[n] = j
      BY <1>14
    <3>3. QED
      BY <1>15, <3>1, <3>2
  <2>2. QED
    BY <1>3, <1>15, <2>1
<1>18. QED
  BY <1>11, <1>12, <1>16, <1>17

\* The sorted gaps of a merchant go once over the intervals between its days.
LEMMA GapsOfMerchant ==
  ASSUME RowsInv, ComparesAsDay, NEW k, Len(Days(k)) > 0,
         NEW gaps, gaps = Sorted(Gaps(Days(k))), NEW S, S = PaidOn(k)
  PROVE  /\ S \in SUBSET Nat /\ IsFiniteSet(S) /\ S # {}
         /\ Cardinality(S) <= Len(Days(k))
         /\ Days(k)[Len(Days(k))] = Latest(S)
         /\ gaps \in Seq(Int) /\ Ascends(gaps)
         /\ Cardinality(Successive(S)) = Len(gaps) /\ Cardinality(S) = Len(gaps) + 1
         /\ \E c \in Bijection(DOMAIN gaps, Successive(S)) :
              \A n \in DOMAIN gaps : gaps[n] = c[n][2] - c[n][1]
<1> DEFINE d == Days(k)
           D == Len(d)
           G == Gaps(d)
<1>1. d \in Seq(Nat) /\ Ascends(d) /\ S = {d[n] : n \in DOMAIN d} /\ Len(d) > 0
  BY DaysArePaid
<1> HIDE DEF d
<1>2. D \in Nat /\ D > 0 /\ DOMAIN d = 1 .. D /\ \A n \in 1 .. D : d[n] \in Nat
  BY <1>1
<1>3. S \in SUBSET Nat /\ S # {} /\ D \in 1 .. D /\ d[D] \in S
  BY <1>1, <1>2
<1>4. IsFiniteSet(S) /\ Cardinality(S) <= D
  <2>1. d \in Surjection(1 .. D, S)
    BY <1>1, <1>2 DEF Surjection
  <2>2. IsFiniteSet(1 .. D) /\ Cardinality(1 .. D) = D
    BY <1>2, Upto
  <2>3. QED
    BY <2>1, <2>2, FS_Surjection
<1>5. d[D] = Latest(S)
  <2>1. Latest(S) \in S /\ d[D] <= Latest(S)
    BY <1>3, <1>4, LatestIs
  <2>2. PICK n \in 1 .. D : Latest(S) = d[n]
    BY <1>1, <1>2, <2>1
  <2>3. d[n] <= d[D]
    BY <1>1, <1>2 DEF Ascends
  <2>4. QED
    BY <1>2, <1>3, <2>1, <2>2, <2>3
<1>6. /\ G \in Seq(Int)
      /\ \E c \in Bijection(1 .. Len(G), Successive(S)) :
              \A n \in 1 .. Len(G) : G[n] = c[n][2] - c[n][1]
  BY <1>1, GapsAreIntervals
<1>7. gaps = Sorted(G)
  BY DEF d
<1> HIDE DEF G
<1>8. PICK c \in Bijection(1 .. Len(G), Successive(S)) :
         \A n \in 1 .. Len(G) : G[n] = c[n][2] - c[n][1]
  BY <1>6
<1>9. DOMAIN G = 1 .. Len(G) /\ Len(G) \in Nat
  BY <1>6
<1>10. /\ gaps \in Seq(Int) /\ DOMAIN gaps = 1 .. Len(G) /\ Len(gaps) = Len(G) /\ Ascends(gaps)
       /\ \E p \in Bijection(1 .. Len(G), 1 .. Len(G)) : \A n \in 1 .. Len(G) : gaps[n] = G[p[n]]
  BY <1>6, <1>7, <1>9, SortedOnce
<1>11. PICK p \in Bijection(1 .. Len(G), 1 .. Len(G)) : \A n \in 1 .. Len(G) : gaps[n] = G[p[n]]
  BY <1>10
<1> DEFINE e == [n \in 1 .. Len(G) |-> c[p[n]]]
<1>12. e \in Bijection(1 .. Len(G), Successive(S))
  BY BijectionChain
<1>13. \A n \in 1 .. Len(G) : gaps[n] = e[n][2] - e[n][1]
  <2>1. \A n \in 1 .. Len(G) : p[n] \in 1 .. Len(G)
    BY DEF Bijection, Injection
  <2>2. QED
    BY <1>8, <1>11, <2>1
<1> HIDE DEF e
<1>14. Cardinality(Successive(S)) = Len(G)
  <2>1. IsFiniteSet(1 .. Len(G)) /\ Cardinality(1 .. Len(G)) = Len(G)
    BY <1>9, Upto
  <2>2. QED
    BY <1>12, <2>1, BijectionCounts
<1>15. Cardinality(S) = Len(G) + 1
  BY <1>3, <1>4, <1>14, SuccessiveCount
<1>16. \E f \in Bijection(DOMAIN gaps, Successive(S)) :
              \A n \in DOMAIN gaps : gaps[n] = f[n][2] - f[n][1]
  BY <1>10, <1>12, <1>13
<1>17. QED
  BY <1>3, <1>4, <1>5, <1>10, <1>14, <1>15, <1>16 DEF d

\* What is reported, and what has to be.
LEMMA Reported ==
  ASSUME NEW k, NEW r \in Groups(k), NEW gaps, gaps = Sorted(Gaps(Days(k)))
  PROVE  /\ ~(Len(Days(k)) < MinOccurrences) /\ ~(Len(gaps) + 1 < MinOccurrences)
         /\ r.mid = median(gaps) /\ r.next = Days(k)[Len(Days(k))] + median(gaps)
         /\ \E c \in Cadences : /\ median(gaps) \in c.gaps
                                /\ Deviation(gaps, median(gaps)) <= Tolerance(c.expected)
<1>1. ~(Len(Days(k)) < MinOccurrences \/ Len(gaps) + 1 < MinOccurrences)
  BY DEF Groups
<1>2. PICK c \in Cadences :
        /\ median(gaps) \in c.gaps /\ Deviation(gaps, median(gaps)) <= Tolerance(c.expected)
        /\ r = [cadence |-> c.name, occurrences |-> Len(Days(k)), mid |-> median(gaps),
                mad |-> Deviation(gaps, median(gaps)), last |-> Days(k)[Len(Days(k))],
                next |-> Days(k)[Len(Days(k))] + median(gaps)]
  BY <1>1, Zenon DEF Groups
<1>3. r.mid = median(gaps) /\ r.next = Days(k)[Len(Days(k))] + median(gaps)
  BY <1>2
<1>4. QED
  BY <1>1, <1>2, <1>3

LEMMA MustReport ==
  ASSUME NEW k, NEW gaps, gaps = Sorted(Gaps(Days(k))), NEW c \in Cadences,
         ~(Len(Days(k)) < MinOccurrences), ~(Len(gaps) + 1 < MinOccurrences),
         median(gaps) \in c.gaps, Deviation(gaps, median(gaps)) <= Tolerance(c.expected)
  PROVE  \E r \in Groups(k) : /\ r.cadence = c.name
                              /\ r.next = Days(k)[Len(Days(k))] + median(gaps)
<1> DEFINE r == [cadence |-> c.name, occurrences |-> Len(Days(k)), mid |-> median(gaps),
                 mad |-> Deviation(gaps, median(gaps)), last |-> Days(k)[Len(Days(k))],
                 next |-> Days(k)[Len(Days(k))] + median(gaps)]
<1>1. r \in Groups(k)
  BY Zenon DEF Groups
<1>2. r.cadence = c.name /\ r.next = Days(k)[Len(Days(k))] + median(gaps)
  OBVIOUS
<1>3. QED
  BY <1>1, <1>2

LEMMA Enough ==
  ASSUME RowsInv, NEW n \in Nat
  PROVE  ~(n < MinOccurrences) <=> n >= 2 /\ n >= minimum
<1>1. minimum \in Nat
  BY ArgumentAssumption DEF RowsInv
<1>2. QED
  BY <1>1 DEF MinOccurrences

\* Deviations from g: none, but for one, or half of them at least small.
LEMMA DeviationsAre ==
  ASSUME NEW s \in Seq(Int), NEW g \in Int
  PROVE  /\ Deviations(s, g) \in Seq(Int) /\ DOMAIN Deviations(s, g) = DOMAIN s
         /\ Len(Deviations(s, g)) = Len(s)
         /\ \A n \in DOMAIN s : Deviations(s, g)[n] = Abs(s[n] - g)
         /\ \A n \in DOMAIN s : s[n] = g => Deviations(s, g)[n] = 0
<1>1. \A n \in DOMAIN s : Abs(s[n] - g) \in Int /\ (s[n] = g => Abs(s[n] - g) = 0)
  BY DEF Abs
<1>2. Deviations(s, g) = [n \in DOMAIN s |-> Abs(s[n] - g)]
  BY DEF Deviations
<1>3. DOMAIN s = 1 .. Len(s) /\ Len(s) \in Nat
  OBVIOUS
<1>4. QED
  BY <1>1, <1>2, <1>3

LEMMA DeviationOfEqual ==
  ASSUME NEW s \in Seq(Int), Len(s) > 0, NEW g \in Int, \A n \in DOMAIN s : s[n] = g
  PROVE  median(s) = g /\ Deviation(s, g) = 0
<1> DEFINE v == Deviations(s, g)
<1>1. v \in Seq(Int) /\ DOMAIN v = DOMAIN s /\ Len(v) = Len(s) /\ \A n \in DOMAIN v : v[n] = 0
  BY DeviationsAre
<1>2. Deviation(s, g) = median(Sorted(v))
  BY DEF Deviation
<1> HIDE DEF v
<1>3. /\ Sorted(v) \in Seq(Int) /\ DOMAIN Sorted(v) = DOMAIN v /\ Len(Sorted(v)) = Len(v)
      /\ \E p \in Bijection(DOMAIN v, DOMAIN v) : \A n \in DOMAIN v : Sorted(v)[n] = v[p[n]]
  BY <1>1, SortedOnce
<1>4. \A n \in DOMAIN Sorted(v) : Sorted(v)[n] = 0
  BY <1>1, <1>3 DEF Bijection, Injection
<1>5. median(Sorted(v)) = 0
  <2>1. Len(Sorted(v)) > 0 /\ 0 \in Int
    BY <1>1, <1>3
  <2>2. QED
    BY <1>3, <1>4, <2>1, MedianOfEqual
<1>6. QED
  BY <1>2, <1>5, MedianOfEqual

LEMMA DeviationOfMost ==
  ASSUME NEW s \in Seq(Int), Ascends(s), Len(s) >= 3, NEW g \in Int, NEW o \in DOMAIN s,
         \A n \in DOMAIN s : n # o => s[n] = g
  PROVE  median(s) = g /\ Deviation(s, g) = 0
<1> DEFINE v == Deviations(s, g)
<1>1. /\ v \in Seq(Int) /\ DOMAIN v = DOMAIN s /\ Len(v) = Len(s)
      /\ \A n \in DOMAIN v : n # o => v[n] = 0
  BY DeviationsAre
<1>2. Deviation(s, g) = median(Sorted(v))
  BY DEF Deviation
<1> HIDE DEF v
<1>3. /\ Sorted(v) \in Seq(Int) /\ DOMAIN Sorted(v) = DOMAIN v /\ Len(Sorted(v)) = Len(v)
      /\ Ascends(Sorted(v))
      /\ \E p \in Bijection(DOMAIN v, DOMAIN v) : \A n \in DOMAIN v : Sorted(v)[n] = v[p[n]]
  BY <1>1, SortedOnce
<1>4. PICK p \in Bijection(DOMAIN v, DOMAIN v) : \A n \in DOMAIN v : Sorted(v)[n] = v[p[n]]
  BY <1>3
<1>5. /\ \A n \in DOMAIN v : p[n] \in DOMAIN v
      /\ \A i \in DOMAIN v : \E n \in DOMAIN v : p[n] = i
      /\ \A m, n \in DOMAIN v : p[m] = p[n] => m = n
  BY DEF Bijection, Injection, IsInjective, Surjection
<1>6. PICK e \in DOMAIN v : p[e] = o
  BY <1>1, <1>5
<1>7. \A n \in DOMAIN Sorted(v) : n # e => Sorted(v)[n] = 0
  <2>1. TAKE n \in DOMAIN Sorted(v)
  <2>2. HAVE n # e
  <2>3. n \in DOMAIN v /\ p[n] \in DOMAIN v /\ p[n] # o
    BY <1>3, <1>5, <1>6, <2>2
  <2>4. QED
    BY <1>1, <1>4, <2>3
<1>8. Len(Sorted(v)) >= 3 /\ e \in DOMAIN Sorted(v) /\ 0 \in Int
  BY <1>1, <1>3
<1>9. median(Sorted(v)) = 0
  BY <1>3, <1>7, <1>8, MedianOfMost
<1>10. QED
  BY <1>2, <1>9, MedianOfMost

LEMMA DeviationHalves ==
  ASSUME NEW s \in Seq(Int), Len(s) > 0, NEW g \in Int
  PROVE  /\ Deviation(s, g) \in Int
         /\ 2 * Cardinality({n \in DOMAIN s : Abs(s[n] - g) <= Deviation(s, g)}) >= Len(s)
<1> DEFINE v == Deviations(s, g)
           w == Sorted(v)
           mad == Deviation(s, g)
           J == {n \in DOMAIN s : Abs(s[n] - g) <= mad}
<1>1. /\ v \in Seq(Int) /\ DOMAIN v = DOMAIN s /\ Len(v) = Len(s)
      /\ \A n \in DOMAIN s : v[n] = Abs(s[n] - g)
  BY DeviationsAre
<1>2. mad = median(w)
  BY DEF Deviation
<1> HIDE DEF v, mad
<1>3. /\ w \in Seq(Int) /\ DOMAIN w = DOMAIN v /\ Len(w) = Len(v) /\ Ascends(w)
      /\ \E p \in Bijection(DOMAIN v, DOMAIN v) : \A n \in DOMAIN v : w[n] = v[p[n]]
  BY <1>1, SortedOnce
<1> HIDE DEF w
<1>4. PICK p \in Bijection(DOMAIN v, DOMAIN v) : \A n \in DOMAIN v : w[n] = v[p[n]]
  BY <1>3
<1>5. \A n \in DOMAIN v : p[n] \in DOMAIN v
  BY DEF Bijection, Injection
<1>6. mad \in Int /\ 2 * Cardinality({n \in DOMAIN w : w[n] <= mad}) >= Len(w)
  <2>1. Len(w) > 0
    BY <1>1, <1>3
  <2>2. QED
    BY <1>2, <1>3, <2>1, MedianHalves
<1>7. {n \in DOMAIN w : w[n] <= mad} = {n \in DOMAIN v : p[n] \in J}
  BY <1>1, <1>3, <1>4, <1>5
<1>8. IsFiniteSet(DOMAIN v)
  <2>1. DOMAIN v = 1 .. Len(v) /\ Len(v) \in Nat
    BY <1>1
  <2>2. QED
    BY <2>1, Upto
<1>9. J \in SUBSET DOMAIN v
  BY <1>1
<1> HIDE DEF J
<1>10. /\ IsFiniteSet(J) /\ Cardinality({n \in DOMAIN v : p[n] \in J}) = Cardinality(J)
       /\ IsFiniteSet(DOMAIN v) /\ Cardinality(DOMAIN v) = Cardinality(DOMAIN v)
  BY <1>8, <1>9, BijectionCounts, Zenon
<1>11. 2 * Cardinality(J) >= Len(s)
  BY <1>1, <1>3, <1>6, <1>7, <1>10
<1>12. QED
  BY <1>6, <1>11 DEF J, mad

\* Every tolerance is at least two days; what is within one is within twenty
\* days and a third of any gap of its cadence.
LEMMA Tolerances ==
  ASSUME NEW c \in Cadences
  PROVE  /\ Tolerance(c.expected) \in Int /\ Tolerance(c.expected) >= 2
         /\ \A mid \in c.gaps : mid \in Int /\ mid > 0
         /\ \A mid \in c.gaps, off \in Int :
              off <= Tolerance(c.expected) => off <= 20 /\ 3 * off <= mid
<1>1. /\ Tolerance(7) = 2 /\ Tolerance(14) = 2 /\ Tolerance(30) = 6 /\ Tolerance(61) = 12
      /\ Tolerance(91) = 18 /\ Tolerance(182) = 20 /\ Tolerance(365) = 20
  BY DEF Tolerance
<1>2. \/ c.gaps = 6 .. 8 /\ c.expected = 7
      \/ c.gaps = 12 .. 16 /\ c.expected = 14
      \/ c.gaps = 26 .. 35 /\ c.expected = 30
      \/ c.gaps = 55 .. 70 /\ c.expected = 61
      \/ c.gaps = 80 .. 100 /\ c.expected = 91
      \/ c.gaps = 165 .. 200 /\ c.expected = 182
      \/ c.gaps = 330 .. 400 /\ c.expected = 365
  BY DEF Cadences
<1>3. QED
  BY <1>1, <1>2

LEMMA Regular == RowsInv => RegularReported
<1> SUFFICES ASSUME RowsInv, ComparesAsDay, NEW k \in Keys, NEW S, S = PaidOn(k),
                    NEW g \in Intervals(S), NEW c \in {c \in Cadences : g \in c.gaps},
                    Cardinality(S) >= 2, Cardinality(S) >= minimum, Intervals(S) = {g}
             PROVE  \E r \in Groups(k) : r.cadence = c.name /\ r.next = Latest(S) + g
  BY DEF RegularReported
<1> DEFINE d == Days(k)
           gaps == Sorted(Gaps(d))
<1>1. d \in Seq(Nat) /\ S = {d[n] : n \in DOMAIN d}
  BY DaysArePaid
<1>2. Len(d) > 0
  <2>1. Len(d) # 0
    <3>1. ASSUME Len(d) = 0 PROVE FALSE
      <4>1. DOMAIN d = {}
        BY <1>1, <3>1
      <4>2. S = {}
        BY <1>1, <4>1
      <4>3. QED
        BY <4>2, FS_EmptySet
    <3>2. QED
      BY <3>1
  <2>2. QED
    BY <1>1, <2>1
<1>3. /\ S \in SUBSET Nat /\ IsFiniteSet(S) /\ Cardinality(S) <= Len(d)
      /\ d[Len(d)] = Latest(S) /\ gaps \in Seq(Int) /\ Cardinality(S) = Len(gaps) + 1
      /\ \E b \in Bijection(DOMAIN gaps, Successive(S)) :
           \A n \in DOMAIN gaps : gaps[n] = b[n][2] - b[n][1]
  BY <1>2, GapsOfMerchant
<1>4. Len(d) \in Nat
  BY <1>1
<1> HIDE DEF d
<1>5. gaps = Sorted(Gaps(Days(k)))
  BY DEF d
<1> HIDE DEF gaps
<1>6. \A n \in DOMAIN gaps : gaps[n] = g
  <2>1. PICK b \in Bijection(DOMAIN gaps, Successive(S)) :
           \A n \in DOMAIN gaps : gaps[n] = b[n][2] - b[n][1]
    BY <1>3
  <2>2. \A n \in DOMAIN gaps : b[n] \in Successive(S)
    BY DEF Bijection, Injection
  <2>3. \A n \in DOMAIN gaps : gaps[n] \in Intervals(S)
    BY <2>1, <2>2 DEF Intervals
  <2>4. QED
    BY <2>3
<1>7. c \in Cadences /\ g \in c.gaps /\ g \in Int /\ Tolerance(c.expected) >= 2
      /\ Tolerance(c.expected) \in Int
  BY Tolerances
<1>8. Len(gaps) \in Nat /\ Len(gaps) > 0
  BY <1>3
<1>9. median(gaps) = g /\ Deviation(gaps, g) = 0
  BY <1>3, <1>6, <1>7, <1>8, DeviationOfEqual
<1>10. 0 <= Tolerance(c.expected)
  BY <1>7
<1>11. Cardinality(S) \in Nat /\ Cardinality(S) = Len(gaps) + 1
  BY <1>3, FS_CardinalityType
<1>12. minimum \in Nat
  BY ArgumentAssumption DEF RowsInv
<1>13. /\ Len(d) >= 2 /\ Len(d) >= minimum
       /\ Len(gaps) + 1 >= 2 /\ Len(gaps) + 1 >= minimum /\ Len(gaps) + 1 \in Nat
  BY <1>3, <1>4, <1>11, <1>12
<1>14. ~(Len(d) < MinOccurrences) /\ ~(Len(gaps) + 1 < MinOccurrences)
  BY <1>4, <1>13, Enough
<1>15. \E r \in Groups(k) : r.cadence = c.name /\ r.next = d[Len(d)] + median(gaps)
  BY <1>5, <1>7, <1>9, <1>10, <1>14, MustReport DEF d
<1>16. QED
  BY <1>3, <1>9, <1>15

\* A merchant paid at a fixed interval of a cadence is reported, whatever rows
\* the mirror holds and however they are spread over it, for any account and
\* any date_from whose text compares as its day (Recurring!RegularReported).
THEOREM RegularIsReported == Spec => []RegularReported
<1>1. QED
  BY RowsInit, RowsStep, Regular, PTL DEF Spec

LEMMA Outlier == RowsInv => OneOutlierTolerated
<1> SUFFICES ASSUME RowsInv, ComparesAsDay, NEW k \in Keys, NEW S, S = PaidOn(k),
                    NEW g \in Intervals(S), NEW c \in {c \in Cadences : g \in c.gaps},
                    Cardinality(S) >= 4, Cardinality(S) >= minimum,
                    Cardinality({p \in Successive(S) : p[2] - p[1] # g}) = 1
             PROVE  \E r \in Groups(k) : r.cadence = c.name
  BY DEF OneOutlierTolerated
<1> DEFINE d == Days(k)
           gaps == Sorted(Gaps(d))
           Off == {p \in Successive(S) : p[2] - p[1] # g}
<1>1. d \in Seq(Nat) /\ S = {d[n] : n \in DOMAIN d}
  BY DaysArePaid
<1>2. Len(d) > 0
  <2>1. ASSUME Len(d) = 0 PROVE FALSE
    <3>1. DOMAIN d = {}
      BY <1>1, <2>1
    <3>2. S = {}
      BY <1>1, <3>1
    <3>3. QED
      BY <3>2, FS_EmptySet
  <2>2. QED
    BY <1>1, <2>1
<1>3. /\ S \in SUBSET Nat /\ IsFiniteSet(S) /\ Cardinality(S) <= Len(d) /\ S # {}
      /\ gaps \in Seq(Int) /\ Ascends(gaps) /\ Cardinality(S) = Len(gaps) + 1
      /\ \E b \in Bijection(DOMAIN gaps, Successive(S)) :
           \A n \in DOMAIN gaps : gaps[n] = b[n][2] - b[n][1]
  BY <1>2, GapsOfMerchant
<1>4. Len(d) \in Nat
  BY <1>1
<1> HIDE DEF d
<1>5. gaps = Sorted(Gaps(Days(k)))
  BY DEF d
<1> HIDE DEF gaps
<1>6. PICK b \in Bijection(DOMAIN gaps, Successive(S)) :
           \A n \in DOMAIN gaps : gaps[n] = b[n][2] - b[n][1]
  BY <1>3
<1>7. /\ \A n \in DOMAIN gaps : b[n] \in Successive(S)
      /\ \A p \in Successive(S) : \E n \in DOMAIN gaps : b[n] = p
      /\ \A m, n \in DOMAIN gaps : b[m] = b[n] => m = n
  BY DEF Bijection, Injection, IsInjective, Surjection
<1>8. PICK q : Off = {q}
  <2>1. IsFiniteSet(Successive(S))
    BY <1>3, SuccessiveCount
  <2>2. IsFiniteSet(Off) /\ Cardinality(Off) = 1
    BY <2>1, FS_Subset
  <2> HIDE DEF Off
  <2>3. QED
    BY <2>2, FS_Singleton
<1>9. PICK o \in DOMAIN gaps : b[o] = q
  <2>1. q \in Successive(S)
    BY <1>8
  <2>2. QED
    BY <1>7, <2>1
<1>10. \A n \in DOMAIN gaps : n # o => gaps[n] = g
  <2>1. ASSUME NEW n \in DOMAIN gaps, n # o PROVE gaps[n] = g
    <3>1. b[n] \in Successive(S) /\ b[n] # q
      BY <1>7, <1>9, <2>1
    <3>2. b[n] \notin Off
      BY <1>8, <3>1
    <3>3. b[n][2] - b[n][1] = g
      BY <3>1, <3>2
    <3>4. QED
      BY <1>6, <3>3
  <2>2. QED
    BY <2>1
<1>11. c \in Cadences /\ g \in c.gaps /\ g \in Int /\ Tolerance(c.expected) >= 2
      /\ Tolerance(c.expected) \in Int
  BY Tolerances
<1>12. Len(gaps) \in Nat /\ Len(gaps) >= 3
  BY <1>3
<1>13. median(gaps) = g /\ Deviation(gaps, g) = 0
  BY <1>3, <1>10, <1>11, <1>12, DeviationOfMost
<1>14. 0 <= Tolerance(c.expected)
  BY <1>11
<1>15. minimum \in Nat
  BY ArgumentAssumption DEF RowsInv
<1>16. /\ Len(d) >= 2 /\ Len(d) >= minimum
       /\ Len(gaps) + 1 >= 2 /\ Len(gaps) + 1 >= minimum /\ Len(gaps) + 1 \in Nat
  BY <1>3, <1>4, <1>12, <1>15
<1>17. ~(Len(d) < MinOccurrences) /\ ~(Len(gaps) + 1 < MinOccurrences)
  BY <1>4, <1>16, Enough
<1>18. \E r \in Groups(k) : r.cadence = c.name /\ r.next = d[Len(d)] + median(gaps)
  BY <1>5, <1>11, <1>13, <1>14, <1>17, MustReport DEF d
<1>19. QED
  BY <1>18

\* One irregular payment among three intervals or more does not hide a
\* cadence, however many rows there are, where date_from compares as its day
\* (Recurring!OneOutlierTolerated).
THEOREM OutlierIsTolerated == Spec => []OneOutlierTolerated
<1>1. QED
  BY RowsInit, RowsStep, Outlier, PTL DEF Spec

LEMMA IsRegular == RowsInv => ReportedIsRegular
<1> SUFFICES ASSUME RowsInv, ComparesAsDay, NEW k \in Keys, NEW r \in Groups(k), NEW S, S = PaidOn(k),
                    NEW near, near = {p \in Successive(S) :
                      Abs(p[2] - p[1] - r.mid) <= 20 /\ 3 * Abs(p[2] - p[1] - r.mid) <= r.mid}
             PROVE  /\ Cardinality(S) >= 2 /\ Cardinality(S) >= minimum
                    /\ 2 * Cardinality(near) >= Cardinality(Successive(S))
                    /\ r.next > Latest(S)
  BY Zenon DEF ReportedIsRegular
<1> DEFINE d == Days(k)
           gaps == Sorted(Gaps(d))
           mid == median(gaps)
           mad == Deviation(gaps, mid)
<1>1. gaps = Sorted(Gaps(Days(k)))
  OBVIOUS
<1>2. /\ ~(Len(d) < MinOccurrences) /\ ~(Len(gaps) + 1 < MinOccurrences)
      /\ r.mid = mid /\ r.next = d[Len(d)] + mid
      /\ \E c \in Cadences : mid \in c.gaps /\ mad <= Tolerance(c.expected)
  BY <1>1, Reported
<1>3. d \in Seq(Nat)
  BY DaysArePaid
<1>4. Len(d) \in Nat /\ Len(d) > 0
  BY <1>2, <1>3, Enough
<1>5. /\ S \in SUBSET Nat /\ IsFiniteSet(S) /\ S # {}
      /\ d[Len(d)] = Latest(S) /\ gaps \in Seq(Int)
      /\ Cardinality(Successive(S)) = Len(gaps) /\ Cardinality(S) = Len(gaps) + 1
      /\ \E b \in Bijection(DOMAIN gaps, Successive(S)) :
           \A n \in DOMAIN gaps : gaps[n] = b[n][2] - b[n][1]
  BY <1>4, GapsOfMerchant
<1> HIDE DEF d, gaps
<1>6. Len(gaps) \in Nat /\ Len(gaps) + 1 \in Nat
  BY <1>5
<1>7. Cardinality(S) >= 2 /\ Cardinality(S) >= minimum /\ Len(gaps) > 0
  BY <1>2, <1>5, <1>6, Enough
<1> HIDE DEF mid
<1>8. PICK c \in Cadences : mid \in c.gaps /\ mad <= Tolerance(c.expected)
  BY <1>2
<1> HIDE DEF mad
<1>9. /\ mid \in Int /\ mid > 0
      /\ Tolerance(c.expected) \in Int
      /\ \A off \in Int : off <= Tolerance(c.expected) => off <= 20 /\ 3 * off <= mid
  BY <1>8, Tolerances
<1>10. r.next > Latest(S)
  <2>1. Latest(S) \in Nat
    BY <1>5, LatestIs
  <2>2. QED
    BY <1>2, <1>5, <1>9, <2>1
<1> DEFINE J == {n \in DOMAIN gaps : Abs(gaps[n] - mid) <= mad}
<1>11. mad \in Int /\ 2 * Cardinality(J) >= Len(gaps)
  BY <1>5, <1>7, <1>9, DeviationHalves DEF mad
<1>12. PICK b \in Bijection(DOMAIN gaps, Successive(S)) :
           \A n \in DOMAIN gaps : gaps[n] = b[n][2] - b[n][1]
  BY <1>5
<1> DEFINE K == {n \in DOMAIN gaps : b[n] \in near}
<1>13. \A n \in DOMAIN gaps : b[n] \in Successive(S) /\ gaps[n] \in Int
  BY <1>5 DEF Bijection, Injection
<1>14. J \in SUBSET K
  <2>1. ASSUME NEW n \in J PROVE n \in K
    <3>1. n \in DOMAIN gaps /\ Abs(gaps[n] - mid) <= mad /\ gaps[n] \in Int
      BY <1>13
    <3>2. Abs(gaps[n] - mid) \in Int
      BY <1>9, <3>1 DEF Abs
    <3>3. Abs(gaps[n] - mid) <= Tolerance(c.expected)
      BY <1>8, <1>9, <1>11, <3>1, <3>2
    <3>4. Abs(gaps[n] - mid) <= 20 /\ 3 * Abs(gaps[n] - mid) <= mid
      BY <1>9, <3>2, <3>3
    <3>5. gaps[n] = b[n][2] - b[n][1] /\ b[n] \in Successive(S) /\ r.mid = mid
      BY <1>2, <1>12, <1>13, <3>1
    <3>6. b[n] \in near
      BY <3>4, <3>5
    <3>7. QED
      BY <3>1, <3>6
  <2>2. QED
    BY <2>1
<1>15. IsFiniteSet(DOMAIN gaps)
  <2>1. DOMAIN gaps = 1 .. Len(gaps)
    BY <1>5
  <2>2. QED
    BY <1>6, <2>1, Upto
<1>16. near \in SUBSET Successive(S)
  OBVIOUS
<1>17. IsFiniteSet(near) /\ Cardinality(K) = Cardinality(near)
  <2>1. \A T \in SUBSET Successive(S) :
          IsFiniteSet(T) /\ Cardinality({n \in DOMAIN gaps : b[n] \in T}) = Cardinality(T)
    <3>1. ASSUME NEW A, NEW B, IsFiniteSet(A), NEW f \in Bijection(A, B)
          PROVE  \A T \in SUBSET B :
                   IsFiniteSet(T) /\ Cardinality({n \in A : f[n] \in T}) = Cardinality(T)
      BY <3>1, BijectionCounts
    <3>2. QED
      BY <1>15, <3>1
  <2>2. QED
    BY <1>16, <2>1
<1>18. IsFiniteSet(K)
  BY <1>15, FS_Subset
<1> HIDE DEF J, K
<1>19. Cardinality(J) <= Cardinality(K) /\ Cardinality(J) \in Nat /\ Cardinality(K) \in Nat
  BY <1>14, <1>18, FS_Subset, FS_CardinalityType
<1>20. 2 * Cardinality(near) >= Cardinality(Successive(S))
  BY <1>5, <1>6, <1>11, <1>17, <1>19 DEF K
<1>21. QED
  BY <1>7, <1>10, <1>20

\* What is reported has its days and its intervals to show for it, whatever
\* rows the mirror holds, where date_from compares as its day
\* (Recurring!ReportedIsRegular).
THEOREM ReportsAreRegular == Spec => []ReportedIsRegular
<1>1. QED
  BY RowsInit, RowsStep, IsRegular, PTL DEF Spec

-----------------------------------------------------------------------------
(***************************************************************************)
(* Counting.  A tally of rows has one entry for each class of them, and    *)
(* the entry says how many they are.                                       *)
(***************************************************************************)
OfClass(rows, class, c) == {n \in rows : class[n] = c}

IsTally(found, rows, class) ==
  /\ \A e \in found : /\ \E n \in rows : class[n] = e.what
                      /\ e.count = Cardinality(OfClass(rows, class, e.what))
  /\ \A n \in rows : \E e \in found : e.what = class[n]
  /\ \A e, f \in found : e.what = f.what => e = f

LEMMA TallyFinite ==
  ASSUME NEW rows, IsFiniteSet(rows), NEW class, NEW found, IsTally(found, rows, class)
  PROVE  /\ IsFiniteSet(found) /\ Cardinality(found) \in Nat
         /\ found = {} <=> rows = {}
         /\ \A e \in found : e.count \in Nat
<1> DEFINE f == [n \in rows |-> CHOOSE e \in found : e.what = class[n]]
<1>1. \A n \in rows : f[n] \in found /\ f[n].what = class[n]
  BY DEF IsTally
<1>2. f \in [rows -> found]
  BY <1>1
<1> HIDE DEF f
<1>3. \A e \in found : \E n \in rows : f[n] = e
  BY <1>1 DEF IsTally
<1>4. f \in Surjection(rows, found)
  BY <1>2, <1>3 DEF Surjection
<1>5. IsFiniteSet(found) /\ Cardinality(found) \in Nat
  BY <1>4, FS_Surjection, FS_CardinalityType
<1>6. \A e \in found : IsFiniteSet(OfClass(rows, class, e.what))
  <2>1. \A c : OfClass(rows, class, c) \in SUBSET rows
    BY DEF OfClass
  <2>2. QED
    BY <2>1, FS_Subset
<1>7. \A e \in found : e.count \in Nat
  BY <1>6, FS_CardinalityType DEF IsTally
<1>8. found = {} <=> rows = {}
  BY DEF IsTally
<1>9. QED
  BY <1>5, <1>7, <1>8

\* A tally listed once adds up to the rows.
LEMMA TallyTotal ==
  ASSUME NEW rows, IsFiniteSet(rows), NEW class, NEW found, IsTally(found, rows, class),
         NEW N, NEW s \in Bijection(1 .. N, found)
  PROVE  Total(s) = Cardinality(rows)
<1> DEFINE In(k) == OfClass(rows, class, s[k].what)
           P == UNION {{k} \X (1 .. s[k].count) : k \in DOMAIN s}
           K == [n \in rows |-> CHOOSE k \in 1 .. N : s[k].what = class[n]]
           F == [k \in 1 .. N |-> CHOOSE f : f \in Bijection(In(k), 1 .. s[k].count)]
           g == [n \in rows |-> <<K[n], F[K[n]][n]>>]
<1>1. /\ DOMAIN s = 1 .. N /\ \A k \in 1 .. N : s[k] \in found
      /\ \A e \in found : \E k \in 1 .. N : s[k] = e
      /\ \A k, l \in 1 .. N : s[k] = s[l] => k = l
  BY DEF Bijection, Injection, IsInjective, Surjection
<1>2. \A n \in rows : K[n] \in 1 .. N /\ s[K[n]].what = class[n]
  <2>1. ASSUME NEW n \in rows PROVE \E k \in 1 .. N : s[k].what = class[n]
    <3>1. PICK e \in found : e.what = class[n]
      BY DEF IsTally
    <3>2. QED
      BY <1>1, <3>1
  <2>2. QED
    BY <2>1
<1>3. \A k, l \in 1 .. N : s[k].what = s[l].what => k = l
  <2>1. ASSUME NEW k \in 1 .. N, NEW l \in 1 .. N, s[k].what = s[l].what PROVE k = l
    <3>1. s[k] \in found /\ s[l] \in found
      BY <1>1
    <3>2. s[k] = s[l]
      BY <2>1, <3>1 DEF IsTally
    <3>3. QED
      BY <1>1, <3>2
  <2>2. QED
    BY <2>1
<1>4. ASSUME NEW k \in 1 .. N
      PROVE  /\ F[k] \in [In(k) -> 1 .. s[k].count]
             /\ \A a, b \in In(k) : F[k][a] = F[k][b] => a = b
             /\ \A i \in 1 .. s[k].count : \E a \in In(k) : F[k][a] = i
  <2>1. In(k) \in SUBSET rows
    BY DEF OfClass
  <2>2. IsFiniteSet(In(k)) /\ s[k].count = Cardinality(In(k)) /\ s[k].count \in Nat
    BY <1>1, <2>1, FS_Subset, FS_CardinalityType DEF IsTally
  <2>3. IsFiniteSet(1 .. s[k].count) /\ Cardinality(1 .. s[k].count) = s[k].count
    BY <2>2, Upto
  <2>4. \E f : f \in Bijection(In(k), 1 .. s[k].count)
    BY <2>2, <2>3, FS_SameCardinalityBij DEF ExistsBijection
  <2>5. F[k] \in Bijection(In(k), 1 .. s[k].count)
    BY <2>4
  <2> HIDE DEF F
  <2>6. QED
    BY <2>5 DEF Bijection, Injection, IsInjective, Surjection
<1>5. ASSUME NEW n \in rows, NEW k \in 1 .. N, s[k].what = class[n] PROVE K[n] = k
  BY <1>2, <1>3, <1>5
<1>6. \A n \in rows : n \in In(K[n])
  BY <1>2 DEF OfClass
<1>7. \A k \in 1 .. N : \A n \in In(k) : n \in rows /\ K[n] = k
  BY <1>5 DEF OfClass
<1> HIDE DEF K, F, In
<1>8. \A n \in rows : g[n] = <<K[n], F[K[n]][n]>> /\ F[K[n]][n] \in 1 .. s[K[n]].count
  BY <1>2, <1>4, <1>6
<1>9. \A n \in rows : g[n] \in P
  BY <1>1, <1>2, <1>8
<1>10. g \in [rows -> P]
  BY <1>9
<1> HIDE DEF g
<1>11. ASSUME NEW a \in rows, NEW b \in rows, g[a] = g[b] PROVE a = b
  <2>1. K[a] = K[b] /\ F[K[a]][a] = F[K[b]][b]
    BY <1>8, <1>11
  <2>2. a \in In(K[a]) /\ b \in In(K[a]) /\ K[a] \in 1 .. N
    BY <1>2, <1>6, <2>1
  <2>3. QED
    BY <1>4, <2>1, <2>2
<1>12. ASSUME NEW p \in P PROVE \E n \in rows : g[n] = p
  <2>1. PICK k \in 1 .. N : p \in {k} \X (1 .. s[k].count)
    BY <1>1
  <2>2. p = <<k, p[2]>> /\ p[2] \in 1 .. s[k].count
    BY <2>1
  <2>3. PICK n \in In(k) : F[k][n] = p[2]
    BY <1>4, <2>2
  <2>4. n \in rows /\ K[n] = k
    BY <1>7
  <2>5. QED
    BY <1>8, <2>2, <2>3, <2>4
<1>13. g \in Bijection(rows, P)
  BY <1>10, <1>11, <1>12 DEF Bijection, Injection, IsInjective, Surjection
<1>14. Cardinality(P) = Cardinality(rows)
  BY <1>13, BijectionCounts
<1>15. QED
  BY <1>14 DEF Total

\* What a tool answers: a listing of the tally, best first, or its beginning.
LEMMA AnswersAre ==
  ASSUME NEW found, IsFiniteSet(found), NEW limit \in Nat, NEW s \in Answers(found, limit)
  PROVE  \E full \in Bijection(1 .. Cardinality(found), found) :
           /\ \A i, j \in 1 .. Cardinality(found) : i < j => ~Beats(full[j], full[i])
           /\ Len(s) \in Nat /\ DOMAIN s = 1 .. Len(s) /\ Len(s) <= Cardinality(found)
           /\ \A n \in DOMAIN s : s[n] = full[n]
           /\ s = <<>> <=> found = {}
           /\ limit = MaxListed /\ Len(s) < MaxListed => s = full
<1> DEFINE N == Cardinality(found)
<1>1. N \in Nat
  BY FS_CardinalityType
<1>2. PICK full \in Orders(found) : s = SubSeq(full, 1, Cut(Len(full), limit))
  BY DEF Answers
<1>3. /\ full \in [1 .. N -> found]
      /\ \A i, j \in 1 .. N : i < j => full[i] # full[j] /\ ~Beats(full[j], full[i])
  BY DEF Orders
<1> HIDE DEF N
<1>4. Len(full) = N /\ full \in Seq(found)
  BY <1>1, <1>3
<1> DEFINE C == Cut(N, limit)
<1>5. /\ C \in Nat /\ C <= N /\ (C = 0 <=> N = 0)
      /\ limit = MaxListed /\ C < MaxListed => C = N
  BY <1>1, LimitAssumption DEF Cut
<1> HIDE DEF C
<1>6. s = SubSeq(full, 1, C)
  BY <1>2, <1>4 DEF C
<1>7. s = [n \in 1 .. C |-> full[n]]
  BY <1>1, <1>3, <1>4, <1>5, <1>6
<1>8. Len(s) = C /\ DOMAIN s = 1 .. C /\ \A n \in 1 .. C : s[n] = full[n]
  BY <1>5, <1>7
<1>9. ASSUME C = N PROVE s = full
  BY <1>3, <1>7, <1>9
<1>10. s = <<>> <=> found = {}
  <2>1. s = <<>> <=> C = 0
    BY <1>5, <1>7, <1>8
  <2>2. N = 0 <=> found = {}
    BY FS_EmptySet DEF N
  <2>3. QED
    BY <1>5, <2>1, <2>2
<1>11. full \in Bijection(1 .. N, found)
  <2>1. \A i, j \in 1 .. N : full[i] = full[j] => i = j
    <3>1. ASSUME NEW i \in 1 .. N, NEW j \in 1 .. N, full[i] = full[j] PROVE i = j
      <4>1. ~(i < j) /\ ~(j < i)
        BY <1>3, <3>1
      <4>2. QED
        BY <1>1, <4>1
    <3>2. QED
      BY <3>1
  <2>2. full \in Injection(1 .. N, found)
    BY <1>3, <2>1 DEF Injection, IsInjective
  <2>3. Cardinality(1 .. N) = Cardinality(found)
    BY <1>1, Upto DEF N
  <2>4. full \in Surjection(1 .. N, found)
    BY <2>2, <2>3, FS_Injection
  <2>5. QED
    BY <2>2, <2>4 DEF Bijection
<1>12. QED
  BY <1>3, <1>5, <1>8, <1>9, <1>10, <1>11 DEF N

-----------------------------------------------------------------------------
(***************************************************************************)
(* The rows the tools count are those that show the merchant.              *)
(***************************************************************************)
MerchantRows(text) == {n \in Live(FALSE) : contains(merchant_of(txns[n]), text)}
CategoryRows(text, mode) == {n \in Live(FALSE) : Hit(txns[n], text, mode) /\ HasCoa(txns[n])}
Uncategorized(text, mode) == {n \in Shown(text, mode) : ~HasCoa(txns[n])}

LEMMA NamesAre ==
  ASSUME RowsInv, NEW n \in DOMAIN txns, merchant_of(txns[n]) # None
  PROVE  merchant_of(txns[n]) = [key |-> merchant_of(txns[n]).key, noise |-> merchant_of(txns[n]).noise]
<1>1. txns[n] \in Txn
  BY DEF RowsInv
<1>2. merchant_of(txns[n]) \in {txns[n].renamed, txns[n].payee, txns[n].inferred} \ {None}
  BY DEF merchant_of
<1>3. IsName(merchant_of(txns[n]))
  BY <1>1, <1>2, NameAssumption, Zenon
<1>4. QED
  BY <1>3 DEF IsName

LEMMA HitShown ==
  ASSUME RowsInv, NEW text \in Text, NEW mode \in MatchMode,
         NEW n \in DOMAIN txns, merchant_of(txns[n]) # None
  PROVE  Hit(txns[n], text, mode) <=>
           /\ merchant_of(txns[n]).key = text.key
           /\ \/ merchant_of(txns[n]).noise = text.noise
              \/ mode = "contains" /\ text.noise = None
<1> DEFINE name == merchant_of(txns[n])
<1>1. name = [key |-> name.key, noise |-> name.noise]
  BY NamesAre
<1>2. text = [key |-> text.key, noise |-> text.noise]
  BY NameAssumption, Zenon DEF IsName
<1> HIDE DEF name
<1>3. name = text <=> name.key = text.key /\ name.noise = text.noise
  BY <1>1, <1>2
<1>4. mode = "exact" \/ mode = "contains"
  BY DEF MatchMode
<1>5. CASE mode = "exact"
  <2>1. Hit(txns[n], text, mode) <=> name = text
    BY <1>5 DEF Hit, name
  <2>2. mode # "contains"
    BY <1>5
  <2>3. QED
    BY <1>3, <2>1, <2>2 DEF name
<1>6. CASE mode = "contains"
  <2>1. mode # "exact"
    BY <1>6
  <2>2. Hit(txns[n], text, mode) <=> contains(name, text)
    BY <2>1 DEF Hit, name
  <2>3. QED
    BY <1>6, <2>2 DEF contains, name
<1>7. QED
  BY <1>4, <1>5, <1>6

LEMMA LiveShown ==
  ASSUME NEW n
  PROVE  n \in Live(FALSE) <=> /\ n \in DOMAIN txns /\ ~txns[n].deleted
                               /\ merchant_of(txns[n]) # None
  BY DEF Live

LEMMA ShownBy ==
  ASSUME NEW text, NEW mode, NEW n
  PROVE  n \in Shown(text, mode) <=>
           /\ n \in DOMAIN txns /\ ~txns[n].deleted /\ merchant_of(txns[n]) # None
           /\ merchant_of(txns[n]).key = text.key
           /\ \/ merchant_of(txns[n]).noise = text.noise
              \/ mode = "contains" /\ text.noise = None
<1>1. n \in DOMAIN txns => merchant_of(txns[n]) = Called(txns[n])
  BY DEF merchant_of, Called
<1>2. QED
  BY <1>1 DEF Shown

LEMMA CategoryRowsShown ==
  ASSUME RowsInv, NEW text \in Text, NEW mode \in MatchMode
  PROVE  CategoryRows(text, mode) = {n \in Shown(text, mode) : HasCoa(txns[n])}
<1>1. ASSUME NEW n
      PROVE  n \in CategoryRows(text, mode) <=> n \in Shown(text, mode) /\ HasCoa(txns[n])
  <2>1. n \in CategoryRows(text, mode) <=>
          n \in Live(FALSE) /\ Hit(txns[n], text, mode) /\ HasCoa(txns[n])
    BY DEF CategoryRows
  <2>2. n \in Live(FALSE) <=> n \in DOMAIN txns /\ ~txns[n].deleted /\ merchant_of(txns[n]) # None
    BY LiveShown
  <2>3. n \in Shown(text, mode) <=>
           /\ n \in DOMAIN txns /\ ~txns[n].deleted /\ merchant_of(txns[n]) # None
           /\ merchant_of(txns[n]).key = text.key
           /\ \/ merchant_of(txns[n]).noise = text.noise
              \/ mode = "contains" /\ text.noise = None
    BY ShownBy
  <2>4. ASSUME n \in DOMAIN txns, merchant_of(txns[n]) # None
        PROVE  Hit(txns[n], text, mode) <=>
                 /\ merchant_of(txns[n]).key = text.key
                 /\ \/ merchant_of(txns[n]).noise = text.noise
                    \/ mode = "contains" /\ text.noise = None
    BY <2>4, HitShown
  <2>5. QED
    BY <2>1, <2>2, <2>3, <2>4
<1>2. QED
  BY <1>1

LEMMA MerchantRowsShown ==
  ASSUME RowsInv, NEW text \in Text
  PROVE  MerchantRows(text) = Shown(text, "contains")
<1>1. "contains" \in MatchMode
  BY DEF MatchMode
<1>2. ASSUME NEW n PROVE n \in MerchantRows(text) <=> n \in Shown(text, "contains")
  <2>1. n \in MerchantRows(text) <=> n \in Live(FALSE) /\ contains(merchant_of(txns[n]), text)
    BY DEF MerchantRows
  <2>2. contains(merchant_of(txns[n]), text) <=> Hit(txns[n], text, "contains")
    BY DEF Hit
  <2>3. n \in Live(FALSE) <=> n \in DOMAIN txns /\ ~txns[n].deleted /\ merchant_of(txns[n]) # None
    BY LiveShown
  <2>4. n \in Shown(text, "contains") <=>
           /\ n \in DOMAIN txns /\ ~txns[n].deleted /\ merchant_of(txns[n]) # None
           /\ merchant_of(txns[n]).key = text.key
           /\ \/ merchant_of(txns[n]).noise = text.noise
              \/ "contains" = "contains" /\ text.noise = None
    BY ShownBy
  <2>5. ASSUME n \in DOMAIN txns, merchant_of(txns[n]) # None
        PROVE  Hit(txns[n], text, "contains") <=>
                 /\ merchant_of(txns[n]).key = text.key
                 /\ \/ merchant_of(txns[n]).noise = text.noise
                    \/ "contains" = "contains" /\ text.noise = None
    BY <1>1, <2>5, HitShown
  <2>6. QED
    BY <2>1, <2>2, <2>3, <2>4, <2>5
<1>3. QED
  BY <1>2

LEMMA ShownFinite ==
  ASSUME RowsInv, NEW text, NEW mode, NEW R \in SUBSET Shown(text, mode)
  PROVE  IsFiniteSet(Shown(text, mode)) /\ IsFiniteSet(R) /\ Cardinality(R) \in Nat
<1>1. DOMAIN txns = 1 .. Len(txns) /\ Len(txns) \in Nat
  BY DEF RowsInv
<1>2. IsFiniteSet(DOMAIN txns)
  BY <1>1, Upto
<1>3. Shown(text, mode) \in SUBSET DOMAIN txns
  BY DEF Shown
<1>4. IsFiniteSet(Shown(text, mode))
  BY <1>2, <1>3, FS_Subset
<1>5. QED
  BY <1>4, FS_Subset, FS_CardinalityType

\* What each tool lists is a tally of those rows.
LEMMA CategoryTally ==
  ASSUME NEW text, NEW mode, NEW limit, NEW s \in suggest_categories(text, mode, limit),
         NEW rows, rows = CategoryRows(text, mode)
  PROVE  \E found : s \in Answers(found, limit) /\ IsTally(found, rows, [n \in rows |-> txns[n].coa])
<1> DEFINE class == [n \in rows |-> txns[n].coa]
           entry(c) == [what |-> c, rank |-> IdRank[c.id],
                        count |-> Cardinality({n \in rows : txns[n].coa = c})]
           found == {entry(c) : c \in {txns[n].coa : n \in rows}}
<1>1. s \in Answers(found, limit)
  BY DEF suggest_categories, CategoryRows
<1>2. \A c : {n \in rows : txns[n].coa = c} = OfClass(rows, class, c)
  BY DEF OfClass
<1>3. \A c : entry(c).what = c /\ entry(c).count = Cardinality({n \in rows : txns[n].coa = c})
  OBVIOUS
<1> HIDE DEF entry
<1>4. \A e \in found : \E n \in rows : e = entry(txns[n].coa)
  OBVIOUS
<1>5. \A n \in rows : entry(txns[n].coa) \in found
  OBVIOUS
<1> HIDE DEF found
<1>6. \A e \in found : /\ \E n \in rows : class[n] = e.what
                       /\ e.count = Cardinality(OfClass(rows, class, e.what))
                       /\ e = entry(e.what)
  BY <1>2, <1>3, <1>4
<1>7. \A n \in rows : \E e \in found : e.what = class[n]
  BY <1>3, <1>5
<1>8. \A e, f \in found : e.what = f.what => e = f
  BY <1>6
<1> HIDE DEF class
<1>9. IsTally(found, rows, class)
  BY <1>6, <1>7, <1>8 DEF IsTally
<1>10. QED
  BY <1>1, <1>9 DEF class

LEMMA MerchantTally ==
  ASSUME NEW text, NEW limit, NEW s \in aggregate_merchants(text, limit, FALSE),
         NEW rows, rows = MerchantRows(text)
  PROVE  \E found : /\ s \in Answers(found, limit)
                    /\ IsTally(found, rows, [n \in rows |-> merchant_of(txns[n])])
<1> DEFINE class == [n \in rows |-> merchant_of(txns[n])]
           entry(c) == [what |-> c, rank |-> NameRank[c],
                        count |-> Cardinality({n \in rows : merchant_of(txns[n]) = c})]
           found == {entry(c) : c \in {merchant_of(txns[n]) : n \in rows}}
<1>1. s \in Answers(found, limit)
  BY DEF aggregate_merchants, MerchantRows
<1>2. \A c : {n \in rows : merchant_of(txns[n]) = c} = OfClass(rows, class, c)
  BY DEF OfClass
<1>3. \A c : /\ entry(c).what = c
             /\ entry(c).count = Cardinality({n \in rows : merchant_of(txns[n]) = c})
  OBVIOUS
<1> HIDE DEF entry
<1>4. \A e \in found : \E n \in rows : e = entry(merchant_of(txns[n]))
  OBVIOUS
<1>5. \A n \in rows : entry(merchant_of(txns[n])) \in found
  OBVIOUS
<1> HIDE DEF found
<1>6. \A e \in found : /\ \E n \in rows : class[n] = e.what
                       /\ e.count = Cardinality(OfClass(rows, class, e.what))
                       /\ e = entry(e.what)
  BY <1>2, <1>3, <1>4
<1>7. \A n \in rows : \E e \in found : e.what = class[n]
  BY <1>3, <1>5
<1>8. \A e, f \in found : e.what = f.what => e = f
  BY <1>6
<1> HIDE DEF class
<1>9. IsTally(found, rows, class)
  BY <1>6, <1>7, <1>8 DEF IsTally
<1>10. QED
  BY <1>1, <1>9 DEF class

LEMMA Suggestions ==
  ASSUME RowsInv, NEW text \in Text, NEW mode \in MatchMode, NEW limit \in Limit
  PROVE  SuggestionsTrue(text, mode, limit)
<1> DEFINE rows == CategoryRows(text, mode)
           class == [n \in rows |-> txns[n].coa]
           Right(s) ==
             /\ s = <<>> <=> \A n \in Shown(text, mode) : ~HasCoa(txns[n])
             /\ \A k \in DOMAIN s :
                  /\ s[k].count = Cardinality(Filed(text, mode, s[k].what))
                  /\ \A n \in Shown(text, mode) : HasCoa(txns[n]) =>
                       (Cardinality(Filed(text, mode, txns[n].coa)) > s[k].count
                          => \E j \in 1 .. (k - 1) : s[j].what = txns[n].coa)
<1>1. rows = {n \in Shown(text, mode) : HasCoa(txns[n])}
  BY CategoryRowsShown
<1>2. \A n \in rows : class[n] = txns[n].coa
  OBVIOUS
<1>3. ASSUME NEW n \in rows PROVE Filed(text, mode, class[n]) = OfClass(rows, class, class[n])
  <2>1. HasCoa(txns[n]) /\ class[n] = txns[n].coa
    BY <1>1, <1>2
  <2>2. \A i \in Shown(text, mode) : txns[i].coa = class[n] => HasCoa(txns[i])
    BY <2>1 DEF HasCoa
  <2> HIDE DEF class, rows
  <2>3. \A i \in Shown(text, mode) : txns[i].coa = class[n] <=> i \in rows /\ class[i] = class[n]
    BY <1>1, <1>2, <2>2
  <2>4. rows \in SUBSET Shown(text, mode)
    BY <1>1
  <2>5. QED
    BY <2>3, <2>4 DEF Filed, OfClass
<1>4. IsFiniteSet(rows)
  <2>1. rows \in SUBSET Shown(text, mode)
    BY <1>1
  <2>2. QED
    BY <2>1, ShownFinite
<1>5. ASSUME NEW s \in suggest_categories(text, mode, limit) PROVE Right(s)
  <2>1. PICK found : s \in Answers(found, limit) /\ IsTally(found, rows, class)
    BY CategoryTally
  <2> HIDE DEF rows, class
  <2>2. /\ IsFiniteSet(found) /\ Cardinality(found) \in Nat /\ (found = {} <=> rows = {})
        /\ \A e \in found : e.count \in Nat
    BY <1>4, <2>1, TallyFinite
  <2>3. limit \in Nat
    BY LimitAssumption
  <2>4. PICK full \in Bijection(1 .. Cardinality(found), found) :
           /\ \A i, j \in 1 .. Cardinality(found) : i < j => ~Beats(full[j], full[i])
           /\ Len(s) \in Nat /\ DOMAIN s = 1 .. Len(s) /\ Len(s) <= Cardinality(found)
           /\ \A n \in DOMAIN s : s[n] = full[n]
           /\ s = <<>> <=> found = {}
    BY <2>1, <2>2, <2>3, AnswersAre
  <2> DEFINE N == Cardinality(found)
  <2>5. /\ \A k \in 1 .. N : full[k] \in found
        /\ \A e \in found : \E k \in 1 .. N : full[k] = e
    BY DEF Bijection, Injection, Surjection
  <2> HIDE DEF N
  <2>6. s = <<>> <=> \A n \in Shown(text, mode) : ~HasCoa(txns[n])
    <3>1. rows = {} <=> \A n \in Shown(text, mode) : ~HasCoa(txns[n])
      BY <1>1
    <3>2. QED
      BY <2>2, <2>4, <3>1
  <2>7. \A k \in DOMAIN s : k \in 1 .. N /\ s[k] = full[k] /\ s[k] \in found
    <3>1. \A k \in DOMAIN s : k \in 1 .. N /\ s[k] = full[k]
      BY <2>2, <2>4 DEF N
    <3>2. QED
      BY <2>5, <3>1
  <2>8. \A e \in found : e.count = Cardinality(Filed(text, mode, e.what))
    <3>1. ASSUME NEW e \in found PROVE e.count = Cardinality(Filed(text, mode, e.what))
      <4>1. PICK n \in rows : class[n] = e.what
        BY <2>1 DEF IsTally
      <4>2. e.count = Cardinality(OfClass(rows, class, e.what))
        BY <2>1 DEF IsTally
      <4>3. QED
        BY <1>3, <4>1, <4>2
    <3>2. QED
      BY <3>1
  <2>9. ASSUME NEW k \in DOMAIN s, NEW n \in Shown(text, mode), HasCoa(txns[n]),
               Cardinality(Filed(text, mode, txns[n].coa)) > s[k].count
        PROVE  \E j \in 1 .. (k - 1) : s[j].what = txns[n].coa
    <3>1. n \in rows /\ class[n] = txns[n].coa
      BY <1>1, <1>2, <2>9
    <3>2. PICK e \in found : e.what = txns[n].coa
      BY <2>1, <3>1 DEF IsTally
    <3>3. PICK j \in 1 .. N : full[j] = e
      BY <2>5
    <3>4. full[j].count > full[k].count /\ k \in 1 .. N
      BY <2>7, <2>8, <2>9, <3>2, <3>3
    <3>5. full[j].count \in Nat /\ full[k].count \in Nat
      BY <2>2, <2>5, <3>4
    <3>6. Beats(full[j], full[k]) /\ j # k
      BY <3>4, <3>5 DEF Beats
    <3>7. ~(k < j)
      BY <2>4, <3>4, <3>6 DEF N
    <3>8. j \in 1 .. (k - 1) /\ j \in DOMAIN s
      BY <2>2, <2>4, <3>4, <3>6, <3>7 DEF N
    <3>9. s[j] = e
      BY <2>7, <3>3, <3>8
    <3>10. QED
      BY <3>2, <3>8, <3>9
  <2>10. QED
    BY <2>6, <2>7, <2>8, <2>9
<1> HIDE DEF rows, class
<1>6. QED
  BY <1>5 DEF SuggestionsTrue

LEMMA Agreement ==
  ASSUME RowsInv, NEW text \in Text
  PROVE  ToolsAgree(text)
<1> DEFINE M == MerchantRows(text)
           C == CategoryRows(text, "contains")
           U == Uncategorized(text, "contains")
<1>1. SUFFICES ASSUME NEW m \in aggregate_merchants(text, MaxListed, FALSE),
                      NEW s \in suggest_categories(text, "contains", MaxListed),
                      Len(m) < MaxListed, Len(s) < MaxListed
               PROVE  Total(s) = Total(m) - Cardinality(U)
  BY DEF ToolsAgree, Uncategorized
<1>2. "contains" \in MatchMode
  BY DEF MatchMode
<1>3. M = Shown(text, "contains") /\ C = {n \in Shown(text, "contains") : HasCoa(txns[n])}
  BY <1>2, CategoryRowsShown, MerchantRowsShown
<1>4. U = {n \in Shown(text, "contains") : ~HasCoa(txns[n])}
  BY DEF Uncategorized
<1>5. C \in SUBSET Shown(text, "contains") /\ U = M \ C /\ M \cap C = C
  BY <1>3, <1>4
<1>6. IsFiniteSet(M) /\ IsFiniteSet(C) /\ Cardinality(M) \in Nat /\ Cardinality(C) \in Nat
  BY <1>3, <1>5, ShownFinite
<1>7. MaxListed \in Nat
  BY LimitAssumption
<1>8. Total(m) = Cardinality(M)
  <2>1. PICK found : /\ m \in Answers(found, MaxListed)
                     /\ IsTally(found, M, [n \in M |-> merchant_of(txns[n])])
    BY MerchantTally
  <2> HIDE DEF M
  <2>2. IsFiniteSet(found)
    BY <1>6, <2>1, TallyFinite
  <2>3. m \in Bijection(1 .. Cardinality(found), found)
    BY <1>1, <1>7, <2>1, <2>2, AnswersAre
  <2>4. QED
    BY <1>6, <2>1, <2>3, TallyTotal
<1>9. Total(s) = Cardinality(C)
  <2>1. PICK found : /\ s \in Answers(found, MaxListed)
                     /\ IsTally(found, C, [n \in C |-> txns[n].coa])
    BY CategoryTally
  <2> HIDE DEF C
  <2>2. IsFiniteSet(found)
    BY <1>6, <2>1, TallyFinite
  <2>3. s \in Bijection(1 .. Cardinality(found), found)
    BY <1>1, <1>7, <2>1, <2>2, AnswersAre
  <2>4. QED
    BY <1>6, <2>1, <2>3, TallyTotal
<1> HIDE DEF M, C, U
<1>10. Cardinality(U) = Cardinality(M) - Cardinality(C)
  <2>1. Cardinality(M \ C) = Cardinality(M) - Cardinality(M \cap C)
    BY <1>6, FS_Difference
  <2>2. QED
    BY <1>5, <2>1
<1>11. QED
  BY <1>6, <1>8, <1>9, <1>10

\* What the two counting tools answer is so, and they agree, whatever rows the
\* mirror holds, however names and ids sort and wherever a limit cuts
\* (Suggest!CountsTrue).
THEOREM CountsAreTrue == Spec => []CountsTrue
<1>1. RowsInv => CountsTrue
  BY Suggestions, Agreement DEF CountsTrue
<1>2. QED
  BY <1>1, RowsInit, RowsStep, PTL DEF Spec

-----------------------------------------------------------------------------
(***************************************************************************)
(* A merchant has one report.                                              *)
(***************************************************************************)
LEMMA CadencesApart ==
  ASSUME NEW c \in Cadences, NEW e \in Cadences, NEW mid \in c.gaps, mid \in e.gaps
  PROVE  c = e
<1> DEFINE Is(x, n, low, high, g) == x = [name |-> n, gaps |-> low .. high, expected |-> g]
           OneOf(x) == \/ Is(x, "weekly", 6, 8, 7)       /\ mid \in 6 .. 8
                       \/ Is(x, "biweekly", 12, 16, 14)  /\ mid \in 12 .. 16
                       \/ Is(x, "monthly", 26, 35, 30)   /\ mid \in 26 .. 35
                       \/ Is(x, "bimonthly", 55, 70, 61) /\ mid \in 55 .. 70
                       \/ Is(x, "quarterly", 80, 100, 91) /\ mid \in 80 .. 100
                       \/ Is(x, "semiannual", 165, 200, 182) /\ mid \in 165 .. 200
                       \/ Is(x, "annual", 330, 400, 365) /\ mid \in 330 .. 400
<1>1. OneOf(c)
  BY DEF Cadences
<1>2. OneOf(e)
  BY DEF Cadences
<1> HIDE DEF Is
<1>3. \A n, low, high, g : Is(c, n, low, high, g) /\ Is(e, n, low, high, g) => c = e
  BY DEF Is
<1>4. QED
  BY <1>1, <1>2, <1>3

\* detect_recurring reports a merchant once or not at all: no two cadences take
\* the same median gap (Recurring!Groups).
THEOREM OneReport == ASSUME NEW k, NEW r \in Groups(k), NEW s \in Groups(k) PROVE r = s
<1> DEFINE d == Days(k)
           gaps == Sorted(Gaps(d))
           mid == median(gaps)
           Of(c) == [cadence |-> c.name, occurrences |-> Len(d), mid |-> mid,
                     mad |-> Deviation(gaps, mid), last |-> d[Len(d)], next |-> d[Len(d)] + mid]
           Fits == {c \in Cadences : mid \in c.gaps /\ Deviation(gaps, mid) <= Tolerance(c.expected)}
<1>1. Groups(k) = {} \/ Groups(k) = {Of(c) : c \in Fits}
  BY Zenon DEF Groups
<1>2. PICK c \in Fits : r = Of(c)
  BY <1>1
<1>3. PICK e \in Fits : s = Of(e)
  BY <1>1
<1>4. c = e
  BY CadencesApart
<1>5. QED
  BY <1>2, <1>3, <1>4
=============================================================================
