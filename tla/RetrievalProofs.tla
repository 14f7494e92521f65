--------------------------- MODULE RetrievalProofs ---------------------------
(***************************************************************************)
(* Proofs about Retrieval, for every set of chunks and relevances, every   *)
(* limit, pool and number of results.                                      *)
(***************************************************************************)
EXTENDS Retrieval, FiniteSetTheorems, WellFoundedInduction, TLAPS

-----------------------------------------------------------------------------
(***************************************************************************)
(* Numbers.                                                                *)
(***************************************************************************)

\* A set of numbers that is not empty has a least one.
LEMMA LeastNumber ==
  ASSUME NEW T, T \subseteq Nat, T # {}
  PROVE  \E x \in T : \A y \in T : x <= y
  <1>1. IsWellFoundedOn({ss \in Nat \X Nat : ss[1] < ss[2]}, Nat)
    BY NatLessThanWellFounded DEF OpToRel
  <1>2. PICK x \in T : \A y \in T : ~ (<<y, x>> \in {ss \in Nat \X Nat : ss[1] < ss[2]})
    BY <1>1, WFMin
  <1>3. ASSUME NEW y \in T PROVE x <= y
    <2>1. ~ (<<y, x>> \in {ss \in Nat \X Nat : ss[1] < ss[2]})
      BY <1>2
    <2>2. x \in Nat /\ y \in Nat /\ <<y, x>> \in Nat \X Nat
      OBVIOUS
    <2>3. ~ y < x
      BY <2>1, <2>2
    <2>4. QED
      BY <2>2, <2>3
  <1>4. QED
    BY <1>3

\* Of two divisors the smaller goes more often.
LEMMA SmallerDivisor ==
  ASSUME NEW u \in Nat \ {0}, NEW a \in Nat, NEW b \in Nat, 0 < a, a < b,
         u % a = 0, u % b = 0
  PROVE  (u \div a) \in Nat /\ (u \div b) \in Nat /\ (u \div a) > (u \div b)
  <1>1. PICK p, q : p = u \div a /\ q = u \div b
    OBVIOUS
  <1>2. p \in Nat /\ u = a * p
    BY <1>1
  <1>3. q \in Nat /\ u = b * q
    BY <1>1
  <1>4. ASSUME p <= q PROVE FALSE
    <2>1. q > 0
      BY <1>3
    <2>2. a * p <= a * q
      BY <1>2, <1>3, <1>4
    <2>3. a * q < b * q
      BY <2>1, <1>3
    <2>4. a * p \in Nat /\ a * q \in Nat /\ b * q \in Nat
      BY <1>2, <1>3
    <2>5. QED
      BY <2>2, <2>3, <2>4, <1>2, <1>3
  <1>5. QED
    BY <1>1, <1>2, <1>3, <1>4

\* Different ranks within a finite set, and not more of them than elements: each is taken.
LEMMA RanksAreTaken ==
  ASSUME NEW R, IsFiniteSet(R), NEW f \in [R -> 0..(Cardinality(R) - 1)], IsInjective(f)
  PROVE  \A n \in 0..(Cardinality(R) - 1) : \E x \in R : f[x] = n
  <1>1. Cardinality(R) \in Nat
    BY FS_CardinalityType
  <1>2. /\ IsFiniteSet(0..(Cardinality(R) - 1))
        /\ Cardinality(0..(Cardinality(R) - 1)) = Cardinality(R)
    <2> DEFINE b == Cardinality(R) - 1
    <2>1. b \in Int /\ 0 \in Int /\ b - 0 + 1 = Cardinality(R) /\ (0 > b => Cardinality(R) = 0)
      BY <1>1
    <2> HIDE DEF b
    <2>2. IsFiniteSet(0..b) /\ Cardinality(0..b) = IF 0 > b THEN 0 ELSE b - 0 + 1
      BY <2>1, FS_Interval
    <2>3. QED
      BY <2>1, <2>2 DEF b
  <1>3. f \in Injection(R, 0..(Cardinality(R) - 1))
    BY DEF Injection
  <1>4. f \in Surjection(R, 0..(Cardinality(R) - 1))
    BY <1>2, <1>3, FS_Injection
  <1>5. QED
    BY <1>4 DEF Surjection

-----------------------------------------------------------------------------
(***************************************************************************)
(* Lists: their elements, the order of a sort, and cuts.                   *)
(***************************************************************************)

\* The elements of a list are finitely many, as many as there are places when they differ.
LEMMA ElementsOf ==
  ASSUME NEW S, NEW s \in Seq(S)
  PROVE  /\ IsFiniteSet(Range(s)) /\ Range(s) \subseteq S
         /\ Cardinality(Range(s)) \in Nat
         /\ IsInjective(s) => Cardinality(Range(s)) = Len(s)
  <1>1. Len(s) \in Nat /\ DOMAIN s = 1..Len(s) /\ s \in [1..Len(s) -> S]
    OBVIOUS
  <1>2. IsFiniteSet(1..Len(s)) /\ Cardinality(1..Len(s)) = Len(s)
    <2>1. /\ IsFiniteSet(1..Len(s))
          /\ Cardinality(1..Len(s)) = IF 1 > Len(s) THEN 0 ELSE Len(s) - 1 + 1
      BY <1>1, FS_Interval
    <2>2. QED
      BY <1>1, <2>1
  <1>3. s \in Surjection(1..Len(s), Range(s)) /\ Range(s) \subseteq S
    BY <1>1 DEF Surjection, Range
  <1>4. IsFiniteSet(Range(s))
    BY <1>2, <1>3, FS_Surjection
  <1>5. Cardinality(Range(s)) \in Nat
    BY <1>4, FS_CardinalityType
  <1>6. ASSUME IsInjective(s) PROVE Cardinality(Range(s)) = Len(s)
    <2>1. s \in Injection(1..Len(s), Range(s))
      BY <1>1, <1>3, <1>6 DEF Injection, Surjection
    <2>2. QED
      BY <1>2, <1>3, <2>1, FS_Surjection
  <1>7. QED
    BY <1>3, <1>4, <1>5, <1>6

\* Where an element is met first.
FirstAt(s, x, i) == i \in DOMAIN s /\ s[i] = x /\ \A j \in 1..(i - 1) : s[j] # x

LEMMA MetFirst ==
  ASSUME NEW S, NEW s \in Seq(S), NEW x \in Range(s)
  PROVE  \E i : FirstAt(s, x, i)
  <1> DEFINE T == {i \in DOMAIN s : s[i] = x}
  <1>1. T \subseteq Nat /\ T # {}
    BY DEF Range
  <1>2. PICK i \in T : \A j \in T : i <= j
    BY <1>1, LeastNumber
  <1>3. \A j \in 1..(i - 1) : s[j] # x
    BY <1>2
  <1>4. QED
    BY <1>2, <1>3 DEF FirstAt

\* Of two elements the one before the other is the one met first.
LEMMA MetBefore ==
  ASSUME NEW S, NEW s \in Seq(S), NEW x, NEW y, NEW m, NEW n,
         FirstAt(s, x, m), FirstAt(s, y, n)
  PROVE  (\E i \in DOMAIN s : s[i] = x /\ \A j \in 1..i : s[j] # y) <=> m < n
  <1>1. m \in 1..Len(s) /\ n \in 1..Len(s) /\ Len(s) \in Nat /\ DOMAIN s = 1..Len(s)
    BY DEF FirstAt
  <1>2. ASSUME NEW i \in DOMAIN s, s[i] = x, \A j \in 1..i : s[j] # y PROVE m < n
    <2>1. m <= i
      BY <1>1, <1>2 DEF FirstAt
    <2>2. ~ n <= i
      BY <1>1, <1>2 DEF FirstAt
    <2>3. QED
      BY <1>1, <1>2, <2>1, <2>2
  <1>3. ASSUME m < n PROVE m \in DOMAIN s /\ s[m] = x /\ \A j \in 1..m : s[j] # y
    BY <1>1, <1>3 DEF FirstAt
  <1>4. QED
    BY <1>2, <1>3

\* The elements of a list, and numbers to sort them by.
Sortable(s, key) == \A x \in Range(s) : key[x] \in Nat

\* The order of a sort is strict and total.
LEMMA AheadOrders ==
  ASSUME NEW S, NEW s \in Seq(S), NEW key, Sortable(s, key)
  PROVE  /\ \A x \in Range(s) : ~ Ahead(s, key, x, x)
         /\ \A x, y \in Range(s) : x = y \/ Ahead(s, key, x, y) \/ Ahead(s, key, y, x)
         /\ \A x, y, z \in Range(s) :
              Ahead(s, key, x, y) /\ Ahead(s, key, y, z) => Ahead(s, key, x, z)
         /\ \A x, y \in Range(s) : Ahead(s, key, x, y) => key[x] >= key[y]
  <1>1. \A x \in Range(s) : \E i : FirstAt(s, x, i)
    BY MetFirst
  <1>2. ASSUME NEW x \in Range(s), NEW y \in Range(s), NEW m, NEW n,
               FirstAt(s, x, m), FirstAt(s, y, n)
        PROVE  Ahead(s, key, x, y) <=> key[x] > key[y] \/ (key[x] = key[y] /\ m < n)
    BY <1>2, MetBefore DEF Ahead
  <1>3. \A x \in Range(s) : \A m : FirstAt(s, x, m) => m \in Nat /\ s[m] = x
    BY DEF FirstAt
  <1>4. ASSUME NEW x \in Range(s) PROVE ~ Ahead(s, key, x, x)
    <2>1. PICK m : FirstAt(s, x, m)
      BY <1>1
    <2>2. Ahead(s, key, x, x) <=> key[x] > key[x] \/ (key[x] = key[x] /\ m < m)
      BY <1>2, <2>1
    <2>3. m \in Nat /\ key[x] \in Nat
      BY <1>3, <2>1 DEF Sortable
    <2>4. QED
      BY <2>2, <2>3
  <1>5. ASSUME NEW x \in Range(s), NEW y \in Range(s), x # y
        PROVE  Ahead(s, key, x, y) \/ Ahead(s, key, y, x)
    <2>1. PICK m, n : FirstAt(s, x, m) /\ FirstAt(s, y, n)
      BY <1>1
    <2>2. m \in Nat /\ n \in Nat /\ m # n /\ key[x] \in Nat /\ key[y] \in Nat
      BY <1>3, <1>5, <2>1 DEF Sortable
    <2>3. /\ Ahead(s, key, x, y) <=> key[x] > key[y] \/ (key[x] = key[y] /\ m < n)
          /\ Ahead(s, key, y, x) <=> key[y] > key[x] \/ (key[y] = key[x] /\ n < m)
      BY <1>2, <2>1
    <2>4. QED
      BY <2>2, <2>3
  <1>6. ASSUME NEW x \in Range(s), NEW y \in Range(s), NEW z \in Range(s),
               Ahead(s, key, x, y), Ahead(s, key, y, z)
        PROVE  Ahead(s, key, x, z)
    <2>1. PICK m, n, k : FirstAt(s, x, m) /\ FirstAt(s, y, n) /\ FirstAt(s, z, k)
      BY <1>1
    <2>2. m \in Nat /\ n \in Nat /\ k \in Nat
          /\ key[x] \in Nat /\ key[y] \in Nat /\ key[z] \in Nat
      BY <1>3, <2>1 DEF Sortable
    <2>3. /\ key[x] > key[y] \/ (key[x] = key[y] /\ m < n)
          /\ key[y] > key[z] \/ (key[y] = key[z] /\ n < k)
      BY <1>2, <1>6, <2>1
    <2>4. key[x] > key[z] \/ (key[x] = key[z] /\ m < k)
      BY <2>2, <2>3
    <2>5. QED
      BY <1>2, <2>1, <2>4
  <1>7. \A x, y \in Range(s) : Ahead(s, key, x, y) => key[x] >= key[y]
    BY DEF Ahead, Sortable
  <1>8. QED
    BY <1>4, <1>5, <1>6, <1>7

\* What a sort returns: every element once, and whatever is ahead of an element comes
\* before it.
LEMMA SortedFacts ==
  ASSUME NEW S, NEW s \in Seq(S), NEW key, Sortable(s, key)
  PROVE  /\ Sorted(s, key) \in Seq(S) /\ IsInjective(Sorted(s, key))
         /\ Len(Sorted(s, key)) = Cardinality(Range(s))
         /\ Range(Sorted(s, key)) = Range(s)
         /\ \A n \in DOMAIN Sorted(s, key), y \in Range(s) :
              Ahead(s, key, y, Sorted(s, key)[n]) => \E i \in 1..(n - 1) : Sorted(s, key)[i] = y
  <1>1. PICK R, N : R = Range(s) /\ N = Cardinality(Range(s))
    OBVIOUS
  <1>2. IsFiniteSet(R) /\ R \subseteq S /\ N \in Nat /\ Cardinality(R) = N
    BY <1>1, ElementsOf
  <1>3. /\ \A x \in R : ~ Ahead(s, key, x, x)
        /\ \A x, y \in R : x = y \/ Ahead(s, key, x, y) \/ Ahead(s, key, y, x)
        /\ \A x, y, z \in R :
             Ahead(s, key, x, y) /\ Ahead(s, key, y, z) => Ahead(s, key, x, z)
    BY <1>1, AheadOrders
  <1> DEFINE B(x) == {y \in R : Ahead(s, key, y, x)}
  <1>4. ASSUME NEW x \in R
        PROVE  /\ IsFiniteSet(B(x)) /\ Cardinality(B(x)) \in Nat
               /\ Cardinality(B(x)) \in 0..(N - 1)
    <2>1. B(x) \in SUBSET R /\ B(x) # R
      BY <1>3
    <2>2. IsFiniteSet(B(x)) /\ Cardinality(B(x)) <= N /\ Cardinality(B(x)) # N
      BY <1>2, <2>1, FS_Subset
    <2>3. Cardinality(B(x)) \in Nat
      BY <2>2, FS_CardinalityType
    <2>4. QED
      BY <1>2, <2>2, <2>3
  <1>5. ASSUME NEW x \in R, NEW y \in R, Ahead(s, key, x, y)
        PROVE  Cardinality(B(x)) < Cardinality(B(y))
    <2>1. B(x) \in SUBSET B(y) /\ B(x) # B(y)
      BY <1>3, <1>5
    <2>2. Cardinality(B(x)) <= Cardinality(B(y)) /\ Cardinality(B(x)) # Cardinality(B(y))
      BY <1>4, <2>1, FS_Subset
    <2>3. Cardinality(B(x)) \in Nat /\ Cardinality(B(y)) \in Nat
      BY <1>4
    <2>4. QED
      BY <2>2, <2>3
  <1>6. Sorted(s, key) = [n \in 1..N |-> CHOOSE x \in R : Cardinality(B(x)) = n - 1]
    BY <1>1 DEF Sorted
  <1> HIDE DEF B
  <1>7. PICK rank : rank = [x \in R |-> Cardinality(B(x))]
    OBVIOUS
  <1>8. \A x \in R : rank[x] = Cardinality(B(x)) /\ rank[x] \in Nat /\ rank[x] \in 0..(N - 1)
    BY <1>4, <1>7
  <1>9. \A x, y \in R : Ahead(s, key, x, y) => rank[x] < rank[y]
    BY <1>5, <1>8
  <1>10. rank \in [R -> 0..(Cardinality(R) - 1)] /\ IsInjective(rank)
    <2>1. rank \in [R -> 0..(Cardinality(R) - 1)]
      BY <1>2, <1>7, <1>8
    <2>2. \A x, y \in R : rank[x] = rank[y] => x = y
      BY <1>3, <1>8, <1>9
    <2>3. QED
      BY <2>1, <2>2 DEF IsInjective
  <1>11. \A n \in 0..(N - 1) : \E x \in R : rank[x] = n
    <2>1. \A n \in 0..(Cardinality(R) - 1) : \E x \in R : rank[x] = n
      BY <1>2, <1>10, RanksAreTaken
    <2>2. QED
      BY <1>2, <2>1
  <1>12. PICK t : t = Sorted(s, key)
    OBVIOUS
  <1>13. ASSUME NEW n \in 1..N PROVE t[n] \in R /\ rank[t[n]] = n - 1
    <2>1. n - 1 \in 0..(N - 1)
      BY <1>2
    <2>2. \E x \in R : Cardinality(B(x)) = n - 1
      BY <1>11, <1>8, <2>1
    <2>3. t[n] \in R /\ Cardinality(B(t[n])) = n - 1
      BY <1>12, <1>6, <2>2
    <2>4. QED
      BY <1>8, <2>3
  <1>14. \A x \in R : rank[x] + 1 \in 1..N /\ t[rank[x] + 1] = x
    <2> SUFFICES ASSUME NEW x \in R PROVE rank[x] + 1 \in 1..N /\ t[rank[x] + 1] = x
      OBVIOUS
    <2>1. rank[x] + 1 \in 1..N
      BY <1>2, <1>8
    <2>2. t[rank[x] + 1] \in R /\ rank[t[rank[x] + 1]] = rank[x]
      <3>1. t[rank[x] + 1] \in R /\ rank[t[rank[x] + 1]] = (rank[x] + 1) - 1
        BY <1>13, <2>1
      <3>2. QED
        BY <1>8, <3>1
    <2>3. QED
      BY <1>10, <2>1, <2>2 DEF IsInjective
  <1>15. DOMAIN t = 1..N /\ t \in Seq(R) /\ Len(t) = N
    <2>1. DOMAIN t = 1..N
      BY <1>12, <1>6
    <2>2. t \in [1..N -> R]
      BY <1>12, <1>6, <1>13
    <2>3. QED
      BY <1>2, <2>1, <2>2
  <1>16. t \in Seq(S)
    BY <1>2, <1>15
  <1>17. IsInjective(t)
    BY <1>13, <1>15 DEF IsInjective
  <1>18. Range(t) = R
    BY <1>13, <1>14, <1>15 DEF Range
  <1>19. ASSUME NEW n \in DOMAIN t, NEW y \in R, Ahead(s, key, y, t[n])
         PROVE  \E i \in 1..(n - 1) : t[i] = y
    <2>1. n \in 1..N /\ t[n] \in R /\ rank[t[n]] = n - 1
      BY <1>13, <1>15
    <2>2. rank[y] < n - 1 /\ rank[y] \in Nat /\ t[rank[y] + 1] = y
      BY <1>8, <1>14, <1>9, <1>19, <2>1
    <2>3. rank[y] + 1 \in 1..(n - 1)
      BY <1>2, <2>1, <2>2
    <2>4. QED
      BY <2>2, <2>3
  <1>20. QED
    BY <1>1, <1>12, <1>15, <1>16, <1>17, <1>18, <1>19

\* What a slice keeps.
LEMMA FirstFacts ==
  ASSUME NEW S, NEW s \in Seq(S), NEW n \in Nat
  PROVE  /\ First(s, n) \in Seq(S) /\ Len(First(s, n)) <= n /\ Len(First(s, n)) <= Len(s)
         /\ \A i \in DOMAIN First(s, n) : i \in DOMAIN s /\ First(s, n)[i] = s[i]
         /\ s # <<>> /\ n > 0 => First(s, n) # <<>>
         /\ IsInjective(s) => IsInjective(First(s, n))
         /\ Range(First(s, n)) \subseteq Range(s)
  <1>1. /\ First(s, n) \in Seq(S) /\ Len(First(s, n)) <= n /\ Len(First(s, n)) <= Len(s)
        /\ \A i \in DOMAIN First(s, n) : i \in DOMAIN s /\ First(s, n)[i] = s[i]
        /\ s # <<>> /\ n > 0 => First(s, n) # <<>>
    <2>1. Len(s) \in Nat /\ DOMAIN s = 1..Len(s)
      OBVIOUS
    <2>2. CASE Len(s) <= n
      BY <2>1, <2>2 DEF First
    <2>3. CASE ~ Len(s) <= n
      <3>1. PICK t : t = SubSeq(s, 1, n)
        OBVIOUS
      <3>2. t \in Seq(S) /\ Len(t) = n /\ \A i \in 1..n : t[i] = s[i]
        BY <2>1, <2>3, <3>1
      <3>3. First(s, n) = t
        BY <2>3, <3>1 DEF First
      <3>4. DOMAIN t = 1..n /\ (n > 0 => t # <<>>)
        BY <3>2
      <3>5. QED
        BY <2>1, <2>3, <3>2, <3>3, <3>4
    <2>4. QED
      BY <2>2, <2>3
  <1>2. IsInjective(s) => IsInjective(First(s, n))
    BY <1>1 DEF IsInjective
  <1>3. Range(First(s, n)) \subseteq Range(s)
    BY <1>1 DEF Range
  <1>4. QED
    BY <1>1, <1>2, <1>3

\* A list after another has the elements of both.
LEMMA BothMet ==
  ASSUME NEW S, NEW s \in Seq(S), NEW t \in Seq(S)
  PROVE  s \o t \in Seq(S) /\ Range(s \o t) = Range(s) \cup Range(t)
  <1>1. PICK u : u = s \o t
    OBVIOUS
  <1>2. /\ u \in Seq(S) /\ Len(s) \in Nat /\ Len(t) \in Nat
        /\ Len(u) = Len(s) + Len(t)
        /\ \A i \in 1..Len(s) : u[i] = s[i]
        /\ \A i \in 1..Len(t) : u[Len(s) + i] = t[i]
    BY <1>1
  <1>3. ASSUME NEW i \in 1..Len(u) PROVE u[i] \in Range(s) \cup Range(t)
    <2>1. CASE i <= Len(s)
      BY <1>2, <2>1 DEF Range
    <2>2. CASE ~ i <= Len(s)
      <3>1. i - Len(s) \in 1..Len(t) /\ i = Len(s) + (i - Len(s))
        BY <1>2, <2>2
      <3>2. u[i] = t[i - Len(s)]
        BY <1>2, <3>1
      <3>3. QED
        BY <3>1, <3>2 DEF Range
    <2>3. QED
      BY <2>1, <2>2
  <1>4. ASSUME NEW x \in Range(s) PROVE x \in Range(u)
    <2>1. PICK i \in 1..Len(s) : s[i] = x
      BY DEF Range
    <2>2. i \in 1..Len(u) /\ u[i] = x
      BY <1>2, <2>1
    <2>3. QED
      BY <1>2, <2>2 DEF Range
  <1>5. ASSUME NEW x \in Range(t) PROVE x \in Range(u)
    <2>1. PICK i \in 1..Len(t) : t[i] = x
      BY DEF Range
    <2>2. Len(s) + i \in 1..Len(u) /\ u[Len(s) + i] = x
      BY <1>2, <2>1
    <2>3. QED
      BY <1>2, <2>2 DEF Range
  <1>6. Range(u) = Range(s) \cup Range(t)
    <2>1. \A x \in Range(u) : x \in Range(s) \cup Range(t)
      BY <1>2, <1>3 DEF Range
    <2>2. QED
      BY <1>4, <1>5, <2>1
  <1>7. QED
    BY <1>1, <1>2, <1>6

-----------------------------------------------------------------------------
(***************************************************************************)
(* Fusion.                                                                 *)
(***************************************************************************)

\* The lists of hits.
Hits(list) == list \in Seq(Chunks) /\ IsInjective(list) /\ Len(list) <= Limit

\* What one list gives a chunk, by its rank there.
LEMMA ReciprocalOf ==
  ASSUME NEW list, Hits(list), NEW c
  PROVE  /\ \A i \in DOMAIN list : list[i] = c =>
              /\ Reciprocal(list, c) = Unit \div (RRF_K + i)
              /\ i \in 1..Limit
         /\ c \notin Range(list) => Reciprocal(list, c) = 0
         /\ Reciprocal(list, c) \in Nat
  <1>1. Limit \in Nat /\ Unit \in Nat \ {0}
    BY RetrievalAssumption
  <1>2. ASSUME NEW i \in DOMAIN list, list[i] = c
        PROVE  Reciprocal(list, c) = Unit \div (RRF_K + i) /\ i \in 1..Limit
    <2>1. (CHOOSE j \in DOMAIN list : list[j] = c) = i
      BY <1>2 DEF Hits, IsInjective
    <2>2. i \in 1..Limit
      BY <1>1, <1>2 DEF Hits
    <2>3. QED
      BY <1>2, <2>1, <2>2 DEF Reciprocal
  <1>3. ASSUME NEW i \in 1..Limit PROVE (Unit \div (RRF_K + i)) \in Nat
    BY <1>1 DEF RRF_K
  <1>4. ASSUME c \notin Range(list) PROVE Reciprocal(list, c) = 0
    BY <1>4 DEF Reciprocal, Range
  <1>5. Reciprocal(list, c) \in Nat
    BY <1>2, <1>3, <1>4 DEF Range
  <1>6. QED
    BY <1>2, <1>4, <1>5

\* The earlier in a list the more.
LEMMA EarlierGetsMore ==
  ASSUME NEW i \in 1..Limit, NEW j \in 1..Limit, i < j
  PROVE  (Unit \div (RRF_K + i)) > (Unit \div (RRF_K + j)) /\ (Unit \div (RRF_K + j)) > 0
  <1>1. PICK a, b : a = RRF_K + i /\ b = RRF_K + j
    OBVIOUS
  <1>2. /\ Limit \in Nat /\ Unit \in Nat \ {0}
        /\ Unit % (RRF_K + i) = 0 /\ Unit % (RRF_K + j) = 0
    BY RetrievalAssumption
  <1>3. a \in Nat /\ b \in Nat /\ 0 < a /\ a < b
    BY <1>1, <1>2 DEF RRF_K
  <1>4. Unit % a = 0 /\ Unit % b = 0
    BY <1>1, <1>2
  <1>5. (Unit \div a) > (Unit \div b)
    BY <1>2, <1>3, <1>4, SmallerDivisor
  <1>6. (Unit \div b) > 0
    BY <1>2, <1>3, <1>4
  <1>7. QED
    BY <1>1, <1>5, <1>6

\* A hit gets no less from a list than one it is before there, and more when that is in it.
LEMMA BeforeGetsMore ==
  ASSUME NEW list, Hits(list), NEW c, NEW d,
         \A j \in DOMAIN list : list[j] = d => \E i \in 1..(j - 1) : list[i] = c
  PROVE  /\ Reciprocal(list, c) >= Reciprocal(list, d)
         /\ d \in Range(list) => Reciprocal(list, c) > Reciprocal(list, d)
  <1>1. Reciprocal(list, c) \in Nat /\ Reciprocal(list, d) \in Nat
    BY ReciprocalOf
  <1>2. CASE d \notin Range(list)
    <2>1. Reciprocal(list, d) = 0
      BY <1>2, ReciprocalOf
    <2>2. QED
      BY <1>1, <1>2, <2>1
  <1>3. CASE d \in Range(list)
    <2>1. PICK j \in DOMAIN list : list[j] = d
      BY <1>3 DEF Range
    <2>2. PICK i \in 1..(j - 1) : list[i] = c
      BY <2>1
    <2>3. i \in DOMAIN list /\ i < j
      BY <2>1, <2>2 DEF Hits
    <2>4. /\ Reciprocal(list, d) = Unit \div (RRF_K + j) /\ j \in 1..Limit
          /\ Reciprocal(list, c) = Unit \div (RRF_K + i) /\ i \in 1..Limit
      BY <2>1, <2>2, <2>3, ReciprocalOf
    <2>5. Reciprocal(list, c) > Reciprocal(list, d)
      BY <2>3, <2>4, EarlierGetsMore
    <2>6. QED
      BY <1>1, <2>5
  <1>4. QED
    BY <1>2, <1>3

\* What the fusion returns: the hits of both searches, each once, and none before one that
\* scores more.
LEMMA FusedFacts ==
  ASSUME Hits(vec), Hits(kw)
  PROVE  /\ Fused \in Seq(Chunks) /\ IsInjective(Fused)
         /\ Range(Fused) = Range(vec) \cup Range(kw)
         /\ \A n \in DOMAIN Fused, c \in Range(vec) \cup Range(kw) :
              FusionScore(c) > FusionScore(Fused[n]) => \E i \in 1..(n - 1) : Fused[i] = c
  <1>1. PICK met : met = vec \o kw
    OBVIOUS
  <1>2. met \in Seq(Chunks) /\ Range(met) = Range(vec) \cup Range(kw)
    BY <1>1, BothMet DEF Hits
  <1>3. \A c : FusionScore(c) \in Nat
    BY ReciprocalOf DEF FusionScore
  <1>4. PICK key : key = [c \in Range(met) |-> FusionScore(c)]
    OBVIOUS
  <1>5. \A c \in Range(met) : key[c] = FusionScore(c)
    BY <1>4
  <1>6. Sortable(met, key)
    BY <1>3, <1>5 DEF Sortable
  <1>7. Fused = Sorted(met, key)
    BY <1>1, <1>4 DEF Fused
  <1>8. /\ Fused \in Seq(Chunks) /\ IsInjective(Fused) /\ Range(Fused) = Range(met)
        /\ \A n \in DOMAIN Fused, c \in Range(met) :
             Ahead(met, key, c, Fused[n]) => \E i \in 1..(n - 1) : Fused[i] = c
    BY <1>2, <1>6, <1>7, SortedFacts
  <1>9. ASSUME NEW n \in DOMAIN Fused, NEW c \in Range(met),
               FusionScore(c) > FusionScore(Fused[n])
        PROVE  Ahead(met, key, c, Fused[n])
    <2>1. Fused[n] \in Range(met)
      BY <1>8 DEF Range
    <2>2. QED
      BY <1>5, <1>9, <2>1 DEF Ahead
  <1>10. QED
    BY <1>2, <1>8, <1>9

-----------------------------------------------------------------------------
(***************************************************************************)
(* The order of the results.                                               *)
(***************************************************************************)

\* Scores are numbers.
LEMMA ScoreType ==
  ASSUME relevance \in [Chunks -> Levels], NEW c \in Chunks
  PROVE  relevance[c] \in Nat /\ Boosted(c) \in Nat
  <1>1. relevance[c] \in 0..100
    BY RetrievalAssumption
  <1>2. relevance[c] \in Nat
    BY <1>1
  <1>3. 115 * relevance[c] \in Nat /\ 100 * relevance[c] \in Nat
    BY <1>2
  <1>4. QED
    BY <1>2, <1>3 DEF Boosted

\* What reranking, the boost and the cut return: results of the pool, the better before
\* the worse, and none left out for a worse one.
LEMMA RankedFacts ==
  ASSUME relevance \in [Chunks -> Levels], candidates \in Seq(Chunks)
  PROVE  /\ Ranked \in Seq(Chunks) /\ IsInjective(Ranked) /\ Len(Ranked) <= TopK
         /\ Range(Ranked) \subseteq Range(candidates)
         /\ candidates # <<>> => Ranked # <<>>
         /\ \A n \in DOMAIN Ranked, c \in Range(candidates) :
              Boosted(c) > Boosted(Ranked[n]) => \E i \in 1..(n - 1) : Ranked[i] = c
  <1>1. TopK \in Nat /\ TopK > 0
    BY RetrievalAssumption
  <1>2. \A c \in Chunks : relevance[c] \in Nat /\ Boosted(c) \in Nat
    BY ScoreType
  <1>3. Sortable(candidates, relevance)
    BY <1>2, ElementsOf DEF Sortable
  <1>4. PICK reranked : reranked = Sorted(candidates, relevance)
    OBVIOUS
  <1>5. reranked \in Seq(Chunks) /\ Range(reranked) = Range(candidates)
    BY <1>3, <1>4, SortedFacts
  <1>6. PICK key : key = [c \in Range(reranked) |-> Boosted(c)]
    OBVIOUS
  <1>7. Sortable(reranked, key)
    BY <1>2, <1>5, <1>6, ElementsOf DEF Sortable
  <1>8. PICK ordered : ordered = Sorted(reranked, key)
    OBVIOUS
  <1>9. /\ ordered \in Seq(Chunks) /\ IsInjective(ordered)
        /\ Range(ordered) = Range(candidates)
        /\ \A n \in DOMAIN ordered, c \in Range(candidates) :
             Ahead(reranked, key, c, ordered[n]) => \E i \in 1..(n - 1) : ordered[i] = c
    BY <1>5, <1>7, <1>8, SortedFacts
  <1>10. Ranked = First(ordered, TopK)
    BY <1>4, <1>6, <1>8 DEF Ranked
  <1>11. /\ Ranked \in Seq(Chunks) /\ IsInjective(Ranked) /\ Len(Ranked) <= TopK
         /\ Range(Ranked) \subseteq Range(candidates)
         /\ \A i \in DOMAIN Ranked : i \in DOMAIN ordered /\ Ranked[i] = ordered[i]
         /\ ordered # <<>> => Ranked # <<>>
    BY <1>1, <1>9, <1>10, FirstFacts
  <1>12. ASSUME candidates # <<>> PROVE ordered # <<>>
    <2>1. 1 \in DOMAIN candidates
      BY <1>12
    <2>2. candidates[1] \in Range(ordered)
      BY <1>9, <2>1 DEF Range
    <2>3. ordered = <<>> => Range(ordered) = {}
      BY DEF Range
    <2>4. QED
      BY <2>2, <2>3
  <1>13. ASSUME NEW n \in DOMAIN Ranked, NEW c \in Range(candidates),
                Boosted(c) > Boosted(Ranked[n])
         PROVE  \E i \in 1..(n - 1) : Ranked[i] = c
    <2>1. ordered[n] \in Range(candidates) /\ n \in DOMAIN ordered /\ Ranked[n] = ordered[n]
      BY <1>9, <1>11, <1>13 DEF Range
    <2>2. key[c] > key[ordered[n]]
      BY <1>5, <1>6, <1>13, <2>1
    <2>3. PICK i \in 1..(n - 1) : ordered[i] = c
      BY <1>9, <2>1, <2>2 DEF Ahead
    <2>4. i \in DOMAIN Ranked
      BY <1>11, <1>13, <2>3
    <2>5. QED
      BY <1>11, <2>3, <2>4
  <1>14. QED
    BY <1>11, <1>12, <1>13

-----------------------------------------------------------------------------
(***************************************************************************)
(* The inductive invariant: at each stage the lists are what the code      *)
(* before it computes from the hits.  The hits themselves are any that the *)
(* searches may return.                                                    *)
(***************************************************************************)
RetrievalInv ==
  /\ TypeOK
  /\ stage \in {"fused", "ranked"} => candidates = First(Fused, Pool)
  /\ stage = "ranked" => results = Ranked

LEMMA ListsAreHits ==
  ASSUME NEW hits \in Lists(Chunks, Limit)
  PROVE  Hits(hits)
  <1>1. Limit \in Nat
    BY RetrievalAssumption
  <1>2. PICK m \in 0..Limit : hits \in [1..m -> Chunks]
    BY DEF Lists, SeqOf
  <1>3. hits \in Seq(Chunks) /\ Len(hits) = m
    BY <1>1, <1>2
  <1>4. QED
    BY <1>1, <1>3 DEF Lists, Hits

\* The type invariant in terms of the lists.
LEMMA TypeOKIs ==
  TypeOK <=>
    /\ relevance \in [Chunks -> Levels]
    /\ Hits(vec) /\ Hits(kw)
    /\ candidates \in Seq(Chunks) /\ IsInjective(candidates) /\ Len(candidates) <= Pool
    /\ results \in Seq(Chunks) /\ IsInjective(results) /\ Len(results) <= TopK
    /\ stage \in {"embedded", "vector", "found", "fused", "ranked"}
  BY DEF TypeOK, Hits

LEMMA RetrievalInvInit == Init => RetrievalInv
  <1> SUFFICES ASSUME Init PROVE RetrievalInv
    OBVIOUS
  <1>1. Limit \in Nat /\ Pool \in Nat /\ TopK \in Nat
    BY RetrievalAssumption
  <1>2. <<>> \in Seq(Chunks) /\ Len(<<>>) = 0 /\ IsInjective(<<>>)
    BY DEF IsInjective
  <1>3. TypeOK
    BY <1>1, <1>2 DEF Init, TypeOK
  <1>4. QED
    BY <1>3 DEF Init, RetrievalInv

LEMMA RetrievalInvNext == RetrievalInv /\ [Next]_vars => RetrievalInv'
  <1> SUFFICES ASSUME RetrievalInv, [Next]_vars PROVE RetrievalInv'
    OBVIOUS
  <1>1. TypeOK /\ Hits(vec) /\ Hits(kw)
    BY TypeOKIs DEF RetrievalInv
  <1>2. CASE UNCHANGED vars
    BY <1>1, <1>2 DEF vars, RetrievalInv, TypeOK, Fused, FusionScore, Reciprocal, Ranked, Boosted
  <1>3. CASE SearchVector
    <2>1. Hits(vec')
      BY <1>3, ListsAreHits DEF SearchVector
    <2>2. TypeOK'
      BY <1>1, <1>3, <2>1 DEF SearchVector, TypeOK, Hits
    <2>3. QED
      BY <1>3, <2>2 DEF SearchVector, RetrievalInv
  <1>4. CASE SearchKeyword
    <2>1. Hits(kw')
      BY <1>4, ListsAreHits DEF SearchKeyword
    <2>2. TypeOK'
      BY <1>1, <1>4, <2>1 DEF SearchKeyword, TypeOK, Hits
    <2>3. QED
      BY <1>4, <2>2 DEF SearchKeyword, RetrievalInv
  <1>5. CASE Fuse
    <2>1. Fused \in Seq(Chunks) /\ IsInjective(Fused) /\ Pool \in Nat
      BY <1>1, FusedFacts, RetrievalAssumption
    <2>2. candidates' \in Seq(Chunks) /\ IsInjective(candidates') /\ Len(candidates') <= Pool
      BY <1>5, <2>1, FirstFacts DEF Fuse
    <2>3. TypeOK'
      BY <1>1, <1>5, <2>2 DEF Fuse, TypeOK
    <2>4. candidates' = First(Fused, Pool)'
      BY <1>5 DEF Fuse, Fused, FusionScore, Reciprocal
    <2>5. QED
      BY <1>5, <2>3, <2>4 DEF Fuse, RetrievalInv
  <1>6. CASE Rank
    <2>1. Ranked \in Seq(Chunks) /\ IsInjective(Ranked) /\ Len(Ranked) <= TopK
      BY <1>1, RankedFacts DEF TypeOK
    <2>2. TypeOK'
      BY <1>1, <1>6, <2>1 DEF Rank, TypeOK
    <2>3. candidates' = First(Fused, Pool)'
      BY <1>6 DEF Rank, RetrievalInv, Fused, FusionScore, Reciprocal
    <2>4. results' = Ranked'
      BY <1>6 DEF Rank, Ranked, Boosted
    <2>5. QED
      BY <2>2, <2>3, <2>4 DEF RetrievalInv
  <1>7. QED
    BY <1>2, <1>3, <1>4, <1>5, <1>6 DEF Next

LEMMA RetrievalInvAlways == Spec => []RetrievalInv
  BY RetrievalInvInit, RetrievalInvNext, PTL DEF Spec

-----------------------------------------------------------------------------
(***************************************************************************)
(* What a search promises.                                                 *)
(***************************************************************************)

\* The lists are lists of different chunks within their limits, whatever the searches find.
THEOREM RetrievalTypeCorrect == Spec => []TypeOK
  <1>1. RetrievalInv => TypeOK
    BY DEF RetrievalInv
  <1>2. QED
    BY <1>1, RetrievalInvAlways, PTL

\* Fusion prefers a hit that both searches put first.
THEOREM FusionIsFair == Spec => []FusionFollowsSearches
  <1>1. ASSUME RetrievalInv, stage = "fused", NEW n \in DOMAIN candidates,
               NEW c \in Range(vec) \cup Range(kw), BetterEverywhere(c, candidates[n])
        PROVE  \E i \in 1..(n - 1) : candidates[i] = c
    <2>1. PICK d : d = candidates[n]
      OBVIOUS
    <2>2. Hits(vec) /\ Hits(kw) /\ Pool \in Nat
      BY <1>1, TypeOKIs, RetrievalAssumption DEF RetrievalInv
    <2>3. /\ Fused \in Seq(Chunks) /\ Range(Fused) = Range(vec) \cup Range(kw)
          /\ \A m \in DOMAIN Fused, x \in Range(vec) \cup Range(kw) :
               FusionScore(x) > FusionScore(Fused[m]) => \E i \in 1..(m - 1) : Fused[i] = x
      BY <2>2, FusedFacts
    <2>4. candidates = First(Fused, Pool)
      BY <1>1 DEF RetrievalInv
    <2>5. /\ candidates \in Seq(Chunks)
          /\ \A i \in DOMAIN candidates : i \in DOMAIN Fused /\ candidates[i] = Fused[i]
      BY <2>2, <2>3, <2>4, FirstFacts
    <2>6. d \in Range(vec) \cup Range(kw) /\ n \in DOMAIN Fused /\ Fused[n] = d
      BY <2>1, <2>3, <2>5 DEF Range
    <2>7. \A list \in {vec, kw} :
            \A j \in DOMAIN list : list[j] = d => \E i \in 1..(j - 1) : list[i] = c
      BY <1>1, <2>1 DEF BetterEverywhere
    <2>8. /\ Reciprocal(vec, c) >= Reciprocal(vec, d) /\ Reciprocal(kw, c) >= Reciprocal(kw, d)
          /\ d \in Range(vec) => Reciprocal(vec, c) > Reciprocal(vec, d)
          /\ d \in Range(kw) => Reciprocal(kw, c) > Reciprocal(kw, d)
      BY <2>2, <2>7, BeforeGetsMore
    <2>9. /\ Reciprocal(vec, c) \in Nat /\ Reciprocal(vec, d) \in Nat
          /\ Reciprocal(kw, c) \in Nat /\ Reciprocal(kw, d) \in Nat
      BY <2>2, ReciprocalOf
    <2>10. FusionScore(c) > FusionScore(d)
      BY <2>6, <2>8, <2>9 DEF FusionScore
    <2>11. PICK i \in 1..(n - 1) : Fused[i] = c
      BY <2>3, <2>6, <2>10
    <2>12. i \in DOMAIN candidates
      BY <1>1, <2>5, <2>11
    <2>13. QED
      BY <2>5, <2>11, <2>12
  <1>2. RetrievalInv => FusionFollowsSearches
    BY <1>1 DEF FusionFollowsSearches
  <1>3. QED
    BY <1>2, RetrievalInvAlways, PTL

\* A fix as relevant as a manual's chunk comes before it, and is not cut off by it.
THEOREM FixesComeFirst == Spec => []FixesFirst
  <1>1. ASSUME RetrievalInv, stage = "ranked", NEW n \in DOMAIN results,
               NEW f \in Fixes \cap Range(candidates), results[n] \in Manuals,
               relevance[f] >= relevance[results[n]], relevance[f] > 0
        PROVE  \E i \in 1..(n - 1) : results[i] = f
    <2>1. /\ relevance \in [Chunks -> Levels] /\ candidates \in Seq(Chunks)
          /\ results = Ranked
      BY <1>1, TypeOKIs DEF RetrievalInv
    <2>2. PICK m : m = results[n]
      OBVIOUS
    <2>3. relevance[f] \in Nat /\ relevance[m] \in Nat
      BY <1>1, <2>1, <2>2, ScoreType DEF Chunks
    <2>4. Boosted(f) = 115 * relevance[f] /\ Boosted(m) = 100 * relevance[m]
      BY <1>1, <2>2, RetrievalAssumption DEF Boosted
    <2>5. Boosted(f) > Boosted(m)
      BY <1>1, <2>2, <2>3, <2>4
    <2>6. QED
      BY <1>1, <2>1, <2>2, <2>5, RankedFacts
  <1>2. RetrievalInv => FixesFirst
    BY <1>1 DEF FixesFirst
  <1>3. QED
    BY <1>2, RetrievalInvAlways, PTL

\* A question is escalated unasked when and only when nothing in the pool would do.
THEOREM EscalationIsJust == Spec => []EscalatesWhenNothingReaches
  <1>1. ASSUME RetrievalInv, stage = "ranked"
        PROVE  Band = "low" <=> \A c \in Range(candidates) : Boosted(c) < 4500
    <2>1. /\ relevance \in [Chunks -> Levels] /\ candidates \in Seq(Chunks)
          /\ results = Ranked
      BY <1>1, TypeOKIs DEF RetrievalInv
    <2>2. /\ results \in Seq(Chunks) /\ Range(results) \subseteq Range(candidates)
          /\ candidates # <<>> => results # <<>>
          /\ \A n \in DOMAIN results, c \in Range(candidates) :
               Boosted(c) > Boosted(results[n]) => \E i \in 1..(n - 1) : results[i] = c
      BY <2>1, RankedFacts
    <2>3. \A c \in Chunks : Boosted(c) \in Nat
      BY <2>1, ScoreType
    <2>4. CASE results = <<>>
      <3>1. Range(candidates) = {}
        BY <2>2, <2>4 DEF Range
      <3>2. QED
        BY <2>4, <3>1 DEF Band
    <2>5. CASE results # <<>>
      <3>1. 1 \in DOMAIN results
        BY <2>2, <2>5
      <3>2. results[1] \in Range(candidates) /\ results[1] \in Chunks
        <4>1. results[1] \in Chunks /\ results[1] \in Range(results)
          BY <2>2, <3>1 DEF Range
        <4>2. QED
          BY <2>2, <4>1
      <3>3. ASSUME NEW c \in Range(candidates) PROVE ~ Boosted(c) > Boosted(results[1])
        <4>1. ~ \E i \in 1..(1 - 1) : results[i] = c
          OBVIOUS
        <4>2. QED
          BY <2>2, <3>1, <4>1
      <3>4. Range(candidates) \subseteq Chunks
        BY <2>1, ElementsOf
      <3>5. Band = "low" <=> ~ Boosted(results[1]) >= 4500
        BY <2>3, <2>5, <3>2 DEF Band
      <3>6. QED
        BY <2>3, <3>2, <3>3, <3>4, <3>5
    <2>6. QED
      BY <2>4, <2>5
  <1>2. RetrievalInv => EscalatesWhenNothingReaches
    BY <1>1 DEF EscalatesWhenNothingReaches
  <1>3. QED
    BY <1>2, RetrievalInvAlways, PTL

\* An abbreviated citation never points at another source.
THEOREM CitationsPointRight == Spec => []PointsAtWhatWasMeant
  <1>1. ASSUME RetrievalInv, NEW c \in Range(results)
        PROVE  Resolves(IdOf[c], c)
    BY <1>1 DEF Resolves
  <1>2. ASSUME RetrievalInv, NEW c \in Range(results), NEW n \in 1..Len(IdOf[c]),
               NEW d \in Range(results), Resolves(SubSeq(IdOf[c], 1, n), d)
        PROVE  d = c
    <2>1. c \in Chunks /\ d \in Chunks
      BY <1>2, TypeOKIs, ElementsOf DEF RetrievalInv
    <2>2. /\ IdOf[c] \in Seq(0..15) /\ IdOf[d] \in Seq(0..15) /\ Len(IdOf[c]) = Len(IdOf[d])
          /\ IdOf[c] = IdOf[d] => c = d
      BY <2>1, RetrievalAssumption
    <2>3. PICK id, token : id = IdOf[c] /\ token = SubSeq(IdOf[c], 1, n)
      OBVIOUS
    <2>4. id \in Seq(0..15) /\ n \in 1..Len(id) /\ Len(id) \in Nat
      BY <2>2, <2>3
    <2>5. token \in Seq(0..15) /\ Len(token) = n /\ token = SubSeq(id, 1, n)
      BY <2>3, <2>4
    <2>6. CASE token = IdOf[d]
      <3>1. n = Len(id)
        BY <2>2, <2>3, <2>5, <2>6
      <3>2. token = id
        BY <2>4, <2>5, <3>1
      <3>3. QED
        BY <2>2, <2>3, <2>6, <3>2
    <2>7. CASE {e \in Range(results) : IsPrefix(token, IdOf[e])} = {d}
      <3>1. SubSeq(token, 1, n) = token
        BY <2>4, <2>5
      <3>2. IsPrefix(token, id)
        BY <2>4, <2>5, <3>1 DEF IsPrefix
      <3>3. c \in {e \in Range(results) : IsPrefix(token, IdOf[e])}
        BY <2>3, <3>2
      <3>4. QED
        BY <2>7, <3>3
    <2>8. QED
      BY <1>2, <2>3, <2>6, <2>7 DEF Resolves
  <1>3. RetrievalInv => PointsAtWhatWasMeant
    BY <1>1, <1>2 DEF PointsAtWhatWasMeant
  <1>4. QED
    BY <1>3, RetrievalInvAlways, PTL

=============================================================================
