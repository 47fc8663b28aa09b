-------------------------- MODULE SelectionsProofs --------------------------
(***************************************************************************)
(* Facts about the list operations of Selections, for lists of any length: *)
(* the numbering of a finite set of places is a bijection, so removeAll    *)
(* returns a list of what it keeps and never makes a count larger.         *)
(***************************************************************************)
EXTENDS Selections, FiniteSetTheorems, SequenceTheorems, TLAPS

\* The numbers up to n are n.
LEMMA SizeUpTo ==
    ASSUME NEW n \in Nat
    PROVE  Cardinality(1..n) = n
<1>1. Cardinality(1..n) = IF 1 > n THEN 0 ELSE n - 1 + 1
  BY FS_Interval
<1> QED
  BY <1>1

\* The rank of an element of K is a number between 1 and the size of K.
LEMMA RankRange ==
    ASSUME NEW K \in SUBSET Int, IsFiniteSet(K), NEW i \in K
    PROVE  Rank(K, i) \in 1..Cardinality(K)
<1> DEFINE L == {k \in K : k <= i}
<1>1. L \in SUBSET K /\ i \in L
  OBVIOUS
<1>2. IsFiniteSet(L) /\ Cardinality(L) <= Cardinality(K)
  BY <1>1, FS_Subset
<1>3. Cardinality(L) # 0
  BY <1>1, <1>2, FS_EmptySet
<1>4. Cardinality(L) \in Nat /\ Cardinality(K) \in Nat
  BY <1>2, FS_CardinalityType
<1>5. Rank(K, i) = Cardinality(L)
  BY DEF Rank
<1> HIDE DEF L
<1> QED
  BY <1>2, <1>3, <1>4, <1>5

\* A larger element has a larger rank.
LEMMA RankIncreases ==
    ASSUME NEW K \in SUBSET Int, IsFiniteSet(K), NEW i \in K, NEW j \in K, i < j
    PROVE  Rank(K, i) # Rank(K, j)
<1> DEFINE L == {k \in K : k <= i}
           M == {k \in K : k <= j}
<1>1. M \in SUBSET K /\ L \in SUBSET M /\ j \in M /\ j \notin L
  <2>1. i \in Int /\ j \in Int /\ \A k \in K : k \in Int
    OBVIOUS
  <2>2. \A k \in K : k <= i => k <= j
    BY <2>1
  <2>3. j <= j /\ ~(j <= i)
    BY <2>1
  <2> QED
    BY <2>2, <2>3
<1>2. IsFiniteSet(M)
  BY <1>1, FS_Subset
<1>3. Cardinality(M) = Cardinality(L) => M = L
  BY <1>1, <1>2, FS_Subset
<1>4. Rank(K, i) = Cardinality(L) /\ Rank(K, j) = Cardinality(M)
  BY DEF Rank
<1> HIDE DEF L, M
<1> QED
  BY <1>1, <1>3, <1>4

\* Two elements of a finite set of integers have different ranks.
LEMMA RankInjective ==
    ASSUME NEW K \in SUBSET Int, IsFiniteSet(K), NEW i \in K, NEW j \in K,
           Rank(K, i) = Rank(K, j)
    PROVE  i = j
<1>1. i < j \/ j < i \/ i = j
  OBVIOUS
<1> QED
  BY <1>1, RankIncreases

\* Every number up to the size of K is the rank of an element, which Nth finds.
LEMMA NthFacts ==
    ASSUME NEW K \in SUBSET Int, IsFiniteSet(K), NEW j \in 1..Cardinality(K)
    PROVE  Nth(K, j) \in K /\ Rank(K, Nth(K, j)) = j
<1> DEFINE T == 1..Cardinality(K)
           f == [i \in K |-> Rank(K, i)]
<1>1. Cardinality(K) \in Nat
  BY FS_CardinalityType
<1>2. IsFiniteSet(T) /\ Cardinality(T) = Cardinality(K)
  BY <1>1, FS_Interval
<1>3. f \in [K -> T]
  BY RankRange
<1>4. \A a, b \in K : f[a] = f[b] => a = b
  BY RankInjective
<1>5. f \in Injection(K, T)
  BY <1>3, <1>4 DEF Injection, IsInjective
<1> HIDE DEF T
<1>6. f \in Surjection(K, T)
  BY <1>2, <1>5, FS_Injection
<1>7. \E i \in K : f[i] = j
  BY <1>6 DEF Surjection, T
<1>8. \E i \in K : Rank(K, i) = j
  BY <1>7
<1> QED
  BY <1>8 DEF Nth

\* Nth undoes Rank.
LEMMA NthOfRank ==
    ASSUME NEW K \in SUBSET Int, IsFiniteSet(K), NEW i \in K
    PROVE  Nth(K, Rank(K, i)) = i
<1>1. Rank(K, i) \in 1..Cardinality(K)
  BY RankRange
<1>2. PICK m : m = Nth(K, Rank(K, i))
  OBVIOUS
<1>3. m \in K /\ Rank(K, m) = Rank(K, i)
  BY <1>1, <1>2, NthFacts
<1> QED
  BY <1>2, <1>3, RankInjective

\* The places of a list are finitely many naturals.
LEMMA PlacesFinite ==
    ASSUME NEW S, NEW s \in Seq(S), NEW V
    PROVE  /\ Places(s, V) \in SUBSET (1..Len(s))
           /\ IsFiniteSet(Places(s, V)) /\ Count(s, V) \in Nat
           /\ DOMAIN s \ Places(s, V) \in SUBSET (1..Len(s))
           /\ IsFiniteSet(DOMAIN s \ Places(s, V))
<1>1. DOMAIN s = 1..Len(s) /\ Len(s) \in Nat
  BY LenProperties
<1>2. Places(s, V) \in SUBSET (1..Len(s)) /\ DOMAIN s \ Places(s, V) \in SUBSET (1..Len(s))
  BY <1>1 DEF Places
<1>3. IsFiniteSet(1..Len(s))
  BY <1>1, FS_Interval
<1>4. IsFiniteSet(Places(s, V)) /\ IsFiniteSet(DOMAIN s \ Places(s, V))
  BY <1>2, <1>3, FS_Subset
<1> QED
  BY <1>2, <1>4, FS_CardinalityType DEF Count

\* removeAll keeps the elements at the places that it does not remove.
LEMMA RemoveAllFacts ==
    ASSUME NEW S, NEW s \in Seq(S), NEW V
    PROVE  LET keep == DOMAIN s \ Places(s, V)
           IN  /\ RemoveAll(s, V) \in Seq(S)
               /\ DOMAIN RemoveAll(s, V) = 1..Cardinality(keep)
               /\ \A j \in 1..Cardinality(keep) :
                     /\ Nth(keep, j) \in keep /\ Rank(keep, Nth(keep, j)) = j
                     /\ RemoveAll(s, V)[j] = s[Nth(keep, j)]
                     /\ RemoveAll(s, V)[j] \in S \ V
<1> DEFINE keep == DOMAIN s \ Places(s, V)
           n == Cardinality(keep)
<1>1. keep \in SUBSET (1..Len(s)) /\ IsFiniteSet(keep) /\ keep \in SUBSET Int
  BY PlacesFinite, LenProperties
<1>2. n \in Nat
  BY <1>1, FS_CardinalityType
<1>3. \A i \in keep : s[i] \in S \ V
  BY <1>1, ElementOfSeq DEF Places
<1>4. RemoveAll(s, V) = [j \in 1..n |-> s[Nth(keep, j)]]
  BY DEF RemoveAll
<1> HIDE DEF keep
<1>5. \A j \in 1..n : Nth(keep, j) \in keep /\ Rank(keep, Nth(keep, j)) = j
  BY <1>1, NthFacts
<1>6. \A j \in 1..n : RemoveAll(s, V)[j] = s[Nth(keep, j)] /\ RemoveAll(s, V)[j] \in S \ V
  BY <1>3, <1>4, <1>5
<1>7. RemoveAll(s, V) \in [1..n -> S]
  BY <1>4, <1>6
<1>8. RemoveAll(s, V) \in Seq(S)
  BY <1>2, <1>7, SeqDef
<1> QED
  BY <1>4, <1>5, <1>6, <1>8 DEF keep

\* Removing never makes a count larger.
LEMMA CountRemoveAll ==
    ASSUME NEW S, NEW s \in Seq(S), NEW V, NEW W
    PROVE  Count(RemoveAll(s, V), W) <= Count(s, W)
<1> DEFINE keep == DOMAIN s \ Places(s, V)
           r == RemoveAll(s, V)
           A == Places(r, W)
           B == Places(s, W)
           f == [j \in A |-> Nth(keep, j)]
<1>1. /\ DOMAIN r = 1..Cardinality(keep)
      /\ \A j \in 1..Cardinality(keep) :
            /\ Nth(keep, j) \in keep /\ Rank(keep, Nth(keep, j)) = j
            /\ r[j] = s[Nth(keep, j)]
  BY RemoveAllFacts
<1>2. A \subseteq 1..Cardinality(keep) /\ \A j \in A : r[j] \in W
  BY <1>1 DEF Places
<1>3. keep \subseteq DOMAIN s
  OBVIOUS
<1>4. IsFiniteSet(B)
  BY PlacesFinite
<1>5. B = {i \in DOMAIN s : s[i] \in W}
  BY DEF Places
<1> HIDE DEF keep, r, A, B
<1>6. f \in [A -> B]
  BY <1>1, <1>2, <1>3, <1>5
<1>7. \A a, b \in A : f[a] = f[b] => a = b
  BY <1>1, <1>2
<1>8. f \in Injection(A, B)
  BY <1>6, <1>7 DEF Injection, IsInjective
<1>9. Cardinality(A) <= Cardinality(B)
  BY <1>4, <1>8, FS_Injection
<1> QED
  BY <1>9 DEF Count, A, B, r

\* Appending an element counts it if it is in W, and nothing else changes.
LEMMA CountAppend ==
    ASSUME NEW S, NEW s \in Seq(S), NEW e \in S, NEW W
    PROVE  Count(Append(s, e), W) = Count(s, W) + (IF e \in W THEN 1 ELSE 0)
<1> DEFINE a == Append(s, e)
<1>1. Len(s) \in Nat /\ DOMAIN s = 1..Len(s)
  BY LenProperties
<1>2. /\ a \in Seq(S) /\ Len(a) = Len(s) + 1
      /\ \A i \in 1..Len(s) : a[i] = s[i]
      /\ a[Len(s) + 1] = e
  BY AppendProperties
<1>3. DOMAIN a = 1..(Len(s) + 1)
  BY <1>2, LenProperties
<1>4. IsFiniteSet(Places(s, W)) /\ Count(s, W) \in Nat /\ Len(s) + 1 \notin Places(s, W)
  <2>1. /\ IsFiniteSet(Places(s, W)) /\ Count(s, W) \in Nat
        /\ Places(s, W) \in SUBSET (1..Len(s))
    BY PlacesFinite
  <2>2. Len(s) + 1 \notin 1..Len(s)
    BY <1>1
  <2> QED
    BY <2>1, <2>2
<1> HIDE DEF a
<1>5. CASE e \in W
  <2>1. Places(a, W) = Places(s, W) \cup {Len(s) + 1}
    BY <1>1, <1>2, <1>3, <1>5 DEF Places
  <2>2. Cardinality(Places(a, W)) = Cardinality(Places(s, W)) + 1
    BY <1>4, <2>1, FS_AddElement
  <2> QED
    BY <1>5, <2>2 DEF Count, a
<1>6. CASE e \notin W
  <2>1. Places(a, W) = Places(s, W)
    BY <1>1, <1>2, <1>3, <1>6 DEF Places
  <2> QED
    BY <1>4, <1>6, <2>1 DEF Count, a
<1> QED
  BY <1>5, <1>6

\* What removeAll keeps are the elements outside V, from different places.
LEMMA RemoveAllElements ==
    ASSUME NEW S, NEW s \in Seq(S), NEW V
    PROVE  /\ ~Contains(RemoveAll(s, V), V)
           /\ \A W : W \cap V = {} => (Contains(RemoveAll(s, V), W) <=> Contains(s, W))
           /\ \A j \in DOMAIN RemoveAll(s, V) : \E p \in DOMAIN s : RemoveAll(s, V)[j] = s[p]
           /\ \A j, k \in DOMAIN RemoveAll(s, V) : j # k =>
                 \E p, q \in DOMAIN s : p # q /\ RemoveAll(s, V)[j] = s[p] /\ RemoveAll(s, V)[k] = s[q]
<1> DEFINE keep == DOMAIN s \ Places(s, V)
           n == Cardinality(keep)
           r == RemoveAll(s, V)
<1>1. /\ DOMAIN r = 1..n
      /\ \A j \in 1..n : /\ Nth(keep, j) \in keep /\ Rank(keep, Nth(keep, j)) = j
                         /\ r[j] = s[Nth(keep, j)] /\ r[j] \in S \ V
  BY RemoveAllFacts
<1>2. keep \in SUBSET Int /\ IsFiniteSet(keep) /\ keep \subseteq DOMAIN s
  BY PlacesFinite, LenProperties
<1>3. \A i \in DOMAIN s : i \in keep <=> s[i] \notin V
  BY DEF Places
<1> HIDE DEF keep, r
<1>4. ASSUME NEW i \in keep PROVE \E j \in DOMAIN r : r[j] = s[i]
  <2>1. Rank(keep, i) \in 1..n
    BY <1>2, RankRange
  <2>2. Nth(keep, Rank(keep, i)) = i
    BY <1>2, NthOfRank
  <2> QED
    BY <1>1, <2>1, <2>2
<1>5. ~Contains(r, V)
  BY <1>1 DEF Contains, Places
<1>6. ASSUME NEW W, W \cap V = {} PROVE Contains(r, W) <=> Contains(s, W)
  <2>1. ASSUME Contains(r, W) PROVE Contains(s, W)
    BY <1>1, <1>2, <2>1 DEF Contains, Places
  <2>2. ASSUME Contains(s, W) PROVE Contains(r, W)
    <3>1. PICK i \in DOMAIN s : s[i] \in W
      BY <2>2 DEF Contains, Places
    <3>2. i \in keep
      BY <1>3, <1>6, <3>1
    <3> QED
      BY <1>4, <3>1, <3>2 DEF Contains, Places
  <2> QED
    BY <2>1, <2>2
<1>7. \A j \in DOMAIN r : \E p \in DOMAIN s : r[j] = s[p]
  BY <1>1, <1>2
<1>8. ASSUME NEW j \in DOMAIN r, NEW k \in DOMAIN r, j # k
      PROVE  \E p, q \in DOMAIN s : p # q /\ r[j] = s[p] /\ r[k] = s[q]
  <2>1. Nth(keep, j) # Nth(keep, k)
    BY <1>1, <1>8
  <2> QED
    BY <1>1, <1>2, <1>8, <2>1
<1> QED
  BY <1>5, <1>6, <1>7, <1>8 DEF r

\* A list with one more element contains it as well.
LEMMA ContainsAppend ==
    ASSUME NEW S, NEW s \in Seq(S), NEW e \in S, NEW W
    PROVE  Contains(Append(s, e), W) <=> Contains(s, W) \/ e \in W
<1>1. /\ Append(s, e) \in Seq(S) /\ Len(Append(s, e)) = Len(s) + 1
      /\ \A i \in 1..Len(s) : Append(s, e)[i] = s[i]
      /\ Append(s, e)[Len(s) + 1] = e
  BY AppendProperties
<1>2. /\ DOMAIN s = 1..Len(s) /\ Len(s) \in Nat
      /\ DOMAIN Append(s, e) = 1..(Len(s) + 1)
  BY <1>1, LenProperties
<1>3. /\ 1..Len(s) \subseteq 1..(Len(s) + 1) /\ Len(s) + 1 \in 1..(Len(s) + 1)
      /\ \A i \in 1..(Len(s) + 1) : i \in 1..Len(s) \/ i = Len(s) + 1
  BY <1>2
<1> QED
  BY <1>1, <1>2, <1>3 DEF Contains, Places

\* Two lists of one length lose the same places.
LEMMA RemoveAllAlike ==
    ASSUME NEW S, NEW s \in Seq(S), NEW t \in Seq(S), Len(s) = Len(t),
           NEW V, NEW W, Places(s, V) = Places(t, W)
    PROVE  /\ Len(RemoveAll(s, V)) = Len(RemoveAll(t, W))
           /\ DOMAIN RemoveAll(s, V) = DOMAIN RemoveAll(t, W)
           /\ \A j \in DOMAIN RemoveAll(s, V) :
                 \E p \in DOMAIN s : RemoveAll(s, V)[j] = s[p] /\ RemoveAll(t, W)[j] = t[p]
<1> DEFINE keep == DOMAIN s \ Places(s, V)
<1>1. DOMAIN s = 1..Len(s) /\ DOMAIN t = 1..Len(t)
  BY LenProperties
<1>2. keep = DOMAIN t \ Places(t, W)
  BY <1>1
<1>3. /\ RemoveAll(s, V) \in Seq(S) /\ DOMAIN RemoveAll(s, V) = 1..Cardinality(keep)
      /\ \A j \in 1..Cardinality(keep) : Nth(keep, j) \in keep /\ RemoveAll(s, V)[j] = s[Nth(keep, j)]
  BY RemoveAllFacts
<1>4. /\ RemoveAll(t, W) \in Seq(S) /\ DOMAIN RemoveAll(t, W) = 1..Cardinality(keep)
      /\ \A j \in 1..Cardinality(keep) : RemoveAll(t, W)[j] = t[Nth(keep, j)]
  BY <1>2, RemoveAllFacts
<1>5. keep \subseteq DOMAIN s /\ Cardinality(keep) \in Nat
  BY PlacesFinite, FS_CardinalityType
<1> HIDE DEF keep
<1>6. Len(RemoveAll(s, V)) = Cardinality(keep) /\ Len(RemoveAll(t, W)) = Cardinality(keep)
  BY <1>3, <1>4, <1>5, LenProperties
<1> QED
  BY <1>3, <1>4, <1>5, <1>6
=============================================================================
