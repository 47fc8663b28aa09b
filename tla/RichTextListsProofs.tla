------------------------- MODULE RichTextListsProofs -------------------------
(***************************************************************************)
(* What the list helpers promise, for texts of any length.                 *)
(*                                                                         *)
(* The code walks through texts, paragraphs and groups in loops, which the *)
(* model writes as recursive functions.  The proofs show that each of them *)
(* exists and reason about it by induction, with a set in place of the     *)
(* property (Induction).  A text is then represented as the sequence of    *)
(* its paragraphs, laid out one behind the other at rising offsets, and    *)
(* each helper is shown to do to that sequence what it does to the text.   *)
(***************************************************************************)
EXTENDS RichTextLists, FiniteSetTheorems, SequenceTheorems, TLAPS

-----------------------------------------------------------------------------
(* Induction and recursion on natural numbers.                             *)

\* A non-empty set of naturals has a least element: otherwise counting the
\* smaller elements would map n elements one to one into 1..(n - 1).
LEMMA LeastNatural ==
    ASSUME NEW T, T \subseteq Nat, T # {}
    PROVE  \E x \in T : \A y \in T : x <= y
<1>1. PICK n \in T : TRUE
  OBVIOUS
<1>. DEFINE F == T \cap (0 .. n)
            Below(x) == {y \in F : y < x}
<1>2. IsFiniteSet(F)
  <2>1. IsFiniteSet(0 .. n)
    BY <1>1, FS_Interval
  <2>2. F \in SUBSET (0 .. n)
    OBVIOUS
  <2>. QED BY <2>1, <2>2, FS_Subset
<1>3. \A x \in F : IsFiniteSet(Below(x)) /\ Cardinality(Below(x)) \in Nat
  <2>. SUFFICES ASSUME NEW x \in F
                PROVE  IsFiniteSet(Below(x)) /\ Cardinality(Below(x)) \in Nat
    OBVIOUS
  <2>1. Below(x) \in SUBSET F
    OBVIOUS
  <2>2. IsFiniteSet(Below(x))
    BY <1>2, <2>1, FS_Subset
  <2>. QED BY <2>2, FS_CardinalityType
<1>4. \A x, z \in F : x < z => Cardinality(Below(x)) < Cardinality(Below(z))
  <2>. SUFFICES ASSUME NEW x \in F, NEW z \in F, x < z
                PROVE  Cardinality(Below(x)) < Cardinality(Below(z))
    OBVIOUS
  <2>1. Below(x) \in SUBSET Below(z) /\ x \in Below(z) /\ x \notin Below(x)
    OBVIOUS
  <2>2. Cardinality(Below(x)) <= Cardinality(Below(z)) /\ Cardinality(Below(x)) # Cardinality(Below(z))
    BY <1>3, <2>1, FS_Subset
  <2>. QED BY <1>3, <2>2
<1>. DEFINE k == Cardinality(F)
<1>5. k \in Nat /\ k # 0
  <2>1. n \in F
    BY <1>1
  <2>. HIDE DEF F
  <2>. QED BY <1>2, <2>1, FS_CardinalityType, FS_EmptySet
<1>6. \A x \in F : Cardinality(Below(x)) < k
  <2>. SUFFICES ASSUME NEW x \in F PROVE Cardinality(Below(x)) < k
    OBVIOUS
  <2>1. Below(x) \in SUBSET F /\ x \notin Below(x)
    OBVIOUS
  <2>2. Cardinality(Below(x)) <= k /\ Cardinality(Below(x)) # k
    BY <1>2, <2>1, FS_Subset
  <2>. QED BY <1>3, <1>5, <2>2
<1>7. SUFFICES ASSUME \A x \in F : \E y \in F : y < x
               PROVE  FALSE
  <2>1. PICK x \in F : \A y \in F : ~(y < x)
    BY <1>7
  <2>. QED BY <2>1
<1>8. \A x \in F : Cardinality(Below(x)) # 0
  <2>. SUFFICES ASSUME NEW x \in F PROVE Cardinality(Below(x)) # 0
    OBVIOUS
  <2>1. Below(x) # {}
    BY <1>7
  <2>. QED BY <1>3, <2>1, FS_EmptySet
<1>. DEFINE h == [x \in F |-> Cardinality(Below(x))]
<1>9. h \in [F -> 1 .. (k - 1)]
  BY <1>3, <1>5, <1>6, <1>8
<1>10. IsFiniteSet(1 .. (k - 1)) /\ Cardinality(1 .. (k - 1)) < k
  <2>. HIDE DEF k
  <2>1. 1 \in Int /\ k - 1 \in Int
    BY <1>5
  <2>2. IsFiniteSet(1 .. (k - 1)) /\ Cardinality(1 .. (k - 1)) = IF 1 > k - 1 THEN 0 ELSE (k - 1) - 1 + 1
    BY <2>1, FS_Interval
  <2>. QED BY <1>5, <2>2
<1>11. PICK x \in F, y \in F : x # y /\ h[x] = h[y]
  <2>. HIDE DEF h, F
  <2>. QED BY <1>2, <1>9, <1>10, FS_PigeonHole
<1>. QED BY <1>3, <1>4, <1>11

\* Induction, with a set in place of the property.
LEMMA Induction ==
    ASSUME NEW S, 0 \in S, \A n \in Nat : n \in S => n + 1 \in S
    PROVE  Nat \subseteq S
<1>1. SUFFICES ASSUME Nat \ S # {} PROVE FALSE
  OBVIOUS
<1>2. PICK x \in Nat \ S : \A y \in Nat \ S : x <= y
  BY <1>1, LeastNatural
<1>3. x - 1 \in Nat /\ x - 1 \in S
  BY <1>2
<1>. QED BY <1>2, <1>3

\* The function f on 0..N has the first value b and then follows the step h.
Up(f, N, V, b, h) ==
    f \in [0 .. N -> V] /\ f[0] = b /\ \A i \in 1 .. N : f[i] = h[<<i, f[i - 1]>>]

\* A function on 0..N defined by its first value and a step exists.
LEMMA RecursionUp ==
    ASSUME NEW N \in Nat, NEW V, NEW b \in V, NEW h \in [(1 .. N) \X V -> V]
    PROVE  \E f : Up(f, N, V, b, h)
<1>. DEFINE Good(k, f) == f[0] = b /\ \A i \in 1 .. k : f[i] = h[<<i, f[i - 1]>>]
            S == {k \in Nat : k <= N => \E f \in [0 .. k -> V] : Good(k, f)}
<1>1. 0 \in S
  <2>1. [i \in 0 .. 0 |-> b] \in [0 .. 0 -> V] /\ Good(0, [i \in 0 .. 0 |-> b])
    OBVIOUS
  <2>. QED BY <2>1
<1>2. \A k \in Nat : k \in S => k + 1 \in S
  <2>. SUFFICES ASSUME NEW k \in Nat, k \in S, k + 1 <= N
                PROVE  \E f \in [0 .. (k + 1) -> V] : Good(k + 1, f)
    OBVIOUS
  <2>1. PICK f \in [0 .. k -> V] : Good(k, f)
    OBVIOUS
  <2>. DEFINE g == [i \in 0 .. (k + 1) |-> IF i = k + 1 THEN h[<<k + 1, f[k]>>] ELSE f[i]]
  <2>2. <<k + 1, f[k]>> \in (1 .. N) \X V
    OBVIOUS
  <2>3. h[<<k + 1, f[k]>>] \in V
    BY <2>2
  <2>4. g \in [0 .. (k + 1) -> V]
    BY <2>3
  <2>5. Good(k + 1, g)
    <3>1. g[0] = b
      BY <2>1
    <3>2. ASSUME NEW i \in 1 .. (k + 1) PROVE g[i] = h[<<i, g[i - 1]>>]
      <4>0. g[i - 1] = f[i - 1]
        OBVIOUS
      <4>1. CASE i = k + 1
        <5>1. g[k + 1] = h[<<k + 1, f[k]>>] /\ i - 1 = k
          BY <4>1
        <5>. QED BY <4>0, <4>1, <5>1
      <4>2. CASE i # k + 1
        BY <4>0, <4>2, <2>1
      <4>. QED BY <4>1, <4>2
    <3>. QED BY <3>1, <3>2
  <2>. QED BY <2>4, <2>5
<1>3. N \in S
  <2>. HIDE DEF S
  <2>. QED BY <1>1, <1>2, Induction
<1>. QED BY <1>3 DEF Up

\* The function f on 0..N has the last value b and before follows the step h, which
\* looks ahead.
Down(f, N, V, b, next, h) ==
    f \in [0 .. N -> V] /\ f[N] = b /\ \A a \in 0 .. (N - 1) : f[a] = h[<<a, f[next[a]]>>]

\* A function on 0..N whose value at N is given and that looks ahead exists.
LEMMA RecursionDown ==
    ASSUME NEW N \in Nat, NEW V, NEW b \in V,
           NEW next \in [0 .. (N - 1) -> 1 .. N], \A a \in 0 .. (N - 1) : next[a] > a,
           NEW h \in [(0 .. (N - 1)) \X V -> V]
    PROVE  \E f : Down(f, N, V, b, next, h)
<1>. DEFINE Good(k, f) == f[N] = b /\ \A a \in k .. (N - 1) : f[a] = h[<<a, f[next[a]]>>]
            S == {k \in Nat : \A m \in Nat : m + k = N => \E f \in [m .. N -> V] : Good(m, f)}
<1>1. 0 \in S
  <2>1. [i \in N .. N |-> b] \in [N .. N -> V] /\ Good(N, [i \in N .. N |-> b])
    OBVIOUS
  <2>2. \A m \in Nat : m + 0 = N => m = N
    OBVIOUS
  <2>. QED BY <2>1, <2>2
<1>2. \A k \in Nat : k \in S => k + 1 \in S
  <2>. SUFFICES ASSUME NEW k \in Nat, k \in S
                PROVE  k + 1 \in S
    OBVIOUS
  <2>. SUFFICES ASSUME NEW m \in Nat, m + (k + 1) = N
                PROVE  \E f \in [m .. N -> V] : Good(m, f)
    BY k + 1 \in Nat
  <2>0. m + 1 \in Nat /\ (m + 1) + k = N
    OBVIOUS
  <2>1. PICK f \in [(m + 1) .. N -> V] : Good(m + 1, f)
    BY <2>0
  <2>. DEFINE g == [a \in m .. N |-> IF a = m THEN h[<<m, f[next[m]]>>] ELSE f[a]]
  <2>2. m \in 0 .. (N - 1) /\ next[m] \in (m + 1) .. N /\ <<m, f[next[m]]>> \in (0 .. (N - 1)) \X V
    OBVIOUS
  <2>3. h[<<m, f[next[m]]>>] \in V
    BY <2>2
  <2>4. g \in [m .. N -> V]
    BY <2>3
  <2>5. Good(m, g)
    <3>1. g[N] = b
      BY <2>1
    <3>2. ASSUME NEW a \in m .. (N - 1) PROVE g[a] = h[<<a, g[next[a]]>>]
      <4>0. next[a] \in m .. N /\ next[a] # m /\ g[next[a]] = f[next[a]]
        BY <2>2
      <4>1. CASE a = m
        BY <4>0, <4>1
      <4>2. CASE a # m
        BY <4>0, <4>2, <2>1, SMTT(30)
      <4>. QED BY <4>1, <4>2
    <3>. QED BY <3>1, <3>2
  <2>. QED BY <2>4, <2>5
<1>3. N \in S
  <2>. HIDE DEF S
  <2>. QED BY <1>1, <1>2, Induction
<1>4. 0 \in Nat /\ 0 + N = N
  OBVIOUS
<1>. QED BY <1>3, <1>4 DEF Down

\* What Max returns.
LEMMA MaxIs ==
    ASSUME NEW S, S \subseteq Nat, S # {}, NEW m \in Nat, \A x \in S : x <= m
    PROVE  Max(S) \in S /\ \A x \in S : x <= Max(S)
<1>1. \E x \in S : \A y \in S : x >= y
  <2>. DEFINE T == {k \in Nat : m - k \in S}
  <2>1. T # {}
    <3>1. PICK x \in S : TRUE
      OBVIOUS
    <3>2. m - x \in Nat /\ m - (m - x) = x
      OBVIOUS
    <3>. QED BY <3>1, <3>2
  <2>2. PICK k \in T : \A l \in T : k <= l
    <3>. HIDE DEF T
    <3>1. T \subseteq Nat
      BY DEF T
    <3>. QED BY <2>1, <3>1, LeastNatural
  <2>3. \A y \in S : m - y \in T
    OBVIOUS
  <2>4. m - k \in S /\ \A y \in S : m - k >= y
    BY <2>2, <2>3
  <2>. QED BY <2>4
<1>. QED BY <1>1 DEF Max

\* What Min returns.
LEMMA MinIs ==
    ASSUME NEW S, S \subseteq Nat, S # {}
    PROVE  Min(S) \in S /\ \A x \in S : Min(S) <= x
<1>1. \E x \in S : \A y \in S : x =< y
  BY LeastNatural
<1>. QED BY <1>1 DEF Min

-----------------------------------------------------------------------------
(* Sequences of sequences and what FlattenSeq makes of them.               *)

\* The elements of p are those of q from the one after a to the one at b.
PieceOf(p, S, q, a, b) ==
    p \in Seq(S) /\ Len(p) = b - a /\ \A i \in 1 .. (b - a) : p[i] = q[a + i]

\* Cut returns the characters between two locations.
LEMMA CutIs ==
    ASSUME NEW S, NEW q \in Seq(S), NEW a \in Nat, NEW b \in Nat, a <= b, b <= Len(q)
    PROVE  PieceOf(Cut(q, a, b), S, q, a, b)
<1>1. PICK m \in Int : m = a + 1
  OBVIOUS
<1>2. PICK f : f = SubSeq(q, m, b)
  OBVIOUS
<1>3. Len(q) \in Nat /\ \A i \in 1 .. Len(q) : q[i] \in S
  OBVIOUS
<1>4. \A i \in m .. b : q[i] \in S
  BY <1>1, <1>3
<1>5. /\ f \in Seq(S) /\ Len(f) = IF m <= b THEN b - m + 1 ELSE 0
      /\ \A i \in 1 .. (b - m + 1) : f[i] = q[m + i - 1]
  BY <1>2, <1>4, SubSeqProperties
<1>6. Len(f) = b - a
  BY <1>1, <1>5
<1>7. \A i \in 1 .. (b - a) : f[i] = q[a + i]
  <2>. SUFFICES ASSUME NEW i \in 1 .. (b - a) PROVE f[i] = q[a + i]
    OBVIOUS
  <2>1. i \in 1 .. (b - m + 1) /\ m + i - 1 = a + i
    BY <1>1
  <2>2. f[i] = q[m + i - 1]
    BY <1>5, <2>1
  <2>. QED BY <2>1, <2>2
<1>8. Cut(q, a, b) = f
  BY <1>1, <1>2 DEF Cut
<1>. QED BY <1>5, <1>6, <1>7, <1>8 DEF PieceOf

\* A sequence that is not empty is its front with one more element.
LEMMA FrontLast ==
    ASSUME NEW S, NEW q \in Seq(S), q # <<>>
    PROVE  /\ Front(q) \in Seq(S) /\ Last(q) \in S /\ q = Append(Front(q), Last(q))
           /\ Len(Front(q)) = Len(q) - 1 /\ Last(q) = q[Len(q)]
           /\ \A i \in 1 .. (Len(q) - 1) : Front(q)[i] = q[i]
<1>1. Len(q) \in Nat \ {0}
  BY EmptySeq
<1>2. Front(q) = SubSeq(q, 1, Len(q) - 1) /\ Last(q) = q[Len(q)]
  BY DEF Front, Last
<1>3. PICK f : f = SubSeq(q, 1, Len(q) - 1)
  OBVIOUS
<1>4. /\ f \in Seq(S) /\ Len(f) = Len(q) - 1
      /\ \A i \in 1 .. (Len(q) - 1) : f[i] = q[i]
  <2>1. PICK m \in Nat : m = Len(q) - 1
    BY <1>1
  <2>2. f = Cut(q, 0, m)
    BY <1>3, <2>1 DEF Cut
  <2>3. m <= Len(q) /\ 0 <= m /\ m - 0 = m /\ \A i \in 1 .. m : 0 + i = i
    BY <1>1, <2>1
  <2>4. PieceOf(Cut(q, 0, m), S, q, 0, m)
    BY <2>3, CutIs
  <2>. QED BY <2>1, <2>2, <2>3, <2>4 DEF PieceOf
<1>5. q[Len(q)] \in S
  BY <1>1
<1>6. q = Append(f, q[Len(q)])
  <2>1. PICK g : g = Append(f, q[Len(q)])
    OBVIOUS
  <2>2. /\ g \in Seq(S) /\ Len(g) = Len(q) /\ g[Len(q)] = q[Len(q)]
        /\ \A i \in 1 .. (Len(q) - 1) : g[i] = q[i]
    BY <1>1, <1>4, <1>5, <2>1
  <2>3. \A i \in 1 .. Len(q) : g[i] = q[i]
    BY <1>1, <2>2
  <2>4. q = g
    BY <2>2, <2>3, SeqEqual
  <2>. QED BY <2>1, <2>4
<1>. QED BY <1>2, <1>3, <1>4, <1>5, <1>6

\* Induction over sequences, with a set in place of the property.
LEMMA AppendInduction ==
    ASSUME NEW S, NEW T, <<>> \in T,
           \A q \in Seq(S), e \in S : q \in T => Append(q, e) \in T
    PROVE  Seq(S) \subseteq T
<1>. DEFINE K == {n \in Nat : \A q \in Seq(S) : Len(q) = n => q \in T}
<1>1. 0 \in K
  <2>1. \A q \in Seq(S) : Len(q) = 0 => q = <<>>
    BY EmptySeq
  <2>. QED BY <2>1
<1>2. ASSUME NEW n \in Nat, n \in K PROVE n + 1 \in K
  <2>. SUFFICES ASSUME NEW q \in Seq(S), Len(q) = n + 1 PROVE q \in T
    OBVIOUS
  <2>1. q # <<>>
    BY EmptySeq
  <2>2. Front(q) \in Seq(S) /\ Last(q) \in S /\ q = Append(Front(q), Last(q)) /\ Len(Front(q)) = n
    BY <2>1, FrontLast
  <2>. QED BY <1>2, <2>2
<1>3. Nat \subseteq K
  <2>. HIDE DEF K
  <2>. QED BY <1>1, <1>2, Induction
<1>. QED BY <1>3

\* f[i] is the first i members of qs joined.
Joined(f, qs, S) ==
    /\ f \in [0 .. Len(qs) -> Seq(S)] /\ f[0] = <<>>
    /\ \A i \in 1 .. Len(qs) : f[i] = f[i - 1] \o qs[i]

\* FlattenSeq joins the members one after the other.
LEMMA FlattenIs ==
    ASSUME NEW S, NEW qs \in Seq(Seq(S))
    PROVE  \E f : Joined(f, qs, S) /\ FlattenSeq(qs) = f[Len(qs)]
<1>0a. PICK V : V = Seq(S)
  OBVIOUS
<1>0b. PICK N \in Nat : N = Len(qs)
  OBVIOUS
<1>1. N = Len(qs) /\ V = Seq(S)
  BY <1>0a, <1>0b
<1>2. <<>> \in V /\ (\A i \in 1 .. N : qs[i] \in V) /\ \A x, y \in V : x \o y \in V
  BY <1>1
<1>. DEFINE h == [x \in (1 .. N) \X V |-> x[2] \o qs[x[1]]]
<1>3. h \in [(1 .. N) \X V -> V]
  BY <1>2
<1>4. PICK f \in [0 .. N -> V] :
         f[0] = <<>> /\ \A i \in 1 .. N : f[i] = h[<<i, f[i - 1]>>]
  <2>. HIDE DEF h
  <2>1. PICK b \in V : b = <<>>
    BY <1>2
  <2>2. \E f : Up(f, N, V, b, h)
    BY <1>3, RecursionUp
  <2>. QED BY <2>1, <2>2 DEF Up
<1>5. \A i \in 1 .. N : f[i] = f[i - 1] \o qs[i]
  <2>. SUFFICES ASSUME NEW i \in 1 .. N PROVE f[i] = f[i - 1] \o qs[i]
    OBVIOUS
  <2>1. f[i - 1] \in V
    OBVIOUS
  <2>2. h[<<i, f[i - 1]>>] = f[i - 1] \o qs[i]
    BY <2>1
  <2>. QED BY <1>4, <2>2
<1>0. N # 0 => f[1] = qs[1]
  <2>. SUFFICES ASSUME 1 \in 1 .. N PROVE f[1] = qs[1]
    OBVIOUS
  <2>1. f[1] = f[0] \o qs[1]
    BY <1>5, 1 - 1 = 0
  <2>2. qs[1] \in Seq(S)
    BY <1>1, <1>2
  <2>. QED BY <1>4, <2>1, <2>2
<1>6. CASE N = 0
  <2>1. qs = <<>>
    BY <1>1, <1>6, EmptySeq
  <2>2. FlattenSeq(qs) = <<>>
    BY <1>1, <1>6, <2>1 DEF FlattenSeq
  <2>. QED BY <1>1, <1>4, <1>5, <1>6, <2>2 DEF Joined
<1>7. CASE N # 0
  <2>. DEFINE Eq(g) == g = [i \in 1 .. N |-> IF i = 1 THEN qs[i] ELSE g[i - 1] \o qs[i]]
              c == CHOOSE g : Eq(g)
              g0 == [i \in 1 .. N |-> f[i]]
  <2>1. FlattenSeq(qs) = c[N]
    BY <1>1, <1>7 DEF FlattenSeq
  <2>2. Eq(g0)
    <3>1. ASSUME NEW i \in 1 .. N PROVE f[i] = IF i = 1 THEN qs[i] ELSE g0[i - 1] \o qs[i]
      <4>1. CASE i = 1
        BY <4>1, <1>0
      <4>2. CASE i # 1
        <5>1. g0[i - 1] = f[i - 1]
          BY <4>2
        <5>2. f[i] = f[i - 1] \o qs[i]
          BY <1>5, Zenon
        <5>. HIDE DEF g0
        <5>. QED BY <4>2, <5>1, <5>2, Zenon
      <4>. QED BY <4>1, <4>2
    <3>. QED BY <3>1
  <2>3. Eq(c)
    BY <2>2
  <2>. DEFINE T == {k \in Nat : k + 1 \in 1 .. N => c[k + 1] = f[k + 1]}
  <2>4. 0 \in T
    <3>1. 1 \in 1 .. N
      BY <1>1, <1>7
    <3>2. c[1] = qs[1]
      BY <2>3, <3>1
    <3>. QED BY <1>0, <1>7, <3>2
  <2>5. ASSUME NEW k \in Nat, k \in T PROVE k + 1 \in T
    <3>. SUFFICES ASSUME (k + 1) + 1 \in 1 .. N PROVE c[(k + 1) + 1] = f[(k + 1) + 1]
      OBVIOUS
    <3>1. k + 1 \in 1 .. N /\ ((k + 1) + 1) - 1 = k + 1 /\ (k + 1) + 1 # 1
      BY <1>1
    <3>2. c[(k + 1) + 1] = c[k + 1] \o qs[(k + 1) + 1]
      <4>. HIDE DEF c
      <4>. QED BY <2>3, <3>1
    <3>3. f[(k + 1) + 1] = f[k + 1] \o qs[(k + 1) + 1]
      BY <1>5, <3>1
    <3>. QED BY <2>5, <3>1, <3>2, <3>3
  <2>6. N - 1 \in T
    <3>. HIDE DEF T
    <3>1. Nat \subseteq T
      BY <2>4, <2>5, Induction
    <3>. QED BY <1>1, <1>7, <3>1
  <2>7. c[N] = f[N]
    <3>. HIDE DEF c
    <3>. QED BY <1>1, <1>7, <2>6
  <2>. QED BY <1>1, <1>4, <1>5, <2>1, <2>7 DEF Joined
<1>. QED BY <1>6, <1>7

\* Joining sequences of characters gives one.
LEMMA FlattenType ==
    ASSUME NEW S, NEW qs \in Seq(Seq(S))
    PROVE  FlattenSeq(qs) \in Seq(S)
<1>1. PICK f : Joined(f, qs, S) /\ FlattenSeq(qs) = f[Len(qs)]
  BY FlattenIs
<1>2. Len(qs) \in 0 .. Len(qs)
  OBVIOUS
<1>. QED BY <1>1, <1>2 DEF Joined

\* Joining nothing gives nothing.
LEMMA FlattenEmpty == FlattenSeq(<<>>) = <<>>
BY DEF FlattenSeq

\* One more member goes to the end.
LEMMA FlattenAppend ==
    ASSUME NEW S, NEW qs \in Seq(Seq(S)), NEW q \in Seq(S)
    PROVE  FlattenSeq(Append(qs, q)) = FlattenSeq(qs) \o q
<1>0. PICK n \in Nat : n = Len(qs)
  OBVIOUS
<1>1. PICK rs : rs = Append(qs, q)
  OBVIOUS
<1>2. /\ rs \in Seq(Seq(S)) /\ Len(rs) = n + 1 /\ rs[n + 1] = q
      /\ \A i \in 1 .. n : rs[i] = qs[i]
  BY <1>0, <1>1
<1>3. PICK f : Joined(f, qs, S) /\ FlattenSeq(qs) = f[n]
  BY <1>0, FlattenIs
<1>4. PICK g : Joined(g, rs, S) /\ FlattenSeq(rs) = g[n + 1]
  BY <1>2, FlattenIs
<1>. DEFINE K == {i \in Nat : i <= n => f[i] = g[i]}
<1>5. 0 \in K
  BY <1>3, <1>4 DEF Joined
<1>6. ASSUME NEW i \in Nat, i \in K PROVE i + 1 \in K
  <2>. SUFFICES ASSUME i + 1 <= n PROVE f[i + 1] = g[i + 1]
    OBVIOUS
  <2>1. i + 1 \in 1 .. Len(qs) /\ i + 1 \in 1 .. Len(rs) /\ (i + 1) - 1 = i /\ i + 1 \in 1 .. n
    BY <1>0, <1>2
  <2>2. f[i + 1] = f[i] \o qs[i + 1]
    BY <1>3, <2>1 DEF Joined
  <2>3. g[i + 1] = g[i] \o rs[i + 1]
    BY <1>4, <2>1 DEF Joined
  <2>4. f[i] = g[i] /\ rs[i + 1] = qs[i + 1]
    BY <1>2, <1>6, <2>1
  <2>. QED BY <2>2, <2>3, <2>4, Zenon
<1>7. n \in K
  <2>. HIDE DEF K
  <2>. QED BY <1>5, <1>6, Induction
<1>8. g[n + 1] = g[n] \o rs[n + 1]
  <2>1. n + 1 \in 1 .. Len(rs) /\ (n + 1) - 1 = n
    BY <1>2
  <2>. QED BY <1>4, <2>1 DEF Joined
<1>9. f[n] = g[n]
  BY <1>7
<1>. QED BY <1>1, <1>2, <1>3, <1>4, <1>8, <1>9, Zenon

\* The text d is made of the members of qs, the i-th of which ends at off[i].
Laid(qs, d, off) ==
    /\ off \in [0 .. Len(qs) -> Nat] /\ off[0] = 0 /\ off[Len(qs)] = Len(d)
    /\ \A i \in 1 .. Len(qs) :
          /\ off[i] = off[i - 1] + Len(qs[i])
          /\ \A j \in 1 .. Len(qs[i]) : d[off[i - 1] + j] = qs[i][j]

\* Offsets that rise from step to step.
LEMMA Rising ==
    ASSUME NEW n \in Nat, NEW off \in [0 .. n -> Nat], \A i \in 1 .. n : off[i - 1] <= off[i]
    PROVE  \A i, j \in 0 .. n : i <= j => off[i] <= off[j]
<1>. SUFFICES ASSUME NEW i \in 0 .. n PROVE \A j \in 0 .. n : i <= j => off[i] <= off[j]
  OBVIOUS
<1>. DEFINE K == {k \in Nat : i + k <= n => off[i] <= off[i + k]}
<1>1. 0 \in K
  OBVIOUS
<1>2. ASSUME NEW k \in Nat, k \in K PROVE k + 1 \in K
  <2>. SUFFICES ASSUME i + (k + 1) <= n PROVE off[i] <= off[i + (k + 1)]
    OBVIOUS
  <2>1. i + (k + 1) \in 1 .. n /\ (i + (k + 1)) - 1 = i + k /\ i + k \in 0 .. n
    OBVIOUS
  <2>2. off[i + k] <= off[i + (k + 1)]
    BY <2>1
  <2>3. off[i] <= off[i + k]
    BY <1>2, <2>1
  <2>4. off[i] \in Nat /\ off[i + k] \in Nat /\ off[i + (k + 1)] \in Nat
    BY <2>1
  <2>. QED BY <2>2, <2>3, <2>4
<1>3. Nat \subseteq K
  <2>. HIDE DEF K
  <2>. QED BY <1>1, <1>2, Induction
<1>4. \A j \in 0 .. n : i <= j => j - i \in Nat /\ i + (j - i) = j
  OBVIOUS
<1>. SUFFICES ASSUME NEW j \in 0 .. n, i <= j PROVE off[i] <= off[j]
  OBVIOUS
<1>5. j - i \in K
  BY <1>3, <1>4
<1>6. off[i] <= off[i + (j - i)]
  BY <1>4, <1>5
<1>. QED BY <1>4, <1>6

\* The offsets of pieces that lie one behind the other rise.
LEMMA LaidRises ==
    ASSUME NEW S, NEW qs \in Seq(Seq(S)), NEW d, NEW off, Laid(qs, d, off)
    PROVE  \A i, j \in 0 .. Len(qs) : i <= j => off[i] <= off[j]
<1>1. PICK n \in Nat : n = Len(qs)
  OBVIOUS
<1>2. \A i \in 1 .. n : Len(qs[i]) \in Nat
  BY <1>1
<1>3. off \in [0 .. n -> Nat] /\ \A i \in 1 .. n : off[i] = off[i - 1] + Len(qs[i])
  BY <1>1 DEF Laid
<1>4. \A i \in 1 .. n : off[i - 1] <= off[i]
  <2>. SUFFICES ASSUME NEW i \in 1 .. n PROVE off[i - 1] <= off[i]
    OBVIOUS
  <2>1. off[i - 1] \in Nat
    BY <1>3
  <2>2. off[i] = off[i - 1] + Len(qs[i]) /\ Len(qs[i]) \in Nat
    BY <1>2, <1>3
  <2>. HIDE DEF Laid
  <2>3. \A x, y \in Nat : x <= x + y
    OBVIOUS
  <2>. QED BY <2>1, <2>2, <2>3, Zenon
<1>. QED BY <1>1, <1>3, <1>4, Rising

\* One more piece lies behind the others.
LEMMA LaidAppend ==
    ASSUME NEW S, NEW qs \in Seq(Seq(S)), NEW q \in Seq(S), NEW d \in Seq(S), NEW off,
           Laid(qs, d, off)
    PROVE  \E new : Laid(Append(qs, q), d \o q, new)
<1>0. PICK n \in Nat : n = Len(qs)
  OBVIOUS
<1>1. PICK rs : rs = Append(qs, q)
  OBVIOUS
<1>2. /\ rs \in Seq(Seq(S)) /\ Len(rs) = n + 1 /\ rs[n + 1] = q
      /\ \A i \in 1 .. n : rs[i] = qs[i] /\ qs[i] \in Seq(S)
  BY <1>0, <1>1
<1>3. PICK e : e = d \o q
  OBVIOUS
<1>4. /\ Len(e) = Len(d) + Len(q) /\ Len(d) \in Nat /\ Len(q) \in Nat
      /\ \A i \in 1 .. Len(d) : e[i] = d[i]
      /\ \A i \in 1 .. Len(q) : e[Len(d) + i] = q[i]
  BY <1>3
<1>5. /\ off \in [0 .. n -> Nat] /\ off[0] = 0 /\ off[n] = Len(d)
      /\ \A i \in 1 .. n : /\ off[i] = off[i - 1] + Len(qs[i])
                           /\ \A j \in 1 .. Len(qs[i]) : d[off[i - 1] + j] = qs[i][j]
  BY <1>0 DEF Laid
<1>. DEFINE new == [i \in 0 .. (n + 1) |-> IF i = n + 1 THEN Len(e) ELSE off[i]]
<1>6. new \in [0 .. (n + 1) -> Nat] /\ new[0] = 0 /\ new[n + 1] = Len(e) /\ new[n] = Len(d)
  BY <1>4, <1>5
<1>7. ASSUME NEW i \in 1 .. (n + 1)
      PROVE  /\ new[i] = new[i - 1] + Len(rs[i])
             /\ \A j \in 1 .. Len(rs[i]) : e[new[i - 1] + j] = rs[i][j]
  <2>1. CASE i = n + 1
    <3>1. i - 1 = n
      BY <2>1
    <3>2. new[i] = Len(e) /\ new[i - 1] = Len(d) /\ rs[i] = q
      BY <1>2, <1>6, <2>1, <3>1
    <3>. QED BY <1>4, <3>2
  <2>2. CASE i # n + 1
    <3>1. i \in 1 .. n /\ new[i] = off[i] /\ new[i - 1] = off[i - 1] /\ off[i - 1] \in Nat
      BY <1>5, <2>2
    <3>2. PICK m \in Nat : m = Len(qs[i])
      BY <1>2, <3>1
    <3>3. off[i] <= Len(d)
      <4>1. i \in 0 .. n /\ n \in 0 .. n /\ i <= n
        BY <3>1
      <4>2. \A k, j \in 0 .. n : k <= j => off[k] <= off[j]
        BY <1>0, LaidRises
      <4>. QED BY <1>5, <4>1, <4>2
    <3>4. off[i] = off[i - 1] + m /\ \A j \in 1 .. m : d[off[i - 1] + j] = qs[i][j]
      BY <1>5, <3>1, <3>2
    <3>5. \A j \in 1 .. m : off[i - 1] + j \in 1 .. Len(d)
      BY <1>4, <3>1, <3>3, <3>4, SMTT(30)
    <3>6. \A j \in 1 .. m : e[off[i - 1] + j] = qs[i][j]
      BY <1>4, <3>4, <3>5
    <3>7. rs[i] = qs[i]
      BY <1>2, <3>1
    <3>. QED BY <3>1, <3>2, <3>4, <3>6, <3>7
  <2>. QED BY <2>1, <2>2
<1>8. Laid(rs, e, new)
  <2>. HIDE DEF new
  <2>. QED BY <1>2, <1>6, <1>7 DEF Laid
<1>. QED BY <1>1, <1>3, <1>8

\* The pieces of a joined sequence lie one behind the other in it.
LEMMA FlattenLaid ==
    ASSUME NEW S, NEW qs \in Seq(Seq(S))
    PROVE  \E off : Laid(qs, FlattenSeq(qs), off)
<1>. DEFINE T == {q \in Seq(Seq(S)) : \E off : Laid(q, FlattenSeq(q), off)}
<1>1. <<>> \in T
  <2>1. Laid(<<>>, <<>>, [i \in 0 .. 0 |-> 0])
    BY DEF Laid
  <2>2. <<>> \in Seq(Seq(S))
    OBVIOUS
  <2>. QED BY <2>1, <2>2, FlattenEmpty
<1>2. ASSUME NEW q \in Seq(Seq(S)), NEW e \in Seq(S), q \in T PROVE Append(q, e) \in T
  <2>1. PICK off : Laid(q, FlattenSeq(q), off)
    BY <1>2
  <2>2. FlattenSeq(q) \in Seq(S)
    BY FlattenType
  <2>3. \E new : Laid(Append(q, e), FlattenSeq(q) \o e, new)
    BY <2>1, <2>2, LaidAppend
  <2>4. FlattenSeq(Append(q, e)) = FlattenSeq(q) \o e
    BY FlattenAppend
  <2>5. Append(q, e) \in Seq(Seq(S))
    OBVIOUS
  <2>6. \E new : Laid(Append(q, e), FlattenSeq(Append(q, e)), new)
    BY <2>3, <2>4, Zenon
  <2>. QED BY <2>5, <2>6
<1>3. Seq(Seq(S)) \subseteq T
  <2>. HIDE DEF T
  <2>1. PICK V : V = Seq(S)
    OBVIOUS
  <2>2. \A q \in Seq(V), e \in V : q \in T => Append(q, e) \in T
    BY <1>2, <2>1
  <2>3. Seq(V) \subseteq T
    BY <1>1, <2>2, AppendInduction
  <2>. QED BY <2>1, <2>3
<1>. QED BY <1>3

\* The i-th member of qs is the piece of the text between its offsets.
LEMMA LaidPiece ==
    ASSUME NEW S, NEW qs \in Seq(Seq(S)), NEW d \in Seq(S), NEW off, Laid(qs, d, off),
           NEW i \in 1 .. Len(qs)
    PROVE  /\ off[i - 1] \in Nat /\ off[i] \in Nat /\ off[i - 1] <= off[i] /\ off[i] <= Len(d)
           /\ PieceOf(qs[i], S, d, off[i - 1], off[i])
           /\ Cut(d, off[i - 1], off[i]) = qs[i]
<1>1. PICK n \in Nat : n = Len(qs)
  OBVIOUS
<1>2. PICK q \in Seq(S) : q = qs[i]
  OBVIOUS
<1>3. /\ off \in [0 .. n -> Nat] /\ off[n] = Len(d) /\ off[i] = off[i - 1] + Len(q)
      /\ \A j \in 1 .. Len(q) : d[off[i - 1] + j] = q[j]
  BY <1>1, <1>2 DEF Laid
<1>4. i - 1 \in 0 .. n /\ i \in 0 .. n /\ n \in 0 .. n /\ i - 1 <= i /\ i <= n
  BY <1>1
<1>5. PICK a \in Nat, b \in Nat : a = off[i - 1] /\ b = off[i]
  BY <1>3, <1>4
<1>6. a <= b /\ b <= Len(d)
  <2>1. \A k, j \in 0 .. n : k <= j => off[k] <= off[j]
    BY <1>1, LaidRises
  <2>. QED BY <1>3, <1>4, <1>5, <2>1
<1>7. Len(q) \in Nat /\ Len(q) = b - a
  <2>1. b = a + Len(q) /\ Len(q) \in Nat
    BY <1>3, <1>5
  <2>. QED BY <2>1
<1>8. PieceOf(q, S, d, a, b)
  BY <1>3, <1>5, <1>7 DEF PieceOf
<1>9. PieceOf(Cut(d, a, b), S, d, a, b)
  BY <1>6, CutIs
<1>10. Cut(d, a, b) = q
  <2>1. PICK c : c = Cut(d, a, b)
    OBVIOUS
  <2>2. c \in Seq(S) /\ Len(c) = Len(q) /\ \A k \in 1 .. Len(c) : c[k] = q[k]
    BY <1>8, <1>9, <1>7, <2>1 DEF PieceOf
  <2>3. c = q
    BY <2>2, SeqEqual
  <2>. QED BY <2>1, <2>3
<1>. QED BY <1>2, <1>5, <1>6, <1>8, <1>10

\* Every character of the text is in one of the members.
LEMMA LaidSegment ==
    ASSUME NEW S, NEW qs \in Seq(Seq(S)), NEW d \in Seq(S), NEW off, Laid(qs, d, off),
           NEW p \in 1 .. Len(d)
    PROVE  \E i \in 1 .. Len(qs) : off[i - 1] < p /\ p <= off[i]
<1>1. PICK n \in Nat : n = Len(qs)
  OBVIOUS
<1>2. off \in [0 .. n -> Nat] /\ off[0] = 0 /\ off[n] = Len(d)
  BY <1>1 DEF Laid
<1>. DEFINE T == {i \in 0 .. n : p <= off[i]}
<1>3. n \in T
  BY <1>2
<1>4. PICK i \in T : \A k \in T : i <= k
  <2>1. T \subseteq Nat
    OBVIOUS
  <2>. HIDE DEF T
  <2>. QED BY <1>3, <2>1, LeastNatural
<1>5. i # 0
  BY <1>2
<1>6. i - 1 \in 0 .. n /\ i - 1 \notin T /\ off[i - 1] \in Nat
  BY <1>2, <1>4, <1>5
<1>. QED BY <1>1, <1>4, <1>5, <1>6

-----------------------------------------------------------------------------
(* The paragraphs of a text.                                               *)

\* The paragraph around the locations a and l reaches from lo to hi.
LineAt(d, a, l, lo, hi) ==
    /\ lo <= a /\ (lo = 0 \/ d[lo].c = "newline")
    /\ \A p \in (lo + 1) .. a : d[p].c # "newline"
    /\ hi <= Len(d) /\ (hi = Len(d) \/ (hi > l /\ d[hi].c = "newline"))
    /\ \A p \in (l + 1) .. (hi - 1) : d[p].c # "newline"

\* Where the search of parapraghRange for the end begins.
LastOf(a, b) == IF b > a THEN b - 1 ELSE a

\* parapraghRange finds that paragraph.
LEMMA RangeIs ==
    ASSUME NEW d \in Seq(Char), NEW a \in Nat, NEW b \in Nat, a <= b, b <= Len(d),
           NEW lo \in Nat, NEW hi \in Nat, LineAt(d, a, LastOf(a, b), lo, hi)
    PROVE  ParapraghRange(d, a, b) = <<lo, hi>>
<1>0. LastOf(a, b) \in Nat /\ Len(d) \in Nat
  BY DEF LastOf
<1>0a. PICK l \in Nat : l = LastOf(a, b)
  BY <1>0
<1>0b. PICK n \in Nat : n = Len(d)
  BY <1>0
<1>1. l = LastOf(a, b) /\ n = Len(d)
  BY <1>0a, <1>0b
<1>2. l = IF b > a THEN b - 1 ELSE a
  BY <1>1 DEF LastOf
<1>3. LineAt(d, a, l, lo, hi)
  BY <1>1
<1>. DEFINE A == {0} \cup {p \in 1 .. a : d[p].c = "newline"}
            B == {n} \cup {p \in (l + 1) .. n : d[p].c = "newline"}
<1>4. Max(A) = lo
  <2>1. A \subseteq Nat /\ A # {} /\ \A x \in A : x <= a
    OBVIOUS
  <2>2. lo \in A /\ \A x \in A : x <= lo
    BY <1>3 DEF LineAt
  <2>3. Max(A) \in A /\ \A x \in A : x <= Max(A)
    <3>. HIDE DEF A
    <3>. QED BY <2>1, MaxIs
  <2>4. Max(A) \in Nat /\ lo <= Max(A) /\ Max(A) <= lo
    <3>. HIDE DEF A
    <3>. QED BY <2>1, <2>2, <2>3
  <2>. QED BY <2>4
<1>5. Min(B) = hi
  <2>1. B \subseteq Nat /\ B # {}
    OBVIOUS
  <2>2. hi \in B /\ \A x \in B : hi <= x
    BY <1>1, <1>3 DEF LineAt
  <2>3. Min(B) \in B /\ \A x \in B : Min(B) <= x
    <3>. HIDE DEF B
    <3>. QED BY <2>1, MinIs
  <2>4. Min(B) \in Nat /\ hi <= Min(B) /\ Min(B) <= hi
    <3>. HIDE DEF B
    <3>. QED BY <2>1, <2>2, <2>3
  <2>. QED BY <2>4
<1>6. ParapraghRange(d, a, b) = <<Max(A), Min(B)>>
  BY <1>1, <1>2 DEF ParapraghRange
<1>. QED BY <1>4, <1>5, <1>6

\* parapraghRange returns the line around a range.
LEMMA RangeExists ==
    ASSUME NEW d \in Seq(Char), NEW a \in Nat, NEW b \in Nat, a <= b, b <= Len(d)
    PROVE  \E lo, hi \in Nat :
              LineAt(d, a, LastOf(a, b), lo, hi) /\ ParapraghRange(d, a, b) = <<lo, hi>>
<1>0. LastOf(a, b) \in Nat /\ Len(d) \in Nat
  BY DEF LastOf
<1>0a. PICK l \in Nat : l = LastOf(a, b)
  BY <1>0
<1>0b. PICK n \in Nat : n = Len(d)
  BY <1>0
<1>1. l = LastOf(a, b) /\ n = Len(d)
  BY <1>0a, <1>0b
<1>2. l = IF b > a THEN b - 1 ELSE a
  BY <1>1 DEF LastOf
<1>. DEFINE A == {0} \cup {p \in 1 .. a : d[p].c = "newline"}
            B == {n} \cup {p \in (l + 1) .. n : d[p].c = "newline"}
<1>3. Max(A) \in A /\ \A x \in A : x <= Max(A)
  <2>1. A \subseteq Nat /\ A # {} /\ \A x \in A : x <= a
    OBVIOUS
  <2>. HIDE DEF A
  <2>. QED BY <2>1, MaxIs
<1>4. Min(B) \in B /\ \A x \in B : Min(B) <= x
  <2>1. B \subseteq Nat /\ B # {}
    OBVIOUS
  <2>. HIDE DEF B
  <2>. QED BY <2>1, MinIs
<1>5a. Max(A) \in Nat /\ Min(B) \in Nat
  <2>1. A \subseteq Nat /\ B \subseteq Nat
    OBVIOUS
  <2>. HIDE DEF A, B
  <2>. QED BY <1>3, <1>4, <2>1
<1>5b. PICK lo \in Nat : lo = Max(A)
  BY <1>5a
<1>5c. PICK hi \in Nat : hi = Min(B)
  BY <1>5a
<1>5. lo = Max(A) /\ hi = Min(B)
  BY <1>5b, <1>5c
<1>6. LineAt(d, a, l, lo, hi)
  <2>1. lo \in A /\ (\A x \in A : x <= lo) /\ hi \in B /\ \A x \in B : hi <= x
    <3>. HIDE DEF A, B
    <3>. QED BY <1>3, <1>4, <1>5
  <2>2. lo <= a /\ (lo = 0 \/ d[lo].c = "newline")
    BY <2>1
  <2>3. \A p \in (lo + 1) .. a : d[p].c # "newline"
    BY <2>1
  <2>4. hi <= n /\ (hi = n \/ (hi > l /\ d[hi].c = "newline"))
    BY <2>1
  <2>5. \A p \in (l + 1) .. (hi - 1) : d[p].c # "newline"
    BY <2>1, <2>4
  <2>. QED BY <1>1, <2>2, <2>3, <2>4, <2>5 DEF LineAt
<1>7. ParapraghRange(d, a, b) = <<lo, hi>>
  BY <1>1, <1>2, <1>5 DEF ParapraghRange
<1>. QED BY <1>1, <1>6, <1>7

\* A paragraph: characters with no line break among them but at the end.
Line(q) == q \in Seq(Char) /\ Len(q) > 0 /\ \A j \in 1 .. (Len(q) - 1) : q[j].c # "newline"

\* A paragraph with a line break at its end.
Ended(q) == q[Len(q)].c = "newline"

\* A list of paragraphs, all but the last of which end with a line break.
WellFormed(qs) ==
    /\ qs \in Seq(Seq(Char))
    /\ \A i \in 1 .. Len(qs) : Line(qs[i]) /\ (i < Len(qs) => Ended(qs[i]))

\* The line breaks of a text made of paragraphs.
LEMMA Lines ==
    ASSUME NEW qs, WellFormed(qs), NEW d \in Seq(Char), NEW off, Laid(qs, d, off),
           NEW i \in 1 .. Len(qs)
    PROVE  /\ off[i - 1] \in Nat /\ off[i] \in Nat /\ off[i - 1] < off[i] /\ off[i] <= Len(d)
           /\ \A p \in (off[i - 1] + 1) .. (off[i] - 1) : d[p].c # "newline"
           /\ off[i] = Len(d) \/ d[off[i]].c = "newline"
           /\ off[i - 1] = 0 \/ d[off[i - 1]].c = "newline"
<1>1. PICK n \in Nat : n = Len(qs)
  BY DEF WellFormed
<1>2. qs \in Seq(Seq(Char))
  BY DEF WellFormed
<1>3. ASSUME NEW k \in 1 .. n
      PROVE  /\ off[k - 1] \in Nat /\ off[k] \in Nat /\ off[k - 1] < off[k] /\ off[k] <= Len(d)
             /\ \A p \in (off[k - 1] + 1) .. (off[k] - 1) : d[p].c # "newline"
             /\ k < n => d[off[k]].c = "newline"
  <2>1. PICK a : a = off[k - 1]
    OBVIOUS
  <2>2. PICK b : b = off[k]
    OBVIOUS
  <2>3. PICK q : q = qs[k]
    OBVIOUS
  <2>4. a \in Nat /\ b \in Nat /\ a <= b /\ b <= Len(d) /\ PieceOf(q, Char, d, a, b)
    BY <1>1, <1>2, <2>1, <2>2, <2>3, LaidPiece
  <2>5. /\ Len(q) > 0 /\ \A j \in 1 .. (Len(q) - 1) : q[j].c # "newline"
        /\ k < n => q[Len(q)].c = "newline"
    BY <1>1, <2>3 DEF WellFormed, Line, Ended
  <2>6. Len(q) = b - a /\ \A j \in 1 .. (b - a) : q[j] = d[a + j]
    BY <2>4 DEF PieceOf
  <2>7. a < b
    BY <2>4, <2>5, <2>6
  <2>8. ASSUME NEW p \in (a + 1) .. (b - 1) PROVE d[p].c # "newline"
    <3>1. p - a \in 1 .. (b - a) /\ p - a \in 1 .. (Len(q) - 1) /\ a + (p - a) = p
      BY <2>4, <2>6
    <3>. QED BY <2>5, <2>6, <3>1
  <2>9. k < n => d[b].c = "newline"
    <3>1. b - a \in 1 .. (b - a) /\ a + (b - a) = b
      BY <2>4, <2>7
    <3>. QED BY <2>5, <2>6, <3>1
  <2>. QED BY <2>1, <2>2, <2>4, <2>7, <2>8, <2>9
<1>4. off[0] = 0 /\ off[n] = Len(d)
  BY <1>1 DEF Laid
<1>5. off[i] = Len(d) \/ d[off[i]].c = "newline"
  <2>1. i = n \/ i < n
    BY <1>1
  <2>. QED BY <1>1, <1>3, <1>4, <2>1
<1>6. off[i - 1] = 0 \/ d[off[i - 1]].c = "newline"
  <2>1. i - 1 = 0 \/ (i - 1 \in 1 .. n /\ i - 1 < n)
    BY <1>1
  <2>. QED BY <1>3, <1>4, <2>1
<1>. QED BY <1>1, <1>3, <1>5, <1>6

\* Locations in a paragraph find it.
LEMMA LineOf ==
    ASSUME NEW qs, WellFormed(qs), NEW d \in Seq(Char), NEW off, Laid(qs, d, off),
           NEW i \in 1 .. Len(qs), NEW a \in Nat, off[i - 1] <= a, a < off[i]
    PROVE  ParapraghRange(d, a, a) = <<off[i - 1], off[i]>>
<1>1. PICK lo : lo = off[i - 1]
  OBVIOUS
<1>2. PICK hi : hi = off[i]
  OBVIOUS
<1>3. /\ lo \in Nat /\ hi \in Nat /\ lo < hi /\ hi <= Len(d)
      /\ \A p \in (lo + 1) .. (hi - 1) : d[p].c # "newline"
      /\ hi = Len(d) \/ d[hi].c = "newline"
      /\ lo = 0 \/ d[lo].c = "newline"
  BY <1>1, <1>2, Lines
<1>4. LastOf(a, a) = a /\ a <= Len(d) /\ lo <= a /\ a < hi
  BY <1>1, <1>2, <1>3 DEF LastOf
<1>5. LineAt(d, a, a, lo, hi)
  BY <1>3, <1>4 DEF LineAt
<1>6. LineAt(d, a, LastOf(a, a), lo, hi) /\ a <= a
  BY <1>4, <1>5
<1>7. ParapraghRange(d, a, a) = <<lo, hi>>
  BY <1>3, <1>4, <1>6, RangeIs
<1>. QED BY <1>1, <1>2, <1>7

\* The function c on the locations that allParapraghRange walks through.
Walks(c, d) ==
    c = [a \in 0 .. Len(d) |->
           IF a = Len(d) THEN <<>>
           ELSE <<ParapraghRange(d, a, a)>> \o c[ParapraghRange(d, a, a)[2]]]

\* The loop of allParapraghRange has a result.
LEMMA WalkExists ==
    ASSUME NEW d \in Seq(Char)
    PROVE  \E c : Walks(c, d) /\ AllParapraghRange(d) = c[0]
<1>1. PICK N \in Nat : N = Len(d)
  OBVIOUS
<1>2. PICK V : V = Seq(Nat \X Nat)
  OBVIOUS
<1>3. ASSUME NEW a \in 0 .. (N - 1)
      PROVE  /\ ParapraghRange(d, a, a) \in Nat \X Nat
             /\ ParapraghRange(d, a, a)[2] \in 1 .. N /\ ParapraghRange(d, a, a)[2] > a
  <2>1. a \in Nat /\ a <= a /\ a <= Len(d) /\ LastOf(a, a) = a /\ a < N
    BY <1>1 DEF LastOf
  <2>2. PICK lo \in Nat, hi \in Nat :
           LineAt(d, a, LastOf(a, a), lo, hi) /\ ParapraghRange(d, a, a) = <<lo, hi>>
    BY <2>1, RangeExists
  <2>3. hi <= N /\ hi > a
    BY <1>1, <2>1, <2>2 DEF LineAt
  <2>. QED BY <2>2, <2>3
<1>. DEFINE next == [a \in 0 .. (N - 1) |-> ParapraghRange(d, a, a)[2]]
            h == [x \in (0 .. (N - 1)) \X V |-> <<ParapraghRange(d, x[1], x[1])>> \o x[2]]
<1>4. next \in [0 .. (N - 1) -> 1 .. N] /\ \A a \in 0 .. (N - 1) : next[a] > a
  BY <1>3
<1>5. h \in [(0 .. (N - 1)) \X V -> V]
  <2>1. ASSUME NEW r \in Nat \X Nat, NEW s \in V PROVE <<r>> \o s \in V
    BY <1>2
  <2>. QED BY <1>3, <2>1
<1>6. <<>> \in V
  BY <1>2
<1>7. PICK f : Down(f, N, V, <<>>, next, h)
  <2>. HIDE DEF next, h
  <2>1. PICK b \in V : b = <<>>
    BY <1>6
  <2>2. \E f : Down(f, N, V, b, next, h)
    BY <1>4, <1>5, RecursionDown
  <2>. QED BY <2>1, <2>2
<1>8. Walks(f, d)
  <2>1. f \in [0 .. N -> V] /\ f[N] = <<>>
    BY <1>7 DEF Down
  <2>2. ASSUME NEW a \in 0 .. (N - 1)
        PROVE  f[a] = <<ParapraghRange(d, a, a)>> \o f[ParapraghRange(d, a, a)[2]]
    <3>1. f[a] = h[<<a, f[next[a]]>>]
      <4>. HIDE DEF h, next
      <4>. QED BY <1>7 DEF Down
    <3>2. next[a] = ParapraghRange(d, a, a)[2] /\ next[a] \in 0 .. N
      BY <1>3
    <3>3. f[next[a]] \in V
      <4>. HIDE DEF next
      <4>. QED BY <2>1, <3>2
    <3>4. h[<<a, f[next[a]]>>] = <<ParapraghRange(d, a, a)>> \o f[next[a]]
      <4>. HIDE DEF next
      <4>. QED BY <3>3
    <3>. HIDE DEF h, next
    <3>. QED BY <3>1, <3>2, <3>4, Zenon
  <2>3. \A a \in 0 .. N : f[a] = IF a = N THEN <<>>
                                  ELSE <<ParapraghRange(d, a, a)>> \o f[ParapraghRange(d, a, a)[2]]
    <3>. SUFFICES ASSUME NEW a \in 0 .. N
                  PROVE  f[a] = IF a = N THEN <<>>
                                ELSE <<ParapraghRange(d, a, a)>> \o f[ParapraghRange(d, a, a)[2]]
      OBVIOUS
    <3>1. CASE a = N
      BY <2>1, <3>1, Zenon
    <3>2. CASE a # N
      <4>1. a \in 0 .. (N - 1)
        BY <3>2
      <4>. QED BY <2>2, <3>2, <4>1, Zenon
    <3>. QED BY <3>1, <3>2
  <2>4. f = [a \in 0 .. N |-> f[a]]
    BY <2>1
  <2>5. [a \in 0 .. N |-> f[a]] =
           [a \in 0 .. N |-> IF a = N THEN <<>>
                             ELSE <<ParapraghRange(d, a, a)>> \o f[ParapraghRange(d, a, a)[2]]]
    BY <2>3, Zenon
  <2>. QED BY <1>1, <2>4, <2>5, Zenon DEF Walks
<1>9. PICK c : c = CHOOSE g : Walks(g, d)
  OBVIOUS
<1>10. Walks(c, d)
  BY <1>8, <1>9, Zenon
<1>11. AllParapraghRange(d) = c[0]
  BY <1>9 DEF AllParapraghRange, Walks
<1>. QED BY <1>10, <1>11

\* The ranges of the paragraphs after the m-th.
RangesFrom(s, off, m, n) ==
    /\ s \in Seq(Nat \X Nat) /\ Len(s) = n - m
    /\ \A k \in 1 .. (n - m) : s[k] = <<off[m + k - 1], off[m + k]>>

\* allParapraghRange returns the ranges of all paragraphs.
LEMMA AllRanges ==
    ASSUME NEW qs, WellFormed(qs), NEW d \in Seq(Char), NEW off, Laid(qs, d, off)
    PROVE  RangesFrom(AllParapraghRange(d), off, 0, Len(qs))
<1>1. PICK n \in Nat : n = Len(qs)
  BY DEF WellFormed
<1>2. off \in [0 .. n -> Nat] /\ off[0] = 0 /\ off[n] = Len(d)
  BY <1>1 DEF Laid
<1>3. PICK c : Walks(c, d) /\ AllParapraghRange(d) = c[0]
  BY WalkExists
<1>. DEFINE K == {k \in Nat : k <= n => RangesFrom(c[off[n - k]], off, n - k, n)}
<1>4. 0 \in K
  <2>1. c[Len(d)] = <<>>
    BY <1>3 DEF Walks
  <2>2. n - 0 = n /\ off[n - 0] = Len(d) /\ n - n = 0
    BY <1>2
  <2>3. RangesFrom(<<>>, off, n, n)
    BY <2>2 DEF RangesFrom
  <2>. QED BY <2>1, <2>2, <2>3
<1>5. ASSUME NEW k \in Nat, k \in K PROVE k + 1 \in K
  <2>. SUFFICES ASSUME k + 1 <= n
                PROVE  RangesFrom(c[off[n - (k + 1)]], off, n - (k + 1), n)
    OBVIOUS
  <2>1. PICK m \in 1 .. n : m = n - k
    OBVIOUS
  <2>2. m - 1 = n - (k + 1) /\ m - 1 \in 0 .. n /\ m \in 1 .. Len(qs) /\ m \in 0 .. n
    BY <1>1, <2>1
  <2>3. off[m - 1] \in Nat /\ off[m] \in Nat /\ off[m - 1] < off[m] /\ off[m] <= Len(d)
    BY <2>2, Lines
  <2>4. PICK a \in Nat : a = off[m - 1]
    BY <2>3
  <2>5. PICK b \in Nat : b = off[m]
    BY <2>3
  <2>6. ParapraghRange(d, a, a) = <<a, b>>
    <3>1. off[m - 1] <= a /\ a < off[m]
      BY <2>3, <2>4
    <3>. QED BY <2>2, <2>4, <2>5, <3>1, LineOf
  <2>7. c[a] = <<<<a, b>>>> \o c[b]
    <3>1. a \in 0 .. Len(d) /\ a # Len(d)
      BY <2>3, <2>4
    <3>2. c[a] = <<ParapraghRange(d, a, a)>> \o c[ParapraghRange(d, a, a)[2]]
      BY <1>3, <3>1, Zenon DEF Walks
    <3>3. <<a, b>>[2] = b
      OBVIOUS
    <3>. QED BY <2>6, <3>2, <3>3, Zenon
  <2>8. PICK s : s = c[b]
    OBVIOUS
  <2>9. RangesFrom(s, off, m, n)
    BY <1>5, <2>1, <2>5, <2>8
  <2>10. PICK t : t = <<<<a, b>>>> \o s
    OBVIOUS
  <2>11. RangesFrom(t, off, m - 1, n)
    <3>1. PICK r \in Nat \X Nat : r = <<a, b>>
      OBVIOUS
    <3>2. s \in Seq(Nat \X Nat) /\ Len(s) = n - m
      BY <2>9 DEF RangesFrom
    <3>2a. PICK V : V = Nat \X Nat
      OBVIOUS
    <3>3. t = <<r>> \o s /\ s \in Seq(V) /\ r \in V
      BY <2>10, <3>1, <3>2, <3>2a
    <3>4. t \in Seq(V) /\ Len(t) = 1 + Len(s) /\ t[1] = r /\ \A i \in 1 .. Len(s) : t[1 + i] = s[i]
      BY <3>3
    <3>5. ASSUME NEW i \in 1 .. (n - (m - 1))
          PROVE  t[i] = <<off[(m - 1) + i - 1], off[(m - 1) + i]>>
      <4>1. CASE i = 1
        <5>1. (m - 1) + i - 1 = m - 1 /\ (m - 1) + i = m
          BY <4>1
        <5>. QED BY <3>1, <3>4, <4>1, <5>1, <2>4, <2>5
      <4>2. CASE i # 1
        <5>1. i - 1 \in 1 .. (n - m) /\ i - 1 \in 1 .. Len(s) /\ 1 + (i - 1) = i
          BY <3>2, <4>2
        <5>2. t[i] = s[i - 1]
          BY <3>4, <5>1
        <5>3. s[i - 1] = <<off[m + (i - 1) - 1], off[m + (i - 1)]>>
          BY <2>9, <5>1 DEF RangesFrom
        <5>4. m + (i - 1) - 1 = (m - 1) + i - 1 /\ m + (i - 1) = (m - 1) + i
          OBVIOUS
        <5>. QED BY <5>2, <5>3, <5>4
      <4>. QED BY <4>1, <4>2
    <3>6. Len(t) = n - (m - 1)
      BY <3>2, <3>4
    <3>. QED BY <3>2a, <3>4, <3>5, <3>6 DEF RangesFrom
  <2>12. c[off[m - 1]] = t
    BY <2>4, <2>7, <2>8, <2>10, Zenon
  <2>. QED BY <2>2, <2>11, <2>12
<1>6. n \in K
  <2>. HIDE DEF K
  <2>. QED BY <1>4, <1>5, Induction
<1>7. n - n = 0 /\ n <= n
  OBVIOUS
<1>8. RangesFrom(c[off[0]], off, 0, n)
  BY <1>6, <1>7
<1>. QED BY <1>1, <1>2, <1>3, <1>8

\* One more paragraph after complete ones.
LEMMA WellFormedAppend ==
    ASSUME NEW qs, WellFormed(qs), NEW q, Line(q), \A i \in 1 .. Len(qs) : Ended(qs[i])
    PROVE  WellFormed(Append(qs, q))
<1>1. PICK n \in Nat : n = Len(qs)
  BY DEF WellFormed
<1>2. PICK rs : rs = Append(qs, q)
  OBVIOUS
<1>3. /\ rs \in Seq(Seq(Char)) /\ Len(rs) = n + 1 /\ rs[n + 1] = q
      /\ \A i \in 1 .. n : rs[i] = qs[i]
  BY <1>1, <1>2 DEF WellFormed, Line
<1>4. ASSUME NEW i \in 1 .. Len(rs) PROVE Line(rs[i]) /\ (i < Len(rs) => Ended(rs[i]))
  <2>1. CASE i = n + 1
    BY <1>3, <2>1
  <2>2. CASE i # n + 1
    <3>1. i \in 1 .. n
      BY <1>3, <2>2
    <3>2. rs[i] = qs[i]
      BY <1>3, <3>1
    <3>3. Line(qs[i]) /\ Ended(qs[i])
      BY <1>1, <3>1 DEF WellFormed
    <3>. QED BY <3>2, <3>3
  <2>. QED BY <2>1, <2>2
<1>5. WellFormed(rs)
  BY <1>3, <1>4 DEF WellFormed
<1>. QED BY <1>2, <1>5

\* The paragraphs fr before the last, l.
Split(qs, fr, l) ==
    /\ WellFormed(fr) /\ Line(l) /\ qs = Append(fr, l) /\ l = qs[Len(qs)]
    /\ Len(qs) \in Nat /\ Len(qs) = Len(fr) + 1
    /\ \A i \in 1 .. Len(fr) : fr[i] = qs[i] /\ Ended(fr[i])

\* Without its last paragraph a text is still made of paragraphs.
LEMMA WellFormedFront ==
    ASSUME NEW qs, WellFormed(qs), qs # <<>>
    PROVE  Split(qs, Front(qs), Last(qs))
<1>1. PICK n \in Nat : n = Len(qs)
  BY DEF WellFormed
<1>2. PICK rs : rs = Front(qs)
  OBVIOUS
<1>3. n # 0
  BY <1>1, EmptySeq DEF WellFormed
<1>4. /\ rs \in Seq(Seq(Char)) /\ Last(qs) \in Seq(Char) /\ qs = Append(rs, Last(qs))
      /\ Len(rs) = n - 1 /\ Last(qs) = qs[n]
      /\ \A i \in 1 .. (n - 1) : rs[i] = qs[i]
  <2>1. PICK V : V = Seq(Char)
    OBVIOUS
  <2>2. qs \in Seq(V)
    BY <2>1 DEF WellFormed
  <2>3. /\ rs \in Seq(V) /\ Last(qs) \in V /\ qs = Append(rs, Last(qs))
        /\ Len(rs) = Len(qs) - 1 /\ Last(qs) = qs[Len(qs)]
        /\ \A i \in 1 .. (Len(qs) - 1) : rs[i] = qs[i]
    BY <1>2, <2>2, FrontLast
  <2>. QED BY <1>1, <2>1, <2>3
<1>5. ASSUME NEW i \in 1 .. Len(rs) PROVE rs[i] = qs[i] /\ Ended(qs[i]) /\ Line(qs[i])
  <2>1. i \in 1 .. (n - 1) /\ i \in 1 .. Len(qs) /\ i < Len(qs)
    BY <1>1, <1>4
  <2>. QED BY <1>4, <2>1 DEF WellFormed
<1>6. WellFormed(rs)
  BY <1>4, <1>5 DEF WellFormed
<1>7. Line(qs[n])
  BY <1>1, <1>3 DEF WellFormed
<1>8. n = Len(rs) + 1
  BY <1>4
<1>. QED BY <1>1, <1>2, <1>4, <1>5, <1>6, <1>7, <1>8 DEF Split

\* Appending to the second of two sequences is appending to both.
LEMMA ConcatAppend ==
    ASSUME NEW S, NEW a \in Seq(S), NEW l \in Seq(S), NEW x \in S
    PROVE  a \o Append(l, x) = Append(a \o l, x)
<1>1. l \o <<x>> = Append(l, x)
  BY AppendIsConcat
<1>2. PICK b : b = a \o l /\ b \in Seq(S)
  BY ConcatProperties
<1>3. b \o <<x>> = Append(b, x)
  BY AppendIsConcat
<1>4. (a \o l) \o <<x>> = a \o (l \o <<x>>)
  <2>1. <<x>> \in Seq(S)
    OBVIOUS
  <2>. QED BY <2>1, ConcatAssociative
<1>. QED BY <1>1, <1>2, <1>3, <1>4, Zenon

\* Every text is made of paragraphs.
LEMMA SplitExists ==
    ASSUME NEW d \in Seq(Char)
    PROVE  \E qs : WellFormed(qs) /\ FlattenSeq(qs) = d
<1>. DEFINE T == {e \in Seq(Char) : \E qs : WellFormed(qs) /\ FlattenSeq(qs) = e}
<1>1. <<>> \in T
  <2>1. WellFormed(<<>>)
    BY DEF WellFormed
  <2>2. <<>> \in Seq(Char)
    OBVIOUS
  <2>. QED BY <2>1, <2>2, FlattenEmpty
<1>2. ASSUME NEW e \in Seq(Char), NEW x \in Char, e \in T PROVE Append(e, x) \in T
  <2>1. PICK qs : WellFormed(qs) /\ FlattenSeq(qs) = e
    BY <1>2
  <2>2. qs \in Seq(Seq(Char))
    BY <2>1 DEF WellFormed
  <2>3. Append(e, x) \in Seq(Char)
    OBVIOUS
  <2>4. CASE qs = <<>> \/ Ended(Last(qs))
    <3>1. PICK q : q = <<x>>
      OBVIOUS
    <3>2. q \in Seq(Char) /\ Line(q)
      BY <3>1 DEF Line
    <3>3. ASSUME NEW i \in 1 .. Len(qs) PROVE Ended(qs[i])
      <4>1. qs # <<>>
        OBVIOUS
      <4>2. Split(qs, Front(qs), Last(qs))
        BY <2>1, <4>1, WellFormedFront
      <4>3. i = Len(qs) \/ i \in 1 .. Len(Front(qs))
        BY <4>2 DEF Split
      <4>. QED BY <2>4, <4>1, <4>2, <4>3 DEF Split
    <3>4. WellFormed(Append(qs, q))
      BY <2>1, <3>2, <3>3, WellFormedAppend
    <3>5. FlattenSeq(Append(qs, q)) = e \o q
      BY <2>1, <2>2, <3>2, FlattenAppend
    <3>6. e \o q = Append(e, x)
      BY <3>1, AppendIsConcat
    <3>7. \E rs : WellFormed(rs) /\ FlattenSeq(rs) = Append(e, x)
      BY <3>4, <3>5, <3>6, Zenon
    <3>. QED BY <2>3, <3>7
  <2>5. CASE qs # <<>> /\ ~Ended(Last(qs))
    <3>1. PICK fr : fr = Front(qs)
      OBVIOUS
    <3>2. PICK l : l = Last(qs)
      OBVIOUS
    <3>3. Split(qs, fr, l)
      BY <2>1, <2>5, <3>1, <3>2, WellFormedFront
    <3>4. /\ WellFormed(fr) /\ Line(l) /\ fr \in Seq(Seq(Char)) /\ l \in Seq(Char)
          /\ \A i \in 1 .. Len(fr) : Ended(fr[i])
      BY <3>3 DEF Split, Line, WellFormed
    <3>5. PICK q : q = Append(l, x)
      OBVIOUS
    <3>6. ~Ended(l) /\ Len(l) \in Nat \ {0} /\ \A j \in 1 .. (Len(l) - 1) : l[j].c # "newline"
      BY <2>5, <3>2, <3>4 DEF Line
    <3>7. /\ q \in Seq(Char) /\ Len(q) = Len(l) + 1
          /\ \A j \in 1 .. Len(l) : q[j] = l[j]
      BY <3>4, <3>5
    <3>8. ASSUME NEW j \in 1 .. (Len(q) - 1) PROVE q[j].c # "newline"
      <4>1. j \in 1 .. Len(l) /\ (j = Len(l) \/ j \in 1 .. (Len(l) - 1))
        BY <3>6, <3>7
      <4>. QED BY <3>6, <3>7, <4>1 DEF Ended
    <3>9. Line(q)
      BY <3>6, <3>7, <3>8 DEF Line
    <3>9a. WellFormed(Append(fr, q))
      BY <3>4, <3>9, WellFormedAppend
    <3>10. FlattenSeq(Append(fr, q)) = FlattenSeq(fr) \o q /\ e = FlattenSeq(fr) \o l
      <4>1. FlattenSeq(Append(fr, q)) = FlattenSeq(fr) \o q
        BY <3>4, <3>7, FlattenAppend
      <4>2. FlattenSeq(Append(fr, l)) = FlattenSeq(fr) \o l
        BY <3>4, FlattenAppend
      <4>3. qs = Append(fr, l)
        BY <3>3 DEF Split
      <4>. QED BY <2>1, <4>1, <4>2, <4>3, Zenon
    <3>11. FlattenSeq(fr) \o q = Append(e, x)
      <4>1. PICK a \in Seq(Char) : a = FlattenSeq(fr)
        BY <3>4, FlattenType
      <4>2. a \o Append(l, x) = Append(a \o l, x)
        BY <3>4, ConcatAppend
      <4>. QED BY <3>5, <3>10, <4>1, <4>2, Zenon
    <3>12. \E rs : WellFormed(rs) /\ FlattenSeq(rs) = Append(e, x)
      BY <3>9a, <3>10, <3>11, Zenon
    <3>. QED BY <2>3, <3>12
  <2>. QED BY <2>4, <2>5
<1>3. Seq(Char) \subseteq T
  <2>. HIDE DEF T
  <2>. QED BY <1>1, <1>2, AppendInduction
<1>. QED BY <1>3

\* The paragraphs that allParapraghRange finds.
Paras(d) ==
    LET ps == AllParapraghRange(d) IN [i \in DOMAIN ps |-> Cut(d, ps[i][1], ps[i][2])]

\* The ranges ps cut the text d into the paragraphs qs.
Cuts(d, ps, qs) ==
    /\ ps \in Seq(Nat \X Nat) /\ Len(ps) = Len(qs)
    /\ \A i \in 1 .. Len(qs) :
          /\ ps[i][1] < ps[i][2] /\ ps[i][2] <= Len(d)
          /\ Cut(d, ps[i][1], ps[i][2]) = qs[i]
          /\ d[ps[i][1] + 1] = qs[i][1] /\ TabStyleFor(d, ps[i][1]) = qs[i][1].s

\* What the text view and the list algorithms see of a text made of paragraphs.
LEMMA CutsIs ==
    ASSUME NEW qs, WellFormed(qs), NEW d, d = FlattenSeq(qs)
    PROVE  d \in Seq(Char) /\ Paras(d) = qs /\ Cuts(d, AllParapraghRange(d), qs)
<1>1. PICK n \in Nat : n = Len(qs)
  BY DEF WellFormed
<1>2. qs \in Seq(Seq(Char)) /\ d \in Seq(Char)
  BY FlattenType DEF WellFormed
<1>3. PICK off : Laid(qs, d, off)
  BY <1>2, FlattenLaid
<1>4. PICK ps : ps = AllParapraghRange(d)
  OBVIOUS
<1>5. RangesFrom(ps, off, 0, n)
  BY <1>1, <1>2, <1>3, <1>4, AllRanges
<1>6. ps \in Seq(Nat \X Nat) /\ Len(ps) = n /\ n - 0 = n
  BY <1>5 DEF RangesFrom
<1>6a. DOMAIN ps = 1 .. n
  BY <1>6, LenProperties
<1>7. ASSUME NEW i \in 1 .. n
      PROVE  /\ ps[i][1] \in Nat /\ ps[i][2] \in Nat
             /\ ps[i][1] < ps[i][2] /\ ps[i][2] <= Len(d)
             /\ Cut(d, ps[i][1], ps[i][2]) = qs[i]
             /\ d[ps[i][1] + 1] = qs[i][1] /\ TabStyleFor(d, ps[i][1]) = qs[i][1].s
  <2>1. ps[i] = <<off[i - 1], off[i]>>
    <3>1. 0 + i - 1 = i - 1 /\ 0 + i = i /\ i \in 1 .. (n - 0)
      OBVIOUS
    <3>2. ps[i] = <<off[0 + i - 1], off[0 + i]>>
      BY <1>5, <3>1 DEF RangesFrom
    <3>. QED BY <3>1, <3>2
  <2>2. PICK a : a = off[i - 1]
    OBVIOUS
  <2>3. PICK b : b = off[i]
    OBVIOUS
  <2>4. a \in Nat /\ b \in Nat /\ a < b /\ b <= Len(d)
    BY <1>1, <1>2, <1>3, <2>2, <2>3, Lines
  <2>5. Cut(d, a, b) = qs[i] /\ PieceOf(qs[i], Char, d, a, b)
    BY <1>1, <1>2, <1>3, <2>2, <2>3, LaidPiece
  <2>6. ps[i][1] = a /\ ps[i][2] = b
    BY <2>1, <2>2, <2>3
  <2>7. d[a + 1] = qs[i][1]
    <3>1. 1 \in 1 .. (b - a)
      BY <2>4
    <3>. QED BY <2>5, <3>1 DEF PieceOf
  <2>8. TabStyleFor(d, a) = d[a + 1].s
    <3>1. Len(d) \in Nat /\ a + 1 <= Len(d) /\ d # <<>>
      BY <1>2, <2>4
    <3>2. PICK m : m = Min({a + 1, Len(d)})
      OBVIOUS
    <3>3. m = a + 1
      <4>1. PICK S : S = {a + 1, Len(d)}
        OBVIOUS
      <4>2. S \subseteq Nat /\ S # {}
        BY <2>4, <3>1, <4>1
      <4>3. m \in S /\ \A x \in S : m <= x
        BY <3>2, <4>1, <4>2, MinIs
      <4>. QED BY <2>4, <3>1, <4>1, <4>3
    <3>. QED BY <3>1, <3>2, <3>3 DEF TabStyleFor
  <2>. QED BY <2>4, <2>5, <2>6, <2>7, <2>8
<1>8. Cuts(d, ps, qs)
  BY <1>1, <1>6, <1>7 DEF Cuts
<1>9. Paras(d) = qs
  <2>1. Paras(d) = [i \in 1 .. n |-> Cut(d, ps[i][1], ps[i][2])]
    BY <1>4, <1>6a DEF Paras
  <2>2. \A i \in 1 .. n : Cut(d, ps[i][1], ps[i][2]) = qs[i]
    BY <1>7
  <2>3. qs = [i \in 1 .. n |-> qs[i]]
    BY <1>1, <1>2
  <2>. QED BY <2>1, <2>2, <2>3, Zenon
<1>. QED BY <1>2, <1>4, <1>8, <1>9

\* A text is its paragraphs.
LEMMA ParasOf ==
    ASSUME NEW d \in Seq(Char)
    PROVE  /\ WellFormed(Paras(d)) /\ FlattenSeq(Paras(d)) = d
           /\ Cuts(d, AllParapraghRange(d), Paras(d))
<1>1. PICK qs : WellFormed(qs) /\ FlattenSeq(qs) = d
  BY SplitExists
<1>2. Paras(d) = qs /\ Cuts(d, AllParapraghRange(d), qs)
  BY <1>1, CutsIs
<1>. QED BY <1>1, <1>2
-----------------------------------------------------------------------------
(* What Fixed and resetTabOrderNumber do to the paragraphs.                *)

\* A paragraph in the style of its first character.
Fix(q) == Styled(q, q[1].s)

\* Giving a piece of text a style changes nothing else.
LEMMA StyledIs ==
    ASSUME NEW q \in Seq(Char), NEW s \in Style
    PROVE  /\ Styled(q, s) \in Seq(Char) /\ Len(Styled(q, s)) = Len(q)
           /\ \A i \in 1 .. Len(q) : /\ Styled(q, s)[i].c = q[i].c /\ Styled(q, s)[i].n = q[i].n
                                     /\ Styled(q, s)[i].s = s /\ Styled(q, s)[i] \in Char
<1>1. PICK n \in Nat : n = Len(q)
  OBVIOUS
<1>2. DOMAIN q = 1 .. n /\ \A i \in 1 .. n : q[i] \in Char
  BY <1>1
<1>3. Styled(q, s) = [i \in 1 .. n |-> [q[i] EXCEPT !.s = s]]
  BY <1>2 DEF Styled
<1>4. ASSUME NEW x \in Char
      PROVE  /\ [x EXCEPT !.s = s] \in Char /\ [x EXCEPT !.s = s].c = x.c
             /\ [x EXCEPT !.s = s].n = x.n /\ [x EXCEPT !.s = s].s = s
  BY DEF Char
<1>5. \A i \in 1 .. n : [q[i] EXCEPT !.s = s] \in Char
  BY <1>2, <1>4
<1>6. PICK r : r = Styled(q, s)
  OBVIOUS
<1>7. r \in [1 .. n -> Char] /\ \A i \in 1 .. n : r[i] = [q[i] EXCEPT !.s = s]
  BY <1>3, <1>5, <1>6
<1>8. r \in Seq(Char) /\ Len(r) = n
  BY <1>7
<1>9. ASSUME NEW i \in 1 .. n PROVE r[i].c = q[i].c /\ r[i].n = q[i].n /\ r[i].s = s /\ r[i] \in Char
  <2>1. PICK x \in Char : x = q[i]
    BY <1>2
  <2>2. r[i] = [x EXCEPT !.s = s]
    BY <1>7, <2>1
  <2>. QED BY <1>4, <2>1, <2>2
<1>. QED BY <1>1, <1>6, <1>8, <1>9

\* Two texts with the same characters in styles that may differ.
SameText(q, r) ==
    /\ r \in Seq(Char) /\ Len(r) = Len(q)
    /\ \A i \in 1 .. Len(q) : r[i].c = q[i].c /\ r[i].n = q[i].n

\* Giving a paragraph the style of its first character keeps its text.
LEMMA FixIs ==
    ASSUME NEW q, Line(q)
    PROVE  /\ SameText(q, Fix(q)) /\ Line(Fix(q)) /\ (Ended(q) <=> Ended(Fix(q)))
           /\ q[1].s \in Style /\ \A i \in 1 .. Len(q) : Fix(q)[i].s = q[1].s
<1>1. q \in Seq(Char) /\ Len(q) \in Nat \ {0} /\ \A j \in 1 .. (Len(q) - 1) : q[j].c # "newline"
  BY DEF Line
<1>2. PICK s : s = q[1].s
  OBVIOUS
<1>3. s \in Style
  <2>1. q[1] \in Char
    BY <1>1
  <2>. QED BY <1>2, <2>1 DEF Char
<1>4. PICK r : r = Fix(q)
  OBVIOUS
<1>5. /\ r \in Seq(Char) /\ Len(r) = Len(q)
      /\ \A i \in 1 .. Len(q) : r[i].c = q[i].c /\ r[i].n = q[i].n /\ r[i].s = s
  BY <1>1, <1>2, <1>3, <1>4, StyledIs DEF Fix
<1>6. \A j \in 1 .. (Len(r) - 1) : r[j].c # "newline"
  BY <1>1, <1>5
<1>7. Line(r) /\ SameText(q, r)
  BY <1>1, <1>5, <1>6 DEF Line, SameText
<1>8. Ended(q) <=> Ended(r)
  BY <1>1, <1>5 DEF Ended
<1>. QED BY <1>2, <1>3, <1>4, <1>5, <1>7, <1>8

\* Paragraphs replaced one by one by others that end alike.
LEMMA WellFormedMap ==
    ASSUME NEW qs, WellFormed(qs), NEW rs, DOMAIN rs = 1 .. Len(qs),
           rs = [i \in 1 .. Len(qs) |-> rs[i]],
           \A i \in 1 .. Len(qs) : Line(rs[i]) /\ (Ended(qs[i]) => Ended(rs[i]))
    PROVE  WellFormed(rs) /\ Len(rs) = Len(qs)
<1>1. PICK n \in Nat : n = Len(qs)
  BY DEF WellFormed
<1>2. \A i \in 1 .. n : rs[i] \in Seq(Char)
  BY <1>1 DEF Line
<1>3. rs \in Seq(Seq(Char)) /\ Len(rs) = n
  <2>1. PICK V : V = Seq(Char)
    OBVIOUS
  <2>2. rs \in [1 .. n -> V]
    BY <1>1, <1>2, <2>1
  <2>3. rs \in Seq(V) /\ Len(rs) = n
    BY <2>2
  <2>. QED BY <2>1, <2>3
<1>. QED BY <1>1, <1>3 DEF WellFormed

\* The text view styles paragraph by paragraph.
LEMMA FixedIs ==
    ASSUME NEW d \in Seq(Char)
    PROVE  /\ Fixed(d) \in Seq(Char) /\ Len(Paras(Fixed(d))) = Len(Paras(d))
           /\ \A i \in 1 .. Len(Paras(d)) : Paras(Fixed(d))[i] = Fix(Paras(d)[i])
<1>1. PICK qs : qs = Paras(d)
  OBVIOUS
<1>2. WellFormed(qs) /\ Cuts(d, AllParapraghRange(d), qs)
  BY <1>1, ParasOf
<1>3. PICK n \in Nat : n = Len(qs)
  BY <1>2 DEF WellFormed
<1>4. PICK ps : ps = AllParapraghRange(d)
  OBVIOUS
<1>5. DOMAIN ps = 1 .. n /\ \A i \in 1 .. n : /\ Cut(d, ps[i][1], ps[i][2]) = qs[i]
                                             /\ d[ps[i][1] + 1] = qs[i][1]
  BY <1>2, <1>3, <1>4 DEF Cuts
<1>6. PICK rs : rs = [i \in 1 .. n |-> Fix(qs[i])]
  OBVIOUS
<1>7. Fixed(d) = FlattenSeq(rs)
  <2>1. Fixed(d) = FlattenSeq([i \in 1 .. n |->
                      Styled(Cut(d, ps[i][1], ps[i][2]), d[ps[i][1] + 1].s)])
    BY <1>4, <1>5 DEF Fixed
  <2>2. \A i \in 1 .. n : Styled(Cut(d, ps[i][1], ps[i][2]), d[ps[i][1] + 1].s) = Fix(qs[i])
    BY <1>5 DEF Fix
  <2>3. [i \in 1 .. n |-> Styled(Cut(d, ps[i][1], ps[i][2]), d[ps[i][1] + 1].s)] = rs
    BY <1>6, <2>2
  <2>. QED BY <2>1, <2>3
<1>8. WellFormed(rs) /\ Len(rs) = n
  <2>1. DOMAIN rs = 1 .. n /\ rs = [i \in 1 .. n |-> rs[i]] /\ \A i \in 1 .. n : rs[i] = Fix(qs[i])
    BY <1>6
  <2>2. \A i \in 1 .. n : Line(qs[i])
    BY <1>2, <1>3 DEF WellFormed
  <2>3. \A i \in 1 .. n : Line(rs[i]) /\ (Ended(qs[i]) => Ended(rs[i]))
    BY <2>1, <2>2, FixIs
  <2>. QED BY <1>2, <1>3, <2>1, <2>3, WellFormedMap
<1>9. Fixed(d) \in Seq(Char) /\ Paras(Fixed(d)) = rs
  BY <1>7, <1>8, CutsIs
<1>. QED BY <1>1, <1>3, <1>6, <1>8, <1>9

\* Whether a paragraph has a head depends on its characters only.
LEMMA SameHead ==
    ASSUME NEW q \in Seq(Char), NEW r, SameText(q, r)
    PROVE  HeadLength(r) = HeadLength(q)
<1>1. Len(r) = Len(q) /\ Len(q) \in Nat /\ \A i \in 1 .. Len(q) : r[i].c = q[i].c
  BY DEF SameText
<1>2. CASE Len(q) >= 3
  <2>1. r[1].c = q[1].c /\ r[2].c = q[2].c /\ r[3].c = q[3].c
    BY <1>1, <1>2
  <2>. QED BY <1>1, <2>1 DEF HeadLength
<1>3. CASE ~(Len(q) >= 3)
  BY <1>1, <1>3 DEF HeadLength
<1>. QED BY <1>2, <1>3

\* The text of a paragraph behind its head.
LEMMA BodyIs ==
    ASSUME NEW q \in Seq(Char)
    PROVE  /\ HeadLength(q) \in {0, 3} /\ HeadLength(q) <= Len(q)
           /\ PieceOf(RemoveHeadTabString(q), Char, q, HeadLength(q), Len(q))
<1>1. Len(q) \in Nat /\ HeadLength(q) \in {0, 3} /\ HeadLength(q) <= Len(q)
  BY DEF HeadLength
<1>2. PICK h \in Nat : h = HeadLength(q)
  BY <1>1
<1>3. PICK n \in Nat : n = Len(q)
  BY <1>1
<1>4. h <= n /\ n <= Len(q)
  BY <1>1, <1>2, <1>3
<1>5. PieceOf(Cut(q, h, n), Char, q, h, n)
  BY <1>4, CutIs
<1>6. RemoveHeadTabString(q) = Cut(q, h, n)
  BY <1>2, <1>3 DEF RemoveHeadTabString, Cut
<1>7. PieceOf(RemoveHeadTabString(q), Char, q, h, n)
  BY <1>5, <1>6
<1>. QED BY <1>1, <1>2, <1>3, <1>7

\* The head of the i-th item of a list.
Lead(s, i) == <<Tab(s), MarkOf(s, i), Tab(s)>>

\* What a head consists of.
LEMMA LeadIs ==
    ASSUME NEW s \in {"ul", "ol"}, NEW i \in Nat
    PROVE  /\ Lead(s, i) \in Seq(Char) /\ Len(Lead(s, i)) = 3
           /\ Lead(s, i)[1] = Tab(s) /\ Lead(s, i)[2] = MarkOf(s, i) /\ Lead(s, i)[3] = Tab(s)
           /\ Tab(s).c = "tab" /\ Tab(s).s = s /\ MarkOf(s, i).c \in Mark /\ MarkOf(s, i).s = s
           /\ (s = "ul" => MarkOf(s, i).c = "bullet")
           /\ (s = "ol" => MarkOf(s, i).c = "number" /\ MarkOf(s, i).n = i)
           /\ Tab(s) \in Char /\ MarkOf(s, i) \in Char
<1>1. Tab(s) \in Char /\ MarkOf(s, i) \in Char
  BY DEF Tab, MarkOf, Char, Style, Mark
<1>2. Tab(s).c = "tab" /\ Tab(s).s = s /\ MarkOf(s, i).c \in Mark /\ MarkOf(s, i).s = s
  BY DEF Tab, MarkOf, Mark
<1>3. /\ (s = "ul" => MarkOf(s, i).c = "bullet")
      /\ (s = "ol" => MarkOf(s, i).c = "number" /\ MarkOf(s, i).n = i)
  BY DEF MarkOf
<1>. QED BY <1>1, <1>2, <1>3 DEF Lead

\* The text w is a and then b.
Joins(w, S, a, b) ==
    /\ w \in Seq(S) /\ Len(w) = Len(a) + Len(b) /\ Len(a) \in Nat /\ Len(b) \in Nat
    /\ \A i \in 1 .. Len(a) : w[i] = a[i]
    /\ \A i \in 1 .. Len(b) : w[Len(a) + i] = b[i]

\* Where the elements of two joined sequences are.
LEMMA ConcatIs ==
    ASSUME NEW S, NEW a \in Seq(S), NEW b \in Seq(S)
    PROVE  Joins(a \o b, S, a, b)
<1>1. PICK m \in Nat : m = Len(a)
  OBVIOUS
<1>2. PICK n \in Nat : n = Len(b)
  OBVIOUS
<1>3. PICK w : w = a \o b
  OBVIOUS
<1>4. /\ w \in Seq(S) /\ Len(w) = m + n
      /\ \A i \in 1 .. (m + n) : w[i] = IF i <= m THEN a[i] ELSE b[i - m]
  BY <1>1, <1>2, <1>3, ConcatProperties
<1>5. \A i \in 1 .. m : w[i] = a[i]
  BY <1>4
<1>6. ASSUME NEW i \in 1 .. n PROVE w[m + i] = b[i]
  <2>1. m + i \in 1 .. (m + n) /\ ~(m + i <= m) /\ (m + i) - m = i
    OBVIOUS
  <2>. QED BY <1>4, <2>1
<1>. QED BY <1>1, <1>2, <1>3, <1>4, <1>5, <1>6 DEF Joins

\* The text w is a head and then b.
Led(w, s, i, b) ==
    /\ w \in Seq(Char) /\ Len(w) = 3 + Len(b) /\ HeadLength(w) = 3
    /\ w[1] = Tab(s) /\ w[2] = MarkOf(s, i) /\ w[3] = Tab(s)
    /\ \A j \in 1 .. Len(b) : w[3 + j] = b[j]
    /\ RemoveHeadTabString(w) = b

\* A head in front of any text is recognised as one and can be taken off again.
LEMMA LedIs ==
    ASSUME NEW s \in {"ul", "ol"}, NEW i \in Nat, NEW b \in Seq(Char)
    PROVE  Led(Lead(s, i) \o b, s, i, b)
<1>0. PICK w : w = Lead(s, i) \o b
  OBVIOUS
<1>1. PICK l \in Seq(Char) : l = Lead(s, i)
  BY LeadIs
<1>2. /\ Len(l) = 3 /\ l[1] = Tab(s) /\ l[2] = MarkOf(s, i) /\ l[3] = Tab(s)
      /\ Tab(s).c = "tab" /\ MarkOf(s, i).c \in Mark
  BY <1>1, LeadIs
<1>3. /\ w \in Seq(Char) /\ Len(w) = 3 + Len(b) /\ Len(b) \in Nat
      /\ w[1] = l[1] /\ w[2] = l[2] /\ w[3] = l[3]
      /\ \A j \in 1 .. Len(b) : w[3 + j] = b[j]
  <2>1. Joins(w, Char, l, b)
    BY <1>0, <1>1, ConcatIs
  <2>. QED BY <1>2, <2>1 DEF Joins
<1>4. HeadLength(w) = 3
  <2>1. w[1].c = "tab" /\ w[2].c \in Mark /\ w[3].c = "tab" /\ Len(w) >= 3
    BY <1>2, <1>3
  <2>. QED BY <2>1 DEF HeadLength
<1>5. RemoveHeadTabString(w) = b
  <2>1. PICK r : r = RemoveHeadTabString(w)
    OBVIOUS
  <2>2. /\ r \in Seq(Char) /\ Len(r) = Len(w) - 3
        /\ \A j \in 1 .. (Len(w) - 3) : r[j] = w[3 + j]
    <3>1. PieceOf(r, Char, w, 3, Len(w))
      BY <1>3, <1>4, <2>1, BodyIs
    <3>. QED BY <3>1 DEF PieceOf
  <2>3. Len(r) = Len(b) /\ \A j \in 1 .. Len(r) : r[j] = b[j]
    BY <1>3, <2>2
  <2>. QED BY <2>1, <2>2, <2>3, SeqEqual
<1>. QED BY <1>0, <1>2, <1>3, <1>4, <1>5 DEF Led

\* A paragraph with its head is a paragraph with the same style and text behind it.
LEMMA WithHeadIs ==
    ASSUME NEW q, Line(q), NEW i \in Nat, NEW w, w = WithHead(q, i)
    PROVE  /\ Line(w) /\ (Ended(q) => Ended(w)) /\ w[1].s = q[1].s /\ q[1].s \in Style
           /\ q[1].s = "none" => w = q
           /\ q[1].s # "none" => w = Lead(q[1].s, i) \o RemoveHeadTabString(q)
<1>1. q \in Seq(Char) /\ Len(q) \in Nat \ {0} /\ \A j \in 1 .. (Len(q) - 1) : q[j].c # "newline"
  BY DEF Line
<1>2. PICK s : s = q[1].s
  OBVIOUS
<1>3. s \in Style
  BY <1>2, FixIs
<1>4. CASE s = "none"
  <2>1. w = q
    BY <1>2, <1>4 DEF WithHead
  <2>. QED BY <1>2, <1>3, <1>4, <2>1
<1>5. CASE s # "none"
  <2>1. s \in {"ul", "ol"}
    BY <1>3, <1>5 DEF Style
  <2>2. PICK b : b = RemoveHeadTabString(q)
    OBVIOUS
  <2>3. PICK h : h = HeadLength(q)
    OBVIOUS
  <2>4. /\ h \in {0, 3} /\ h <= Len(q) /\ b \in Seq(Char) /\ Len(b) = Len(q) - h
        /\ \A j \in 1 .. (Len(q) - h) : b[j] = q[h + j]
    <3>1. h \in {0, 3} /\ h <= Len(q) /\ PieceOf(b, Char, q, h, Len(q))
      BY <1>1, <2>2, <2>3, BodyIs
    <3>. QED BY <3>1 DEF PieceOf
  <2>5. w = Lead(s, i) \o b
    BY <1>2, <1>5, <2>2 DEF WithHead, Lead
  <2>6. /\ w \in Seq(Char) /\ Len(w) = 3 + Len(b) /\ HeadLength(w) = 3
        /\ w[1] = Tab(s) /\ w[2] = MarkOf(s, i) /\ w[3] = Tab(s)
        /\ \A j \in 1 .. Len(b) : w[3 + j] = b[j]
    <3>1. Led(w, s, i, b)
      BY <2>1, <2>4, <2>5, LedIs
    <3>. QED BY <3>1 DEF Led
  <2>7. Tab(s).c = "tab" /\ Tab(s).s = s /\ MarkOf(s, i).c \in Mark
    BY <2>1, LeadIs
  <2>8. ASSUME NEW j \in 1 .. (Len(w) - 1) PROVE w[j].c # "newline"
    <3>1. CASE j \in 1 .. 3
      <4>1. w[j].c \in {"tab"} \cup Mark
        BY <2>6, <2>7, <3>1
      <4>. QED BY <4>1 DEF Mark
    <3>2. CASE j \notin 1 .. 3
      <4>1. j - 3 \in 1 .. Len(b) /\ 3 + (j - 3) = j /\ h + (j - 3) \in 1 .. (Len(q) - 1)
        BY <1>1, <2>4, <2>6, <3>2, SMTT(30)
      <4>2. w[j] = b[j - 3]
        BY <2>6, <4>1
      <4>3. b[j - 3] = q[h + (j - 3)]
        BY <2>4, <4>1
      <4>. QED BY <1>1, <4>1, <4>2, <4>3
    <3>. QED BY <3>1, <3>2
  <2>9. Line(w)
    BY <1>1, <2>4, <2>6, <2>8 DEF Line
  <2>10. ASSUME Ended(q) PROVE Ended(w)
    <3>1. q[Len(q)].c = "newline"
      BY <2>10 DEF Ended
    <3>2. Len(q) # h
      <4>1. SUFFICES ASSUME Len(q) = 3, h = 3 PROVE FALSE
        BY <1>1, <2>4
      <4>2. q[3].c = "tab"
        BY <2>3, <4>1 DEF HeadLength
      <4>. QED BY <3>1, <4>1, <4>2
    <3>3. Len(b) \in 1 .. Len(b) /\ Len(b) \in 1 .. (Len(q) - h) /\ h + Len(b) = Len(q)
      BY <1>1, <2>4, <3>2
    <3>4. w[Len(w)] = b[Len(b)] /\ b[Len(b)] = q[Len(q)]
      BY <2>4, <2>6, <3>3
    <3>. QED BY <3>1, <3>4 DEF Ended
  <2>. QED BY <1>2, <1>3, <1>5, <2>2, <2>5, <2>6, <2>7, <2>9, <2>10
<1>. QED BY <1>4, <1>5

\* The place of the i-th paragraph among the consecutive ones with its style.
ItemNo(qs, i) == i - Max({0} \cup {j \in 1 .. (i - 1) : qs[j][1].s # qs[i][1].s})

\* Items count from 1 in each run of paragraphs with the same style.
LEMMA ItemNoIs ==
    ASSUME NEW qs, NEW i \in Nat \ {0}
    PROVE  /\ ItemNo(qs, i) \in 1 .. i
           /\ (i = 1 \/ qs[i - 1][1].s # qs[i][1].s) => ItemNo(qs, i) = 1
           /\ (i # 1 /\ qs[i - 1][1].s = qs[i][1].s) => ItemNo(qs, i) = ItemNo(qs, i - 1) + 1
<1>. DEFINE A(k) == {0} \cup {j \in 1 .. (k - 1) : qs[j][1].s # qs[k][1].s}
<1>1. ASSUME NEW k \in Nat \ {0} PROVE Max(A(k)) \in A(k) /\ \A x \in A(k) : x <= Max(A(k))
  <2>1. A(k) \subseteq Nat /\ A(k) # {} /\ k \in Nat /\ \A x \in A(k) : x <= k
    OBVIOUS
  <2>. HIDE DEF A
  <2>. QED BY <2>1, MaxIs
<1>2. ItemNo(qs, i) = i - Max(A(i))
  BY DEF ItemNo
<1>3. Max(A(i)) \in 0 .. (i - 1)
  <2>1. A(i) \subseteq 0 .. (i - 1)
    OBVIOUS
  <2>. HIDE DEF A
  <2>. QED BY <1>1, <2>1
<1>4. ASSUME i = 1 \/ qs[i - 1][1].s # qs[i][1].s PROVE ItemNo(qs, i) = 1
  <2>1. i - 1 \in A(i)
    BY <1>4
  <2>2. i - 1 <= Max(A(i))
    <3>. HIDE DEF A
    <3>. QED BY <1>1, <2>1
  <2>. HIDE DEF A
  <2>. QED BY <1>2, <1>3, <2>2
<1>5. ASSUME i # 1, qs[i - 1][1].s = qs[i][1].s PROVE ItemNo(qs, i) = ItemNo(qs, i - 1) + 1
  <2>1. A(i) = A(i - 1)
    BY <1>5
  <2>2. ItemNo(qs, i - 1) = (i - 1) - Max(A(i - 1))
    BY DEF ItemNo
  <2>3. ItemNo(qs, i) = i - Max(A(i - 1)) /\ Max(A(i - 1)) \in 0 .. (i - 1)
    <3>. HIDE DEF A
    <3>. QED BY <1>2, <1>3, <2>1
  <2>. HIDE DEF A
  <2>. QED BY <2>2, <2>3
<1>6. ItemNo(qs, i) \in 1 .. i
  <2>. HIDE DEF A
  <2>. QED BY <1>2, <1>3
<1>. QED BY <1>4, <1>5, <1>6

\* The function h is the sequence f and one more element.
Longer(h, f, e) ==
    /\ h = [i \in 1 .. (Len(f) + 1) |-> h[i]]
    /\ (\A i \in 1 .. Len(f) : h[i] = f[i]) /\ h[Len(f) + 1] = e

\* A sequence with one more element behind those of another.
LEMMA AppendIs ==
    ASSUME NEW V, NEW f \in Seq(V), NEW e \in V, NEW h, Longer(h, f, e)
    PROVE  h = Append(f, e)
<1>1. PICK n \in Nat : n = Len(f)
  OBVIOUS
<1>2. PICK g : g = Append(f, e)
  OBVIOUS
<1>3. g \in Seq(V) /\ Len(g) = n + 1 /\ g[n + 1] = e /\ \A i \in 1 .. n : g[i] = f[i]
  BY <1>1, <1>2
<1>4. \A i \in 1 .. (n + 1) : h[i] = g[i]
  <2>1. (\A i \in 1 .. n : h[i] = f[i]) /\ h[n + 1] = e
    BY <1>1 DEF Longer
  <2>2. \A i \in 1 .. (n + 1) : i \in 1 .. n \/ i = n + 1
    OBVIOUS
  <2>. QED BY <1>3, <2>1, <2>2
<1>5. h = [i \in 1 .. (n + 1) |-> h[i]]
  BY <1>1 DEF Longer
<1>6. g = [i \in 1 .. (n + 1) |-> g[i]]
  BY <1>3
<1>7. h = g
  BY <1>4, <1>5, <1>6, Zenon
<1>. QED BY <1>2, <1>7

R == Nat \X Nat

\* The paragraphs of a group with their heads; the groups' texts.
Items(d, g) == [i \in DOMAIN g |-> WithHead(Cut(d, g[i][1], g[i][2]), i)]

Texts(d, gs) == [n \in DOMAIN gs |-> FlattenSeq(Items(d, gs[n]))]

\* One more paragraph in a group.
LEMMA ItemsAppend ==
    ASSUME NEW d, NEW g \in Seq(R), NEW r \in R, Items(d, g) \in Seq(Seq(Char)),
           NEW w \in Seq(Char), w = WithHead(Cut(d, r[1], r[2]), Len(g) + 1)
    PROVE  Items(d, Append(g, r)) = Append(Items(d, g), w)
<1>1. PICK n \in Nat : n = Len(g)
  OBVIOUS
<1>2. PICK f : f = Items(d, g)
  OBVIOUS
<1>3. PICK k : k = Append(g, r)
  OBVIOUS
<1>4. k \in Seq(R) /\ Len(k) = n + 1 /\ k[n + 1] = r /\ \A i \in 1 .. n : k[i] = g[i]
  BY <1>1, <1>3
<1>5. DOMAIN k = 1 .. (n + 1) /\ DOMAIN g = 1 .. n
  BY <1>1, <1>4
<1>6. PICK h : h = Items(d, k)
  OBVIOUS
<1>7. h = [i \in 1 .. (n + 1) |-> WithHead(Cut(d, k[i][1], k[i][2]), i)]
  BY <1>5, <1>6 DEF Items
<1>8. f = [i \in 1 .. n |-> WithHead(Cut(d, g[i][1], g[i][2]), i)]
  BY <1>2, <1>5 DEF Items
<1>9. PICK V : V = Seq(Char)
  OBVIOUS
<1>10. f \in Seq(V) /\ Len(f) = n /\ w \in V
  <2>1. f \in Seq(V)
    BY <1>2, <1>9
  <2>2. DOMAIN f = 1 .. n
    BY <1>8
  <2>3. DOMAIN f = 1 .. Len(f) /\ Len(f) \in Nat
    BY <2>1
  <2>. QED BY <1>9, <2>1, <2>2, <2>3
<1>11. h = [i \in 1 .. (Len(f) + 1) |-> h[i]] /\ h[Len(f) + 1] = w
  BY <1>1, <1>4, <1>7, <1>10
<1>12. ASSUME NEW i \in 1 .. Len(f) PROVE h[i] = f[i]
  <2>1. i \in 1 .. n /\ i \in 1 .. (n + 1) /\ k[i] = g[i]
    BY <1>4, <1>10
  <2>. QED BY <1>7, <1>8, <2>1
<1>13. h = Append(f, w)
  <2>1. Longer(h, f, w)
    BY <1>11, <1>12 DEF Longer
  <2>. QED BY <1>10, <2>1, AppendIs
<1>. QED BY <1>2, <1>3, <1>6, <1>13

\* The text of the groups gs and of one more group with the text w.
OneMore(d, gs, g, w) ==
    /\ Texts(d, Append(gs, g)) = Append(Texts(d, gs), w)
    /\ Texts(d, Append(gs, g)) \in Seq(Seq(Char))
    /\ FlattenSeq(Texts(d, Append(gs, g))) = FlattenSeq(Texts(d, gs)) \o w

\* One more group.
LEMMA TextsAppend ==
    ASSUME NEW d, NEW gs \in Seq(Seq(R)), NEW g \in Seq(R), Texts(d, gs) \in Seq(Seq(Char)),
           NEW w \in Seq(Char), w = FlattenSeq(Items(d, g))
    PROVE  OneMore(d, gs, g, w)
<1>1. PICK n \in Nat : n = Len(gs)
  OBVIOUS
<1>2. PICK f : f = Texts(d, gs)
  OBVIOUS
<1>3. PICK k : k = Append(gs, g)
  OBVIOUS
<1>4. k \in Seq(Seq(R)) /\ Len(k) = n + 1 /\ k[n + 1] = g /\ \A i \in 1 .. n : k[i] = gs[i]
  BY <1>1, <1>3
<1>5. DOMAIN k = 1 .. (n + 1) /\ DOMAIN gs = 1 .. n
  BY <1>1, <1>4
<1>6. PICK h : h = Texts(d, k)
  OBVIOUS
<1>7. h = [i \in 1 .. (n + 1) |-> FlattenSeq(Items(d, k[i]))]
  BY <1>5, <1>6 DEF Texts
<1>8. f = [i \in 1 .. n |-> FlattenSeq(Items(d, gs[i]))]
  BY <1>2, <1>5 DEF Texts
<1>9. PICK V : V = Seq(Char)
  OBVIOUS
<1>10. f \in Seq(V) /\ Len(f) = n /\ w \in V
  <2>1. f \in Seq(V)
    BY <1>2, <1>9
  <2>2. DOMAIN f = 1 .. n
    BY <1>8
  <2>3. DOMAIN f = 1 .. Len(f) /\ Len(f) \in Nat
    BY <2>1
  <2>. QED BY <1>9, <2>1, <2>2, <2>3
<1>11. h = [i \in 1 .. (Len(f) + 1) |-> h[i]] /\ h[Len(f) + 1] = w
  BY <1>1, <1>4, <1>7, <1>10
<1>12. ASSUME NEW i \in 1 .. Len(f) PROVE h[i] = f[i]
  <2>1. i \in 1 .. n /\ i \in 1 .. (n + 1) /\ k[i] = gs[i]
    BY <1>4, <1>10
  <2>. QED BY <1>7, <1>8, <2>1
<1>13. h = Append(f, w)
  <2>1. Longer(h, f, w)
    BY <1>11, <1>12 DEF Longer
  <2>. QED BY <1>10, <2>1, AppendIs
<1>14. h \in Seq(V)
  BY <1>10, <1>13
<1>15. FlattenSeq(Append(f, w)) = FlattenSeq(f) \o w
  BY <1>9, <1>10, FlattenAppend
<1>. QED BY <1>2, <1>3, <1>6, <1>9, <1>13, <1>14, <1>15, Zenon DEF OneMore

\* A paragraph joins the last group or begins a new one.
PutIn(d, gs, r) ==
    IF gs # <<>> /\ TabStyleFor(d, Head(Last(gs))[1]) = TabStyleFor(d, r[1])
    THEN Append(Front(gs), Append(Last(gs), r))
    ELSE Append(gs, <<r>>)

\* The groups of the first n ranges, for every n.
Grouping(g, d, ps) ==
    g = [n \in 0 .. Len(ps) |-> IF n = 0 THEN <<>> ELSE PutIn(d, g[n - 1], ps[n])]

\* Putting a paragraph into the groups gives groups.
LEMMA PutInType ==
    ASSUME NEW d, NEW gs \in Seq(Seq(R)), NEW r \in R
    PROVE  PutIn(d, gs, r) \in Seq(Seq(R))
<1>1. Append(gs, <<r>>) \in Seq(Seq(R))
  <2>1. <<r>> \in Seq(R)
    OBVIOUS
  <2>2. PICK V : V = Seq(R)
    OBVIOUS
  <2>. QED BY <2>1, <2>2, AppendProperties
<1>2. ASSUME gs # <<>> PROVE Append(Front(gs), Append(Last(gs), r)) \in Seq(Seq(R))
  <2>1. PICK V : V = Seq(R)
    OBVIOUS
  <2>2. gs \in Seq(V)
    BY <2>1
  <2>3. Front(gs) \in Seq(V) /\ Last(gs) \in V
    BY <1>2, <2>2, FrontLast
  <2>4. Append(Last(gs), r) \in V
    BY <2>1, <2>3, AppendProperties
  <2>. QED BY <2>1, <2>3, <2>4, AppendProperties
<1>3. CASE gs # <<>> /\ TabStyleFor(d, Head(Last(gs))[1]) = TabStyleFor(d, r[1])
  <2>1. PutIn(d, gs, r) = Append(Front(gs), Append(Last(gs), r))
    BY <1>3, Zenon DEF PutIn
  <2>. QED BY <1>2, <1>3, <2>1
<1>4. CASE ~(gs # <<>> /\ TabStyleFor(d, Head(Last(gs))[1]) = TabStyleFor(d, r[1]))
  <2>1. PutIn(d, gs, r) = Append(gs, <<r>>)
    BY <1>4, Zenon DEF PutIn
  <2>. QED BY <1>1, <2>1
<1>. QED BY <1>3, <1>4

\* The loop that collects the groups has a result.
LEMMA GroupsExist ==
    ASSUME NEW d, NEW ps \in Seq(R), ps = AllParapraghRange(d)
    PROVE  \E g : Grouping(g, d, ps) /\ Groups(d) = g[Len(ps)]
<1>1. PICK N \in Nat : N = Len(ps)
  OBVIOUS
<1>2. PICK V : V = Seq(Seq(R))
  OBVIOUS
<1>3. <<>> \in V
  BY <1>2
<1>3a. \A i \in 1 .. N : ps[i] \in R
  BY <1>1
<1>. DEFINE h == [x \in (1 .. N) \X V |-> PutIn(d, x[2], ps[x[1]])]
<1>4. h \in [(1 .. N) \X V -> V]
  <2>1. ASSUME NEW x \in (1 .. N) \X V PROVE PutIn(d, x[2], ps[x[1]]) \in V
    <3>1. x[2] \in V /\ ps[x[1]] \in R
      BY <1>3a
    <3>. QED BY <1>2, <3>1, PutInType
  <2>. QED BY <2>1
<1>5. PICK f : Up(f, N, V, <<>>, h)
  <2>. HIDE DEF h
  <2>1. PICK b \in V : b = <<>>
    BY <1>3
  <2>2. \E f : Up(f, N, V, b, h)
    BY <1>4, RecursionUp
  <2>. QED BY <2>1, <2>2
<1>6. f \in [0 .. N -> V] /\ f[0] = <<>>
  BY <1>5 DEF Up
<1>7. ASSUME NEW n \in 1 .. N PROVE f[n] = PutIn(d, f[n - 1], ps[n])
  <2>1. f[n] = h[<<n, f[n - 1]>>]
    <3>. HIDE DEF h
    <3>. QED BY <1>5 DEF Up
  <2>2. f[n - 1] \in V
    BY <1>6
  <2>3. h[<<n, f[n - 1]>>] = PutIn(d, f[n - 1], ps[n])
    BY <2>2
  <2>. HIDE DEF h
  <2>. QED BY <2>1, <2>3, Zenon
<1>8. Grouping(f, d, ps)
  <2>1. ASSUME NEW n \in 0 .. N PROVE f[n] = IF n = 0 THEN <<>> ELSE PutIn(d, f[n - 1], ps[n])
    <3>1. CASE n = 0
      BY <1>6, <3>1, Zenon
    <3>2. CASE n # 0
      <4>1. n \in 1 .. N
        BY <3>2
      <4>. QED BY <1>7, <3>2, <4>1, Zenon
    <3>. QED BY <3>1, <3>2
  <2>2. f = [n \in 0 .. N |-> f[n]]
    BY <1>6
  <2>3. [n \in 0 .. N |-> f[n]] = [n \in 0 .. N |-> IF n = 0 THEN <<>> ELSE PutIn(d, f[n - 1], ps[n])]
    BY <2>1, Zenon
  <2>. QED BY <1>1, <2>2, <2>3, Zenon DEF Grouping
<1>9. PICK c : c = CHOOSE g : Grouping(g, d, ps)
  OBVIOUS
<1>10. Grouping(c, d, ps)
  BY <1>8, <1>9, Zenon
<1>11. Groups(d) = c[Len(ps)]
  BY <1>9, ZenonT(40) DEF Groups, Grouping, PutIn
<1>. QED BY <1>10, <1>11

\* The first n paragraphs with their heads.
Heads(qs, n) == [k \in 1 .. n |-> WithHead(qs[k], ItemNo(qs, k))]

\* One more paragraph gets its head.
LEMMA HeadsIs ==
    ASSUME NEW qs, WellFormed(qs), NEW n \in 0 .. Len(qs)
    PROVE  /\ Heads(qs, n) \in Seq(Seq(Char)) /\ Len(Heads(qs, n)) = n
           /\ n < Len(qs) => Heads(qs, n + 1) =
                                 Append(Heads(qs, n), WithHead(qs[n + 1], ItemNo(qs, n + 1)))
<1>1. ASSUME NEW k \in 1 .. Len(qs) PROVE WithHead(qs[k], ItemNo(qs, k)) \in Seq(Char)
  <2>1. Line(qs[k])
    BY DEF WellFormed
  <2>2. ItemNo(qs, k) \in Nat
    <3>1. k \in Nat \ {0}
      BY DEF WellFormed
    <3>2. ItemNo(qs, k) \in 1 .. k
      BY <3>1, ItemNoIs
    <3>. QED BY <3>1, <3>2
  <2>3. Line(WithHead(qs[k], ItemNo(qs, k)))
    BY <2>1, <2>2, WithHeadIs
  <2>. QED BY <2>3 DEF Line
<1>2. PICK V : V = Seq(Char)
  OBVIOUS
<1>3. PICK N \in Nat : N = Len(qs)
  BY DEF WellFormed
<1>4. ASSUME NEW m \in 0 .. N PROVE Heads(qs, m) \in Seq(V) /\ Len(Heads(qs, m)) = m
  <2>1. \A k \in 1 .. m : WithHead(qs[k], ItemNo(qs, k)) \in V
    BY <1>1, <1>2, <1>3
  <2>2. PICK f : f = Heads(qs, m)
    OBVIOUS
  <2>3. f = [k \in 1 .. m |-> WithHead(qs[k], ItemNo(qs, k))]
    BY <2>2 DEF Heads
  <2>4. f \in [1 .. m -> V]
    BY <2>1, <2>3
  <2>5. f \in Seq(V) /\ Len(f) = m
    BY <2>4
  <2>. QED BY <2>2, <2>5
<1>5. ASSUME n < N
      PROVE  Heads(qs, n + 1) = Append(Heads(qs, n), WithHead(qs[n + 1], ItemNo(qs, n + 1)))
  <2>1. PICK e \in V : e = WithHead(qs[n + 1], ItemNo(qs, n + 1))
    BY <1>1, <1>2, <1>3, <1>5
  <2>2. PICK f \in Seq(V) : f = Heads(qs, n)
    BY <1>3, <1>4
  <2>3. PICK h : h = Heads(qs, n + 1)
    OBVIOUS
  <2>4. Len(f) = n
    BY <1>3, <1>4, <2>2
  <2>5. h = [k \in 1 .. (n + 1) |-> WithHead(qs[k], ItemNo(qs, k))]
    BY <2>3 DEF Heads
  <2>6. f = [k \in 1 .. n |-> WithHead(qs[k], ItemNo(qs, k))]
    BY <2>2 DEF Heads
  <2>7. Longer(h, f, e)
    BY <1>3, <2>1, <2>4, <2>5, <2>6 DEF Longer
  <2>8. h = Append(f, e)
    BY <2>7, AppendIs
  <2>. QED BY <2>1, <2>2, <2>3, <2>8
<1>. QED BY <1>2, <1>3, <1>4, <1>5

\* Joining one piece gives that piece.
LEMMA FlattenOne ==
    ASSUME NEW S, NEW w \in Seq(S)
    PROVE  FlattenSeq(<<w>>) = w
<1>1. <<>> \in Seq(Seq(S)) /\ <<>> \o w = w /\ Append(<<>>, w) = <<w>>
  OBVIOUS
<1>2. FlattenSeq(Append(<<>>, w)) = FlattenSeq(<<>>) \o w
  BY <1>1, FlattenAppend
<1>. QED BY <1>1, <1>2, FlattenEmpty, Zenon

\* The last element is the one appended.
LEMMA AppendLast ==
    ASSUME NEW V, NEW q \in Seq(V), NEW e \in V
    PROVE  Append(q, e) \in Seq(V) /\ Append(q, e) # <<>> /\ Last(Append(q, e)) = e
<1>1. PICK r : r = Append(q, e)
  OBVIOUS
<1>2. r \in Seq(V) /\ r # <<>> /\ r[Len(r)] = e
  BY <1>1
<1>. QED BY <1>1, <1>2 DEF Last

\* Joining three texts does not depend on the order.
LEMMA CharAssociative ==
    \A a, b, c \in Seq(Char) : (a \o b) \o c = a \o (b \o c)
BY ConcatAssociative

\* What the groups gs of the first n paragraphs stand for: the paragraphs with their
\* heads, and the last group knows style and place of the last of them.
Collected(d, qs, n, gs) ==
    /\ gs \in Seq(Seq(R)) /\ Texts(d, gs) \in Seq(Seq(Char))
    /\ FlattenSeq(Texts(d, gs)) = FlattenSeq(Heads(qs, n))
    /\ n = 0 => gs = <<>>
    /\ n # 0 => /\ gs # <<>> /\ Len(Last(gs)) = ItemNo(qs, n)
                /\ Items(d, Last(gs)) \in Seq(Seq(Char))
                /\ TabStyleFor(d, Head(Last(gs))[1]) = qs[n][1].s

\* One more group.
LEMMA CollectedNew ==
    ASSUME NEW d \in Seq(Char), NEW qs, WellFormed(qs), NEW n \in Nat, n < Len(qs),
           NEW gs, Collected(d, qs, n, gs), NEW r \in R, Cut(d, r[1], r[2]) = qs[n + 1],
           TabStyleFor(d, r[1]) = qs[n + 1][1].s, ItemNo(qs, n + 1) = 1
    PROVE  Collected(d, qs, n + 1, Append(gs, <<r>>))
<1>1. PICK w : w = WithHead(qs[n + 1], 1)
  OBVIOUS
<1>1a. n + 1 \in 1 .. Len(qs) /\ n \in 0 .. Len(qs)
  BY DEF WellFormed
<1>2. w \in Seq(Char)
  <2>1. Line(qs[n + 1])
    BY <1>1a DEF WellFormed
  <2>2. Line(w)
    BY <1>1, <2>1, WithHeadIs
  <2>. QED BY <2>2 DEF Line
<1>3. PICK g : g = <<r>>
  OBVIOUS
<1>4. g \in Seq(R) /\ Len(g) = 1 /\ g[1] = r /\ DOMAIN g = 1 .. 1 /\ Head(g) = r
  BY <1>3
<1>5. Items(d, g) = <<w>>
  <2>1. Items(d, g) = [i \in 1 .. 1 |-> WithHead(Cut(d, g[i][1], g[i][2]), i)]
    BY <1>4 DEF Items
  <2>2. \A i \in 1 .. 1 : WithHead(Cut(d, g[i][1], g[i][2]), i) = w
    BY <1>1, <1>4
  <2>3. Items(d, g) = [i \in 1 .. 1 |-> w]
    BY <2>1, <2>2
  <2>. QED BY <2>3
<1>6. FlattenSeq(Items(d, g)) = w /\ Items(d, g) \in Seq(Seq(Char))
  BY <1>2, <1>5, FlattenOne
<1>7. PICK hs : hs = Append(gs, g)
  OBVIOUS
<1>7a. gs \in Seq(Seq(R)) /\ Texts(d, gs) \in Seq(Seq(Char))
  BY DEF Collected
<1>8. Texts(d, hs) \in Seq(Seq(Char)) /\ FlattenSeq(Texts(d, hs)) = FlattenSeq(Texts(d, gs)) \o w
  <2>1. OneMore(d, gs, g, w)
    BY <1>2, <1>4, <1>6, <1>7a, TextsAppend
  <2>. QED BY <1>7, <2>1, Zenon DEF OneMore
<1>9. FlattenSeq(Heads(qs, n + 1)) = FlattenSeq(Heads(qs, n)) \o w
  <2>1. Heads(qs, n) \in Seq(Seq(Char)) /\ Heads(qs, n + 1) = Append(Heads(qs, n), w)
    BY <1>1, <1>1a, HeadsIs
  <2>2. FlattenSeq(Append(Heads(qs, n), w)) = FlattenSeq(Heads(qs, n)) \o w
    BY <1>2, <2>1, FlattenAppend
  <2>. QED BY <2>1, <2>2, Zenon
<1>10. FlattenSeq(Texts(d, hs)) = FlattenSeq(Heads(qs, n + 1))
  <2>1. FlattenSeq(Texts(d, gs)) = FlattenSeq(Heads(qs, n))
    BY DEF Collected
  <2>. QED BY <1>8, <1>9, <2>1, Zenon
<1>11. hs \in Seq(Seq(R)) /\ hs # <<>> /\ Last(hs) = g
  <2>1. PICK V : V = Seq(R)
    OBVIOUS
  <2>2. gs \in Seq(V) /\ g \in V
    BY <1>4, <1>7a, <2>1
  <2>3. hs \in Seq(V) /\ hs # <<>> /\ hs[Len(hs)] = g
    BY <1>7, <2>2
  <2>. QED BY <2>1, <2>3 DEF Last
<1>12. TabStyleFor(d, Head(Last(hs))[1]) = qs[n + 1][1].s /\ Len(Last(hs)) = ItemNo(qs, n + 1)
  BY <1>4, <1>11
<1>13. n + 1 # 0
  OBVIOUS
<1>14. Collected(d, qs, n + 1, hs)
  BY <1>6, <1>8, <1>10, <1>11, <1>12, <1>13 DEF Collected
<1>. QED BY <1>3, <1>7, <1>14

\* One more paragraph in the last group.
LEMMA CollectedMore ==
    ASSUME NEW d \in Seq(Char), NEW qs, WellFormed(qs), NEW n \in Nat \ {0}, n < Len(qs),
           NEW gs, Collected(d, qs, n, gs), NEW r \in R, Cut(d, r[1], r[2]) = qs[n + 1],
           qs[n + 1][1].s = qs[n][1].s, ItemNo(qs, n + 1) = ItemNo(qs, n) + 1
    PROVE  Collected(d, qs, n + 1, Append(Front(gs), Append(Last(gs), r)))
<1>1. PICK w : w = WithHead(qs[n + 1], ItemNo(qs, n + 1))
  OBVIOUS
<1>1a. n + 1 \in 1 .. Len(qs) /\ n \in 0 .. Len(qs)
  <2>1. Len(qs) \in Nat
    BY DEF WellFormed
  <2>. QED BY <2>1
<1>1b. ItemNo(qs, n) \in 1 .. n /\ ItemNo(qs, n + 1) \in Nat
  BY ItemNoIs, SMTT(30)
<1>2. w \in Seq(Char)
  <2>1. Line(qs[n + 1])
    BY <1>1a DEF WellFormed
  <2>2. Line(w)
    BY <1>1, <1>1b, <2>1, WithHeadIs
  <2>. QED BY <2>2 DEF Line
<1>3. /\ gs \in Seq(Seq(R)) /\ Texts(d, gs) \in Seq(Seq(Char)) /\ gs # <<>>
      /\ Len(Last(gs)) = ItemNo(qs, n) /\ Items(d, Last(gs)) \in Seq(Seq(Char))
      /\ TabStyleFor(d, Head(Last(gs))[1]) = qs[n][1].s
      /\ FlattenSeq(Texts(d, gs)) = FlattenSeq(Heads(qs, n))
  BY DEF Collected
<1>4. PICK fr : fr = Front(gs)
  OBVIOUS
<1>5. PICK l : l = Last(gs)
  OBVIOUS
<1>6. fr \in Seq(Seq(R)) /\ l \in Seq(R) /\ gs = Append(fr, l) /\ Len(fr) = Len(gs) - 1
      /\ (\A i \in 1 .. Len(fr) : fr[i] = gs[i]) /\ Len(fr) \in Nat
  <2>1. PICK V : V = Seq(R)
    OBVIOUS
  <2>2. gs \in Seq(V)
    BY <1>3, <2>1
  <2>3. /\ fr \in Seq(V) /\ l \in V /\ gs = Append(fr, l) /\ Len(fr) = Len(gs) - 1
        /\ \A i \in 1 .. (Len(gs) - 1) : fr[i] = gs[i]
    BY <1>3, <1>4, <1>5, <2>2, FrontLast
  <2>. QED BY <2>1, <2>3
<1>7. Texts(d, fr) \in Seq(Seq(Char))
  <2>1. PICK m \in Nat : m = Len(fr)
    BY <1>6
  <2>2. DOMAIN fr = 1 .. m /\ DOMAIN gs = 1 .. (m + 1)
    BY <1>3, <1>6, <2>1
  <2>3. PICK t : t = Texts(d, gs)
    OBVIOUS
  <2>4. t = [k \in 1 .. (m + 1) |-> FlattenSeq(Items(d, gs[k]))]
    BY <2>2, <2>3 DEF Texts
  <2>5. PICK V : V = Seq(Char)
    OBVIOUS
  <2>6. \A k \in 1 .. (m + 1) : t[k] \in V
    <3>1. t \in Seq(V)
      BY <1>3, <2>3, <2>5
    <3>2. DOMAIN t = 1 .. (m + 1)
      BY <2>4
    <3>3. DOMAIN t = 1 .. Len(t) /\ \A k \in 1 .. Len(t) : t[k] \in V
      BY <3>1
    <3>. QED BY <3>2, <3>3
  <2>7. PICK u : u = Texts(d, fr)
    OBVIOUS
  <2>8. u = [k \in 1 .. m |-> FlattenSeq(Items(d, fr[k]))]
    BY <2>2, <2>7 DEF Texts
  <2>9. \A k \in 1 .. m : FlattenSeq(Items(d, fr[k])) \in V
    <3>. SUFFICES ASSUME NEW k \in 1 .. m PROVE FlattenSeq(Items(d, fr[k])) \in V
      OBVIOUS
    <3>1. fr[k] = gs[k] /\ k \in 1 .. (m + 1)
      BY <1>6, <2>1
    <3>2. t[k] = FlattenSeq(Items(d, gs[k]))
      BY <2>4, <3>1
    <3>. QED BY <2>6, <3>1, <3>2
  <2>10. u \in [1 .. m -> V]
    BY <2>8, <2>9
  <2>11. u \in Seq(V)
    BY <2>10
  <2>. QED BY <2>5, <2>7, <2>11
<1>8. PICK wl \in Seq(Char) : wl = FlattenSeq(Items(d, l))
  BY <1>3, <1>5, FlattenType
<1>9. FlattenSeq(Texts(d, gs)) = FlattenSeq(Texts(d, fr)) \o wl
  <2>1. FlattenSeq(Texts(d, Append(fr, l))) = FlattenSeq(Texts(d, fr)) \o wl
    <3>1. OneMore(d, fr, l, wl)
      BY <1>6, <1>7, <1>8, TextsAppend
    <3>. QED BY <3>1, Zenon DEF OneMore
  <2>. QED BY <1>6, <2>1, Zenon
<1>10. PICK g : g = Append(l, r)
  OBVIOUS
<1>11. g \in Seq(R) /\ Len(g) = Len(l) + 1 /\ Head(g) = Head(l)
  <2>1. Len(l) \in Nat \ {0}
    BY <1>1b, <1>3, <1>5, <1>6
  <2>2. g \in Seq(R) /\ Len(g) = Len(l) + 1 /\ g[1] = l[1]
    BY <1>6, <1>10, <2>1
  <2>. QED BY <1>6, <2>1, <2>2
<1>12. Items(d, g) = Append(Items(d, l), w)
  <2>1. w = WithHead(Cut(d, r[1], r[2]), Len(l) + 1)
    BY <1>1, <1>3, <1>5
  <2>. QED BY <1>2, <1>3, <1>5, <1>6, <1>10, <2>1, ItemsAppend
<1>13. Items(d, g) \in Seq(Seq(Char)) /\ FlattenSeq(Items(d, g)) = wl \o w
  <2>1. PICK il : il = Items(d, l)
    OBVIOUS
  <2>2. il \in Seq(Seq(Char))
    BY <1>3, <1>5, <2>1
  <2>3. FlattenSeq(Append(il, w)) = FlattenSeq(il) \o w
    BY <1>2, <2>2, FlattenAppend
  <2>4. Append(il, w) \in Seq(Seq(Char))
    BY <1>2, <2>2
  <2>5. Items(d, g) = Append(il, w)
    BY <1>12, <2>1, Zenon
  <2>6. wl = FlattenSeq(il)
    BY <1>8, <2>1
  <2>. QED BY <2>3, <2>4, <2>5, <2>6, Zenon
<1>14. PICK v : v = wl \o w /\ v \in Seq(Char)
  BY <1>2, ConcatProperties
<1>15. PICK hs : hs = Append(fr, g)
  OBVIOUS
<1>16. Texts(d, hs) \in Seq(Seq(Char)) /\ FlattenSeq(Texts(d, hs)) = FlattenSeq(Texts(d, fr)) \o v
  <2>1. v = FlattenSeq(Items(d, g))
    BY <1>13, <1>14, Zenon
  <2>2. /\ Texts(d, Append(fr, g)) \in Seq(Seq(Char))
        /\ FlattenSeq(Texts(d, Append(fr, g))) = FlattenSeq(Texts(d, fr)) \o v
    <3>1. v \in Seq(Char) /\ fr \in Seq(Seq(R)) /\ g \in Seq(R)
      BY <1>6, <1>11, <1>14
    <3>2. OneMore(d, fr, g, v)
      BY <1>7, <2>1, <3>1, TextsAppend
    <3>. QED BY <3>2, Zenon DEF OneMore
  <2>. QED BY <1>15, <2>2, Zenon
<1>17. FlattenSeq(Texts(d, hs)) = FlattenSeq(Texts(d, gs)) \o w
  <2>1. PICK a \in Seq(Char) : a = FlattenSeq(Texts(d, fr))
    BY <1>7, FlattenType
  <2>2. (a \o wl) \o w = a \o (wl \o w)
    BY <1>2, CharAssociative, ZenonT(30)
  <2>. QED BY <1>9, <1>14, <1>16, <2>1, <2>2, Zenon
<1>18. FlattenSeq(Heads(qs, n + 1)) = FlattenSeq(Heads(qs, n)) \o w
  <2>1. Heads(qs, n) \in Seq(Seq(Char)) /\ Heads(qs, n + 1) = Append(Heads(qs, n), w)
    BY <1>1, <1>1a, HeadsIs
  <2>2. FlattenSeq(Append(Heads(qs, n), w)) = FlattenSeq(Heads(qs, n)) \o w
    BY <1>2, <2>1, FlattenAppend
  <2>. QED BY <2>1, <2>2, Zenon
<1>19. FlattenSeq(Texts(d, hs)) = FlattenSeq(Heads(qs, n + 1))
  BY <1>3, <1>17, <1>18, Zenon
<1>20. hs \in Seq(Seq(R)) /\ hs # <<>> /\ Last(hs) = g
  <2>1. PICK V : V = Seq(R)
    OBVIOUS
  <2>2. fr \in Seq(V) /\ g \in V
    BY <1>6, <1>11, <2>1
  <2>3. hs \in Seq(V) /\ hs # <<>> /\ Last(hs) = g
    BY <1>15, <2>2, AppendLast, ZenonT(30)
  <2>. QED BY <2>1, <2>3
<1>21. TabStyleFor(d, Head(Last(hs))[1]) = qs[n + 1][1].s
  BY <1>3, <1>5, <1>11, <1>20
<1>21a. Len(Last(hs)) = ItemNo(qs, n + 1)
  BY <1>3, <1>5, <1>11, <1>20
<1>22. n + 1 # 0
  OBVIOUS
<1>23. Collected(d, qs, n + 1, hs)
  BY <1>13, <1>16, <1>19, <1>20, <1>21, <1>21a, <1>22 DEF Collected
<1>. QED BY <1>4, <1>5, <1>10, <1>15, <1>23

\* resetTabOrderNumber gives every paragraph the head of its place in its list.
LEMMA ResetIs ==
    ASSUME NEW d \in Seq(Char)
    PROVE  ResetTabOrderNumber(d) = FlattenSeq(Heads(Paras(d), Len(Paras(d))))
<1>1. PICK qs : qs = Paras(d)
  OBVIOUS
<1>2. PICK ps : ps = AllParapraghRange(d)
  OBVIOUS
<1>3. WellFormed(qs) /\ Cuts(d, ps, qs)
  BY <1>1, <1>2, ParasOf
<1>4. PICK N \in Nat : N = Len(qs)
  BY <1>3 DEF WellFormed
<1>5. ps \in Seq(R) /\ Len(ps) = N
  BY <1>3, <1>4 DEF Cuts, R
<1>6. PICK c : Grouping(c, d, ps) /\ Groups(d) = c[N]
  BY <1>2, <1>5, GroupsExist
<1>. DEFINE K == {n \in Nat : n <= N => Collected(d, qs, n, c[n])}
<1>7. 0 \in K
  <2>1. c[0] = <<>>
    <3>1. 0 \in 0 .. Len(ps)
      BY <1>5
    <3>. QED BY <1>6, <3>1, Zenon DEF Grouping
  <2>2. Texts(d, <<>>) = <<>>
    BY DEF Texts
  <2>3. Heads(qs, 0) = <<>>
    BY DEF Heads
  <2>4. Collected(d, qs, 0, <<>>)
    <3>1. <<>> \in Seq(Seq(R)) /\ <<>> \in Seq(Seq(Char))
      OBVIOUS
    <3>. QED BY <2>2, <2>3, <3>1, Zenon DEF Collected
  <2>. QED BY <2>1, <2>4
<1>8. ASSUME NEW n \in Nat, n \in K PROVE n + 1 \in K
  <2>. SUFFICES ASSUME n + 1 <= N PROVE Collected(d, qs, n + 1, c[n + 1])
    OBVIOUS
  <2>1. PICK gs : gs = c[n]
    OBVIOUS
  <2>2. Collected(d, qs, n, gs) /\ n < Len(qs)
    BY <1>4, <1>8, <2>1
  <2>3. PICK r : r = ps[n + 1]
    OBVIOUS
  <2>4. n + 1 \in 1 .. Len(qs) /\ n + 1 \in 0 .. Len(ps) /\ n + 1 # 0 /\ (n + 1) - 1 = n
    BY <1>4, <1>5
  <2>5. r \in R /\ Cut(d, r[1], r[2]) = qs[n + 1] /\ TabStyleFor(d, r[1]) = qs[n + 1][1].s
    <3>1. r \in R
      BY <1>4, <1>5, <2>3, <2>4
    <3>. QED BY <1>3, <2>3, <2>4, <3>1 DEF Cuts
  <2>6. c[n + 1] = PutIn(d, gs, r)
    BY <1>6, <2>1, <2>3, <2>4, Zenon DEF Grouping
  <2>7. CASE gs # <<>> /\ TabStyleFor(d, Head(Last(gs))[1]) = TabStyleFor(d, r[1])
    <3>1. n # 0 /\ qs[n + 1][1].s = qs[n][1].s
      BY <2>2, <2>5, <2>7 DEF Collected
    <3>2. ItemNo(qs, n + 1) = ItemNo(qs, n) + 1
      <4>1. n + 1 \in Nat \ {0} /\ n + 1 # 1
        BY <3>1
      <4>. QED BY <2>4, <3>1, <4>1, ItemNoIs
    <3>3. Collected(d, qs, n + 1, Append(Front(gs), Append(Last(gs), r)))
      BY <1>3, <2>2, <2>5, <3>1, <3>2, CollectedMore
    <3>. QED BY <2>6, <2>7, <3>3, Zenon DEF PutIn
  <2>8. CASE ~(gs # <<>> /\ TabStyleFor(d, Head(Last(gs))[1]) = TabStyleFor(d, r[1]))
    <3>1. n = 0 \/ qs[n][1].s # qs[n + 1][1].s
      BY <2>2, <2>5, <2>8 DEF Collected
    <3>2. ItemNo(qs, n + 1) = 1
      <4>1. n + 1 \in Nat \ {0} /\ (n = 0 => n + 1 = 1)
        OBVIOUS
      <4>. QED BY <2>4, <3>1, <4>1, ItemNoIs
    <3>3. Collected(d, qs, n + 1, Append(gs, <<r>>))
      BY <1>3, <2>2, <2>5, <3>2, CollectedNew
    <3>. QED BY <2>6, <2>8, <3>3, Zenon DEF PutIn
  <2>. QED BY <2>7, <2>8
<1>9. N \in K
  <2>. HIDE DEF K
  <2>. QED BY <1>7, <1>8, Induction
<1>10. Collected(d, qs, N, c[N])
  BY <1>9
<1>11. FlattenSeq(Texts(d, c[N])) = FlattenSeq(Heads(qs, N))
  BY <1>10 DEF Collected
<1>12. ResetTabOrderNumber(d) = FlattenSeq(Texts(d, Groups(d)))
  BY Zenon DEF ResetTabOrderNumber, Texts, Items
<1>. QED BY <1>1, <1>4, <1>6, <1>11, <1>12, Zenon

\* The paragraphs that resetTabOrderNumber leaves.
LEMMA ResetParas ==
    ASSUME NEW d \in Seq(Char)
    PROVE  /\ ResetTabOrderNumber(d) \in Seq(Char)
           /\ Paras(ResetTabOrderNumber(d)) = Heads(Paras(d), Len(Paras(d)))
           /\ WellFormed(Heads(Paras(d), Len(Paras(d))))
<1>1. PICK qs : qs = Paras(d)
  OBVIOUS
<1>2. WellFormed(qs)
  BY <1>1, ParasOf
<1>3. PICK n \in Nat : n = Len(qs)
  BY <1>2 DEF WellFormed
<1>4. PICK hs : hs = Heads(qs, n)
  OBVIOUS
<1>5. DOMAIN hs = 1 .. n /\ hs = [i \in 1 .. n |-> hs[i]]
      /\ \A i \in 1 .. n : hs[i] = WithHead(qs[i], ItemNo(qs, i))
  BY <1>4 DEF Heads
<1>6. ASSUME NEW i \in 1 .. n PROVE Line(hs[i]) /\ (Ended(qs[i]) => Ended(hs[i]))
  <2>1. Line(qs[i])
    BY <1>2, <1>3 DEF WellFormed
  <2>2. ItemNo(qs, i) \in Nat
    <3>1. ItemNo(qs, i) \in 1 .. i
      BY ItemNoIs
    <3>. QED BY <3>1
  <2>. QED BY <1>5, <2>1, <2>2, WithHeadIs
<1>7. WellFormed(hs)
  BY <1>2, <1>3, <1>5, <1>6, WellFormedMap
<1>8. ResetTabOrderNumber(d) = FlattenSeq(hs)
  BY <1>1, <1>3, <1>4, ResetIs
<1>. QED BY <1>1, <1>3, <1>4, <1>7, <1>8, CutsIs

\* What is behind the head of a paragraph, without styles.
Body(q) == LET p == RemoveHeadTabString(q) IN [j \in DOMAIN p |-> <<p[j].c, p[j].n>>]

\* The text of a paragraph, character by character.
LEMMA BodyAt ==
    ASSUME NEW q \in Seq(Char)
    PROVE  Body(q) = [j \in 1 .. (Len(q) - HeadLength(q)) |->
                         <<q[HeadLength(q) + j].c, q[HeadLength(q) + j].n>>]
<1>1. PICK b : b = RemoveHeadTabString(q)
  OBVIOUS
<1>2. PICK h : h = HeadLength(q)
  OBVIOUS
<1>3. PICK m : m = Len(q) - h
  OBVIOUS
<1>4. b \in Seq(Char) /\ Len(b) = m /\ \A j \in 1 .. m : b[j] = q[h + j]
  <2>1. PieceOf(b, Char, q, h, Len(q))
    BY <1>1, <1>2, BodyIs
  <2>. QED BY <1>3, <2>1 DEF PieceOf
<1>5. DOMAIN b = 1 .. m
  BY <1>4
<1>6. Body(q) = [j \in 1 .. m |-> <<b[j].c, b[j].n>>]
  BY <1>1, <1>5 DEF Body
<1>7. [j \in 1 .. m |-> <<b[j].c, b[j].n>>] = [j \in 1 .. m |-> <<q[h + j].c, q[h + j].n>>]
  BY <1>4
<1>. QED BY <1>2, <1>3, <1>6, <1>7

\* Paragraphs with the same characters have the same text.
LEMMA SameBody ==
    ASSUME NEW q \in Seq(Char), NEW r, SameText(q, r)
    PROVE  Body(r) = Body(q)
<1>1. HeadLength(r) = HeadLength(q)
  BY SameHead
<1>2. PICK h : h = HeadLength(q)
  OBVIOUS
<1>3. PICK n : n = Len(q)
  OBVIOUS
<1>4. h \in {0, 3} /\ h <= n /\ n \in Nat
  BY <1>2, <1>3, BodyIs
<1>5. r \in Seq(Char) /\ Len(r) = n /\ \A i \in 1 .. n : r[i].c = q[i].c /\ r[i].n = q[i].n
  BY <1>3 DEF SameText
<1>6. Body(q) = [j \in 1 .. (n - h) |-> <<q[h + j].c, q[h + j].n>>]
  BY <1>2, <1>3, BodyAt
<1>7. Body(r) = [j \in 1 .. (n - h) |-> <<r[h + j].c, r[h + j].n>>]
  BY <1>1, <1>2, <1>5, BodyAt
<1>8. \A j \in 1 .. (n - h) : h + j \in 1 .. n
  BY <1>4
<1>9. \A j \in 1 .. (n - h) : <<r[h + j].c, r[h + j].n>> = <<q[h + j].c, q[h + j].n>>
  BY <1>5, <1>8
<1>. QED BY <1>6, <1>7, <1>9

\* A paragraph that has got its head, and one style, keeps both and its text.
Settled(q, i, r) ==
    /\ Line(r) /\ r[1].s = q[1].s /\ Body(r) = Body(q) /\ WithHead(r, i) = r
    /\ q[1].s # "none" => HeadLength(r) = 3
    /\ q[1].s = "ul" => r[2].c = "bullet"
    /\ q[1].s = "ol" => r[2].c = "number" /\ r[2].n = i

\* A paragraph that gets a head is settled.
LEMMA WithHeadStable ==
    ASSUME NEW q, Line(q), NEW i \in Nat, NEW r, r = Fix(WithHead(q, i))
    PROVE  Settled(q, i, r)
<1>1. PICK w : w = WithHead(q, i)
  OBVIOUS
<1>2. PICK s : s = q[1].s
  OBVIOUS
<1>3. /\ Line(w) /\ w[1].s = s /\ s \in Style
      /\ s = "none" => w = q
      /\ s # "none" => w = Lead(s, i) \o RemoveHeadTabString(q)
  BY <1>1, <1>2, WithHeadIs
<1>4. /\ SameText(w, r) /\ Line(r) /\ \A j \in 1 .. Len(w) : r[j].s = s
  BY <1>1, <1>3, FixIs
<1>5. q \in Seq(Char) /\ w \in Seq(Char) /\ r \in Seq(Char) /\ Len(w) \in Nat \ {0} /\ Len(r) = Len(w)
  BY <1>3, <1>4 DEF Line, SameText
<1>6. r[1].s = s
  BY <1>4, <1>5
<1>7. Body(r) = Body(w)
  BY <1>4, <1>5, SameBody
<1>8. CASE s = "none"
  <2>1. Body(r) = Body(q)
    BY <1>3, <1>7, <1>8
  <2>2. WithHead(r, i) = r
    BY <1>6, <1>8 DEF WithHead
  <2>. QED BY <1>2, <1>4, <1>6, <1>8, <2>1, <2>2 DEF Settled
<1>9. CASE s # "none"
  <2>1. s \in {"ul", "ol"}
    BY <1>3, <1>9 DEF Style
  <2>2. PICK b \in Seq(Char) : b = RemoveHeadTabString(q)
    BY <1>5, BodyIs DEF PieceOf
  <2>3. Led(w, s, i, b)
    BY <1>3, <1>9, <2>1, <2>2, LedIs
  <2>4. RemoveHeadTabString(w) = b /\ HeadLength(w) = 3 /\ Len(w) = 3 + Len(b) /\ Len(b) \in Nat
        /\ w[1] = Tab(s) /\ w[2] = MarkOf(s, i) /\ w[3] = Tab(s)
    BY <2>2, <2>3 DEF Led
  <2>5. Body(w) = Body(q)
    BY <2>2, <2>4 DEF Body
  <2>6. HeadLength(r) = 3
    BY <1>4, <1>5, <2>4, SameHead
  <2>7. ASSUME NEW j \in 1 .. 3 PROVE r[j] = w[j]
    <3>1. j \in 1 .. Len(w)
      BY <2>4
    <3>2. r[j] \in Char /\ w[j] \in Char
      BY <1>5, <3>1
    <3>3. r[j].c = w[j].c /\ r[j].n = w[j].n /\ r[j].s = s
      BY <1>4, <3>1 DEF SameText
    <3>4. w[j].s = s
      <4>1. Tab(s).s = s /\ MarkOf(s, i).s = s
        BY <2>1, LeadIs
      <4>. QED BY <2>4, <4>1
    <3>5. ASSUME NEW x \in Char, NEW y \in Char, x.c = y.c, x.n = y.n, x.s = y.s PROVE x = y
      BY <3>5 DEF Char
    <3>. QED BY <3>2, <3>3, <3>4, <3>5
  <2>8. WithHead(r, i) = r
    <3>1. PICK p : p = RemoveHeadTabString(r)
      OBVIOUS
    <3>2. p \in Seq(Char) /\ Len(p) = Len(r) - 3 /\ \A j \in 1 .. (Len(r) - 3) : p[j] = r[3 + j]
      <4>1. PieceOf(p, Char, r, 3, Len(r))
        BY <1>5, <2>6, <3>1, BodyIs
      <4>. QED BY <4>1 DEF PieceOf
    <3>3. PICK v : v = Lead(s, i) \o p
      OBVIOUS
    <3>4. Led(v, s, i, p)
      BY <2>1, <3>2, <3>3, LedIs
    <3>5. /\ v \in Seq(Char) /\ Len(v) = 3 + Len(p)
          /\ v[1] = Tab(s) /\ v[2] = MarkOf(s, i) /\ v[3] = Tab(s)
          /\ \A j \in 1 .. Len(p) : v[3 + j] = p[j]
      BY <3>4 DEF Led
    <3>6. Len(v) = Len(r)
      BY <1>5, <3>2, <3>5
    <3>7. ASSUME NEW j \in 1 .. Len(v) PROVE v[j] = r[j]
      <4>1. CASE j \in 1 .. 3
        BY <2>4, <2>7, <3>5, <4>1
      <4>2. CASE j \notin 1 .. 3
        <5>1. j - 3 \in 1 .. Len(p) /\ 3 + (j - 3) = j /\ j - 3 \in 1 .. (Len(r) - 3)
          BY <1>5, <3>2, <3>5, <4>2
        <5>2. v[j] = p[j - 3]
          BY <3>5, <5>1
        <5>3. p[j - 3] = r[j]
          BY <3>2, <5>1
        <5>. QED BY <5>2, <5>3
      <4>. QED BY <4>1, <4>2
    <3>8. v = r
      BY <1>5, <3>5, <3>6, <3>7, SeqEqual
    <3>9. WithHead(r, i) = Lead(s, i) \o p
      BY <1>6, <1>9, <3>1 DEF WithHead, Lead
    <3>. QED BY <3>3, <3>8, <3>9, Zenon
  <2>9. /\ s = "ul" => r[2].c = "bullet"
        /\ s = "ol" => r[2].c = "number" /\ r[2].n = i
    BY <2>1, <2>4, <2>7, LeadIs
  <2>. QED BY <1>2, <1>4, <1>6, <1>7, <1>9, <2>5, <2>6, <2>8, <2>9 DEF Settled
<1>. QED BY <1>8, <1>9

\* The paragraphs after resetTabOrderNumber and the text view's styling.
Renewed(d, e) ==
    /\ e \in Seq(Char) /\ Len(Paras(e)) = Len(Paras(d))
    /\ \A k \in 1 .. Len(Paras(d)) :
          Paras(e)[k] = Fix(WithHead(Paras(d)[k], ItemNo(Paras(d), k)))

\* resetTabOrderNumber gives each paragraph the head with its number, and the text view its style.
LEMMA RenewedIs ==
    ASSUME NEW d \in Seq(Char)
    PROVE  Renewed(d, Fixed(ResetTabOrderNumber(d)))
<1>1. PICK qs : qs = Paras(d)
  OBVIOUS
<1>2. PICK n \in Nat : n = Len(qs)
  BY <1>1, ParasOf DEF WellFormed
<1>3. PICK t : t = ResetTabOrderNumber(d)
  OBVIOUS
<1>4. t \in Seq(Char) /\ Paras(t) = Heads(qs, n)
  BY <1>1, <1>2, <1>3, ResetParas
<1>5. Len(Heads(qs, n)) = n
  BY <1>1, <1>2, ParasOf, HeadsIs
<1>6. PICK e : e = Fixed(t)
  OBVIOUS
<1>7. e \in Seq(Char) /\ Len(Paras(e)) = n /\ \A k \in 1 .. n : Paras(e)[k] = Fix(Heads(qs, n)[k])
  BY <1>4, <1>5, <1>6, FixedIs
<1>8. \A k \in 1 .. n : Heads(qs, n)[k] = WithHead(qs[k], ItemNo(qs, k))
  BY DEF Heads
<1>. QED BY <1>1, <1>2, <1>3, <1>6, <1>7, <1>8 DEF Renewed

\* The texts of a document are those of its paragraphs.
LEMMA BodiesIs ==
    ASSUME NEW d \in Seq(Char)
    PROVE  Bodies(d) = [i \in 1 .. Len(Paras(d)) |-> Body(Paras(d)[i])]
<1>1. PICK qs : qs = Paras(d)
  OBVIOUS
<1>2. PICK ps : ps = AllParapraghRange(d)
  OBVIOUS
<1>3. Cuts(d, ps, qs)
  BY <1>1, <1>2, ParasOf
<1>4. DOMAIN ps = 1 .. Len(qs) /\ \A i \in 1 .. Len(qs) : Cut(d, ps[i][1], ps[i][2]) = qs[i]
  BY <1>3 DEF Cuts
<1>5. Bodies(d) = [i \in 1 .. Len(qs) |-> Body(Cut(d, ps[i][1], ps[i][2]))]
  BY <1>2, <1>4 DEF Bodies, Body
<1>. QED BY <1>1, <1>4, <1>5

\* For every text: resetTabOrderNumber keeps what is behind the heads, doing it again
\* changes nothing, and the heads and numbers are right.
LEMMA ResetKeeps ==
    ASSUME NEW d \in Seq(Char), NEW e, e = Fixed(ResetTabOrderNumber(d))
    PROVE  e \in Seq(Char) /\ Bodies(e) = Bodies(d) /\ ResetTabOrderNumber(e) = e /\ Numbered(e)
<1>1. PICK qs : qs = Paras(d)
  OBVIOUS
<1>2. WellFormed(qs)
  BY <1>1, ParasOf
<1>3. PICK n \in Nat : n = Len(qs)
  BY <1>2 DEF WellFormed
<1>4. PICK rs : rs = Paras(e)
  OBVIOUS
<1>5. Renewed(d, e)
  BY RenewedIs
<1>6. e \in Seq(Char) /\ Len(rs) = n /\ \A k \in 1 .. n : rs[k] = Fix(WithHead(qs[k], ItemNo(qs, k)))
  BY <1>1, <1>3, <1>4, <1>5 DEF Renewed
<1>7. WellFormed(rs) /\ FlattenSeq(rs) = e /\ Cuts(e, AllParapraghRange(e), rs)
  BY <1>4, <1>6, ParasOf
<1>8. ASSUME NEW k \in 1 .. n
      PROVE  /\ rs[k][1].s = qs[k][1].s /\ Body(rs[k]) = Body(qs[k])
             /\ WithHead(rs[k], ItemNo(qs, k)) = rs[k]
             /\ qs[k][1].s # "none" => HeadLength(rs[k]) = 3
             /\ qs[k][1].s = "ul" => rs[k][2].c = "bullet"
             /\ qs[k][1].s = "ol" => rs[k][2].c = "number" /\ rs[k][2].n = ItemNo(qs, k)
  <2>1. Line(qs[k])
    BY <1>2, <1>3 DEF WellFormed
  <2>2. ItemNo(qs, k) \in Nat
    <3>1. ItemNo(qs, k) \in 1 .. k
      BY ItemNoIs
    <3>. QED BY <3>1
  <2>3. rs[k] = Fix(WithHead(qs[k], ItemNo(qs, k)))
    BY <1>6
  <2>4. Settled(qs[k], ItemNo(qs, k), rs[k])
    BY <2>1, <2>2, <2>3, WithHeadStable
  <2>. QED BY <2>4 DEF Settled
<1>9. ASSUME NEW k \in 1 .. n PROVE ItemNo(rs, k) = ItemNo(qs, k)
  <2>1. {j \in 1 .. (k - 1) : rs[j][1].s # rs[k][1].s} = {j \in 1 .. (k - 1) : qs[j][1].s # qs[k][1].s}
    <3>1. \A j \in 1 .. (k - 1) : j \in 1 .. n
      OBVIOUS
    <3>2. \A j \in 1 .. (k - 1) : rs[j][1].s = qs[j][1].s
      BY <1>8, <3>1
    <3>3. rs[k][1].s = qs[k][1].s
      BY <1>8
    <3>. QED BY <3>2, <3>3
  <2>. QED BY <2>1 DEF ItemNo
<1>10. Bodies(e) = Bodies(d)
  <2>1. Bodies(e) = [i \in 1 .. n |-> Body(rs[i])]
    BY <1>4, <1>6, BodiesIs
  <2>2. Bodies(d) = [i \in 1 .. n |-> Body(qs[i])]
    BY <1>1, <1>3, BodiesIs
  <2>. QED BY <1>8, <2>1, <2>2
<1>11. ResetTabOrderNumber(e) = e
  <2>1. ResetTabOrderNumber(e) = FlattenSeq(Heads(rs, n))
    BY <1>4, <1>6, ResetIs
  <2>2. Heads(rs, n) = [k \in 1 .. n |-> WithHead(rs[k], ItemNo(rs, k))]
    BY DEF Heads
  <2>3. \A k \in 1 .. n : WithHead(rs[k], ItemNo(rs, k)) = rs[k]
    BY <1>8, <1>9
  <2>4. rs = [k \in 1 .. n |-> rs[k]]
    BY <1>6, <1>7 DEF WellFormed
  <2>5. Heads(rs, n) = rs
    BY <2>2, <2>3, <2>4
  <2>. QED BY <1>7, <2>1, <2>5
<1>12. Numbered(e)
  <2>1. PICK ps : ps = AllParapraghRange(e)
    OBVIOUS
  <2>2. Cuts(e, ps, rs)
    BY <1>7, <2>1
  <2>3. DOMAIN ps = 1 .. n /\ \A i \in 1 .. n : /\ Cut(e, ps[i][1], ps[i][2]) = rs[i]
                                               /\ TabStyleFor(e, ps[i][1]) = rs[i][1].s
    BY <1>6, <2>2 DEF Cuts
  <2>4. ASSUME NEW i \in 1 .. n, rs[i][1].s = "ol" PROVE NumberOf(e, i) = ItemNo(rs, i)
    <3>1. {j \in 1 .. (i - 1) : TabStyleFor(e, ps[j][1]) # "ol"}
             = {j \in 1 .. (i - 1) : rs[j][1].s # rs[i][1].s}
      <4>1. \A j \in 1 .. (i - 1) : j \in 1 .. n
        OBVIOUS
      <4>. QED BY <2>3, <2>4, <4>1
    <3>. QED BY <2>1, <3>1 DEF NumberOf, ItemNo
  <2>5. ASSUME NEW i \in 1 .. n
        PROVE  /\ rs[i][1].s # "none" => HeadLength(rs[i]) = 3
               /\ rs[i][1].s = "ul" => rs[i][2].c = "bullet"
               /\ rs[i][1].s = "ol" => rs[i][2].c = "number" /\ rs[i][2].n = NumberOf(e, i)
    <3>1. rs[i][1].s = qs[i][1].s /\ ItemNo(rs, i) = ItemNo(qs, i)
      BY <1>8, <1>9
    <3>. QED BY <1>8, <2>4, <3>1
  <2>. QED BY <2>1, <2>3, <2>5 DEF Numbered
<1>. QED BY <1>6, <1>10, <1>11, <1>12
-----------------------------------------------------------------------------
(* The keys and buttons.                                                   *)

\* A range of the text d.
Within(d, a, b) == a \in Nat /\ b \in Nat /\ a <= b /\ b <= Len(d)

\* The style at a location is a style.
LEMMA TabStyleForType ==
    ASSUME NEW d \in Seq(Char), NEW a \in Nat
    PROVE  TabStyleFor(d, a) \in Style
<1>1. CASE d = <<>>
  BY <1>1 DEF TabStyleFor, Style
<1>2. CASE d # <<>>
  <2>1. Len(d) \in Nat \ {0}
    BY <1>2, EmptySeq
  <2>2. PICK S : S = {a + 1, Len(d)}
    OBVIOUS
  <2>3. S \subseteq Nat /\ S # {}
    BY <2>1, <2>2
  <2>4. Min(S) \in S /\ \A x \in S : Min(S) <= x
    BY <2>3, MinIs
  <2>5. Min(S) \in 1 .. Len(d)
    BY <2>1, <2>2, <2>4
  <2>6. d[Min(S)] \in Char
    BY <2>5
  <2>7. d[Min(S)].s \in Style
    BY <2>6 DEF Char
  <2>. QED BY <1>2, <2>2, <2>7 DEF TabStyleFor
<1>. QED BY <1>1, <1>2

\* The result of an edit is the text before it, the new text and the text behind it.
Edited(w, d, a, b, new) ==
    /\ w \in Seq(Char) /\ w = (Cut(d, 0, a) \o new) \o Cut(d, b, Len(d))
    /\ Len(w) = a + Len(new) + (Len(d) - b)
    /\ Cut(d, 0, a) \in Seq(Char) /\ Cut(d, b, Len(d)) \in Seq(Char)

\* Where the characters of an edited text are.
LEMMA ReplacedIs ==
    ASSUME NEW d \in Seq(Char), NEW a, NEW b, Within(d, a, b), NEW new \in Seq(Char)
    PROVE  Edited(Replaced(d, a, b, new), d, a, b, new)
<1>1. a \in Nat /\ b \in Nat /\ a <= b /\ b <= Len(d) /\ Len(d) \in Nat /\ a <= Len(d)
  BY DEF Within
<1>2. PieceOf(Cut(d, 0, a), Char, d, 0, a)
  BY <1>1, CutIs
<1>3. PieceOf(Cut(d, b, Len(d)), Char, d, b, Len(d))
  BY <1>1, CutIs
<1>4. PICK x : x = Cut(d, 0, a)
  OBVIOUS
<1>5. PICK y : y = Cut(d, b, Len(d))
  OBVIOUS
<1>6. x \in Seq(Char) /\ y \in Seq(Char) /\ Len(x) = a - 0 /\ Len(y) = Len(d) - b
  BY <1>2, <1>3, <1>4, <1>5 DEF PieceOf
<1>7. PICK w : w = x \o new
  OBVIOUS
<1>8. Joins(w, Char, x, new)
  BY <1>6, <1>7, ConcatIs
<1>9. w \in Seq(Char) /\ Len(w) = Len(x) + Len(new) /\ Len(new) \in Nat
  BY <1>8 DEF Joins
<1>10. PICK v : v = w \o y
  OBVIOUS
<1>11. Joins(v, Char, w, y)
  BY <1>6, <1>9, <1>10, ConcatIs
<1>12. v \in Seq(Char) /\ Len(v) = Len(w) + Len(y)
  BY <1>11 DEF Joins
<1>13. Replaced(d, a, b, new) = v
  <2>1. x = SubSeq(d, 1, a)
    BY <1>4, 0 + 1 = 1 DEF Cut
  <2>2. y = SubSeq(d, b + 1, Len(d))
    BY <1>5 DEF Cut
  <2>. QED BY <1>7, <1>10, <2>1, <2>2, Zenon DEF Replaced
<1>14. Len(v) = a + Len(new) + (Len(d) - b)
  BY <1>1, <1>6, <1>9, <1>12
<1>. QED BY <1>4, <1>5, <1>6, <1>7, <1>10, <1>12, <1>13, <1>14, Zenon DEF Edited

\* An edited text is a text.
LEMMA ReplacedType ==
    ASSUME NEW d \in Seq(Char), NEW a, NEW b, Within(d, a, b), NEW new \in Seq(Char)
    PROVE  Replaced(d, a, b, new) \in Seq(Char)
<1>1. Edited(Replaced(d, a, b, new), d, a, b, new)
  BY ReplacedIs
<1>. QED BY <1>1 DEF Edited

\* A piece of a text is a text.
LEMMA CutType ==
    ASSUME NEW d \in Seq(Char), NEW a, NEW b, Within(d, a, b)
    PROVE  Cut(d, a, b) \in Seq(Char) /\ Len(Cut(d, a, b)) = b - a
<1>1. PieceOf(Cut(d, a, b), Char, d, a, b)
  BY CutIs DEF Within
<1>. QED BY <1>1 DEF PieceOf

\* The paragraph of a range reaches around the range.
LEMMA RangeAround ==
    ASSUME NEW d \in Seq(Char), NEW a, NEW b, Within(d, a, b)
    PROVE  /\ Within(d, ParapraghRange(d, a, b)[1], ParapraghRange(d, a, b)[2])
           /\ ParapraghRange(d, a, b)[1] <= a /\ b <= ParapraghRange(d, a, b)[2]
           /\ TabStyleLengthFor(d, a, b) \in {0, 3}
<1>1. a \in Nat /\ b \in Nat /\ a <= b /\ b <= Len(d) /\ Len(d) \in Nat
  BY DEF Within
<1>2. PICK lo \in Nat, hi \in Nat :
         LineAt(d, a, LastOf(a, b), lo, hi) /\ ParapraghRange(d, a, b) = <<lo, hi>>
  BY <1>1, RangeExists
<1>3. lo <= a /\ hi <= Len(d) /\ b <= hi
  BY <1>1, <1>2 DEF LineAt, LastOf
<1>4. Within(d, lo, hi)
  BY <1>1, <1>3 DEF Within
<1>5. ParapraghRange(d, a, b)[1] = lo /\ ParapraghRange(d, a, b)[2] = hi
  BY <1>2
<1>6. TabStyleLengthFor(d, a, b) \in {0, 3}
  <2>1. Cut(d, lo, hi) \in Seq(Char)
    BY <1>4, CutType
  <2>2. HeadLength(Cut(d, lo, hi)) \in {0, 3}
    BY <2>1, BodyIs
  <2>. QED BY <1>5, <2>2 DEF TabStyleLengthFor
<1>. QED BY <1>3, <1>4, <1>5, <1>6

\* An outcome that keeps the types and, when it is renumbered, has the numbers right.
Good(o) ==
    /\ o.text \in Seq(Char) /\ o.typing \in Style
    /\ o.crashed \in BOOLEAN /\ o.renumbered \in BOOLEAN
    /\ o.renumbered => Numbered(o.text)

\* A change that does not renumber keeps the invariant.
LEMMA PlainOutcome ==
    ASSUME NEW d \in Seq(Char), NEW s \in Style
    PROVE  Good(Outcome(d, s, FALSE))
<1>1. Fixed(d) \in Seq(Char)
  BY FixedIs
<1>. QED BY <1>1 DEF Good, Outcome, Style

\* A change that ends with resetTabOrderNumber keeps the invariant.
LEMMA ResetOutcome ==
    ASSUME NEW d \in Seq(Char), NEW s \in Style
    PROVE  Good(Outcome(ResetTabOrderNumber(d), s, TRUE))
<1>1. PICK t : t = ResetTabOrderNumber(d)
  OBVIOUS
<1>2. Fixed(t) \in Seq(Char) /\ Numbered(Fixed(t))
  BY <1>1, ResetKeeps
<1>3. Good(Outcome(t, s, TRUE))
  BY <1>2 DEF Good, Outcome, Style
<1>. QED BY <1>1, <1>3

\* An exception leaves the text as it was.
LEMMA CrashGood ==
    ASSUME TypeOK
    PROVE  Good(Crash)
BY DEF Good, Crash, TypeOK

\* A selection lies within the text.
LEMMA SelectionIs ==
    ASSUME TypeOK, NEW r \in Selection
    PROVE  Within(text, r[1], r[2]) /\ TypingStyle(r[1]) \in Style
<1>1. Len(text) \in Nat /\ text \in Seq(Char) /\ typing \in Style
  BY DEF TypeOK
<1>2. r[1] \in 0 .. Len(text) /\ r[2] \in 0 .. Len(text) /\ Selectable(r[1], r[2])
  BY DEF Selection
<1>3. r[1] <= r[2]
  BY <1>2 DEF Selectable
<1>4. Within(text, r[1], r[2])
  BY <1>1, <1>2, <1>3 DEF Within
<1>5. TypingStyle(r[1]) \in Style
  <2>1. r[1] \in Nat
    BY <1>1, <1>2
  <2>2. TabStyleFor(text, r[1]) \in Style
    BY <1>1, <2>1, TabStyleForType
  <2>. QED BY <1>1, <2>2 DEF TypingStyle
<1>. QED BY <1>4, <1>5

\* What the delete key removes lies within the text and is not empty.
LEMMA DeletableIs ==
    ASSUME TypeOK, NEW r \in Deletable
    PROVE  Within(text, r[1], r[2]) /\ r[1] < r[2] /\ TypingStyle(r[1]) \in Style
<1>1. Len(text) \in Nat /\ text \in Seq(Char) /\ typing \in Style
  BY DEF TypeOK
<1>2. CASE r \in Selection /\ r[1] < r[2]
  BY <1>2, SelectionIs
<1>3. CASE ~(r \in Selection /\ r[1] < r[2])
  <2>1. PICK q \in Selection : q[1] = q[2] /\ q[1] > 0 /\ r = <<q[1] - 1, q[1]>>
    BY <1>3 DEF Deletable
  <2>2. Within(text, q[1], q[2])
    BY <2>1, SelectionIs
  <2>3. r[1] \in Nat /\ r[1] < r[2] /\ Within(text, r[1], r[2])
    BY <1>1, <2>1, <2>2 DEF Within
  <2>4. TypingStyle(r[1]) \in Style
    <3>1. TabStyleFor(text, r[1]) \in Style
      BY <1>1, <2>3, TabStyleForType
    <3>. QED BY <1>1, <3>1 DEF TypingStyle
  <2>. QED BY <2>3, <2>4
<1>. QED BY <1>2, <1>3

\* What the keys insert is text.
LEMMA CharsAre ==
    ASSUME NEW s \in Style
    PROVE  <<Letter(s)>> \in Seq(Char) /\ <<Newline(s)>> \in Seq(Char) /\ <<>> \in Seq(Char)
<1>1. Letter(s) \in Char /\ Newline(s) \in Char
  BY DEF Letter, Newline, Char
<1>. QED BY <1>1

\* An edit carried out by the text view keeps the invariant.
LEMMA DefaultGood ==
    ASSUME TypeOK, NEW a, NEW b, Within(text, a, b), TypingStyle(a) \in Style, NEW new \in Seq(Char)
    PROVE  Good(Default(a, b, new))
<1>1. Replaced(text, a, b, new) \in Seq(Char)
  BY ReplacedType DEF TypeOK
<1>. QED BY <1>1, PlainOutcome DEF Default

\* So does insert.
LEMMA InsertGood ==
    ASSUME TypeOK, NEW a, NEW b, Within(text, a, b), TypingStyle(a) \in Style, NEW new \in Seq(Char)
    PROVE  Good(Insert(a, b, new))
<1>1. Replaced(text, a, b, new) \in Seq(Char)
  BY ReplacedType DEF TypeOK
<1>. QED BY <1>1, ResetOutcome DEF Insert

\* A piece of the text gets a style.
LEMMA RestyledPiece ==
    ASSUME NEW d \in Seq(Char), NEW a, NEW b, Within(d, a, b), NEW s \in Style
    PROVE  /\ Replaced(d, a, b, Styled(Cut(d, a, b), s)) \in Seq(Char)
           /\ Len(Replaced(d, a, b, Styled(Cut(d, a, b), s))) = Len(d)
<1>1. PICK q \in Seq(Char) : q = Cut(d, a, b)
  BY CutType
<1>2. Len(q) = b - a
  BY <1>1, CutType
<1>3. PICK r \in Seq(Char) : r = Styled(q, s)
  BY StyledIs
<1>4. Len(r) = b - a
  BY <1>2, <1>3, StyledIs
<1>5. Replaced(d, a, b, r) \in Seq(Char) /\ Len(Replaced(d, a, b, r)) = a + Len(r) + (Len(d) - b)
  <2>1. Edited(Replaced(d, a, b, r), d, a, b, r)
    BY ReplacedIs
  <2>. QED BY <2>1 DEF Edited
<1>6. a + Len(r) + (Len(d) - b) = Len(d)
  BY <1>4 DEF Within
<1>. QED BY <1>1, <1>3, <1>5, <1>6

\* So does deleteTab.
LEMMA DeleteTabGood ==
    ASSUME TypeOK, NEW a \in Int, NEW b, a < 0 \/ (Within(text, a, b) /\ a < b)
    PROVE  Good(DeleteTab(a, b))
<1>1. CASE a < 0 \/ DeleteTabFrom(a, b) < 0
  BY <1>1, CrashGood DEF DeleteTab
<1>2. CASE ~(a < 0 \/ DeleteTabFrom(a, b) < 0)
  <2>1. text \in Seq(Char) /\ Within(text, a, b) /\ a < b
    BY <1>2 DEF TypeOK
  <2>2. TabStyleLengthFor(text, a, b) \in {0, 3}
    BY <2>1, RangeAround
  <2>3. PICK from : from = DeleteTabFrom(a, b)
    OBVIOUS
  <2>4. from \in Nat /\ Within(text, from, b)
    BY <1>2, <2>1, <2>2, <2>3 DEF DeleteTabFrom, Within
  <2>5. PICK d : d = Replaced(text, from, b, <<>>)
    OBVIOUS
  <2>6. d \in Seq(Char) /\ Len(d) = from + 0 + (Len(text) - b)
    <3>1. PICK new : new = <<>>
      OBVIOUS
    <3>2. new \in Seq(Char) /\ Len(new) = 0
      BY <3>1
    <3>3. Replaced(text, from, b, new) \in Seq(Char)
          /\ Len(Replaced(text, from, b, new)) = from + Len(new) + (Len(text) - b)
      <4>1. Edited(Replaced(text, from, b, new), text, from, b, new)
        BY <2>1, <2>4, <3>2, ReplacedIs
      <4>. QED BY <4>1 DEF Edited
    <3>. QED BY <2>5, <3>1, <3>2, <3>3
  <2>7. Within(d, from, from)
    BY <2>1, <2>4, <2>6 DEF Within
  <2>8. PICK p : p = ParapraghRange(d, from, from)
    OBVIOUS
  <2>9. Within(d, p[1], p[2])
    BY <2>6, <2>7, <2>8, RangeAround
  <2>10. PICK e : e = Replaced(d, p[1], p[2], Styled(Cut(d, p[1], p[2]), "none"))
    OBVIOUS
  <2>11. "none" \in Style
    BY DEF Style
  <2>12. e \in Seq(Char)
    BY <2>6, <2>9, <2>10, <2>11, RestyledPiece
  <2>13. DeleteTab(a, b) = Outcome(ResetTabOrderNumber(e), "none", TRUE)
    BY <1>2, <2>3, <2>5, <2>8, <2>10, Zenon DEF DeleteTab
  <2>. QED BY <2>11, <2>12, <2>13, ResetOutcome
<1>. QED BY <1>1, <1>2

\* So does the delete key.
LEMMA DeleteKeyGood ==
    ASSUME TypeOK, NEW r \in Deletable
    PROVE  Good(DeleteKey(r[1], r[2]))
<1>1. Within(text, r[1], r[2]) /\ r[1] < r[2] /\ TypingStyle(r[1]) \in Style
  BY DeletableIs
<1>2. r[1] \in Int
  BY <1>1 DEF Within
<1>3. Good(DeleteTab(r[1], r[2]))
  BY <1>1, <1>2, DeleteTabGood
<1>4. <<>> \in Seq(Char)
  OBVIOUS
<1>5. Good(Insert(r[1], r[2], <<>>)) /\ Good(Default(r[1], r[2], <<>>))
  BY <1>1, <1>4, InsertGood, DefaultGood
<1>6. DeleteKey(r[1], r[2]) \in {DeleteTab(r[1], r[2]), Insert(r[1], r[2], <<>>), Default(r[1], r[2], <<>>)}
  BY DEF DeleteKey
<1>. QED BY <1>3, <1>5, <1>6

\* So does the return key.
LEMMA ReturnKeyGood ==
    ASSUME TypeOK, NEW r \in Selection
    PROVE  Good(ReturnKey(r[1], r[2]))
<1>1. Within(text, r[1], r[2]) /\ TypingStyle(r[1]) \in Style
  BY SelectionIs
<1>2. PICK new : new = <<Newline(TypingStyle(r[1]))>>
  OBVIOUS
<1>3. new \in Seq(Char)
  BY <1>1, <1>2, CharsAre
<1>4. Good(Insert(r[1], r[2], new)) /\ Good(Default(r[1], r[2], new))
  BY <1>1, <1>3, InsertGood, DefaultGood
<1>5. Good(DeleteTab(r[1] - 1, r[1]))
  <2>1. r[1] - 1 \in Int /\ (r[1] - 1 < 0 \/ (Within(text, r[1] - 1, r[1]) /\ r[1] - 1 < r[1]))
    BY <1>1 DEF Within, TypeOK
  <2>. QED BY <2>1, DeleteTabGood
<1>6. ReturnKey(r[1], r[2]) \in {DeleteTab(r[1] - 1, r[1]), Insert(r[1], r[2], new), Default(r[1], r[2], new)}
  BY <1>2 DEF ReturnKey
<1>. QED BY <1>4, <1>5, <1>6

\* So do the font and paragraph buttons.
LEMMA ChangeAttributesGood ==
    ASSUME TypeOK, NEW r \in Selection, NEW c \in BOOLEAN
    PROVE  Good(ChangeAttributes(r[1], r[2], c))
<1>1. Within(text, r[1], r[2]) /\ TypingStyle(r[1]) \in Style /\ text \in Seq(Char)
  BY SelectionIs DEF TypeOK
<1>2. PICK a : a = r[1]
  OBVIOUS
<1>3. PICK b : b = r[2]
  OBVIOUS
<1>4. PICK s : s = TypingStyle(a)
  OBVIOUS
<1>5. PICK d : d = Replaced(text, a, b, Styled(Cut(text, a, b), s))
  OBVIOUS
<1>6. d \in Seq(Char) /\ Len(d) = Len(text) /\ s \in Style /\ Within(text, a, b)
  BY <1>1, <1>2, <1>3, <1>4, <1>5, RestyledPiece
<1>7. Within(d, a, b) /\ Within(d, a, a)
  BY <1>6 DEF Within
<1>8. PICK q : q = IF c THEN ParapraghRange(d, a, b) ELSE <<a, a>>
  OBVIOUS
<1>9. Within(d, q[1], q[2])
  <2>1. CASE c
    BY <1>6, <1>7, <1>8, <2>1, RangeAround
  <2>2. CASE ~c
    BY <1>7, <1>8, <2>2
  <2>. QED BY <2>1, <2>2
<1>10. PICK e : e = Replaced(d, q[1], q[2], Styled(Cut(d, q[1], q[2]), s))
  OBVIOUS
<1>11. e \in Seq(Char)
  BY <1>6, <1>9, <1>10, RestyledPiece
<1>12. ChangeAttributes(a, b, c) = Outcome(ResetTabOrderNumber(e), s, TRUE)
  BY <1>4, <1>5, <1>8, <1>10, Zenon DEF ChangeAttributes
<1>. QED BY <1>2, <1>3, <1>6, <1>11, <1>12, ResetOutcome

\* The text whose heads the list button rebuilds.
Chosen(d, a, b, style) ==
    LET ps == AllParapraghRange(d)
        chosen == Range(ParagraphRanges(d, a, b))
    IN  [i \in DOMAIN ps |->
            LET p == Cut(d, ps[i][1], ps[i][2])
            IN  IF ps[i] \in chosen THEN Styled(RemoveHeadTabString(p), style) ELSE p]

\* The restyled paragraphs are paragraphs.
LEMMA ChosenType ==
    ASSUME NEW d \in Seq(Char), NEW a, NEW b, NEW style \in Style
    PROVE  Chosen(d, a, b, style) \in Seq(Seq(Char))
<1>1. PICK ps : ps = AllParapraghRange(d)
  OBVIOUS
<1>2. PICK qs : qs = Paras(d)
  OBVIOUS
<1>3. Cuts(d, ps, qs) /\ WellFormed(qs)
  BY <1>1, <1>2, ParasOf
<1>4. PICK n \in Nat : n = Len(qs)
  BY <1>3 DEF WellFormed
<1>5. DOMAIN ps = 1 .. n /\ \A i \in 1 .. n : Cut(d, ps[i][1], ps[i][2]) = qs[i]
  BY <1>3, <1>4 DEF Cuts
<1>6. PICK C : C = Range(ParagraphRanges(d, a, b))
  OBVIOUS
<1>7. Chosen(d, a, b, style) =
        [i \in 1 .. n |-> IF ps[i] \in C THEN Styled(RemoveHeadTabString(Cut(d, ps[i][1], ps[i][2])), style)
                          ELSE Cut(d, ps[i][1], ps[i][2])]
  BY <1>1, <1>5, <1>6 DEF Chosen
<1>8. ASSUME NEW i \in 1 .. n
      PROVE  Styled(RemoveHeadTabString(qs[i]), style) \in Seq(Char) /\ qs[i] \in Seq(Char)
  <2>1. qs[i] \in Seq(Char)
    BY <1>3, <1>4 DEF WellFormed
  <2>2. RemoveHeadTabString(qs[i]) \in Seq(Char)
    BY <2>1, BodyIs DEF PieceOf
  <2>. QED BY <2>1, <2>2, StyledIs
<1>9. PICK V : V = Seq(Char)
  OBVIOUS
<1>10. PICK f : f = Chosen(d, a, b, style)
  OBVIOUS
<1>11. f \in [1 .. n -> V]
  <2>1. f = [i \in 1 .. n |-> IF ps[i] \in C THEN Styled(RemoveHeadTabString(qs[i]), style) ELSE qs[i]]
    BY <1>5, <1>7, <1>10
  <2>2. \A i \in 1 .. n : (IF ps[i] \in C THEN Styled(RemoveHeadTabString(qs[i]), style) ELSE qs[i]) \in V
    BY <1>8, <1>9
  <2>. QED BY <2>1, <2>2
<1>12. f \in Seq(V)
  BY <1>11
<1>. QED BY <1>9, <1>10, <1>12

\* The list button keeps the invariant too.
LEMMA ListButtonGood ==
    ASSUME TypeOK, NEW r \in Selection, NEW style \in Style
    PROVE  Good(InsetOrDeleteTabStyle(r[1], r[2], style))
<1>1. PICK d : d = ToRestyle(style)
  OBVIOUS
<1>2. d \in Seq(Char) /\ typing \in Style
  BY <1>1, CharsAre DEF ToRestyle, TypeOK
<1>3. PICK f : f = Chosen(d, r[1], r[2], style)
  OBVIOUS
<1>4. FlattenSeq(f) \in Seq(Char)
  <2>1. f \in Seq(Seq(Char))
    BY <1>2, <1>3, ChosenType
  <2>. QED BY <2>1, FlattenType
<1>5. Restyled(r[1], r[2], style) = ResetTabOrderNumber(FlattenSeq(f))
  BY <1>1, <1>3, Zenon DEF Restyled, Chosen
<1>6. Good(Outcome(Restyled(r[1], r[2], style), typing, TRUE))
  BY <1>2, <1>4, <1>5, ResetOutcome
<1>. QED BY <1>6, CrashGood DEF InsetOrDeleteTabStyle

\* Carrying out a good outcome establishes the invariant.
LEMMA DoGood ==
    ASSUME NEW o, Good(o), Do(o)
    PROVE  TypeOK' /\ NumbersRight'
<1>1. /\ text' = o.text /\ typing' = o.typing
      /\ crashed' = o.crashed /\ renumbered' = o.renumbered
  BY DEF Do
<1>2. TypeOK'
  BY <1>1 DEF Good, TypeOK
<1>3. NumbersRight'
  BY <1>1 DEF Good, NumbersRight
<1>. QED BY <1>2, <1>3

\* The inductive invariant.
ListsInv == TypeOK /\ NumbersRight

\* The empty text satisfies the invariant.
LEMMA ListsInit == Init => ListsInv
<1>. SUFFICES ASSUME Init PROVE ListsInv
  OBVIOUS
<1>1. text \in Seq(Char) /\ typing \in Style
  BY DEF Init, Style
<1>2. crashed \in BOOLEAN /\ renumbered \in BOOLEAN /\ ~renumbered
  BY Zenon DEF Init
<1>. QED BY <1>1, <1>2 DEF ListsInv, TypeOK, NumbersRight

\* Each key and each button preserves the invariant.
LEMMA ListsStep ==
    ASSUME ListsInv, [Next]_vars
    PROVE  ListsInv'
<1>0. TypeOK /\ NumbersRight
  BY DEF ListsInv
<1>1. CASE UNCHANGED vars
  BY <1>0, <1>1 DEF vars, TypeOK, NumbersRight, ListsInv
<1>2. CASE \E o \in {TypeLetter(r[1], r[2]) : r \in Selection} : Do(o)
  <2>1. PICK r \in Selection : Do(TypeLetter(r[1], r[2]))
    BY <1>2
  <2>2. Within(text, r[1], r[2]) /\ TypingStyle(r[1]) \in Style
    BY <1>0, SelectionIs
  <2>3. <<Letter(TypingStyle(r[1]))>> \in Seq(Char)
    BY <2>2, CharsAre
  <2>4. Good(TypeLetter(r[1], r[2]))
    BY <1>0, <2>2, <2>3, DefaultGood DEF TypeLetter
  <2>. QED BY <2>1, <2>4, DoGood DEF ListsInv
<1>3. CASE \E o \in {DeleteKey(r[1], r[2]) : r \in Deletable} : Do(o)
  <2>1. PICK r \in Deletable : Do(DeleteKey(r[1], r[2]))
    BY <1>3
  <2>. QED BY <1>0, <2>1, DeleteKeyGood, DoGood DEF ListsInv
<1>4. CASE \E o \in {ReturnKey(r[1], r[2]) : r \in Selection} : Do(o)
  <2>1. PICK r \in Selection : Do(ReturnKey(r[1], r[2]))
    BY <1>4
  <2>. QED BY <1>0, <2>1, ReturnKeyGood, DoGood DEF ListsInv
<1>5. CASE \E o \in {InsertImage(r[1], r[2]) : r \in Selection} : Do(o)
  <2>1. PICK r \in Selection : Do(InsertImage(r[1], r[2]))
    BY <1>5
  <2>2. Within(text, r[1], r[2]) /\ TypingStyle(r[1]) \in Style
    BY <1>0, SelectionIs
  <2>3. <<Letter(TypingStyle(r[1]))>> \in Seq(Char)
    BY <2>2, CharsAre
  <2>4. Good(InsertImage(r[1], r[2]))
    BY <1>0, <2>2, <2>3, InsertGood DEF InsertImage
  <2>. QED BY <2>1, <2>4, DoGood DEF ListsInv
<1>6. CASE \E o \in {ChangeAttributes(r[1], r[2], c) : r \in Selection, c \in BOOLEAN} : Do(o)
  <2>1. PICK r \in Selection, c \in BOOLEAN : Do(ChangeAttributes(r[1], r[2], c))
    BY <1>6
  <2>. QED BY <1>0, <2>1, ChangeAttributesGood, DoGood DEF ListsInv
<1>7. CASE \E o \in {InsetOrDeleteTabStyle(r[1], r[2], s) : r \in Selection, s \in Style} : Do(o)
  <2>1. PICK r \in Selection, s \in Style : Do(InsetOrDeleteTabStyle(r[1], r[2], s))
    BY <1>7
  <2>. QED BY <1>0, <2>1, ListButtonGood, DoGood DEF ListsInv
<1>. QED BY <1>1, <1>2, <1>3, <1>4, <1>5, <1>6, <1>7 DEF Next

\* The invariant holds at all times.
LEMMA ListsAlways == Spec => []ListsInv
<1>1. ListsInv /\ [Next]_vars => ListsInv'
  BY ListsStep
<1>. QED BY <1>1, ListsInit, PTL DEF Spec

\* The text is a sequence of characters after every key and button: none of the
\* index arithmetic of deleteTab, newRangeFor and resetTabOrderNumber leaves the text.
THEOREM TypeCorrect == Spec => []TypeOK
<1>1. ListsInv => TypeOK
  BY DEF ListsInv
<1>. QED BY <1>1, ListsAlways, PTL

\* After every change that goes through resetTabOrderNumber each list paragraph has its
\* head and each ordered list counts from 1 without a gap, whatever was typed before.
THEOREM NumbersAlwaysRight == Spec => []NumbersRight
<1>1. ListsInv => NumbersRight
  BY DEF ListsInv
<1>. QED BY <1>1, ListsAlways, PTL

\* resetTabOrderNumber loses and moves no text, and doing it again changes nothing.
THEOREM ResetAlwaysStable == Spec => []ResetIsStable
<1>1. ListsInv => ResetIsStable
  <2>. SUFFICES ASSUME ListsInv PROVE ResetIsStable
    OBVIOUS
  <2>1. text \in Seq(Char)
    BY DEF ListsInv, TypeOK
  <2>. QED BY <2>1, ResetKeeps DEF ResetIsStable
<1>. QED BY <1>1, ListsAlways, PTL
-----------------------------------------------------------------------------
(* The letters and line breaks of a text.                                  *)

\* What Pick has collected after n elements, for every n.
Picks(f, q, I) ==
    f = [n \in 0 .. Len(q) |-> IF n = 0 THEN <<>>
                               ELSE IF n \in I THEN Append(f[n - 1], q[n]) ELSE f[n - 1]]

\* The recursive function of Pick exists.
LEMMA PickWalk ==
    ASSUME NEW S, NEW q \in Seq(S), NEW I
    PROVE  \E f : Picks(f, q, I) /\ f \in [0 .. Len(q) -> Seq(S)] /\ Pick(q, I) = f[Len(q)]
<1>1. PICK N \in Nat : N = Len(q)
  OBVIOUS
<1>2. PICK V : V = Seq(S)
  OBVIOUS
<1>3. <<>> \in V
  BY <1>2
<1>. DEFINE h == [x \in (1 .. N) \X V |-> IF x[1] \in I THEN Append(x[2], q[x[1]]) ELSE x[2]]
<1>4. h \in [(1 .. N) \X V -> V]
  <2>1. ASSUME NEW i \in 1 .. N, NEW s \in V
        PROVE  (IF i \in I THEN Append(s, q[i]) ELSE s) \in V
    BY <1>1, <1>2
  <2>. QED BY <2>1
<1>5. PICK f : Up(f, N, V, <<>>, h)
  <2>. HIDE DEF h
  <2>1. PICK b \in V : b = <<>>
    BY <1>3
  <2>2. \E f : Up(f, N, V, b, h)
    BY <1>4, RecursionUp
  <2>. QED BY <2>1, <2>2
<1>6. f \in [0 .. N -> V] /\ f[0] = <<>>
  BY <1>5 DEF Up
<1>7. ASSUME NEW n \in 1 .. N PROVE f[n] = IF n \in I THEN Append(f[n - 1], q[n]) ELSE f[n - 1]
  <2>1. f[n] = h[<<n, f[n - 1]>>]
    <3>. HIDE DEF h
    <3>. QED BY <1>5 DEF Up
  <2>2. f[n - 1] \in V
    BY <1>6
  <2>3. h[<<n, f[n - 1]>>] = IF n \in I THEN Append(f[n - 1], q[n]) ELSE f[n - 1]
    BY <2>2
  <2>. HIDE DEF h
  <2>. QED BY <2>1, <2>3, Zenon
<1>8. Picks(f, q, I)
  <2>1. ASSUME NEW n \in 0 .. N
        PROVE  f[n] = IF n = 0 THEN <<>>
                      ELSE IF n \in I THEN Append(f[n - 1], q[n]) ELSE f[n - 1]
    <3>1. CASE n = 0
      BY <1>6, <3>1, Zenon
    <3>2. CASE n # 0
      <4>1. n \in 1 .. N
        BY <3>2
      <4>. QED BY <1>7, <3>2, <4>1, Zenon
    <3>. QED BY <3>1, <3>2
  <2>2. f = [n \in 0 .. N |-> f[n]]
    BY <1>6
  <2>3. [n \in 0 .. N |-> f[n]] =
          [n \in 0 .. N |-> IF n = 0 THEN <<>>
                            ELSE IF n \in I THEN Append(f[n - 1], q[n]) ELSE f[n - 1]]
    BY <2>1, Zenon
  <2>. QED BY <1>1, <2>2, <2>3, Zenon DEF Picks
<1>9. PICK c : c = CHOOSE g : Picks(g, q, I)
  OBVIOUS
<1>10. Picks(c, q, I)
  BY <1>8, <1>9, Zenon
<1>11. Pick(q, I) = c[N]
  BY <1>1, <1>9, Zenon DEF Pick, Picks
<1>12. c \in [0 .. N -> V]
  <2>. DEFINE K == {i \in Nat : i <= N => c[i] \in V}
  <2>1. 0 \in K
    <3>1. 0 \in 0 .. Len(q)
      BY <1>1
    <3>2. c[0] = <<>>
      BY <1>10, <3>1, Zenon DEF Picks
    <3>. QED BY <1>3, <3>2
  <2>2. ASSUME NEW i \in Nat, i \in K PROVE i + 1 \in K
    <3>. SUFFICES ASSUME i + 1 <= N PROVE c[i + 1] \in V
      OBVIOUS
    <3>1. i + 1 \in 0 .. Len(q) /\ i + 1 # 0 /\ (i + 1) - 1 = i /\ i + 1 \in 1 .. N
      BY <1>1
    <3>2. c[i + 1] = IF i + 1 \in I THEN Append(c[i], q[i + 1]) ELSE c[i]
      BY <1>10, <3>1, Zenon DEF Picks
    <3>3. c[i] \in V
      BY <2>2
    <3>4. q[i + 1] \in S
      BY <1>1, <3>1
    <3>. QED BY <1>2, <3>2, <3>3, <3>4
  <2>3. \A i \in 0 .. N : c[i] \in V
    <3>1. Nat \subseteq K
      <4>. HIDE DEF K
      <4>. QED BY <2>1, <2>2, Induction
    <3>. QED BY <3>1
  <2>4. c = [n \in 0 .. N |-> c[n]]
    <3>1. DOMAIN c = 0 .. N /\ c = [n \in DOMAIN c |-> c[n]]
      BY <1>1, <1>10 DEF Picks
    <3>. QED BY <3>1
  <2>. QED BY <2>3, <2>4
<1>. QED BY <1>1, <1>2, <1>10, <1>11, <1>12

LN == {"letter", "newline"}

\* What Plain has collected after n characters, for every n.
Keeps(f, d) ==
    f = [n \in 0 .. Len(d) |-> IF n = 0 THEN <<>>
                               ELSE IF d[n].c \in LN THEN Append(f[n - 1], d[n].c) ELSE f[n - 1]]

\* Plain collects the letters and line breaks one after the other.
LEMMA PlainWalk ==
    ASSUME NEW d \in Seq(Char)
    PROVE  \E f : Keeps(f, d) /\ Plain(d) = f[Len(d)]
<1>1. PICK N \in Nat : N = Len(d)
  OBVIOUS
<1>2. DOMAIN d = 1 .. N
  BY <1>1
<1>3. PICK q : q = [i \in 1 .. N |-> d[i].c]
  OBVIOUS
<1>4. PICK I : I = {i \in 1 .. N : d[i].c \in LN}
  OBVIOUS
<1>5. PICK C : C = {x.c : x \in Char}
  OBVIOUS
<1>6. q \in Seq(C) /\ Len(q) = N
  <2>1. \A i \in 1 .. N : d[i].c \in C
    BY <1>1, <1>5
  <2>. QED BY <1>3, <2>1
<1>7. Plain(d) = Pick(q, I)
  BY <1>2, <1>3, <1>4 DEF Plain, LN
<1>8. PICK g : Picks(g, q, I) /\ Pick(q, I) = g[N]
  BY <1>6, PickWalk
<1>9. ASSUME NEW n \in 0 .. N
      PROVE  (IF n = 0 THEN <<>> ELSE IF n \in I THEN Append(g[n - 1], q[n]) ELSE g[n - 1])
             = (IF n = 0 THEN <<>> ELSE IF d[n].c \in LN THEN Append(g[n - 1], d[n].c) ELSE g[n - 1])
  <2>1. CASE n = 0
    BY <2>1
  <2>2. CASE n # 0
    <3>1. n \in 1 .. N
      BY <2>2
    <3>2. (n \in I <=> d[n].c \in LN) /\ q[n] = d[n].c
      BY <1>3, <1>4, <3>1
    <3>. QED BY <2>2, <3>2, Zenon
  <2>. QED BY <2>1, <2>2
<1>10. [n \in 0 .. N |-> IF n = 0 THEN <<>> ELSE IF n \in I THEN Append(g[n - 1], q[n]) ELSE g[n - 1]]
       = [n \in 0 .. N |-> IF n = 0 THEN <<>>
                           ELSE IF d[n].c \in LN THEN Append(g[n - 1], d[n].c) ELSE g[n - 1]]
  BY <1>9, Zenon
<1>11. Keeps(g, d)
  BY <1>1, <1>6, <1>8, <1>10, Zenon DEF Keeps, Picks
<1>. QED BY <1>1, <1>7, <1>8, <1>11, Zenon

\* An empty text has no letter.
LEMMA PlainEmpty == Plain(<<>>) = <<>>
<1>1. <<>> \in Seq(Char) /\ Len(<<>>) = 0
  OBVIOUS
<1>2. PICK f : Keeps(f, <<>>) /\ Plain(<<>>) = f[0]
  BY <1>1, PlainWalk
<1>3. 0 \in 0 .. Len(<<>>)
  OBVIOUS
<1>. QED BY <1>2, <1>3, Zenon DEF Keeps

\* One more character adds itself when it is a letter or a line break.
LEMMA PlainAppend ==
    ASSUME NEW d \in Seq(Char), NEW x \in Char
    PROVE  Plain(Append(d, x)) = IF x.c \in LN THEN Append(Plain(d), x.c) ELSE Plain(d)
<1>1. PICK n \in Nat : n = Len(d)
  OBVIOUS
<1>2. PICK e : e = Append(d, x)
  OBVIOUS
<1>3. e \in Seq(Char) /\ Len(e) = n + 1 /\ e[n + 1] = x /\ \A i \in 1 .. n : e[i] = d[i]
  BY <1>1, <1>2
<1>4. PICK f : Keeps(f, d) /\ Plain(d) = f[n]
  BY <1>1, PlainWalk
<1>5. PICK g : Keeps(g, e) /\ Plain(e) = g[n + 1]
  BY <1>3, PlainWalk
<1>. DEFINE K == {i \in Nat : i <= n => f[i] = g[i]}
<1>6. 0 \in K
  <2>1. 0 \in 0 .. Len(d) /\ 0 \in 0 .. Len(e)
    BY <1>1, <1>3
  <2>2. f[0] = <<>> /\ g[0] = <<>>
    BY <1>4, <1>5, <2>1, Zenon DEF Keeps
  <2>. QED BY <2>2
<1>7. ASSUME NEW i \in Nat, i \in K PROVE i + 1 \in K
  <2>. SUFFICES ASSUME i + 1 <= n PROVE f[i + 1] = g[i + 1]
    OBVIOUS
  <2>1. i + 1 \in 0 .. Len(d) /\ i + 1 \in 0 .. Len(e) /\ i + 1 # 0 /\ (i + 1) - 1 = i /\ i + 1 \in 1 .. n
    BY <1>1, <1>3
  <2>2. f[i + 1] = IF d[i + 1].c \in LN THEN Append(f[i], d[i + 1].c) ELSE f[i]
    BY <1>4, <2>1, Zenon DEF Keeps
  <2>3. g[i + 1] = IF e[i + 1].c \in LN THEN Append(g[i], e[i + 1].c) ELSE g[i]
    BY <1>5, <2>1, Zenon DEF Keeps
  <2>4. f[i] = g[i] /\ e[i + 1] = d[i + 1]
    BY <1>3, <1>7, <2>1
  <2>. QED BY <2>2, <2>3, <2>4, Zenon
<1>8. n \in K
  <2>. HIDE DEF K
  <2>. QED BY <1>6, <1>7, Induction
<1>9. f[n] = g[n]
  BY <1>8
<1>10. g[n + 1] = IF e[n + 1].c \in LN THEN Append(g[n], e[n + 1].c) ELSE g[n]
  <2>1. n + 1 \in 0 .. Len(e) /\ n + 1 # 0 /\ (n + 1) - 1 = n
    BY <1>3
  <2>. QED BY <1>5, <2>1, Zenon DEF Keeps
<1>. QED BY <1>2, <1>3, <1>4, <1>5, <1>9, <1>10, Zenon

\* Plain returns letters and line breaks.
LEMMA PlainType ==
    ASSUME NEW d \in Seq(Char)
    PROVE  Plain(d) \in Seq(LN)
<1>. DEFINE T == {e \in Seq(Char) : Plain(e) \in Seq(LN)}
<1>1. <<>> \in T
  <2>1. PICK b : b = <<>>
    OBVIOUS
  <2>2. b \in Seq(Char) /\ b \in Seq(LN)
    BY <2>1
  <2>3. Plain(b) = b
    BY <2>1, PlainEmpty
  <2>4. b \in T
    BY <2>2, <2>3
  <2>. QED BY <2>1, <2>4
<1>2. ASSUME NEW q \in Seq(Char), NEW e \in Char, q \in T PROVE Append(q, e) \in T
  <2>1. Plain(Append(q, e)) = IF e.c \in LN THEN Append(Plain(q), e.c) ELSE Plain(q)
    BY PlainAppend
  <2>2. Append(q, e) \in Seq(Char) /\ Plain(q) \in Seq(LN)
    BY <1>2
  <2>3. e.c \in LN => Append(Plain(q), e.c) \in Seq(LN)
    BY <2>2
  <2>4. Plain(Append(q, e)) \in Seq(LN)
    BY <2>1, <2>2, <2>3, Zenon
  <2>. QED BY <2>2, <2>4
<1>3. Seq(Char) \subseteq T
  <2>. HIDE DEF T
  <2>. QED BY <1>1, <1>2, AppendInduction
<1>. QED BY <1>3

\* The letters of a text that is made of two.
LEMMA PlainConcat ==
    ASSUME NEW a \in Seq(Char), NEW b \in Seq(Char)
    PROVE  Plain(a \o b) = Plain(a) \o Plain(b)
<1>. DEFINE T == {e \in Seq(Char) : Plain(a \o e) = Plain(a) \o Plain(e)}
<1>0. Plain(a) \in Seq(LN)
  BY PlainType
<1>1. <<>> \in T
  <2>1. <<>> \in Seq(Char) /\ a \o <<>> = a
    OBVIOUS
  <2>2. Plain(a) \o <<>> = Plain(a)
    BY <1>0
  <2>. QED BY <2>1, <2>2, PlainEmpty
<1>2. ASSUME NEW q \in Seq(Char), NEW e \in Char, q \in T PROVE Append(q, e) \in T
  <2>0. Plain(q) \in Seq(LN) /\ Append(q, e) \in Seq(Char)
    BY PlainType
  <2>1. a \o Append(q, e) = Append(a \o q, e)
    BY ConcatAppend
  <2>2. PICK w \in Seq(Char) : w = a \o q
    BY ConcatProperties
  <2>3. Plain(Append(w, e)) = IF e.c \in LN THEN Append(Plain(w), e.c) ELSE Plain(w)
    BY PlainAppend
  <2>4. Plain(Append(q, e)) = IF e.c \in LN THEN Append(Plain(q), e.c) ELSE Plain(q)
    BY PlainAppend
  <2>5. Plain(w) = Plain(a) \o Plain(q)
    BY <1>2, <2>2
  <2>6. e.c \in LN => Plain(a) \o Append(Plain(q), e.c) = Append(Plain(a) \o Plain(q), e.c)
    BY <1>0, <2>0, ConcatAppend
  <2>7. Plain(a \o Append(q, e)) = Plain(a) \o Plain(Append(q, e))
    BY <2>1, <2>2, <2>3, <2>4, <2>5, <2>6, Zenon
  <2>. QED BY <2>0, <2>7
<1>3. Seq(Char) \subseteq T
  <2>. HIDE DEF T
  <2>. QED BY <1>1, <1>2, AppendInduction
<1>. QED BY <1>3

\* Only the kinds of the characters count.
LEMMA PlainSame ==
    ASSUME NEW d \in Seq(Char), NEW e, SameText(d, e)
    PROVE  Plain(e) = Plain(d)
<1>1. PICK n \in Nat : n = Len(d)
  OBVIOUS
<1>2. e \in Seq(Char) /\ Len(e) = n /\ \A i \in 1 .. n : e[i].c = d[i].c
  BY <1>1 DEF SameText
<1>4. PICK f : Keeps(f, d) /\ Plain(d) = f[n]
  BY <1>1, PlainWalk
<1>5. PICK g : Keeps(g, e) /\ Plain(e) = g[n]
  BY <1>2, PlainWalk
<1>. DEFINE K == {i \in Nat : i <= n => f[i] = g[i]}
<1>6. 0 \in K
  <2>1. 0 \in 0 .. Len(d) /\ 0 \in 0 .. Len(e)
    BY <1>1, <1>2
  <2>2. f[0] = <<>> /\ g[0] = <<>>
    BY <1>4, <1>5, <2>1, Zenon DEF Keeps
  <2>. QED BY <2>2
<1>7. ASSUME NEW i \in Nat, i \in K PROVE i + 1 \in K
  <2>. SUFFICES ASSUME i + 1 <= n PROVE f[i + 1] = g[i + 1]
    OBVIOUS
  <2>1. i + 1 \in 0 .. Len(d) /\ i + 1 \in 0 .. Len(e) /\ i + 1 # 0 /\ (i + 1) - 1 = i /\ i + 1 \in 1 .. n
    BY <1>1, <1>2
  <2>2. f[i + 1] = IF d[i + 1].c \in LN THEN Append(f[i], d[i + 1].c) ELSE f[i]
    BY <1>4, <2>1, Zenon DEF Keeps
  <2>3. g[i + 1] = IF e[i + 1].c \in LN THEN Append(g[i], e[i + 1].c) ELSE g[i]
    BY <1>5, <2>1, Zenon DEF Keeps
  <2>4. f[i] = g[i] /\ e[i + 1].c = d[i + 1].c
    BY <1>2, <1>7, <2>1
  <2>5. CASE d[i + 1].c \in LN
    <3>1. f[i + 1] = Append(f[i], d[i + 1].c) /\ g[i + 1] = Append(g[i], e[i + 1].c)
      BY <2>2, <2>3, <2>4, <2>5
    <3>. QED BY <2>4, <3>1, Zenon
  <2>6. CASE d[i + 1].c \notin LN
    BY <2>2, <2>3, <2>4, <2>6
  <2>. QED BY <2>5, <2>6
<1>8. n \in K
  <2>. HIDE DEF K
  <2>. QED BY <1>6, <1>7, Induction
<1>. QED BY <1>4, <1>5, <1>8

\* Tabs, bullets and numbers are no text.
LEMMA PlainNone ==
    ASSUME NEW d \in Seq(Char), \A i \in 1 .. Len(d) : d[i].c \notin LN
    PROVE  Plain(d) = <<>>
<1>1. PICK n \in Nat : n = Len(d)
  OBVIOUS
<1>4. PICK f : Keeps(f, d) /\ Plain(d) = f[n]
  BY <1>1, PlainWalk
<1>. DEFINE K == {i \in Nat : i <= n => f[i] = <<>>}
<1>6. 0 \in K
  <2>1. 0 \in 0 .. Len(d)
    BY <1>1
  <2>2. f[0] = <<>>
    BY <1>4, <2>1, Zenon DEF Keeps
  <2>. QED BY <2>2
<1>7. ASSUME NEW i \in Nat, i \in K PROVE i + 1 \in K
  <2>. SUFFICES ASSUME i + 1 <= n PROVE f[i + 1] = <<>>
    OBVIOUS
  <2>1. i + 1 \in 0 .. Len(d) /\ i + 1 # 0 /\ (i + 1) - 1 = i /\ d[i + 1].c \notin LN
    BY <1>1
  <2>2. f[i + 1] = IF d[i + 1].c \in LN THEN Append(f[i], d[i + 1].c) ELSE f[i]
    BY <1>4, <2>1, Zenon DEF Keeps
  <2>4. f[i] = <<>>
    BY <1>7
  <2>. QED BY <2>1, <2>2, <2>4, Zenon
<1>8. n \in K
  <2>. HIDE DEF K
  <2>. QED BY <1>6, <1>7, Induction
<1>. QED BY <1>4, <1>8

\* The letters of a joined text are those of its members.
LEMMA PlainFlatten ==
    ASSUME NEW qs \in Seq(Seq(Char)), NEW rs \in Seq(Seq(Char)), Len(qs) = Len(rs),
           \A i \in 1 .. Len(qs) : Plain(rs[i]) = Plain(qs[i])
    PROVE  Plain(FlattenSeq(rs)) = Plain(FlattenSeq(qs))
<1>1. PICK n \in Nat : n = Len(qs)
  OBVIOUS
<1>2. PICK f : Joined(f, qs, Char) /\ FlattenSeq(qs) = f[n]
  BY <1>1, FlattenIs
<1>3. PICK g : Joined(g, rs, Char) /\ FlattenSeq(rs) = g[n]
  BY <1>1, FlattenIs
<1>4. /\ f \in [0 .. n -> Seq(Char)] /\ f[0] = <<>>
      /\ \A i \in 1 .. n : f[i] = f[i - 1] \o qs[i] /\ qs[i] \in Seq(Char)
  <2>1. f \in [0 .. n -> Seq(Char)] /\ f[0] = <<>>
    BY <1>1, <1>2 DEF Joined
  <2>2. \A i \in 1 .. n : f[i] = f[i - 1] \o qs[i]
    BY <1>1, <1>2, Zenon DEF Joined
  <2>3. \A i \in 1 .. n : qs[i] \in Seq(Char)
    BY <1>1
  <2>. QED BY <2>1, <2>2, <2>3, Zenon
<1>5. /\ g \in [0 .. n -> Seq(Char)] /\ g[0] = <<>>
      /\ \A i \in 1 .. n : g[i] = g[i - 1] \o rs[i] /\ rs[i] \in Seq(Char)
  <2>1. g \in [0 .. n -> Seq(Char)] /\ g[0] = <<>>
    BY <1>1, <1>3 DEF Joined
  <2>2. \A i \in 1 .. n : g[i] = g[i - 1] \o rs[i]
    BY <1>1, <1>3, Zenon DEF Joined
  <2>3. \A i \in 1 .. n : rs[i] \in Seq(Char)
    BY <1>1
  <2>. QED BY <2>1, <2>2, <2>3, Zenon
<1>. DEFINE K == {i \in Nat : i <= n => Plain(f[i]) = Plain(g[i])}
<1>6. 0 \in K
  BY <1>4, <1>5
<1>7. ASSUME NEW i \in Nat, i \in K PROVE i + 1 \in K
  <2>. SUFFICES ASSUME i + 1 <= n PROVE Plain(f[i + 1]) = Plain(g[i + 1])
    OBVIOUS
  <2>1. i \in 0 .. n /\ i + 1 \in 1 .. n /\ (i + 1) - 1 = i /\ Plain(f[i]) = Plain(g[i])
    BY <1>7
  <2>2. f[i] \in Seq(Char) /\ g[i] \in Seq(Char) /\ qs[i + 1] \in Seq(Char) /\ rs[i + 1] \in Seq(Char)
    BY <1>4, <1>5, <2>1
  <2>3. f[i + 1] = f[i] \o qs[i + 1] /\ g[i + 1] = g[i] \o rs[i + 1]
    BY <1>4, <1>5, <2>1, Zenon
  <2>4. Plain(f[i] \o qs[i + 1]) = Plain(f[i]) \o Plain(qs[i + 1])
        /\ Plain(g[i] \o rs[i + 1]) = Plain(g[i]) \o Plain(rs[i + 1])
    BY <2>2, PlainConcat
  <2>5. Plain(rs[i + 1]) = Plain(qs[i + 1])
    BY <1>1, <2>1
  <2>. QED BY <2>1, <2>3, <2>4, <2>5, Zenon
<1>8. n \in K
  <2>. HIDE DEF K
  <2>. QED BY <1>6, <1>7, Induction
<1>. QED BY <1>2, <1>3, <1>8

\* Two pieces that lie side by side make one.
Adjoin(d, a, b, c) == Cut(d, a, c) = Cut(d, a, b) \o Cut(d, b, c)

\* Cutting at a location between two others makes two such pieces.
LEMMA CutJoin ==
    ASSUME NEW d \in Seq(Char), NEW a \in Nat, NEW b \in Nat, NEW c \in Nat,
           a <= b, b <= c, c <= Len(d)
    PROVE  Adjoin(d, a, b, c)
<1>1. PICK p : p = Cut(d, a, b)
  OBVIOUS
<1>2. PICK q : q = Cut(d, b, c)
  OBVIOUS
<1>3. PICK r : r = Cut(d, a, c)
  OBVIOUS
<1>4. PieceOf(p, Char, d, a, b) /\ PieceOf(q, Char, d, b, c) /\ PieceOf(r, Char, d, a, c)
  BY <1>1, <1>2, <1>3, CutIs
<1>5. p \in Seq(Char) /\ Len(p) = b - a /\ \A i \in 1 .. (b - a) : p[i] = d[a + i]
  BY <1>4 DEF PieceOf
<1>6. q \in Seq(Char) /\ Len(q) = c - b /\ \A i \in 1 .. (c - b) : q[i] = d[b + i]
  BY <1>4 DEF PieceOf
<1>7. r \in Seq(Char) /\ Len(r) = c - a /\ \A i \in 1 .. (c - a) : r[i] = d[a + i]
  BY <1>4 DEF PieceOf
<1>8. PICK w : w = p \o q
  OBVIOUS
<1>9. Joins(w, Char, p, q)
  BY <1>5, <1>6, <1>8, ConcatIs
<1>10. /\ w \in Seq(Char) /\ Len(w) = c - a
       /\ \A i \in 1 .. (b - a) : w[i] = p[i]
       /\ \A i \in 1 .. (c - b) : w[(b - a) + i] = q[i]
  BY <1>5, <1>6, <1>9 DEF Joins
<1>11. ASSUME NEW i \in 1 .. (c - a) PROVE r[i] = w[i]
  <2>1. CASE i <= b - a
    <3>1. i \in 1 .. (b - a)
      BY <2>1
    <3>2. w[i] = p[i]
      BY <1>10, <3>1, Zenon
    <3>3. p[i] = d[a + i]
      BY <1>5, <3>1, Zenon
    <3>4. r[i] = d[a + i]
      BY <1>7, Zenon
    <3>. QED BY <3>2, <3>3, <3>4, Zenon
  <2>2. CASE i > b - a
    <3>1. PICK j \in 1 .. (c - b) : i = (b - a) + j
      <4>1. i - (b - a) \in 1 .. (c - b) /\ i = (b - a) + (i - (b - a))
        BY <2>2
      <4>. QED BY <4>1
    <3>2. w[i] = d[b + j]
      BY <1>6, <1>10, <3>1
    <3>3. r[i] = d[a + i] /\ a + i = b + j
      BY <1>7, <3>1
    <3>. QED BY <3>2, <3>3
  <2>. QED BY <2>1, <2>2
<1>12. r = w
  BY <1>7, <1>10, <1>11
<1>. QED BY <1>1, <1>2, <1>3, <1>8, <1>12 DEF Adjoin

\* A head is no text: with a new one a paragraph keeps its letters.
LEMMA PlainHead ==
    ASSUME NEW q, Line(q), NEW i \in Nat
    PROVE  Plain(WithHead(q, i)) = Plain(q)
<1>1. PICK w : w = WithHead(q, i)
  OBVIOUS
<1>2. /\ q[1].s \in Style /\ (q[1].s = "none" => w = q)
      /\ q[1].s # "none" => w = Lead(q[1].s, i) \o RemoveHeadTabString(q)
  BY <1>1, WithHeadIs
<1>3. CASE q[1].s = "none"
  BY <1>1, <1>2, <1>3
<1>4. CASE q[1].s # "none"
  <2>1. PICK s \in {"ul", "ol"} : s = q[1].s
    BY <1>2, <1>4 DEF Style
  <2>2. q \in Seq(Char)
    BY DEF Line
  <2>3. PICK h : h = HeadLength(q)
    OBVIOUS
  <2>4. h \in {0, 3} /\ h <= Len(q)
    BY <2>2, <2>3, BodyIs
  <2>5. h = 3 => q[1].c = "tab" /\ q[2].c \in Mark /\ q[3].c = "tab"
    BY <2>3 DEF HeadLength
  <2>6. PICK b : b = Cut(q, h, Len(q))
    OBVIOUS
  <2>7. RemoveHeadTabString(q) = b
    BY <2>3, <2>6 DEF RemoveHeadTabString, Cut
  <2>8. PICK a : a = Cut(q, 0, h)
    OBVIOUS
  <2>9. Within(q, 0, h) /\ Within(q, h, Len(q)) /\ Within(q, 0, Len(q))
    BY <2>2, <2>4 DEF Within
  <2>10. a \in Seq(Char) /\ b \in Seq(Char)
    BY <2>2, <2>6, <2>8, <2>9, CutType
  <2>11. q = a \o b
    <3>1. Cut(q, 0, Len(q)) = a \o b
      <4>1. 0 \in Nat /\ h \in Nat /\ Len(q) \in Nat /\ 0 <= h /\ h <= Len(q) /\ Len(q) <= Len(q)
        BY <2>2, <2>4
      <4>2. Adjoin(q, 0, h, Len(q))
        BY <2>2, <4>1, CutJoin
      <4>. QED BY <2>6, <2>8, <4>2, Zenon DEF Adjoin
    <3>2. Cut(q, 0, Len(q)) = q
      BY <2>2 DEF Cut
    <3>. QED BY <3>1, <3>2
  <2>12. Plain(a) = <<>>
    <3>1. PieceOf(a, Char, q, 0, h)
      BY <2>2, <2>4, <2>8, CutIs
    <3>2. Len(a) = h /\ \A j \in 1 .. h : a[j] = q[j]
      BY <2>4, <3>1 DEF PieceOf
    <3>3. \A j \in 1 .. Len(a) : a[j].c \notin LN
      BY <2>4, <2>5, <3>2 DEF LN, Mark
    <3>. QED BY <2>10, <3>3, PlainNone
  <2>13. PICK l : l = Lead(s, i)
    OBVIOUS
  <2>14. l \in Seq(Char) /\ Plain(l) = <<>>
    <3>1. /\ l \in Seq(Char) /\ Len(l) = 3 /\ l[1] = Tab(s) /\ l[2] = MarkOf(s, i) /\ l[3] = Tab(s)
          /\ Tab(s).c = "tab" /\ MarkOf(s, i).c \in Mark
      BY <2>13, LeadIs
    <3>2. \A j \in 1 .. Len(l) : l[j].c \notin LN
      BY <3>1 DEF LN, Mark
    <3>. QED BY <3>1, <3>2, PlainNone
  <2>15. w = l \o b
    BY <1>2, <1>4, <2>1, <2>7, <2>13
  <2>16. Plain(l \o b) = Plain(l) \o Plain(b) /\ Plain(a \o b) = Plain(a) \o Plain(b)
    BY <2>10, <2>14, PlainConcat
  <2>. QED BY <1>1, <2>11, <2>12, <2>14, <2>15, <2>16, Zenon
<1>. QED BY <1>3, <1>4

\* The text view's fixing of the styles keeps the letters.
LEMMA PlainFixed ==
    ASSUME NEW d \in Seq(Char)
    PROVE  Plain(Fixed(d)) = Plain(d)
<1>1. PICK e : e = Fixed(d)
  OBVIOUS
<1>2. PICK qs : qs = Paras(d)
  OBVIOUS
<1>3. PICK rs : rs = Paras(e)
  OBVIOUS
<1>4. e \in Seq(Char) /\ Len(rs) = Len(qs) /\ \A i \in 1 .. Len(qs) : rs[i] = Fix(qs[i])
  BY <1>1, <1>2, <1>3, FixedIs
<1>5. WellFormed(qs) /\ FlattenSeq(qs) = d /\ WellFormed(rs) /\ FlattenSeq(rs) = e
  BY <1>2, <1>3, <1>4, ParasOf
<1>6. qs \in Seq(Seq(Char)) /\ rs \in Seq(Seq(Char)) /\ \A i \in 1 .. Len(qs) : Line(qs[i])
  BY <1>5 DEF WellFormed
<1>7. ASSUME NEW i \in 1 .. Len(qs) PROVE Plain(rs[i]) = Plain(qs[i])
  <2>1. PICK q : q = qs[i]
    OBVIOUS
  <2>2. Line(q) /\ rs[i] = Fix(q)
    BY <1>4, <1>6, <2>1
  <2>3. SameText(q, Fix(q))
    BY <2>2, FixIs
  <2>4. q \in Seq(Char)
    BY <2>2 DEF Line
  <2>. QED BY <2>1, <2>2, <2>3, <2>4, PlainSame
<1>8. Plain(FlattenSeq(rs)) = Plain(FlattenSeq(qs))
  BY <1>4, <1>6, <1>7, PlainFlatten
<1>. QED BY <1>1, <1>5, <1>8

\* resetTabOrderNumber keeps the letters.
LEMMA PlainReset ==
    ASSUME NEW d \in Seq(Char)
    PROVE  ResetTabOrderNumber(d) \in Seq(Char) /\ Plain(ResetTabOrderNumber(d)) = Plain(d)
<1>2. PICK qs : qs = Paras(d)
  OBVIOUS
<1>3. PICK rs : rs = Heads(qs, Len(qs))
  OBVIOUS
<1>4. ResetTabOrderNumber(d) = FlattenSeq(rs) /\ ResetTabOrderNumber(d) \in Seq(Char)
  BY <1>2, <1>3, ResetIs, ResetParas
<1>5. WellFormed(qs) /\ FlattenSeq(qs) = d
  BY <1>2, ParasOf
<1>6. qs \in Seq(Seq(Char)) /\ \A i \in 1 .. Len(qs) : Line(qs[i])
  BY <1>5 DEF WellFormed
<1>7. rs \in Seq(Seq(Char)) /\ Len(rs) = Len(qs)
  BY <1>3, <1>5, <1>6, HeadsIs
<1>8. ASSUME NEW i \in 1 .. Len(qs) PROVE Plain(rs[i]) = Plain(qs[i])
  <2>1. rs[i] = WithHead(qs[i], ItemNo(qs, i))
    BY <1>3, <1>6 DEF Heads
  <2>2. ItemNo(qs, i) \in Nat
    <3>1. i \in Nat \ {0}
      BY <1>6
    <3>2. ItemNo(qs, i) \in 1 .. i
      BY <3>1, ItemNoIs
    <3>. QED BY <3>1, <3>2
  <2>3. Line(qs[i])
    BY <1>6
  <2>. QED BY <2>1, <2>2, <2>3, PlainHead
<1>9. Plain(FlattenSeq(rs)) = Plain(FlattenSeq(qs))
  BY <1>6, <1>7, <1>8, PlainFlatten
<1>. QED BY <1>4, <1>5, <1>9

\* What an edit that removes text leaves of the letters.
LEMMA PlainReplaced ==
    ASSUME NEW d \in Seq(Char), NEW a, NEW b, Within(d, a, b), NEW new \in Seq(Char)
    PROVE  Plain(Replaced(d, a, b, new)) = (Plain(Cut(d, 0, a)) \o Plain(new)) \o Plain(Cut(d, b, Len(d)))
<1>1. Edited(Replaced(d, a, b, new), d, a, b, new)
  BY ReplacedIs
<1>2. PICK p : p = Cut(d, 0, a)
  OBVIOUS
<1>3. PICK q : q = Cut(d, b, Len(d))
  OBVIOUS
<1>4. Replaced(d, a, b, new) = (p \o new) \o q /\ p \in Seq(Char) /\ q \in Seq(Char)
  BY <1>1, <1>2, <1>3 DEF Edited
<1>5. PICK w \in Seq(Char) : w = p \o new
  BY <1>4, ConcatProperties
<1>6. Plain(w \o q) = Plain(w) \o Plain(q) /\ Plain(p \o new) = Plain(p) \o Plain(new)
  BY <1>4, PlainConcat
<1>. QED BY <1>2, <1>3, <1>4, <1>5, <1>6, Zenon
-----------------------------------------------------------------------------
(* What the keys do to the letters and line breaks.                        *)

\* Where the characters of d and of the new text come to lie.
Placed(w, d, a, b, new) ==
    /\ w \in Seq(Char) /\ Len(w) = a + Len(new) + (Len(d) - b)
    /\ \A i \in 1 .. a : w[i] = d[i]
    /\ \A i \in 1 .. Len(new) : w[a + i] = new[i]
    /\ \A i \in 1 .. (Len(d) - b) : w[a + Len(new) + i] = d[b + i]

\* Replaced puts the new text where the range was.
LEMMA ReplacedAt ==
    ASSUME NEW d \in Seq(Char), NEW a, NEW b, Within(d, a, b), NEW new \in Seq(Char)
    PROVE  Placed(Replaced(d, a, b, new), d, a, b, new)
<1>1. a \in Nat /\ b \in Nat /\ a <= b /\ b <= Len(d) /\ Len(d) \in Nat /\ a <= Len(d)
  BY DEF Within
<1>2. PICK x : x = Cut(d, 0, a)
  OBVIOUS
<1>3. PICK y : y = Cut(d, b, Len(d))
  OBVIOUS
<1>4. PICK w : w = Replaced(d, a, b, new)
  OBVIOUS
<1>5. w = (x \o new) \o y /\ x \in Seq(Char) /\ y \in Seq(Char)
  <2>1. Edited(Replaced(d, a, b, new), d, a, b, new)
    BY ReplacedIs
  <2>. QED BY <1>2, <1>3, <1>4, <2>1 DEF Edited
<1>6. PieceOf(x, Char, d, 0, a) /\ PieceOf(y, Char, d, b, Len(d))
  BY <1>1, <1>2, <1>3, CutIs
<1>7. Len(x) = a /\ \A i \in 1 .. a : x[i] = d[i]
  BY <1>1, <1>6 DEF PieceOf
<1>8. Len(y) = Len(d) - b /\ \A i \in 1 .. (Len(d) - b) : y[i] = d[b + i]
  BY <1>6 DEF PieceOf
<1>9. PICK v : v = x \o new
  OBVIOUS
<1>10. Joins(v, Char, x, new)
  BY <1>5, <1>9, ConcatIs
<1>11. /\ v \in Seq(Char) /\ Len(v) = a + Len(new) /\ Len(new) \in Nat
       /\ \A i \in 1 .. a : v[i] = x[i]
       /\ \A i \in 1 .. Len(new) : v[a + i] = new[i]
  BY <1>7, <1>10 DEF Joins
<1>12. Joins(w, Char, v, y)
  <2>1. Joins(v \o y, Char, v, y)
    BY <1>5, <1>11, ConcatIs
  <2>. QED BY <1>5, <1>9, <2>1
<1>13. /\ w \in Seq(Char) /\ Len(w) = Len(v) + Len(y)
       /\ \A i \in 1 .. Len(v) : w[i] = v[i]
       /\ \A i \in 1 .. Len(y) : w[Len(v) + i] = y[i]
  BY <1>12 DEF Joins
<1>14. Len(w) = a + Len(new) + (Len(d) - b)
  BY <1>8, <1>11, <1>13
<1>15. ASSUME NEW i \in 1 .. a PROVE w[i] = d[i]
  <2>1. i \in 1 .. Len(v)
    BY <1>1, <1>11
  <2>. QED BY <1>7, <1>11, <1>13, <2>1
<1>16. ASSUME NEW i \in 1 .. Len(new) PROVE w[a + i] = new[i]
  <2>1. a + i \in 1 .. Len(v)
    BY <1>1, <1>11
  <2>. QED BY <1>11, <1>13, <2>1
<1>17. ASSUME NEW i \in 1 .. (Len(d) - b) PROVE w[a + Len(new) + i] = d[b + i]
  BY <1>8, <1>11, <1>13
<1>18. Placed(w, d, a, b, new)
  BY <1>13, <1>14, <1>15, <1>16, <1>17 DEF Placed
<1>. QED BY <1>4, <1>18

\* The text w is d with the style s from a to b.
Recoloured(w, d, a, b, s) ==
    /\ SameText(d, w)
    /\ \A i \in 1 .. a : w[i] = d[i]
    /\ \A i \in (a + 1) .. b : w[i].s = s

\* A piece of the text gets a style and nothing else changes.
LEMMA RecolouredIs ==
    ASSUME NEW d \in Seq(Char), NEW a, NEW b, Within(d, a, b), NEW s \in Style
    PROVE  Recoloured(Replaced(d, a, b, Styled(Cut(d, a, b), s)), d, a, b, s)
<1>0. a \in Nat /\ b \in Nat /\ a <= b /\ b <= Len(d) /\ Len(d) \in Nat
  BY DEF Within
<1>1. PICK q : q = Cut(d, a, b)
  OBVIOUS
<1>2. q \in Seq(Char) /\ Len(q) = b - a /\ \A i \in 1 .. (b - a) : q[i] = d[a + i]
  <2>1. PieceOf(q, Char, d, a, b)
    BY <1>0, <1>1, CutIs
  <2>. QED BY <2>1 DEF PieceOf
<1>3. PICK r : r = Styled(q, s)
  OBVIOUS
<1>4. /\ r \in Seq(Char) /\ Len(r) = b - a
      /\ \A i \in 1 .. (b - a) : r[i].c = q[i].c /\ r[i].n = q[i].n /\ r[i].s = s
  BY <1>2, <1>3, StyledIs
<1>5. PICK w : w = Replaced(d, a, b, r)
  OBVIOUS
<1>6. Placed(w, d, a, b, r)
  BY <1>4, <1>5, ReplacedAt
<1>7. /\ w \in Seq(Char) /\ Len(w) = Len(d)
      /\ \A i \in 1 .. a : w[i] = d[i]
      /\ \A i \in 1 .. (b - a) : w[a + i] = r[i]
      /\ \A i \in 1 .. (Len(d) - b) : w[b + i] = d[b + i]
  <2>0. Len(r) = b - a
    BY <1>4
  <2>1. a + Len(r) = b /\ a + Len(r) + (Len(d) - b) = Len(d)
    BY <1>0, <2>0
  <2>. QED BY <1>4, <1>6, <2>1 DEF Placed
<1>8. ASSUME NEW j \in (a + 1) .. b
      PROVE  w[j].c = d[j].c /\ w[j].n = d[j].n /\ w[j].s = s
  <2>1. PICK i \in 1 .. (b - a) : j = a + i
    <3>1. j - a \in 1 .. (b - a) /\ j = a + (j - a)
      BY <1>0
    <3>. QED BY <3>1
  <2>. QED BY <1>2, <1>4, <1>7, <2>1
<1>9. ASSUME NEW j \in (b + 1) .. Len(d) PROVE w[j] = d[j]
  <2>1. PICK i \in 1 .. (Len(d) - b) : j = b + i
    <3>1. j - b \in 1 .. (Len(d) - b) /\ j = b + (j - b)
      BY <1>0
    <3>. QED BY <3>1
  <2>. QED BY <1>7, <2>1
<1>10. SameText(d, w)
  <2>1. ASSUME NEW j \in 1 .. Len(d) PROVE w[j].c = d[j].c /\ w[j].n = d[j].n
    <3>1. j \in 1 .. a \/ j \in (a + 1) .. b \/ j \in (b + 1) .. Len(d)
      BY <1>0
    <3>. QED BY <1>7, <1>8, <1>9, <3>1
  <2>. QED BY <1>7, <2>1 DEF SameText
<1>11. Recoloured(w, d, a, b, s)
  BY <1>7, <1>8, <1>10 DEF Recoloured
<1>. QED BY <1>1, <1>3, <1>5, <1>11

\* An outcome raises nothing and has the letters of x.
Wrote(o, x) == ~o.crashed /\ Plain(o.text) = Plain(x)

\* Both ways of carrying out an edit write what was asked for.
LEMMA OutcomeWrote ==
    ASSUME NEW d \in Seq(Char), NEW s, NEW again
    PROVE  Wrote(Outcome(d, s, again), d) /\ Wrote(Outcome(ResetTabOrderNumber(d), s, again), d)
<1>1. ASSUME NEW e \in Seq(Char) PROVE ~Outcome(e, s, again).crashed /\ Plain(Outcome(e, s, again).text) = Plain(e)
  <2>1. Outcome(e, s, again).text = Fixed(e) /\ Outcome(e, s, again).crashed = FALSE
    BY DEF Outcome
  <2>. QED BY <2>1, PlainFixed
<1>2. PICK e : e = ResetTabOrderNumber(d)
  OBVIOUS
<1>3. e \in Seq(Char) /\ Plain(e) = Plain(d)
  BY <1>2, PlainReset
<1>. QED BY <1>1, <1>2, <1>3 DEF Wrote

\* What the text view and insert write.
LEMMA EditWrote ==
    ASSUME TypeOK, NEW a, NEW b, Within(text, a, b), NEW new \in Seq(Char)
    PROVE  /\ Wrote(Default(a, b, new), Replaced(text, a, b, new))
           /\ Wrote(Insert(a, b, new), Replaced(text, a, b, new))
<1>1. Replaced(text, a, b, new) \in Seq(Char)
  BY ReplacedType DEF TypeOK
<1>. QED BY <1>1, OutcomeWrote DEF Default, Insert

\* A head begins behind the location lo.
HeadAt(d, lo) ==
    lo + 3 <= Len(d) /\ d[lo + 1].c = "tab" /\ d[lo + 2].c \in Mark /\ d[lo + 3].c = "tab"

\* A piece begins with a head when there is one and the piece is long enough.
LEMMA HeadPiece ==
    ASSUME NEW d \in Seq(Char), NEW lo \in Nat, NEW hi \in Nat, lo <= hi, hi <= Len(d)
    PROVE  /\ HeadLength(Cut(d, lo, hi)) \in {0, 3}
           /\ HeadLength(Cut(d, lo, hi)) = 3 <=> (lo + 3 <= hi /\ HeadAt(d, lo))
<1>1. PICK q : q = Cut(d, lo, hi)
  OBVIOUS
<1>2. PieceOf(q, Char, d, lo, hi)
  BY <1>1, CutIs
<1>3. q \in Seq(Char) /\ Len(q) = hi - lo /\ \A i \in 1 .. (hi - lo) : q[i] = d[lo + i]
  BY <1>2 DEF PieceOf
<1>4. HeadLength(q) = IF hi - lo >= 3 /\ q[1].c = "tab" /\ q[2].c \in Mark /\ q[3].c = "tab" THEN 3 ELSE 0
  BY <1>3 DEF HeadLength
<1>5. CASE lo + 3 <= hi
  <2>1. q[1] = d[lo + 1] /\ q[2] = d[lo + 2] /\ q[3] = d[lo + 3] /\ hi - lo >= 3
    BY <1>3, <1>5
  <2>. QED BY <1>1, <1>4, <1>5, <2>1 DEF HeadAt
<1>6. CASE ~(lo + 3 <= hi)
  <2>1. ~(hi - lo >= 3)
    BY <1>6
  <2>. QED BY <1>1, <1>4, <1>6, <2>1
<1>. QED BY <1>5, <1>6

\* The text x after deleteTab has removed a range: the paragraph there is in no list.
Unlisted(x, from, b) ==
    LET d == Replaced(x, from, b, <<>>)
        p == ParapraghRange(d, from, from)
    IN  Replaced(d, p[1], p[2], Styled(Cut(d, p[1], p[2]), "none"))

\* deleteTab removes the range and changes nothing else but styles.
LEMMA UnlistedIs ==
    ASSUME NEW x \in Seq(Char), NEW from, NEW b, Within(x, from, b),
           NEW d, d = Replaced(x, from, b, <<>>)
    PROVE  /\ Placed(d, x, from, b, <<>>)
           /\ Recoloured(Unlisted(x, from, b), d, ParapraghRange(d, from, from)[1],
                         ParapraghRange(d, from, from)[2], "none")
<1>1. PICK new : new = <<>>
  OBVIOUS
<1>2. new \in Seq(Char) /\ Len(new) = 0
  BY <1>1
<1>3. Placed(d, x, from, b, new)
  BY <1>1, <1>2, ReplacedAt
<1>4. d \in Seq(Char) /\ Len(d) = from + (Len(x) - b)
  BY <1>2, <1>3 DEF Placed, Within
<1>5. Within(d, from, from)
  BY <1>4 DEF Within
<1>6. PICK p : p = ParapraghRange(d, from, from)
  OBVIOUS
<1>7. Within(d, p[1], p[2])
  BY <1>4, <1>5, <1>6, RangeAround
<1>8. "none" \in Style
  BY DEF Style
<1>9. Recoloured(Replaced(d, p[1], p[2], Styled(Cut(d, p[1], p[2]), "none")), d, p[1], p[2], "none")
  BY <1>4, <1>7, <1>8, RecolouredIs
<1>10. Unlisted(x, from, b) = Replaced(d, p[1], p[2], Styled(Cut(d, p[1], p[2]), "none"))
  BY <1>6, Zenon DEF Unlisted
<1>. QED BY <1>1, <1>3, <1>6, <1>9, <1>10

\* deleteTab at the last character of a head removes the head: no letter is lost, and
\* nothing is raised.
LEMMA DeleteTabWrote ==
    ASSUME TypeOK, NEW lo \in Nat, NEW b, Within(text, lo + 2, b), lo + 2 < b,
           HeadAt(text, lo), TabStyleLengthFor(text, lo + 2, b) = 3
    PROVE  /\ DeleteTab(lo + 2, b) = Outcome(ResetTabOrderNumber(Unlisted(text, lo, b)), "none", TRUE)
           /\ Wrote(DeleteTab(lo + 2, b), Replaced(text, lo + 2, b, <<>>))
<1>0. text \in Seq(Char)
  BY DEF TypeOK
<1>1. DeleteTabFrom(lo + 2, b) = lo /\ ~(lo + 2 < 0) /\ ~(lo < 0)
  BY DEF DeleteTabFrom
<1>2. DeleteTab(lo + 2, b) = Outcome(ResetTabOrderNumber(Unlisted(text, lo, b)), "none", TRUE)
  BY <1>1, Zenon DEF DeleteTab, Unlisted
<1>3. Within(text, lo, b)
  BY DEF Within
<1>4. PICK d : d = Replaced(text, lo, b, <<>>)
  OBVIOUS
<1>5. PICK e : e = Unlisted(text, lo, b)
  OBVIOUS
<1>6. d \in Seq(Char)
  <2>1. Placed(d, text, lo, b, <<>>)
    BY <1>0, <1>3, <1>4, UnlistedIs
  <2>. QED BY <2>1 DEF Placed
<1>7. SameText(d, e)
  <2>1. Recoloured(e, d, ParapraghRange(d, lo, lo)[1], ParapraghRange(d, lo, lo)[2], "none")
    BY <1>0, <1>3, <1>4, <1>5, UnlistedIs
  <2>. QED BY <2>1 DEF Recoloured
<1>8. e \in Seq(Char) /\ Plain(e) = Plain(d)
  BY <1>6, <1>7, PlainSame DEF SameText
<1>9. Plain(d) = Plain(Replaced(text, lo + 2, b, <<>>))
  <2>1. PICK new : new = <<>>
    OBVIOUS
  <2>2. new \in Seq(Char)
    BY <2>1
  <2>3. PICK x : x = Cut(text, 0, lo)
    OBVIOUS
  <2>4. PICK y : y = Cut(text, lo, lo + 2)
    OBVIOUS
  <2>5. PICK z : z = Cut(text, 0, lo + 2)
    OBVIOUS
  <2>6. PICK t : t = Cut(text, b, Len(text))
    OBVIOUS
  <2>7. Plain(Replaced(text, lo, b, new)) = (Plain(x) \o Plain(new)) \o Plain(t)
    BY <1>0, <1>3, <2>2, <2>3, <2>6, PlainReplaced
  <2>8. Plain(Replaced(text, lo + 2, b, new)) = (Plain(z) \o Plain(new)) \o Plain(t)
    BY <1>0, <2>2, <2>5, <2>6, PlainReplaced
  <2>9. 0 \in Nat /\ lo + 2 \in Nat /\ 0 <= lo /\ lo <= lo + 2 /\ lo + 2 <= Len(text)
    BY <1>0 DEF HeadAt
  <2>10. z = x \o y
    <3>1. Adjoin(text, 0, lo, lo + 2)
      BY <1>0, <2>9, CutJoin
    <3>. QED BY <2>3, <2>4, <2>5, <3>1, Zenon DEF Adjoin
  <2>11. PieceOf(x, Char, text, 0, lo) /\ PieceOf(y, Char, text, lo, lo + 2)
    <3>1. lo <= Len(text)
      BY <1>0, <2>9
    <3>. QED BY <1>0, <2>3, <2>4, <2>9, <3>1, CutIs
  <2>12. x \in Seq(Char) /\ y \in Seq(Char) /\ Len(y) = 2 /\ y[1] = text[lo + 1] /\ y[2] = text[lo + 2]
    BY <2>11 DEF PieceOf
  <2>13. \A i \in 1 .. Len(y) : y[i].c \notin LN
    BY <2>12 DEF HeadAt, LN, Mark
  <2>14. Plain(y) = <<>>
    BY <2>12, <2>13, PlainNone
  <2>15. Plain(x \o y) = Plain(x) \o Plain(y)
    BY <2>12, PlainConcat
  <2>16. Plain(x) \o <<>> = Plain(x)
    <3>1. Plain(x) \in Seq(LN)
      BY <2>12, PlainType
    <3>. QED BY <3>1
  <2>17. Plain(z) = Plain(x)
    BY <2>10, <2>14, <2>15, <2>16, Zenon
  <2>. QED BY <1>4, <2>1, <2>7, <2>8, <2>17, Zenon
<1>10. Wrote(Outcome(ResetTabOrderNumber(e), "none", TRUE), e)
  BY <1>8, OutcomeWrote
<1>. QED BY <1>2, <1>5, <1>8, <1>9, <1>10, Zenon DEF Wrote

\* A paragraph with a head, seen from a location in the head or at its end.
LEMMA InHead ==
    ASSUME NEW d \in Seq(Char), NEW lo \in Nat, HeadAt(d, lo), lo = 0 \/ d[lo].c = "newline",
           NEW a \in Nat, NEW b \in Nat, lo <= a, a <= lo + 3, a <= b, b <= Len(d)
    PROVE  ParapraghRange(d, a, b)[1] = lo /\ TabStyleLengthFor(d, a, b) = 3
<1>1. PICK x \in Nat, y \in Nat :
         LineAt(d, a, LastOf(a, b), x, y) /\ ParapraghRange(d, a, b) = <<x, y>>
  BY RangeExists
<1>2. PICK l \in Nat : l = LastOf(a, b)
  BY DEF LastOf
<1>3. l >= a
  BY <1>2 DEF LastOf
<1>4. LineAt(d, a, l, x, y)
  BY <1>1, <1>2
<1>5. d[lo + 1].c # "newline" /\ d[lo + 2].c # "newline" /\ d[lo + 3].c # "newline" /\ lo + 3 <= Len(d)
  BY DEF HeadAt, Mark
<1>6. ASSUME NEW p \in (lo + 1) .. (lo + 3) PROVE d[p].c # "newline"
  <2>1. p = lo + 1 \/ p = lo + 2 \/ p = lo + 3
    OBVIOUS
  <2>. QED BY <1>5, <2>1, Zenon
<1>7. x = lo
  BY <1>4, <1>6 DEF LineAt
<1>8. lo + 3 <= y /\ y <= Len(d) /\ Len(d) \in Nat
  BY <1>3, <1>4, <1>5, <1>6 DEF LineAt
<1>9. HeadLength(Cut(d, lo, y)) = 3
  <2>1. lo <= y
    BY <1>8
  <2>. QED BY <1>8, <2>1, HeadPiece
<1>10. ParapraghRange(d, a, b)[1] = lo /\ ParapraghRange(d, a, b)[2] = y
  BY <1>1, <1>7
<1>. QED BY <1>9, <1>10 DEF TabStyleLengthFor

\* The delete key removes the selected letters and line breaks and no other, and raises
\* nothing.
LEMMA DeleteKeyWrote ==
    ASSUME TypeOK, NEW r \in Deletable, InBody(r[1]) \/ InBody(r[1] + 1)
    PROVE  Wrote(DeleteKey(r[1], r[2]), Replaced(text, r[1], r[2], <<>>))
<1>0. text \in Seq(Char)
  BY DEF TypeOK
<1>1. PICK a : a = r[1]
  OBVIOUS
<1>2. PICK b : b = r[2]
  OBVIOUS
<1>3. Within(text, a, b) /\ a < b
  BY <1>1, <1>2, DeletableIs
<1>4. a \in Nat /\ b \in Nat /\ a <= b /\ b <= Len(text) /\ Len(text) \in Nat /\ a + 1 <= Len(text)
  BY <1>0, <1>3 DEF Within
<1>5. <<>> \in Seq(Char)
  OBVIOUS
<1>6. /\ Wrote(Default(a, b, <<>>), Replaced(text, a, b, <<>>))
      /\ Wrote(Insert(a, b, <<>>), Replaced(text, a, b, <<>>))
  BY <1>3, <1>5, EditWrote
<1>7. PICK t : t = TabStyleLengthFor(text, a, b)
  OBVIOUS
<1>8. PICK lo \in Nat, hi \in Nat :
         LineAt(text, a, LastOf(a, b), lo, hi) /\ ParapraghRange(text, a, b) = <<lo, hi>>
  BY <1>0, <1>4, RangeExists
<1>9. ParapraghRange(text, a, b)[1] = lo /\ ParapraghRange(text, a, b)[2] = hi
  BY <1>8
<1>10. CASE TabStyleFor(text, a) # "none" /\ text[a + 1].c = "tab" /\ a < lo + t
  <2>1. lo <= a /\ (lo = 0 \/ text[lo].c = "newline") /\ hi <= Len(text) /\ lo <= hi
    <3>1. lo <= a /\ b <= hi /\ hi <= Len(text)
      BY <1>0, <1>3, <1>9, RangeAround DEF Within
    <3>. QED BY <1>4, <1>8, <3>1 DEF LineAt
  <2>2. t = HeadLength(Cut(text, lo, hi))
    BY <1>7, <1>9 DEF TabStyleLengthFor
  <2>3. t = 3 /\ HeadAt(text, lo)
    <3>1. t \in {0, 3} /\ (t = 3 <=> (lo + 3 <= hi /\ HeadAt(text, lo)))
      BY <1>0, <2>1, <2>2, HeadPiece
    <3>. QED BY <1>4, <1>10, <2>1, <3>1
  <2>4. ASSUME NEW c \in Nat, lo <= c, c <= lo + 3, c <= Len(text), InBody(c) PROVE c >= lo + 3
    <3>1. ParapraghRange(text, c, c)[1] = lo /\ TabStyleLengthFor(text, c, c) = 3
      BY <1>0, <2>1, <2>3, <2>4, InHead
    <3>. QED BY <2>4, <3>1 DEF InBody, TabStyleLengthFor
  <2>5. a = lo + 2
    <3>1. a < lo + 3 /\ a <= Len(text) /\ lo <= a + 1 /\ a + 1 \in Nat /\ a + 1 <= lo + 3
      BY <1>4, <1>10, <2>1, <2>3
    <3>2. CASE InBody(a)
      <4>1. a >= lo + 3
        BY <1>4, <2>1, <2>4, <3>1, <3>2
      <4>. QED BY <1>4, <3>1, <4>1
    <3>3. CASE InBody(a + 1)
      <4>1. a + 1 >= lo + 3
        BY <1>4, <2>4, <3>1, <3>3
      <4>. QED BY <1>4, <3>1, <4>1
    <3>. QED BY <1>1, <3>2, <3>3
  <2>6. Wrote(DeleteTab(lo + 2, b), Replaced(text, lo + 2, b, <<>>))
    <3>1. Within(text, lo + 2, b) /\ lo + 2 < b /\ TabStyleLengthFor(text, lo + 2, b) = 3
      BY <1>3, <1>7, <2>3, <2>5
    <3>. QED BY <2>3, <3>1, DeleteTabWrote
  <2>7. DeleteKey(a, b) = DeleteTab(a, b)
    BY <1>7, <1>9, <1>10 DEF DeleteKey
  <2>. QED BY <1>1, <1>2, <2>5, <2>6, <2>7
<1>11. CASE ~(TabStyleFor(text, a) # "none" /\ text[a + 1].c = "tab" /\ a < lo + t)
  <2>1. DeleteKey(a, b) \in {Insert(a, b, <<>>), Default(a, b, <<>>)}
    BY <1>7, <1>9, <1>11 DEF DeleteKey
  <2>. QED BY <1>1, <1>2, <1>6, <2>1
<1>. QED BY <1>10, <1>11

\* The range of each paragraph is listed.
LEMMA Listed ==
    ASSUME NEW d \in Seq(Char), NEW lo \in Nat, NEW hi \in Nat, lo < Len(d), LineAt(d, lo, lo, lo, hi)
    PROVE  <<lo, hi>> \in Range(AllParapraghRange(d))
<1>1. PICK qs : qs = Paras(d)
  OBVIOUS
<1>2. WellFormed(qs) /\ FlattenSeq(qs) = d
  BY <1>1, ParasOf
<1>3. qs \in Seq(Seq(Char))
  BY <1>2 DEF WellFormed
<1>4. PICK off : Laid(qs, d, off)
  BY <1>2, <1>3, FlattenLaid
<1>5. lo + 1 \in 1 .. Len(d)
  OBVIOUS
<1>6. PICK i \in 1 .. Len(qs) : off[i - 1] < lo + 1 /\ lo + 1 <= off[i]
  BY <1>3, <1>4, <1>5, LaidSegment
<1>7. off[i - 1] \in Nat /\ off[i] \in Nat
  BY <1>2, <1>4, Lines
<1>8. off[i - 1] <= lo /\ lo < off[i]
  <2>1. PICK x \in Nat : x = off[i - 1]
    BY <1>7
  <2>2. PICK y \in Nat : y = off[i]
    BY <1>7
  <2>3. x < lo + 1 /\ lo + 1 <= y
    BY <1>6, <2>1, <2>2, Zenon
  <2>4. x <= lo /\ lo < y
    BY <2>3
  <2>. QED BY <2>1, <2>2, <2>4, Zenon
<1>9. ParapraghRange(d, lo, lo) = <<off[i - 1], off[i]>>
  BY <1>2, <1>4, <1>8, LineOf
<1>10. ParapraghRange(d, lo, lo) = <<lo, hi>>
  <2>1. LastOf(lo, lo) = lo
    BY DEF LastOf
  <2>2. LineAt(d, lo, LastOf(lo, lo), lo, hi)
    BY <2>1
  <2>3. lo <= lo /\ lo <= Len(d)
    OBVIOUS
  <2>. QED BY <2>2, <2>3, RangeIs
<1>11. PICK ps : ps = AllParapraghRange(d)
  OBVIOUS
<1>12. RangesFrom(ps, off, 0, Len(qs))
  BY <1>2, <1>4, <1>11, AllRanges
<1>13. i \in DOMAIN ps /\ ps[i] = <<off[i - 1], off[i]>>
  <2>1. PICK n \in Nat : n = Len(qs)
    BY <1>3
  <2>2. i \in 1 .. (n - 0) /\ 0 + i - 1 = i - 1 /\ 0 + i = i /\ n - 0 = n
    BY <2>1
  <2>3. RangesFrom(ps, off, 0, n)
    BY <1>12, <2>1
  <2>4. ps \in Seq(Nat \X Nat) /\ Len(ps) = n - 0
    BY <2>3 DEF RangesFrom
  <2>5. ps[i] = <<off[0 + i - 1], off[0 + i]>>
    BY <2>2, <2>3, Zenon DEF RangesFrom
  <2>6. i \in DOMAIN ps
    BY <2>2, <2>4
  <2>. QED BY <2>2, <2>5, <2>6, Zenon
<1>. QED BY <1>9, <1>10, <1>11, <1>13 DEF Range

\* Renewing the heads moves nothing before lo when the list paragraphs there have heads:
\* the paragraph that begins at lo and is in no list is found there again.
LEMMA KeepsPlace ==
    ASSUME NEW e \in Seq(Char), NEW lo \in Nat, lo < Len(e), lo = 0 \/ e[lo].c = "newline",
           e[lo + 1].s = "none",
           \A x, y \in Nat : x < y /\ y <= lo /\ LineAt(e, x, x, x, y) /\ e[x + 1].s # "none"
                                => HeadLength(Cut(e, x, y)) = 3
    PROVE  TabStyleFor(Fixed(ResetTabOrderNumber(e)), lo) = "none"
<1>1. PICK es : es = Paras(e)
  OBVIOUS
<1>2. WellFormed(es) /\ FlattenSeq(es) = e
  BY <1>1, ParasOf
<1>3. es \in Seq(Seq(Char)) /\ \A i \in 1 .. Len(es) : Line(es[i])
  BY <1>2 DEF WellFormed
<1>4. PICK off : Laid(es, e, off)
  BY <1>2, <1>3, FlattenLaid
<1>5. PICK f : f = Fixed(ResetTabOrderNumber(e))
  OBVIOUS
<1>6. Renewed(e, f)
  BY <1>5, RenewedIs
<1>7. PICK fs : fs = Paras(f)
  OBVIOUS
<1>8. /\ f \in Seq(Char) /\ Len(fs) = Len(es)
      /\ \A k \in 1 .. Len(es) : fs[k] = Fix(WithHead(es[k], ItemNo(es, k)))
  BY <1>1, <1>6, <1>7 DEF Renewed
<1>9. WellFormed(fs) /\ FlattenSeq(fs) = f /\ Cuts(f, AllParapraghRange(f), fs)
  BY <1>7, <1>8, ParasOf
<1>10. fs \in Seq(Seq(Char))
  BY <1>9 DEF WellFormed
<1>11. PICK g : Laid(fs, f, g)
  BY <1>9, <1>10, FlattenLaid
<1>12. PICK m \in 1 .. Len(es) : off[m - 1] < lo + 1 /\ lo + 1 <= off[m]
  <2>1. lo + 1 \in 1 .. Len(e)
    OBVIOUS
  <2>. QED BY <1>3, <1>4, <2>1, LaidSegment
<1>13. off[m - 1] = lo
  <2>1. /\ off[m - 1] \in Nat /\ off[m] \in Nat
        /\ \A p \in (off[m - 1] + 1) .. (off[m] - 1) : e[p].c # "newline"
    BY <1>2, <1>4, Lines
  <2>2. PICK x \in Nat : x = off[m - 1]
    BY <2>1
  <2>3. PICK y \in Nat : y = off[m]
    BY <2>1
  <2>4. x < lo + 1 /\ lo + 1 <= y
    BY <1>12, <2>2, <2>3, Zenon
  <2>5. \A p \in (x + 1) .. (y - 1) : e[p].c # "newline"
    BY <2>1, <2>2, <2>3, Zenon
  <2>6. x = lo
    BY <2>4, <2>5
  <2>. QED BY <2>2, <2>6
<1>14. ASSUME NEW k \in 1 .. (m - 1) PROVE Len(fs[k]) = Len(es[k])
  <2>1. PICK q : q = es[k]
    OBVIOUS
  <2>2. k \in 1 .. Len(es) /\ k \in 0 .. Len(es) /\ m - 1 \in 0 .. Len(es) /\ k <= m - 1 /\ k \in Nat \ {0}
    BY <1>3
  <2>3. Line(q) /\ q \in Seq(Char)
    BY <1>3, <2>1, <2>2 DEF Line
  <2>4. PICK i \in Nat : i = ItemNo(es, k)
    <3>1. ItemNo(es, k) \in 1 .. k
      BY <2>2, ItemNoIs
    <3>. QED BY <2>2, <3>1
  <2>5. PICK w : w = WithHead(q, i)
    OBVIOUS
  <2>6. /\ Line(w) /\ q[1].s \in Style /\ (q[1].s = "none" => w = q)
        /\ q[1].s # "none" => w = Lead(q[1].s, i) \o RemoveHeadTabString(q)
    BY <2>3, <2>5, WithHeadIs
  <2>7. Len(fs[k]) = Len(w)
    <3>1. fs[k] = Fix(w)
      BY <1>8, <2>1, <2>2, <2>4, <2>5
    <3>2. SameText(w, Fix(w))
      BY <2>6, FixIs
    <3>. QED BY <3>1, <3>2 DEF SameText
  <2>8. CASE q[1].s = "none"
    BY <2>1, <2>6, <2>7, <2>8
  <2>9. CASE q[1].s # "none"
    <3>1. PICK x : x = off[k - 1]
      OBVIOUS
    <3>2. PICK y : y = off[k]
      OBVIOUS
    <3>3. /\ x \in Nat /\ y \in Nat /\ x < y /\ y <= Len(e)
          /\ \A p \in (x + 1) .. (y - 1) : e[p].c # "newline"
          /\ (y = Len(e) \/ e[y].c = "newline") /\ (x = 0 \/ e[x].c = "newline")
      BY <1>2, <1>4, <2>2, <3>1, <3>2, Lines
    <3>4. LineAt(e, x, x, x, y)
      BY <3>3 DEF LineAt
    <3>5. y <= lo
      <4>1. off[k] <= off[m - 1]
        BY <1>3, <1>4, <2>2, LaidRises
      <4>. QED BY <1>13, <3>2, <4>1
    <3>6. PieceOf(q, Char, e, x, y) /\ Cut(e, x, y) = q
      BY <1>3, <1>4, <2>1, <2>2, <3>1, <3>2, LaidPiece
    <3>7. e[x + 1] = q[1]
      BY <3>3, <3>6 DEF PieceOf
    <3>8. HeadLength(q) = 3
      BY <2>9, <3>3, <3>4, <3>5, <3>6, <3>7
    <3>9. PICK b : b = RemoveHeadTabString(q)
      OBVIOUS
    <3>10. PieceOf(b, Char, q, 3, Len(q))
      BY <2>3, <3>8, <3>9, BodyIs
    <3>11. b \in Seq(Char) /\ Len(b) = Len(q) - 3
      BY <3>10 DEF PieceOf
    <3>12. PICK s \in {"ul", "ol"} : s = q[1].s
      BY <2>6, <2>9 DEF Style
    <3>13. w = Lead(s, i) \o b
      BY <2>6, <2>9, <3>9, <3>12
    <3>14. Led(w, s, i, b)
      BY <3>11, <3>13, LedIs
    <3>15. Len(w) = 3 + Len(b)
      BY <3>14 DEF Led
    <3>. QED BY <2>1, <2>3, <2>7, <3>11, <3>15
  <2>. QED BY <2>8, <2>9
<1>15. PICK n \in Nat : n = Len(es)
  BY <1>3
<1>16. /\ off \in [0 .. n -> Nat] /\ off[0] = 0
       /\ \A i \in 1 .. n : off[i] = off[i - 1] + Len(es[i])
  BY <1>4, <1>15 DEF Laid
<1>17. /\ g \in [0 .. n -> Nat] /\ g[0] = 0
       /\ \A i \in 1 .. n : g[i] = g[i - 1] + Len(fs[i])
  BY <1>8, <1>11, <1>15 DEF Laid
<1>. DEFINE K == {k \in Nat : k <= m - 1 => g[k] = off[k]}
<1>18. 0 \in K
  BY <1>16, <1>17
<1>19. ASSUME NEW k \in Nat, k \in K PROVE k + 1 \in K
  <2>. SUFFICES ASSUME k + 1 <= m - 1 PROVE g[k + 1] = off[k + 1]
    OBVIOUS
  <2>1. m \in 1 .. n /\ k + 1 \in 1 .. (m - 1) /\ k + 1 \in 1 .. n /\ (k + 1) - 1 = k /\ g[k] = off[k]
    BY <1>15, <1>19
  <2>2. off[k + 1] = off[k] + Len(es[k + 1]) /\ g[k + 1] = g[k] + Len(fs[k + 1])
    BY <1>16, <1>17, <2>1, Zenon
  <2>3. Len(fs[k + 1]) = Len(es[k + 1])
    BY <1>14, <2>1
  <2>. QED BY <2>1, <2>2, <2>3, Zenon
<1>20. g[m - 1] = lo
  <2>1. m - 1 \in Nat
    OBVIOUS
  <2>2. m - 1 \in K
    <3>. HIDE DEF K
    <3>. QED BY <1>18, <1>19, <2>1, Induction
  <2>. QED BY <1>13, <2>1, <2>2
<1>21. PICK ps : ps = AllParapraghRange(f)
  OBVIOUS
<1>22. TabStyleFor(f, ps[m][1]) = fs[m][1].s
  BY <1>8, <1>9, <1>21 DEF Cuts
<1>23. ps[m][1] = lo
  <2>1. RangesFrom(ps, g, 0, Len(fs))
    BY <1>8, <1>9, <1>11, <1>21, AllRanges
  <2>2. m \in 1 .. (Len(fs) - 0)
    BY <1>3, <1>8
  <2>3. ps[m] = <<g[0 + m - 1], g[0 + m]>> /\ 0 + m - 1 = m - 1
    BY <2>1, <2>2, SMTT(30) DEF RangesFrom
  <2>. QED BY <1>20, <2>3
<1>24. fs[m][1].s = "none"
  <2>1. PICK q : q = es[m]
    OBVIOUS
  <2>2. PICK i \in Nat : i = ItemNo(es, m)
    <3>1. m \in Nat \ {0}
      BY <1>3
    <3>2. ItemNo(es, m) \in 1 .. m
      BY <3>1, ItemNoIs
    <3>. QED BY <3>1, <3>2
  <2>3. Line(q)
    BY <1>3, <2>1
  <2>4. PICK r : r = Fix(WithHead(q, i))
    OBVIOUS
  <2>5. Settled(q, i, r)
    BY <2>3, <2>4, WithHeadStable
  <2>6. r[1].s = q[1].s
    BY <2>5 DEF Settled
  <2>7. fs[m] = r
    BY <1>8, <2>1, <2>2, <2>4
  <2>8. PieceOf(q, Char, e, off[m - 1], off[m])
    BY <1>3, <1>4, <2>1, LaidPiece
  <2>9. 1 \in 1 .. (off[m] - off[m - 1])
    <3>1. off[m] \in Nat
      BY <1>2, <1>4, Lines
    <3>. QED BY <1>12, <1>13, <3>1
  <2>10. q[1] = e[lo + 1]
    BY <1>13, <2>8, <2>9 DEF PieceOf
  <2>. QED BY <2>6, <2>7, <2>10
<1>. QED BY <1>5, <1>22, <1>23, <1>24

\* deleteTab in an item without text ends the list there: the line break stays where the
\* head began and is in no list.
LEMMA ListEnds ==
    ASSUME TypeOK, Headed, NEW lo \in Nat, HeadAt(text, lo), lo = 0 \/ text[lo].c = "newline",
           lo + 4 <= Len(text), text[lo + 4].c = "newline"
    PROVE  TabStyleFor(Fixed(ResetTabOrderNumber(Unlisted(text, lo, lo + 3))), lo) = "none"
<1>0. text \in Seq(Char) /\ Len(text) \in Nat
  BY DEF TypeOK
<1>1. PICK d : d = Replaced(text, lo, lo + 3, <<>>)
  OBVIOUS
<1>2. PICK e : e = Unlisted(text, lo, lo + 3)
  OBVIOUS
<1>3. Within(text, lo, lo + 3)
  BY <1>0 DEF Within
<1>4. Placed(d, text, lo, lo + 3, <<>>)
  BY <1>0, <1>1, <1>3, UnlistedIs
<1>5. Recoloured(e, d, ParapraghRange(d, lo, lo)[1], ParapraghRange(d, lo, lo)[2], "none")
  BY <1>0, <1>1, <1>2, <1>3, UnlistedIs
<1>6. /\ d \in Seq(Char) /\ Len(d) = Len(text) - 3
      /\ \A i \in 1 .. lo : d[i] = text[i]
      /\ d[lo + 1] = text[lo + 4]
  <2>1. Len(<<>>) = 0
    OBVIOUS
  <2>2. /\ d \in Seq(Char) /\ Len(d) = lo + 0 + (Len(text) - (lo + 3))
        /\ \A i \in 1 .. lo : d[i] = text[i]
        /\ \A i \in 1 .. (Len(text) - (lo + 3)) : d[lo + 0 + i] = text[(lo + 3) + i]
    BY <1>4, <2>1 DEF Placed
  <2>3. 1 \in 1 .. (Len(text) - (lo + 3)) /\ lo + 0 + 1 = lo + 1 /\ (lo + 3) + 1 = lo + 4
    BY <1>0
  <2>4. d[lo + 0 + 1] = text[(lo + 3) + 1]
    BY <2>2, <2>3
  <2>5. lo + 0 + (Len(text) - (lo + 3)) = Len(text) - 3
    BY <1>0
  <2>. QED BY <2>2, <2>3, <2>4, <2>5
<1>7. lo = 0 \/ d[lo].c = "newline"
  BY <1>6
<1>8. ParapraghRange(d, lo, lo) = <<lo, lo + 1>>
  <2>1. LastOf(lo, lo) = lo
    BY DEF LastOf
  <2>2. lo + 1 <= Len(d) /\ lo <= Len(d) /\ lo <= lo /\ lo + 1 \in Nat
    BY <1>0, <1>6
  <2>3. LineAt(d, lo, lo, lo, lo + 1)
    BY <1>6, <1>7, <2>2 DEF LineAt
  <2>. QED BY <1>6, <2>1, <2>2, <2>3, RangeIs
<1>9. Recoloured(e, d, lo, lo + 1, "none")
  BY <1>5, <1>8
<1>10. /\ e \in Seq(Char) /\ Len(e) = Len(text) - 3
       /\ \A i \in 1 .. lo : e[i] = text[i]
       /\ e[lo + 1].s = "none"
  <2>1. /\ SameText(d, e) /\ (\A i \in 1 .. lo : e[i] = d[i])
        /\ \A i \in (lo + 1) .. (lo + 1) : e[i].s = "none"
    BY <1>9 DEF Recoloured
  <2>2. e \in Seq(Char) /\ Len(e) = Len(d)
    BY <2>1 DEF SameText
  <2>3. lo + 1 \in (lo + 1) .. (lo + 1)
    OBVIOUS
  <2>. QED BY <1>6, <2>1, <2>2, <2>3
<1>11. lo < Len(e) /\ (lo = 0 \/ e[lo].c = "newline")
  BY <1>0, <1>10
<1>12. ASSUME NEW x \in Nat, NEW y \in Nat, x < y, y <= lo, LineAt(e, x, x, x, y), e[x + 1].s # "none"
       PROVE  HeadLength(Cut(e, x, y)) = 3
  <2>0. x < y /\ y <= lo
    BY <1>12
  <2>1. /\ x = 0 \/ e[x].c = "newline"
        /\ e[y].c = "newline"
        /\ \A p \in (x + 1) .. (y - 1) : e[p].c # "newline"
    BY <1>0, <1>10, <1>11, <1>12 DEF LineAt
  <2>2. /\ x = 0 \/ text[x].c = "newline"
        /\ text[y].c = "newline"
        /\ \A p \in (x + 1) .. (y - 1) : text[p].c # "newline"
    <3>1. ASSUME NEW p \in Nat \ {0}, p <= y PROVE e[p] = text[p]
      <4>1. p \in 1 .. lo
        BY <2>0, <3>1
      <4>. QED BY <1>10, <4>1
    <3>2. x = 0 \/ text[x].c = "newline"
      BY <2>0, <2>1, <3>1
    <3>3. text[y].c = "newline"
      BY <2>0, <2>1, <3>1
    <3>4. ASSUME NEW p \in (x + 1) .. (y - 1) PROVE text[p].c # "newline"
      <4>1. p \in Nat \ {0} /\ p <= y
        BY <2>0
      <4>2. e[p] = text[p]
        BY <3>1, <4>1
      <4>3. e[p].c # "newline"
        BY <2>1, <3>4
      <4>. QED BY <4>2, <4>3
    <3>. QED BY <3>2, <3>3, <3>4
  <2>3. LineAt(text, x, x, x, y) /\ x < Len(text) /\ y <= Len(text)
    BY <1>0, <1>12, <2>2 DEF LineAt
  <2>4. PICK r : r = <<x, y>>
    OBVIOUS
  <2>5. r \in Range(AllParapraghRange(text)) /\ r[1] = x /\ r[2] = y
    BY <1>0, <2>3, <2>4, Listed
  <2>6. text[x + 1].s # "none"
    <3>1. x + 1 \in 1 .. lo
      BY <2>0
    <3>. QED BY <1>10, <1>12, <3>1
  <2>7. HeadLength(Cut(text, x, y)) = 3
    BY <2>5, <2>6 DEF Headed
  <2>8. x + 3 <= y /\ HeadAt(text, x)
    <3>1. x <= y
      BY <1>12
    <3>. QED BY <1>0, <2>3, <2>7, <3>1, HeadPiece
  <2>9. HeadAt(e, x)
    <3>1. x + 1 \in 1 .. lo /\ x + 2 \in 1 .. lo /\ x + 3 \in 1 .. lo /\ x + 3 <= Len(e)
      BY <1>0, <1>10, <1>11, <2>0, <2>8
    <3>2. e[x + 1] = text[x + 1] /\ e[x + 2] = text[x + 2] /\ e[x + 3] = text[x + 3]
      BY <1>10, <3>1
    <3>. QED BY <2>8, <3>1, <3>2 DEF HeadAt
  <2>10. x <= y /\ y <= Len(e)
    BY <1>10, <1>11, <1>12
  <2>. QED BY <1>10, <2>8, <2>9, <2>10, HeadPiece
<1>13. TabStyleFor(Fixed(ResetTabOrderNumber(e)), lo) = "none"
  BY <1>10, <1>11, <1>12, KeepsPlace
<1>. QED BY <1>2, <1>13

\* Where the caret is when the return key meets an item without text: right behind the
\* head and before the line break.
LEMMA EmptyItem ==
    ASSUME TypeOK, Headed, NEW a \in Nat, a <= Len(text), Selectable(a, a), TabStyleFor(text, a) # "none",
           NEW lo \in Nat, NEW hi \in Nat, LineAt(text, a, a, lo, hi), ParapraghRange(text, a, a) = <<lo, hi>>,
           NEW item, item = RemoveHeadTabString(Cut(text, lo, hi)), Len(item) = 1, item[1].c = "newline"
    PROVE  /\ a = lo + 3 /\ HeadAt(text, lo) /\ (lo = 0 \/ text[lo].c = "newline")
           /\ lo + 4 <= Len(text) /\ text[lo + 4].c = "newline"
<1>0. text \in Seq(Char) /\ Len(text) \in Nat
  BY DEF TypeOK
<1>1. PICK q : q = Cut(text, lo, hi)
  OBVIOUS
<1>2. lo <= a /\ hi <= Len(text) /\ a <= hi
  BY <1>0 DEF LineAt
<1>3. lo <= hi
  BY <1>2
<1>4. PieceOf(q, Char, text, lo, hi)
  BY <1>0, <1>1, <1>2, <1>3, CutIs
<1>5. q \in Seq(Char) /\ Len(q) = hi - lo /\ \A i \in 1 .. (hi - lo) : q[i] = text[lo + i]
  BY <1>4 DEF PieceOf
<1>6. PICK h : h = HeadLength(q)
  OBVIOUS
<1>7. h \in {0, 3} /\ (h = 3 <=> (lo + 3 <= hi /\ HeadAt(text, lo)))
  BY <1>0, <1>1, <1>2, <1>3, <1>6, HeadPiece
<1>8. PieceOf(item, Char, q, h, Len(q))
  BY <1>1, <1>5, <1>6, BodyIs
<1>9. Len(item) = Len(q) - h /\ \A i \in 1 .. (Len(q) - h) : item[i] = q[h + i]
  BY <1>8 DEF PieceOf
<1>10. hi = lo + h + 1
  <2>1. Len(q) = hi - lo /\ Len(item) = Len(q) - h
    BY <1>5, <1>9
  <2>2. (hi - lo) - h = 1
    BY <2>1, Zenon
  <2>3. h \in Nat
    BY <1>7
  <2>. QED BY <2>2, <2>3
<1>11. text[hi].c = "newline"
  <2>1. 1 \in 1 .. (Len(q) - h) /\ h + 1 \in 1 .. (hi - lo) /\ lo + (h + 1) = hi
    BY <1>5, <1>7, <1>10
  <2>2. item[1] = q[h + 1] /\ q[h + 1] = text[lo + (h + 1)]
    BY <1>5, <1>9, <2>1
  <2>. QED BY <2>1, <2>2
<1>12. a < hi
  <2>1. SUFFICES ASSUME a = hi PROVE FALSE
    BY <1>2
  <2>2. hi \in (lo + 1) .. a
    BY <1>7, <1>10, <2>1
  <2>. QED BY <1>11, <2>2 DEF LineAt
<1>13. a - lo >= h
  <2>1. a # Len(text)
    BY <1>0, <1>2, <1>12
  <2>2. ParapraghRange(text, a, a)[1] = lo /\ ParapraghRange(text, a, a)[2] = hi
    OBVIOUS
  <2>3. a - ParapraghRange(text, a, a)[1] >= TabStyleLengthFor(text, a, a)
    BY <2>1 DEF Selectable
  <2>4. TabStyleLengthFor(text, a, a) = h
    BY <1>1, <1>6, <2>2 DEF TabStyleLengthFor
  <2>. QED BY <2>2, <2>3, <2>4
<1>14. a = lo + h
  BY <1>7, <1>10, <1>12, <1>13
<1>15. h = 3
  <2>1. SUFFICES ASSUME h = 0 PROVE FALSE
    BY <1>7
  <2>2. a = lo /\ hi = lo + 1 /\ lo < Len(text)
    BY <1>0, <1>2, <1>10, <1>14, <2>1
  <2>3. PICK r : r = <<lo, hi>>
    OBVIOUS
  <2>4. r \in Range(AllParapraghRange(text)) /\ r[1] = lo /\ r[2] = hi
    <3>1. LineAt(text, lo, lo, lo, hi)
      BY <2>2
    <3>. QED BY <1>0, <2>2, <2>3, <3>1, Listed
  <2>5. TabStyleFor(text, lo) = text[lo + 1].s
    <3>1. PICK S : S = {lo + 1, Len(text)}
      OBVIOUS
    <3>2. S \subseteq Nat /\ S # {}
      BY <1>0, <3>1
    <3>3. Min(S) \in S /\ \A x \in S : Min(S) <= x
      BY <3>2, MinIs
    <3>4. Min(S) = lo + 1
      BY <1>0, <2>2, <3>1, <3>3
    <3>5. text # <<>>
      BY <2>2
    <3>. QED BY <3>1, <3>4, <3>5, Zenon DEF TabStyleFor
  <2>6. HeadLength(Cut(text, lo, hi)) = 3
    BY <2>2, <2>4, <2>5 DEF Headed
  <2>7. h = 3
    BY <1>1, <1>6, <2>6, Zenon
  <2>. QED BY <2>1, <2>7
<1>16. lo = 0 \/ text[lo].c = "newline"
  BY DEF LineAt
<1>. QED BY <1>2, <1>7, <1>10, <1>11, <1>14, <1>15, <1>16

\* The style of a line break does not show in the letters and line breaks.
LEMMA PlainNewline ==
    ASSUME NEW d \in Seq(Char), NEW a, NEW b, Within(d, a, b), NEW s \in Style
    PROVE  Plain(Replaced(d, a, b, <<Newline(s)>>)) = Plain(Replaced(d, a, b, <<Newline("none")>>))
<1>1. "none" \in Style
  BY DEF Style
<1>2. PICK x : x = <<Newline(s)>>
  OBVIOUS
<1>3. PICK y : y = <<Newline("none")>>
  OBVIOUS
<1>4. x \in Seq(Char) /\ y \in Seq(Char)
  BY <1>1, <1>2, <1>3, CharsAre
<1>5. Plain(x) = Plain(y)
  <2>1. SameText(y, x)
    BY <1>2, <1>3, <1>4 DEF SameText, Newline
  <2>. QED BY <1>4, <2>1, PlainSame
<1>6. Plain(Replaced(d, a, b, x)) = (Plain(Cut(d, 0, a)) \o Plain(x)) \o Plain(Cut(d, b, Len(d)))
  BY <1>4, PlainReplaced
<1>7. Plain(Replaced(d, a, b, y)) = (Plain(Cut(d, 0, a)) \o Plain(y)) \o Plain(Cut(d, b, Len(d)))
  BY <1>4, PlainReplaced
<1>. QED BY <1>2, <1>3, <1>5, <1>6, <1>7, Zenon

\* Taking a tab out of the text takes no letter.
LEMMA PlainWithoutTab ==
    ASSUME NEW d \in Seq(Char), NEW a \in Nat, a + 1 <= Len(d), d[a + 1].c = "tab"
    PROVE  Plain(Replaced(d, a, a + 1, <<>>)) = Plain(d)
<1>1. PICK new : new = <<>>
  OBVIOUS
<1>2. new \in Seq(Char) /\ new \in Seq(LN) /\ Plain(new) = <<>>
  BY <1>1, PlainEmpty
<1>3. Within(d, a, a + 1)
  BY DEF Within
<1>4. PICK x : x = Cut(d, 0, a)
  OBVIOUS
<1>5. PICK y : y = Cut(d, a, a + 1)
  OBVIOUS
<1>6. PICK z : z = Cut(d, a + 1, Len(d))
  OBVIOUS
<1>7. PICK t : t = Cut(d, a, Len(d))
  OBVIOUS
<1>8. PICK n \in Nat : n = Len(d)
  OBVIOUS
<1>9. 0 \in Nat /\ 0 <= a /\ a <= a + 1 /\ a <= n /\ a + 1 <= n /\ n <= Len(d) /\ a + 1 \in Nat
  <2>1. a + 1 <= n /\ n <= Len(d)
    BY <1>8
  <2>. QED BY <2>1
<1>10. Cut(d, 0, n) = x \o t
  <2>1. Adjoin(d, 0, a, n)
    BY <1>9, CutJoin
  <2>. QED BY <1>4, <1>7, <1>8, <2>1, Zenon DEF Adjoin
<1>11. t = y \o z
  <2>1. Adjoin(d, a, a + 1, n)
    BY <1>9, CutJoin
  <2>. QED BY <1>5, <1>6, <1>7, <1>8, <2>1, Zenon DEF Adjoin
<1>12. Cut(d, 0, n) = d
  BY <1>8 DEF Cut
<1>13. /\ PieceOf(x, Char, d, 0, a) /\ PieceOf(y, Char, d, a, a + 1)
       /\ PieceOf(z, Char, d, a + 1, n) /\ PieceOf(t, Char, d, a, n)
  BY <1>4, <1>5, <1>6, <1>7, <1>8, <1>9, CutIs
<1>14. x \in Seq(Char) /\ z \in Seq(Char) /\ t \in Seq(Char)
  BY <1>13 DEF PieceOf
<1>15. y \in Seq(Char) /\ Len(y) = 1 /\ y[1] = d[a + 1]
  BY <1>13 DEF PieceOf
<1>16. Plain(y) = <<>>
  <2>1. \A i \in 1 .. Len(y) : y[i].c \notin LN
    BY <1>15 DEF LN
  <2>. QED BY <1>15, <2>1, PlainNone
<1>17. Plain(d) = Plain(x) \o (Plain(y) \o Plain(z))
  <2>1. Plain(x \o t) = Plain(x) \o Plain(t) /\ Plain(y \o z) = Plain(y) \o Plain(z)
    BY <1>14, <1>15, PlainConcat
  <2>. QED BY <1>10, <1>11, <1>12, <2>1, Zenon
<1>18. Plain(Replaced(d, a, a + 1, new)) = (Plain(x) \o Plain(new)) \o Plain(z)
  BY <1>2, <1>3, <1>4, <1>6, PlainReplaced
<1>19. Plain(x) \in Seq(LN) /\ Plain(z) \in Seq(LN)
  BY <1>14, PlainType
<1>20. Plain(x) \o <<>> = Plain(x) /\ <<>> \o Plain(z) = Plain(z)
  BY <1>19
<1>. QED BY <1>1, <1>2, <1>16, <1>17, <1>18, <1>20, Zenon

\* The return key: a line break, or the end of a list.
Returned(o, a, b) ==
    /\ ~o.crashed
    /\ \/ Plain(o.text) = Plain(Replaced(text, a, b, <<Newline("none")>>))
       \/ a = b /\ Plain(o.text) = Plain(text) /\ TabStyleFor(o.text, a - 3) = "none"

\* The return key writes one line break, or ends the list and writes nothing.
LEMMA ReturnKeyWrote ==
    ASSUME TypeOK, Headed, NEW r \in Selection
    PROVE  Returned(ReturnKey(r[1], r[2]), r[1], r[2])
<1>0. text \in Seq(Char) /\ Len(text) \in Nat
  BY DEF TypeOK
<1>1. PICK a : a = r[1]
  OBVIOUS
<1>2. PICK b : b = r[2]
  OBVIOUS
<1>3. Within(text, a, b) /\ TypingStyle(a) \in Style
  BY <1>1, <1>2, SelectionIs
<1>4. Selectable(a, b)
  BY <1>1, <1>2 DEF Selection
<1>5. a \in Nat /\ b \in Nat /\ a <= b /\ b <= Len(text) /\ a <= Len(text)
  BY <1>0, <1>3 DEF Within
<1>6. PICK new : new = <<Newline(TypingStyle(a))>>
  OBVIOUS
<1>7. new \in Seq(Char)
  BY <1>3, <1>6, CharsAre
<1>8. PICK o : o = ReturnKey(a, b)
  OBVIOUS
<1>9. PICK lo \in Nat, hi \in Nat :
         LineAt(text, a, LastOf(a, a), lo, hi) /\ ParapraghRange(text, a, a) = <<lo, hi>>
  <2>1. a <= a
    BY <1>5
  <2>. QED BY <1>0, <1>5, <2>1, RangeExists
<1>10. LineAt(text, a, a, lo, hi)
  <2>1. LastOf(a, a) = a
    BY <1>5 DEF LastOf
  <2>. QED BY <1>9, <2>1
<1>11. ParapraghRange(text, a, a)[1] = lo /\ ParapraghRange(text, a, a)[2] = hi
  BY <1>9
<1>12. PICK item : item = RemoveHeadTabString(Cut(text, lo, hi))
  OBVIOUS
<1>13. CASE TabStyleFor(text, a) # "none" /\ ~(a < b) /\ Len(item) = 1 /\ item[1].c = "newline"
  <2>1. a = b
    BY <1>5, <1>13
  <2>2. /\ a = lo + 3 /\ HeadAt(text, lo) /\ (lo = 0 \/ text[lo].c = "newline")
        /\ lo + 4 <= Len(text) /\ text[lo + 4].c = "newline"
    <3>1. Selectable(a, a)
      BY <1>4, <2>1
    <3>. QED BY <1>5, <1>9, <1>10, <1>12, <1>13, <3>1, EmptyItem
  <2>3. o = DeleteTab(a - 1, a)
    <3>1. ReturnKey(a, b) = IF TabStyleFor(text, a) = "none" \/ a < b THEN Default(a, b, new)
                            ELSE IF Len(item) = 1 /\ item[1].c = "newline" THEN DeleteTab(a - 1, a)
                            ELSE Insert(a, b, new)
      BY <1>6, <1>11, <1>12, Zenon DEF ReturnKey
    <3>. QED BY <1>8, <1>13, <3>1, Zenon
  <2>4. a - 1 = lo + 2 /\ a = lo + 3 /\ a - 3 = lo
    BY <2>2
  <2>5. Within(text, lo + 2, lo + 3) /\ lo + 2 < lo + 3
    BY <1>0, <2>2 DEF Within
  <2>6. TabStyleLengthFor(text, lo + 2, lo + 3) = 3
    <3>1. PICK x \in Nat : x = lo + 2
      OBVIOUS
    <3>2. PICK y \in Nat : y = lo + 3
      OBVIOUS
    <3>3. lo <= x /\ x <= lo + 3 /\ x <= y /\ y <= Len(text)
      BY <1>0, <2>2, <3>1, <3>2
    <3>4. HeadAt(text, lo) /\ (lo = 0 \/ text[lo].c = "newline")
      BY <2>2
    <3>5. TabStyleLengthFor(text, x, y) = 3
      BY <1>0, <3>3, <3>4, InHead
    <3>. QED BY <3>1, <3>2, <3>5
  <2>7. /\ DeleteTab(lo + 2, lo + 3) = Outcome(ResetTabOrderNumber(Unlisted(text, lo, lo + 3)), "none", TRUE)
        /\ Wrote(DeleteTab(lo + 2, lo + 3), Replaced(text, lo + 2, lo + 3, <<>>))
    BY <2>2, <2>5, <2>6, DeleteTabWrote
  <2>8. o = DeleteTab(lo + 2, lo + 3)
    BY <2>3, <2>4, Zenon
  <2>9. TabStyleFor(o.text, a - 3) = "none"
    <3>1. TabStyleFor(Fixed(ResetTabOrderNumber(Unlisted(text, lo, lo + 3))), lo) = "none"
      BY <2>2, ListEnds
    <3>2. o.text = Fixed(ResetTabOrderNumber(Unlisted(text, lo, lo + 3)))
      BY <2>7, <2>8 DEF Outcome
    <3>. QED BY <2>4, <3>1, <3>2, Zenon
  <2>10. ~o.crashed /\ Plain(o.text) = Plain(Replaced(text, lo + 2, lo + 3, <<>>))
    BY <2>7, <2>8 DEF Wrote
  <2>11. Plain(Replaced(text, lo + 2, lo + 3, <<>>)) = Plain(text)
    <3>1. PICK c \in Nat : c = lo + 2
      OBVIOUS
    <3>0. PICK n \in Nat : n = Len(text)
      BY <1>0
    <3>0a. lo + 4 <= n
      BY <2>2, <3>0, Zenon
    <3>0b. c + 1 = lo + 3 /\ c + 1 <= n
      BY <3>0a, <3>1
    <3>2. c + 1 = lo + 3 /\ c + 1 <= Len(text)
      BY <3>0, <3>0b, Zenon
    <3>3. text[c + 1].c = "tab"
      BY <2>2, <3>2 DEF HeadAt
    <3>4. Plain(Replaced(text, c, c + 1, <<>>)) = Plain(text)
      BY <1>0, <3>2, <3>3, PlainWithoutTab
    <3>. QED BY <3>1, <3>2, <3>4, Zenon
  <2>. QED BY <1>1, <1>2, <1>8, <2>1, <2>9, <2>10, <2>11, Zenon DEF Returned
<1>14. CASE ~(TabStyleFor(text, a) # "none" /\ ~(a < b) /\ Len(item) = 1 /\ item[1].c = "newline")
  <2>1. ReturnKey(a, b) = IF TabStyleFor(text, a) = "none" \/ a < b THEN Default(a, b, new)
                          ELSE IF Len(item) = 1 /\ item[1].c = "newline" THEN DeleteTab(a - 1, a)
                          ELSE Insert(a, b, new)
    BY <1>6, <1>11, <1>12, Zenon DEF ReturnKey
  <2>2. o = Default(a, b, new) \/ o = Insert(a, b, new)
    BY <1>8, <1>14, <2>1, Zenon
  <2>3. Wrote(Default(a, b, new), Replaced(text, a, b, new)) /\ Wrote(Insert(a, b, new), Replaced(text, a, b, new))
    BY <1>3, <1>7, EditWrote
  <2>4. Wrote(o, Replaced(text, a, b, new))
    BY <2>2, <2>3, Zenon
  <2>5. Plain(Replaced(text, a, b, new)) = Plain(Replaced(text, a, b, <<Newline("none")>>))
    BY <1>0, <1>3, <1>6, PlainNewline
  <2>. QED BY <1>1, <1>2, <1>8, <2>4, <2>5, Zenon DEF Returned, Wrote
<1>. QED BY <1>13, <1>14

\* The delete key removes the selected letters and line breaks, the return key puts one
\* line break there or ends the list, no other text changes and nothing is raised: the
\* arithmetic of deleteTab is right for every text and selection.
THEOREM KeysAlwaysKeepText == Spec => []KeysKeepText
<1>1. ListsInv => KeysKeepText
  <2>. SUFFICES ASSUME ListsInv PROVE KeysKeepText
    OBVIOUS
  <2>0. TypeOK
    BY DEF ListsInv
  <2>1. ASSUME NEW r \in Deletable, InBody(r[1]) \/ InBody(r[1] + 1)
        PROVE  ~DeleteKey(r[1], r[2]).crashed
               /\ Plain(DeleteKey(r[1], r[2]).text) = Plain(Replaced(text, r[1], r[2], <<>>))
    <3>1. Wrote(DeleteKey(r[1], r[2]), Replaced(text, r[1], r[2], <<>>))
      BY <2>0, <2>1, DeleteKeyWrote
    <3>. QED BY <3>1 DEF Wrote
  <2>2. ASSUME NEW r \in Selection, Headed
        PROVE  Returned(ReturnKey(r[1], r[2]), r[1], r[2])
    BY <2>0, <2>2, ReturnKeyWrote
  <2>. QED BY <2>1, <2>2, Zenon DEF KeysKeepText, Returned
<1>. QED BY <1>1, ListsAlways, PTL
-----------------------------------------------------------------------------
(* The paragraphs that a selection touches.                                *)

\* The elements of q at the indices in I, of which x is the first and y the last.
Picked(w, S, q, I, x, y) ==
    /\ w \in Seq(S) /\ Range(w) = {q[i] : i \in I}
    /\ w # <<>> /\ Head(w) = q[x] /\ Last(w) = q[y]

\* One more element at the end.
LEMMA RangeAppend ==
    ASSUME NEW S, NEW w \in Seq(S), NEW e \in S
    PROVE  /\ Range(Append(w, e)) = Range(w) \cup {e}
           /\ Append(w, e) \in Seq(S) /\ Append(w, e) # <<>> /\ Last(Append(w, e)) = e
           /\ Head(Append(w, e)) = IF w = <<>> THEN e ELSE Head(w)
<1>1. PICK n \in Nat : n = Len(w)
  OBVIOUS
<1>2. PICK v : v = Append(w, e)
  OBVIOUS
<1>3. v \in Seq(S) /\ Len(v) = n + 1 /\ v[n + 1] = e /\ \A i \in 1 .. n : v[i] = w[i]
  BY <1>1, <1>2
<1>4. DOMAIN v = 1 .. (n + 1) /\ DOMAIN w = 1 .. n
  BY <1>1, <1>3
<1>5. Range(v) = Range(w) \cup {e}
  <2>1. ASSUME NEW z \in Range(v) PROVE z \in Range(w) \cup {e}
    <3>1. PICK i \in 1 .. (n + 1) : z = v[i]
      BY <1>4 DEF Range
    <3>2. CASE i = n + 1
      BY <1>3, <3>1, <3>2
    <3>3. CASE i # n + 1
      <4>1. i \in 1 .. n
        BY <3>3
      <4>. QED BY <1>3, <1>4, <3>1, <4>1 DEF Range
    <3>. QED BY <3>2, <3>3
  <2>2. ASSUME NEW z \in Range(w) PROVE z \in Range(v)
    <3>1. PICK i \in 1 .. n : z = w[i]
      BY <1>4 DEF Range
    <3>2. i \in 1 .. (n + 1) /\ z = v[i]
      BY <1>3, <3>1
    <3>. QED BY <1>4, <3>2 DEF Range
  <2>3. e \in Range(v)
    <3>1. n + 1 \in 1 .. (n + 1)
      OBVIOUS
    <3>. QED BY <1>3, <1>4, <3>1 DEF Range
  <2>. QED BY <2>1, <2>2, <2>3
<1>6. Append(w, e) # <<>> /\ Last(Append(w, e)) = e
  BY AppendLast
<1>7. Head(v) = IF w = <<>> THEN e ELSE Head(w)
  <2>1. Head(v) = v[1]
    BY <1>2, <1>3, <1>6
  <2>2. CASE w = <<>>
    BY <1>1, <1>3, <2>1, <2>2
  <2>3. CASE w # <<>>
    <3>1. 1 \in 1 .. n /\ Head(w) = w[1]
      BY <1>1, <2>3
    <3>. QED BY <1>3, <2>1, <2>3, <3>1
  <2>. QED BY <2>2, <2>3
<1>. QED BY <1>2, <1>3, <1>5, <1>6, <1>7

\* filter with an interval of indices.
LEMMA PickIs ==
    ASSUME NEW S, NEW q \in Seq(S), NEW x \in Nat \ {0}, NEW y \in Nat, x <= y, y <= Len(q)
    PROVE  Picked(Pick(q, x .. y), S, q, x .. y, x, y)
<1>1. PICK N \in Nat : N = Len(q)
  OBVIOUS
<1>2. PICK I : I = x .. y
  OBVIOUS
<1>3. PICK f : Picks(f, q, I) /\ f \in [0 .. N -> Seq(S)] /\ Pick(q, I) = f[N]
  BY <1>1, PickWalk
<1>4. f[0] = <<>>
  <2>1. 0 \in 0 .. Len(q)
    BY <1>1
  <2>. QED BY <1>3, <2>1, Zenon DEF Picks
<1>5. ASSUME NEW i \in 1 .. N PROVE f[i] = IF i \in I THEN Append(f[i - 1], q[i]) ELSE f[i - 1]
  <2>1. i \in 0 .. Len(q) /\ i # 0
    BY <1>1
  <2>. QED BY <1>3, <2>1, Zenon DEF Picks
<1>. DEFINE P(i) == /\ i < x => f[i] = <<>>
                    /\ x <= i => Picked(f[i], S, q, x .. (IF i <= y THEN i ELSE y), x, IF i <= y THEN i ELSE y)
            K == {i \in Nat : i <= N => P(i)}
<1>6. 0 \in K
  BY <1>4
<1>7. ASSUME NEW i \in Nat, i \in K PROVE i + 1 \in K
  <2>. SUFFICES ASSUME i + 1 <= N PROVE P(i + 1)
    OBVIOUS
  <2>1. P(i)
    BY <1>7
  <2>2. i + 1 \in 1 .. N /\ (i + 1) - 1 = i /\ i \in 0 .. N /\ N = Len(q)
    BY <1>1
  <2>3. f[i + 1] = IF i + 1 \in I THEN Append(f[i], q[i + 1]) ELSE f[i]
    BY <1>5, <2>2
  <2>4. f[i] \in Seq(S)
    BY <1>3, <2>2
  <2>5. q[i + 1] \in S
    BY <2>2
  <2>6. CASE i + 1 < x
    BY <1>2, <2>1, <2>3, <2>6
  <2>7. CASE i + 1 > y
    <3>1. x <= i /\ ~(i + 1 \in I) /\ ~(i + 1 <= y) /\ ~(i + 1 < x)
      BY <1>2, <2>7
    <3>2. (IF i <= y THEN i ELSE y) = y
      BY <2>7
    <3>3. Picked(f[i], S, q, x .. y, x, y)
      BY <2>1, <3>1, <3>2, Zenon
    <3>. QED BY <2>3, <3>1, <3>3, Zenon
  <2>8. CASE x <= i + 1 /\ i + 1 <= y
    <3>1. i + 1 \in I
      BY <1>2, <2>8
    <3>2. PICK w : w = f[i]
      OBVIOUS
    <3>3. PICK e : e = q[i + 1]
      OBVIOUS
    <3>4. f[i + 1] = Append(w, e) /\ w \in Seq(S) /\ e \in S
      BY <2>3, <2>4, <2>5, <3>1, <3>2, <3>3
    <3>5. PICK v : v = Append(w, e)
      OBVIOUS
    <3>6. /\ Range(v) = Range(w) \cup {e} /\ v \in Seq(S) /\ v # <<>> /\ Last(v) = e
          /\ Head(v) = IF w = <<>> THEN e ELSE Head(w)
      BY <3>4, <3>5, RangeAppend
    <3>7. CASE i + 1 = x
      <4>1. w = <<>>
        BY <2>1, <3>2, <3>7
      <4>2. Range(w) = {}
        BY <4>1 DEF Range
      <4>3. Range(v) = {q[k] : k \in x .. (i + 1)}
        <5>1. x .. (i + 1) = {i + 1}
          BY <3>7
        <5>. QED BY <3>3, <3>6, <4>2, <5>1
      <4>4. Head(v) = q[x] /\ Last(v) = q[i + 1]
        BY <3>3, <3>6, <3>7, <4>1
      <4>5. Picked(v, S, q, x .. (i + 1), x, i + 1)
        BY <3>6, <4>3, <4>4 DEF Picked
      <4>. QED BY <2>8, <3>4, <3>5, <3>7, <4>5
    <3>8. CASE i + 1 # x
      <4>1. x <= i /\ i <= y /\ ~(i + 1 < x)
        BY <2>8, <3>8
      <4>2. Picked(w, S, q, x .. i, x, i)
        BY <2>1, <3>2, <4>1
      <4>3. Range(w) = {q[k] : k \in x .. i} /\ w # <<>> /\ Head(w) = q[x]
        BY <4>2 DEF Picked
      <4>4. Range(v) = {q[k] : k \in x .. (i + 1)}
        <5>1. x .. (i + 1) = (x .. i) \cup {i + 1}
          BY <4>1
        <5>. QED BY <3>3, <3>6, <4>3, <5>1
      <4>5. Picked(v, S, q, x .. (i + 1), x, i + 1)
        BY <3>3, <3>6, <4>3, <4>4 DEF Picked
      <4>. QED BY <2>8, <3>4, <3>5, <4>1, <4>5
    <3>. QED BY <3>7, <3>8
  <2>. QED BY <2>6, <2>7, <2>8
<1>8. P(N)
  <2>1. N \in K
    <3>. HIDE DEF K
    <3>. QED BY <1>6, <1>7, Induction
  <2>. QED BY <2>1
<1>9. Picked(f[N], S, q, x .. y, x, y)
  <2>1. x <= N /\ (IF N <= y THEN N ELSE y) = y
    BY <1>1
  <2>. QED BY <1>8, <2>1
<1>. QED BY <1>2, <1>3, <1>9

\* A text d with its paragraphs and their offsets.
Parted(d, qs, off) == d \in Seq(Char) /\ WellFormed(qs) /\ Laid(qs, d, off) /\ Paras(d) = qs

\* Every text is made of paragraphs.
LEMMA PartedIs ==
    ASSUME NEW d \in Seq(Char)
    PROVE  \E off : Parted(d, Paras(d), off)
<1>1. PICK qs : qs = Paras(d)
  OBVIOUS
<1>2. WellFormed(qs) /\ FlattenSeq(qs) = d
  BY <1>1, ParasOf
<1>3. qs \in Seq(Seq(Char))
  BY <1>2 DEF WellFormed
<1>4. \E off : Laid(qs, d, off)
  BY <1>2, <1>3, FlattenLaid
<1>. QED BY <1>1, <1>2, <1>4 DEF Parted

\* Every paragraph has a character, so the offsets rise strictly.
LEMMA PartedRises ==
    ASSUME NEW d, NEW qs, NEW off, Parted(d, qs, off)
    PROVE  /\ Len(qs) \in Nat /\ Len(d) \in Nat /\ off \in [0 .. Len(qs) -> Nat]
           /\ off[0] = 0 /\ off[Len(qs)] = Len(d)
           /\ \A i, j \in 0 .. Len(qs) : i < j => off[i] < off[j]
           /\ \A i, j \in 0 .. Len(qs) : i <= j => off[i] <= off[j]
<1>1. d \in Seq(Char) /\ WellFormed(qs) /\ Laid(qs, d, off)
  BY DEF Parted
<1>2. qs \in Seq(Seq(Char))
  BY <1>1 DEF WellFormed
<1>3. PICK n \in Nat : n = Len(qs)
  BY <1>2
<1>4. off \in [0 .. n -> Nat] /\ off[0] = 0 /\ off[n] = Len(d)
  BY <1>1, <1>3 DEF Laid
<1>5. \A i, j \in 0 .. n : i <= j => off[i] <= off[j]
  BY <1>1, <1>2, <1>3, LaidRises
<1>6. ASSUME NEW i \in 0 .. n, NEW j \in 0 .. n, i < j PROVE off[i] < off[j]
  <2>1. PICK k \in 1 .. n : k = i + 1
    BY <1>6
  <2>2. off[k - 1] < off[k]
    BY <1>1, <1>3, Lines
  <2>3. k - 1 = i /\ k \in 0 .. n /\ k <= j
    BY <1>6, <2>1
  <2>4. off[i] < off[k]
    BY <2>2, <2>3
  <2>5. off[k] <= off[j] /\ off[i] \in Nat /\ off[k] \in Nat /\ off[j] \in Nat
    BY <1>4, <1>5, <2>3
  <2>. QED BY <2>4, <2>5
<1>. QED BY <1>1, <1>3, <1>4, <1>5, <1>6

\* The location c lies in the m-th of n paragraphs; the end of the text lies in the last.
Holds(off, n, c, m) ==
    m \in 1 .. n /\ off[m - 1] <= c /\ (c < off[m] \/ (m = n /\ c = off[n]))

\* Every location of a text is in a paragraph.
LEMMA HoldsOne ==
    ASSUME NEW d, NEW qs, NEW off, Parted(d, qs, off), d # <<>>, NEW c \in Nat, c <= Len(d)
    PROVE  \E m : Holds(off, Len(qs), c, m)
<1>1. d \in Seq(Char) /\ WellFormed(qs) /\ Laid(qs, d, off)
  BY DEF Parted
<1>2. qs \in Seq(Seq(Char))
  BY <1>1 DEF WellFormed
<1>3. PICK n \in Nat : n = Len(qs)
  BY <1>2
<1>4. /\ off \in [0 .. n -> Nat] /\ off[0] = 0 /\ off[n] = Len(d) /\ Len(d) \in Nat
      /\ \A i, j \in 0 .. n : i <= j => off[i] <= off[j]
  BY <1>3, PartedRises
<1>5. CASE c < Len(d)
  <2>1. c + 1 \in 1 .. Len(d)
    BY <1>4, <1>5
  <2>2. PICK i \in 1 .. n : off[i - 1] < c + 1 /\ c + 1 <= off[i]
    BY <1>1, <1>2, <1>3, <2>1, LaidSegment
  <2>3. off[i - 1] \in Nat /\ off[i] \in Nat
    BY <1>4
  <2>4. PICK x \in Nat : x = off[i - 1]
    BY <2>3
  <2>5. PICK y \in Nat : y = off[i]
    BY <2>3
  <2>6. x < c + 1 /\ c + 1 <= y
    BY <2>2, <2>4, <2>5, Zenon
  <2>7. x <= c /\ c < y
    BY <2>6
  <2>8. off[i - 1] <= c /\ c < off[i]
    BY <2>4, <2>5, <2>7, Zenon
  <2>9. Holds(off, n, c, i)
    BY <2>8 DEF Holds
  <2>. QED BY <1>3, <2>9
<1>6. CASE c = Len(d)
  <2>1. Len(d) > 0
    BY <1>1, <1>4
  <2>2. n # 0
    BY <1>4, <2>1
  <2>3. n \in 1 .. n /\ n - 1 \in 0 .. n /\ n \in 0 .. n /\ n - 1 <= n
    BY <2>2
  <2>4. off[n - 1] <= off[n]
    BY <1>4, <2>3
  <2>5. Holds(off, n, c, n)
    BY <1>4, <1>6, <2>3, <2>4 DEF Holds
  <2>. QED BY <1>3, <2>5
<1>7. c < Len(d) \/ c = Len(d)
  BY <1>4
<1>. QED BY <1>5, <1>6, <1>7

\* paragraphRanges returns the paragraphs from that of the beginning to that of the end.
LEMMA TouchedIs ==
    ASSUME NEW d, NEW qs, NEW off, Parted(d, qs, off), NEW a \in Nat, NEW b \in Nat, a <= b,
           NEW x, Holds(off, Len(qs), a, x), NEW y, Holds(off, Len(qs), b, y),
           NEW ps, ps = AllParapraghRange(d)
    PROVE  x <= y /\ Picked(ParagraphRanges(d, a, b), Nat \X Nat, ps, x .. y, x, y)
<1>1. d \in Seq(Char) /\ WellFormed(qs) /\ Laid(qs, d, off)
  BY DEF Parted
<1>3. PICK n \in Nat : n = Len(qs)
  BY PartedRises
<1>4. /\ off \in [0 .. n -> Nat] /\ off[0] = 0 /\ off[n] = Len(d) /\ Len(d) \in Nat
      /\ \A i, j \in 0 .. n : i < j => off[i] < off[j]
      /\ \A i, j \in 0 .. n : i <= j => off[i] <= off[j]
  BY <1>3, PartedRises
<1>5. /\ x \in 1 .. n /\ off[x - 1] <= a /\ (a < off[x] \/ (x = n /\ a = off[n]))
      /\ y \in 1 .. n /\ off[y - 1] <= b /\ (b < off[y] \/ (y = n /\ b = off[n]))
  BY <1>3 DEF Holds
<1>6. RangesFrom(ps, off, 0, n)
  BY <1>1, <1>3, AllRanges
<1>7. ps \in Seq(Nat \X Nat) /\ Len(ps) = n /\ DOMAIN ps = 1 .. n
  BY <1>6 DEF RangesFrom
<1>8. ASSUME NEW i \in 1 .. n PROVE ps[i][1] = off[i - 1] /\ ps[i][2] = off[i]
  <2>1. i \in 1 .. (n - 0) /\ 0 + i - 1 = i - 1 /\ 0 + i = i
    OBVIOUS
  <2>2. ps[i] = <<off[0 + i - 1], off[0 + i]>>
    BY <1>6, <2>1, Zenon DEF RangesFrom
  <2>3. ps[i] = <<off[i - 1], off[i]>>
    BY <2>1, <2>2, Zenon
  <2>. QED BY <2>3
<1>9. PICK I : I = {i \in DOMAIN ps : b >= ps[i][1] /\ (ps[i][2] > a \/ ps[i][2] = Len(d))}
  OBVIOUS
<1>10. ParagraphRanges(d, a, b) = Pick(ps, I)
  BY <1>9 DEF ParagraphRanges
<1>11. ASSUME NEW i \in 1 .. n
       PROVE  /\ off[i - 1] \in Nat /\ off[i] \in Nat
              /\ (i < x => off[i] <= off[x - 1]) /\ (i > y => off[y] <= off[i - 1])
              /\ (i <= y => off[i - 1] <= off[y - 1]) /\ (x <= i => off[x] <= off[i])
              /\ (i < n => off[i] < off[n]) /\ off[x - 1] < off[x] /\ off[x] <= off[n]
  <2>1. i \in 0 .. n /\ i - 1 \in 0 .. n /\ x \in 0 .. n /\ x - 1 \in 0 .. n /\ y \in 0 .. n /\ y - 1 \in 0 .. n
        /\ n \in 0 .. n /\ x - 1 < x /\ x <= n
    BY <1>5
  <2>2. (i < x => i <= x - 1) /\ (i > y => y <= i - 1) /\ (i <= y => i - 1 <= y - 1)
    BY <1>5
  <2>. QED BY <1>4, <2>1, <2>2
<1>12. x <= y
  <2>1. SUFFICES ASSUME x > y PROVE FALSE
    BY <1>5
  <2>2. off[y] <= off[x - 1] /\ off[x - 1] \in Nat /\ off[y] \in Nat
    BY <1>5, <1>11, <2>1
  <2>3. b < off[y]
    BY <1>5, <2>1
  <2>. QED BY <1>5, <2>2, <2>3
<1>13. I = x .. y
  <2>1. ASSUME NEW i \in 1 .. n
        PROVE  (b >= off[i - 1] /\ (off[i] > a \/ off[i] = Len(d))) <=> (x <= i /\ i <= y)
    <3>1. PICK u \in Nat : u = off[i - 1]
      BY <1>11
    <3>2. PICK v \in Nat : v = off[i]
      BY <1>11
    <3>3. PICK xl \in Nat : xl = off[x - 1]
      BY <1>5, <1>11
    <3>4. PICK xh \in Nat : xh = off[x]
      BY <1>5, <1>11
    <3>5. PICK yl \in Nat : yl = off[y - 1]
      BY <1>5, <1>11
    <3>6. PICK yh \in Nat : yh = off[y]
      BY <1>5, <1>11
    <3>7. PICK z \in Nat : z = off[n]
      BY <1>4
    <3>8. /\ i < x => v <= xl
          /\ i > y => yh <= u
          /\ i <= y => u <= yl
          /\ x <= i => xh <= v
          /\ i < n => v < z
          /\ xl < xh /\ xh <= z
      BY <1>11, <3>1, <3>2, <3>3, <3>4, <3>5, <3>6, <3>7
    <3>9. /\ xl <= a /\ (a < xh \/ (x = n /\ a = z))
          /\ yl <= b /\ (b < yh \/ (y = n /\ b = z))
      BY <1>5, <3>3, <3>4, <3>5, <3>6, <3>7
    <3>10. i = n => v = z
      BY <3>2, <3>7
    <3>11. (b >= u /\ (v > a \/ v = z)) <=> (x <= i /\ i <= y)
      BY <1>5, <3>8, <3>9, <3>10
    <3>. QED BY <1>4, <3>1, <3>2, <3>7, <3>11
  <2>2. ASSUME NEW i \in 1 .. n PROVE i \in I <=> (x <= i /\ i <= y)
    <3>1. i \in I <=> (b >= ps[i][1] /\ (ps[i][2] > a \/ ps[i][2] = Len(d)))
      BY <1>7, <1>9, Zenon
    <3>2. ps[i][1] = off[i - 1] /\ ps[i][2] = off[i]
      BY <1>8
    <3>3. i \in I <=> (b >= off[i - 1] /\ (off[i] > a \/ off[i] = Len(d)))
      BY <3>1, <3>2, Zenon
    <3>. QED BY <2>1, <3>3, Zenon
  <2>3. I \subseteq 1 .. n
    BY <1>7, <1>9
  <2>4. x .. y \subseteq 1 .. n
    BY <1>5
  <2>5. \A i \in 1 .. n : i \in x .. y <=> (x <= i /\ i <= y)
    BY <1>5
  <2>. QED BY <2>2, <2>3, <2>4, <2>5
<1>14. Picked(Pick(ps, x .. y), Nat \X Nat, ps, x .. y, x, y)
  <2>1. x \in Nat \ {0} /\ y \in Nat /\ y <= Len(ps)
    BY <1>5, <1>7
  <2>. QED BY <1>7, <1>12, <2>1, PickIs
<1>. QED BY <1>10, <1>12, <1>13, <1>14
-----------------------------------------------------------------------------
(* What the list button does to the paragraphs.                            *)

\* Only the last paragraph can be a head and nothing more.
LEMMA NotBare ==
    ASSUME TypeOK, ~BareEnd, NEW qs, NEW off, Parted(text, qs, off), NEW i \in 1 .. Len(qs)
    PROVE  HeadLength(qs[i]) < Len(qs[i])
<1>1. text \in Seq(Char) /\ WellFormed(qs) /\ Laid(qs, text, off)
  BY DEF Parted
<1>2. PICK q : q = qs[i]
  OBVIOUS
<1>3. Line(q) /\ (i < Len(qs) => Ended(q)) /\ qs \in Seq(Seq(Char))
  BY <1>1, <1>2 DEF WellFormed
<1>4. q \in Seq(Char) /\ Len(q) > 0
  BY <1>3 DEF Line
<1>5. HeadLength(q) \in {0, 3} /\ HeadLength(q) <= Len(q)
  BY <1>4, BodyIs
<1>6. SUFFICES ASSUME HeadLength(q) = Len(q) PROVE FALSE
  BY <1>2, <1>4, <1>5
<1>7. Len(q) = 3
  BY <1>4, <1>5, <1>6
<1>8. q[3].c = "tab"
  BY <1>6, <1>7 DEF HeadLength
<1>9. i = Len(qs)
  <2>1. ~Ended(q)
    BY <1>7, <1>8 DEF Ended
  <2>. QED BY <1>3, <2>1
<1>10. /\ Len(qs) \in Nat /\ Len(text) \in Nat /\ off[i] = Len(text)
  BY <1>9, PartedRises
<1>11. PICK lo : lo = off[i - 1]
  OBVIOUS
<1>12. PICK hi : hi = off[i]
  OBVIOUS
<1>13. /\ lo \in Nat /\ hi \in Nat /\ lo < hi /\ hi = Len(text)
       /\ \A p \in (lo + 1) .. (hi - 1) : text[p].c # "newline"
       /\ lo = 0 \/ text[lo].c = "newline"
  <2>1. /\ off[i - 1] \in Nat /\ off[i] \in Nat /\ off[i - 1] < off[i]
        /\ \A p \in (off[i - 1] + 1) .. (off[i] - 1) : text[p].c # "newline"
        /\ off[i - 1] = 0 \/ text[off[i - 1]].c = "newline"
    BY <1>1, Lines
  <2>. QED BY <1>10, <1>11, <1>12, <2>1, Zenon
<1>14. PieceOf(q, Char, text, lo, hi) /\ Cut(text, lo, hi) = q
  BY <1>1, <1>2, <1>3, <1>11, <1>12, LaidPiece
<1>15. hi = lo + 3 /\ q[3] = text[lo + 3]
  <2>1. Len(q) = hi - lo /\ \A j \in 1 .. (hi - lo) : q[j] = text[lo + j]
    BY <1>14 DEF PieceOf
  <2>2. hi - lo = 3
    BY <1>7, <2>1
  <2>. QED BY <1>13, <2>1, <2>2
<1>16. LineAt(text, hi, hi, lo, hi)
  <2>1. ASSUME NEW p \in (lo + 1) .. hi PROVE text[p].c # "newline"
    <3>1. CASE p = hi
      BY <1>8, <1>15, <3>1
    <3>2. CASE p # hi
      <4>1. p \in (lo + 1) .. (hi - 1)
        BY <1>13, <3>2
      <4>. QED BY <1>13, <4>1
    <3>. QED BY <3>1, <3>2
  <2>2. lo <= hi /\ hi <= Len(text)
    BY <1>13
  <2>3. \A p \in (hi + 1) .. (hi - 1) : text[p].c # "newline"
    BY <1>13
  <2>. QED BY <1>13, <2>1, <2>2, <2>3 DEF LineAt
<1>17. ParapraghRange(text, hi, hi) = <<lo, hi>>
  <2>1. LastOf(hi, hi) = hi
    BY <1>13 DEF LastOf
  <2>2. LineAt(text, hi, LastOf(hi, hi), lo, hi)
    BY <1>16, <2>1
  <2>3. hi <= hi /\ hi <= Len(text)
    BY <1>13
  <2>. QED BY <1>1, <1>13, <2>2, <2>3, RangeIs
<1>18. ParapraghRange(text, Len(text), Len(text))[1] = lo /\ ParapraghRange(text, Len(text), Len(text))[2] = hi
  BY <1>13, <1>17
<1>19. BareEnd
  <2>1. q # <<>>
    BY <1>7
  <2>. QED BY <1>6, <1>14, <1>18, <2>1 DEF BareEnd
<1>. QED BY <1>19

\* A paragraph without its head and with another style keeps its text.
LEMMA RestyledParagraph ==
    ASSUME NEW q, Line(q), HeadLength(q) < Len(q), HeadLength(RemoveHeadTabString(q)) = 0,
           NEW style \in Style, NEW p, p = Styled(RemoveHeadTabString(q), style)
    PROVE  Line(p) /\ (Ended(q) => Ended(p)) /\ Body(p) = Body(q)
<1>1. q \in Seq(Char) /\ \A j \in 1 .. (Len(q) - 1) : q[j].c # "newline"
  BY DEF Line
<1>2. PICK h : h = HeadLength(q)
  OBVIOUS
<1>3. PICK n \in Nat : n = Len(q)
  BY <1>1
<1>4. h \in Nat /\ h < n
  BY <1>1, <1>2, <1>3, BodyIs
<1>5. PICK b : b = RemoveHeadTabString(q)
  OBVIOUS
<1>6. PieceOf(b, Char, q, h, n)
  BY <1>1, <1>2, <1>3, <1>5, BodyIs
<1>7. b \in Seq(Char) /\ Len(b) = n - h /\ \A i \in 1 .. (n - h) : b[i] = q[h + i]
  BY <1>6 DEF PieceOf
<1>8. p = Styled(b, style)
  BY <1>5
<1>9. /\ p \in Seq(Char) /\ Len(p) = Len(b)
      /\ \A i \in 1 .. Len(b) : p[i].c = b[i].c /\ p[i].n = b[i].n
  BY <1>7, <1>8, StyledIs
<1>10. PICK m \in Nat : m = n - h
  BY <1>4
<1>11. /\ Len(p) = m /\ m > 0 /\ h + m = n
       /\ \A i \in 1 .. m : p[i].c = q[h + i].c /\ p[i].n = q[h + i].n
  <2>1. m > 0 /\ h + m = n
    BY <1>4, <1>10
  <2>2. Len(b) = m /\ \A i \in 1 .. m : b[i] = q[h + i]
    BY <1>7, <1>10
  <2>. QED BY <1>9, <2>1, <2>2
<1>12. Line(p)
  <2>1. ASSUME NEW j \in 1 .. (m - 1) PROVE p[j].c # "newline"
    <3>1. h + j \in 1 .. (n - 1) /\ j \in 1 .. m
      BY <1>4, <1>11
    <3>. QED BY <1>1, <1>3, <1>11, <3>1
  <2>. QED BY <1>9, <1>11, <2>1 DEF Line
<1>13. Ended(q) => Ended(p)
  <2>1. p[m].c = q[n].c
    BY <1>11
  <2>. QED BY <1>3, <1>11, <2>1 DEF Ended
<1>14. SameText(b, p)
  BY <1>9 DEF SameText
<1>15. HeadLength(p) = 0
  BY <1>5, <1>7, <1>14, SameHead
<1>16. Body(p) = Body(q)
  <2>1. Body(p) = [j \in 1 .. (Len(p) - HeadLength(p)) |->
                       <<p[HeadLength(p) + j].c, p[HeadLength(p) + j].n>>]
    BY <1>9, BodyAt
  <2>2. Body(q) = [j \in 1 .. (Len(q) - HeadLength(q)) |->
                       <<q[HeadLength(q) + j].c, q[HeadLength(q) + j].n>>]
    BY <1>1, BodyAt
  <2>3. Body(p) = [j \in 1 .. m |-> <<p[j].c, p[j].n>>]
    <3>1. m - 0 = m /\ \A j \in 1 .. m : 0 + j = j
      OBVIOUS
    <3>2. Body(p) = [j \in 1 .. (m - 0) |-> <<p[0 + j].c, p[0 + j].n>>]
      BY <1>11, <1>15, <2>1
    <3>. QED BY <3>1, <3>2
  <2>4. Body(q) = [j \in 1 .. m |-> <<q[h + j].c, q[h + j].n>>]
    BY <1>2, <1>3, <1>10, <2>2
  <2>. QED BY <1>11, <2>3, <2>4
<1>. QED BY <1>12, <1>13, <1>16

\* A paragraph with a new head keeps its text.
LEMMA WithHeadBody ==
    ASSUME NEW q, Line(q), NEW i \in Nat
    PROVE  Body(WithHead(q, i)) = Body(q)
<1>1. PICK w : w = WithHead(q, i)
  OBVIOUS
<1>2. Line(w)
  BY <1>1, WithHeadIs
<1>3. PICK r : r = Fix(w)
  OBVIOUS
<1>4. Settled(q, i, r)
  BY <1>1, <1>3, WithHeadStable
<1>5. Body(r) = Body(q)
  BY <1>4 DEF Settled
<1>6. SameText(w, r) /\ w \in Seq(Char)
  BY <1>2, <1>3, FixIs DEF Line
<1>. QED BY <1>1, <1>5, <1>6, SameBody

\* The paragraphs of the text d have the same text as those of qs.
SameBodies(d, qs) ==
    /\ d \in Seq(Char) /\ Len(Paras(d)) = Len(qs)
    /\ \A i \in 1 .. Len(qs) : Body(Paras(d)[i]) = Body(qs[i])

\* The list button keeps the text of all paragraphs, and no paragraph is empty.
LEMMA RestyledIs ==
    ASSUME TypeOK, text # <<>>, SingleHeads, ~BareEnd, NEW style \in Style,
           NEW qs, NEW off, Parted(text, qs, off), NEW a, NEW b, NEW x, NEW y,
           x \in 1 .. Len(qs), y \in 1 .. Len(qs),
           Picked(ParagraphRanges(text, a, b), Nat \X Nat, AllParapraghRange(text), x .. y, x, y)
    PROVE  ~Overflows(a, b, style) /\ SameBodies(Restyled(a, b, style), qs)
<1>1. text \in Seq(Char) /\ WellFormed(qs) /\ Laid(qs, text, off) /\ Paras(text) = qs
  BY DEF Parted
<1>2. qs \in Seq(Seq(Char))
  BY <1>1 DEF WellFormed
<1>3. PICK n \in Nat : n = Len(qs)
  BY <1>2
<1>4. PICK ps : ps = AllParapraghRange(text)
  OBVIOUS
<1>5. Cuts(text, ps, qs)
  BY <1>1, <1>4, ParasOf
<1>6. DOMAIN ps = 1 .. n /\ \A i \in 1 .. n : Cut(text, ps[i][1], ps[i][2]) = qs[i]
  BY <1>3, <1>5 DEF Cuts
<1>7. ToRestyle(style) = text
  BY DEF ToRestyle
<1>8. PICK C : C = Range(ParagraphRanges(text, a, b))
  OBVIOUS
<1>9. ASSUME NEW r \in C PROVE \E i \in 1 .. n : r = ps[i]
  <2>1. C = {ps[i] : i \in x .. y}
    BY <1>4, <1>8 DEF Picked
  <2>2. PICK i \in x .. y : r = ps[i]
    BY <2>1
  <2>3. i \in 1 .. n
    BY <1>3
  <2>. QED BY <2>2, <2>3
<1>10. ASSUME NEW i \in 1 .. n
       PROVE  /\ Line(qs[i]) /\ qs[i] \in Seq(Char) /\ HeadLength(qs[i]) < Len(qs[i])
              /\ HeadLength(RemoveHeadTabString(qs[i])) = 0
  <2>1. Line(qs[i]) /\ qs[i] \in Seq(Char)
    BY <1>1, <1>3 DEF WellFormed, Line
  <2>2. HeadLength(qs[i]) < Len(qs[i])
    BY <1>3, NotBare
  <2>3. ps[i] \in Range(ps)
    BY <1>6 DEF Range
  <2>4. HeadLength(RemoveHeadTabString(Cut(text, ps[i][1], ps[i][2]))) = 0
    BY <1>4, <2>3 DEF SingleHeads
  <2>. QED BY <1>6, <2>1, <2>2, <2>4
<1>11. ~Overflows(a, b, style)
  <2>1. SUFFICES ASSUME NEW r \in C, RemoveHeadTabString(Cut(text, r[1], r[2])) = <<>> PROVE FALSE
    BY <1>7, <1>8 DEF Overflows
  <2>2. PICK i \in 1 .. n : r = ps[i]
    BY <1>9
  <2>3. RemoveHeadTabString(qs[i]) = <<>>
    BY <1>6, <2>1, <2>2
  <2>4. PICK q : q = qs[i]
    OBVIOUS
  <2>5. q \in Seq(Char) /\ HeadLength(q) < Len(q)
    BY <1>10, <2>4
  <2>6. PieceOf(RemoveHeadTabString(q), Char, q, HeadLength(q), Len(q)) /\ HeadLength(q) \in {0, 3}
    BY <2>5, BodyIs
  <2>7. Len(RemoveHeadTabString(q)) = Len(q) - HeadLength(q)
    BY <2>6 DEF PieceOf
  <2>8. Len(q) - HeadLength(q) = 0
    BY <2>3, <2>4, <2>7
  <2>. QED BY <2>5, <2>6, <2>8
<1>12. PICK f : f = Chosen(text, a, b, style)
  OBVIOUS
<1>13. Restyled(a, b, style) = ResetTabOrderNumber(FlattenSeq(f))
  BY <1>7, <1>12, Zenon DEF Restyled, Chosen
<1>14. f = [i \in 1 .. n |-> IF ps[i] \in C THEN Styled(RemoveHeadTabString(qs[i]), style) ELSE qs[i]]
  <2>1. f = [i \in DOMAIN ps |-> IF ps[i] \in C THEN Styled(RemoveHeadTabString(Cut(text, ps[i][1], ps[i][2])), style)
                                 ELSE Cut(text, ps[i][1], ps[i][2])]
    BY <1>4, <1>8, <1>12, Zenon DEF Chosen
  <2>. QED BY <1>6, <2>1
<1>15. ASSUME NEW i \in 1 .. n
       PROVE  Line(f[i]) /\ (Ended(qs[i]) => Ended(f[i])) /\ Body(f[i]) = Body(qs[i])
  <2>1. CASE ps[i] \in C
    <3>1. f[i] = Styled(RemoveHeadTabString(qs[i]), style)
      BY <1>14, <2>1
    <3>. QED BY <1>10, <3>1, RestyledParagraph
  <2>2. CASE ps[i] \notin C
    <3>1. f[i] = qs[i]
      BY <1>14, <2>2
    <3>. QED BY <1>10, <3>1
  <2>. QED BY <2>1, <2>2
<1>16. DOMAIN f = 1 .. n /\ f = [i \in 1 .. n |-> f[i]]
  BY <1>14
<1>17. WellFormed(f) /\ Len(f) = n
  BY <1>1, <1>3, <1>15, <1>16, WellFormedMap
<1>18. PICK e : e = FlattenSeq(f)
  OBVIOUS
<1>19. e \in Seq(Char) /\ Paras(e) = f
  BY <1>17, <1>18, CutsIs
<1>20. PICK d : d = ResetTabOrderNumber(e)
  OBVIOUS
<1>21. d \in Seq(Char) /\ Paras(d) = Heads(f, n)
  BY <1>17, <1>19, <1>20, ResetParas
<1>22. Len(Heads(f, n)) = n
  BY <1>17, HeadsIs
<1>23. ASSUME NEW i \in 1 .. n PROVE Body(Paras(d)[i]) = Body(qs[i])
  <2>1. Paras(d)[i] = WithHead(f[i], ItemNo(f, i))
    BY <1>21 DEF Heads
  <2>2. ItemNo(f, i) \in Nat
    <3>1. i \in Nat \ {0}
      OBVIOUS
    <3>2. ItemNo(f, i) \in 1 .. i
      BY <3>1, ItemNoIs
    <3>. QED BY <3>1, <3>2
  <2>3. Body(WithHead(f[i], ItemNo(f, i))) = Body(f[i])
    BY <1>15, <2>2, WithHeadBody
  <2>. QED BY <1>15, <2>1, <2>3
<1>24. SameBodies(d, qs)
  BY <1>3, <1>21, <1>22, <1>23 DEF SameBodies
<1>. QED BY <1>11, <1>13, <1>18, <1>20, <1>24
-----------------------------------------------------------------------------
(* What stands behind a location, and newRangeFor.                         *)

\* The paragraphs a text is laid out in are its paragraphs.
LEMMA LaidParas ==
    ASSUME NEW rs, WellFormed(rs), NEW e \in Seq(Char), NEW g, Laid(rs, e, g)
    PROVE  Parted(e, rs, g)
<1>1. rs \in Seq(Seq(Char))
  BY DEF WellFormed
<1>2. PICK n \in Nat : n = Len(rs)
  BY <1>1
<1>3. PICK ps : ps = AllParapraghRange(e)
  OBVIOUS
<1>4. RangesFrom(ps, g, 0, n)
  BY <1>2, <1>3, AllRanges
<1>5. DOMAIN ps = 1 .. n
  BY <1>4 DEF RangesFrom
<1>6. ASSUME NEW i \in 1 .. n PROVE Cut(e, ps[i][1], ps[i][2]) = rs[i]
  <2>1. i \in 1 .. (n - 0) /\ 0 + i - 1 = i - 1 /\ 0 + i = i
    OBVIOUS
  <2>2. ps[i] = <<g[0 + i - 1], g[0 + i]>>
    BY <1>4, <2>1, Zenon DEF RangesFrom
  <2>3. ps[i] = <<g[i - 1], g[i]>>
    BY <2>1, <2>2, Zenon
  <2>4. ps[i][1] = g[i - 1] /\ ps[i][2] = g[i]
    BY <2>3
  <2>5. Cut(e, g[i - 1], g[i]) = rs[i]
    BY <1>1, <1>2, LaidPiece
  <2>. QED BY <2>4, <2>5, Zenon
<1>7. Paras(e) = [i \in 1 .. n |-> rs[i]]
  BY <1>3, <1>5, <1>6 DEF Paras
<1>8. rs = [i \in 1 .. n |-> rs[i]]
  BY <1>1, <1>2
<1>. QED BY <1>7, <1>8 DEF Parted

\* The text e is what stands behind the location c in the m-th paragraph: the rest of
\* the paragraph and the paragraphs after it.
TailOf(e, qs, m, rest) ==
    /\ e \in Seq(Char) /\ Len(Paras(e)) = Len(qs) - m + 1 /\ Paras(e)[1] = rest
    /\ \A j \in 2 .. (Len(qs) - m + 1) : Paras(e)[j] = qs[m + j - 1]

\* Cutting a text in a paragraph leaves the rest of it and the paragraphs behind it.
LEMMA TailIs ==
    ASSUME NEW t, NEW qs, NEW off, Parted(t, qs, off), NEW m \in 1 .. Len(qs), NEW c \in Nat,
           off[m - 1] <= c, c < off[m]
    PROVE  TailOf(Cut(t, c, Len(t)), qs, m, Cut(qs[m], Len(qs[m]) - (off[m] - c), Len(qs[m])))
<1>1. t \in Seq(Char) /\ WellFormed(qs) /\ Laid(qs, t, off)
  BY DEF Parted
<1>2. qs \in Seq(Seq(Char))
  BY <1>1 DEF WellFormed
<1>3. PICK n \in Nat : n = Len(qs)
  BY <1>2
<1>4. /\ off \in [0 .. n -> Nat] /\ off[n] = Len(t) /\ Len(t) \in Nat
      /\ \A i, j \in 0 .. n : i <= j => off[i] <= off[j]
  BY <1>3, PartedRises
<1>5. PICK e : e = Cut(t, c, Len(t))
  OBVIOUS
<1>6. PICK q : q = qs[m]
  OBVIOUS
<1>7. PICK lo \in Nat : lo = off[m - 1]
  BY <1>3, <1>4
<1>8. PICK hi \in Nat : hi = off[m]
  BY <1>3, <1>4
<1>9. lo <= c /\ c < hi /\ hi <= Len(t)
  <2>1. m \in 0 .. n /\ n \in 0 .. n /\ m <= n
    BY <1>3
  <2>2. off[m] <= off[n]
    BY <1>4, <2>1
  <2>. QED BY <1>4, <1>7, <1>8, <2>2
<1>10. /\ Line(q) /\ (m < n => Ended(q)) /\ q \in Seq(Char) /\ Len(q) = hi - lo
       /\ \A i \in 1 .. (hi - lo) : q[i] = t[lo + i]
  <2>1. Line(q) /\ (m < n => Ended(q))
    BY <1>1, <1>3, <1>6 DEF WellFormed
  <2>2. PieceOf(q, Char, t, lo, hi)
    BY <1>1, <1>2, <1>6, <1>7, <1>8, LaidPiece
  <2>. QED BY <2>1, <2>2 DEF PieceOf
<1>11. PICK u \in Nat : u = hi - c
  BY <1>9
<1>12. u > 0 /\ u <= hi - lo /\ (hi - lo) - u = c - lo /\ c - lo \in Nat
  BY <1>9, <1>11
<1>13. PICK rest : rest = Cut(q, (hi - lo) - u, hi - lo)
  OBVIOUS
<1>14. rest \in Seq(Char) /\ Len(rest) = u /\ \A i \in 1 .. u : rest[i] = q[(c - lo) + i]
  <2>1. PICK v \in Nat : v = c - lo
    BY <1>12
  <2>2. PICK k \in Nat : k = hi - lo
    BY <1>9
  <2>3. v <= k /\ k = Len(q) /\ k - v = u
    <3>1. k = Len(q)
      BY <1>10, <2>2
    <3>2. lo <= c /\ c < hi
      BY <1>9
    <3>3. v <= k /\ k - v = u
      BY <1>11, <2>1, <2>2, <3>2
    <3>. QED BY <3>1, <3>3
  <2>4. PieceOf(Cut(q, v, k), Char, q, v, k)
    <3>1. k <= Len(q)
      BY <2>3
    <3>. QED BY <1>10, <2>3, <3>1, CutIs
  <2>5. rest = Cut(q, v, k)
    BY <1>12, <1>13, <2>1, <2>2
  <2>. QED BY <2>1, <2>3, <2>4, <2>5 DEF PieceOf
<1>15. ASSUME NEW i \in 1 .. u PROVE rest[i] = t[c + i]
  <2>1. (c - lo) + i \in 1 .. (hi - lo) /\ lo + ((c - lo) + i) = c + i
    BY <1>9, <1>11
  <2>2. q[(c - lo) + i] = t[lo + ((c - lo) + i)]
    BY <1>10, <2>1
  <2>. QED BY <1>14, <2>1, <2>2
<1>16. e \in Seq(Char) /\ Len(e) = Len(t) - c /\ \A i \in 1 .. (Len(t) - c) : e[i] = t[c + i]
  <2>1. c <= Len(t) /\ Len(t) <= Len(t)
    BY <1>4, <1>9
  <2>2. PieceOf(e, Char, t, c, Len(t))
    BY <1>1, <1>4, <1>5, <2>1, CutIs
  <2>. QED BY <2>2 DEF PieceOf
<1>17. PICK N \in Nat : N = n - m + 1
  <2>1. m \in 1 .. n
    BY <1>3
  <2>2. n - m + 1 \in Nat
    BY <2>1
  <2>. QED BY <2>2
<1>18. N >= 1 /\ m + N - 1 = n
  BY <1>3, <1>17
<1>19. PICK rs : rs = [j \in 1 .. N |-> IF j = 1 THEN rest ELSE qs[m + j - 1]]
  OBVIOUS
<1>20. PICK g : g = [j \in 0 .. N |-> IF j = 0 THEN 0 ELSE off[m + j - 1] - c]
  OBVIOUS
<1>21. rs \in Seq(Seq(Char)) /\ Len(rs) = N
  <2>1. PICK V : V = Seq(Char)
    OBVIOUS
  <2>2. ASSUME NEW j \in 1 .. N PROVE (IF j = 1 THEN rest ELSE qs[m + j - 1]) \in V
    <3>1. m + j - 1 \in 1 .. n
      BY <1>3, <1>18
    <3>2. qs[m + j - 1] \in V
      BY <1>2, <1>3, <2>1, <3>1
    <3>. QED BY <1>14, <2>1, <3>2
  <2>3. rs \in [1 .. N -> V]
    BY <1>19, <2>2
  <2>4. rs \in Seq(V) /\ Len(rs) = N
    BY <2>3
  <2>. QED BY <2>1, <2>4
<1>22. WellFormed(rs)
  <2>1. ASSUME NEW j \in 1 .. N PROVE Line(rs[j]) /\ (j < N => Ended(rs[j]))
    <3>1. CASE j = 1
      <4>1. rs[j] = rest
        BY <1>19, <3>1
      <4>2. ASSUME NEW i \in 1 .. (u - 1) PROVE rest[i].c # "newline"
        <5>1. (c - lo) + i \in 1 .. (Len(q) - 1) /\ i \in 1 .. u
          BY <1>9, <1>10, <1>11
        <5>2. q[(c - lo) + i].c # "newline"
          BY <1>10, <5>1 DEF Line
        <5>. QED BY <1>14, <5>1, <5>2
      <4>3. Line(rest)
        BY <1>12, <1>14, <4>2 DEF Line
      <4>4. j < N => Ended(rest)
        <5>1. j < N => m < n
          BY <1>3, <1>17, <3>1
        <5>2. rest[u] = q[Len(q)]
          <6>1. u \in 1 .. u /\ (c - lo) + u = Len(q)
            BY <1>9, <1>10, <1>11, <1>12
          <6>. QED BY <1>14, <6>1
        <5>. QED BY <1>10, <1>14, <5>1, <5>2 DEF Ended
      <4>. QED BY <4>1, <4>3, <4>4
    <3>2. CASE j # 1
      <4>1. PICK k \in 1 .. n : k = m + j - 1
        <5>1. m + j - 1 \in 1 .. n
          BY <1>3, <1>18
        <5>. QED BY <5>1
      <4>2. rs[j] = qs[k]
        BY <1>19, <3>2, <4>1
      <4>3. j < N => k < n
        BY <1>3, <1>17, <4>1
      <4>4. Line(qs[k]) /\ (k < n => Ended(qs[k]))
        BY <1>1, <1>3 DEF WellFormed
      <4>. QED BY <4>2, <4>3, <4>4
    <3>. QED BY <3>1, <3>2
  <2>. QED BY <1>21, <2>1 DEF WellFormed
<1>23. Laid(rs, e, g)
  <2>1. ASSUME NEW j \in 1 .. N PROVE off[m + j - 1] \in Nat /\ off[m + j - 1] - c \in Nat
    <3>1. m + j - 1 \in 0 .. n /\ m \in 0 .. n /\ m <= m + j - 1
      BY <1>3, <1>18
    <3>2. off[m] <= off[m + j - 1] /\ off[m + j - 1] \in Nat
      BY <1>4, <3>1
    <3>3. PICK w \in Nat : w = off[m + j - 1]
      BY <3>2
    <3>4. hi <= w /\ c < hi
      BY <1>8, <1>9, <3>2, <3>3
    <3>5. w - c \in Nat
      BY <3>4
    <3>. QED BY <3>3, <3>5
  <2>2. ASSUME NEW j \in 1 .. N PROVE g[j] = off[m + j - 1] - c
    BY <1>20
  <2>3. g[0] = 0
    BY <1>20
  <2>4. g \in [0 .. N -> Nat]
    <3>1. ASSUME NEW j \in 0 .. N PROVE (IF j = 0 THEN 0 ELSE off[m + j - 1] - c) \in Nat
      <4>1. CASE j = 0
        BY <4>1
      <4>2. CASE j # 0
        <5>1. j \in 1 .. N
          BY <4>2
        <5>. QED BY <2>1, <4>2, <5>1
      <4>. QED BY <4>1, <4>2
    <3>. QED BY <1>20, <3>1
  <2>5. g[N] = Len(e)
    <3>1. N \in 1 .. N
      BY <1>18
    <3>. QED BY <1>4, <1>16, <1>18, <2>2, <3>1
  <2>6. ASSUME NEW j \in 1 .. N
        PROVE  /\ g[j] = g[j - 1] + Len(rs[j])
               /\ \A i \in 1 .. Len(rs[j]) : e[g[j - 1] + i] = rs[j][i]
    <3>1. CASE j = 1
      <4>1. rs[j] = rest /\ g[j - 1] = 0 /\ m + j - 1 = m
        BY <1>19, <2>3, <3>1
      <4>2. g[j] = hi - c
        BY <1>8, <2>2, <4>1
      <4>3. ASSUME NEW i \in 1 .. u PROVE e[0 + i] = rest[i]
        <5>1. i \in 1 .. (Len(t) - c) /\ 0 + i = i
          BY <1>4, <1>9, <1>11
        <5>. QED BY <1>15, <1>16, <5>1
      <4>. QED BY <1>11, <1>14, <4>1, <4>2, <4>3
    <3>2. CASE j # 1
      <4>1. PICK k \in 1 .. n : k = m + j - 1
        <5>1. m + j - 1 \in 1 .. n
          BY <1>3, <1>18
        <5>. QED BY <5>1
      <4>2. PICK p : p = qs[k]
        OBVIOUS
      <4>3. rs[j] = p
        BY <1>19, <3>2, <4>1, <4>2
      <4>4. j - 1 \in 1 .. N /\ m + (j - 1) - 1 = k - 1
        BY <3>2, <4>1
      <4>5. PICK y \in Nat : y = off[k - 1]
        BY <1>4
      <4>6. PICK z \in Nat : z = off[k]
        BY <1>4
      <4>7. g[j] = z - c
        BY <2>2, <4>1, <4>6
      <4>8. g[j - 1] = y - c /\ y - c \in Nat
        <5>1. g[j - 1] = off[m + (j - 1) - 1] - c /\ off[m + (j - 1) - 1] - c \in Nat
          BY <2>1, <2>2, <4>4
        <5>. QED BY <4>4, <4>5, <5>1
      <4>9. PieceOf(p, Char, t, y, z) /\ z <= Len(t) /\ y <= z
        BY <1>1, <1>2, <1>3, <4>2, <4>5, <4>6, LaidPiece
      <4>10. Len(p) = z - y /\ \A i \in 1 .. (z - y) : p[i] = t[y + i]
        BY <4>9 DEF PieceOf
      <4>11. ASSUME NEW i \in 1 .. (z - y) PROVE e[(y - c) + i] = p[i]
        <5>1. (y - c) + i \in 1 .. (Len(t) - c) /\ c + ((y - c) + i) = y + i
          <6>1. PICK T \in Nat : T = Len(t)
            BY <1>4
          <6>2. y - c \in Nat /\ z <= T
            BY <4>8, <4>9, <6>1
          <6>3. (y - c) + i \in 1 .. (T - c) /\ c + ((y - c) + i) = y + i
            BY <6>2
          <6>. QED BY <6>1, <6>3
        <5>2. e[(y - c) + i] = t[c + ((y - c) + i)]
          BY <1>16, <5>1
        <5>. QED BY <4>10, <5>1, <5>2
      <4>12. z - c = (y - c) + (z - y)
        OBVIOUS
      <4>. QED BY <4>3, <4>7, <4>8, <4>10, <4>11, <4>12
    <3>. QED BY <3>1, <3>2
  <2>. QED BY <1>21, <2>3, <2>4, <2>5, <2>6 DEF Laid
<1>24. Paras(e) = rs
  <2>1. Parted(e, rs, g)
    BY <1>16, <1>22, <1>23, LaidParas
  <2>. QED BY <2>1 DEF Parted
<1>25. rs[1] = rest /\ \A j \in 2 .. N : rs[j] = qs[m + j - 1]
  BY <1>18, <1>19
<1>26. TailOf(e, qs, m, rest)
  BY <1>3, <1>16, <1>17, <1>21, <1>24, <1>25 DEF TailOf
<1>27. rest = Cut(qs[m], Len(qs[m]) - (off[m] - c), Len(qs[m]))
  BY <1>6, <1>8, <1>10, <1>11, <1>13
<1>. QED BY <1>5, <1>26, <1>27

\* Two paragraphs with the same text have it at the same distance from their ends.
LEMMA BodyTail ==
    ASSUME NEW q \in Seq(Char), NEW w \in Seq(Char), Body(w) = Body(q), NEW u \in Nat,
           u <= Len(q) - HeadLength(q)
    PROVE  /\ Len(w) - HeadLength(w) = Len(q) - HeadLength(q)
           /\ Body(Cut(w, Len(w) - u, Len(w))) = Body(Cut(q, Len(q) - u, Len(q)))
<1>1. PICK h \in Nat : h = HeadLength(q)
  BY BodyIs
<1>2. PICK k \in Nat : k = HeadLength(w)
  BY BodyIs
<1>3. PICK n \in Nat : n = Len(q)
  OBVIOUS
<1>4. PICK m \in Nat : m = Len(w)
  OBVIOUS
<1>5. h <= n /\ k <= m
  BY <1>1, <1>2, <1>3, <1>4, BodyIs
<1>6. PICK a \in Nat : a = n - h
  BY <1>5
<1>7. PICK b \in Nat : b = m - k
  BY <1>5
<1>8. Body(q) = [j \in 1 .. a |-> <<q[h + j].c, q[h + j].n>>]
  BY <1>1, <1>3, <1>6, BodyAt
<1>9. Body(w) = [j \in 1 .. b |-> <<w[k + j].c, w[k + j].n>>]
  BY <1>2, <1>4, <1>7, BodyAt
<1>10. a = b
  <2>1. DOMAIN Body(q) = 1 .. a /\ DOMAIN Body(w) = 1 .. b
    BY <1>8, <1>9
  <2>2. 1 .. a = 1 .. b
    BY <2>1
  <2>3. ~(a < b)
    <3>1. SUFFICES ASSUME a < b PROVE FALSE
      OBVIOUS
    <3>2. b \in 1 .. b /\ b \notin 1 .. a
      BY <3>1
    <3>. QED BY <2>2, <3>2
  <2>4. ~(b < a)
    <3>1. SUFFICES ASSUME b < a PROVE FALSE
      OBVIOUS
    <3>2. a \in 1 .. a /\ a \notin 1 .. b
      BY <3>1
    <3>. QED BY <2>2, <3>2
  <2>. QED BY <2>3, <2>4
<1>11. ASSUME NEW j \in 1 .. a PROVE w[k + j].c = q[h + j].c /\ w[k + j].n = q[h + j].n
  <2>1. Body(q)[j] = <<q[h + j].c, q[h + j].n>>
    BY <1>8
  <2>2. Body(w)[j] = <<w[k + j].c, w[k + j].n>>
    BY <1>9, <1>10
  <2>3. <<w[k + j].c, w[k + j].n>> = <<q[h + j].c, q[h + j].n>>
    BY <2>1, <2>2, Zenon
  <2>. QED BY <2>3
<1>12. u <= a
  BY <1>1, <1>3, <1>6
<1>13. PICK v \in Nat : v = a - u
  BY <1>12
<1>14. n - u = h + v /\ m - u = k + v /\ h + v <= n /\ k + v <= m /\ n - (h + v) = u /\ m - (k + v) = u
  BY <1>5, <1>6, <1>7, <1>10, <1>12, <1>13
<1>15. PICK x : x = Cut(q, h + v, n)
  OBVIOUS
<1>16. PICK y : y = Cut(w, k + v, m)
  OBVIOUS
<1>17. x \in Seq(Char) /\ Len(x) = u /\ \A i \in 1 .. u : x[i] = q[(h + v) + i]
  <2>1. PICK z \in Nat : z = h + v
    OBVIOUS
  <2>2. z <= n /\ n <= Len(q) /\ n - z = u
    BY <1>3, <1>14, <2>1
  <2>3. PieceOf(Cut(q, z, n), Char, q, z, n)
    BY <2>2, CutIs
  <2>. QED BY <1>15, <2>1, <2>2, <2>3 DEF PieceOf
<1>18. y \in Seq(Char) /\ Len(y) = u /\ \A i \in 1 .. u : y[i] = w[(k + v) + i]
  <2>1. PICK z \in Nat : z = k + v
    OBVIOUS
  <2>2. z <= m /\ m <= Len(w) /\ m - z = u
    BY <1>4, <1>14, <2>1
  <2>3. PieceOf(Cut(w, z, m), Char, w, z, m)
    BY <2>2, CutIs
  <2>. QED BY <1>16, <2>1, <2>2, <2>3 DEF PieceOf
<1>19. SameText(x, y)
  <2>1. ASSUME NEW i \in 1 .. u PROVE y[i].c = x[i].c /\ y[i].n = x[i].n
    <3>1. PICK j \in 1 .. a : j = v + i
      <4>1. v + i \in 1 .. a
        BY <1>12, <1>13
      <4>. QED BY <4>1
    <3>2. (h + v) + i = h + j /\ (k + v) + i = k + j
      BY <3>1
    <3>3. x[i] = q[h + j] /\ y[i] = w[k + j]
      BY <1>17, <1>18, <3>2
    <3>. QED BY <1>11, <3>3
  <2>. QED BY <1>17, <1>18, <2>1 DEF SameText
<1>20. Body(y) = Body(x)
  BY <1>17, <1>19, SameBody
<1>21. y = Cut(w, Len(w) - u, Len(w)) /\ x = Cut(q, Len(q) - u, Len(q))
  BY <1>3, <1>4, <1>14, <1>15, <1>16
<1>22. Len(w) - HeadLength(w) = Len(q) - HeadLength(q)
  BY <1>1, <1>2, <1>3, <1>4, <1>6, <1>7, <1>10
<1>. QED BY <1>20, <1>21, <1>22

\* The text behind two locations is the same.
SameRest(d, x, t, c) == Bodies(Cut(d, x, Len(d))) = Bodies(Cut(t, c, Len(t)))

\* A distance to the end of a paragraph, carried over to a paragraph whose text is as long.
Carried(lo, hi, bl, bh, k, c) ==
    /\ bh - (hi - c) \in Nat /\ bl + k <= bh - (hi - c) /\ bh - (hi - c) < bh
    /\ bh - (bh - (hi - c)) = hi - c /\ lo <= c /\ bl <= bh - (hi - c)

\* It stays behind the head and within the paragraph.
LEMMA SameDistance ==
    ASSUME NEW lo \in Nat, NEW hi \in Nat, NEW h \in Nat, NEW bl \in Nat, NEW bh \in Nat,
           NEW k \in Nat, NEW c \in Nat, lo + h <= c, c < hi, (bh - bl) - k = (hi - lo) - h
    PROVE  Carried(lo, hi, bl, bh, k, c)
  BY DEF Carried

\* In front of the same text of the same paragraph stands the same rest.
LEMMA RestIs ==
    ASSUME NEW t, NEW qs, NEW off, Parted(t, qs, off), NEW d, NEW ws, NEW g, Parted(d, ws, g),
           Len(ws) = Len(qs), \A i \in 1 .. Len(qs) : Body(ws[i]) = Body(qs[i]),
           NEW m \in 1 .. Len(qs), NEW c \in Nat, off[m - 1] + HeadLength(qs[m]) <= c, c < off[m],
           NEW x, x = g[m] - (off[m] - c)
    PROVE  /\ x \in Nat /\ g[m - 1] + HeadLength(ws[m]) <= x /\ x < g[m] /\ g[m - 1] \in Nat
           /\ SameRest(d, x, t, c)
<1>1. PICK n \in Nat : n = Len(qs)
  BY PartedRises
<1>2. PICK q : q = qs[m]
  OBVIOUS
<1>3. PICK w : w = ws[m]
  OBVIOUS
<1>4. PICK lo : lo = off[m - 1]
  OBVIOUS
<1>5. PICK hi : hi = off[m]
  OBVIOUS
<1>6. PICK bl : bl = g[m - 1]
  OBVIOUS
<1>7. PICK bh : bh = g[m]
  OBVIOUS
<1>8. q \in Seq(Char) /\ lo \in Nat /\ hi \in Nat /\ Len(q) = hi - lo
  <2>1. t \in Seq(Char) /\ WellFormed(qs) /\ Laid(qs, t, off)
    BY DEF Parted
  <2>2. qs \in Seq(Seq(Char))
    BY <2>1 DEF WellFormed
  <2>3. off[m - 1] \in Nat /\ off[m] \in Nat /\ PieceOf(qs[m], Char, t, off[m - 1], off[m])
    BY <2>1, <2>2, LaidPiece
  <2>. QED BY <1>2, <1>4, <1>5, <2>3 DEF PieceOf
<1>9. w \in Seq(Char) /\ bl \in Nat /\ bh \in Nat /\ Len(w) = bh - bl
  <2>1. d \in Seq(Char) /\ WellFormed(ws) /\ Laid(ws, d, g)
    BY DEF Parted
  <2>2. ws \in Seq(Seq(Char)) /\ m \in 1 .. Len(ws)
    BY <2>1 DEF WellFormed
  <2>3. g[m - 1] \in Nat /\ g[m] \in Nat /\ PieceOf(ws[m], Char, d, g[m - 1], g[m])
    BY <2>1, <2>2, LaidPiece
  <2>. QED BY <1>3, <1>6, <1>7, <2>3 DEF PieceOf
<1>10. PICK h \in Nat : h = HeadLength(q)
  BY <1>8, BodyIs
<1>11. PICK k \in Nat : k = HeadLength(w)
  BY <1>9, BodyIs
<1>12. lo + h <= c /\ c < hi /\ x = bh - (hi - c)
  BY <1>2, <1>4, <1>5, <1>7, <1>10
<1>13. PICK u \in Nat : u = hi - c
  BY <1>8, <1>12
<1>14. u <= (hi - lo) - h /\ u > 0
  BY <1>8, <1>12, <1>13
<1>15. /\ Len(w) - k = Len(q) - h
       /\ Body(Cut(w, Len(w) - u, Len(w))) = Body(Cut(q, Len(q) - u, Len(q)))
  <2>1. u <= Len(q) - HeadLength(q)
    BY <1>8, <1>10, <1>14
  <2>2. Body(w) = Body(q)
    BY <1>2, <1>3
  <2>. QED BY <1>8, <1>9, <1>10, <1>11, <2>1, <2>2, BodyTail
<1>16. x \in Nat /\ bl + k <= x /\ x < bh /\ bh - x = u /\ lo <= c /\ bl <= x
  <2>1. (bh - bl) - k = (hi - lo) - h
    BY <1>8, <1>9, <1>15
  <2>2. Carried(lo, hi, bl, bh, k, c)
    <3>1. lo \in Nat /\ hi \in Nat /\ bl \in Nat /\ bh \in Nat
      BY <1>8, <1>9, Zenon
    <3>2. lo + h <= c /\ c < hi
      BY <1>12, Zenon
    <3>. QED BY <2>1, <3>1, <3>2, SameDistance, Zenon
  <2>. QED BY <1>12, <1>13, <2>2, Zenon DEF Carried
<1>17. PICK e : e = Cut(t, c, Len(t))
  OBVIOUS
<1>18. PICK f : f = Cut(d, x, Len(d))
  OBVIOUS
<1>19. TailOf(e, qs, m, Cut(q, Len(q) - u, Len(q)))
  <2>1. off[m - 1] <= c /\ c < off[m]
    BY <1>4, <1>5, <1>12, <1>16, Zenon
  <2>2. TailOf(Cut(t, c, Len(t)), qs, m, Cut(qs[m], Len(qs[m]) - (off[m] - c), Len(qs[m])))
    BY <2>1, TailIs
  <2>. QED BY <1>2, <1>5, <1>13, <1>17, <2>2
<1>20. TailOf(f, ws, m, Cut(w, Len(w) - u, Len(w)))
  <2>1. g[m - 1] <= x /\ x < g[m] /\ m \in 1 .. Len(ws)
    BY <1>6, <1>7, <1>16, Zenon
  <2>2. TailOf(Cut(d, x, Len(d)), ws, m, Cut(ws[m], Len(ws[m]) - (g[m] - x), Len(ws[m])))
    BY <1>16, <2>1, TailIs
  <2>. QED BY <1>3, <1>7, <1>16, <1>18, <2>2
<1>21. PICK N \in Nat : N = n - m + 1
  <2>1. m \in 1 .. n
    BY <1>1
  <2>2. n - m + 1 \in Nat
    BY <2>1
  <2>. QED BY <2>2
<1>22. /\ e \in Seq(Char) /\ Len(Paras(e)) = N /\ Paras(e)[1] = Cut(q, Len(q) - u, Len(q))
       /\ \A j \in 2 .. N : Paras(e)[j] = qs[m + j - 1]
  BY <1>1, <1>19, <1>21 DEF TailOf
<1>23. /\ f \in Seq(Char) /\ Len(Paras(f)) = N /\ Paras(f)[1] = Cut(w, Len(w) - u, Len(w))
       /\ \A j \in 2 .. N : Paras(f)[j] = ws[m + j - 1]
  BY <1>1, <1>20, <1>21 DEF TailOf
<1>24. ASSUME NEW j \in 1 .. N PROVE Body(Paras(f)[j]) = Body(Paras(e)[j])
  <2>1. CASE j = 1
    BY <1>15, <1>22, <1>23, <2>1
  <2>2. CASE j # 1
    <3>1. PICK i \in 1 .. n : i = m + j - 1
      <4>1. m \in 1 .. n
        BY <1>1
      <4>2. m + j - 1 \in 1 .. n
        BY <1>21, <4>1
      <4>. QED BY <4>2
    <3>2. j \in 2 .. N
      BY <2>2
    <3>3. Paras(e)[j] = qs[i] /\ Paras(f)[j] = ws[i]
      BY <1>22, <1>23, <3>1, <3>2
    <3>. QED BY <1>1, <3>3
  <2>. QED BY <2>1, <2>2
<1>25. Bodies(e) = [i \in 1 .. N |-> Body(Paras(e)[i])] /\ Bodies(f) = [i \in 1 .. N |-> Body(Paras(f)[i])]
  BY <1>22, <1>23, BodiesIs
<1>26. Bodies(f) = Bodies(e)
  BY <1>24, <1>25
<1>27. SameRest(d, x, t, c)
  BY <1>17, <1>18, <1>26 DEF SameRest
<1>. QED BY <1>3, <1>6, <1>7, <1>9, <1>11, <1>16, <1>27

\* The location x of the text d is behind the head of its paragraph.
Behind(d, x) ==
    LET q == ParapraghRange(d, x, x)
    IN  x \in 0 .. Len(d) /\ x >= q[1] + HeadLength(Cut(d, q[1], q[2]))

\* The end of a text is behind the head of its last paragraph.
LEMMA EndBehind ==
    ASSUME NEW d \in Seq(Char)
    PROVE  Behind(d, Len(d)) /\ ParapraghRange(d, Len(d), Len(d))[2] = Len(d)
<1>1. PICK n \in Nat : n = Len(d)
  OBVIOUS
<1>2. PICK r : r = ParapraghRange(d, n, n)
  OBVIOUS
<1>3. Within(d, r[1], r[2]) /\ r[1] <= n /\ n <= r[2]
  <2>1. Within(d, n, n)
    BY <1>1 DEF Within
  <2>. QED BY <1>2, <2>1, RangeAround
<1>4. PICK lo \in Nat : lo = r[1]
  BY <1>3 DEF Within
<1>5. r[2] = n /\ lo <= n
  BY <1>1, <1>3, <1>4 DEF Within
<1>6. PICK q : q = Cut(d, lo, n)
  OBVIOUS
<1>7. q \in Seq(Char) /\ Len(q) = n - lo
  <2>1. PieceOf(q, Char, d, lo, n)
    BY <1>1, <1>5, <1>6, CutIs
  <2>. QED BY <2>1 DEF PieceOf
<1>8. HeadLength(q) \in {0, 3} /\ HeadLength(q) <= n - lo
  BY <1>7, BodyIs
<1>9. n >= lo + HeadLength(q) /\ n \in 0 .. n
  BY <1>5, <1>8
<1>10. Behind(d, n)
  BY <1>1, <1>2, <1>4, <1>5, <1>6, <1>9 DEF Behind
<1>. QED BY <1>1, <1>2, <1>5, <1>10

\* The greater of two numbers.
LEMMA Greater ==
    ASSUME NEW x \in Int, NEW y \in Int, y <= x
    PROVE  Max({x, y}) = x
<1>1. x \in {x, y} /\ \A z \in {x, y} : z <= x
  OBVIOUS
<1>. QED BY <1>1 DEF Max

\* The paragraph q of the text d reaches from lo to hi.
Spans(d, q, lo, hi) ==
    /\ q \in Seq(Char) /\ Cut(d, lo, hi) = q /\ hi <= Len(d)
    /\ \A a \in Nat : lo <= a /\ a < hi => ParapraghRange(d, a, a) = <<lo, hi>>

\* The paragraphs of a text reach from their offsets to the next.
LEMMA PartedSpans ==
    ASSUME NEW d, NEW qs, NEW off, Parted(d, qs, off), NEW m \in 1 .. Len(qs)
    PROVE  Spans(d, qs[m], off[m - 1], off[m])
<1>1. d \in Seq(Char) /\ WellFormed(qs) /\ Laid(qs, d, off)
  BY DEF Parted
<1>2. qs \in Seq(Seq(Char))
  BY <1>1 DEF WellFormed
<1>3. Cut(d, off[m - 1], off[m]) = qs[m] /\ off[m] <= Len(d)
  BY <1>1, <1>2, LaidPiece
<1>4. ASSUME NEW a \in Nat, off[m - 1] <= a, a < off[m]
      PROVE  ParapraghRange(d, a, a) = <<off[m - 1], off[m]>>
  BY <1>1, <1>4, LineOf
<1>5. qs[m] \in Seq(Char)
  BY <1>2
<1>. QED BY <1>3, <1>4, <1>5 DEF Spans

\* newRangeFor moves a location that is in no head in front of the same text, and not
\* into a head.
LEMMA EndKept ==
    ASSUME NEW t, NEW qs, NEW off, Parted(t, qs, off), NEW d, NEW ws, NEW g, Parted(d, ws, g),
           Len(ws) = Len(qs), \A i \in 1 .. Len(qs) : Body(ws[i]) = Body(qs[i]),
           NEW m, NEW c \in Nat, Holds(off, Len(qs), c, m), NEW old, old[2] = off[m],
           c < off[m] => off[m - 1] + HeadLength(qs[m]) <= c,
           NEW x, x = NewLocation(old, <<g[m - 1], g[m]>>, c)
    PROVE  Behind(d, x) /\ SameRest(d, x, t, c)
<1>1. PICK n \in Nat : n = Len(qs)
  BY PartedRises
<1>2. m \in 1 .. n /\ (c < off[m] \/ (m = n /\ c = off[n]))
  BY <1>1 DEF Holds
<1>3. /\ t \in Seq(Char) /\ d \in Seq(Char) /\ WellFormed(ws) /\ Laid(ws, d, g)
      /\ off[n] = Len(t) /\ g[n] = Len(d) /\ off \in [0 .. n -> Nat] /\ g \in [0 .. n -> Nat]
  <2>1. t \in Seq(Char) /\ d \in Seq(Char) /\ WellFormed(ws) /\ Laid(ws, d, g)
    BY DEF Parted
  <2>2. off \in [0 .. Len(qs) -> Nat] /\ off[Len(qs)] = Len(t)
    BY PartedRises
  <2>3. g \in [0 .. Len(ws) -> Nat] /\ g[Len(ws)] = Len(d)
    BY PartedRises
  <2>. QED BY <1>1, <2>1, <2>2, <2>3
<1>4. PICK bl \in Nat : bl = g[m - 1]
  BY <1>2, <1>3
<1>5. PICK bh \in Nat : bh = g[m]
  BY <1>2, <1>3
<1>6. PICK hi \in Nat : hi = off[m]
  BY <1>2, <1>3
<1>7. bl <= bh
  <2>1. \A i, j \in 0 .. Len(ws) : i <= j => g[i] <= g[j]
    BY PartedRises
  <2>2. m - 1 \in 0 .. n /\ m \in 0 .. n /\ m - 1 <= m
    BY <1>2
  <2>3. g[m - 1] <= g[m]
    BY <1>1, <2>1, <2>2
  <2>. QED BY <1>4, <1>5, <2>3
<1>8. x = Max({bh - (hi - c), bl})
  <2>1. x = Max({<<bl, bh>>[2] - (old[2] - c), <<bl, bh>>[1]})
    BY <1>4, <1>5, Zenon DEF NewLocation
  <2>2. <<bl, bh>>[2] = bh /\ <<bl, bh>>[1] = bl
    OBVIOUS
  <2>3. old[2] = hi
    BY <1>6
  <2>. QED BY <2>1, <2>2, <2>3, Zenon
<1>9. CASE c < off[m]
  <2>1. PICK y : y = g[m] - (off[m] - c)
    OBVIOUS
  <2>2. off[m - 1] + HeadLength(qs[m]) <= c /\ m \in 1 .. Len(qs)
    BY <1>1, <1>2, <1>9
  <2>3. /\ y \in Nat /\ g[m - 1] + HeadLength(ws[m]) <= y /\ y < g[m] /\ g[m - 1] \in Nat
        /\ SameRest(d, y, t, c)
    BY <1>9, <2>1, <2>2, RestIs
  <2>4. PICK w : w = ws[m]
    OBVIOUS
  <2>5. /\ w \in Seq(Char) /\ Cut(d, bl, bh) = w
        /\ \A a \in Nat : bl <= a /\ a < bh => ParapraghRange(d, a, a) = <<bl, bh>>
    <3>1. m \in 1 .. Len(ws)
      BY <1>1, <1>2
    <3>2. Spans(d, ws[m], g[m - 1], g[m])
      BY <3>1, PartedSpans
    <3>3. Spans(d, w, bl, bh)
      BY <1>4, <1>5, <2>4, <3>2, Zenon
    <3>. QED BY <3>3, Zenon DEF Spans
  <2>6. PICK k \in Nat : k = HeadLength(w)
    BY <2>5, BodyIs
  <2>7. bl + k <= y /\ y < bh
    BY <1>4, <1>5, <2>3, <2>4, <2>6, Zenon
  <2>8. bl <= y
    BY <2>3, <2>7
  <2>9. x = y
    <3>1. Max({y, bl}) = y
      BY <2>3, <2>8, Greater
    <3>2. y = bh - (hi - c)
      BY <1>5, <1>6, <2>1
    <3>. QED BY <1>8, <3>1, <3>2, Zenon
  <2>10. ParapraghRange(d, y, y) = <<bl, bh>>
    BY <2>3, <2>5, <2>7, <2>8, Zenon
  <2>11. y \in 0 .. Len(d)
    <3>1. \A i, j \in 0 .. Len(ws) : i <= j => g[i] <= g[j]
      BY PartedRises
    <3>2. m \in 0 .. n /\ n \in 0 .. n /\ m <= n
      BY <1>2
    <3>3. g[m] <= g[n]
      BY <1>1, <3>1, <3>2
    <3>4. bh <= Len(d) /\ Len(d) \in Nat
      BY <1>3, <1>5, <3>3
    <3>. QED BY <2>3, <2>7, <3>4
  <2>12. Behind(d, y)
    <3>1. PICK r : r = ParapraghRange(d, y, y)
      OBVIOUS
    <3>2. r[1] = bl /\ r[2] = bh
      BY <2>10, <3>1
    <3>3. y >= r[1] + HeadLength(Cut(d, r[1], r[2]))
      BY <2>3, <2>5, <2>6, <2>7, <3>2
    <3>. QED BY <2>11, <3>1, <3>3 DEF Behind
  <2>. QED BY <2>3, <2>9, <2>12
<1>10. CASE ~(c < off[m])
  <2>1. m = n /\ c = Len(t) /\ hi = c /\ bh = Len(d)
    BY <1>2, <1>3, <1>5, <1>6, <1>10
  <2>2. x = Len(d)
    <3>1. bh - (hi - c) = bh
      BY <2>1
    <3>2. Max({bh, bl}) = bh
      BY <1>7, Greater
    <3>. QED BY <1>8, <2>1, <3>1, <3>2
  <2>3. Behind(d, x)
    BY <1>3, <2>2, EndBehind
  <2>4. Cut(d, Len(d), Len(d)) = <<>> /\ Cut(t, Len(t), Len(t)) = <<>>
    BY <1>3 DEF Cut
  <2>5. SameRest(d, x, t, c)
    BY <2>1, <2>2, <2>4, Zenon DEF SameRest
  <2>. QED BY <2>3, <2>5
<1>. QED BY <1>9, <1>10

\* The same for a location of which only the paragraph is known.
LEMMA LocationKept ==
    ASSUME NEW t, NEW qs, NEW off, Parted(t, qs, off), NEW d, NEW ws, NEW g, Parted(d, ws, g),
           Len(ws) = Len(qs), \A i \in 1 .. Len(qs) : Body(ws[i]) = Body(qs[i]),
           NEW m, NEW c \in Nat, Holds(off, Len(qs), c, m), Behind(t, c),
           NEW x, x = NewLocation(ParapraghRange(t, c, c), <<g[m - 1], g[m]>>, c)
    PROVE  Behind(d, x) /\ SameRest(d, x, t, c)
<1>1. PICK r : r = ParapraghRange(t, c, c)
  OBVIOUS
<1>2. m \in 1 .. Len(qs) /\ off[m - 1] <= c /\ (c < off[m] \/ (m = Len(qs) /\ c = off[Len(qs)]))
  BY DEF Holds
<1>3. r[2] = off[m] /\ (c < off[m] => off[m - 1] + HeadLength(qs[m]) <= c)
  <2>1. CASE c < off[m]
    <3>1. PICK lo : lo = off[m - 1]
      OBVIOUS
    <3>2. PICK hi : hi = off[m]
      OBVIOUS
    <3>3. PICK q : q = qs[m]
      OBVIOUS
    <3>4. Spans(t, q, lo, hi)
      <4>1. Spans(t, qs[m], off[m - 1], off[m])
        BY <1>2, PartedSpans
      <4>. QED BY <3>1, <3>2, <3>3, <4>1, Zenon
    <3>5. lo <= c /\ c < hi
      BY <1>2, <2>1, <3>1, <3>2, Zenon
    <3>6. r = <<lo, hi>> /\ Cut(t, lo, hi) = q
      BY <1>1, <3>4, <3>5, Zenon DEF Spans
    <3>7. r[1] = lo /\ r[2] = hi
      BY <3>6
    <3>8. c >= r[1] + HeadLength(Cut(t, r[1], r[2]))
      BY <1>1, Zenon DEF Behind
    <3>9. c >= lo + HeadLength(q)
      BY <3>6, <3>7, <3>8, Zenon
    <3>10. lo \in Nat /\ HeadLength(q) \in Nat
      <4>1. off \in [0 .. Len(qs) -> Nat] /\ Len(qs) \in Nat
        BY PartedRises
      <4>2. q \in Seq(Char)
        BY <3>4, Zenon DEF Spans
      <4>3. HeadLength(q) \in Nat
        BY <4>2, BodyIs
      <4>4. lo \in Nat
        BY <1>2, <3>1, <4>1
      <4>. QED BY <4>3, <4>4
    <3>11. lo + HeadLength(q) <= c
      BY <3>9, <3>10
    <3>. QED BY <3>1, <3>2, <3>3, <3>7, <3>11, Zenon
  <2>2. CASE ~(c < off[m])
    <3>1. c = Len(t) /\ off[m] = c /\ t \in Seq(Char)
      <4>1. off[Len(qs)] = Len(t)
        BY PartedRises
      <4>2. t \in Seq(Char)
        BY DEF Parted
      <4>. QED BY <1>2, <2>2, <4>1, <4>2, Zenon
    <3>2. ParapraghRange(t, Len(t), Len(t))[2] = Len(t)
      BY <3>1, EndBehind
    <3>. QED BY <1>1, <2>2, <3>1, <3>2, Zenon
  <2>. QED BY <2>1, <2>2
<1>4. x = NewLocation(r, <<g[m - 1], g[m]>>, c)
  BY <1>1, Zenon
<1>. QED BY <1>3, <1>4, EndKept

\* A paragraph is found by its range.
LEMMA LineFound ==
    ASSUME NEW d, NEW qs, NEW off, Parted(d, qs, off), NEW ps, ps = AllParapraghRange(d),
           NEW x \in 1 .. Len(qs)
    PROVE  /\ ps # <<>> /\ ps[x] = <<off[x - 1], off[x]>>
           /\ (CHOOSE i \in DOMAIN ps : ps[i] = ps[x]) = x
<1>1. d \in Seq(Char) /\ WellFormed(qs) /\ Laid(qs, d, off)
  BY DEF Parted
<1>2. PICK n \in Nat : n = Len(qs)
  BY PartedRises
<1>3. off \in [0 .. n -> Nat] /\ \A i, j \in 0 .. n : i < j => off[i] < off[j]
  BY <1>2, PartedRises
<1>4. RangesFrom(ps, off, 0, n)
  BY <1>1, <1>2, AllRanges
<1>5. DOMAIN ps = 1 .. n /\ ps # <<>>
  BY <1>2, <1>4 DEF RangesFrom
<1>6. ASSUME NEW i \in 1 .. n PROVE ps[i] = <<off[i - 1], off[i]>>
  <2>1. i \in 1 .. (n - 0) /\ 0 + i - 1 = i - 1 /\ 0 + i = i
    OBVIOUS
  <2>2. ps[i] = <<off[0 + i - 1], off[0 + i]>>
    BY <1>4, <2>1, Zenon DEF RangesFrom
  <2>. QED BY <2>1, <2>2, Zenon
<1>7. ASSUME NEW i \in 1 .. n, ps[i] = ps[x] PROVE i = x
  <2>1. off[i] = off[x]
    <3>1. ps[i] = <<off[i - 1], off[i]>> /\ ps[x] = <<off[x - 1], off[x]>>
      BY <1>2, <1>6
    <3>2. <<off[i - 1], off[i]>> = <<off[x - 1], off[x]>>
      BY <1>7, <3>1, Zenon
    <3>. QED BY <3>2
  <2>2. i \in 0 .. n /\ x \in 0 .. n
    BY <1>2
  <2>3. ~(i < x) /\ ~(x < i)
    BY <1>3, <2>1, <2>2
  <2>. QED BY <1>2, <2>3
<1>8. (CHOOSE i \in DOMAIN ps : ps[i] = ps[x]) = x
  <2>1. x \in DOMAIN ps /\ \A i \in DOMAIN ps : ps[i] = ps[x] => i = x
    BY <1>2, <1>5, <1>7
  <2>. QED BY <2>1, Zenon
<1>. QED BY <1>2, <1>5, <1>6, <1>8

\* newRangeFor, given the paragraphs of both texts and those that the selection touches.
NewRange(t, a, b, ps, us, w) ==
    IF ps = <<>> THEN <<a, b>>
    ELSE <<NewLocation(ParapraghRange(t, a, a), us[CHOOSE i \in DOMAIN ps : ps[i] = Head(w)], a),
           NewLocation(ParapraghRange(t, b, b), us[CHOOSE i \in DOMAIN ps : ps[i] = Last(w)], b)>>

\* newRangeFor takes the paragraphs with the numbers of the first and of the last one
\* that the selection touches.
LEMMA NewRangeIs ==
    ASSUME NEW t, NEW qs, NEW off, Parted(t, qs, off), NEW d, NEW ws, NEW g, Parted(d, ws, g),
           Len(ws) = Len(qs), NEW a, NEW b, NEW x \in 1 .. Len(qs), NEW y \in 1 .. Len(qs),
           Picked(ParagraphRanges(t, a, b), Nat \X Nat, AllParapraghRange(t), x .. y, x, y)
    PROVE  NewRangeFor(t, a, b, d) =
             <<NewLocation(ParapraghRange(t, a, a), <<g[x - 1], g[x]>>, a),
               NewLocation(ParapraghRange(t, b, b), <<g[y - 1], g[y]>>, b)>>
<1>1. PICK ps : ps = AllParapraghRange(t)
  OBVIOUS
<1>2. PICK us : us = AllParapraghRange(d)
  OBVIOUS
<1>3. PICK w : w = ParagraphRanges(t, a, b)
  OBVIOUS
<1>4. Head(w) = ps[x] /\ Last(w) = ps[y]
  BY <1>1, <1>3, Zenon DEF Picked
<1>5. /\ ps # <<>> /\ (CHOOSE i \in DOMAIN ps : ps[i] = ps[x]) = x
      /\ (CHOOSE i \in DOMAIN ps : ps[i] = ps[y]) = y
  BY <1>1, LineFound
<1>6. us[x] = <<g[x - 1], g[x]>> /\ us[y] = <<g[y - 1], g[y]>>
  <2>1. x \in 1 .. Len(ws) /\ y \in 1 .. Len(ws)
    OBVIOUS
  <2>. QED BY <1>2, <2>1, LineFound
<1>7. NewRangeFor(t, a, b, d) = NewRange(t, a, b, ps, us, w)
  <2>1. NewRangeFor(t, a, b, d) =
          NewRange(t, a, b, AllParapraghRange(t), AllParapraghRange(d), ParagraphRanges(t, a, b))
    BY DEF NewRangeFor, NewRange
  <2>. QED BY <1>1, <1>2, <1>3, <2>1, Zenon
<1>8. us[CHOOSE i \in DOMAIN ps : ps[i] = Head(w)] = <<g[x - 1], g[x]>>
  BY <1>4, <1>5, <1>6, Zenon
<1>9. us[CHOOSE i \in DOMAIN ps : ps[i] = Last(w)] = <<g[y - 1], g[y]>>
  BY <1>4, <1>5, <1>6, Zenon
<1>10. NewRange(t, a, b, ps, us, w) =
         <<NewLocation(ParapraghRange(t, a, a), <<g[x - 1], g[x]>>, a),
           NewLocation(ParapraghRange(t, b, b), <<g[y - 1], g[y]>>, b)>>
  BY <1>5, <1>8, <1>9, Zenon DEF NewRange
<1>. QED BY <1>7, <1>10, Zenon

\* What SelectionKept says of the list button with the style, on the selection from a to b.
Kept(a, b, style) ==
    LET d == Restyled(a, b, style)
        n == NewRangeFor(text, a, b, d)
    IN  /\ ~Overflows(a, b, style)
        /\ Behind(text, a) => Behind(d, n[1]) /\ SameRest(d, n[1], text, a)
        /\ Behind(text, b) => Behind(d, n[2]) /\ SameRest(d, n[2], text, b)

\* The list button keeps every selection within the text.
LEMMA ButtonKeeps ==
    ASSUME TypeOK, text # <<>>, SingleHeads, ~BareEnd, NEW style \in Style,
           NEW a, NEW b, Within(text, a, b)
    PROVE  Kept(a, b, style)
<1>1. text \in Seq(Char) /\ a \in Nat /\ b \in Nat /\ a <= b /\ b <= Len(text) /\ a <= Len(text)
  BY DEF TypeOK, Within
<1>2. PICK qs : qs = Paras(text)
  OBVIOUS
<1>3. PICK off : Parted(text, qs, off)
  BY <1>1, <1>2, PartedIs
<1>4. PICK x : Holds(off, Len(qs), a, x)
  BY <1>1, <1>3, HoldsOne
<1>5. PICK y : Holds(off, Len(qs), b, y)
  BY <1>1, <1>3, HoldsOne
<1>6. x \in 1 .. Len(qs) /\ y \in 1 .. Len(qs)
  BY <1>4, <1>5, Zenon DEF Holds
<1>7. Picked(ParagraphRanges(text, a, b), Nat \X Nat, AllParapraghRange(text), x .. y, x, y)
  BY <1>1, <1>3, <1>4, <1>5, TouchedIs
<1>8. PICK d : d = Restyled(a, b, style)
  OBVIOUS
<1>9. ~Overflows(a, b, style) /\ SameBodies(d, qs)
  BY <1>3, <1>6, <1>7, <1>8, RestyledIs
<1>10. PICK ws : ws = Paras(d)
  OBVIOUS
<1>11. d \in Seq(Char) /\ Len(ws) = Len(qs) /\ \A i \in 1 .. Len(qs) : Body(ws[i]) = Body(qs[i])
  BY <1>9, <1>10, Zenon DEF SameBodies
<1>12. PICK g : Parted(d, ws, g)
  BY <1>10, <1>11, PartedIs
<1>13. PICK u : u = NewLocation(ParapraghRange(text, a, a), <<g[x - 1], g[x]>>, a)
  OBVIOUS
<1>14. PICK v : v = NewLocation(ParapraghRange(text, b, b), <<g[y - 1], g[y]>>, b)
  OBVIOUS
<1>15. NewRangeFor(text, a, b, d) = <<u, v>>
  BY <1>3, <1>6, <1>7, <1>11, <1>12, <1>13, <1>14, NewRangeIs
<1>16. Behind(text, a) => Behind(d, u) /\ SameRest(d, u, text, a)
  BY <1>1, <1>3, <1>4, <1>11, <1>12, <1>13, LocationKept
<1>17. Behind(text, b) => Behind(d, v) /\ SameRest(d, v, text, b)
  BY <1>1, <1>3, <1>5, <1>11, <1>12, <1>14, LocationKept
<1>18. PICK n : n = NewRangeFor(text, a, b, d)
  OBVIOUS
<1>19. n[1] = u /\ n[2] = v
  BY <1>15, <1>18
<1>20. /\ Behind(text, a) => Behind(d, n[1]) /\ SameRest(d, n[1], text, a)
       /\ Behind(text, b) => Behind(d, n[2]) /\ SameRest(d, n[2], text, b)
  BY <1>16, <1>17, <1>19, Zenon
<1>. QED BY <1>8, <1>9, <1>18, <1>20, Zenon DEF Kept

\* The list button keeps the selection, whatever edits came before: an end of it that is
\* not in a head stays in front of the same text of the same paragraph and does not come
\* to lie in a head, and mutableTransParagraphTo gets no empty paragraph, unless a
\* paragraph begins with two heads or the text ends with one.
THEOREM SelectionAlwaysKept == Spec => []SelectionKept
<1>1. ListsInv => SelectionKept
  <2>. SUFFICES ASSUME ListsInv PROVE SelectionKept
    OBVIOUS
  <2>1. SUFFICES ASSUME NEW r \in Selection, NEW style \in Style, text # <<>>, SingleHeads, ~BareEnd
                 PROVE  LET d == Restyled(r[1], r[2], style)
                            n == NewRangeFor(text, r[1], r[2], d)
                            Rest(e, x) == Bodies(Cut(e, x, Len(e)))
                        IN  ~Overflows(r[1], r[2], style) /\ \A k \in 1 .. 2 :
                              InBody(r[k]) =>
                                LET q == ParapraghRange(d, n[k], n[k])
                                IN  /\ n[k] \in 0 .. Len(d)
                                    /\ n[k] >= q[1] + HeadLength(Cut(d, q[1], q[2]))
                                    /\ Rest(d, n[k]) = Rest(text, r[k])
    BY DEF SelectionKept
  <2>2. PICK a : a = r[1]
    OBVIOUS
  <2>3. PICK b : b = r[2]
    OBVIOUS
  <2>4. TypeOK
    BY DEF ListsInv
  <2>5. Within(text, a, b)
    BY <2>2, <2>3, <2>4, SelectionIs
  <2>6. Kept(a, b, style)
    BY <2>1, <2>4, <2>5, ButtonKeeps
  <2>7. PICK d : d = Restyled(a, b, style)
    OBVIOUS
  <2>8. PICK n : n = NewRangeFor(text, a, b, d)
    OBVIOUS
  <2>9. /\ ~Overflows(a, b, style)
        /\ Behind(text, a) => Behind(d, n[1]) /\ SameRest(d, n[1], text, a)
        /\ Behind(text, b) => Behind(d, n[2]) /\ SameRest(d, n[2], text, b)
    BY <2>6, <2>7, <2>8, Zenon DEF Kept
  <2>10. a \in 0 .. Len(text) /\ b \in 0 .. Len(text)
    BY <2>4, <2>5 DEF TypeOK, Within
  <2>11. (InBody(a) => Behind(text, a)) /\ (InBody(b) => Behind(text, b))
    BY <2>10, Zenon DEF InBody, Behind
  <2>12. ASSUME NEW k \in 1 .. 2, InBody(r[k])
         PROVE  Behind(d, n[k]) /\ SameRest(d, n[k], text, r[k])
    <3>1. CASE k = 1
      BY <2>2, <2>9, <2>11, <2>12, <3>1, Zenon
    <3>2. CASE k = 2
      BY <2>3, <2>9, <2>11, <2>12, <3>2, Zenon
    <3>. QED BY <3>1, <3>2
  <2>13. d = Restyled(r[1], r[2], style) /\ n = NewRangeFor(text, r[1], r[2], d)
         /\ ~Overflows(r[1], r[2], style)
    BY <2>2, <2>3, <2>7, <2>8, <2>9, Zenon
  <2>. QED BY <2>12, <2>13, Zenon DEF Behind, SameRest
<1>. QED BY <1>1, ListsAlways, PTL
=============================================================================
