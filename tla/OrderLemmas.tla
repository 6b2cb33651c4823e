----------------------------- MODULE OrderLemmas -----------------------------
(***************************************************************************)
(* What the proofs need of finite sets of numbers: that the ranks of their *)
(* members are the numbers from 1 to their size, that they have a greatest *)
(* and a least member, and that a function's values are no more than its   *)
(* arguments.                                                              *)
(***************************************************************************)
EXTENDS Integers, FiniteSetsExt, FiniteSetTheorems, TLAPS

\* The numbers up to one of them, and from it on.
Upto(S, e) == {f \in S : f <= e}
From(S, e) == {f \in S : e <= f}

\* A part of a finite set is finite and no larger, and a smaller one when something is missing.
LEMMA PartOfFinite ==
    ASSUME NEW S, IsFiniteSet(S), NEW T \in SUBSET S
    PROVE  /\ IsFiniteSet(T) /\ Cardinality(T) \in Nat /\ Cardinality(S) \in Nat
           /\ Cardinality(T) <= Cardinality(S)
           /\ T # S => Cardinality(T) < Cardinality(S)
  <1>1. IsFiniteSet(T) /\ Cardinality(T) <= Cardinality(S) /\ (Cardinality(S) = Cardinality(T) => S = T)
    BY FS_Subset
  <1>2. Cardinality(T) \in Nat /\ Cardinality(S) \in Nat  BY <1>1, FS_CardinalityType
  <1> QED  BY <1>1, <1>2

\* A later member has a higher rank.
LEMMA RankGrows ==
    ASSUME NEW S \in SUBSET Int, IsFiniteSet(S), NEW d \in Int, NEW e \in S, d < e
    PROVE  Cardinality(Upto(S, d)) < Cardinality(Upto(S, e))
  <1>1. Upto(S, e) \in SUBSET S  BY DEF Upto
  <1>2. IsFiniteSet(Upto(S, e))  BY <1>1, PartOfFinite
  <1>3. Upto(S, d) \in SUBSET Upto(S, e)
    <2>1. \A f \in Int : f <= d => f <= e  OBVIOUS
    <2> QED  BY <2>1 DEF Upto
  <1>4. Upto(S, d) # Upto(S, e)
    <2>1. e \in Upto(S, e) /\ e \notin Upto(S, d)  BY DEF Upto
    <2> QED  BY <2>1
  <1> QED  BY <1>2, <1>3, <1>4, PartOfFinite

\* Every number up to the size of the set is the rank of a member.
LEMMA RankExists ==
    ASSUME NEW S \in SUBSET Int, IsFiniteSet(S), NEW n \in 1..Cardinality(S)
    PROVE  \E e \in S : Cardinality(Upto(S, e)) = n
  <1> DEFINE c == Cardinality(S)
             rank == [e \in S |-> Cardinality(Upto(S, e))]
  <1>1. c \in Nat /\ IsFiniteSet(1..c) /\ Cardinality(1..c) = c
    BY FS_CardinalityType, FS_Interval
  <1>2. ASSUME NEW e \in S PROVE Cardinality(Upto(S, e)) \in 1..c
    <2>1. Upto(S, e) \in SUBSET S  BY DEF Upto
    <2>2. e \in Upto(S, e) /\ Upto(S, e) # {}  BY DEF Upto
    <2>3. Cardinality(Upto(S, e)) \in Nat /\ Cardinality(Upto(S, e)) <= c /\ IsFiniteSet(Upto(S, e))
      BY <2>1, PartOfFinite
    <2>4. Cardinality(Upto(S, e)) # 0  BY <2>2, <2>3, FS_EmptySet
    <2> QED  BY <2>3, <2>4, <1>1
  <1>3. rank \in [S -> 1..c]  BY <1>2
  <1>4. ASSUME NEW d \in S, NEW e \in S, rank[d] = rank[e] PROVE d = e
    <2>1. d \in Int /\ e \in Int  OBVIOUS
    <2>2. CASE d < e
      <3>1. Cardinality(Upto(S, d)) < Cardinality(Upto(S, e))  BY <2>1, <2>2, RankGrows
      <3> QED  BY <3>1, <1>4, <1>2
    <2>3. CASE e < d
      <3>1. Cardinality(Upto(S, e)) < Cardinality(Upto(S, d))  BY <2>1, <2>3, RankGrows
      <3> QED  BY <3>1, <1>4, <1>2
    <2> QED  BY <2>1, <2>2, <2>3
  <1> HIDE DEF c
  <1>5. rank \in Injection(S, 1..c)  BY <1>3, <1>4 DEF Injection, IsInjective
  <1>6. c = Cardinality(S)  BY DEF c
  <1> HIDE DEF rank
  <1>7. rank \in Surjection(S, 1..c)  BY <1>5, <1>1, <1>6, FS_Injection
  <1>8. PICK e \in S : rank[e] = n  BY <1>7, <1>6 DEF Surjection
  <1> QED  BY <1>8 DEF rank

\* A finite set of numbers that is not empty has a greatest and a least member.
LEMMA MaxIsGreatest ==
    ASSUME NEW S \in SUBSET Int, IsFiniteSet(S), S # {}
    PROVE  Max(S) \in S /\ \A e \in S : e <= Max(S)
  <1>1. Cardinality(S) \in Nat /\ Cardinality(S) # 0  BY FS_CardinalityType, FS_EmptySet
  <1>2. PICK m \in S : Cardinality(Upto(S, m)) = Cardinality(S)  BY <1>1, RankExists
  <1>3. Upto(S, m) \in SUBSET S  BY DEF Upto
  <1>4. Upto(S, m) = S  BY <1>2, <1>3, FS_Subset
  <1>5. \A e \in S : m >= e  BY <1>4 DEF Upto
  <1>6. \E x \in S : \A y \in S : x >= y  BY <1>5
  <1>7. Max(S) \in S /\ \A y \in S : Max(S) >= y  BY <1>6 DEF Max
  <1> QED  BY <1>7

\* The least of finitely many numbers is one of them, and none is less.
LEMMA MinIsLeast ==
    ASSUME NEW S \in SUBSET Int, IsFiniteSet(S), S # {}
    PROVE  Min(S) \in S /\ \A e \in S : Min(S) <= e
  <1>1. Cardinality(S) \in Nat /\ Cardinality(S) # 0  BY FS_CardinalityType, FS_EmptySet
  <1>2. PICK m \in S : Cardinality(Upto(S, m)) = 1  BY <1>1, RankExists
  <1>3. \A e \in S : m <= e
    <2>1. SUFFICES ASSUME NEW e \in S, e < m PROVE FALSE  OBVIOUS
    <2>2. Cardinality(Upto(S, e)) < 1  BY <1>2, <2>1, RankGrows
    <2>3. e \in Upto(S, e) /\ Upto(S, e) \in SUBSET S  BY DEF Upto
    <2>4. IsFiniteSet(Upto(S, e)) /\ Cardinality(Upto(S, e)) \in Nat  BY <2>3, PartOfFinite
    <2> QED  BY <2>2, <2>3, <2>4, FS_EmptySet
  <1>4. \E x \in S : \A y \in S : x <= y  BY <1>3
  <1> QED  BY <1>4 DEF Min

\* What a function makes of a finite set is finite and no larger.
LEMMA ImageIsFinite ==
    ASSUME NEW S, IsFiniteSet(S), NEW f
    PROVE  /\ IsFiniteSet({f[s] : s \in S})
           /\ Cardinality({f[s] : s \in S}) <= Cardinality(S)
  <1> DEFINE T == {f[s] : s \in S}
             g == [s \in S |-> f[s]]
  <1>1. g \in Surjection(S, T)  BY DEF Surjection
  <1> HIDE DEF g, T
  <1>2. IsFiniteSet(T) /\ Cardinality(T) <= Cardinality(S)  BY <1>1, FS_Surjection
  <1> QED  BY <1>2 DEF T

\* The dense rank of a number among those above 0 that a function takes.
LEMMA DenseRank ==
    ASSUME NEW S, IsFiniteSet(S), NEW f, \A s \in S : f[s] \in Nat, NEW t \in S
    PROVE  LET rank == Cardinality({f[u] : u \in {v \in S : f[v] # 0 /\ f[v] <= f[t]}})
           IN  rank \in 0..Cardinality(S) /\ (rank = 0 <=> f[t] = 0)
  <1> DEFINE V == {v \in S : f[v] # 0 /\ f[v] <= f[t]}
             B == {f[u] : u \in V}
  <1>1. V \in SUBSET S /\ (V = {} <=> f[t] = 0)
    <2>1. f[t] # 0 => t \in V  OBVIOUS
    <2>2. f[t] = 0 => V = {}  OBVIOUS
    <2> QED  BY <2>1, <2>2
  <1>2. B = {} <=> V = {}  OBVIOUS
  <1> HIDE DEF V
  <1>3. IsFiniteSet(V) /\ Cardinality(V) <= Cardinality(S)  BY <1>1, FS_Subset
  <1>4. IsFiniteSet(B) /\ Cardinality(B) <= Cardinality(V)  BY <1>3, ImageIsFinite
  <1> HIDE DEF B
  <1>5. Cardinality(B) \in Nat /\ Cardinality(V) \in Nat /\ Cardinality(S) \in Nat
    BY <1>3, <1>4, FS_CardinalityType
  <1>6. Cardinality(B) = 0 <=> B = {}  BY <1>4, FS_EmptySet
  <1>7. Cardinality(B) \in 0..Cardinality(S) /\ (Cardinality(B) = 0 <=> f[t] = 0)
    BY <1>1, <1>2, <1>3, <1>4, <1>5, <1>6
  <1> QED  BY <1>7 DEF B, V

\* The greatest of a function's values.
LEMMA GreatestValue ==
    ASSUME NEW S, IsFiniteSet(S), S # {}, NEW f, \A s \in S : f[s] \in Nat
    PROVE  LET m == CHOOSE n \in {f[s] : s \in S} : \A s \in S : f[s] <= n
           IN  m \in Nat /\ \A s \in S : f[s] <= m
  <1> DEFINE V == {f[s] : s \in S}
  <1>1. V \in SUBSET Int /\ V # {} /\ \A n \in V : n \in Nat  OBVIOUS
  <1>2. \A s \in S : f[s] \in V  OBVIOUS
  <1>3. IsFiniteSet(V)  BY ImageIsFinite
  <1> HIDE DEF V
  <1>4. Max(V) \in V /\ \A n \in V : n <= Max(V)  BY <1>1, <1>3, MaxIsGreatest
  <1>5. \E n \in V : \A s \in S : f[s] <= n  BY <1>2, <1>4
  <1>6. (CHOOSE n \in V : \A s \in S : f[s] <= n) \in V
        /\ \A s \in S : f[s] <= (CHOOSE n \in V : \A q \in S : f[q] <= n)
    BY <1>5
  <1> QED  BY <1>1, <1>6 DEF V

\* Ranks counted from the other end.
LEMMA BackRank ==
    ASSUME NEW S \in SUBSET Int, IsFiniteSet(S), NEW e \in S
    PROVE  /\ Cardinality(From(S, e)) = Cardinality(S) - Cardinality(Upto(S, e)) + 1
           /\ Cardinality(From(S, e)) \in Nat /\ Cardinality(Upto(S, e)) \in Nat
  <1>1. From(S, e) \in SUBSET S /\ Upto(S, e) \in SUBSET S  BY DEF From, Upto
  <1>2. /\ IsFiniteSet(From(S, e)) /\ IsFiniteSet(Upto(S, e)) /\ Cardinality(S) \in Nat
        /\ Cardinality(From(S, e)) \in Nat /\ Cardinality(Upto(S, e)) \in Nat
    BY <1>1, PartOfFinite
  <1>3. From(S, e) \cup Upto(S, e) = S
    <2>1. \A f \in Int : e <= f \/ f <= e  OBVIOUS
    <2> QED  BY <2>1 DEF From, Upto
  <1>4. From(S, e) \cap Upto(S, e) = {e}
    <2>1. \A f \in Int : e <= f /\ f <= e <=> f = e  OBVIOUS
    <2> QED  BY <2>1 DEF From, Upto
  <1>5. Cardinality(From(S, e) \cup Upto(S, e)) = Cardinality(From(S, e)) + Cardinality(Upto(S, e))
                                                    - Cardinality(From(S, e) \cap Upto(S, e))
    BY <1>2, FS_Union
  <1>6. Cardinality({e}) = 1  BY FS_Singleton
  <1>7. Cardinality(S) = Cardinality(From(S, e)) + Cardinality(Upto(S, e)) - 1
    BY <1>3, <1>4, <1>5, <1>6, Zenon
  <1> QED  BY <1>2, <1>7

\* Every rank from the end is somebody's.
LEMMA BackRankExists ==
    ASSUME NEW S \in SUBSET Int, IsFiniteSet(S), NEW n \in 1..Cardinality(S)
    PROVE  \E e \in S : Cardinality(From(S, e)) = n
  <1>1. Cardinality(S) \in Nat  BY FS_CardinalityType
  <1>2. Cardinality(S) - n + 1 \in 1..Cardinality(S)  BY <1>1
  <1>3. PICK e \in S : Cardinality(Upto(S, e)) = Cardinality(S) - n + 1  BY <1>2, RankExists
  <1>4. Cardinality(From(S, e)) = n  BY <1>1, <1>3, BackRank
  <1> QED  BY <1>4

\* What comes earlier has the greater rank from the end.
LEMMA BackRankGrows ==
    ASSUME NEW S \in SUBSET Int, IsFiniteSet(S), NEW d \in S, NEW e \in S, d < e
    PROVE  Cardinality(From(S, e)) < Cardinality(From(S, d))
  <1>1. Cardinality(Upto(S, d)) < Cardinality(Upto(S, e))  BY RankGrows
  <1>2. Cardinality(S) \in Nat  BY FS_CardinalityType
  <1> QED  BY <1>1, <1>2, BackRank

\* The greater and the lesser of two.
LEMMA OfTwo ==
    ASSUME NEW a \in Int, NEW b \in Int
    PROVE  /\ Max({a, b}) = IF a <= b THEN b ELSE a
           /\ Min({a, b}) = IF a <= b THEN a ELSE b
  <1> DEFINE M == {a, b}
  <1>1. M \in SUBSET Int /\ M # {}  OBVIOUS
  <1>2. IsFiniteSet({a}) /\ M = {a} \cup {b}  BY FS_Singleton
  <1>3. IsFiniteSet(M)  BY <1>2, FS_AddElement
  <1>4. Max(M) \in M /\ (\A e \in M : e <= Max(M)) /\ Min(M) \in M /\ (\A e \in M : Min(M) <= e)
    <2> HIDE DEF M
    <2> QED  BY <1>1, <1>3, MaxIsGreatest, MinIsLeast
  <1> QED  BY <1>4

=============================================================================
