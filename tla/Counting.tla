------------------------------ MODULE Counting ------------------------------
(***************************************************************************)
(* Facts about counting the elements of a finite set of integers: what the *)
(* proofs about the keyboard's lines, the packed root directory, the       *)
(* open-file counts and the free blocks need of Cardinality; and induction *)
(* with the property given as a set.                                       *)
(***************************************************************************)
EXTENDS Integers, FiniteSets, FiniteSetsExt, FiniteSetTheorems, TLAPS

(***************************************************************************)
(* The elements of S that are smaller than i: as many as the rank of i.    *)
(***************************************************************************)
Below(S, i) == {j \in S : j < i}

LEMMA BelowFacts ==
  ASSUME NEW S, S \subseteq Int, IsFiniteSet(S), NEW i \in S
  PROVE  /\ IsFiniteSet(Below(S, i))
         /\ Cardinality(Below(S, i)) \in 0 .. Cardinality(S) - 1
         /\ Cardinality(S) \in Nat
  <1>1. Below(S, i) \in SUBSET S /\ i \notin Below(S, i)
    BY DEF Below
  <1>2. /\ IsFiniteSet(Below(S, i))
        /\ Cardinality(Below(S, i)) <= Cardinality(S)
        /\ Cardinality(S) = Cardinality(Below(S, i)) => S = Below(S, i)
    BY <1>1, FS_Subset
  <1>3. Cardinality(S) \in Nat /\ Cardinality(Below(S, i)) \in Nat
    BY <1>2, FS_CardinalityType
  <1> QED BY <1>1, <1>2, <1>3

(***************************************************************************)
(* A smaller element has a smaller rank.                                   *)
(***************************************************************************)
LEMMA BelowGrows ==
  ASSUME NEW S, S \subseteq Int, IsFiniteSet(S), NEW i \in S, NEW k \in S, i < k
  PROVE  Cardinality(Below(S, i)) < Cardinality(Below(S, k))
  <1> DEFINE A == Below(S, i)
             B == Below(S, k)
  <1>1. A \in SUBSET B /\ i \in B /\ i \notin A
    <2>1. \A j \in S : j < i => j < k
      OBVIOUS
    <2>2. \A j : j \in A => j \in B
      BY <2>1 DEF Below
    <2> QED BY <2>2 DEF Below
  <1>2. IsFiniteSet(A) /\ IsFiniteSet(B)
    BY BelowFacts
  <1> HIDE DEF A, B
  <1>3. Cardinality(A) <= Cardinality(B) /\ (Cardinality(B) = Cardinality(A) => B = A)
    BY <1>1, <1>2, FS_Subset
  <1>4. Cardinality(A) \in Nat /\ Cardinality(B) \in Nat
    BY <1>2, FS_CardinalityType
  <1>5. Cardinality(A) < Cardinality(B)
    BY <1>1, <1>3, <1>4
  <1> QED BY <1>5 DEF A, B

(***************************************************************************)
(* Every rank below the size of the set is taken, and by one element only. *)
(***************************************************************************)
LEMMA RankOnto ==
  ASSUME NEW S, S \subseteq Int, IsFiniteSet(S),
         NEW r \in 0 .. Cardinality(S) - 1
  PROVE  \E i \in S : Cardinality(Below(S, i)) = r
  <1>1. Cardinality(S) \in Nat
    BY FS_CardinalityType
  <1>2. PICK n : n = Cardinality(S)
    OBVIOUS
  <1>3. n \in Nat /\ r \in 0 .. n - 1
    BY <1>1, <1>2
  <1> DEFINE T == 0 .. n - 1
             f == [i \in S |-> Cardinality(Below(S, i))]
  <1>4. IsFiniteSet(T) /\ Cardinality(T) = n
    BY <1>3, FS_Interval
  <1>5. f \in [S -> T]
    BY <1>2, BelowFacts
  <1>6. ASSUME NEW i \in S, NEW k \in S, f[i] = f[k] PROVE i = k
    <2>1. i < k => f[i] < f[k]
      BY BelowGrows
    <2>2. k < i => f[k] < f[i]
      BY BelowGrows
    <2>3. f[i] \in Int /\ f[k] \in Int
      BY <1>5
    <2> HIDE DEF f
    <2> QED BY <1>6, <2>1, <2>2, <2>3
  <1> HIDE DEF f, T
  <1>7. f \in Injection(S, T)
    BY <1>5, <1>6 DEF Injection, IsInjective
  <1>8. f \in Surjection(S, T)
    BY <1>2, <1>4, <1>7, FS_Injection
  <1>9. r \in T
    BY <1>3 DEF T
  <1>10. \E i \in S : f[i] = r
    BY <1>8, <1>9 DEF Surjection
  <1> QED BY <1>10 DEF f

LEMMA RankUnique ==
  ASSUME NEW S, S \subseteq Int, IsFiniteSet(S), NEW i \in S, NEW k \in S,
         Cardinality(Below(S, i)) = Cardinality(Below(S, k))
  PROVE  i = k
  <1>1. i < k => Cardinality(Below(S, i)) < Cardinality(Below(S, k))
    BY BelowGrows
  <1>2. k < i => Cardinality(Below(S, k)) < Cardinality(Below(S, i))
    BY BelowGrows
  <1>3. /\ Cardinality(Below(S, i)) \in 0 .. Cardinality(S) - 1
        /\ Cardinality(S) \in Nat
    BY BelowFacts
  <1> QED BY <1>1, <1>2, <1>3

(***************************************************************************)
(* A finite set of integers that is not empty has a greatest and a         *)
(* smallest element.                                                       *)
(***************************************************************************)
LEMMA GreatestElement ==
  ASSUME NEW S, S \subseteq Int, IsFiniteSet(S), S # {}
  PROVE  \E m \in S : \A k \in S : k <= m
  <1>1. Cardinality(S) \in Nat /\ Cardinality(S) # 0
    BY FS_CardinalityType, FS_EmptySet
  <1>2. PICK m \in S : Cardinality(Below(S, m)) = Cardinality(S) - 1
    <2>1. PICK r : r = Cardinality(S) - 1
      OBVIOUS
    <2>2. r \in 0 .. Cardinality(S) - 1
      BY <1>1, <2>1
    <2>3. \E i \in S : Cardinality(Below(S, i)) = r
      BY <2>2, RankOnto
    <2> QED BY <2>1, <2>3
  <1>3. ASSUME NEW k \in S PROVE k <= m
    <2>1. m < k => Cardinality(Below(S, m)) < Cardinality(Below(S, k))
      BY BelowGrows
    <2>2. Cardinality(Below(S, k)) \in 0 .. Cardinality(S) - 1
      BY BelowFacts
    <2> QED BY <1>1, <1>2, <2>1, <2>2
  <1> QED BY <1>3

LEMMA SmallestElement ==
  ASSUME NEW S, S \subseteq Int, IsFiniteSet(S), S # {}
  PROVE  \E m \in S : \A k \in S : m <= k
  <1>1. Cardinality(S) \in Nat /\ Cardinality(S) # 0
    BY FS_CardinalityType, FS_EmptySet
  <1>2. PICK m \in S : Cardinality(Below(S, m)) = 0
    <2>1. 0 \in 0 .. Cardinality(S) - 1
      BY <1>1
    <2> QED BY <2>1, RankOnto
  <1>3. ASSUME NEW k \in S PROVE m <= k
    <2>1. k < m => Cardinality(Below(S, k)) < Cardinality(Below(S, m))
      BY BelowGrows
    <2>2. Cardinality(Below(S, k)) \in 0 .. Cardinality(S) - 1
      BY BelowFacts
    <2> QED BY <1>1, <1>2, <2>1, <2>2
  <1> QED BY <1>3

(***************************************************************************)
(* Min of a finite set of integers is its smallest element; Min of a set   *)
(* of indices is one of them.                                              *)
(***************************************************************************)
LEMMA MinLeast ==
  ASSUME NEW S, S \subseteq Int, IsFiniteSet(S), S # {}
  PROVE  Min(S) \in S /\ \A k \in S : Min(S) <= k
  <1>1. \E m \in S : \A k \in S : m <= k
    BY SmallestElement
  <1> QED BY <1>1, Zenon DEF Min

LEMMA MinIn ==
  ASSUME NEW n \in Nat, NEW S \in SUBSET (0 .. n), S # {}
  PROVE  Min(S) \in S
  <1>1. IsFiniteSet(0 .. n)
    BY FS_Interval
  <1>2. IsFiniteSet(S)
    BY <1>1, FS_Subset
  <1>3. S \subseteq Int
    OBVIOUS
  <1> QED BY <1>2, <1>3, MinLeast

LEMMA MinOfTwo ==
  ASSUME NEW a \in Int, NEW b \in Int
  PROVE  Min({a, b}) \in {a, b} /\ Min({a, b}) <= a /\ Min({a, b}) <= b
  <1>1. IsFiniteSet({a}) /\ IsFiniteSet({b})
    BY FS_Singleton
  <1>2. IsFiniteSet({a} \cup {b})
    BY <1>1, FS_Union
  <1>3. PICK S : S = {a, b}
    OBVIOUS
  <1>4. S = {a} \cup {b}
    BY <1>3
  <1>5. IsFiniteSet(S) /\ S \subseteq Int /\ S # {} /\ a \in S /\ b \in S
    BY <1>2, <1>3, <1>4
  <1>6. Min(S) \in S /\ \A k \in S : Min(S) <= k
    BY <1>5, MinLeast
  <1> QED BY <1>3, <1>5, <1>6

(***************************************************************************)
(* A set of at most one element.                                           *)
(***************************************************************************)
LEMMA AtMostOne ==
  ASSUME NEW S, \A f, g \in S : f = g
  PROVE  Cardinality(S) = IF S = {} THEN 0 ELSE 1
  <1>1. CASE S = {}
    BY <1>1, FS_EmptySet
  <1>2. CASE S # {}
    <2>1. PICK f : f \in S
      BY <1>2
    <2>2. S = {f}
      BY <2>1
    <2>3. Cardinality({f}) = 1
      BY FS_Singleton
    <2> QED BY <1>2, <2>2, <2>3
  <1> QED BY <1>1, <1>2
(***************************************************************************)
(* Induction with the property as a set, from one number up, from one      *)
(* number down, and over all numbers.                                      *)
(***************************************************************************)
LEMMA UpInduction ==
  ASSUME NEW a \in Int, NEW b \in Int, NEW S, a \in S,
         \A n \in a .. b - 1 : n \in S => n + 1 \in S
  PROVE  \A n \in a .. b : n \in S
  <1> SUFFICES ASSUME NEW j \in a .. b, j \notin S PROVE FALSE
    OBVIOUS
  <1>1. PICK B : B = {n \in a .. b : n \notin S}
    OBVIOUS
  <1>2. B \subseteq Int /\ B # {} /\ B \in SUBSET (a .. b)
    BY <1>1
  <1>3. IsFiniteSet(B)
    <2>1. IsFiniteSet(a .. b)
      BY FS_Interval
    <2> QED BY <1>2, <2>1, FS_Subset
  <1>4. PICK m \in B : \A k \in B : m <= k
    BY <1>2, <1>3, SmallestElement
  <1>5. m \in a .. b /\ m \notin S /\ m # a
    BY <1>1, <1>4
  <1>6. m - 1 \in a .. b - 1 /\ m - 1 \notin B
    BY <1>4, <1>5
  <1>7. m - 1 \in S
    BY <1>1, <1>6
  <1>8. PICK n \in a .. b - 1 : n = m - 1
    BY <1>6
  <1>9. n + 1 \in S
    BY <1>7, <1>8
  <1> QED BY <1>5, <1>8, <1>9

LEMMA DownInduction ==
  ASSUME NEW a \in Int, NEW b \in Int, NEW S, b \in S,
         \A n \in a .. b - 1 : n + 1 \in S => n \in S
  PROVE  \A n \in a .. b : n \in S
  <1> SUFFICES ASSUME NEW j \in a .. b, j \notin S PROVE FALSE
    OBVIOUS
  <1>1. PICK B : B = {n \in a .. b : n \notin S}
    OBVIOUS
  <1>2. B \subseteq Int /\ B # {} /\ B \in SUBSET (a .. b)
    BY <1>1
  <1>3. IsFiniteSet(B)
    <2>1. IsFiniteSet(a .. b)
      BY FS_Interval
    <2> QED BY <1>2, <2>1, FS_Subset
  <1>4. PICK m \in B : \A k \in B : k <= m
    BY <1>2, <1>3, GreatestElement
  <1>5. m \in a .. b - 1 /\ m \notin S
    BY <1>1, <1>4
  <1>6. m + 1 \in a .. b /\ m + 1 \notin B
    BY <1>4, <1>5
  <1>7. m + 1 \in S
    BY <1>1, <1>6
  <1> QED BY <1>5, <1>7

LEMMA NatInduct ==
  ASSUME NEW S, 0 \in S, \A n \in Nat : n \in S => n + 1 \in S
  PROVE  \A n \in Nat : n \in S
  <1> SUFFICES ASSUME NEW j \in Nat PROVE j \in S
    OBVIOUS
  <1>1. \A n \in 0 .. j - 1 : n \in S => n + 1 \in S
    OBVIOUS
  <1>2. \A n \in 0 .. j : n \in S
    BY <1>1, UpInduction
  <1> QED BY <1>2

=============================================================================
