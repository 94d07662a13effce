------------------------------ MODULE SetSums ------------------------------
(***************************************************************************)
(* Finite sets, their numberings and sums over them, as the proofs about    *)
(* the searches need them.                                                  *)
(***************************************************************************)
EXTENDS Sums, SequencesExt, FiniteSetTheorems, TLAPS

\* A part of a finite set is finite and no larger; it is the whole set when it
\* is as large.
LEMMA PartsOfFinite ==
    ASSUME NEW S, IsFiniteSet(S)
    PROVE  /\ Cardinality(S) \in Nat
           /\ \A T \in SUBSET S :
                 /\ IsFiniteSet(T)
                 /\ Cardinality(T) \in Nat
                 /\ Cardinality(T) <= Cardinality(S)
                 /\ Cardinality(S) <= Cardinality(T) => T = S
    BY FS_Subset, FS_CardinalityType

\* What comes before an element of a finite set is fewer than the set.
LEMMA PlaceAmong ==
    ASSUME NEW U, IsFiniteSet(U), NEW E \in SUBSET U, NEW v \in U, v \notin E
    PROVE  Cardinality(E) \in 0..(Cardinality(U) - 1)
<1>1. /\ Cardinality(U) \in Nat /\ Cardinality(E) \in Nat
      /\ Cardinality(E) <= Cardinality(U)
      /\ ~(Cardinality(U) <= Cardinality(E))
    BY PartsOfFinite
<1> QED
    BY <1>1

\* A set that meets K, where K is disjoint from A, has more in A and K than in A.
LEMMA MeetsNewCore ==
    ASSUME NEW P, NEW A, NEW K, IsFiniteSet(A \cup K),
           A \cap K = {}, P \cap K # {}
    PROVE  Cardinality(P \cap A) + 1 <= Cardinality(P \cap (A \cup K))
<1>1. PICK x \in P \cap K : TRUE
    OBVIOUS
<1>2. /\ P \cap A \in SUBSET (A \cup K)
      /\ P \cap (A \cup K) \in SUBSET (A \cup K)
      /\ x \notin P \cap A
    BY <1>1
<1>3. IsFiniteSet(P \cap A) /\ IsFiniteSet(P \cap (A \cup K))
    BY <1>2, PartsOfFinite
<1>4. Cardinality((P \cap A) \cup {x}) = Cardinality(P \cap A) + 1
    BY <1>2, <1>3, FS_AddElement
<1>5. (P \cap A) \cup {x} \in SUBSET (P \cap (A \cup K))
    BY <1>1
<1> QED
    BY <1>3, <1>4, <1>5, PartsOfFinite

\* Induction over the subsets of a finite set: what holds of a subset when it
\* holds of all that lack one element of it holds of the set.
LEMMA SubsetInduction ==
    ASSUME NEW S, IsFiniteSet(S), NEW C,
           \A T \in SUBSET S : (\A x \in T : T \ {x} \in C) => T \in C
    PROVE  \A T \in SUBSET S : T \in C
<1> DEFINE Bad == {T \in SUBSET S : T \notin C}
<1>1. SUFFICES ASSUME Bad # {}
               PROVE  FALSE
    OBVIOUS
<1>2. Bad \subseteq FiniteSubsetsOf(S)
    BY FS_FiniteSubsetsOfFinite
<1>3. IsWellFoundedOn(StrictSubsetOrdering(S), FiniteSubsetsOf(S))
    BY FS_StrictSubsetOrderingWellFounded
<1>4. PICK T \in Bad : \A U \in Bad : ~ (<<U, T>> \in StrictSubsetOrdering(S))
  <2> HIDE DEF Bad
  <2> QED
    BY <1>1, <1>2, <1>3, WFMin
<1>5. ASSUME NEW x \in T
      PROVE  T \ {x} \in C
  <2>1. T \ {x} \in SUBSET S /\ T \ {x} # T
    OBVIOUS
  <2>2. <<T \ {x}, T>> \in StrictSubsetOrdering(S)
    BY <2>1 DEF StrictSubsetOrdering
  <2> QED
    BY <1>4, <2>1, <2>2
<1> QED
    BY <1>4, <1>5

-----------------------------------------------------------------------------
\* A sum is the size of a set: w[x] pieces for each x.
Pieces(w, S) == UNION {{x} \X (1..w[x]) : x \in S}

\* No set, no pieces.
LEMMA PiecesOfNone ==
    ASSUME NEW w
    PROVE  Cardinality(Pieces(w, {})) = 0 /\ IsFiniteSet(Pieces(w, {}))
    BY FS_EmptySet DEF Pieces

\* An element adds its pieces to those of the others.
LEMMA PiecesWithout ==
    ASSUME NEW w, NEW S, NEW x \in S, w[x] \in Nat, IsFiniteSet(Pieces(w, S \ {x}))
    PROVE  /\ IsFiniteSet(Pieces(w, S))
           /\ Cardinality(Pieces(w, S)) = Cardinality(Pieces(w, S \ {x})) + w[x]
<1> DEFINE A == Pieces(w, S \ {x})
           I == 1..w[x]
           B == {x} \X I
<1>1. Pieces(w, S) = A \cup B
    BY DEF Pieces
<1>2. A \cap B = {}
    BY DEF Pieces
<1>3. IsFiniteSet(I) /\ Cardinality(I) = w[x]
    BY FS_Interval
<1>4. IsFiniteSet({x}) /\ Cardinality({x}) = 1
    BY FS_Singleton
<1>5. IsFiniteSet(B) /\ Cardinality(B) = w[x]
  <2> HIDE DEF I
  <2>1. IsFiniteSet(B) /\ Cardinality(B) = 1 * Cardinality(I)
    BY <1>3, <1>4, FS_Product
  <2> QED
    BY <1>3, <2>1
<1>6. IsFiniteSet(A \cup B) /\ Cardinality(A \cup B) = Cardinality(A) + Cardinality(B) - Cardinality(A \cap B)
  <2>1. IsFiniteSet(A)
    OBVIOUS
  <2> HIDE DEF A, B
  <2> QED
    BY <2>1, <1>5, FS_Union
<1>7. Cardinality(A) \in Nat
    BY FS_CardinalityType
<1>9. Cardinality(A \cap B) = 0
    BY <1>2, FS_EmptySet
<1> HIDE DEF A, B
<1>8. /\ IsFiniteSet(Pieces(w, S))
      /\ Cardinality(Pieces(w, S)) = Cardinality(A) + w[x]
    BY <1>1, <1>9, <1>5, <1>6, <1>7
<1> QED
    BY <1>8 DEF A

\* With weights in Nat there are finitely many pieces.
LEMMA PiecesFinite ==
    ASSUME NEW S, IsFiniteSet(S), NEW w, \A x \in S : w[x] \in Nat
    PROVE  \A T \in SUBSET S : IsFiniteSet(Pieces(w, T)) /\ Cardinality(Pieces(w, T)) \in Nat
<1> DEFINE C == {T \in SUBSET S : IsFiniteSet(Pieces(w, T))}
<1>1. ASSUME NEW T \in SUBSET S, \A x \in T : T \ {x} \in C
      PROVE  T \in C
  <2>1. CASE T = {}
    BY <2>1, PiecesOfNone
  <2>2. CASE T # {}
    <3>1. PICK x \in T : TRUE
      BY <2>2
    <3> QED
      BY <1>1, <3>1, PiecesWithout
  <2> QED
    BY <2>1, <2>2
<1>2. \A T \in SUBSET S : T \in C
  <2> HIDE DEF C
  <2> QED
    BY <1>1, SubsetInduction
<1> QED
    BY <1>2, FS_CardinalityType

\* The fold of SumOver, whatever order it takes the elements in, counts the
\* pieces.
LEMMA SumIsPieces ==
    ASSUME NEW S, IsFiniteSet(S), NEW w, \A x \in S : w[x] \in Nat
    PROVE  SumOver(w, S) = Cardinality(Pieces(w, S))
<1> DEFINE some(s) == CHOOSE x \in s : TRUE
           Sums(f) == f = [s \in SUBSET S |->
                             IF s = {} THEN 0 ELSE f[s \ {some(s)}] + w[some(s)]]
           sum == CHOOSE f : Sums(f)
           size == [s \in SUBSET S |-> Cardinality(Pieces(w, s))]
<1>1. SumOver(w, S) = sum[S]
    BY DEF SumOver, FoldSet, MapThenFoldSet
<1>2. Sums(size)
  <2>1. ASSUME NEW s \in SUBSET S, s # {}
        PROVE  size[s] = size[s \ {some(s)}] + w[some(s)]
    BY <2>1, PiecesFinite, PiecesWithout
  <2>2. size[{}] = 0
    BY PiecesOfNone
  <2>3. size = [s \in SUBSET S |-> IF s = {} THEN 0 ELSE size[s \ {some(s)}] + w[some(s)]]
    BY <2>1, <2>2
  <2> QED
    BY <2>3
<1>3. Sums(sum)
  <2> HIDE DEF size, Sums
  <2> QED
    BY <1>2
<1> DEFINE C == {T \in SUBSET S : sum[T] = size[T]}
<1>4. ASSUME NEW T \in SUBSET S, \A x \in T : T \ {x} \in C
      PROVE  T \in C
  <2> HIDE DEF sum, size
  <2>1. sum[T] = IF T = {} THEN 0 ELSE sum[T \ {some(T)}] + w[some(T)]
    BY <1>3
  <2>2. size[T] = IF T = {} THEN 0 ELSE size[T \ {some(T)}] + w[some(T)]
    BY <1>2
  <2> QED
    BY <1>4, <2>1, <2>2
<1>5. \A T \in SUBSET S : T \in C
  <2> HIDE DEF C
  <2> QED
    BY <1>4, SubsetInduction
<1> QED
    BY <1>1, <1>5

-----------------------------------------------------------------------------
\* w gives every element of the finite set S a weight.
Weighing(w, S) == IsFiniteSet(S) /\ \A x \in S : w[x] \in Nat

\* The weights of a set are weights of its parts.
LEMMA WeighingParts ==
    ASSUME NEW w, NEW S, Weighing(w, S), NEW T \in SUBSET S
    PROVE  Weighing(w, T)
    BY FS_Subset DEF Weighing

\* A sum of weights is a weight.
LEMMA SumType == ASSUME NEW w, NEW S, Weighing(w, S) PROVE SumOver(w, S) \in Nat
    BY SumIsPieces, PiecesFinite DEF Weighing

\* The empty sum.
LEMMA SumOfNone == ASSUME NEW w PROVE SumOver(w, {}) = 0
<1>1. SumOver(w, {}) = Cardinality(Pieces(w, {}))
    BY SumIsPieces, FS_EmptySet
<1> QED
    BY <1>1, PiecesOfNone

\* Any element can be taken out of a sum.
LEMMA SumWithout ==
    ASSUME NEW w, NEW S, Weighing(w, S), NEW x \in S
    PROVE  /\ SumOver(w, S) = SumOver(w, S \ {x}) + w[x]
           /\ SumOver(w, S \ {x}) \in Nat
<1>1. Weighing(w, S \ {x})
    BY WeighingParts
<1>2. SumOver(w, S \ {x}) = Cardinality(Pieces(w, S \ {x}))
    BY <1>1, SumIsPieces DEF Weighing
<1>3. IsFiniteSet(Pieces(w, S \ {x}))
    BY PiecesFinite DEF Weighing
<1>4. SumOver(w, S) = Cardinality(Pieces(w, S))
    BY SumIsPieces DEF Weighing
<1>5. Cardinality(Pieces(w, S)) = Cardinality(Pieces(w, S \ {x})) + w[x]
    BY <1>3, PiecesWithout DEF Weighing
<1> QED
    BY <1>1, <1>2, <1>4, <1>5, SumType

\* Equal weights have equal sums.
LEMMA SumSame ==
    ASSUME NEW w, NEW v, NEW S, Weighing(w, S), \A x \in S : v[x] = w[x]
    PROVE  SumOver(v, S) = SumOver(w, S)
<1>1. Pieces(v, S) = Pieces(w, S)
    BY DEF Pieces
<1>2. SumOver(w, S) = Cardinality(Pieces(w, S))
    BY SumIsPieces DEF Weighing
<1>3. SumOver(v, S) = Cardinality(Pieces(v, S))
    BY SumIsPieces DEF Weighing
<1> QED
    BY <1>1, <1>2, <1>3

\* The sum of sums of weights.
LEMMA SumPlus ==
    ASSUME NEW w, NEW u, NEW v, NEW S, Weighing(u, S), Weighing(v, S),
           \A x \in S : w[x] = u[x] + v[x]
    PROVE  SumOver(w, S) = SumOver(u, S) + SumOver(v, S)
<1> DEFINE C == {T \in SUBSET S : SumOver(w, T) = SumOver(u, T) + SumOver(v, T)}
<1>1. ASSUME NEW T \in SUBSET S, \A x \in T : T \ {x} \in C
      PROVE  T \in C
  <2>1. CASE T = {}
    BY <2>1, SumOfNone
  <2>2. CASE T # {}
    <3>1. PICK x \in T : TRUE
      BY <2>2
    <3>2. Weighing(u, T) /\ Weighing(v, T)
      BY WeighingParts
    <3>3. Weighing(w, T)
      BY <3>2 DEF Weighing
    <3>4. SumOver(u, T) = SumOver(u, T \ {x}) + u[x] /\ SumOver(u, T \ {x}) \in Nat
      BY <3>2, SumWithout
    <3>5. SumOver(v, T) = SumOver(v, T \ {x}) + v[x] /\ SumOver(v, T \ {x}) \in Nat
      BY <3>2, SumWithout
    <3>6. SumOver(w, T) = SumOver(w, T \ {x}) + w[x]
      BY <3>3, SumWithout
    <3>7. SumOver(w, T \ {x}) = SumOver(u, T \ {x}) + SumOver(v, T \ {x})
      BY <1>1
    <3>8. w[x] = u[x] + v[x] /\ u[x] \in Nat /\ v[x] \in Nat
      BY DEF Weighing
    <3> QED
      BY <3>4, <3>5, <3>6, <3>7, <3>8
  <2> QED
    BY <2>1, <2>2
<1>2. IsFiniteSet(S)
    BY DEF Weighing
<1>3. \A U \in SUBSET S : U \in C
  <2> HIDE DEF C
  <2> QED
    BY <1>1, <1>2, SubsetInduction
<1> QED
    BY <1>3

\* The sum over two sets that have nothing in common.
LEMMA SumApart ==
    ASSUME NEW w, NEW S, NEW T, Weighing(w, S \cup T), S \cap T = {}
    PROVE  SumOver(w, S \cup T) = SumOver(w, S) + SumOver(w, T)
<1> DEFINE C == {U \in SUBSET T : SumOver(w, S \cup U) = SumOver(w, S) + SumOver(w, U)}
<1>1. ASSUME NEW U \in SUBSET T, \A x \in U : U \ {x} \in C
      PROVE  U \in C
  <2>1. CASE U = {}
    <3>1. SumOver(w, S) \in Nat /\ S \cup U = S
      BY <2>1, WeighingParts, SumType
    <3> QED
      BY <2>1, <3>1, SumOfNone
  <2>2. CASE U # {}
    <3>1. PICK x \in U : TRUE
      BY <2>2
    <3>2. Weighing(w, U) /\ Weighing(w, S \cup U) /\ Weighing(w, S)
      BY WeighingParts
    <3>3. (S \cup U) \ {x} = S \cup (U \ {x})
      OBVIOUS
    <3>4. SumOver(w, U) = SumOver(w, U \ {x}) + w[x] /\ SumOver(w, U \ {x}) \in Nat
      BY <3>2, SumWithout
    <3>5. SumOver(w, S \cup U) = SumOver(w, S \cup (U \ {x})) + w[x]
      BY <3>2, <3>3, SumWithout
    <3>6. SumOver(w, S \cup (U \ {x})) = SumOver(w, S) + SumOver(w, U \ {x})
      BY <1>1
    <3>7. w[x] \in Nat /\ SumOver(w, S) \in Nat
      BY <3>2, SumType DEF Weighing
    <3> QED
      BY <3>4, <3>5, <3>6, <3>7
  <2> QED
    BY <2>1, <2>2
<1>2. IsFiniteSet(T)
    BY FS_Subset DEF Weighing
<1>3. \A U \in SUBSET T : U \in C
  <2> HIDE DEF C
  <2> QED
    BY <1>1, <1>2, SubsetInduction
<1> QED
    BY <1>3

\* A sum does not depend on what its elements are called.
LEMMA SumMoved ==
    ASSUME NEW v, NEW w, NEW S, NEW T, NEW f \in Bijection(S, T), Weighing(w, S),
           \A x \in S : w[x] = v[f[x]]
    PROVE  SumOver(v, T) = SumOver(w, S) /\ Weighing(v, T)
<1> DEFINE Image(U) == {f[x] : x \in U}
           C == {U \in SUBSET S : SumOver(v, Image(U)) = SumOver(w, U)}
<1>0. Weighing(v, T)
  <2>1. IsFiniteSet(T)
    BY FS_Bijection DEF Weighing, ExistsBijection
  <2>2. \A y \in T : \E x \in S : y = f[x]
    BY DEF Bijection, Surjection
  <2> QED
    BY <2>1, <2>2 DEF Weighing
<1>1. ASSUME NEW U \in SUBSET S, \A x \in U : U \ {x} \in C
      PROVE  U \in C
  <2>1. CASE U = {}
    BY <2>1, SumOfNone
  <2>2. CASE U # {}
    <3>1. PICK x \in U : TRUE
      BY <2>2
    <3>2. Weighing(w, U) /\ Image(U) \in SUBSET T
      BY WeighingParts DEF Bijection, Injection
    <3>3. Weighing(v, Image(U))
      BY <3>2, <1>0, WeighingParts
    <3>4. Image(U) \ {f[x]} = Image(U \ {x})
      BY DEF Bijection, Injection, IsInjective
    <3>5. SumOver(w, U) = SumOver(w, U \ {x}) + w[x] /\ SumOver(w, U \ {x}) \in Nat
      BY <3>2, SumWithout
    <3>6. SumOver(v, Image(U)) = SumOver(v, Image(U) \ {f[x]}) + v[f[x]]
      <4>1. f[x] \in Image(U)
        OBVIOUS
      <4> HIDE DEF Image
      <4> QED
        BY <3>3, <4>1, SumWithout
    <3>7. SumOver(v, Image(U \ {x})) = SumOver(w, U \ {x})
      BY <1>1
    <3>8. w[x] = v[f[x]]
      OBVIOUS
    <3> HIDE DEF Image
    <3>9. SumOver(v, Image(U)) = SumOver(w, U)
      BY <3>4, <3>5, <3>6, <3>7, <3>8
    <3> QED
      BY <3>9
  <2> QED
    BY <2>1, <2>2
<1>2. IsFiniteSet(S)
    BY DEF Weighing
<1>3. \A U \in SUBSET S : U \in C
  <2> HIDE DEF C
  <2> QED
    BY <1>1, <1>2, SubsetInduction
<1>4. Image(S) = T
    BY DEF Bijection, Surjection
<1> QED
    BY <1>0, <1>3, <1>4

\* The sum of equal weights.
LEMMA SumConstant ==
    ASSUME NEW w, NEW S, IsFiniteSet(S), NEW n \in Nat, \A x \in S : w[x] = n
    PROVE  SumOver(w, S) = Cardinality(S) * n
<1> DEFINE C == {U \in SUBSET S : SumOver(w, U) = Cardinality(U) * n}
<1>1. ASSUME NEW U \in SUBSET S, \A x \in U : U \ {x} \in C
      PROVE  U \in C
  <2>1. CASE U = {}
    BY <2>1, SumOfNone, FS_EmptySet
  <2>2. CASE U # {}
    <3>1. PICK x \in U : TRUE
      BY <2>2
    <3>2. Weighing(w, U)
      BY FS_Subset DEF Weighing
    <3>3. IsFiniteSet(U) /\ Cardinality(U) \in Nat /\ Cardinality(U \ {x}) = Cardinality(U) - 1
      BY <3>2, FS_RemoveElement, FS_CardinalityType DEF Weighing
    <3>4. SumOver(w, U) = SumOver(w, U \ {x}) + w[x] /\ SumOver(w, U \ {x}) \in Nat
      BY <3>2, SumWithout
    <3>5. SumOver(w, U \ {x}) = Cardinality(U \ {x}) * n
      BY <1>1
    <3>6. Cardinality(U) * n = (Cardinality(U) - 1) * n + n
      BY <3>3
    <3> QED
      BY <3>3, <3>4, <3>5, <3>6
  <2> QED
    BY <2>1, <2>2
<1>3. \A U \in SUBSET S : U \in C
  <2> HIDE DEF C
  <2> QED
    BY <1>1, SubsetInduction
<1> QED
    BY <1>3

\* What weighs nothing adds nothing.
LEMMA SumOfZeros ==
    ASSUME NEW w, NEW S, IsFiniteSet(S), \A x \in S : w[x] = 0
    PROVE  SumOver(w, S) = 0
<1>1. SumOver(w, S) = Cardinality(S) * 0 /\ Cardinality(S) \in Nat
    BY SumConstant, FS_CardinalityType
<1> QED
    BY <1>1

\* A sum is as great as each of its weights.
LEMMA SumAtLeast ==
    ASSUME NEW w, NEW S, Weighing(w, S), NEW x \in S
    PROVE  w[x] <= SumOver(w, S)
<1>1. SumOver(w, S) = SumOver(w, S \ {x}) + w[x] /\ SumOver(w, S \ {x}) \in Nat
    BY SumWithout
<1>2. w[x] \in Nat
    BY DEF Weighing
<1> QED
    BY <1>1, <1>2

\* From the weights of K the amount d is taken; R is what has no weight left.
Taken(u, v, d, S, K, R) ==
    /\ K \in SUBSET S /\ R \in SUBSET K
    /\ Weighing(u, S) /\ Weighing(v, S \ R) /\ Weighing(d, K)
    /\ \A x \in S \ K : u[x] = v[x]
    /\ \A x \in K \ R : u[x] = v[x] + d[x]
    /\ \A x \in R : u[x] = d[x]

\* What is taken from the weights is taken from their sum.
LEMMA SumTaken ==
    ASSUME NEW u, NEW v, NEW d, NEW S, NEW K, NEW R, Taken(u, v, d, S, K, R)
    PROVE  SumOver(u, S) = SumOver(v, S \ R) + SumOver(d, K)
<1> USE DEF Taken
<1>1. /\ S = (S \ K) \cup ((K \ R) \cup R)
      /\ S \ R = (S \ K) \cup (K \ R)
      /\ K = (K \ R) \cup R
    OBVIOUS
<1>2. SumOver(u, S) = SumOver(u, S \ K) + SumOver(u, K)
  <2>1. S = (S \ K) \cup K /\ (S \ K) \cap K = {}
    OBVIOUS
  <2> QED
    BY <2>1, SumApart
<1>3. Weighing(u, K) /\ Weighing(u, S \ K) /\ Weighing(v, K \ R) /\ Weighing(v, S \ K)
  <2>1. S \ K \in SUBSET (S \ R) /\ K \ R \in SUBSET (S \ R)
    OBVIOUS
  <2> QED
    BY <2>1, WeighingParts
<1>4. SumOver(u, K) = SumOver(u, K \ R) + SumOver(u, R)
  <2>1. (K \ R) \cap R = {}
    OBVIOUS
  <2> QED
    BY <1>1, <1>3, <2>1, SumApart
<1>5. SumOver(d, K) = SumOver(d, K \ R) + SumOver(d, R)
  <2>1. (K \ R) \cap R = {}
    OBVIOUS
  <2> QED
    BY <1>1, <2>1, SumApart
<1>6. SumOver(v, S \ R) = SumOver(v, S \ K) + SumOver(v, K \ R)
  <2>1. (S \ K) \cap (K \ R) = {}
    OBVIOUS
  <2> QED
    BY <1>1, <2>1, SumApart
<1>7. /\ Weighing(d, R) /\ Weighing(d, K \ R) /\ Weighing(u, R) /\ Weighing(u, K \ R)
    BY <1>3, WeighingParts
<1>8. SumOver(u, S \ K) = SumOver(v, S \ K)
    BY <1>3, SumSame
<1>9. SumOver(u, K \ R) = SumOver(v, K \ R) + SumOver(d, K \ R)
    BY <1>3, <1>7, SumPlus
<1>10. SumOver(u, R) = SumOver(d, R)
    BY <1>7, SumSame
<1>11. /\ SumOver(v, S \ K) \in Nat
       /\ SumOver(v, K \ R) \in Nat
       /\ SumOver(d, K \ R) \in Nat
       /\ SumOver(d, R) \in Nat
    BY <1>3, <1>7, SumType
<1> QED
    BY <1>2, <1>4, <1>5, <1>6, <1>8, <1>9, <1>10, <1>11

\* Of finitely many elements one weighs least.
LEMMA LeastExists ==
    ASSUME NEW S, IsFiniteSet(S), S # {}, NEW w, \A x \in S : w[x] \in Int
    PROVE  \E x \in S : \A y \in S : w[x] <= w[y]
<1> DEFINE C == {U \in SUBSET S : U # {} => \E x \in U : \A y \in U : w[x] <= w[y]}
<1>1. ASSUME NEW U \in SUBSET S, \A x \in U : U \ {x} \in C
      PROVE  U \in C
  <2>1. SUFFICES ASSUME U # {}
                 PROVE  \E x \in U : \A y \in U : w[x] <= w[y]
    OBVIOUS
  <2>2. PICK z \in U : TRUE
    BY <2>1
  <2>3. CASE U \ {z} = {}
    BY <2>2, <2>3
  <2>4. CASE U \ {z} # {}
    <3>1. PICK x \in U \ {z} : \A y \in U \ {z} : w[x] <= w[y]
      BY <1>1, <2>4
    <3>2. w[x] \in Int /\ w[z] \in Int /\ \A y \in U : w[y] \in Int
      OBVIOUS
    <3>3. CASE w[x] <= w[z]
      BY <3>1, <3>3
    <3>4. CASE w[z] < w[x]
      BY <3>1, <3>2, <3>4
    <3> QED
      BY <3>2, <3>3, <3>4
  <2> QED
    BY <2>3, <2>4
<1>3. \A U \in SUBSET S : U \in C
  <2> HIDE DEF C
  <2> QED
    BY <1>1, SubsetInduction
<1> QED
    BY <1>3

\* Induction over an initial piece of the natural numbers.
LEMMA UpwardInduction ==
    ASSUME NEW n \in Nat, NEW C,
           \A m \in 0..n : (\A k \in 0..(m - 1) : k \in C) => m \in C
    PROVE  \A m \in 0..n : m \in C
<1> DEFINE Bad == {m \in 0..n : m \notin C}
           id == [m \in Bad |-> m]
<1>1. SUFFICES ASSUME Bad # {}
               PROVE  FALSE
    OBVIOUS
<1>2. IsFiniteSet(0..n)
    BY FS_Interval
<1>3. IsFiniteSet(Bad)
  <2>1. Bad \in SUBSET (0..n)
    OBVIOUS
  <2> HIDE DEF Bad
  <2> QED
    BY <1>2, <2>1, FS_Subset
<1>4. PICK m \in Bad : \A k \in Bad : id[m] <= id[k]
  <2>1. \A m \in Bad : id[m] \in Int
    OBVIOUS
  <2> HIDE DEF Bad, id
  <2> QED
    BY <1>1, <1>3, <2>1, LeastExists
<1>5. \A k \in 0..(m - 1) : k \in C
    BY <1>4
<1> QED
    BY <1>4, <1>5

\* The least weight of a set is that of one of its elements.
LEMMA LeastWeight ==
    ASSUME NEW K, IsFiniteSet(K), K # {}, NEW w, \A x \in K : w[x] \in Int
    PROVE  /\ \E x \in K : Min({w[y] : y \in K}) = w[x]
           /\ \A x \in K : Min({w[y] : y \in K}) <= w[x]
<1>1. PICK x \in K : \A y \in K : w[x] <= w[y]
    BY LeastExists
<1> DEFINE W == {w[y] : y \in K}
<1>2. w[x] \in W /\ \A y \in W : w[x] <= y
    BY <1>1
<1>3. Min(W) \in W /\ \A y \in W : Min(W) <= y
  <2> HIDE DEF W
  <2> QED
    BY <1>2 DEF Min
<1> QED
    BY <1>3

\* SetToSeq numbers the elements of a set.
LEMMA Numbered ==
    ASSUME NEW S, IsFiniteSet(S)
    PROVE  /\ Cardinality(S) \in Nat
           /\ SetToSeq(S) \in Bijection(1..Cardinality(S), S)
           /\ SetToSeq(S) \in Seq(S)
           /\ DOMAIN SetToSeq(S) = 1..Cardinality(S)
           /\ ToSet(SetToSeq(S)) = S
<1> DEFINE n == Cardinality(S)
<1>1. n \in Nat /\ ExistsBijection(1..n, S)
    BY FS_CardinalityType
<1>2. PICK g : g \in Bijection(1..n, S)
    BY <1>1 DEF ExistsBijection
<1>3. g \in [1..n -> S] /\ IsInjective(g)
    BY <1>2 DEF Bijection, Injection
<1>4. SetToSeq(S) \in [1..n -> S] /\ IsInjective(SetToSeq(S))
  <2> HIDE DEF n
  <2> QED
    BY <1>3 DEF SetToSeq, n
<1> DEFINE f == SetToSeq(S)
<1>5. f \in Injection(1..n, S)
    BY <1>4 DEF Injection
<1>6. f \in Surjection(1..n, S)
  <2>1. IsFiniteSet(S) /\ Cardinality(1..n) = n
    BY <1>1, FS_Interval
  <2> HIDE DEF f
  <2> QED
    BY <1>5, <2>1, FS_Injection DEF n
<1> HIDE DEF f
<1>7. f \in Bijection(1..n, S)
    BY <1>5, <1>6 DEF Bijection
<1>8. ToSet(f) = S
    BY <1>6 DEF ToSet, Surjection
<1>9. f \in Seq(S)
    BY <1>1, <1>4 DEF f
<1> QED
    BY <1>1, <1>4, <1>7, <1>8, <1>9 DEF f
=============================================================================
