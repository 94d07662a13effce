----------------------------- MODULE WBO_proofs ------------------------------
(***************************************************************************)
(* UpWBO and WBO keep the cost of every model through every core they relax *)
(* and with every symmetry clause they add, as long as no soft clause is    *)
(* split that symmetry breaking has logged; what they print as optimal      *)
(* then is.                                                                 *)
(*                                                                         *)
(* A core lowers what a choice of relaxation variables leaves to pay by its *)
(* weight at most, and by its weight exactly when the choice for the core   *)
(* is a soft clause that the choices before left falsified (LeftNext).      *)
(* Symmetry clauses are sound because two soft clauses that were in two     *)
(* cores together may be exchanged (ChoicesExchanged): of all choices that  *)
(* relax the same soft clauses, one whose last choice comes first in the    *)
(* order of the core breaks no clause.                                      *)
(***************************************************************************)
EXTENDS WBO, SetSums, SequenceTheorems

(***************************************************************************)
(* The soft clauses of the working formula.  The first are those of the     *)
(* input.  Relaxation variables belong to cores found, and what is logged   *)
(* of a soft clause is a core that relaxed it.                              *)
(***************************************************************************)
SoftClauses == [clause : Soft, weight : Nat \ {0},
                relaxation_vars : SUBSET (Nat \X Nat), softMapping : SUBSET Nat]

SoftOK ==
    /\ soft \in Seq(SoftClauses)
    /\ \A i \in Soft : i \in DOMAIN soft /\ soft[i].clause = i
    /\ exactlyOne \in Seq(SUBSET (DOMAIN soft))
    /\ \A k \in DOMAIN soft : \A v \in soft[k].relaxation_vars : v[1] \in DOMAIN exactlyOne
    /\ \A k \in DOMAIN soft : \A c \in soft[k].softMapping :
          /\ c \in DOMAIN exactlyOne
          /\ k \in exactlyOne[c]
          /\ <<c, k>> \in soft[k].relaxation_vars

ClausesOK ==
    /\ solverClauses \subseteq symmetryClauses
    /\ \A clause \in symmetryClauses : \A v \in clause : v[1] \in DOMAIN exactlyOne

-----------------------------------------------------------------------------
\* The position of every soft clause's slot is that of some soft partition, so
\* after the last partition every soft clause has entered.
LEMMA PositionRange ==
    ASSUME label \in [Soft -> -1..nPartitions]
    PROVE  /\ nSoftPartitions \in Nat
           /\ 0 < nSoftPartitions
           /\ \A i \in Soft : Position(SlotOf(i)) \in 0..(nSoftPartitions - 1)
<1>1. IsFiniteSet(UsedSlots)
  <2>1. IsFiniteSet(0..nPartitions) /\ UsedSlots \in SUBSET (0..nPartitions)
    BY PartitionAssumption, FS_Interval DEF UsedSlots
  <2> QED
    BY <2>1, FS_Subset
<1>2. \A v \in UsedSlots : ~Before(v, v)
    BY SoftAssumption, PartitionAssumption, PartsOfFinite DEF Before, Slot, UsedSlots
<1>3. \A i \in Soft : SlotOf(i) \in UsedSlots
    BY PartitionAssumption DEF SlotOf, Slot, UsedSlots
<1>4. \A v \in UsedSlots : Position(v) \in 0..(nSoftPartitions - 1)
    BY <1>1, <1>2, PlaceAmong DEF Position, nSoftPartitions
<1>5. nSoftPartitions \in Nat
    BY <1>1, FS_CardinalityType DEF nSoftPartitions
<1> QED
    BY <1>3, <1>4, <1>5, SoftAssumption

\* The labels never change, nor does what createPartitions made of them.
LEMMA PartitionsFixed ==
    ASSUME UNCHANGED label
    PROVE  /\ nSoftPartitions' = nSoftPartitions
           /\ \A i \in Soft : Position(SlotOf(i))' = Position(SlotOf(i))
    BY DEF nSoftPartitions, Position, UsedSlots, Slot, SlotOf, Before

-----------------------------------------------------------------------------
\* What the choices of a core are.

\* A selection takes one soft clause of each core.
Selecting(f, e, D) ==
    /\ f \in Seq(D)
    /\ Len(f) = Len(e)
    /\ \A n \in 1..Len(e) : f[n] \in e[n]

\* The selections of the first n cores, and what a core more makes of them.
Chosen(e, n, D) == {f \in Seq(D) : Len(f) = n /\ \A i \in 1..n : f[i] \in e[i]}

Extended(A, K) == {Append(f, k) : f \in A, k \in K}

LEMMA OneMore ==
    ASSUME NEW D, NEW e, NEW n \in Nat, e[n + 1] \in SUBSET D
    PROVE  Chosen(e, n + 1, D) = Extended(Chosen(e, n, D), e[n + 1])
<1> DEFINE A == Chosen(e, n, D)
           B == Chosen(e, n + 1, D)
           K == e[n + 1]
<1>0. SUFFICES ASSUME NEW f
               PROVE  f \in B <=> \E g \in A, k \in K : f = Append(g, k)
  <2> HIDE DEF A, B, K
  <2>1. ASSUME \A f : f \in B <=> \E g \in A, k \in K : f = Append(g, k)
        PROVE  B = Extended(A, K)
    <3>1. \A f : f \in Extended(A, K) <=> \E g \in A, k \in K : f = Append(g, k)
      BY DEF Extended
    <3> QED
      BY <2>1, <3>1
  <2>2. B = Extended(A, K)
    BY <2>1
  <2> QED
    BY <2>2 DEF A, B, K
<1> USE DEF Chosen
<1>1. ASSUME f \in Seq(D), Len(f) = n + 1, \A i \in 1..(n + 1) : f[i] \in e[i]
      PROVE  \E g \in Chosen(e, n, D), k \in e[n + 1] : f = Append(g, k)
  <2>1. f # <<>>
    BY <1>1, EmptySeq
  <2>2. PICK g \in Seq(D), k \in D : f = Append(g, k)
    BY <1>1, <2>1, SequenceEmptyOrAppend
  <2>3. /\ Len(f) = Len(g) + 1
        /\ \A i \in 1..Len(g) : f[i] = g[i]
        /\ f[Len(g) + 1] = k
        /\ Len(g) \in Nat
    BY <2>2, AppendProperties
  <2>4. Len(g) = n
    BY <1>1, <2>3
  <2>5. k \in e[n + 1]
    BY <1>1, <2>3, <2>4
  <2>6. \A i \in 1..n : g[i] \in e[i]
    BY <1>1, <2>3, <2>4
  <2> QED
    BY <2>2, <2>4, <2>5, <2>6
<1>2. ASSUME NEW g \in Seq(D), Len(g) = n, \A i \in 1..n : g[i] \in e[i],
             NEW k \in e[n + 1], f = Append(g, k)
      PROVE  f \in Seq(D) /\ Len(f) = n + 1 /\ \A i \in 1..(n + 1) : f[i] \in e[i]
  <2>1. /\ f \in Seq(D)
        /\ Len(f) = n + 1
        /\ \A i \in 1..n : f[i] = g[i]
        /\ f[n + 1] = k
    BY <1>2, AppendProperties
  <2>2. \A i \in 1..(n + 1) : i \in 1..n \/ i = n + 1
    OBVIOUS
  <2> QED
    BY <1>2, <2>1, <2>2
<1> QED
    BY <1>1, <1>2

LEMMA SelectionsAre ==
    ASSUME SoftOK
    PROVE  \A f : f \in Selections <=> Selecting(f, exactlyOne, DOMAIN soft)
<1> DEFINE N == Len(exactlyOne)
           D == DOMAIN soft
           of(n) == Chosen(exactlyOne, n, D)
           Choosing(h) ==
             h = [n \in 0..N |-> IF n = 0 THEN {<<>>}
                                 ELSE Extended(h[n - 1], exactlyOne[n])]
           first == CHOOSE h : Choosing(h)
           all == [n \in 0..N |-> of(n)]
<1>1. /\ N \in Nat /\ DOMAIN exactlyOne = 1..N
      /\ \A n \in 1..N : exactlyOne[n] \in SUBSET D
    BY DEF SoftOK
<1>2. Selections = first[N]
    BY DEF Selections, Extended
<1>3. ASSUME NEW m \in Nat, m + 1 \in 1..N
      PROVE  of(m + 1) = Extended(of(m), exactlyOne[m + 1])
  <2>1. exactlyOne[m + 1] \in SUBSET D
    BY <1>1, <1>3
  <2> QED
    BY <2>1, OneMore
<1>4. of(0) = {<<>>}
  <2>1. \A f \in Seq(D) : Len(f) = 0 <=> f = <<>>
    BY EmptySeq
  <2>2. <<>> \in Seq(D) /\ Len(<<>>) = 0
    BY EmptySeq
  <2>3. \A f : f \in of(0) <=> f \in Seq(D) /\ Len(f) = 0
    BY DEF Chosen
  <2> HIDE DEF of, D
  <2> QED
    BY <2>1, <2>2, <2>3
<1>5. \A n \in 1..N : /\ n - 1 \in Nat /\ (n - 1) + 1 = n
                      /\ n - 1 \in 0..(n - 1) /\ n - 1 \in 0..N /\ n \in 0..N /\ n # 0
    BY <1>1
<1>6. \A n \in 0..N : n = 0 \/ n \in 1..N
    BY <1>1
<1>7. Choosing(all)
  <2> DEFINE rhs(n) == IF n = 0 THEN {<<>>} ELSE Extended(all[n - 1], exactlyOne[n])
  <2>1. \A n \in 0..N : of(n) = rhs(n)
    <3>1. \A n \in 1..N : all[n - 1] = of(n - 1)
      BY <1>5
    <3>2. ASSUME NEW n \in 1..N
          PROVE  of(n) = rhs(n)
      <4>1. of((n - 1) + 1) = Extended(of(n - 1), exactlyOne[(n - 1) + 1])
        <5> HIDE DEF of
        <5> QED
          BY <1>3, <1>5
      <4> HIDE DEF of, all
      <4> QED
        BY <1>5, <3>1, <4>1
    <3>3. of(0) = rhs(0)
      <4> HIDE DEF of, all
      <4> QED
        BY <1>4
    <3> HIDE DEF of, all, rhs
    <3> QED
      BY <1>6, <3>2, <3>3
  <2>2. all = [n \in 0..N |-> of(n)]
    OBVIOUS
  <2>3. all = [n \in 0..N |-> rhs(n)]
    <3> HIDE DEF of, all, rhs
    <3> QED
      BY <2>1, <2>2
  <2> HIDE DEF of, all
  <2> QED
    BY <2>3
<1>8. Choosing(first)
  <2> HIDE DEF Choosing, all
  <2> QED
    BY <1>7
<1> HIDE DEF first, all, of
<1>9. \A n \in 0..N : n \in {m \in 0..N : first[m] = all[m]}
  <2> DEFINE C == {m \in 0..N : first[m] = all[m]}
  <2>1. ASSUME NEW n \in 0..N, \A k \in 0..(n - 1) : k \in C
        PROVE  n \in C
    <3>1. first[n] = IF n = 0 THEN {<<>>} ELSE Extended(first[n - 1], exactlyOne[n])
      BY <1>8
    <3>2. all[n] = IF n = 0 THEN {<<>>} ELSE Extended(all[n - 1], exactlyOne[n])
      BY <1>7
    <3>3. n = 0 \/ first[n - 1] = all[n - 1]
      BY <1>5, <1>6, <2>1
    <3> QED
      BY <3>1, <3>2, <3>3
  <2> HIDE DEF C
  <2>2. \A n \in 0..N : n \in C
    BY <1>1, <2>1, UpwardInduction
  <2> QED
    BY <2>2 DEF C
<1>10. Selections = of(N)
  <2>1. N \in 0..N
    BY <1>1
  <2>2. all[N] = of(N)
    BY <2>1 DEF all
  <2> QED
    BY <1>2, <1>9, <2>1, <2>2
<1> QED
    BY <1>1, <1>10 DEF Selecting, of, Chosen
-----------------------------------------------------------------------------
\* A core, and the soft clauses of it that are split.
IsSoftCore(K) == K \in SUBSET (DOMAIN soft) /\ K # {}

Lowered(K) == K \ Kept(K)

\* The soft clauses of the working formula.
LEMMA SoftType ==
    ASSUME SoftOK
    PROVE  /\ Len(soft) \in Nat /\ DOMAIN soft = 1..Len(soft)
           /\ IsFiniteSet(DOMAIN soft)
           /\ \A k \in DOMAIN soft :
                 /\ soft[k] \in SoftClauses
                 /\ soft[k].clause \in Soft
                 /\ soft[k].weight \in Nat \ {0}
                 /\ soft[k].relaxation_vars \in SUBSET (Nat \X Nat)
                 /\ soft[k].softMapping \in SUBSET Nat
<1>1. Len(soft) \in Nat /\ DOMAIN soft = 1..Len(soft)
    BY DEF SoftOK
<1>2. \A k \in DOMAIN soft : soft[k] \in SoftClauses
    BY DEF SoftOK
<1>3. IsFiniteSet(DOMAIN soft)
    BY <1>1, FS_Interval
<1>4. ASSUME NEW k \in DOMAIN soft
      PROVE  /\ soft[k].clause \in Soft
             /\ soft[k].weight \in Nat \ {0}
             /\ soft[k].relaxation_vars \in SUBSET (Nat \X Nat)
             /\ soft[k].softMapping \in SUBSET Nat
    BY <1>2 DEF SoftClauses
<1> QED
    BY <1>1, <1>2, <1>3, <1>4

\* The least weight in a core.
LEMMA CoreCost ==
    ASSUME SoftOK, NEW K, IsSoftCore(K)
    PROVE  /\ CostCore(K) \in Nat \ {0}
           /\ \A k \in K : CostCore(K) <= soft[k].weight
           /\ \A k \in Kept(K) : k \in K /\ soft[k].weight = CostCore(K)
           /\ \A k \in Lowered(K) : k \in K /\ soft[k].weight > CostCore(K)
           /\ K = Kept(K) \cup Lowered(K)
           /\ IsFiniteSet(K) /\ IsFiniteSet(Lowered(K))
<1> DEFINE w == [k \in DOMAIN soft |-> soft[k].weight]
<1>1. IsFiniteSet(K)
    BY SoftType, FS_Subset DEF IsSoftCore
<1>2. \A k \in K : w[k] \in Nat \ {0} /\ w[k] = soft[k].weight
    BY SoftType DEF IsSoftCore
<1>3. {soft[k].weight : k \in K} = {w[k] : k \in K}
  <2> HIDE DEF w
  <2> QED
    BY <1>2
<1>4. /\ \E k \in K : CostCore(K) = w[k]
      /\ \A k \in K : CostCore(K) <= w[k]
  <2> HIDE DEF w
  <2>1. \A k \in K : w[k] \in Int
    BY <1>2
  <2>2. /\ \E k \in K : Min({w[y] : y \in K}) = w[k]
        /\ \A k \in K : Min({w[y] : y \in K}) <= w[k]
    BY <1>1, <2>1, LeastWeight DEF IsSoftCore
  <2> QED
    BY <1>3, <2>2 DEF CostCore
<1>5. CostCore(K) \in Nat \ {0}
    BY <1>2, <1>4
<1>6. \A k \in Lowered(K) : soft[k].weight # CostCore(K)
    BY DEF Lowered, Kept
<1>7. IsFiniteSet(Lowered(K))
    BY <1>1, FS_Subset DEF Lowered
<1> HIDE DEF w
<1> QED
    BY <1>1, <1>2, <1>4, <1>5, <1>6, <1>7 DEF Lowered, Kept

(***************************************************************************)
(* The working formula after a core was relaxed: copies[i] is the i-th soft *)
(* clause split, and logged what symmetry breaking notes of what is relaxed.*)
(***************************************************************************)
New(K) == {Len(soft) + i : i \in 1..Cardinality(Lowered(K))}

RelaxedIn(n, k, old, new, logged) ==
    /\ new.relaxation_vars = old.relaxation_vars \cup {<<n, k>>}
    /\ new.softMapping = logged

SoftSplit(K, logged, copies) ==
    LET n == Len(exactlyOne) + 1
    IN  /\ soft' \in Seq(SoftClauses)
        /\ DOMAIN soft' = 1..(Len(soft) + Cardinality(Lowered(K)))
        /\ \A k \in DOMAIN soft :
              /\ soft'[k].clause = soft[k].clause
              /\ soft'[k].weight = IF k \in Lowered(K) THEN soft[k].weight - CostCore(K)
                                   ELSE soft[k].weight
              /\ IF k \in Kept(K)
                 THEN RelaxedIn(n, k, soft[k], soft'[k], soft[k].softMapping \cup logged)
                 ELSE /\ soft'[k].relaxation_vars = soft[k].relaxation_vars
                      /\ soft'[k].softMapping = soft[k].softMapping
        /\ \A i \in 1..Cardinality(Lowered(K)) :
              /\ soft'[Len(soft) + i].clause = soft[copies[i]].clause
              /\ soft'[Len(soft) + i].weight = CostCore(K)
              /\ RelaxedIn(n, Len(soft) + i, soft[copies[i]], soft'[Len(soft) + i], logged)
        /\ exactlyOne' = Append(exactlyOne, Kept(K) \cup New(K))

\* The i-th copy is of copies[i].
Copying(K, copies) == copies \in Bijection(1..Cardinality(Lowered(K)), Lowered(K))

Splitting(K, logged) == \E copies : Copying(K, copies) /\ SoftSplit(K, logged, copies)

\* A soft clause relaxed.
RelaxedBy(r, v, L, w) ==
    [r EXCEPT !.weight = w, !.relaxation_vars = @ \cup {v}, !.softMapping = L]

CanRelax(r, v, L, w) ==
    r \in SoftClauses /\ v \in Nat \X Nat /\ L \in SUBSET Nat /\ w \in Nat \ {0}

IsRelaxed(s, r, v, L, w) ==
           /\ s \in SoftClauses
           /\ s.clause = r.clause
           /\ s.weight = w
           /\ s.relaxation_vars = r.relaxation_vars \cup {v}
           /\ s.softMapping = L

LEMMA RelaxedClause ==
    ASSUME NEW r, NEW v, NEW L, NEW w, CanRelax(r, v, L, w)
    PROVE  IsRelaxed(RelaxedBy(r, v, L, w), r, v, L, w)
<1> DEFINE s == RelaxedBy(r, v, L, w)
<1> USE DEF CanRelax
<1>1. /\ r \in [clause : Soft, weight : Nat \ {0},
                relaxation_vars : SUBSET (Nat \X Nat), softMapping : SUBSET Nat]
      /\ r.relaxation_vars \in SUBSET (Nat \X Nat)
    BY DEF SoftClauses
<1>2. r.relaxation_vars \cup {v} \in SUBSET (Nat \X Nat)
    BY <1>1
<1> DEFINE V == r.relaxation_vars \cup {v}
<1>3. s = [r EXCEPT !.weight = w, !.relaxation_vars = V, !.softMapping = L]
    BY DEF RelaxedBy
<1>4. V \in SUBSET (Nat \X Nat)
    BY <1>2
<1> DEFINE T == SUBSET (Nat \X Nat)
           M == SUBSET Nat
<1> HIDE DEF V, T, M, s
<1>5. V \in T /\ L \in M
    BY <1>4 DEF T, M
<1>6. r \in [clause : Soft, weight : Nat \ {0}, relaxation_vars : T, softMapping : M]
    BY <1>1 DEF T, M
<1>7. /\ s \in [clause : Soft, weight : Nat \ {0}, relaxation_vars : T, softMapping : M]
      /\ s.clause = r.clause
      /\ s.weight = w
      /\ s.relaxation_vars = V
      /\ s.softMapping = L
    BY <1>3, <1>5, <1>6
<1> QED
    BY <1>7 DEF V, T, M, s, SoftClauses, IsRelaxed

\* relaxCore does so.
LEMMA SoftRelaxed ==
    ASSUME SoftOK, NEW K, IsSoftCore(K), NEW logged \in SUBSET Nat, RelaxAndLog(K, logged)
    PROVE  Splitting(K, logged)
<1> DEFINE n == Len(exactlyOne) + 1
           w == CostCore(K)
           split == SetToSeq(Lowered(K))
           m == Cardinality(Lowered(K))
           rest == [k \in DOMAIN soft |->
                      IF k \in Kept(K)
                      THEN [soft[k] EXCEPT !.relaxation_vars = @ \cup {<<n, k>>},
                                           !.softMapping = @ \cup logged]
                      ELSE [soft[k] EXCEPT !.weight = IF k \in K THEN @ - w ELSE @]]
           parts == [i \in DOMAIN split |->
                      SplitOff(split[i], w, <<n, Len(soft) + i>>, logged)]
<1>1. /\ w \in Nat \ {0}
      /\ \A k \in Kept(K) : k \in K /\ soft[k].weight = w
      /\ \A k \in Lowered(K) : k \in K /\ soft[k].weight > w
      /\ K = Kept(K) \cup Lowered(K)
      /\ IsFiniteSet(Lowered(K))
      /\ K \in SUBSET (DOMAIN soft)
    BY CoreCost DEF IsSoftCore
<1>2. /\ m \in Nat
      /\ split \in Bijection(1..m, Lowered(K))
      /\ DOMAIN split = 1..m
      /\ \A i \in 1..m : split[i] \in Lowered(K)
  <2>1. /\ m \in Nat
        /\ split \in Bijection(1..m, Lowered(K))
        /\ DOMAIN split = 1..m
    BY <1>1, Numbered
  <2> HIDE DEF split, m
  <2> QED
    BY <2>1 DEF Bijection, Injection
<1>3. /\ soft' = rest \o parts
      /\ exactlyOne' = Append(exactlyOne, Kept(K) \cup {Len(soft) + i : i \in DOMAIN split})
    BY DEF RelaxAndLog, Lowered
<1>4. n \in Nat
    BY DEF SoftOK
<1>5. Len(soft) \in Nat /\ DOMAIN soft = 1..Len(soft)
    BY SoftType
<1>6. ASSUME NEW k \in DOMAIN soft
      PROVE  /\ rest[k] \in SoftClauses
             /\ rest[k].clause = soft[k].clause
             /\ rest[k].weight = IF k \in Lowered(K) THEN soft[k].weight - w
                                 ELSE soft[k].weight
             /\ IF k \in Kept(K)
                THEN RelaxedIn(n, k, soft[k], rest[k], soft[k].softMapping \cup logged)
                ELSE /\ rest[k].relaxation_vars = soft[k].relaxation_vars
                     /\ rest[k].softMapping = soft[k].softMapping
  <2>1. /\ soft[k] \in SoftClauses
        /\ soft[k].relaxation_vars \in SUBSET (Nat \X Nat)
        /\ soft[k].softMapping \in SUBSET Nat
        /\ soft[k].weight \in Nat \ {0}
    BY SoftType
  <2>2. k \in Nat
    BY <1>5
  <2> HIDE DEF n, w
  <2>3. CASE k \in Kept(K)
    <3>1. rest[k] = [soft[k] EXCEPT !.relaxation_vars = @ \cup {<<n, k>>},
                                    !.softMapping = @ \cup logged]
      BY <2>3
    <3>2. k \notin Lowered(K)
      BY <2>3 DEF Lowered
    <3> DEFINE L == soft[k].softMapping \cup logged
               u == soft[k].weight
               v == <<n, k>>
    <3>3. rest[k] = RelaxedBy(soft[k], v, L, u)
      <4> HIDE DEF rest
      <4> QED
        BY <2>1, <3>1 DEF SoftClauses, RelaxedBy
    <3>4. CanRelax(soft[k], v, L, u)
      BY <1>4, <2>1, <2>2 DEF CanRelax
    <3> HIDE DEF rest, L, u, v
    <3>5. IsRelaxed(rest[k], soft[k], v, L, u)
      BY <3>3, <3>4, RelaxedClause
    <3> QED
      BY <2>3, <3>2, <3>5 DEF L, u, v, RelaxedIn, IsRelaxed
  <2>4. CASE k \notin Kept(K)
    <3>1. rest[k] = [soft[k] EXCEPT !.weight = IF k \in K THEN @ - w ELSE @]
      BY <2>4
    <3>2. k \in Lowered(K) <=> k \in K
      BY <2>4 DEF Lowered
    <3>3. k \in K => soft[k].weight - w \in Nat \ {0}
      BY <1>1, <2>1, <3>2
    <3> HIDE DEF rest
    <3> QED
      BY <2>1, <2>4, <3>1, <3>2, <3>3 DEF SoftClauses
  <2> QED
    BY <2>3, <2>4
<1>7. ASSUME NEW i \in 1..m
      PROVE  /\ parts[i] \in SoftClauses
             /\ parts[i].clause = soft[split[i]].clause
             /\ parts[i].weight = w
             /\ RelaxedIn(n, Len(soft) + i, soft[split[i]], parts[i], logged)
  <2>1. split[i] \in DOMAIN soft
    <3> HIDE DEF split, m
    <3> QED
      BY <1>1, <1>2
  <2>2. parts[i] = SplitOff(split[i], w, <<n, Len(soft) + i>>, logged)
    BY <1>2
  <2>3. /\ soft[split[i]] \in SoftClauses
        /\ soft[split[i]].relaxation_vars \in SUBSET (Nat \X Nat)
    BY <2>1, SoftType
  <2>4. Len(soft) + i \in Nat
    BY <1>2, <1>5
  <2> DEFINE v == <<n, Len(soft) + i>>
             r == soft[split[i]]
  <2> HIDE DEF parts, n, w, split, m
  <2>5. CanRelax(r, v, logged, w)
    BY <1>1, <1>4, <2>3, <2>4 DEF CanRelax
  <2>6. parts[i] = RelaxedBy(r, v, logged, w)
    BY <2>2 DEF SplitOff, RelaxedBy
  <2> HIDE DEF r, v
  <2>7. IsRelaxed(parts[i], r, v, logged, w)
    BY <2>5, <2>6, RelaxedClause
  <2> QED
    BY <2>7 DEF r, v, RelaxedIn, IsRelaxed
<1>8. rest \in Seq(SoftClauses) /\ Len(rest) = Len(soft)
  <2>1. rest \in [1..Len(soft) -> SoftClauses]
    <3>1. \A k \in DOMAIN soft : rest[k] \in SoftClauses
      <4> HIDE DEF rest
      <4> QED
        BY <1>6
    <3>2. rest = [k \in 1..Len(soft) |-> rest[k]]
      BY <1>5
    <3> HIDE DEF rest
    <3> QED
      BY <1>5, <3>1, <3>2
  <2> HIDE DEF rest
  <2> QED
    BY <2>1, <1>5
<1>9. parts \in Seq(SoftClauses) /\ Len(parts) = m
  <2>1. parts \in [1..m -> SoftClauses]
    <3>1. \A i \in 1..m : parts[i] \in SoftClauses
      <4> HIDE DEF parts, m
      <4> QED
        BY <1>7
    <3>2. parts = [i \in 1..m |-> parts[i]]
      BY <1>2
    <3> HIDE DEF parts, m
    <3> QED
      BY <3>1, <3>2
  <2> HIDE DEF parts, m
  <2> QED
    BY <2>1, <1>2
<1>10. /\ soft' \in Seq(SoftClauses)
       /\ DOMAIN soft' = 1..(Len(soft) + m)
       /\ \A k \in DOMAIN soft : soft'[k] = rest[k]
       /\ \A i \in 1..m : soft'[Len(soft) + i] = parts[i]
  <2> HIDE DEF rest, parts, m
  <2>1. /\ rest \o parts \in Seq(SoftClauses)
        /\ Len(rest \o parts) = Len(rest) + Len(parts)
        /\ \A i \in 1..(Len(rest) + Len(parts)) :
              (rest \o parts)[i] = IF i <= Len(rest) THEN rest[i] ELSE parts[i - Len(rest)]
    BY <1>8, <1>9, ConcatProperties
  <2>2. \A k \in DOMAIN soft : soft'[k] = rest[k]
    BY <1>2, <1>3, <1>5, <1>8, <1>9, <2>1
  <2>3. \A i \in 1..m : soft'[Len(soft) + i] = parts[i]
    <3>1. ASSUME NEW i \in 1..m
          PROVE  soft'[Len(soft) + i] = parts[i]
      <4>1. /\ Len(soft) + i \in 1..(Len(soft) + m)
            /\ ~ (Len(soft) + i <= Len(soft))
            /\ Len(soft) + i - Len(soft) = i
        BY <1>2, <1>5
      <4> QED
        BY <1>3, <1>8, <1>9, <2>1, <4>1
    <3> QED
      BY <3>1
  <2>4. soft' \in Seq(SoftClauses) /\ Len(soft') = Len(soft) + m
    BY <1>3, <1>8, <1>9, <2>1
  <2> QED
    BY <2>2, <2>3, <2>4
<1>11. exactlyOne' = Append(exactlyOne, Kept(K) \cup New(K))
    BY <1>2, <1>3 DEF New
<1>12. SoftSplit(K, logged, split)
  <2> HIDE DEF rest, parts, split
  <2>1. \A k \in DOMAIN soft :
              /\ soft'[k].clause = soft[k].clause
              /\ soft'[k].weight = IF k \in Lowered(K) THEN soft[k].weight - CostCore(K)
                                   ELSE soft[k].weight
              /\ IF k \in Kept(K)
                 THEN RelaxedIn(n, k, soft[k], soft'[k], soft[k].softMapping \cup logged)
                 ELSE /\ soft'[k].relaxation_vars = soft[k].relaxation_vars
                      /\ soft'[k].softMapping = soft[k].softMapping
    BY <1>6, <1>10
  <2>2. \A i \in 1..m :
              /\ soft'[Len(soft) + i].clause = soft[split[i]].clause
              /\ soft'[Len(soft) + i].weight = CostCore(K)
              /\ RelaxedIn(n, Len(soft) + i, soft[split[i]], soft'[Len(soft) + i], logged)
    BY <1>7, <1>10
  <2> QED
    BY <1>10, <1>11, <2>1, <2>2 DEF SoftSplit
<1>13. Copying(K, split)
    BY <1>2 DEF Copying
<1> QED
    BY <1>12, <1>13 DEF Splitting
-----------------------------------------------------------------------------
\* A core was relaxed.
Step(K, logged, copies) ==
    /\ IsSoftCore(K)
    /\ logged \in SUBSET {Len(exactlyOne) + 1}
    /\ Copying(K, copies)
    /\ SoftSplit(K, logged, copies)

\* What the last core may choose.
Choosable(K) == Kept(K) \cup New(K)

\* The soft clauses after a core, and what cores may choose.
DomainsAfter(K, copies) ==
    /\ Cardinality(Lowered(K)) \in Nat
    /\ Len(exactlyOne) \in Nat /\ DOMAIN exactlyOne = 1..Len(exactlyOne)
    /\ \A k \in DOMAIN soft' :
          \/ k \in DOMAIN soft
          \/ \E i \in 1..Cardinality(Lowered(K)) : k = Len(soft) + i
    /\ \A i \in 1..Cardinality(Lowered(K)) :
          /\ Len(soft) + i \in DOMAIN soft'
          /\ Len(soft) + i \notin DOMAIN soft
          /\ copies[i] \in Lowered(K)
    /\ DOMAIN soft \subseteq DOMAIN soft'
    /\ Kept(K) \subseteq DOMAIN soft /\ Lowered(K) \subseteq DOMAIN soft
    /\ Choosable(K) \subseteq DOMAIN soft'
    /\ exactlyOne' \in Seq(SUBSET (DOMAIN soft'))
    /\ DOMAIN exactlyOne' = 1..(Len(exactlyOne) + 1)
    /\ Len(exactlyOne') = Len(exactlyOne) + 1
    /\ \A i \in 1..Len(exactlyOne) : exactlyOne'[i] = exactlyOne[i]
    /\ exactlyOne'[Len(exactlyOne) + 1] = Choosable(K)

LEMMA StepDomains ==
    ASSUME SoftOK, NEW K, NEW logged, NEW copies, Step(K, logged, copies)
    PROVE  DomainsAfter(K, copies)
<1> USE DEF Step
<1> DEFINE m == Cardinality(Lowered(K))
           N == Len(exactlyOne)
           D == DOMAIN soft
           D2 == DOMAIN soft'
<1>1. /\ m \in Nat
      /\ Kept(K) \subseteq D /\ Lowered(K) \subseteq D
    BY CoreCost, FS_CardinalityType DEF IsSoftCore
<1>2. Len(soft) \in Nat /\ D = 1..Len(soft) /\ D2 = 1..(Len(soft) + m)
    BY SoftType DEF SoftSplit
<1>3. \A k \in D2 : k \in D \/ \E i \in 1..m : k = Len(soft) + i
  <2> SUFFICES ASSUME NEW k \in D2, k \notin D
               PROVE  \E i \in 1..m : k = Len(soft) + i
    OBVIOUS
  <2>1. k - Len(soft) \in 1..m /\ k = Len(soft) + (k - Len(soft))
    BY <1>1, <1>2
  <2> QED
    BY <2>1
<1>4. \A i \in 1..m : /\ Len(soft) + i \in D2
                      /\ Len(soft) + i \notin D
                      /\ copies[i] \in Lowered(K)
  <2>1. \A i \in 1..m : Len(soft) + i \in D2 /\ Len(soft) + i \notin D
    BY <1>1, <1>2
  <2>2. copies \in [1..m -> Lowered(K)]
    BY DEF Copying, Bijection, Injection
  <2> HIDE DEF m
  <2> QED
    BY <2>1, <2>2
<1>5. D \subseteq D2
    BY <1>1, <1>2
<1>6. Choosable(K) \subseteq D2
  <2> HIDE DEF m, D, D2
  <2>1. New(K) \subseteq D2
    BY <1>4 DEF New, m
  <2> QED
    BY <1>1, <1>5, <2>1 DEF Choosable
<1>7. N \in Nat /\ DOMAIN exactlyOne = 1..N /\ exactlyOne \in Seq(SUBSET D)
    BY DEF SoftOK
<1>8. exactlyOne \in Seq(SUBSET D2)
  <2>1. SUBSET D \subseteq SUBSET D2
    BY <1>5
  <2> HIDE DEF D, D2
  <2> QED
    BY <1>7, <2>1, SeqMonotonic
<1>9. exactlyOne' = Append(exactlyOne, Choosable(K))
    BY DEF SoftSplit, Choosable
<1>10. /\ exactlyOne' \in Seq(SUBSET D2)
       /\ Len(exactlyOne') = N + 1
       /\ \A i \in 1..N : exactlyOne'[i] = exactlyOne[i]
       /\ exactlyOne'[N + 1] = Choosable(K)
  <2> DEFINE T == SUBSET D2
             e2 == exactlyOne'
  <2>1. Choosable(K) \in T /\ exactlyOne \in Seq(T) /\ e2 = Append(exactlyOne, Choosable(K))
    BY <1>6, <1>8, <1>9
  <2> HIDE DEF T, e2, D2
  <2>2. /\ e2 \in Seq(T)
        /\ Len(e2) = N + 1
        /\ \A i \in 1..N : e2[i] = exactlyOne[i]
        /\ e2[N + 1] = Choosable(K)
    BY <2>1, AppendProperties
  <2> QED
    BY <2>2 DEF T, e2
<1>11. DOMAIN exactlyOne' = 1..(N + 1)
    BY <1>10
<1> HIDE DEF m, N, D, D2
<1> QED
    BY <1>1, <1>3, <1>4, <1>5, <1>6, <1>7, <1>10, <1>11 DEF m, N, D, D2, DomainsAfter

\* The relaxation variables after a core.
VarsAfter(K, logged, copies) ==
    /\ \A k \in DOMAIN soft :
          soft'[k].relaxation_vars =
             IF k \in Kept(K)
             THEN soft[k].relaxation_vars \cup {<<Len(exactlyOne) + 1, k>>}
             ELSE soft[k].relaxation_vars
    /\ \A k \in DOMAIN soft :
          soft'[k].softMapping = IF k \in Kept(K) THEN soft[k].softMapping \cup logged
                                 ELSE soft[k].softMapping
    /\ \A i \in 1..Cardinality(Lowered(K)) :
          /\ soft'[Len(soft) + i].relaxation_vars =
                soft[copies[i]].relaxation_vars
                  \cup {<<Len(exactlyOne) + 1, Len(soft) + i>>}
          /\ soft'[Len(soft) + i].softMapping = logged

LEMMA StepVars ==
    ASSUME NEW K, NEW logged, NEW copies, Step(K, logged, copies)
    PROVE  VarsAfter(K, logged, copies)
    BY DEF Step, SoftSplit, RelaxedIn, VarsAfter

\* What holds of the soft clauses of the working formula is kept.
LEMMA SoftOKNext ==
    ASSUME SoftOK, NEW K, NEW logged, NEW copies, Step(K, logged, copies)
    PROVE  SoftOK'
<1> DEFINE n == Len(exactlyOne) + 1
           m == Cardinality(Lowered(K))
           D == DOMAIN soft
           D2 == DOMAIN soft'
           E == Choosable(K)
<1>1. /\ \A k \in D2 : k \in D \/ \E i \in 1..m : k = Len(soft) + i
      /\ \A i \in 1..m : Len(soft) + i \in D2 /\ Len(soft) + i \notin D /\ copies[i] \in D
      /\ D \subseteq D2
      /\ exactlyOne' \in Seq(SUBSET D2)
      /\ DOMAIN exactlyOne = 1..(n - 1) /\ n \in Nat \ {0}
      /\ DOMAIN exactlyOne' = 1..n
      /\ \A i \in 1..(n - 1) : exactlyOne'[i] = exactlyOne[i]
      /\ exactlyOne'[n] = E
  <2>1. Len(exactlyOne) \in Nat /\ (n - 1) = Len(exactlyOne)
    BY DEF SoftOK
  <2>2. DomainsAfter(K, copies)
    BY StepDomains
  <2> QED
    BY <2>1, <2>2 DEF DomainsAfter
<1>2. /\ \A k \in D : soft'[k].relaxation_vars =
                         IF k \in Kept(K) THEN soft[k].relaxation_vars \cup {<<n, k>>}
                         ELSE soft[k].relaxation_vars
      /\ \A k \in D : soft'[k].softMapping =
                         IF k \in Kept(K) THEN soft[k].softMapping \cup logged
                         ELSE soft[k].softMapping
      /\ \A i \in 1..m :
            /\ soft'[Len(soft) + i].relaxation_vars =
                  soft[copies[i]].relaxation_vars \cup {<<n, Len(soft) + i>>}
            /\ soft'[Len(soft) + i].softMapping = logged
  <2>1. VarsAfter(K, logged, copies)
    BY StepVars
  <2> QED
    BY <2>1 DEF VarsAfter
<1>3. logged \in SUBSET {n}
    BY DEF Step
<1>4. /\ \A k \in Kept(K) : k \in E
      /\ \A i \in 1..m : Len(soft) + i \in E
    BY DEF Choosable, New
<1>5. /\ \A i \in Soft : i \in D /\ soft[i].clause = i
      /\ \A k \in D : \A v \in soft[k].relaxation_vars : v[1] \in DOMAIN exactlyOne
      /\ \A k \in D : \A c \in soft[k].softMapping :
            c \in DOMAIN exactlyOne /\ k \in exactlyOne[c] /\ <<c, k>> \in soft[k].relaxation_vars
    BY DEF SoftOK
<1>6. soft' \in Seq(SoftClauses) /\ \A k \in D : soft'[k].clause = soft[k].clause
    BY DEF Step, SoftSplit
<1>7. ASSUME NEW k \in D2, NEW v \in soft'[k].relaxation_vars
      PROVE  v[1] \in DOMAIN exactlyOne'
  <2> HIDE DEF n, m, D, D2, E
  <2>1. \A c \in DOMAIN exactlyOne : c \in DOMAIN exactlyOne'
    BY <1>1
  <2>2. n \in DOMAIN exactlyOne'
    BY <1>1
  <2>3. CASE k \in D
    <3>1. v \in soft[k].relaxation_vars \/ v = <<n, k>>
      BY <1>2, <1>7, <2>3
    <3> QED
      BY <1>5, <2>1, <2>2, <2>3, <3>1
  <2>4. ASSUME NEW i \in 1..m, k = Len(soft) + i
        PROVE  v[1] \in DOMAIN exactlyOne'
    <3>1. v \in soft[copies[i]].relaxation_vars \/ v = <<n, k>>
      BY <1>2, <1>7, <2>4
    <3>2. copies[i] \in D
      BY <1>1
    <3> QED
      BY <1>5, <2>1, <2>2, <3>1, <3>2
  <2> QED
    BY <1>1, <2>3, <2>4
<1>8. ASSUME NEW k \in D2, NEW c \in soft'[k].softMapping
      PROVE  /\ c \in DOMAIN exactlyOne'
             /\ k \in exactlyOne'[c]
             /\ <<c, k>> \in soft'[k].relaxation_vars
  <2> HIDE DEF n, m, D, D2, E
  <2>1. \A d \in DOMAIN exactlyOne : d \in DOMAIN exactlyOne' /\ exactlyOne'[d] = exactlyOne[d]
    BY <1>1
  <2>2. n \in DOMAIN exactlyOne'
    BY <1>1
  <2>3. CASE k \in D /\ c \in soft[k].softMapping
    <3>1. c \in DOMAIN exactlyOne /\ k \in exactlyOne[c] /\ <<c, k>> \in soft[k].relaxation_vars
      BY <1>5, <2>3
    <3> QED
      BY <1>2, <2>1, <2>3, <3>1
  <2>4. CASE k \in D /\ c \notin soft[k].softMapping
    <3>1. k \in Kept(K) /\ c = n
      BY <1>2, <1>3, <1>8, <2>4
    <3> QED
      BY <1>1, <1>2, <1>4, <2>2, <2>4, <3>1
  <2>5. ASSUME NEW i \in 1..m, k = Len(soft) + i
        PROVE  c = n /\ k \in E /\ <<n, k>> \in soft'[k].relaxation_vars
    BY <1>2, <1>3, <1>4, <1>8, <2>5
  <2> QED
    BY <1>1, <2>2, <2>3, <2>4, <2>5
<1>9. \A i \in Soft : i \in D2 /\ soft'[i].clause = i
    BY <1>1, <1>5, <1>6
<1> QED
    BY <1>1, <1>6, <1>7, <1>8, <1>9 DEF SoftOK
-----------------------------------------------------------------------------
\* Selections after a core: one more choice.

LEMMA SelectionsOf == SoftOK => \A f : f \in Selections <=> Selecting(f, exactlyOne, DOMAIN soft)
    BY SelectionsAre

LEMMA SelectionsOfNext ==
    SoftOK' => \A f : f \in Selections' <=> Selecting(f, exactlyOne', DOMAIN soft')
<1>1. SoftOK' => (\A f : f \in Selections <=> Selecting(f, exactlyOne, DOMAIN soft))'
    BY SelectionsOf, PTL
<1> QED
    BY <1>1 DEF Selecting

\* The choice q, made after the choices f.
OneMoreChoice(f, q) ==
    /\ \A i \in 1..Len(exactlyOne) : Append(f, q)[i] = f[i]
    /\ Append(f, q)[Len(exactlyOne) + 1] = q

LEMMA SelectionsNext ==
    ASSUME SoftOK, SoftOK', NEW K, NEW logged, NEW copies, Step(K, logged, copies)
    PROVE  /\ \A g : g \in Selections'
                       <=> \E f \in Selections, q \in Choosable(K) : g = Append(f, q)
           /\ \A f \in Selections, q \in Choosable(K) : OneMoreChoice(f, q)
<1> DEFINE N == Len(exactlyOne)
           D == DOMAIN soft
           D2 == DOMAIN soft'
           E == Choosable(K)
           e == exactlyOne
           e2 == exactlyOne'
<1>1. /\ N \in Nat /\ D \subseteq D2 /\ E \subseteq D2
      /\ e2 \in Seq(SUBSET D2)
      /\ Len(e2) = N + 1
      /\ \A i \in 1..N : e2[i] = e[i]
      /\ e2[N + 1] = E
  <2>1. DomainsAfter(K, copies)
    BY StepDomains
  <2> QED
    BY <2>1 DEF DomainsAfter
<1>2. e \in Seq(SUBSET D)
    BY DEF SoftOK
<1>3. \A f : f \in Selections <=> f \in Chosen(e, N, D)
    BY SelectionsOf DEF Selecting, Chosen
<1>4. \A f : f \in Selections' <=> f \in Chosen(e2, N + 1, D2)
  <2>1. \A f : f \in Selections' <=> Selecting(f, e2, D2)
    BY SelectionsOfNext
  <2> HIDE DEF e2, D2, N
  <2> QED
    BY <1>1, <2>1 DEF Selecting, Chosen
<1>5. Chosen(e2, N, D2) = Chosen(e, N, D)
  <2> HIDE DEF N, D, D2, E, e, e2
  <2>1. ASSUME NEW f \in Chosen(e2, N, D2)
        PROVE  f \in Chosen(e, N, D)
    <3>1. f \in Seq(D2) /\ Len(f) = N /\ \A i \in 1..N : f[i] \in e[i]
      BY <1>1 DEF Chosen
    <3>2. \A i \in 1..N : f[i] \in D
      <4>1. \A i \in 1..N : e[i] \in SUBSET D
        <5>1. Len(e) = N
          BY DEF e, N
        <5> QED
          BY <1>2, <5>1, ElementOfSeq
      <4> QED
        BY <3>1, <4>1
    <3>3. f \in [1..N -> D2]
      BY <3>1, LenProperties
    <3>4. f \in [1..N -> D]
      BY <3>2, <3>3
    <3>5. f \in Seq(D)
      BY <1>1, <3>4
    <3> QED
      BY <3>1, <3>5 DEF Chosen
  <2>2. ASSUME NEW f \in Chosen(e, N, D)
        PROVE  f \in Chosen(e2, N, D2)
    <3>1. f \in Seq(D)
      BY DEF Chosen
    <3>2. f \in Seq(D2)
      BY <1>1, <3>1, SeqMonotonic
    <3> QED
      BY <1>1, <3>2 DEF Chosen
  <2> QED
    BY <2>1, <2>2
<1>6. Chosen(e2, N + 1, D2) = Extended(Chosen(e, N, D), E)
  <2> HIDE DEF N, D, D2, E, e, e2
  <2>1. e2[N + 1] \in SUBSET D2
    BY <1>1
  <2>2. Chosen(e2, N + 1, D2) = Extended(Chosen(e2, N, D2), e2[N + 1])
    BY <1>1, <2>1, OneMore
  <2> QED
    BY <1>1, <1>5, <2>2
<1>7. \A g : g \in Selections' <=> \E f \in Selections, q \in E : g = Append(f, q)
  <2> HIDE DEF N, D, D2, E, e, e2
  <2>1. Selections = Chosen(e, N, D) /\ Selections' = Chosen(e2, N + 1, D2)
    BY <1>3, <1>4
  <2>2. Selections' = Extended(Selections, E)
    BY <1>6, <2>1
  <2> QED
    BY <2>2 DEF Extended
<1>8. ASSUME NEW f \in Selections, NEW q \in E
      PROVE  OneMoreChoice(f, q)
  <2>1. f \in Chosen(e, N, D)
    BY <1>3
  <2>2. f \in Seq(D2) /\ Len(f) = N
    BY <1>1, <2>1, SeqMonotonic DEF Chosen
  <2>3. q \in D2
    BY <1>1
  <2> HIDE DEF D2, E
  <2>4. /\ \A i \in 1..Len(f) : Append(f, q)[i] = f[i]
        /\ Append(f, q)[Len(f) + 1] = q
    BY <2>2, <2>3, AppendProperties
  <2> QED
    BY <2>2, <2>4 DEF OneMoreChoice
<1> HIDE DEF E
<1> QED
    BY <1>7, <1>8 DEF E

\* The choices f make one of the relaxation variables A true.
SomeTrue(A, f) == \E v \in A : f[v[1]] = v[2]

With(A, n, x) == A \cup {<<n, x>>}

LEMMA OneMoreVar ==
    ASSUME NEW A, NEW n, NEW x, NEW g
    PROVE  SomeTrue(With(A, n, x), g) <=> SomeTrue(A, g) \/ g[n] = x
<1>1. ASSUME NEW v \in A \cup {<<n, x>>}, g[v[1]] = v[2]
      PROVE  SomeTrue(A, g) \/ g[n] = x
    BY <1>1 DEF SomeTrue
<1>2. ASSUME g[n] = x
      PROVE  \E v \in A \cup {<<n, x>>} : g[v[1]] = v[2]
  <2>1. <<n, x>>[1] = n /\ <<n, x>>[2] = x
    OBVIOUS
  <2>2. g[<<n, x>>[1]] = <<n, x>>[2]
    BY <1>2, <2>1
  <2> QED
    BY <2>2
<1> QED
    BY <1>1, <1>2 DEF SomeTrue, With

\* The choices f relax soft clause k of s.
Relaxes(s, k, f) == SomeTrue(s[k].relaxation_vars, f)

LEMMA RelaxedNow == ASSUME NEW k, NEW f PROVE Relaxed(k, f) <=> Relaxes(soft, k, f)
    BY DEF Relaxed, Relaxes, SomeTrue

\* What the choice q relaxes besides.
Adds(K, copies, f, q) ==
    /\ \A k \in DOMAIN soft :
          Relaxes(soft', k, Append(f, q)) <=> Relaxes(soft, k, f) \/ (k \in Kept(K) /\ q = k)
    /\ \A i \in 1..Cardinality(Lowered(K)) :
          Relaxes(soft', Len(soft) + i, Append(f, q))
            <=> Relaxes(soft, copies[i], f) \/ q = Len(soft) + i

LEMMA RelaxedNext ==
    ASSUME SoftOK, SoftOK', NEW K, NEW logged, NEW copies, Step(K, logged, copies),
           NEW f \in Selections, NEW q \in Choosable(K)
    PROVE  Adds(K, copies, f, q)
<1> DEFINE N == Len(exactlyOne)
           n == N + 1
           m == Cardinality(Lowered(K))
           g == Append(f, q)
           D == DOMAIN soft
<1>1. OneMoreChoice(f, q)
    BY SelectionsNext
<1>2. (\A i \in 1..N : g[i] = f[i]) /\ g[n] = q
    BY <1>1 DEF OneMoreChoice
<1>3. /\ DOMAIN exactlyOne = 1..N
      /\ \A i \in 1..m : copies[i] \in D
  <2>1. DomainsAfter(K, copies)
    BY StepDomains
  <2> QED
    BY <2>1 DEF DomainsAfter
<1>4. \A k \in D : \A v \in soft[k].relaxation_vars : v[1] \in 1..N
    BY <1>3 DEF SoftOK
<1>5. VarsAfter(K, logged, copies)
    BY StepVars
<1>6. \A k \in D : \A v \in soft[k].relaxation_vars : g[v[1]] = f[v[1]]
  <2> HIDE DEF g, N, D
  <2> QED
    BY <1>2, <1>4
<1>7. \A k \in D : SomeTrue(soft[k].relaxation_vars, g) <=> Relaxes(soft, k, f)
  <2> HIDE DEF g, D
  <2> QED
    BY <1>6 DEF Relaxes, SomeTrue
<1>8. ASSUME NEW k \in D
      PROVE  Relaxes(soft', k, g) <=> Relaxes(soft, k, f) \/ (k \in Kept(K) /\ q = k)
  <2>1. CASE k \in Kept(K)
    <3>1. soft'[k].relaxation_vars = With(soft[k].relaxation_vars, n, k)
      BY <1>5, <2>1 DEF VarsAfter, With
    <3> HIDE DEF g, n
    <3>2. Relaxes(soft', k, g) <=> SomeTrue(soft[k].relaxation_vars, g) \/ g[n] = k
      BY <3>1, OneMoreVar DEF Relaxes
    <3> QED
      BY <1>2, <1>7, <2>1, <3>2
  <2>2. CASE k \notin Kept(K)
    <3>1. soft'[k].relaxation_vars = soft[k].relaxation_vars
      BY <1>5, <2>2 DEF VarsAfter
    <3> HIDE DEF g
    <3> QED
      BY <1>7, <2>2, <3>1 DEF Relaxes
  <2> QED
    BY <2>1, <2>2
<1>9. ASSUME NEW i \in 1..m
      PROVE  Relaxes(soft', Len(soft) + i, g)
               <=> Relaxes(soft, copies[i], f) \/ q = Len(soft) + i
  <2> DEFINE k == Len(soft) + i
  <2>1. soft'[k].relaxation_vars = With(soft[copies[i]].relaxation_vars, n, k)
    BY <1>5 DEF VarsAfter, With
  <2>2. copies[i] \in D
    BY <1>3
  <2> HIDE DEF g, n, D, m, k
  <2>3. Relaxes(soft', k, g) <=> SomeTrue(soft[copies[i]].relaxation_vars, g) \/ g[n] = k
    BY <2>1, OneMoreVar DEF Relaxes
  <2>4. Relaxes(soft', k, g) <=> Relaxes(soft, copies[i], f) \/ q = k
    BY <1>2, <1>7, <2>2, <2>3
  <2> QED
    BY <2>4 DEF k
<1> HIDE DEF g
<1> QED
    BY <1>8, <1>9 DEF Adds, g
-----------------------------------------------------------------------------
\* What the soft clauses F of s weigh.
Weigh(s, F) == SumOver([k \in DOMAIN s |-> s[k].weight], F)

(***************************************************************************)
(* F is falsified before the core, F2 after it: the parts are falsified as  *)
(* what they were split off, but for the soft clause b of the core.         *)
(***************************************************************************)
Leaves(K, copies, F, F2, b) ==
    /\ F \in SUBSET (DOMAIN soft)
    /\ F2 \in SUBSET (DOMAIN soft')
    /\ b \in DOMAIN soft => b \in K
    /\ \A k \in DOMAIN soft : k \in F2 <=> k \in F /\ ~(k \in Kept(K) /\ k = b)
    /\ \A i \in 1..Cardinality(Lowered(K)) :
          Len(soft) + i \in F2 <=> copies[i] \in F /\ copies[i] # b

LEMMA LeftAfterCore ==
    ASSUME SoftOK, SoftOK', NEW K, NEW logged, NEW copies, Step(K, logged, copies),
           NEW F, NEW F2, NEW b, Leaves(K, copies, F, F2, b)
    PROVE  /\ Weigh(soft, F) = Weigh(soft', F2) + (IF b \in F THEN CostCore(K) ELSE 0)
           /\ Weigh(soft, F) \in Nat /\ Weigh(soft', F2) \in Nat
<1> DEFINE D == DOMAIN soft
           D2 == DOMAIN soft'
           m == Cardinality(Lowered(K))
           w == CostCore(K)
           R == {k \in F : k \in Kept(K) /\ k = b}
           T == (F \cap Lowered(K)) \cup R
           G == {Len(soft) + i : i \in {j \in 1..m : copies[j] \in F /\ copies[j] # b}}
           u == [k \in D |-> soft[k].weight]
           v == [k \in D2 |-> soft'[k].weight]
           d == [k \in D |-> w]
<1>0. /\ F \in SUBSET D /\ F2 \in SUBSET D2
      /\ b \in D => b \in K
      /\ \A k \in D : k \in F2 <=> k \in F /\ ~(k \in Kept(K) /\ k = b)
      /\ \A i \in 1..m : Len(soft) + i \in F2 <=> copies[i] \in F /\ copies[i] # b
    BY DEF Leaves
<1>1. /\ m \in Nat
      /\ \A k \in D2 : k \in D \/ \E i \in 1..m : k = Len(soft) + i
      /\ \A i \in 1..m : /\ Len(soft) + i \in D2
                         /\ Len(soft) + i \notin D
                         /\ copies[i] \in Lowered(K)
      /\ D \subseteq D2 /\ Kept(K) \subseteq D /\ Lowered(K) \subseteq D
  <2>1. DomainsAfter(K, copies)
    BY StepDomains
  <2> QED
    BY <2>1 DEF DomainsAfter
<1>2. Len(soft) \in Nat /\ IsFiniteSet(D) /\ \A k \in D : soft[k].weight \in Nat
    BY SoftType
<1>3. IsFiniteSet(D2)
  <2>1. D2 = 1..(Len(soft) + m)
    BY DEF Step, SoftSplit
  <2> QED
    BY <1>1, <1>2, <2>1, FS_Interval
<1>4. /\ w \in Nat \ {0}
      /\ \A k \in Kept(K) : soft[k].weight = w
      /\ \A k \in Lowered(K) : soft[k].weight > w
      /\ K = Kept(K) \cup Lowered(K)
      /\ Kept(K) \cap Lowered(K) = {}
    BY CoreCost DEF Step, Lowered
<1>5. /\ \A k \in D : v[k] = IF k \in Lowered(K) THEN soft[k].weight - w ELSE soft[k].weight
      /\ \A i \in 1..m : v[Len(soft) + i] = w
  <2>1. /\ \A k \in D : soft'[k].weight = IF k \in Lowered(K) THEN soft[k].weight - w
                                          ELSE soft[k].weight
        /\ \A i \in 1..m : soft'[Len(soft) + i].weight = w
    BY DEF Step, SoftSplit
  <2>2. \A k \in D2 : v[k] = soft'[k].weight
    OBVIOUS
  <2> HIDE DEF v, D2, D, m, w
  <2> QED
    BY <1>1, <2>1, <2>2
<1>6. copies \in Bijection(1..m, Lowered(K))
    BY DEF Step, Copying
<1>7. /\ \A k \in D : u[k] = soft[k].weight /\ d[k] = w
      /\ Weigh(soft, F) = SumOver(u, F) /\ Weigh(soft', F2) = SumOver(v, F2)
    BY DEF Weigh
<1>8. \A k \in D2 : v[k] \in Nat
  <2> HIDE DEF v, D2, D, m, w
  <2>1. ASSUME NEW k \in D
        PROVE  v[k] \in Nat
    <3>1. soft[k].weight \in Nat /\ (k \in Lowered(K) => soft[k].weight > w)
      BY <1>2, <1>4
    <3> QED
      BY <1>4, <1>5, <3>1
  <2>2. \A i \in 1..m : v[Len(soft) + i] \in Nat
    BY <1>4, <1>5
  <2>3. ASSUME NEW k \in D2
        PROVE  v[k] \in Nat
    BY <1>1, <2>1, <2>2
  <2> QED
    BY <2>3
<1>9. /\ R \in SUBSET T /\ T \in SUBSET F
      /\ T \ R = F \cap Lowered(K)
      /\ b \in T <=> b \in F
      /\ T \ {b} = (F \cap Lowered(K)) \ {b}
  <2>1. T \ R = F \cap Lowered(K)
    BY <1>4
  <2>2. b \in F => b \in T
    BY <1>0, <1>4
  <2> QED
    BY <2>1, <2>2
<1>10. F2 = (F \ R) \cup G /\ (F \ R) \cap G = {}
  <2>1. ASSUME NEW k \in F2
        PROVE  k \in (F \ R) \cup G
    <3>1. CASE k \in D
      BY <1>0, <3>1
    <3>2. ASSUME NEW i \in 1..m, k = Len(soft) + i
          PROVE  k \in G
      BY <1>0, <3>2
    <3> QED
      BY <1>0, <1>1, <3>1, <3>2
  <2>2. ASSUME NEW k \in F \ R
        PROVE  k \in F2
    BY <1>0
  <2>3. ASSUME NEW k \in G
        PROVE  k \in F2 /\ k \notin D
    <3>1. PICK i \in 1..m : k = Len(soft) + i /\ copies[i] \in F /\ copies[i] # b
      OBVIOUS
    <3> QED
      BY <1>0, <1>1, <3>1
  <2> HIDE DEF G, R
  <2> QED
    BY <1>0, <2>1, <2>2, <2>3
<1> DEFINE h == [k \in G |-> copies[k - Len(soft)]]
<1>11. \A k \in G : \E i \in 1..m : /\ k = Len(soft) + i
                                    /\ k - Len(soft) = i
                                    /\ copies[i] \in F /\ copies[i] # b
                                    /\ h[k] = copies[i]
  <2> SUFFICES ASSUME NEW k \in G
               PROVE  \E i \in 1..m : /\ k = Len(soft) + i
                                      /\ k - Len(soft) = i
                                      /\ copies[i] \in F /\ copies[i] # b
                                      /\ h[k] = copies[i]
    OBVIOUS
  <2>1. PICK i \in 1..m : k = Len(soft) + i /\ copies[i] \in F /\ copies[i] # b
    OBVIOUS
  <2>2. k - Len(soft) = i
    BY <1>2, <2>1
  <2>3. h[k] = copies[i]
    BY <2>2
  <2> HIDE DEF h
  <2> QED
    BY <2>1, <2>2, <2>3
<1>12. h \in Bijection(G, T \ {b})
  <2>1. \A i, j \in 1..m : copies[i] = copies[j] => i = j
    BY <1>6 DEF Bijection, Injection, IsInjective
  <2>2. \A k \in Lowered(K) : \E i \in 1..m : copies[i] = k
    BY <1>6 DEF Bijection, Surjection
  <2>3. DOMAIN h = G /\ h = [k \in G |-> h[k]]
    OBVIOUS
  <2>4. \A i \in 1..m : copies[i] \in F /\ copies[i] # b => Len(soft) + i \in G
    OBVIOUS
  <2>5. \A k \in G : h[k] \in T \ {b}
    <3> HIDE DEF h, G, T, m
    <3> QED
      BY <1>1, <1>9, <1>11
  <2> HIDE DEF h, G, T, m
  <2>6. h \in [G -> T \ {b}]
    BY <2>3, <2>5
  <2>7. \A k, l \in G : h[k] = h[l] => k = l
    BY <1>11, <2>1
  <2>8. ASSUME NEW x \in T \ {b}
        PROVE  \E k \in G : h[k] = x
    <3>1. x \in F /\ x \in Lowered(K) /\ x # b
      BY <1>9
    <3>2. PICK i \in 1..m : copies[i] = x
      BY <2>2, <3>1
    <3>3. Len(soft) + i \in G
      BY <2>4, <3>1, <3>2
    <3>4. PICK j \in 1..m : Len(soft) + i = Len(soft) + j /\ h[Len(soft) + i] = copies[j]
      BY <1>11, <3>3
    <3>5. i = j
      BY <1>1, <1>2, <3>4
    <3> QED
      BY <3>2, <3>3, <3>4, <3>5
  <2> QED
    BY <2>3, <2>6, <2>7, <2>8 DEF Bijection, Injection, Surjection, IsInjective
<1>13. Weighing(u, F) /\ Weighing(v, F \ R) /\ Weighing(d, T) /\ Weighing(v, G) /\ Weighing(v, F2)
  <2>1. G \in SUBSET F2
    BY <1>10
  <2>2. /\ F \in SUBSET D /\ T \in SUBSET D /\ F \ R \in SUBSET D2
        /\ F2 \in SUBSET D2 /\ G \in SUBSET D2
    BY <1>0, <1>1, <1>9, <2>1
  <2> HIDE DEF u, v, d, R, T, G, D, D2, w
  <2> QED
    BY <1>2, <1>3, <1>4, <1>7, <1>8, <2>2, FS_Subset DEF Weighing
<1>14. SumOver(u, F) = SumOver(v, F \ R) + SumOver(d, T)
  <2>1. \A x \in F \ T : u[x] = v[x]
    <3>1. \A x \in F \ T : x \in D /\ x \notin Lowered(K)
      BY <1>0
    <3> HIDE DEF u, v, T
    <3> QED
      BY <1>5, <1>7, <3>1
  <2>2. ASSUME NEW x \in T \ R
        PROVE  u[x] = v[x] + d[x]
    <3>1. x \in D /\ x \in Lowered(K)
      BY <1>1, <1>9
    <3>2. u[x] = soft[x].weight /\ v[x] = soft[x].weight - w /\ d[x] = w /\ soft[x].weight \in Nat
      <4> HIDE DEF u, v, d, T, R, D, w
      <4> QED
        BY <1>2, <1>5, <1>7, <3>1
    <3> HIDE DEF u, v, d, T, R, D, w
    <3> QED
      BY <1>4, <3>2
  <2>3. \A x \in R : u[x] = d[x]
    <3>1. \A x \in R : x \in D /\ x \in Kept(K)
      BY <1>0
    <3> HIDE DEF u, d, R, D, w
    <3> QED
      BY <1>4, <1>7, <3>1
  <2> HIDE DEF u, v, d, R, T
  <2>4. Taken(u, v, d, F, T, R)
    BY <1>9, <1>13, <2>1, <2>2, <2>3 DEF Taken
  <2> QED
    BY <2>4, SumTaken
<1>15. SumOver(v, F2) = SumOver(v, F \ R) + SumOver(v, G)
  <2> HIDE DEF v, R, G
  <2> QED
    BY <1>10, <1>13, SumApart
<1>16. SumOver(d, T \ {b}) = SumOver(v, G)
  <2>1. \A x \in G : v[x] = d[h[x]]
    <3>1. \A x \in G : v[x] = w
      <4> HIDE DEF v, G, h, w, m
      <4> QED
        BY <1>5, <1>11
    <3>2. \A x \in G : h[x] \in D
      <4> HIDE DEF h, G, D, m
      <4> QED
        BY <1>0, <1>11
    <3> HIDE DEF v, d, h, G, w, D
    <3> QED
      BY <1>7, <3>1, <3>2
  <2> HIDE DEF v, d, h, G, T
  <2> QED
    BY <1>12, <1>13, <2>1, SumMoved
<1>17. SumOver(d, T) = SumOver(d, T \ {b}) + (IF b \in F THEN w ELSE 0)
  <2>1. CASE b \in F
    <3>1. b \in T /\ d[b] = w
      BY <1>0, <1>9, <2>1
    <3> HIDE DEF d, T, w
    <3>2. SumOver(d, T) = SumOver(d, T \ {b}) + d[b]
      BY <1>13, <3>1, SumWithout
    <3> QED
      BY <2>1, <3>1, <3>2
  <2>2. CASE b \notin F
    <3>1. T \ {b} = T
      BY <1>9, <2>2
    <3> HIDE DEF d, T, w
    <3>2. SumOver(d, T) \in Nat
      BY <1>13, SumType
    <3> QED
      BY <2>2, <3>1, <3>2
  <2> QED
    BY <2>1, <2>2
<1>18. /\ SumOver(u, F) \in Nat /\ SumOver(v, F2) \in Nat
       /\ SumOver(v, F \ R) \in Nat /\ SumOver(v, G) \in Nat
  <2> HIDE DEF u, v, R, G
  <2> QED
    BY <1>13, SumType
<1> HIDE DEF u, v, d, R, T, G, w
<1> QED
    BY <1>4, <1>7, <1>14, <1>15, <1>16, <1>17, <1>18 DEF w
-----------------------------------------------------------------------------
\* What the choices f leave to pay of a model.
FalsifiedBy(s, P, f) == {k \in DOMAIN s : s[k].clause \in P /\ ~Relaxes(s, k, f)}

Left(P, f) == WeightOf(Falsified(P, f))

LEMMA LeftWeighs ==
    ASSUME NEW P, NEW f
    PROVE  /\ Falsified(P, f) = FalsifiedBy(soft, P, f)
           /\ Left(P, f) = Weigh(soft, FalsifiedBy(soft, P, f))
           /\ Left(P, f)' = Weigh(soft', FalsifiedBy(soft', P, f))
<1>1. Falsified(P, f) = FalsifiedBy(soft, P, f)
    BY DEF Falsified, FalsifiedBy, Relaxed, Relaxes, SomeTrue
<1>2. Falsified(P, f)' = FalsifiedBy(soft', P, f)
    BY DEF Falsified, FalsifiedBy, Relaxed, Relaxes, SomeTrue
<1>3. Left(P, f)' = Weigh(soft', Falsified(P, f)')
    BY DEF Left, WeightOf, Weigh
<1> QED
    BY <1>1, <1>2, <1>3 DEF Left, WeightOf, Weigh

\* The soft clause that the choice q of the last core is about.
Base(copies, q) == IF q \in DOMAIN soft THEN q ELSE copies[q - Len(soft)]

LEMMA ChoiceOf ==
    ASSUME SoftOK, NEW K, NEW logged, NEW copies, Step(K, logged, copies)
    PROVE  /\ \A q \in Choosable(K) :
                 \/ q \in Kept(K) /\ Base(copies, q) = q
                 \/ \E i \in 1..Cardinality(Lowered(K)) :
                       q = Len(soft) + i /\ Base(copies, q) = copies[i]
           /\ \A b \in K : \E q \in Choosable(K) : Base(copies, q) = b
<1> DEFINE m == Cardinality(Lowered(K))
           D == DOMAIN soft
<1>1. /\ m \in Nat
      /\ \A i \in 1..m : Len(soft) + i \notin D
      /\ Kept(K) \subseteq D
  <2>1. DomainsAfter(K, copies)
    BY StepDomains
  <2> QED
    BY <2>1 DEF DomainsAfter
<1>2. Len(soft) \in Nat
    BY SoftType
<1>3. ASSUME NEW i \in 1..m
      PROVE  Base(copies, Len(soft) + i) = copies[i]
  <2>1. Len(soft) + i - Len(soft) = i
    BY <1>1, <1>2
  <2> QED
    BY <1>1, <2>1 DEF Base
<1>4. \A q \in Choosable(K) : q \in Kept(K) \/ \E i \in 1..m : q = Len(soft) + i
    BY DEF Choosable, New
<1>5. \A q \in Kept(K) : Base(copies, q) = q
    BY <1>1 DEF Base
<1>6. ASSUME NEW b \in K
      PROVE  \E q \in Choosable(K) : Base(copies, q) = b
  <2>1. CASE b \in Kept(K)
    BY <1>5, <2>1 DEF Choosable
  <2>2. CASE b \in Lowered(K)
    <3>1. PICK i \in 1..m : copies[i] = b
      BY <2>2 DEF Step, Copying, Bijection, Surjection
    <3>2. Len(soft) + i \in Choosable(K)
      BY DEF Choosable, New
    <3> QED
      BY <1>3, <3>1, <3>2
  <2> QED
    BY <2>1, <2>2 DEF Lowered
<1> HIDE DEF m
<1>7. ASSUME NEW q \in Choosable(K)
      PROVE  \/ q \in Kept(K) /\ Base(copies, q) = q
             \/ \E i \in 1..m : q = Len(soft) + i /\ Base(copies, q) = copies[i]
    BY <1>3, <1>4, <1>5
<1> QED
    BY <1>6, <1>7 DEF m

\* The soft clauses falsified after a core.
LEMMA FalsifiedNext ==
    ASSUME SoftOK, SoftOK', NEW K, NEW logged, NEW copies, Step(K, logged, copies),
           NEW f \in Selections, NEW q \in Choosable(K), NEW P
    PROVE  Leaves(K, copies, FalsifiedBy(soft, P, f), FalsifiedBy(soft', P, Append(f, q)),
                  Base(copies, q))
<1> DEFINE m == Cardinality(Lowered(K))
           D == DOMAIN soft
           D2 == DOMAIN soft'
           F == FalsifiedBy(soft, P, f)
           g == Append(f, q)
           F2 == FalsifiedBy(soft', P, g)
           b == Base(copies, q)
<1>1. /\ m \in Nat
      /\ \A i \in 1..m : /\ Len(soft) + i \in D2
                         /\ Len(soft) + i \notin D
                         /\ copies[i] \in Lowered(K)
      /\ D \subseteq D2 /\ Kept(K) \subseteq D /\ Lowered(K) \subseteq D
  <2>1. DomainsAfter(K, copies)
    BY StepDomains
  <2> QED
    BY <2>1 DEF DomainsAfter
<1>2. Len(soft) \in Nat
    BY SoftType
<1>3. /\ \A k \in D : soft'[k].clause = soft[k].clause
      /\ \A i \in 1..m : soft'[Len(soft) + i].clause = soft[copies[i]].clause
    BY DEF Step, SoftSplit
<1>4. Adds(K, copies, f, q)
    BY RelaxedNext
<1>5. /\ \A k \in D : Relaxes(soft', k, g) <=> Relaxes(soft, k, f) \/ (k \in Kept(K) /\ q = k)
      /\ \A i \in 1..m : Relaxes(soft', Len(soft) + i, g)
                           <=> Relaxes(soft, copies[i], f) \/ q = Len(soft) + i
    BY <1>4 DEF Adds
<1>6. \/ q \in Kept(K) /\ b = q
      \/ \E i \in 1..m : q = Len(soft) + i /\ b = copies[i]
    BY ChoiceOf
<1>7. Kept(K) \cap Lowered(K) = {} /\ K = Kept(K) \cup Lowered(K)
    BY CoreCost DEF Step, Lowered
<1>8. \A i, j \in 1..m : copies[i] = copies[j] => i = j
    BY DEF Step, Copying, Bijection, Injection, IsInjective
<1>9. \A k \in D : (k \in Kept(K) /\ q = k) <=> (k \in Kept(K) /\ k = b)
  <2> HIDE DEF b, D, m
  <2> QED
    BY <1>1, <1>6, <1>7
<1>10. \A i \in 1..m : q = Len(soft) + i <=> copies[i] = b
  <2>1. CASE q \in Kept(K) /\ b = q
    <3> HIDE DEF b, D, m
    <3> QED
      BY <1>1, <1>7, <2>1
  <2>2. ASSUME NEW j \in 1..m, q = Len(soft) + j, b = copies[j]
        PROVE  \A i \in 1..m : q = Len(soft) + i <=> copies[i] = b
    <3>1. ASSUME NEW i \in 1..m
          PROVE  Len(soft) + j = Len(soft) + i <=> i = j
      <4>1. i \in Int /\ j \in Int
        OBVIOUS
      <4> HIDE DEF m
      <4> QED
        BY <1>2, <4>1
    <3> HIDE DEF b, D, m
    <3> QED
      BY <1>8, <2>2, <3>1
  <2> QED
    BY <1>6, <2>1, <2>2
<1>11. /\ \A k \in D : k \in F <=> soft[k].clause \in P /\ ~Relaxes(soft, k, f)
       /\ \A k \in D2 : k \in F2 <=> soft'[k].clause \in P /\ ~Relaxes(soft', k, g)
       /\ F \in SUBSET D /\ F2 \in SUBSET D2
    BY DEF FalsifiedBy
<1>12. b \in D => b \in K
  <2> HIDE DEF b, D, m
  <2> QED
    BY <1>1, <1>6, <1>7
<1> HIDE DEF b, D, D2, m, F, F2, g
<1>13. \A k \in D : k \in F2 <=> k \in F /\ ~(k \in Kept(K) /\ k = b)
    BY <1>1, <1>3, <1>5, <1>9, <1>11
<1>14. ASSUME NEW i \in 1..m
       PROVE  Len(soft) + i \in F2 <=> copies[i] \in F /\ copies[i] # b
  <2>1. copies[i] \in D /\ Len(soft) + i \in D2
    BY <1>1
  <2>2. copies[i] \in F <=> soft[copies[i]].clause \in P /\ ~Relaxes(soft, copies[i], f)
    BY <1>11, <2>1
  <2>3. Len(soft) + i \in F2 <=> soft'[Len(soft) + i].clause \in P
                                 /\ ~Relaxes(soft', Len(soft) + i, g)
    BY <1>11, <2>1
  <2>4. Relaxes(soft', Len(soft) + i, g) <=> Relaxes(soft, copies[i], f) \/ copies[i] = b
    BY <1>5, <1>10
  <2> QED
    BY <1>3, <2>2, <2>3, <2>4
<1>15. Leaves(K, copies, F, F2, b)
    BY <1>11, <1>12, <1>13, <1>14 DEF Leaves, D, D2, m
<1> QED
    BY <1>15 DEF F, F2, g, b

(***************************************************************************)
(* A core takes its weight from what choices leave to pay, if the choice    *)
(* for the core is about a soft clause that was left, and nothing else.     *)
(***************************************************************************)
LEMMA LeftNext ==
    ASSUME SoftOK, SoftOK', NEW K, NEW logged, NEW copies, Step(K, logged, copies),
           NEW f \in Selections, NEW q \in Choosable(K), NEW P
    PROVE  /\ Left(P, f) = Left(P, Append(f, q))'
                           + (IF Base(copies, q) \in Falsified(P, f) THEN CostCore(K) ELSE 0)
           /\ Left(P, f) \in Nat /\ Left(P, Append(f, q))' \in Nat
<1> DEFINE F == FalsifiedBy(soft, P, f)
           g == Append(f, q)
           F2 == FalsifiedBy(soft', P, g)
           b == Base(copies, q)
<1>1. Leaves(K, copies, F, F2, b)
    BY FalsifiedNext
<1> HIDE DEF F, g, F2, b
<1>2. /\ Weigh(soft, F) = Weigh(soft', F2) + (IF b \in F THEN CostCore(K) ELSE 0)
      /\ Weigh(soft, F) \in Nat /\ Weigh(soft', F2) \in Nat
    BY <1>1, LeftAfterCore
<1>3. Falsified(P, f) = F /\ Left(P, f) = Weigh(soft, F) /\ Left(P, g)' = Weigh(soft', F2)
    BY LeftWeighs DEF F, F2
<1> QED
    BY <1>2, <1>3 DEF g, b

\* No split changes what a model costs.
LEMMA CostModelNext ==
    ASSUME SoftOK, SoftOK', NEW K, NEW logged, NEW copies, Step(K, logged, copies), NEW P
    PROVE  CostModel(P)' = CostModel(P)
<1> DEFINE C(s) == {k \in DOMAIN s : s[k].clause \in P}
           m == Cardinality(Lowered(K))
           A == C(soft)
           B == C(soft')
<1>1. /\ \A i \in 1..m : Len(soft) + i \in DOMAIN soft' /\ copies[i] \in DOMAIN soft
      /\ DOMAIN soft \subseteq DOMAIN soft'
  <2>1. DomainsAfter(K, copies)
    BY StepDomains
  <2> QED
    BY <2>1 DEF DomainsAfter
<1>2. /\ \A k \in DOMAIN soft : soft'[k].clause = soft[k].clause
      /\ \A i \in 1..m : soft'[Len(soft) + i].clause = soft[copies[i]].clause
    BY DEF Step, SoftSplit
<1>3. 0 \notin DOMAIN soft
    BY SoftType
<1>4. \A k \in DOMAIN soft : k \in B <=> k \in A /\ ~(k \in Kept(K) /\ k = 0)
    BY <1>1, <1>2, <1>3
<1>5. \A i \in 1..m : Len(soft) + i \in B <=> copies[i] \in A /\ copies[i] # 0
  <2> HIDE DEF m
  <2> QED
    BY <1>1, <1>2, <1>3
<1>6. Leaves(K, copies, A, B, 0)
  <2>1. A \in SUBSET (DOMAIN soft) /\ B \in SUBSET (DOMAIN soft')
    OBVIOUS
  <2> HIDE DEF A, B
  <2> QED
    BY <1>3, <1>4, <1>5, <2>1 DEF Leaves
<1>7. CostModel(P) = Weigh(soft, A) /\ CostModel(P)' = Weigh(soft', B)
    BY DEF CostModel, WeightOf, Weigh
<1>8. 0 \notin A
    BY <1>3
<1> HIDE DEF A, B
<1>9. /\ Weigh(soft, A) = Weigh(soft', B) + (IF 0 \in A THEN CostCore(K) ELSE 0)
      /\ Weigh(soft, A) \in Nat /\ Weigh(soft', B) \in Nat
    BY <1>6, LeftAfterCore
<1> QED
    BY <1>7, <1>8, <1>9
-----------------------------------------------------------------------------
(***************************************************************************)
(* Symmetry breaking.  Whatever a choice of relaxation variables relaxes is *)
(* relaxed by one that no symmetry clause forbids, while no logged soft     *)
(* clause is split.                                                         *)
(***************************************************************************)
SameRelaxed(s, f, g) == \A k \in DOMAIN s : Relaxes(s, k, f) <=> Relaxes(s, k, g)

Unbroken ==
    ~LoggedSplit =>
        \A f \in Selections : \E g \in Relaxations(symmetryClauses) : SameRelaxed(soft, f, g)

\* A logged soft clause that is split stays so.
LEMMA LoggedSplitStays ==
    ASSUME SoftOK, NEW K, NEW logged, NEW copies, Step(K, logged, copies)
    PROVE  LoggedSplit => LoggedSplit'
<1> SUFFICES ASSUME LoggedSplit
             PROVE  LoggedSplit'
    OBVIOUS
<1>1. PICK k \in DOMAIN soft, l \in DOMAIN soft :
              k # l /\ \E c \in soft[k].softMapping : <<c, k>> \in soft[l].relaxation_vars
    BY DEF LoggedSplit
<1>2. PICK c \in soft[k].softMapping : <<c, k>> \in soft[l].relaxation_vars
    BY <1>1
<1>3. VarsAfter(K, logged, copies)
    BY StepVars
<1>4. c \in soft'[k].softMapping /\ <<c, k>> \in soft'[l].relaxation_vars
    BY <1>2, <1>3 DEF VarsAfter
<1>5. k \in DOMAIN soft' /\ l \in DOMAIN soft'
  <2>1. DomainsAfter(K, copies)
    BY StepDomains
  <2> QED
    BY <2>1 DEF DomainsAfter
<1> QED
    BY <1>1, <1>4, <1>5 DEF LoggedSplit

\* Choices that relax the same soft clauses do so after the same new choice.
LEMMA SameAfter ==
    ASSUME SoftOK, SoftOK', NEW K, NEW logged, NEW copies, Step(K, logged, copies),
           NEW f \in Selections, NEW g \in Selections, SameRelaxed(soft, f, g),
           NEW q \in Choosable(K)
    PROVE  SameRelaxed(soft', Append(f, q), Append(g, q))
<1> DEFINE m == Cardinality(Lowered(K))
<1>1. Adds(K, copies, f, q) /\ Adds(K, copies, g, q)
    BY RelaxedNext
<1>2. DomainsAfter(K, copies)
    BY StepDomains
<1>3. /\ \A k \in DOMAIN soft' : k \in DOMAIN soft \/ \E i \in 1..m : k = Len(soft) + i
      /\ \A i \in 1..m : copies[i] \in DOMAIN soft
    BY <1>2 DEF DomainsAfter
<1>4. \A k \in DOMAIN soft : Relaxes(soft, k, f) <=> Relaxes(soft, k, g)
    BY DEF SameRelaxed
<1>5. \A k \in DOMAIN soft : Relaxes(soft', k, Append(f, q)) <=> Relaxes(soft', k, Append(g, q))
    BY <1>1, <1>4 DEF Adds
<1>6. \A i \in 1..m : Relaxes(soft', Len(soft) + i, Append(f, q))
                        <=> Relaxes(soft', Len(soft) + i, Append(g, q))
  <2>1. \A i \in 1..m : Relaxes(soft, copies[i], f) <=> Relaxes(soft, copies[i], g)
    BY <1>3, <1>4
  <2> QED
    BY <1>1, <2>1 DEF Adds
<1> HIDE DEF m
<1>7. ASSUME NEW k \in DOMAIN soft'
      PROVE  Relaxes(soft', k, Append(f, q)) <=> Relaxes(soft', k, Append(g, q))
    BY <1>3, <1>5, <1>6
<1> QED
    BY <1>7 DEF SameRelaxed

\* The new core's variable of a soft clause relaxes that one only.
LEMMA OwnVariable ==
    ASSUME SoftOK, NEW K, NEW logged, NEW copies, Step(K, logged, copies),
           NEW k \in DOMAIN soft', NEW v \in soft'[k].relaxation_vars,
           v[1] = Len(exactlyOne) + 1
    PROVE  v[2] = k
<1> DEFINE n == Len(exactlyOne) + 1
           m == Cardinality(Lowered(K))
<1>1. VarsAfter(K, logged, copies)
    BY StepVars
<1>2. DomainsAfter(K, copies)
    BY StepDomains
<1>3. /\ \A l \in DOMAIN soft' : l \in DOMAIN soft \/ \E i \in 1..m : l = Len(soft) + i
      /\ \A i \in 1..m : copies[i] \in DOMAIN soft
      /\ n \notin DOMAIN exactlyOne
  <2>1. /\ \A l \in DOMAIN soft' : l \in DOMAIN soft \/ \E i \in 1..m : l = Len(soft) + i
        /\ \A i \in 1..m : copies[i] \in DOMAIN soft
    BY <1>2 DEF DomainsAfter
  <2>2. Len(exactlyOne) \in Nat /\ DOMAIN exactlyOne = 1..Len(exactlyOne)
    BY <1>2 DEF DomainsAfter
  <2> QED
    BY <2>1, <2>2
<1>4. \A l \in DOMAIN soft : \A u \in soft[l].relaxation_vars : u[1] # n
  <2> HIDE DEF n
  <2> QED
    BY <1>3 DEF SoftOK
<1>5. CASE k \in DOMAIN soft
  <2>1. v \in soft[k].relaxation_vars \/ v = <<n, k>>
    BY <1>1, <1>5 DEF VarsAfter
  <2> HIDE DEF n
  <2> QED
    BY <1>4, <1>5, <2>1 DEF n
<1>6. ASSUME NEW i \in 1..m, k = Len(soft) + i
      PROVE  v[2] = k
  <2>1. v \in soft[copies[i]].relaxation_vars \/ v = <<n, k>>
    BY <1>1, <1>6 DEF VarsAfter
  <2>2. copies[i] \in DOMAIN soft
    BY <1>3
  <2> HIDE DEF n, m
  <2> QED
    BY <1>4, <2>1, <2>2 DEF n
<1> HIDE DEF m, n
<1> QED
    BY <1>3, <1>5, <1>6

\* p1 and p2, relaxed where they are, were in core c together; g chose p1 for
\* it, and p2 is chosen for the new core.
Exchangeable(K, g, c, p1, p2) ==
    /\ p1 \in Kept(K) /\ p2 \in Kept(K) /\ p1 # p2
    /\ c \in soft[p1].softMapping /\ c \in soft[p2].softMapping
    /\ g \in Selections /\ g[c] = p1

\* g2 is g, but chooses p for core c.
Swapped(g, g2, c, p) ==
    /\ c \in 1..Len(exactlyOne)
    /\ g2 \in Selections
    /\ g2[c] = p
    /\ \A i \in 1..Len(exactlyOne) : i # c => g2[i] = g[i]

\* The choices for the two cores may be exchanged.
LEMMA ExchangeSelects ==
    ASSUME SoftOK, NEW K, IsSoftCore(K), NEW g, NEW c, NEW p1, NEW p2,
           Exchangeable(K, g, c, p1, p2)
    PROVE  Swapped(g, [g EXCEPT ![c] = p2], c, p2)
<1> DEFINE D == DOMAIN soft
           N == Len(exactlyOne)
           g2 == [g EXCEPT ![c] = p2]
<1>1. p1 \in D /\ p2 \in D
  <2>1. \A k \in Kept(K) : k \in K
    BY CoreCost
  <2> QED
    BY <2>1 DEF Exchangeable, IsSoftCore
<1>2. c \in 1..N /\ p2 \in exactlyOne[c]
  <2>1. DOMAIN exactlyOne = 1..N
    BY DEF SoftOK
  <2>2. c \in DOMAIN exactlyOne /\ p2 \in exactlyOne[c]
    BY <1>1 DEF SoftOK, Exchangeable
  <2> QED
    BY <2>1, <2>2
<1>3. /\ g \in Seq(D) /\ Len(g) = N
      /\ \A i \in 1..N : g[i] \in exactlyOne[i]
    BY SelectionsOf DEF Exchangeable, Selecting
<1>4. /\ g2 \in Seq(D) /\ Len(g2) = N
      /\ \A j \in 1..N : g2[j] = IF j = c THEN p2 ELSE g[j]
  <2> HIDE DEF D, N
  <2> QED
    BY <1>1, <1>2, <1>3, ExceptSeq
<1>5. Selecting(g2, exactlyOne, D)
  <2> HIDE DEF g2, D
  <2> QED
    BY <1>2, <1>3, <1>4 DEF Selecting
<1>6. g2 \in Selections
    BY <1>5, SelectionsOf
<1> HIDE DEF g2
<1>7. Swapped(g, g2, c, p2)
    BY <1>2, <1>4, <1>6 DEF Swapped
<1> QED
    BY <1>7 DEF g2

LEMMA ChoicesExchanged ==
    ASSUME SoftOK, SoftOK', NEW K, NEW logged, NEW copies, Step(K, logged, copies),
           ~LoggedSplit', NEW g, NEW c, NEW p1, NEW p2, Exchangeable(K, g, c, p1, p2)
    PROVE  SameRelaxed(soft', Append(g, p2), Append([g EXCEPT ![c] = p2], p1))
<1> DEFINE N == Len(exactlyOne)
           n == N + 1
           g2 == [g EXCEPT ![c] = p2]
           h == Append(g, p2)
           h2 == Append(g2, p1)
<1>1. /\ c \in 1..N
      /\ g2 \in Selections
      /\ g2[c] = p2
      /\ \A i \in 1..N : i # c => g2[i] = g[i]
  <2>1. IsSoftCore(K)
    BY DEF Step
  <2>2. Swapped(g, g2, c, p2)
    BY <2>1, ExchangeSelects
  <2> HIDE DEF g2
  <2> QED
    BY <2>2 DEF Swapped
<1>2. p1 \in Choosable(K) /\ p2 \in Choosable(K)
    BY DEF Exchangeable, Choosable
<1>3. OneMoreChoice(g, p2) /\ OneMoreChoice(g2, p1)
  <2>1. g \in Selections
    BY DEF Exchangeable
  <2> HIDE DEF g2
  <2> QED
    BY <1>1, <1>2, <2>1, SelectionsNext
<1>4. /\ \A i \in 1..N : h[i] = g[i] /\ h2[i] = g2[i]
      /\ h[n] = p2 /\ h2[n] = p1
  <2> HIDE DEF g2
  <2> QED
    BY <1>3 DEF OneMoreChoice
<1> HIDE DEF g2, h, h2
<1>5. h[c] = p1 /\ h2[c] = p2
    BY <1>1, <1>4 DEF Exchangeable
<1>6. VarsAfter(K, logged, copies) /\ DomainsAfter(K, copies)
    BY StepVars, StepDomains
<1>7. p1 \in DOMAIN soft /\ p2 \in DOMAIN soft /\ DOMAIN soft \subseteq DOMAIN soft'
    BY <1>6 DEF DomainsAfter, Exchangeable
<1>8. /\ <<c, p1>> \in soft'[p1].relaxation_vars /\ <<n, p1>> \in soft'[p1].relaxation_vars
      /\ <<c, p2>> \in soft'[p2].relaxation_vars /\ <<n, p2>> \in soft'[p2].relaxation_vars
      /\ c \in soft'[p1].softMapping /\ c \in soft'[p2].softMapping
  <2>1. <<c, p1>> \in soft[p1].relaxation_vars /\ <<c, p2>> \in soft[p2].relaxation_vars
    BY <1>7 DEF SoftOK, Exchangeable
  <2> QED
    BY <1>6, <1>7, <2>1 DEF VarsAfter, Exchangeable
<1>9. Relaxes(soft', p1, h) /\ Relaxes(soft', p1, h2)
  <2>1. /\ h[<<c, p1>>[1]] = <<c, p1>>[2]
        /\ h2[<<n, p1>>[1]] = <<n, p1>>[2]
    BY <1>4, <1>5
  <2> QED
    BY <1>8, <2>1 DEF Relaxes, SomeTrue
<1>10. Relaxes(soft', p2, h) /\ Relaxes(soft', p2, h2)
  <2>1. /\ h2[<<c, p2>>[1]] = <<c, p2>>[2]
        /\ h[<<n, p2>>[1]] = <<n, p2>>[2]
    BY <1>4, <1>5
  <2> QED
    BY <1>8, <2>1 DEF Relaxes, SomeTrue
<1>11. ASSUME NEW k \in DOMAIN soft', k # p1, k # p2, NEW v \in soft'[k].relaxation_vars
       PROVE  h[v[1]] = v[2] <=> h2[v[1]] = v[2]
  <2>1. v[1] \in 1..n /\ v = <<v[1], v[2]>>
    <3>1. DOMAIN exactlyOne' = 1..n
      BY <1>6 DEF DomainsAfter
    <3>2. v[1] \in DOMAIN exactlyOne'
      BY DEF SoftOK
    <3>3. soft'[k] \in SoftClauses
      BY DEF SoftOK
    <3>4. soft'[k].relaxation_vars \in SUBSET (Nat \X Nat)
      BY <3>3 DEF SoftClauses
    <3> QED
      BY <3>1, <3>2, <3>4
  <2>2. CASE v[1] = c
    <3>1. v[2] # p1 /\ v[2] # p2
      BY <1>7, <1>8, <1>11, <2>1, <2>2 DEF LoggedSplit
    <3> QED
      BY <1>5, <2>2, <3>1
  <2>3. CASE v[1] = n
    <3>1. v[2] = k
      BY <2>3, OwnVariable
    <3> QED
      BY <1>4, <1>11, <2>3, <3>1
  <2>4. CASE v[1] # c /\ v[1] # n
    <3>1. v[1] \in 1..N
      <4>1. N \in Nat
        BY DEF SoftOK
      <4> QED
        BY <2>1, <2>4, <4>1
    <3> QED
      BY <1>1, <1>4, <2>4, <3>1
  <2> QED
    BY <2>2, <2>3, <2>4
<1>12. ASSUME NEW k \in DOMAIN soft'
       PROVE  Relaxes(soft', k, h) <=> Relaxes(soft', k, h2)
  <2>1. CASE k = p1 \/ k = p2
    BY <1>9, <1>10, <2>1
  <2>2. CASE k # p1 /\ k # p2
    <3>1. \A v \in soft'[k].relaxation_vars : h[v[1]] = v[2] <=> h2[v[1]] = v[2]
      BY <1>11, <2>2
    <3> QED
      BY <3>1 DEF Relaxes, SomeTrue
  <2> QED
    BY <2>1, <2>2
<1>13. SameRelaxed(soft', h, h2)
    BY <1>12 DEF SameRelaxed
<1> QED
    BY <1>13 DEF h, h2, g2
\* The order of a core for symmetry breaking.
Order(K, idx) ==
    /\ idx \in Seq(Kept(K))
    /\ \A i, j \in DOMAIN idx : idx[i] = idx[j] => i = j

\* The symmetry clauses after a core.
Breaking(idx) == symmetryClauses' \subseteq symmetryClauses \cup SymmetryBreaking(idx)

\* Before p in the order of the core is one that could take its place.
Precedes(K, idx, g, p) ==
    \E i, j \in DOMAIN idx, c \in 1..Len(exactlyOne) :
        i < j /\ p = idx[j] /\ Exchangeable(K, g, c, idx[i], idx[j])

LEMMA NewClause ==
    ASSUME NEW idx, NEW clause \in SymmetryBreaking(idx)
    PROVE  \E t \in Together(idx) : clause = SymmetryClause(idx, t)
    BY DEF SymmetryBreaking

\* A choice of the last core obeys the symmetry clauses, or not for a reason.
LEMMA ObeysOrPrecedes ==
    ASSUME SoftOK, SoftOK', ClausesOK, NEW K, NEW logged, NEW copies, Step(K, logged, copies),
           NEW idx, Order(K, idx), Breaking(idx),
           NEW g \in Relaxations(symmetryClauses), NEW p \in Choosable(K)
    PROVE  Append(g, p) \in Relaxations(symmetryClauses)' \/ Precedes(K, idx, g, p)
<1> DEFINE N == Len(exactlyOne)
           h == Append(g, p)
<1>1. /\ g \in Selections
      /\ \A c \in symmetryClauses : \E v \in c : g[v[1]] # v[2]
    BY DEF Relaxations
<1>2. /\ h \in Selections'
      /\ \A i \in 1..N : h[i] = g[i]
      /\ h[N + 1] = p
  <2>1. OneMoreChoice(g, p)
    BY <1>1, SelectionsNext
  <2>2. h \in Selections'
    <3>1. \A f \in Selections, q \in Choosable(K) : Append(f, q) \in Selections'
      BY SelectionsNext
    <3> QED
      BY <1>1, <3>1
  <2> QED
    BY <2>1, <2>2 DEF OneMoreChoice
<1>3. DOMAIN exactlyOne = 1..N
    BY DEF SoftOK
<1> HIDE DEF h
<1>4. SUFFICES ASSUME h \notin Relaxations(symmetryClauses)'
               PROVE  Precedes(K, idx, g, p)
    BY DEF h
<1>5. PICK clause \in symmetryClauses' : \A v \in clause : h[v[1]] = v[2]
    BY <1>2, <1>4 DEF Relaxations
<1>6. clause \notin symmetryClauses
  <2>1. ASSUME clause \in symmetryClauses
        PROVE  FALSE
    <3>1. PICK v \in clause : g[v[1]] # v[2]
      BY <1>1, <2>1
    <3>2. v[1] \in 1..N
      BY <1>3, <2>1 DEF ClausesOK
    <3> QED
      BY <1>2, <1>5, <3>1, <3>2
  <2> QED
    BY <2>1
<1>7. PICK t \in Together(idx) : clause = SymmetryClause(idx, t)
  <2>1. clause \in SymmetryBreaking(idx)
    BY <1>5, <1>6 DEF Breaking
  <2> QED
    BY <2>1, NewClause
<1>8. /\ t[1] \in DOMAIN idx /\ t[2] \in DOMAIN idx /\ t[3] \in 1..N
      /\ t[1] < t[2]
      /\ t[3] \in soft[idx[t[1]]].softMapping
      /\ t[3] \in soft[idx[t[2]]].softMapping
    BY <1>3 DEF Together
<1>9. h[t[3]] = idx[t[1]] /\ h[N + 1] = idx[t[2]]
  <2>1. <<t[3], idx[t[1]]>> \in clause /\ <<N + 1, idx[t[2]]>> \in clause
    BY <1>7 DEF SymmetryClause
  <2>2. /\ h[<<t[3], idx[t[1]]>>[1]] = <<t[3], idx[t[1]]>>[2]
        /\ h[<<N + 1, idx[t[2]]>>[1]] = <<N + 1, idx[t[2]]>>[2]
    BY <1>5, <2>1
  <2> QED
    BY <2>2
<1>10. g[t[3]] = idx[t[1]] /\ p = idx[t[2]]
    BY <1>2, <1>8, <1>9
<1>11. /\ idx[t[1]] \in Kept(K) /\ idx[t[2]] \in Kept(K)
       /\ DOMAIN idx = 1..Len(idx) /\ Len(idx) \in Nat
    BY <1>8 DEF Order
<1>12. idx[t[1]] # idx[t[2]]
  <2>1. t[1] # t[2]
    BY <1>8, <1>11
  <2> QED
    BY <1>8, <2>1 DEF Order
<1>13. Exchangeable(K, g, t[3], idx[t[1]], idx[t[2]])
    BY <1>1, <1>8, <1>10, <1>11, <1>12 DEF Exchangeable
<1> QED
    BY <1>8, <1>10, <1>13 DEF Precedes

\* The choice of the last core, of those that relax what h relaxes, that comes
\* first in the order of the core; 0 is before all.
Place(idx, p) == IF \E i \in DOMAIN idx : idx[i] = p
                 THEN CHOOSE i \in DOMAIN idx : idx[i] = p ELSE 0

LEMMA PlaceOf ==
    ASSUME NEW K, NEW idx, Order(K, idx)
    PROVE  /\ \A p : Place(idx, p) \in Nat
           /\ \A i \in DOMAIN idx : Place(idx, idx[i]) = i
<1>1. DOMAIN idx = 1..Len(idx) /\ Len(idx) \in Nat
    BY DEF Order
<1> QED
    BY <1>1 DEF Order, Place

\* The choices p of the last core with which some earlier choices do as h.
Equals(s, h, g, p) == SameRelaxed(s, h, Append(g, p))

Could(K, h) ==
    {p \in Choosable(K) : \E g \in Relaxations(symmetryClauses) : Equals(soft', h, g, p)}

LEMMA CouldStart ==
    ASSUME SoftOK, SoftOK', Unbroken, NEW K, NEW logged, NEW copies, Step(K, logged, copies),
           ~LoggedSplit', NEW f \in Selections, NEW q \in Choosable(K)
    PROVE  q \in Could(K, Append(f, q))
<1>1. ~LoggedSplit
    BY LoggedSplitStays
<1>2. PICK g \in Relaxations(symmetryClauses) : SameRelaxed(soft, f, g)
    BY <1>1 DEF Unbroken
<1>3. g \in Selections
    BY DEF Relaxations
<1>4. SameRelaxed(soft', Append(f, q), Append(g, q))
    BY <1>2, <1>3, SameAfter
<1>5. Equals(soft', Append(f, q), g, q)
    BY <1>4 DEF Equals
<1> QED
    BY <1>5 DEF Could

LEMMA CouldFinite ==
    ASSUME SoftOK, NEW K, NEW logged, NEW copies, Step(K, logged, copies), NEW h
    PROVE  IsFiniteSet(Could(K, h))
<1>1. Choosable(K) \subseteq DOMAIN soft' /\ Cardinality(Lowered(K)) \in Nat
  <2>1. DomainsAfter(K, copies)
    BY StepDomains
  <2> QED
    BY <2>1 DEF DomainsAfter
<1>2. IsFiniteSet(DOMAIN soft')
  <2>1. DOMAIN soft' = 1..(Len(soft) + Cardinality(Lowered(K))) /\ Len(soft) \in Nat
    BY SoftType DEF Step, SoftSplit
  <2> QED
    BY <1>1, <2>1, FS_Interval
<1>3. Could(K, h) \subseteq Choosable(K)
    BY DEF Could
<1> QED
    BY <1>1, <1>2, <1>3, FS_Subset

LEMMA SameTransitive ==
    ASSUME NEW s, NEW f, NEW g, NEW h, SameRelaxed(s, f, g), SameRelaxed(s, g, h)
    PROVE  SameRelaxed(s, f, h)
    BY DEF SameRelaxed

\* One that is preceded is not the first.
LEMMA CouldEarlier ==
    ASSUME SoftOK, SoftOK', Unbroken, NEW K, NEW logged, NEW copies, Step(K, logged, copies),
           ~LoggedSplit', NEW idx, Order(K, idx), NEW h,
           NEW g, NEW p, Equals(soft', h, g, p), Precedes(K, idx, g, p)
    PROVE  \E r \in Could(K, h) : Place(idx, r) < Place(idx, p)
<1>1. PICK i \in DOMAIN idx, j \in DOMAIN idx, c \in 1..Len(exactlyOne) :
              i < j /\ p = idx[j] /\ Exchangeable(K, g, c, idx[i], idx[j])
    BY DEF Precedes
<1> DEFINE r == idx[i]
           g2 == [g EXCEPT ![c] = p]
<1>2. Exchangeable(K, g, c, r, p)
    BY <1>1
<1>3. Place(idx, r) < Place(idx, p)
    BY <1>1, PlaceOf
<1>4. r \in Choosable(K)
    BY <1>2 DEF Exchangeable, Choosable
<1>5. SameRelaxed(soft', Append(g, p), Append(g2, r))
  <2> HIDE DEF r
  <2> QED
    BY <1>2, ChoicesExchanged
<1>6. g2 \in Selections
  <2> HIDE DEF r
  <2>1. IsSoftCore(K)
    BY DEF Step
  <2>2. Swapped(g, g2, c, p)
    BY <1>2, <2>1, ExchangeSelects
  <2> HIDE DEF g2
  <2> QED
    BY <2>2 DEF Swapped
<1> HIDE DEF r, g2
<1>7. PICK g3 \in Relaxations(symmetryClauses) : SameRelaxed(soft, g2, g3)
    BY <1>6, LoggedSplitStays DEF Unbroken
<1>8. SameRelaxed(soft', Append(g2, r), Append(g3, r))
  <2>1. g3 \in Selections
    BY DEF Relaxations
  <2> QED
    BY <1>4, <1>6, <1>7, <2>1, SameAfter
<1>9. SameRelaxed(soft', h, Append(g3, r))
    BY <1>5, <1>8, SameTransitive DEF Equals
<1>10. r \in Could(K, h)
    BY <1>4, <1>9 DEF Could, Equals
<1> QED
    BY <1>3, <1>10

(***************************************************************************)
(* Symmetry breaking forbids no way to relax.                               *)
(***************************************************************************)
LEMMA UnbrokenNext ==
    ASSUME SoftOK, SoftOK', ClausesOK, Unbroken,
           NEW K, NEW logged, NEW copies, Step(K, logged, copies),
           NEW idx, Order(K, idx), Breaking(idx)
    PROVE  Unbroken'
<1>1. SUFFICES ASSUME ~LoggedSplit', NEW h \in Selections'
               PROVE  \E g \in Relaxations(symmetryClauses)' : SameRelaxed(soft', h, g)
    BY DEF Unbroken, SameRelaxed, Relaxes, SomeTrue
<1>2. PICK f \in Selections, q \in Choosable(K) : h = Append(f, q)
  <2>1. \A k : k \in Selections' <=> \E f \in Selections, q \in Choosable(K) : k = Append(f, q)
    BY SelectionsNext
  <2> QED
    BY <2>1
<1> DEFINE A == Could(K, h)
           w == [p \in A |-> Place(idx, p)]
<1>3. IsFiniteSet(A) /\ A # {}
  <2>1. q \in A
    BY <1>1, <1>2, CouldStart
  <2> HIDE DEF A
  <2>2. IsFiniteSet(A)
    BY CouldFinite DEF A
  <2> QED
    BY <2>1, <2>2
<1>4. PICK p \in A : \A r \in A : Place(idx, p) <= Place(idx, r)
  <2>1. \A r \in A : w[r] \in Int
    BY PlaceOf
  <2>2. \A r \in A : w[r] = Place(idx, r)
    OBVIOUS
  <2> HIDE DEF A, w
  <2>3. \E x \in A : \A y \in A : w[x] <= w[y]
    BY <1>3, <2>1, LeastExists
  <2> QED
    BY <2>2, <2>3
<1>5. PICK g \in Relaxations(symmetryClauses) : Equals(soft', h, g, p)
    BY DEF Could
<1>6. p \in Choosable(K)
    BY DEF Could
<1>7. ~Precedes(K, idx, g, p)
  <2>1. ASSUME Precedes(K, idx, g, p)
        PROVE  FALSE
    <3>1. PICK r \in A : Place(idx, r) < Place(idx, p)
      <4> HIDE DEF A
      <4>1. \E r \in Could(K, h) : Place(idx, r) < Place(idx, p)
        BY <1>1, <1>5, <2>1, CouldEarlier
      <4> QED
        BY <4>1 DEF A
    <3>2. Place(idx, r) \in Nat /\ Place(idx, p) \in Nat
      BY PlaceOf
    <3> HIDE DEF A
    <3> QED
      BY <1>4, <3>1, <3>2
  <2> QED
    BY <2>1
<1> HIDE DEF A, w
<1>8. Append(g, p) \in Relaxations(symmetryClauses)'
    BY <1>6, <1>7, ObeysOrPrecedes
<1>9. SameRelaxed(soft', h, Append(g, p))
    BY <1>5 DEF Equals
<1> QED
    BY <1>8, <1>9-----------------------------------------------------------------------------
(***************************************************************************)
(* What a model costs is what has been paid, lbCost, and what a choice of   *)
(* relaxation variables leaves: never more, and for some choice no less.    *)
(***************************************************************************)
CostsKept == \A P \in SUBSET Soft : CostModel(P) = InputCost(P)

Paid == \A P \in profiles, f \in Selections : InputCost(P) <= lbCost + Left(P, f)

PaidFor ==
    (pc # "returned" /\ ~LoggedSplit) =>
        \A P \in profiles : \E f \in Selections : InputCost(P) = lbCost + Left(P, f)

FormulaOK ==
    /\ profiles \in SUBSET SUBSET Soft
    /\ lbCost \in Nat
    /\ SoftOK
    /\ ClausesOK
    /\ Unbroken
    /\ CostsKept
    /\ Paid
    /\ PaidFor

LEMMA LeftType ==
    ASSUME SoftOK, NEW P, NEW f
    PROVE  /\ Left(P, f) \in Nat
           /\ \A k \in Falsified(P, f) : k \in DOMAIN soft /\ soft[k].weight <= Left(P, f)
<1> DEFINE w == [k \in DOMAIN soft |-> soft[k].weight]
           F == Falsified(P, f)
<1>1. F \in SUBSET (DOMAIN soft)
    BY DEF Falsified
<1>2. Weighing(w, DOMAIN soft)
    BY SoftType DEF Weighing
<1>3. \A k \in F : w[k] = soft[k].weight
    BY <1>1
<1>4. Left(P, f) = SumOver(w, F)
    BY DEF Left, WeightOf
<1> HIDE DEF w, F
<1>5. Weighing(w, F)
    BY <1>1, <1>2, WeighingParts
<1>6. SumOver(w, F) \in Nat /\ \A k \in F : w[k] <= SumOver(w, F)
    BY <1>5, SumType, SumAtLeast
<1> QED
    BY <1>1, <1>3, <1>4, <1>6 DEF F

LEMMA InputCostType ==
    ASSUME NEW P \in SUBSET Soft
    PROVE  /\ InputCost(P) \in Nat /\ InputCost(Soft) \in Nat
           /\ InputCost(P) <= InputCost(Soft)
<1>1. Weighing(weight, Soft)
    BY SoftAssumption, WeightAssumption DEF Weighing
<1>2. Weighing(weight, P) /\ Weighing(weight, Soft \ P)
    BY <1>1, WeighingParts
<1>3. P \cup (Soft \ P) = Soft /\ P \cap (Soft \ P) = {}
    OBVIOUS
<1>4. SumOver(weight, P \cup (Soft \ P)) = SumOver(weight, P) + SumOver(weight, Soft \ P)
    BY <1>1, <1>3, SumApart
<1>5. SumOver(weight, P) \in Nat /\ SumOver(weight, Soft \ P) \in Nat
    BY <1>2, SumType
<1> DEFINE p == SumOver(weight, P)
           q == SumOver(weight, Soft \ P)
           s == SumOver(weight, Soft)
<1>6. s = p + q /\ p \in Nat /\ q \in Nat
    BY <1>3, <1>4, <1>5
<1>7. InputCost(P) = p /\ InputCost(Soft) = s
    BY DEF InputCost
<1> HIDE DEF p, q, s
<1> QED
    BY <1>6, <1>7

\* Choices that relax the same leave the same.
LEMMA SameLeft ==
    ASSUME NEW f, NEW g, SameRelaxed(soft, f, g), NEW P
    PROVE  Left(P, f) = Left(P, g)
<1>1. FalsifiedBy(soft, P, f) = FalsifiedBy(soft, P, g)
    BY DEF FalsifiedBy, SameRelaxed
<1> QED
    BY <1>1, LeftWeighs

\* No symmetry clause forbids the best choice for a model.
LEMMA BestRelaxed ==
    ASSUME FormulaOK, pc # "returned", ~LoggedSplit, NEW P \in profiles
    PROVE  \E g \in Relaxations(symmetryClauses) : InputCost(P) = lbCost + Left(P, g)
<1>1. PICK f \in Selections : InputCost(P) = lbCost + Left(P, f)
    BY DEF FormulaOK, PaidFor
<1>2. PICK g \in Relaxations(symmetryClauses) : SameRelaxed(soft, f, g)
    BY DEF FormulaOK, Unbroken
<1>3. Left(P, f) = Left(P, g)
    BY <1>2, SameLeft
<1> QED
    BY <1>1, <1>3

\* So lbCost is a lower bound, ...
LEMMA BoundBelow ==
    ASSUME FormulaOK, pc # "returned", ~LoggedSplit
    PROVE  \A P \in profiles : lbCost <= InputCost(P)
<1> SUFFICES ASSUME NEW P \in profiles
             PROVE  lbCost <= InputCost(P)
    OBVIOUS
<1>1. PICK g : InputCost(P) = lbCost + Left(P, g)
    BY BestRelaxed
<1>2. Left(P, g) \in Nat /\ lbCost \in Nat
    BY LeftType DEF FormulaOK
<1> QED
    BY <1>1, <1>2

\* ... and a model of all the soft clauses of the working formula costs no more.
LEMMA NothingLeft ==
    ASSUME FormulaOK, NEW P \in profiles, NEW f \in Selections, Falsified(P, f) = {}
    PROVE  InputCost(P) <= lbCost
<1>1. Left(P, f) = 0
    BY SumOfNone DEF Left, WeightOf
<1>2. InputCost(P) <= lbCost + Left(P, f) /\ lbCost \in Nat
    BY DEF FormulaOK, Paid
<1> QED
    BY <1>1, <1>2

\* A core is falsified by every choice the solver knows.
LEMMA CoreMeets ==
    ASSUME SoftOK, ClausesOK, NEW A \in SUBSET (DOMAIN soft), NEW K \in Cores(A)
    PROVE  /\ K \in SUBSET (DOMAIN soft)
           /\ \A P \in profiles, f \in Relaxations(symmetryClauses) : Falsified(P, f) \cap K # {}
<1>1. /\ K \in SUBSET A
      /\ \A P \in profiles, f \in Relaxations(solverClauses) : Falsified(P, f) \cap K # {}
    BY DEF Cores
<1>2. Relaxations(symmetryClauses) \subseteq Relaxations(solverClauses)
    BY DEF Relaxations, ClausesOK
<1> QED
    BY <1>1, <1>2

\* What a core weighs every model costs more than what was paid.
LEMMA CoreIsCost ==
    ASSUME FormulaOK, pc # "returned", ~LoggedSplit,
           NEW A \in SUBSET (DOMAIN soft), NEW K \in Cores(A), K # {}
    PROVE  \A P \in profiles : lbCost + CostCore(K) <= InputCost(P)
<1> SUFFICES ASSUME NEW P \in profiles
             PROVE  lbCost + CostCore(K) <= InputCost(P)
    OBVIOUS
<1>1. SoftOK /\ ClausesOK /\ lbCost \in Nat
    BY DEF FormulaOK
<1>2. PICK g \in Relaxations(symmetryClauses) : InputCost(P) = lbCost + Left(P, g)
    BY BestRelaxed
<1>3. PICK k \in K : k \in Falsified(P, g)
    BY <1>1, CoreMeets
<1>4. IsSoftCore(K)
    BY <1>1, CoreMeets DEF IsSoftCore
<1>5. k \in DOMAIN soft /\ soft[k].weight <= Left(P, g) /\ Left(P, g) \in Nat
    BY <1>1, <1>3, LeftType
<1>6. soft[k].weight \in Nat /\ CostCore(K) \in Nat /\ CostCore(K) <= soft[k].weight
    BY <1>1, <1>4, <1>5, SoftType, CoreCost
<1> QED
    BY <1>1, <1>2, <1>5, <1>6
-----------------------------------------------------------------------------
\* What relaxCore does, in either search.
Relaxing(K) ==
    /\ lbCost' = lbCost + CostCore(K)
    /\ \E logged \in SUBSET {Len(exactlyOne) + 1} : RelaxAndLog(K, logged)
    /\ \E idx : Order(K, idx) /\ Breaking(idx)
    /\ symmetryClauses \subseteq symmetryClauses'
    /\ solverClauses' = symmetryClauses
    /\ UNCHANGED profiles
    /\ pc # "returned"

LEMMA ClausesNext ==
    ASSUME SoftOK, ClausesOK, NEW K, NEW logged, NEW copies, Step(K, logged, copies),
           NEW idx, Order(K, idx), Breaking(idx),
           symmetryClauses \subseteq symmetryClauses', solverClauses' = symmetryClauses
    PROVE  ClausesOK'
<1>1. /\ DOMAIN exactlyOne = 1..Len(exactlyOne) /\ Len(exactlyOne) \in Nat
      /\ DOMAIN exactlyOne' = 1..(Len(exactlyOne) + 1)
  <2>1. DomainsAfter(K, copies)
    BY StepDomains
  <2> QED
    BY <2>1 DEF DomainsAfter
<1>2. ASSUME NEW clause \in symmetryClauses', NEW v \in clause
      PROVE  v[1] \in DOMAIN exactlyOne'
  <2>1. CASE clause \in symmetryClauses
    <3>1. v[1] \in DOMAIN exactlyOne
      BY <2>1 DEF ClausesOK
    <3> QED
      BY <1>1, <3>1
  <2>2. CASE clause \in SymmetryBreaking(idx)
    <3>1. PICK t \in Together(idx) : clause = SymmetryClause(idx, t)
      BY <2>2, NewClause
    <3>2. t[3] \in DOMAIN exactlyOne
      BY DEF Together
    <3>3. v[1] = t[3] \/ v[1] = Len(exactlyOne) + 1
      BY <3>1 DEF SymmetryClause
    <3> QED
      BY <1>1, <3>2, <3>3
  <2> QED
    BY <2>1, <2>2 DEF Breaking
<1> QED
    BY <1>2 DEF ClausesOK

\* Whatever is chosen, a core takes its weight of what is left at most.
LEMMA PaidNext ==
    ASSUME FormulaOK, SoftOK', NEW K, NEW logged, NEW copies, Step(K, logged, copies),
           lbCost' = lbCost + CostCore(K), UNCHANGED profiles
    PROVE  Paid'
<1>1. SUFFICES ASSUME NEW P \in profiles, NEW h \in Selections'
               PROVE  InputCost(P) <= lbCost' + Left(P, h)'
    BY DEF Paid, InputCost
<1>2. SoftOK /\ lbCost \in Nat /\ InputCost(P) \in Nat
    BY InputCostType DEF FormulaOK
<1>3. PICK f \in Selections, q \in Choosable(K) : h = Append(f, q)
  <2>1. \A k : k \in Selections' <=> \E f \in Selections, q \in Choosable(K) : k = Append(f, q)
    BY <1>2, SelectionsNext
  <2> QED
    BY <1>1, <2>1
<1>4. InputCost(P) <= lbCost + Left(P, f)
    BY DEF FormulaOK, Paid
<1>5. /\ Left(P, f) <= Left(P, h)' + CostCore(K)
      /\ Left(P, f) \in Nat /\ Left(P, h)' \in Nat /\ CostCore(K) \in Nat
  <2>1. CostCore(K) \in Nat
    BY <1>2, CoreCost DEF Step
  <2>2. /\ Left(P, f) = Left(P, Append(f, q))'
                        + (IF Base(copies, q) \in Falsified(P, f) THEN CostCore(K) ELSE 0)
        /\ Left(P, f) \in Nat /\ Left(P, Append(f, q))' \in Nat
    BY <1>2, LeftNext
  <2> QED
    BY <1>3, <2>1, <2>2
<1> QED
    BY <1>2, <1>4, <1>5

\* And all of it when the choice is a soft clause of the core that was left.
LEMMA PaidForNext ==
    ASSUME FormulaOK, SoftOK', NEW A \in SUBSET (DOMAIN soft), NEW K \in Cores(A),
           NEW logged, NEW copies, Step(K, logged, copies),
           lbCost' = lbCost + CostCore(K), UNCHANGED profiles, pc # "returned"
    PROVE  PaidFor'
<1>1. SUFFICES ASSUME ~LoggedSplit', NEW P \in profiles
               PROVE  \E h \in Selections' : InputCost(P) = lbCost' + Left(P, h)'
    BY DEF PaidFor, InputCost
<1>2. SoftOK /\ ClausesOK /\ lbCost \in Nat /\ InputCost(P) \in Nat
    BY InputCostType DEF FormulaOK
<1>3. ~LoggedSplit
    BY <1>1, <1>2, LoggedSplitStays
<1>4. PICK f \in Relaxations(symmetryClauses) : InputCost(P) = lbCost + Left(P, f)
    BY <1>3, BestRelaxed
<1>5. PICK b \in K : b \in Falsified(P, f)
    BY <1>2, CoreMeets
<1>6. PICK q \in Choosable(K) : Base(copies, q) = b
    BY <1>2, ChoiceOf
<1>7. f \in Selections
    BY DEF Relaxations
<1>8. /\ Left(P, f) = Left(P, Append(f, q))' + CostCore(K)
      /\ Left(P, f) \in Nat /\ Left(P, Append(f, q))' \in Nat /\ CostCore(K) \in Nat
  <2>1. CostCore(K) \in Nat
    BY <1>2, CoreCost DEF Step
  <2>2. /\ Left(P, f) = Left(P, Append(f, q))'
                        + (IF Base(copies, q) \in Falsified(P, f) THEN CostCore(K) ELSE 0)
        /\ Left(P, f) \in Nat /\ Left(P, Append(f, q))' \in Nat
    BY <1>2, <1>7, LeftNext
  <2> QED
    BY <1>5, <1>6, <2>1, <2>2
<1>9. Append(f, q) \in Selections'
  <2>1. \A g \in Selections, r \in Choosable(K) : Append(g, r) \in Selections'
    BY <1>2, SelectionsNext
  <2> QED
    BY <1>7, <2>1
<1>10. InputCost(P) = lbCost' + Left(P, Append(f, q))'
    BY <1>2, <1>4, <1>8
<1> QED
    BY <1>9, <1>10

(***************************************************************************)
(* Relaxing a core keeps the formula what the input is, shifted by lbCost.  *)
(***************************************************************************)
LEMMA CoreKeeps ==
    ASSUME FormulaOK, NEW A \in SUBSET (DOMAIN soft), NEW K \in Cores(A), K # {}, Relaxing(K)
    PROVE  FormulaOK' /\ \E logged, copies : Step(K, logged, copies)
<1>1. SoftOK /\ ClausesOK /\ lbCost \in Nat /\ profiles \in SUBSET SUBSET Soft
    BY DEF FormulaOK
<1>2. IsSoftCore(K)
    BY <1>1, CoreMeets DEF IsSoftCore
<1>3. PICK logged \in SUBSET {Len(exactlyOne) + 1} : RelaxAndLog(K, logged)
    BY DEF Relaxing
<1>4. logged \in SUBSET Nat
    BY <1>1 DEF SoftOK
<1>5. PICK copies : Copying(K, copies) /\ SoftSplit(K, logged, copies)
    BY <1>1, <1>2, <1>3, <1>4, SoftRelaxed DEF Splitting
<1>6. Step(K, logged, copies)
    BY <1>2, <1>5 DEF Step
<1>7. PICK idx : Order(K, idx) /\ Breaking(idx)
    BY DEF Relaxing
<1>8. SoftOK'
    BY <1>1, <1>6, SoftOKNext
<1>9. ClausesOK'
    BY <1>1, <1>6, <1>7, ClausesNext DEF Relaxing
<1>10. Unbroken'
  <2>1. Unbroken
    BY DEF FormulaOK
  <2> QED
    BY <1>1, <1>6, <1>7, <1>8, <2>1, UnbrokenNext
<1>11. CostsKept'
  <2>1. \A P : CostModel(P)' = CostModel(P)
    BY <1>1, <1>6, <1>8, CostModelNext
  <2> QED
    BY <2>1 DEF FormulaOK, CostsKept, InputCost
<1>12. Paid' /\ PaidFor'
    BY <1>6, <1>8, PaidNext, PaidForNext DEF Relaxing
<1>13. lbCost' \in Nat /\ UNCHANGED profiles
    BY <1>1, <1>2, CoreCost DEF Relaxing
<1>14. FormulaOK'
    BY <1>1, <1>8, <1>9, <1>10, <1>11, <1>12, <1>13 DEF FormulaOK
<1> QED
    BY <1>6, <1>14-----------------------------------------------------------------------------
(***************************************************************************)
(* What is assumed.  UpWBO assumes the soft clauses of the partitions that  *)
(* have entered and every part split off; WBO assumes all.                  *)
(***************************************************************************)
Entered ==
    /\ assumptions \in SUBSET (DOMAIN soft)
    /\ pc = "unsatSearch" => DOMAIN soft = Soft /\ current_partition = 0
    /\ (upmax /\ pc = "normalSearch") =>
          /\ current_partition \in 0..(nSoftPartitions - 1)
          /\ \A i \in Soft : Position(SlotOf(i)) <= current_partition => i \in assumptions
          /\ (DOMAIN soft) \ Soft \subseteq assumptions
    /\ (~upmax /\ pc \in {"normalSearch", "weightSearch"}) => assumptions = DOMAIN soft
    /\ (~upmax /\ pc = "normalSearch") => weightStrategy = "none"

ModelSaved ==
    profiles # {} =>
        /\ pc = "unsatSearch" => model = NoModel /\ ubCost = InputCost(Soft)
        /\ (pc # "unsatSearch" /\ ~(pc = "returned" /\ LoggedSplit)) =>
              model \in profiles /\ ubCost = InputCost(model)

Best(P) == P \in profiles /\ \A Q \in profiles : InputCost(P) <= InputCost(Q)

Answered ==
    profiles # {} =>
        /\ answer = IF pc = "returned" THEN "_OPTIMUM_" ELSE Running
        /\ (pc = "returned" /\ ~LoggedSplit) => lbCost = ubCost /\ Best(model)

WBOInv ==
    /\ label \in [Soft -> -1..nPartitions]
    /\ upmax \in BOOLEAN
    /\ FormulaOK
    /\ Entered
    /\ ModelSaved
    /\ Answered

-----------------------------------------------------------------------------
\* The working formula is the input formula to start with.
LEMMA InitFormula ==
    ASSUME Init
    PROVE  FormulaOK /\ DOMAIN soft = Soft /\ ubCost = InputCost(Soft)
<1> DEFINE first(i) == [clause |-> i, weight |-> weight[i],
                        relaxation_vars |-> {}, softMapping |-> {}]
<1>1. /\ soft = [i \in Soft |-> first(i)]
      /\ exactlyOne = <<>> /\ symmetryClauses = {} /\ solverClauses = {}
      /\ lbCost = 0 /\ ubCost = WeightOf(Soft)
      /\ profiles \in SUBSET SUBSET Soft
      /\ pc = "unsatSearch"
    BY ProblemAssumption DEF Init
<1>2. DOMAIN soft = Soft
    BY <1>1
<1>3. ASSUME NEW i \in Soft
      PROVE  /\ soft[i] \in SoftClauses
             /\ soft[i].clause = i /\ soft[i].weight = weight[i]
             /\ soft[i].relaxation_vars = {} /\ soft[i].softMapping = {}
    BY <1>1, WeightAssumption DEF SoftClauses
<1>4. SoftOK
  <2>1. soft \in Seq(SoftClauses)
    <3>1. Cardinality(Soft) \in Nat
      BY SoftAssumption, FS_CardinalityType
    <3>2. soft \in [1..Cardinality(Soft) -> SoftClauses]
      <4> HIDE DEF first
      <4>1. soft \in [Soft -> SoftClauses]
        BY <1>1, <1>3
      <4> QED
        BY <4>1, IndexAssumption
    <3> QED
      BY <3>1, <3>2
  <2>2. exactlyOne \in Seq(SUBSET (DOMAIN soft))
    BY <1>1
  <2> QED
    BY <1>2, <1>3, <2>1, <2>2 DEF SoftOK
<1>5. ClausesOK
    BY <1>1 DEF ClausesOK
<1>6. Unbroken
  <2>1. \A f \in Selections : f \in Relaxations(symmetryClauses)
    BY <1>1 DEF Relaxations
  <2>2. \A f : SameRelaxed(soft, f, f)
    BY DEF SameRelaxed
  <2> QED
    BY <2>1, <2>2 DEF Unbroken
<1>7. Weighing(weight, Soft)
    BY SoftAssumption, WeightAssumption DEF Weighing
<1> DEFINE w == [k \in DOMAIN soft |-> soft[k].weight]
<1>8. ASSUME NEW P \in SUBSET Soft
      PROVE  WeightOf(P) = InputCost(P)
  <2>1. \A k \in P : w[k] = weight[k]
    BY <1>2, <1>3
  <2> HIDE DEF w
  <2>2. Weighing(weight, P)
    BY <1>7, WeighingParts
  <2>3. SumOver(w, P) = SumOver(weight, P)
    BY <2>1, <2>2, SumSame
  <2> QED
    BY <2>3 DEF w, WeightOf, InputCost
<1>9. ASSUME NEW P \in SUBSET Soft
      PROVE  {k \in DOMAIN soft : soft[k].clause \in P} = P
    BY <1>2, <1>3
<1>10. CostsKept
    BY <1>8, <1>9 DEF CostsKept, CostModel
<1>11. ASSUME NEW P \in profiles, NEW f
       PROVE  InputCost(P) = lbCost + Left(P, f)
  <2>1. \A k \in DOMAIN soft : ~Relaxed(k, f)
    BY <1>2, <1>3 DEF Relaxed
  <2>2. Falsified(P, f) = P
    BY <1>1, <1>9, <2>1 DEF Falsified
  <2>3. Left(P, f) = InputCost(P) /\ InputCost(P) \in Nat
    BY <1>1, <1>8, <2>2, InputCostType DEF Left
  <2> QED
    BY <1>1, <2>3
<1>12. <<>> \in Selections
  <2>1. Selecting(<<>>, exactlyOne, DOMAIN soft)
    BY <1>1 DEF Selecting
  <2> QED
    BY <1>4, <2>1, SelectionsOf
<1>13. Paid
  <2>1. \A P \in profiles, f \in Selections : Left(P, f) \in Nat
    BY <1>4, LeftType
  <2> QED
    BY <1>1, <1>11, <2>1 DEF Paid
<1>14. PaidFor
    BY <1>11, <1>12 DEF PaidFor
<1>15. FormulaOK
    BY <1>1, <1>4, <1>5, <1>6, <1>10, <1>13, <1>14 DEF FormulaOK
<1> QED
    BY <1>1, <1>2, <1>8, <1>15

LEMMA InitWBOInv == WBOInit => WBOInv
<1> SUFFICES ASSUME WBOInit
             PROVE  WBOInv
    OBVIOUS
<1>1. Init /\ upmax \in BOOLEAN
    BY DEF WBOInit
<1>2. FormulaOK /\ DOMAIN soft = Soft /\ ubCost = InputCost(Soft)
    BY <1>1, InitFormula
<1>3. /\ label \in [Soft -> -1..nPartitions]
      /\ assumptions = {} /\ current_partition = 0
      /\ model = NoModel /\ answer = Running /\ pc = "unsatSearch"
    BY <1>1 DEF Init, InitLabels
<1> QED
    BY <1>1, <1>2, <1>3 DEF WBOInv, Entered, ModelSaved, Answered

\* A step that leaves the working formula alone; one that returns may add the
\* last core to lbCost.
Leaving ==
    /\ UNCHANGED <<profiles, soft, exactlyOne, symmetryClauses>>
    /\ solverClauses' \in {solverClauses, symmetryClauses}
    /\ pc = "returned" => pc' = "returned"
    /\ \/ UNCHANGED lbCost
       \/ pc' = "returned" /\ lbCost' \in Nat /\ lbCost' >= lbCost

LEMMA FormulaLeft ==
    ASSUME FormulaOK, Leaving
    PROVE  FormulaOK' /\ (LoggedSplit' <=> LoggedSplit)
<1> USE DEF Leaving
<1>1. SoftOK /\ SoftOK'
    BY DEF FormulaOK, SoftOK
<1>2. \A f : f \in Selections' <=> f \in Selections
    BY <1>1, SelectionsOf, SelectionsOfNext
<1>3. \A P, f : Left(P, f)' = Left(P, f)
    BY LeftWeighs
<1>4. LoggedSplit' <=> LoggedSplit
    BY DEF LoggedSplit
<1>5. ClausesOK'
    BY DEF FormulaOK, ClausesOK
<1>6. Relaxations(symmetryClauses)' = Relaxations(symmetryClauses)
    BY <1>2 DEF Relaxations
<1>7. Unbroken'
  <2>1. Unbroken
    BY DEF FormulaOK
  <2> QED
    BY <1>2, <1>4, <1>6, <2>1 DEF Unbroken, SameRelaxed, Relaxes, SomeTrue
<1>8. CostsKept'
    BY DEF FormulaOK, CostsKept, CostModel, WeightOf, InputCost
<1>9. lbCost \in Nat /\ lbCost' \in Nat /\ lbCost' >= lbCost
    BY DEF FormulaOK
<1>10. Paid'
  <2>1. ASSUME NEW P \in profiles, NEW f \in Selections
        PROVE  InputCost(P) <= lbCost' + Left(P, f)'
    <3>1. InputCost(P) <= lbCost + Left(P, f)
      BY DEF FormulaOK, Paid
    <3>2. InputCost(P) \in Nat /\ Left(P, f) \in Nat /\ Left(P, f)' = Left(P, f)
      BY <1>1, <1>3, InputCostType, LeftType DEF FormulaOK
    <3> QED
      BY <1>9, <3>1, <3>2
  <2> QED
    BY <1>2, <2>1 DEF Paid, InputCost
<1>11. PaidFor'
    BY <1>2, <1>3, <1>4 DEF FormulaOK, PaidFor, InputCost
<1> QED
    BY <1>1, <1>4, <1>5, <1>7, <1>8, <1>9, <1>10, <1>11 DEF FormulaOK-----------------------------------------------------------------------------
(***************************************************************************)
(* The steps of the promise.                                                *)
(***************************************************************************)
Refines == (profiles # {} /\ ~LoggedSplit) => [Promise!Next]_(Promise!vars)

\* A model may be saved, and the search may return with a best one.
Models ==
    /\ UNCHANGED profiles
    /\ \/ \E P \in profiles : model' = P /\ ubCost' = InputCost(P) /\ InputCost(P) <= ubCost
       \/ UNCHANGED <<model, ubCost>>

Answers ==
    \/ UNCHANGED <<answer, lbCost>>
    \/ answer' = "_OPTIMUM_" /\ Best(model') /\ lbCost' \in {lbCost, ubCost'}

LEMMA ModelRefines ==
    ASSUME profiles \in SUBSET SUBSET Soft, answer = Running, Models, Answers
    PROVE  [Promise!Next]_(Promise!vars)
<1>1. answer = Promise!Running
    BY DEF Running, Promise!Running
<1>2. \A P \in profiles : [Q \in SUBSET Soft |-> InputCost(Q)][P] = InputCost(P)
    OBVIOUS
<1>3. \A P : Best(P) => Promise!Optimal(P)
    BY <1>2 DEF Best, Promise!Optimal
<1>4. ASSUME NEW P \in profiles, model' = P, ubCost' = InputCost(P), InputCost(P) <= ubCost
      PROVE  Promise!SaveBetterModel(P)
    BY <1>2, <1>4 DEF Promise!SaveBetterModel
<1>5. UNCHANGED profiles
    BY DEF Models
<1>6. (\E P \in profiles : Promise!SaveBetterModel(P)) \/ UNCHANGED <<model, ubCost>>
    BY <1>4 DEF Models
<1>7. CASE UNCHANGED <<answer, lbCost>>
  <2>1. CASE \E P \in profiles : Promise!SaveBetterModel(P)
    BY <1>1, <1>5, <1>7, <2>1 DEF Promise!FindModel, Promise!Next
  <2>2. CASE UNCHANGED <<model, ubCost>>
    BY <1>5, <1>7, <2>2 DEF Promise!vars
  <2> QED
    BY <1>6, <2>1, <2>2
<1>8. CASE answer' = "_OPTIMUM_" /\ Best(model') /\ lbCost' \in {lbCost, ubCost'}
    BY <1>1, <1>3, <1>5, <1>6, <1>8 DEF Promise!AnswerOptimum, Promise!Next
<1> QED
    BY <1>7, <1>8 DEF Answers

LEMMA CoreRefines ==
    ASSUME profiles \in SUBSET SUBSET Soft, answer = Running,
           UNCHANGED <<profiles, ubCost, model, answer>>,
           lbCost \in Nat, lbCost' \in Nat, lbCost' > lbCost,
           \A P \in profiles : lbCost' <= InputCost(P)
    PROVE  [Promise!Next]_(Promise!vars)
<1>1. answer = Promise!Running
    BY DEF Running, Promise!Running
<1>2. \A P \in profiles : [Q \in SUBSET Soft |-> InputCost(Q)][P] = InputCost(P)
    OBVIOUS
<1> QED
    BY <1>1, <1>2 DEF Promise!RaiseLowerBound, Promise!Next

\* A model of all the soft clauses of the working formula is a best one.
LEMMA AllHold ==
    ASSUME FormulaOK, pc # "returned", ~LoggedSplit,
           NEW P \in profiles, Allows(P, DOMAIN soft)
    PROVE  InputCost(P) = lbCost /\ Best(P)
<1>1. PICK f \in Relaxations(solverClauses) : Falsified(P, f) \cap (DOMAIN soft) = {}
    BY DEF Allows
<1>2. Falsified(P, f) = {} /\ f \in Selections
    BY <1>1 DEF Falsified, Relaxations
<1>3. InputCost(P) <= lbCost
    BY <1>2, NothingLeft
<1>4. \A Q \in profiles : lbCost <= InputCost(Q)
    BY BoundBelow
<1>5. lbCost \in Nat /\ \A Q \in profiles : InputCost(Q) \in Nat
    BY InputCostType DEF FormulaOK
<1>6. InputCost(P) = lbCost
    BY <1>3, <1>4, <1>5
<1> QED
    BY <1>4, <1>6 DEF Best

\* What a search that has searched knows of its model.
LEMMA SavedModel ==
    ASSUME FormulaOK, ModelSaved, Answered, profiles # {},
           pc # "unsatSearch", pc # "returned"
    PROVE  /\ model \in profiles /\ ubCost = InputCost(model)
           /\ answer = Running /\ ubCost \in Nat
    BY InputCostType DEF FormulaOK, ModelSaved, Answered

-----------------------------------------------------------------------------
\* A search that returns because the bounds have met is right.
Returns ==
    /\ pc \notin {"unsatSearch", "returned"} /\ pc' = "returned" /\ answer' = "_OPTIMUM_"
    /\ assumptions' = assumptions
    /\ UNCHANGED <<label, upmax>>
    /\ (profiles # {} /\ ~LoggedSplit) =>
          /\ Models
          /\ lbCost' = ubCost'
          /\ Best(model')

LEMMA ReturnKeeps ==
    ASSUME WBOInv, Leaving, Returns
    PROVE  WBOInv' /\ Refines
<1>1. FormulaOK' /\ (LoggedSplit' <=> LoggedSplit)
    BY FormulaLeft DEF WBOInv
<1>2. UNCHANGED <<profiles, soft>> /\ pc # "returned"
    BY DEF Leaving, Returns
<1>3. Entered'
    BY <1>2 DEF WBOInv, Entered, Returns
<1>4. (profiles # {} /\ ~LoggedSplit) =>
          model' \in profiles /\ ubCost' = InputCost(model') /\ lbCost' = ubCost' /\ Best(model')
  <2>1. ASSUME profiles # {}
        PROVE  model \in profiles /\ ubCost = InputCost(model)
    BY <1>2, <2>1, SavedModel DEF WBOInv, Returns
  <2> QED
    BY <2>1 DEF Returns, Models
<1>5. ModelSaved'
    BY <1>1, <1>2, <1>4 DEF ModelSaved, Returns, InputCost
<1>6. Answered'
    BY <1>1, <1>2, <1>4 DEF Answered, Returns, Best, InputCost
<1>7. Refines
  <2>1. ASSUME profiles # {}, ~LoggedSplit
        PROVE  [Promise!Next]_(Promise!vars)
    <3>1. answer = Running /\ profiles \in SUBSET SUBSET Soft
      BY <1>2, <2>1, SavedModel DEF WBOInv, Returns, FormulaOK
    <3>2. Models /\ Answers
      BY <2>1 DEF Returns, Answers
    <3> QED
      BY <3>1, <3>2, ModelRefines
  <2> QED
    BY <2>1 DEF Refines
<1> QED
    BY <1>1, <1>3, <1>5, <1>6, <1>7 DEF WBOInv, Returns

\* A search that may save a model, and goes on.
GoesOn ==
    /\ pc \notin {"unsatSearch", "returned"} /\ pc' \in {pc, "aborted"}
    /\ UNCHANGED <<label, upmax, lbCost, answer>>
    /\ Models

LEMMA GoingOn ==
    ASSUME WBOInv, Leaving, GoesOn, Entered'
    PROVE  WBOInv' /\ Refines
<1>1. FormulaOK' /\ (LoggedSplit' <=> LoggedSplit)
    BY FormulaLeft DEF WBOInv
<1>2. UNCHANGED profiles /\ pc # "returned"
    BY DEF Leaving, GoesOn
<1>3. ASSUME profiles # {}
      PROVE  /\ model \in profiles /\ ubCost = InputCost(model)
             /\ answer = Running
    BY <1>2, <1>3, SavedModel DEF WBOInv, GoesOn
<1>4. ModelSaved'
    BY <1>2, <1>3 DEF ModelSaved, GoesOn, Models, InputCost
<1>5. Answered'
    BY <1>2, <1>3 DEF Answered, GoesOn, Running
<1>6. Refines
  <2>1. ASSUME profiles # {}
        PROVE  [Promise!Next]_(Promise!vars)
    <3>1. profiles \in SUBSET SUBSET Soft
      BY DEF WBOInv, FormulaOK
    <3>2. Models /\ Answers
      BY DEF GoesOn, Answers
    <3> QED
      BY <1>3, <2>1, <3>1, <3>2, ModelRefines
  <2> QED
    BY <2>1 DEF Refines
<1> QED
    BY <1>1, <1>4, <1>5, <1>6 DEF WBOInv, GoesOn-----------------------------------------------------------------------------
\* The first model.
LEMMA FirstModel ==
    ASSUME WBOInv, pc = "unsatSearch", pc' \in {"normalSearch", "weightSearch", "aborted"},
           UNCHANGED <<problem, formula, lbCost, upmax>>,
           \/ (\E P \in profiles : model' = P /\ ubCost' = CostModel(P)) /\ UNCHANGED answer
           \/ profiles = {},
           Entered'
    PROVE  WBOInv' /\ Refines
<1>1. UNCHANGED <<profiles, label, soft, exactlyOne, symmetryClauses, solverClauses>>
    BY DEF problem, formula
<1>2. Leaving
    BY <1>1 DEF Leaving
<1>3. FormulaOK'
    BY <1>2, FormulaLeft DEF WBOInv
<1>4. ASSUME profiles # {}
      PROVE  \E P \in profiles : model' = P /\ ubCost' = InputCost(P) /\ UNCHANGED answer
    BY <1>4 DEF WBOInv, FormulaOK, CostsKept
<1>5. ModelSaved'
    BY <1>1, <1>4 DEF ModelSaved, InputCost
<1>6. Answered'
    BY <1>1, <1>4 DEF WBOInv, Answered, Running
<1>7. Refines
  <2>1. ASSUME profiles # {}
        PROVE  [Promise!Next]_(Promise!vars)
    <3>1. /\ profiles \in SUBSET SUBSET Soft
          /\ ubCost = InputCost(Soft)
          /\ answer = Running
      BY <2>1 DEF WBOInv, FormulaOK, ModelSaved, Answered
    <3>2. \A P \in profiles : InputCost(P) <= ubCost
      BY <3>1, InputCostType
    <3>3. Models
      BY <1>1, <1>4, <2>1, <3>2 DEF Models
    <3>4. Answers
      BY <1>4, <2>1 DEF Answers
    <3> QED
      BY <3>1, <3>3, <3>4, ModelRefines
  <2> QED
    BY <2>1 DEF Refines
<1> QED
    BY <1>1, <1>3, <1>5, <1>6, <1>7 DEF WBOInv

LEMMA UnsatSearchKeeps ==
    ASSUME WBOInv, upmax, UnsatSearch, UNCHANGED <<settings, stratified>>
    PROVE  WBOInv' /\ Refines
<1> USE DEF UnsatSearch, settings, problem, formula
<1>1. /\ UNCHANGED <<label, soft, upmax, current_partition>>
      /\ pc' = "normalSearch"
      /\ assumptions' = SoftPartition(0)
    OBVIOUS
<1>2. DOMAIN soft = Soft /\ current_partition = 0 /\ label \in [Soft -> -1..nPartitions]
    BY DEF WBOInv, Entered
<1>3. /\ nSoftPartitions \in Nat /\ 0 < nSoftPartitions
      /\ \A i \in Soft : Position(SlotOf(i)) \in 0..(nSoftPartitions - 1)
    BY <1>2, PositionRange
<1>4. /\ nSoftPartitions' = nSoftPartitions
      /\ \A i \in Soft : Position(SlotOf(i))' = Position(SlotOf(i))
    BY <1>1, PartitionsFixed
<1>5. Entered'
  <2>1. /\ assumptions' \in SUBSET Soft
        /\ \A i \in Soft : Position(SlotOf(i)) = 0 => i \in assumptions'
    BY <1>1 DEF SoftPartition
  <2>2. /\ current_partition' = 0 /\ 0 \in 0..(nSoftPartitions' - 1)
        /\ \A i \in Soft : Position(SlotOf(i))' <= current_partition' => i \in assumptions'
    BY <1>1, <1>2, <1>3, <1>4, <2>1
  <2>3. DOMAIN soft' = Soft /\ (DOMAIN soft') \ Soft = {}
    BY <1>1, <1>2
  <2> QED
    BY <1>1, <2>1, <2>2, <2>3 DEF Entered
<1>6. \/ (\E P \in profiles : model' = P /\ ubCost' = CostModel(P)) /\ UNCHANGED answer
      \/ profiles = {}
    OBVIOUS
<1>7. pc = "unsatSearch" /\ UNCHANGED <<problem, formula, lbCost, upmax>>
    OBVIOUS
<1> QED
    BY <1>1, <1>5, <1>6, <1>7, FirstModel

LEMMA WBOUnsatSearchKeeps ==
    ASSUME WBOInv, ~upmax, WBOUnsatSearch
    PROVE  WBOInv' /\ Refines
<1>1. /\ UNCHANGED <<problem, formula, lbCost, settings>>
      /\ pc = "unsatSearch"
      /\ assumptions' = DOMAIN soft
      /\ pc' \in {"normalSearch", "weightSearch", "aborted"}
      /\ pc' = "normalSearch" => weightStrategy = "none"
      /\ \/ (\E P \in profiles : model' = P /\ ubCost' = CostModel(P)) /\ UNCHANGED answer
         \/ profiles = {}
    BY DEF WBOUnsatSearch
<1>2. UNCHANGED <<soft, upmax, options>>
    BY <1>1 DEF formula, settings
<1>3. Entered'
    BY <1>1, <1>2 DEF Entered, weightStrategy
<1> QED
    BY <1>1, <1>2, <1>3, FirstModel
-----------------------------------------------------------------------------
\* UpWBO's steps.

\* On the last partition all soft clauses are assumed.
LEMMA LastAssumesAll ==
    ASSUME label \in [Soft -> -1..nPartitions], Entered, upmax, pc = "normalSearch",
           LastPartition
    PROVE  assumptions = DOMAIN soft
<1>1. /\ nSoftPartitions \in Nat
      /\ \A i \in Soft : Position(SlotOf(i)) \in 0..(nSoftPartitions - 1)
    BY PositionRange
<1>2. /\ assumptions \in SUBSET (DOMAIN soft)
      /\ current_partition \in 0..(nSoftPartitions - 1)
      /\ \A i \in Soft : Position(SlotOf(i)) <= current_partition => i \in assumptions
      /\ (DOMAIN soft) \ Soft \subseteq assumptions
    BY DEF Entered
<1>3. \A i \in Soft : Position(SlotOf(i)) <= current_partition
    BY <1>1, <1>2 DEF LastPartition
<1> QED
    BY <1>2, <1>3

\* The next partition enters.
Enters ==
    /\ ~LastPartition
    /\ current_partition' = current_partition + 1
    /\ assumptions' = assumptions \cup SoftPartition(current_partition + 1)
    /\ UNCHANGED <<label, soft, upmax, pc>>

LEMMA NextEntered ==
    ASSUME label \in [Soft -> -1..nPartitions], SoftOK, Entered, upmax, pc = "normalSearch",
           Enters
    PROVE  Entered'
<1> USE DEF Enters
<1>1. /\ nSoftPartitions \in Nat
      /\ \A i \in Soft : Position(SlotOf(i)) \in 0..(nSoftPartitions - 1)
    BY PositionRange
<1>2. /\ nSoftPartitions' = nSoftPartitions
      /\ \A i \in Soft : Position(SlotOf(i))' = Position(SlotOf(i))
    BY PartitionsFixed
<1>3. /\ assumptions \in SUBSET (DOMAIN soft)
      /\ current_partition \in 0..(nSoftPartitions - 1)
      /\ \A i \in Soft : Position(SlotOf(i)) <= current_partition => i \in assumptions
      /\ (DOMAIN soft) \ Soft \subseteq assumptions
    BY DEF Entered
<1>4. current_partition' \in 0..(nSoftPartitions' - 1)
    BY <1>1, <1>2, <1>3 DEF LastPartition
<1>5. ASSUME NEW i \in Soft, Position(SlotOf(i))' <= current_partition'
      PROVE  i \in assumptions'
  <2>1. Position(SlotOf(i)) <= current_partition
          \/ Position(SlotOf(i)) = current_partition + 1
    BY <1>1, <1>2, <1>3, <1>5
  <2> QED
    BY <1>3, <2>1 DEF SoftPartition
<1>6. assumptions' \in SUBSET (DOMAIN soft')
  <2>1. Soft \subseteq DOMAIN soft
    BY DEF SoftOK
  <2> QED
    BY <1>3, <2>1 DEF SoftPartition
<1> QED
    BY <1>3, <1>4, <1>5, <1>6 DEF Entered

\* What SaveModel saves is no worse than what was saved.
LEMMA SaveModelModels ==
    ASSUME FormulaOK, NEW P \in profiles, SaveModel(P), UNCHANGED profiles
    PROVE  Models /\ (CostModel(P) > ubCost \/ (model' = P /\ ubCost' = InputCost(P)))
<1>1. CostModel(P) = InputCost(P)
    BY DEF FormulaOK, CostsKept
<1> QED
    BY <1>1 DEF SaveModel, Models

LEMMA SatisfiableKeeps ==
    ASSUME WBOInv, upmax, NEW P \in profiles, Satisfiable(P), UNCHANGED <<settings, stratified>>
    PROVE  WBOInv' /\ Refines
<1>1. /\ pc = "normalSearch" /\ FormulaOK
      /\ UNCHANGED <<profiles, label, soft, exactlyOne, symmetryClauses, solverClauses,
                     lbCost, upmax>>
      /\ Allows(P, assumptions) /\ SaveModel(P) /\ NextPartition
    BY DEF WBOInv, Satisfiable, problem, formula, settings
<1>2. Leaving
    BY <1>1 DEF Leaving
<1>3. Models /\ (CostModel(P) > ubCost \/ (model' = P /\ ubCost' = InputCost(P)))
    BY <1>1, SaveModelModels
<1>4. CASE LastPartition \/ ubCost' = 0
  <2>1. answer' = "_OPTIMUM_" /\ pc' = "returned" /\ assumptions' = assumptions
    BY <1>1, <1>4 DEF NextPartition
  <2>2. ASSUME ~LoggedSplit
        PROVE  lbCost' = ubCost' /\ Best(model')
    <3>1. model \in profiles /\ ubCost = InputCost(model) /\ ubCost \in Nat
      BY <1>1, SavedModel DEF WBOInv
    <3>2. /\ \A Q \in profiles : lbCost <= InputCost(Q) /\ InputCost(Q) \in Nat
          /\ lbCost \in Nat
      BY <1>1, <2>2, BoundBelow, InputCostType DEF FormulaOK
    <3>3. model' \in profiles /\ ubCost' = InputCost(model')
      <4>1. (\E Q \in profiles : model' = Q /\ ubCost' = InputCost(Q))
              \/ UNCHANGED <<model, ubCost>>
        BY <1>3 DEF Models
      <4> QED
        BY <3>1, <4>1
    <3>4. ubCost' = lbCost
      <4>1. CASE LastPartition
        <5>1. assumptions = DOMAIN soft
          BY <1>1, <4>1, LastAssumesAll DEF WBOInv
        <5>2. InputCost(P) = lbCost
          BY <1>1, <2>2, <5>1, AllHold
        <5>3. CostModel(P) = InputCost(P)
          BY <1>1 DEF FormulaOK, CostsKept
        <5> QED
          BY <1>3, <3>1, <3>2, <5>2, <5>3
      <4>2. CASE ubCost' = 0
        <5>1. lbCost <= InputCost(model')
          BY <3>2, <3>3
        <5>2. InputCost(model') = 0
          BY <3>3, <4>2
        <5>3. lbCost = 0
          BY <3>2, <5>1, <5>2
        <5> QED
          BY <4>2, <5>3
      <4> QED
        BY <1>4, <4>1, <4>2
    <3> QED
      BY <1>1, <3>2, <3>3, <3>4 DEF Best
  <2>3. Returns
    BY <1>1, <1>3, <2>1, <2>2 DEF Returns
  <2> QED
    BY <1>2, <2>3, ReturnKeeps
<1>5. CASE ~LastPartition /\ ubCost' # 0
  <2>1. Enters /\ UNCHANGED answer
    BY <1>1, <1>5 DEF NextPartition, Enters
  <2>2. Entered'
    BY <1>1, <2>1, NextEntered DEF WBOInv, FormulaOK
  <2>3. GoesOn
    BY <1>1, <1>3, <2>1 DEF GoesOn, Enters
  <2> QED
    BY <1>2, <2>2, <2>3, GoingOn
<1> QED
    BY <1>4, <1>5

LEMMA BudgetExhaustedKeeps ==
    ASSUME WBOInv, upmax, BudgetExhausted, UNCHANGED <<settings, stratified>>
    PROVE  WBOInv' /\ Refines
<1>1. /\ pc = "normalSearch"
      /\ UNCHANGED <<profiles, label, soft, exactlyOne, symmetryClauses, solverClauses,
                     lbCost, ubCost, model, answer, pc, upmax>>
      /\ Enters
    BY DEF BudgetExhausted, problem, formula, settings, Enters
<1>2. Leaving /\ GoesOn
    BY <1>1 DEF Leaving, GoesOn, Models
<1>3. Entered'
    BY <1>1, NextEntered DEF WBOInv, FormulaOK
<1> QED
    BY <1>2, <1>3, GoingOn-----------------------------------------------------------------------------
(***************************************************************************)
(* The cores.                                                               *)
(***************************************************************************)
LEMMA CoreStepKeeps ==
    ASSUME WBOInv, NEW A \in SUBSET assumptions, NEW K \in Cores(A), K # {},
           pc \in {"normalSearch", "weightSearch"}, Relaxing(K), AssumeParts,
           UNCHANGED <<label, upmax, options, current_partition, ubCost, model, answer, pc>>
    PROVE  WBOInv' /\ Refines
<1>1. FormulaOK /\ SoftOK /\ Entered /\ UNCHANGED profiles /\ pc # "returned"
    BY DEF WBOInv, FormulaOK, Relaxing
<1>2. A \in SUBSET (DOMAIN soft)
    BY <1>1 DEF Entered
<1>3. FormulaOK' /\ \E logged, copies : Step(K, logged, copies)
    BY <1>1, <1>2, CoreKeeps
<1>4. PICK logged, copies : Step(K, logged, copies)
    BY <1>3
<1>5. DOMAIN soft \subseteq DOMAIN soft'
  <2>1. DomainsAfter(K, copies)
    BY <1>1, <1>4, StepDomains
  <2> QED
    BY <2>1 DEF DomainsAfter
<1>6. assumptions' = assumptions \cup ((DOMAIN soft') \ (DOMAIN soft))
    BY DEF AssumeParts
<1>7. Entered'
  <2>1. /\ nSoftPartitions' = nSoftPartitions
        /\ \A i \in Soft : Position(SlotOf(i))' = Position(SlotOf(i))
    BY PartitionsFixed
  <2>2. assumptions' \in SUBSET (DOMAIN soft')
    BY <1>1, <1>5, <1>6 DEF Entered
  <2>3. ASSUME upmax, pc = "normalSearch"
        PROVE  /\ current_partition' \in 0..(nSoftPartitions' - 1)
               /\ \A i \in Soft : Position(SlotOf(i))' <= current_partition' => i \in assumptions'
               /\ (DOMAIN soft') \ Soft \subseteq assumptions'
    BY <1>1, <1>6, <2>1, <2>3 DEF Entered
  <2>4. ASSUME ~upmax
        PROVE  assumptions' = DOMAIN soft'
    BY <1>1, <1>5, <1>6, <2>4 DEF Entered
  <2>5. weightStrategy' = weightStrategy
    BY DEF weightStrategy
  <2> QED
    BY <1>1, <2>2, <2>3, <2>4, <2>5 DEF Entered
<1>8. ModelSaved' /\ Answered'
  <2>1. pc' # "unsatSearch" /\ pc' # "returned" /\ pc # "unsatSearch"
    BY <1>1
  <2>2. ModelSaved /\ Answered
    BY DEF WBOInv
  <2>3. ModelSaved'
    BY <1>1, <2>1, <2>2 DEF ModelSaved, InputCost
  <2>4. Answered'
    BY <1>1, <2>1, <2>2 DEF Answered, Running
  <2> QED
    BY <2>3, <2>4
<1>9. Refines
  <2>1. ASSUME profiles # {}, ~LoggedSplit
        PROVE  [Promise!Next]_(Promise!vars)
    <3>1. answer = Running /\ profiles \in SUBSET SUBSET Soft /\ lbCost \in Nat
      BY <1>1, <2>1 DEF WBOInv, FormulaOK, Answered
    <3>2. IsSoftCore(K)
      BY <1>4 DEF Step
    <3>3. CostCore(K) \in Nat \ {0}
      BY <1>1, <3>2, CoreCost
    <3>4. lbCost' = lbCost + CostCore(K)
      BY DEF Relaxing
    <3>5. \A P \in profiles : lbCost' <= InputCost(P)
      BY <1>1, <1>2, <2>1, <3>4, CoreIsCost
    <3>6. lbCost' \in Nat /\ lbCost' > lbCost
      BY <3>1, <3>3, <3>4
    <3> QED
      BY <1>1, <3>1, <3>5, <3>6, CoreRefines
  <2> QED
    BY <2>1 DEF Refines
<1> QED
    BY <1>3, <1>7, <1>8 , <1>9 DEF WBOInv

LEMMA IndexOrder ==
    ASSUME SoftOK, NEW K, IsSoftCore(K), NEW idx \in IndexSoftCores(K)
    PROVE  Order(K, idx)
<1> DEFINE S == {k \in Kept(K) : soft[k].softMapping # {}}
<1>1. IsFiniteSet(S) /\ S \subseteq Kept(K)
  <2>1. S \subseteq K /\ IsFiniteSet(K)
    BY CoreCost
  <2> QED
    BY <2>1, FS_Subset
<1>2. Cardinality(S) \in Nat
    BY <1>1, FS_CardinalityType
<1>3. /\ idx \in [1..Cardinality(S) -> S]
      /\ \A i, j \in 1..Cardinality(S) : i # j => idx[i] # idx[j]
    BY DEF IndexSoftCores, SetToSeqs
<1> HIDE DEF S
<1>4. idx \in [1..Cardinality(S) -> Kept(K)]
    BY <1>1, <1>3
<1>5. idx \in Seq(Kept(K)) /\ DOMAIN idx = 1..Cardinality(S)
    BY <1>2, <1>4
<1> QED
    BY <1>3, <1>5 DEF Order

LEMMA EmptyOrder ==
    ASSUME NEW K, UNCHANGED symmetryClauses
    PROVE  Order(K, <<>>) /\ Breaking(<<>>)
    BY DEF Order, Breaking

\* WBO makes some of the clauses that UpWBO makes.
LEMMA Fewer ==
    ASSUME NEW idx
    PROVE  symmetryBreaking(idx) \subseteq SymmetryBreaking(idx)
    BY DEF symmetryBreaking, SymmetryBreaking

LEMMA RelaxCoreRelaxes ==
    ASSUME SoftOK, NEW K, IsSoftCore(K), RelaxCore(K),
           NEW idx \in IndexSoftCores(K),
           NEW new, new \subseteq SymmetryBreaking(idx),
           symmetryClauses' = symmetryClauses \cup new,
           solverClauses' = symmetryClauses,
           lbCost' = lbCost + CostCore(K), UNCHANGED profiles, pc # "returned"
    PROVE  Relaxing(K) /\ AssumeParts
<1>1. Order(K, idx)
    BY IndexOrder
<1>2. Breaking(idx)
    BY DEF Breaking
<1>3. RelaxAndLog(K, {Len(exactlyOne) + 1})
    BY DEF RelaxCore
<1>4. AssumeParts
    BY <1>3 DEF RelaxAndLog
<1>5. \E logged \in SUBSET {Len(exactlyOne) + 1} : RelaxAndLog(K, logged)
    BY <1>3
<1>6. symmetryClauses \subseteq symmetryClauses'
    OBVIOUS
<1> QED
    BY <1>1, <1>2, <1>4, <1>5, <1>6 DEF Relaxing

LEMMA UpWBOCoreKeeps ==
    ASSUME WBOInv, upmax, NEW K \in Cores(assumptions), Core(K),
           UNCHANGED <<settings, stratified>>
    PROVE  WBOInv' /\ Refines
<1>1. /\ pc = "normalSearch" /\ K # {}
      /\ lbCost' = lbCost + CostCore(K)
      /\ RelaxCore(K)
      /\ solverClauses' = symmetryClauses
      /\ UNCHANGED <<profiles, label, upmax, options, current_partition, ubCost, model,
                     answer, pc>>
    BY DEF Core, problem, settings
<1>2. PICK idx \in IndexSoftCores(K) :
              symmetryClauses' = symmetryClauses \cup SymmetryBreaking(idx)
    BY DEF Core
<1>3. SoftOK /\ ClausesOK /\ assumptions \in SUBSET (DOMAIN soft)
    BY DEF WBOInv, FormulaOK, Entered
<1>4. IsSoftCore(K)
    BY <1>1, <1>3, CoreMeets DEF IsSoftCore
<1>5. Relaxing(K) /\ AssumeParts
    BY <1>1, <1>2, <1>3, <1>4, RelaxCoreRelaxes
<1> QED
    BY <1>1, <1>5, CoreStepKeeps

\* A core after which the bounds have met.
LEMMA BoundsMetKeeps ==
    ASSUME WBOInv, NEW A \in SUBSET assumptions, NEW K \in Cores(A), K # {},
           pc = "normalSearch", lbCost' = lbCost + CostCore(K), BoundsMet, Optimum,
           UNCHANGED <<profiles, label, soft, exactlyOne, symmetryClauses, solverClauses,
                       upmax, assumptions, ubCost, model>>
    PROVE  WBOInv' /\ Refines
<1>1. FormulaOK /\ SoftOK /\ ClausesOK /\ lbCost \in Nat /\ A \in SUBSET (DOMAIN soft)
    BY DEF WBOInv, FormulaOK, Entered
<1>2. IsSoftCore(K)
    BY <1>1, CoreMeets DEF IsSoftCore
<1>3. CostCore(K) \in Nat
    BY <1>1, <1>2, CoreCost
<1>4. pc' = "returned" /\ answer' = "_OPTIMUM_" /\ lbCost' = ubCost
    BY DEF Optimum, BoundsMet
<1>5. Leaving
    BY <1>1, <1>3, <1>4 DEF Leaving
<1>6. ASSUME profiles # {}, ~LoggedSplit
      PROVE  Models /\ lbCost' = ubCost' /\ Best(model')
  <2>1. \A P \in profiles : lbCost' <= InputCost(P)
    BY <1>1, <1>6, CoreIsCost
  <2>2. model \in profiles /\ ubCost = InputCost(model)
    BY <1>6, SavedModel DEF WBOInv
  <2> QED
    BY <1>4, <2>1, <2>2 DEF Models, Best
<1>7. Returns
    BY <1>4, <1>6 DEF Returns
<1> QED
    BY <1>5, <1>7, ReturnKeeps

LEMMA WBOCoreKeeps ==
    ASSUME WBOInv, ~upmax, NEW K \in Cores(assumptions \cap InSolver), WBOCore(K)
    PROVE  WBOInv' /\ Refines
<1> DEFINE A == assumptions \cap InSolver
<1>1. /\ pc \in {"normalSearch", "weightSearch"} /\ K # {}
      /\ lbCost' = lbCost + CostCore(K)
      /\ UNCHANGED <<profiles, label, upmax, options, current_partition, ubCost, model>>
      /\ \/ pc = "normalSearch" /\ BoundsMet /\ Optimum /\ UNCHANGED <<formula, assumptions>>
         \/ WBORelaxCore(K) /\ UNCHANGED pc
    BY DEF WBOCore, problem, settings
<1>2. /\ FormulaOK /\ SoftOK /\ ClausesOK
      /\ A \in SUBSET assumptions /\ A \in SUBSET (DOMAIN soft) /\ K \in Cores(A)
    BY DEF WBOInv, FormulaOK, Entered
<1> HIDE DEF A
<1>3. IsSoftCore(K)
    BY <1>1, <1>2, CoreMeets DEF IsSoftCore
<1>4. CASE pc = "normalSearch" /\ BoundsMet /\ Optimum /\ UNCHANGED <<formula, assumptions>>
    BY <1>1, <1>2, <1>4, BoundsMetKeeps DEF formula
<1>5. CASE WBORelaxCore(K) /\ UNCHANGED pc
  <2>1. UNCHANGED answer /\ solverClauses' = symmetryClauses
    BY <1>5 DEF WBORelaxCore
  <2>2. Relaxing(K) /\ AssumeParts
    <3>1. CASE Logging /\ RelaxCore(K)
      <4>1. PICK idx \in IndexSoftCores(K) :
                    symmetryClauses' = symmetryClauses \cup symmetryBreaking(idx)
        BY <1>5, <3>1 DEF WBORelaxCore
      <4>2. symmetryBreaking(idx) \subseteq SymmetryBreaking(idx)
        BY Fewer
      <4> QED
        BY <1>1, <1>2, <1>3, <2>1, <3>1, <4>1, <4>2, RelaxCoreRelaxes
    <3>2. CASE RelaxAndLog(K, {}) /\ UNCHANGED symmetryClauses
      <4>1. \E idx : Order(K, idx) /\ Breaking(idx)
        BY <3>2, EmptyOrder
      <4>2. \E logged \in SUBSET {Len(exactlyOne) + 1} : RelaxAndLog(K, logged)
        BY <3>2
      <4> QED
        BY <1>1, <2>1, <3>2, <4>1, <4>2 DEF Relaxing, RelaxAndLog
    <3> QED
      BY <1>5, <3>1, <3>2 DEF WBORelaxCore
  <2> QED
    BY <1>1, <1>2, <1>5, <2>1, <2>2, CoreStepKeeps
<1> QED
    BY <1>1, <1>4, <1>5-----------------------------------------------------------------------------
(***************************************************************************)
(* WBO's models.                                                            *)
(***************************************************************************)
\* All that a query may be about in WBO is assumed.
LEMMA QueriesAll ==
    ASSUME WBOInv, ~upmax, pc \in {"normalSearch", "weightSearch"},
           InSolver = DOMAIN soft, NEW P \in profiles, WBOAllows(P, assumptions), ~LoggedSplit
    PROVE  InputCost(P) = lbCost /\ Best(P)
<1>1. assumptions = DOMAIN soft
    BY DEF WBOInv, Entered
<1>2. assumptions \cap InSolver = DOMAIN soft
    BY <1>1
<1>3. Allows(P, DOMAIN soft)
    BY <1>2 DEF WBOAllows
<1>4. FormulaOK /\ pc # "returned"
    BY DEF WBOInv
<1> QED
    BY <1>3, <1>4, AllHold

LEMMA NormalModelKeeps ==
    ASSUME WBOInv, ~upmax, NEW P \in profiles, NormalModel(P)
    PROVE  WBOInv' /\ Refines
<1>1. /\ pc = "normalSearch" /\ FormulaOK
      /\ WBOAllows(P, assumptions)
      /\ model' = P /\ ubCost' = CostModel(P)
      /\ answer' = "_OPTIMUM_" /\ pc' = "returned"
      /\ UNCHANGED <<profiles, label, soft, exactlyOne, symmetryClauses, solverClauses,
                     assumptions, lbCost, upmax>>
    BY DEF WBOInv, NormalModel, Optimum, problem, formula, settings
<1>2. InSolver = DOMAIN soft
    BY <1>1 DEF WBOInv, Entered, InSolver
<1>3. ubCost' = InputCost(P) /\ InputCost(P) \in Nat
    BY <1>1, InputCostType DEF FormulaOK, CostsKept
<1>4. ASSUME ~LoggedSplit
      PROVE  Models /\ lbCost' = ubCost' /\ Best(model')
  <2>1. InputCost(P) = lbCost /\ Best(P)
    BY <1>1, <1>2, <1>4, QueriesAll
  <2>2. model \in profiles /\ ubCost = InputCost(model)
    BY <1>1, SavedModel DEF WBOInv
  <2>3. InputCost(P) <= ubCost
    BY <2>1, <2>2 DEF Best
  <2> QED
    BY <1>1, <1>3, <2>1, <2>3 DEF Models
<1>5. Leaving
    BY <1>1 DEF Leaving
<1>6. Returns
    BY <1>1, <1>4 DEF Returns
<1> QED
    BY <1>5, <1>6, ReturnKeeps

LEMMA LastModelKeeps ==
    ASSUME WBOInv, ~upmax, NEW P \in profiles, LastModel(P)
    PROVE  WBOInv' /\ Refines
<1>1. /\ pc = "weightSearch" /\ FormulaOK
      /\ InSolver = DOMAIN soft
      /\ WBOAllows(P, assumptions)
      /\ \/ lbCost < ubCost /\ ubCost' = lbCost /\ model' = P
         \/ lbCost >= ubCost /\ UNCHANGED <<ubCost, model>>
      /\ answer' = "_OPTIMUM_" /\ pc' = "returned"
      /\ UNCHANGED <<profiles, label, soft, exactlyOne, symmetryClauses, solverClauses,
                     assumptions, lbCost, upmax>>
    BY DEF WBOInv, LastModel, Considered, Optimum, problem, formula, settings
<1>2. ASSUME ~LoggedSplit
      PROVE  Models /\ lbCost' = ubCost' /\ Best(model')
  <2>1. InputCost(P) = lbCost /\ Best(P)
    BY <1>1, <1>2, QueriesAll
  <2>2. model \in profiles /\ ubCost = InputCost(model) /\ ubCost \in Nat /\ lbCost \in Nat
    BY <1>1, SavedModel DEF WBOInv, FormulaOK
  <2>3. lbCost <= ubCost
    BY <2>1, <2>2 DEF Best
  <2>4. CASE lbCost < ubCost /\ ubCost' = lbCost /\ model' = P
    <3>1. model' = P /\ ubCost' = InputCost(P) /\ InputCost(P) <= ubCost
      BY <2>1, <2>3, <2>4
    <3>2. Models
      BY <1>1, <3>1 DEF Models
    <3>3. Best(model')
      BY <2>1, <3>1
    <3> QED
      BY <1>1, <2>4, <3>2, <3>3
  <2>5. CASE lbCost >= ubCost /\ UNCHANGED <<ubCost, model>>
    <3>1. ubCost = lbCost
      BY <2>2, <2>3, <2>5
    <3>2. Best(model)
      BY <2>1, <2>2, <3>1 DEF Best
    <3> QED
      BY <1>1, <2>5, <3>1, <3>2 DEF Models
  <2> QED
    BY <1>1, <2>4, <2>5
<1>3. Leaving
    BY <1>1 DEF Leaving
<1>4. Returns
    BY <1>1, <1>2 DEF Returns
<1> QED
    BY <1>3, <1>4, ReturnKeeps

LEMMA StratumModelKeeps ==
    ASSUME WBOInv, ~upmax, NEW P \in profiles, StratumModel(P)
    PROVE  WBOInv' /\ Refines
<1>1. /\ pc = "weightSearch" /\ FormulaOK
      /\ \/ CostModel(P) < ubCost /\ ubCost' = CostModel(P) /\ model' = P
         \/ CostModel(P) >= ubCost /\ UNCHANGED <<ubCost, model>>
      /\ \/ lbCost = ubCost' /\ Optimum /\ UNCHANGED solverClauses
         \/ solverClauses' = symmetryClauses /\ UNCHANGED <<answer, pc>>
      /\ UNCHANGED <<profiles, label, soft, exactlyOne, symmetryClauses, current_partition,
                     assumptions, lbCost, upmax>>
    BY DEF WBOInv, StratumModel, problem, settings
<1>2. CostModel(P) = InputCost(P) /\ InputCost(P) \in Nat
    BY <1>1, InputCostType DEF FormulaOK, CostsKept
<1>3. model \in profiles /\ ubCost = InputCost(model) /\ ubCost \in Nat
    BY <1>1, SavedModel DEF WBOInv
<1>4. Models
    BY <1>1, <1>2, <1>3 DEF Models
<1>5. Leaving
    BY <1>1 DEF Leaving
<1>6. CASE lbCost = ubCost' /\ Optimum
  <2>1. answer' = "_OPTIMUM_" /\ pc' = "returned"
    BY <1>6 DEF Optimum
  <2>2. ASSUME ~LoggedSplit
        PROVE  Best(model')
    <3>1. \A Q \in profiles : lbCost <= InputCost(Q)
      BY <1>1, <2>2, BoundBelow
    <3>2. model' \in profiles /\ ubCost' = InputCost(model')
      BY <1>1, <1>2, <1>3
    <3> QED
      BY <1>6, <3>1, <3>2 DEF Best
  <2>3. Returns
    BY <1>1, <1>4, <1>6, <2>1, <2>2 DEF Returns
  <2> QED
    BY <1>5, <2>3, ReturnKeeps
<1>7. CASE UNCHANGED <<answer, pc>>
  <2>1. GoesOn
    BY <1>1, <1>4, <1>7 DEF GoesOn
  <2>2. Entered'
    BY <1>1, <1>7 DEF WBOInv, Entered
  <2> QED
    BY <1>5, <2>1, <2>2, GoingOn
<1> QED
    BY <1>1, <1>6, <1>7

\* A core without literals.
LEMMA EmptyCoreKeeps ==
    ASSUME WBOInv, pc \in {"normalSearch", "weightSearch"}, pc' = "aborted",
           UNCHANGED <<problem, formula, current_partition, assumptions,
                       lbCost, ubCost, model, answer, settings>>
    PROVE  WBOInv' /\ Refines
<1>1. UNCHANGED <<profiles, label, soft, exactlyOne, symmetryClauses, solverClauses, upmax>>
    BY DEF problem, formula, settings
<1>2. Leaving /\ GoesOn
    BY <1>1 DEF Leaving, GoesOn, Models
<1>3. Entered'
    BY <1>1 DEF WBOInv, Entered
<1> QED
    BY <1>2, <1>3, GoingOn

\* No step.
LEMMA StutteringKeeps ==
    ASSUME WBOInv, UNCHANGED WBOvars
    PROVE  WBOInv' /\ Refines
<1>1. UNCHANGED <<profiles, label, soft, exactlyOne, symmetryClauses, solverClauses, lbCost,
                  ubCost, model, answer, pc, upmax, options, assumptions, current_partition>>
    BY DEF WBOvars, vars, problem, formula, settings
<1>2. FormulaOK' /\ (LoggedSplit' <=> LoggedSplit)
    BY <1>1, FormulaLeft DEF WBOInv, Leaving
<1>3. Entered'
  <2>1. /\ nSoftPartitions' = nSoftPartitions
        /\ \A i \in Soft : Position(SlotOf(i))' = Position(SlotOf(i))
    BY <1>1, PartitionsFixed
  <2> QED
    BY <1>1, <2>1 DEF WBOInv, Entered, weightStrategy
<1>4. ModelSaved' /\ Answered'
    BY <1>1, <1>2 DEF WBOInv, ModelSaved, Answered, Best, InputCost, Running
<1>5. Refines
    BY <1>1 DEF Refines, Promise!vars
<1> QED
    BY <1>1, <1>2, <1>3, <1>4, <1>5 DEF WBOInv-----------------------------------------------------------------------------
LEMMA EveryStepKeeps ==
    ASSUME WBOInv, [WBONext]_WBOvars
    PROVE  WBOInv' /\ Refines
<1>1. CASE UpWBOStep
  <2>1. upmax /\ Next /\ UNCHANGED <<settings, stratified>>
    BY <1>1 DEF UpWBOStep
  <2>2. CASE UnsatSearch
    BY <2>1, <2>2, UnsatSearchKeeps
  <2>3. ASSUME NEW P \in profiles, Satisfiable(P)
        PROVE  WBOInv' /\ Refines
    BY <2>1, <2>3, SatisfiableKeeps
  <2>4. CASE BudgetExhausted
    BY <2>1, <2>4, BudgetExhaustedKeeps
  <2>5. ASSUME NEW K \in Cores(assumptions), Core(K)
        PROVE  WBOInv' /\ Refines
    BY <2>1, <2>5, UpWBOCoreKeeps
  <2>6. CASE EmptyCore
    <3>1. /\ pc \in {"normalSearch", "weightSearch"} /\ pc' = "aborted"
          /\ UNCHANGED <<problem, formula, current_partition, assumptions,
                         lbCost, ubCost, model, answer, settings>>
      BY <2>1, <2>6 DEF EmptyCore
    <3> QED
      BY <3>1, EmptyCoreKeeps
  <2> QED
    BY <2>1, <2>2, <2>3, <2>4, <2>5, <2>6 DEF Next
<1>2. CASE WBOStep
  <2>1. ~upmax
    BY <1>2 DEF WBOStep
  <2>2. CASE WBOUnsatSearch
    BY <2>1, <2>2, WBOUnsatSearchKeeps
  <2>3. ASSUME NEW K \in Cores(assumptions \cap InSolver), WBOCore(K)
        PROVE  WBOInv' /\ Refines
    BY <2>1, <2>3, WBOCoreKeeps
  <2>4. ASSUME NEW P \in profiles, NormalModel(P) \/ LastModel(P) \/ StratumModel(P)
        PROVE  WBOInv' /\ Refines
    BY <2>1, <2>4, NormalModelKeeps, LastModelKeeps, StratumModelKeeps
  <2>5. CASE WBOEmptyCore
    <3>1. /\ pc \in {"normalSearch", "weightSearch"} /\ pc' = "aborted"
          /\ UNCHANGED <<problem, formula, current_partition, assumptions,
                         lbCost, ubCost, model, answer, settings>>
      BY <2>5 DEF WBOEmptyCore
    <3> QED
      BY <3>1, EmptyCoreKeeps
  <2> QED
    BY <1>2, <2>2, <2>3, <2>4, <2>5 DEF WBOStep
<1>3. CASE UNCHANGED WBOvars
    BY <1>3, StutteringKeeps
<1> QED
    BY <1>1, <1>2, <1>3 DEF WBONext

\* In every state of either search.
THEOREM WBOInvariant == WBOSpec => []WBOInv
<1>1. WBOInv /\ [WBONext]_WBOvars => WBOInv'
    BY EveryStepKeeps
<1> QED
    BY InitWBOInv, <1>1, PTL DEF WBOSpec

(***************************************************************************)
(* Every core that either search relaxes and every symmetry clause that it  *)
(* adds leaves the cost of every model what it was, lbCost and the least    *)
(* weight that the model falsifies of the working formula, until a logged   *)
(* soft clause is split.                                                    *)
(***************************************************************************)
THEOREM CostsPreserved == WBOSpec => []CostPreserved
<1>1. WBOInv => CostPreserved
  <2> SUFFICES ASSUME WBOInv, pc # "returned", ~LoggedSplit, NEW P \in profiles
               PROVE  InputCost(P) =
                        lbCost + Min({WeightOf(Falsified(P, f)) :
                                         f \in Relaxations(symmetryClauses)})
    BY DEF CostPreserved
  <2> DEFINE choices == Relaxations(symmetryClauses)
             left == [f \in choices |-> Left(P, f)]
             S == {left[f] : f \in choices}
  <2>1. FormulaOK /\ SoftOK /\ lbCost \in Nat
    BY DEF WBOInv, FormulaOK
  <2>2. PICK g \in choices : InputCost(P) = lbCost + Left(P, g)
    BY <2>1, BestRelaxed
  <2>3. \A f \in choices : left[f] = Left(P, f) /\ Left(P, f) \in Nat
    BY <2>1, LeftType
  <2>4. \A f \in choices : InputCost(P) <= lbCost + Left(P, f)
    BY <2>1 DEF FormulaOK, Paid, Relaxations
  <2>5. {WeightOf(Falsified(P, f)) : f \in choices} = S
    BY DEF Left
  <2> HIDE DEF choices, left
  <2>6. left[g] \in S /\ \A x \in S : left[g] <= x
    BY <2>1, <2>2, <2>3, <2>4
  <2>7. S \subseteq Nat
    BY <2>3
  <2> HIDE DEF S
  <2>8. Min(S) = left[g]
    <3>1. \E x \in S : \A y \in S : x <= y
      BY <2>6
    <3>2. Min(S) \in S /\ \A y \in S : Min(S) <= y
      BY <3>1 DEF Min
    <3>3. Min(S) <= left[g] /\ left[g] <= Min(S)
      BY <2>6, <3>2
    <3>4. Min(S) \in Nat /\ left[g] \in Nat
      BY <2>6, <2>7, <3>2
    <3> DEFINE a == Min(S)
               b == left[g]
    <3> HIDE DEF a, b
    <3>5. a = b
      BY <3>3, <3>4 DEF a, b
    <3> QED
      BY <3>5 DEF a, b
  <2>9. InputCost(P) = lbCost + Min(S)
    BY <2>2, <2>3, <2>8
  <2> QED
    BY <2>5, <2>9 DEF choices
<1> QED
    BY <1>1, WBOInvariant, PTL

(***************************************************************************)
(* The bounds have met when either search prints that it found an optimum,  *)
(* on any formula, with any weights, partitions, options and cores.         *)
(***************************************************************************)
THEOREM BoundsHaveMet == WBOSpec => []BoundsMeet
<1>1. WBOInv => BoundsMeet
    BY DEF WBOInv, Answered, BoundsMeet, Running
<1> QED
    BY <1>1, WBOInvariant, PTL

(***************************************************************************)
(* Both searches keep the promise of MaxSATSearch: the lower bound never    *)
(* passes what a model costs, no model is replaced by a worse one, and what *)
(* is printed as optimal is.                                                *)
(***************************************************************************)
THEOREM SearchesImplement == WBOSpec => ImplementsMaxSATSearch
<1>1. WBOInit => Promise!Init
  <2> SUFFICES ASSUME WBOInit
               PROVE  Promise!Init
    OBVIOUS
  <2>1. Init
    BY DEF WBOInit
  <2>2. ubCost = InputCost(Soft) /\ profiles \in SUBSET SUBSET Soft
    BY <2>1, InitFormula DEF FormulaOK
  <2>3. [P \in SUBSET Soft |-> InputCost(P)][Soft] = InputCost(Soft)
    OBVIOUS
  <2> QED
    BY <2>1, <2>2, <2>3 DEF Init, Promise!Init, Running, Promise!Running
<1>2. WBOInv /\ [WBONext]_WBOvars
        => [profiles # {} /\ ~LoggedSplit => Promise!Next]_(Promise!vars)
    BY EveryStepKeeps DEF Refines
<1> QED
    BY <1>1, <1>2, WBOInvariant, PTL DEF WBOSpec, ImplementsMaxSATSearch
=============================================================================
