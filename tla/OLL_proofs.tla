----------------------------- MODULE OLL_proofs -----------------------------
(***************************************************************************)
(* UpOLL and OLL keep the cost of every model through every core they       *)
(* relax, and what they print as optimal is.                                *)
(***************************************************************************)
EXTENDS OLL, SetSums, SequenceTheorems

(***************************************************************************)
(* The soft clauses of the working formula.  Those that are not relaxed are *)
(* soft clauses of the input and have weight left: the copies are relaxed   *)
(* when they are made.  No split changes what a model costs.                *)
(***************************************************************************)
SoftClauses == [clause : Soft, weight : Nat]

SoftOK ==
    /\ soft \in Seq(SoftClauses)
    /\ Soft \in SUBSET (DOMAIN soft)
    /\ activeSoft \in SUBSET (DOMAIN soft)
    /\ \A k \in (DOMAIN soft) \ activeSoft : k \in Soft /\ soft[k].weight > 0
    /\ \A P \in SUBSET Soft : CostModel(P) = InputCost(P)

(***************************************************************************)
(* Totalizers count relaxation variables and outputs of totalizers that     *)
(* were there before them.                                                  *)
(***************************************************************************)
LiteralsBelow(j) == ({0} \X DOMAIN soft) \cup ((1..(j - 1)) \X Nat)

TotalizersOK ==
    /\ soft_cardinality \in Seq(SUBSET (Nat \X Nat))
    /\ \A j \in DOMAIN soft_cardinality :
          /\ IsFiniteSet(soft_cardinality[j])
          /\ soft_cardinality[j] \subseteq LiteralsBelow(j)

(***************************************************************************)
(* At most one output of a totalizer is assumed, and it has weight.         *)
(***************************************************************************)
AssumedOK ==
    /\ cardinalityWeight \in [CardinalityAssumptions -> Nat \ {0}]
    /\ CardinalityAssumptions \subseteq (DOMAIN soft_cardinality) \X Nat
    /\ \A l, m \in CardinalityAssumptions : l[1] = m[1] => l = m

(***************************************************************************)
(* ubCost is what the saved model costs, or all there is to lose.           *)
(***************************************************************************)
ModelSaved ==
    \/ model = NoModel /\ ubCost = InputCost(Soft)
    \/ model \in profiles /\ ubCost = InputCost(model)

Entered == activeSoftPartition = {i \in Soft : Position(SlotOf(i)) <= current_partition}

Answered ==
    /\ answer \in {Running, "_OPTIMUM_", "_UNSATISFIABLE_"}
    /\ answer = "_OPTIMUM_" =>
          /\ model \in profiles
          /\ ubCost = InputCost(model)
          /\ lbCost = ubCost
          /\ \A P \in profiles : lbCost <= InputCost(P)
    /\ answer = "_UNSATISFIABLE_" => profiles = {}

TypeOK ==
    /\ profiles \in SUBSET SUBSET Soft
    /\ label \in [Soft -> -1..nPartitions]
    /\ inputWeight \in [Soft -> Nat \ {0}]
    /\ current_partition \in 0..(nSoftPartitions - 1)
    /\ lbCost \in Nat
    /\ ubCost \in Nat

IInv ==
    /\ TypeOK
    /\ SoftOK
    /\ TotalizersOK
    /\ AssumedOK
    /\ CostPreserved
    /\ ModelSaved
    /\ Entered
    /\ Answered

(***************************************************************************)
(* What OLL adds: once a model was found it is the one saved, and without   *)
(* weights nothing is left to later strata.                                 *)
(***************************************************************************)
Strata ==
    ~upmax =>
        /\ nbSatisfiable \in 0..2
        /\ nbSatisfiable > 0 => model \in profiles /\ ubCost = InputCost(model)
        /\ ~Weighted => min_weight = 1

EitherInv == IInv /\ Strata

-----------------------------------------------------------------------------
\* The position of every soft clause's slot is that of some soft partition, so
\* after the last partition every soft clause has entered.
LEMMA PositionRange ==
    ASSUME label \in [Soft -> -1..nPartitions]
    PROVE  /\ nSoftPartitions \in Nat
           /\ 0 < nSoftPartitions
           /\ \A i \in Soft : Position(SlotOf(i)) \in 0..(nSoftPartitions - 1)
<1>1. IsFiniteSet(UsedSlots)
  <2>1. IsFiniteSet(0..nPartitions) /\ UsedSlots \in SUBSET (0..nPartitions)
    BY PartitionAssumption, FS_Interval DEF UsedSlots
  <2> QED
    BY <2>1, FS_Subset
<1>2. \A v \in UsedSlots : ~Before(v, v)
    BY SoftAssumption, PartitionAssumption, PartsOfFinite DEF Before, Slot, UsedSlots
<1>3. \A i \in Soft : SlotOf(i) \in UsedSlots
    BY PartitionAssumption DEF SlotOf, Slot, UsedSlots
<1>4. \A v \in UsedSlots : Position(v) \in 0..(nSoftPartitions - 1)
    BY <1>1, <1>2, PlaceAmong DEF Position, nSoftPartitions
<1>5. nSoftPartitions \in Nat
    BY <1>1, FS_CardinalityType DEF nSoftPartitions
<1> QED
    BY <1>3, <1>4, <1>5, SoftAssumption

\* The labels never change, nor does what createPartitions made of them.
LEMMA PartitionsFixed ==
    ASSUME UNCHANGED label
    PROVE  /\ nSoftPartitions' = nSoftPartitions
           /\ \A i \in Soft : Position(SlotOf(i))' = Position(SlotOf(i))
    BY DEF nSoftPartitions, Position, UsedSlots, Slot, SlotOf, Before

-----------------------------------------------------------------------------
\* Helpers, and what totalizers count.

\* The greater of a number and zero.
LEMMA AboveZero == \A n \in Int : Max({0, n}) = IF n > 0 THEN n ELSE 0
<1> SUFFICES ASSUME NEW n \in Int
             PROVE  Max({0, n}) = IF n > 0 THEN n ELSE 0
    OBVIOUS
<1> DEFINE m == IF n > 0 THEN n ELSE 0
<1>1. m \in {0, n} /\ \A y \in {0, n} : m >= y
    OBVIOUS
<1>2. \A x \in {0, n} : (\A y \in {0, n} : x >= y) => x = m
    OBVIOUS
<1> HIDE DEF m
<1>3. Max({0, n}) = m
    BY <1>1, <1>2 DEF Max
<1> QED
    BY <1>3 DEF m

-----------------------------------------------------------------------------
\* Whether a literal is true, by the soft clauses s and the counts of totalizers.
Holds(s, count, P, lit) ==
    IF lit[1] = 0 THEN s[lit[2]].clause \in P ELSE count[lit[1]] > lit[2]

\* f are the counts of the totalizers c, those numbered D.
Counting(s, c, P, f, D) ==
    f = [j \in D |-> Cardinality({lit \in c[j] : Holds(s, f, P, lit)})]

CountsOf(s, c, P) == CHOOSE f : Counting(s, c, P, f, DOMAIN c)

\* Every totalizer counts only what was there before it.
InOrder(c) == \A j \in 1..Len(c) : \A lit \in c[j] : lit[1] = 0 \/ lit[1] \in 1..(j - 1)

\* Totalizers that count only what is below them have counts.
LEMMA CountsExist ==
    ASSUME NEW s, NEW c, Len(c) \in Nat, DOMAIN c = 1..Len(c), InOrder(c), NEW P
    PROVE  Counting(s, c, P, CountsOf(s, c, P), DOMAIN c)
<1> DEFINE n == Len(c)
           C == {m \in 0..n : \E f : Counting(s, c, P, f, 1..m)}
<1>1. ASSUME NEW m \in 0..n, \A k \in 0..(m - 1) : k \in C
      PROVE  m \in C
  <2>1. CASE m = 0
    <3> DEFINE f == [j \in 1..0 |-> 0]
    <3>1. Counting(s, c, P, f, 1..0)
      BY DEF Counting
    <3> HIDE DEF f
    <3> QED
      BY <2>1, <3>1
  <2>2. CASE m # 0
    <3>1. m - 1 \in 0..(m - 1) /\ m \in Nat \ {0} /\ m - 1 \in Nat
      BY <2>2
    <3>2. PICK f : Counting(s, c, P, f, 1..(m - 1))
      BY <1>1, <3>1
    <3> DEFINE size(j) == Cardinality({lit \in c[j] : Holds(s, f, P, lit)})
               g == [j \in 1..m |-> size(j)]
    <3>3. ASSUME NEW j \in 1..(m - 1)
          PROVE  g[j] = f[j]
      <4>1. f[j] = size(j)
        BY <3>2 DEF Counting
      <4>2. j \in 1..m
        BY <3>1
      <4> QED
        BY <4>1, <4>2
    <3>4. ASSUME NEW j \in 1..m, NEW lit \in c[j]
          PROVE  Holds(s, g, P, lit) = Holds(s, f, P, lit)
      <4>1. lit[1] = 0 \/ lit[1] \in 1..(m - 1)
        BY <3>1 DEF InOrder
      <4> HIDE DEF g
      <4> QED
        BY <4>1, <3>3 DEF Holds
    <3>5. \A j \in 1..m : {lit \in c[j] : Holds(s, g, P, lit)}
                           = {lit \in c[j] : Holds(s, f, P, lit)}
      <4> HIDE DEF g
      <4> QED
        BY <3>4
    <3>6. g = [j \in 1..m |-> Cardinality({lit \in c[j] : Holds(s, g, P, lit)})]
      <4>1. \A j \in 1..m : size(j) = Cardinality({lit \in c[j] : Holds(s, g, P, lit)})
        BY <3>5
      <4> DEFINE size2(j) == Cardinality({lit \in c[j] : Holds(s, g, P, lit)})
      <4>2. \A j \in 1..m : size(j) = size2(j)
        BY <4>1
      <4>3. g = [j \in 1..m |-> size(j)]
        OBVIOUS
      <4> HIDE DEF size2, size, g
      <4>4. g = [j \in 1..m |-> size2(j)]
        BY <4>2, <4>3
      <4> QED
        BY <4>4 DEF size2
    <3>7. Counting(s, c, P, g, 1..m)
      BY <3>6 DEF Counting
    <3> HIDE DEF g
    <3> QED
      BY <3>7
  <2> QED
    BY <2>1, <2>2
<1>2. \A m \in 0..n : m \in C
  <2> HIDE DEF C
  <2> QED
    BY <1>1, UpwardInduction
<1>3. \E f : Counting(s, c, P, f, 1..n)
    BY <1>2
<1> QED
    BY <1>3 DEF CountsOf

\* The totalizers c2 are those of c, over the same soft clauses, and more.
Extends(s2, c2, n2, s, c, n) ==
    /\ n \in Nat /\ n2 \in Nat /\ n <= n2
    /\ \A j \in 1..n :
          /\ c2[j] = c[j]
          /\ \A lit \in c[j] :
                \/ lit[1] = 0 /\ s2[lit[2]].clause = s[lit[2]].clause
                \/ lit[1] # 0 /\ lit[1] \in 1..(j - 1)

\* Totalizers added above do not change the counts below.
LEMMA CountsKept ==
    ASSUME NEW s, NEW s2, NEW c, NEW c2, NEW n, NEW n2, Extends(s2, c2, n2, s, c, n),
           NEW f, NEW f2, NEW P,
           Counting(s, c, P, f, 1..n), Counting(s2, c2, P, f2, 1..n2)
    PROVE  \A j \in 1..n : f2[j] = f[j]
<1> USE DEF Extends
<1> DEFINE C == {m \in 0..n : m \in 1..n => f2[m] = f[m]}
<1>1. ASSUME NEW m \in 0..n, \A k \in 0..(m - 1) : k \in C
      PROVE  m \in C
  <2>1. SUFFICES ASSUME m \in 1..n
                 PROVE  f2[m] = f[m]
    OBVIOUS
  <2>2. \A k \in 1..(m - 1) : f2[k] = f[k]
    BY <1>1
  <2>3. \A lit \in c[m] : Holds(s2, f2, P, lit) <=> Holds(s, f, P, lit)
    BY <2>1, <2>2 DEF Holds
  <2>4. {lit \in c2[m] : Holds(s2, f2, P, lit)} = {lit \in c[m] : Holds(s, f, P, lit)}
    BY <2>1, <2>3
  <2>7. m \in 1..n2
    BY <2>1
  <2>5. f2[m] = Cardinality({lit \in c2[m] : Holds(s2, f2, P, lit)})
    BY <2>7 DEF Counting
  <2>6. f[m] = Cardinality({lit \in c[m] : Holds(s, f, P, lit)})
    BY <2>1 DEF Counting
  <2> QED
    BY <2>4, <2>5, <2>6
<1>2. \A m \in 0..n : m \in C
  <2> HIDE DEF C
  <2> QED
    BY <1>1, UpwardInduction
<1> QED
    BY <1>2

\* What a totalizer counts.
LEMMA TotalizerCounts ==
    ASSUME TotalizersOK, NEW P
    PROVE  /\ Counting(soft, soft_cardinality, P, Counts(P), 1..Len(soft_cardinality))
           /\ \A j \in DOMAIN soft_cardinality :
                 /\ Counts(P)[j] = Cardinality({lit \in soft_cardinality[j] : True(P, lit)})
                 /\ Counts(P)[j] \in Nat
                 /\ Counts(P)[j] <= Cardinality(soft_cardinality[j])
<1>1. /\ Len(soft_cardinality) \in Nat
      /\ DOMAIN soft_cardinality = 1..Len(soft_cardinality)
    BY DEF TotalizersOK
<1>2. InOrder(soft_cardinality)
    BY <1>1 DEF TotalizersOK, InOrder, LiteralsBelow
<1>3. Counts(P) = CountsOf(soft, soft_cardinality, P)
    BY DEF Counts, CountsOf, Counting, Holds
<1>4. Counting(soft, soft_cardinality, P, Counts(P), 1..Len(soft_cardinality))
    BY <1>1, <1>2, <1>3, CountsExist
<1>5. ASSUME NEW j \in DOMAIN soft_cardinality
      PROVE  /\ Counts(P)[j] = Cardinality({lit \in soft_cardinality[j] : True(P, lit)})
             /\ Counts(P)[j] \in Nat
             /\ Counts(P)[j] <= Cardinality(soft_cardinality[j])
  <2>1. Counts(P)[j] = Cardinality({lit \in soft_cardinality[j] : True(P, lit)})
    BY <1>1, <1>4 DEF Counting, Holds, True
  <2>2. IsFiniteSet(soft_cardinality[j])
    BY DEF TotalizersOK
  <2>3. {lit \in soft_cardinality[j] : True(P, lit)} \in SUBSET soft_cardinality[j]
    OBVIOUS
  <2> QED
    BY <2>1, <2>2, <2>3, PartsOfFinite
<1> QED
    BY <1>4, <1>5

-----------------------------------------------------------------------------
\* Splitting soft clauses.

\* What may be assumed: what is not relaxed.
Open == {<<0, k>> : k \in (DOMAIN soft) \ activeSoft} \cup CardinalityAssumptions

\* The soft clauses of a core, and those of them that weigh more than it does.
Relaxed(K) == {k \in DOMAIN soft : <<0, k>> \in K}

Split(K, w) == {k \in Relaxed(K) : soft[k].weight > w}

\* A core that can be relaxed by w.
Relaxable(K, w) ==
    /\ K \in SUBSET Open
    /\ w \in Nat \ {0}
    /\ \A lit \in K : WeightOf(lit) >= w

\* The sequence soft after a split: copies[i] is the i-th soft clause split.
SoftSplit(K, w, copies) ==
    /\ soft' \in Seq(SoftClauses)
    /\ DOMAIN soft' = 1..(Len(soft) + Cardinality(Split(K, w)))
    /\ \A k \in DOMAIN soft :
          /\ soft'[k].clause = soft[k].clause
          /\ soft'[k].weight = IF k \in Split(K, w) THEN soft[k].weight - w
                               ELSE soft[k].weight
    /\ \A i \in 1..Cardinality(Split(K, w)) :
          /\ soft'[Len(soft) + i].clause = soft[copies[i]].clause
          /\ soft'[Len(soft) + i].weight = w
    /\ activeSoft' = activeSoft \cup (Relaxed(K) \ Split(K, w))
                     \cup {Len(soft) + i : i \in 1..Cardinality(Split(K, w))}

\* The literals of a core, and those of them that are relaxation variables.
LEMMA CoreLiterals ==
    ASSUME SoftOK, TotalizersOK, AssumedOK, NEW K \in SUBSET Open
    PROVE  /\ SoftIn(K) = {<<0, k>> : k \in Relaxed(K)}
           /\ K \ SoftIn(K) = K \cap CardinalityAssumptions
           /\ Relaxed(K) \in SUBSET ((DOMAIN soft) \ activeSoft)
           /\ \A k \in Relaxed(K) : WeightOf(<<0, k>>) = soft[k].weight
           /\ \A lit \in CardinalityAssumptions :
                 lit[1] # 0 /\ WeightOf(lit) = cardinalityWeight[lit]
           /\ DOMAIN soft = 1..Len(soft) /\ Len(soft) \in Nat
           /\ IsFiniteSet(Relaxed(K))
<1>1. DOMAIN soft = 1..Len(soft) /\ Len(soft) \in Nat
    BY DEF SoftOK
<1>2. \A lit \in CardinalityAssumptions : lit[1] \in DOMAIN soft_cardinality
    BY DEF AssumedOK
<1>3. \A lit \in CardinalityAssumptions : lit[1] # 0
  <2>1. 0 \notin DOMAIN soft_cardinality
    BY DEF TotalizersOK
  <2> QED
    BY <1>2, <2>1
<1>4. \A lit \in K : \/ lit \in CardinalityAssumptions
                     \/ \E k \in (DOMAIN soft) \ activeSoft : lit = <<0, k>>
    BY DEF Open
<1>5. SoftIn(K) = {<<0, k>> : k \in Relaxed(K)}
  <2>1. \A lit \in K : lit[1] = 0 => \E k \in DOMAIN soft : lit = <<0, k>>
    BY <1>3, <1>4
  <2>2. ASSUME NEW lit \in SoftIn(K)
        PROVE  lit \in {<<0, k>> : k \in Relaxed(K)}
    <3>1. PICK k \in DOMAIN soft : lit = <<0, k>>
      BY <2>1 DEF SoftIn
    <3> QED
      BY <3>1 DEF SoftIn, Relaxed
  <2>3. ASSUME NEW k \in Relaxed(K)
        PROVE  <<0, k>> \in SoftIn(K)
    BY DEF SoftIn, Relaxed
  <2> QED
    BY <2>2, <2>3
<1>6. K \ SoftIn(K) = K \cap CardinalityAssumptions
    BY <1>3, <1>4 DEF SoftIn
<1>7. Relaxed(K) \in SUBSET ((DOMAIN soft) \ activeSoft)
  <2>1. \A k \in Relaxed(K) : <<0, k>>[1] = 0 /\ <<0, k>>[2] = k
    OBVIOUS
  <2> QED
    BY <1>3, <1>4, <2>1 DEF Relaxed
<1>8. IsFiniteSet(Relaxed(K))
  <2>1. IsFiniteSet(1..Len(soft)) /\ Relaxed(K) \in SUBSET (1..Len(soft))
    BY <1>1, <1>7, FS_Interval
  <2> QED
    BY <2>1, FS_Subset
<1> QED
    BY <1>1, <1>3, <1>5, <1>6, <1>7, <1>8 DEF WeightOf

\* The soft clauses of the working formula.
LEMMA SoftType ==
    ASSUME SoftOK
    PROVE  \A k \in DOMAIN soft : /\ soft[k] \in SoftClauses
                                  /\ soft[k].clause \in Soft
                                  /\ soft[k].weight \in Nat
<1>1. \A k \in DOMAIN soft : soft[k] \in SoftClauses
    BY DEF SoftOK
<1> QED
    BY <1>1 DEF SoftClauses

\* What RelaxSoft does: some numbering of the soft clauses split gives their
\* copies.
LEMMA SoftRelaxed ==
    ASSUME SoftOK, TotalizersOK, AssumedOK, NEW K, NEW w, Relaxable(K, w), RelaxSoft(K, w)
    PROVE  /\ Cardinality(Split(K, w)) \in Nat
           /\ \E copies \in Bijection(1..Cardinality(Split(K, w)), Split(K, w)) :
                 SoftSplit(K, w, copies)
<1> DEFINE H == {lit \in SoftIn(K) : WeightOf(lit) > w}
           seq == SetToSeq(H)
           n == Cardinality(H)
<1>1. /\ K \in SUBSET Open
      /\ w \in Nat \ {0}
      /\ \A lit \in K : WeightOf(lit) >= w
    BY DEF Relaxable
<1>2. /\ SoftIn(K) = {<<0, k>> : k \in Relaxed(K)}
      /\ Relaxed(K) \in SUBSET ((DOMAIN soft) \ activeSoft)
      /\ \A k \in Relaxed(K) : WeightOf(<<0, k>>) = soft[k].weight
      /\ DOMAIN soft = 1..Len(soft) /\ Len(soft) \in Nat
      /\ IsFiniteSet(Relaxed(K))
    BY <1>1, CoreLiterals
<1>3. IsFiniteSet(Split(K, w))
    BY <1>2, FS_Subset DEF Split
<1> DEFINE pair == [k \in Split(K, w) |-> <<0, k>>]
<1>4. \A lit : lit \in H <=> \E k \in Split(K, w) : lit = <<0, k>>
    BY <1>2 DEF Split
<1>5. pair \in Bijection(Split(K, w), H)
  <2>1. pair \in [Split(K, w) -> H]
    BY <1>4
  <2>2. IsInjective(pair)
    BY DEF IsInjective
  <2>3. \A lit \in H : \E k \in Split(K, w) : pair[k] = lit
    BY <1>4
  <2> HIDE DEF pair, H
  <2> QED
    BY <2>1, <2>2, <2>3 DEF Bijection, Injection, Surjection
<1>6. IsFiniteSet(H) /\ n = Cardinality(Split(K, w))
  <2> HIDE DEF pair, H
  <2> QED
    BY <1>3, <1>5, FS_Bijection DEF ExistsBijection
<1>7. /\ n \in Nat
      /\ seq \in Bijection(1..n, H)
      /\ DOMAIN seq = 1..n
      /\ ToSet(seq) = H
  <2> HIDE DEF H
  <2> QED
    BY <1>6, Numbered
<1>8. Heavier(SoftIn(K), w) = seq
    BY DEF Heavier
<1> DEFINE copies == [i \in 1..n |-> seq[i][2]]
<1>9. \A i \in 1..n : copies[i] \in Split(K, w) /\ seq[i] = <<0, copies[i]>>
  <2>1. ASSUME NEW i \in 1..n
        PROVE  \E k \in Split(K, w) : seq[i] = <<0, k>>
    <3>1. seq[i] \in H
      <4> HIDE DEF H, seq, n
      <4> QED
        BY <1>7 DEF Bijection, Injection
    <3> HIDE DEF H, seq, n
    <3> QED
      BY <1>4, <3>1
  <2> HIDE DEF H, seq, n
  <2> QED
    BY <2>1
<1>10. copies \in Bijection(1..n, Split(K, w))
  <2>1. copies \in [1..n -> Split(K, w)]
    BY <1>9
  <2>2. ASSUME NEW i \in 1..n, NEW j \in 1..n, copies[i] = copies[j]
        PROVE  i = j
    <3>1. seq[i] = seq[j]
      BY <1>9, <2>2
    <3> HIDE DEF H, seq, n
    <3> QED
      BY <3>1, <1>7 DEF Bijection, Injection, IsInjective
  <2>3. ASSUME NEW k \in Split(K, w)
        PROVE  \E i \in 1..n : copies[i] = k
    <3>1. <<0, k>> \in H
      BY <1>4
    <3>2. PICK i \in 1..n : seq[i] = <<0, k>>
      <4> HIDE DEF H, seq, n
      <4> QED
        BY <3>1, <1>7 DEF Bijection, Surjection
    <3>3. copies[i] = seq[i][2]
      OBVIOUS
    <3> HIDE DEF H, seq, n, copies
    <3> QED
      BY <3>2, <3>3
  <2>4. DOMAIN copies = 1..n
    OBVIOUS
  <2> HIDE DEF copies, n
  <2> QED
    BY <2>1, <2>2, <2>3, <2>4 DEF Bijection, Injection, Surjection, IsInjective
<1> DEFINE rest == [k \in DOMAIN soft |->
                      IF <<0, k>> \in ToSet(seq) THEN Rest(k, w) ELSE soft[k]]
           new == [i \in 1..n |-> [clause |-> soft[seq[i][2]].clause, weight |-> w]]
<1>11. soft' = rest \o new
    BY <1>7, <1>8 DEF RelaxSoft
<1>12. ASSUME NEW k \in DOMAIN soft
       PROVE  /\ rest[k] \in SoftClauses
              /\ rest[k].clause = soft[k].clause
              /\ rest[k].weight = IF k \in Split(K, w) THEN soft[k].weight - w ELSE soft[k].weight
  <2>1. <<0, k>> \in ToSet(seq) <=> k \in Split(K, w)
    <3>1. <<0, k>> \in H <=> k \in Split(K, w)
      BY <1>4
    <3> QED
      BY <3>1, <1>7
  <2>2. soft[k] \in [clause : Soft, weight : Nat]
    BY SoftType DEF SoftClauses
  <2>3. k \in Split(K, w) => soft[k].weight > w
    BY DEF Split
  <2>4. Rest(k, w) = [clause |-> soft[k].clause, weight |-> soft[k].weight - w]
    BY <2>2 DEF Rest
  <2> QED
    BY <1>1, <2>1, <2>2, <2>3, <2>4 DEF SoftClauses
<1>13. rest \in Seq(SoftClauses) /\ Len(rest) = Len(soft)
  <2>1. rest \in [1..Len(soft) -> SoftClauses]
    BY <1>2, <1>12
  <2> HIDE DEF rest
  <2> QED
    BY <2>1, <1>2
<1>14. \A i \in 1..n : /\ new[i] \in SoftClauses
                       /\ new[i].clause = soft[copies[i]].clause
                       /\ new[i].weight = w
  <2>1. ASSUME NEW i \in 1..n
        PROVE  soft[copies[i]].clause \in Soft
    <3>1. copies[i] \in DOMAIN soft
      BY <1>9 DEF Split, Relaxed
    <3> HIDE DEF copies
    <3> QED
      BY <3>1, SoftType
  <2> QED
    BY <1>1, <2>1 DEF SoftClauses
<1>15. new \in Seq(SoftClauses) /\ Len(new) = n
  <2>1. new \in [1..n -> SoftClauses]
    BY <1>14
  <2> HIDE DEF new, n
  <2> QED
    BY <2>1, <1>7
<1>16. /\ soft' \in Seq(SoftClauses)
       /\ Len(soft') = Len(soft) + n
       /\ \A k \in 1..Len(soft) : soft'[k] = rest[k]
       /\ \A i \in 1..n : soft'[Len(soft) + i] = new[i]
  <2> HIDE DEF rest, new, n
  <2>1. /\ rest \o new \in Seq(SoftClauses)
        /\ Len(rest \o new) = Len(rest) + Len(new)
        /\ \A i \in 1..(Len(rest) + Len(new)) :
              (rest \o new)[i] = IF i <= Len(rest) THEN rest[i] ELSE new[i - Len(rest)]
    BY <1>13, <1>15, ConcatProperties
  <2>2. \A k \in 1..Len(soft) : soft'[k] = rest[k]
    BY <1>2, <1>7, <1>11, <1>13, <1>15, <2>1
  <2>3. \A i \in 1..n : soft'[Len(soft) + i] = new[i]
    <3>1. ASSUME NEW i \in 1..n
          PROVE  soft'[Len(soft) + i] = new[i]
      <4>1. /\ Len(soft) + i \in 1..(Len(soft) + n)
            /\ ~ (Len(soft) + i <= Len(soft))
            /\ Len(soft) + i - Len(soft) = i
        BY <1>2, <1>7
      <4> QED
        BY <1>11, <1>13, <1>15, <2>1, <4>1
    <3> QED
      BY <3>1
  <2> QED
    BY <1>11, <1>13, <1>15, <2>1, <2>2, <2>3
<1>17. activeSoft' = activeSoft \cup (Relaxed(K) \ Split(K, w))
                     \cup {Len(soft) + i : i \in 1..n}
  <2>1. activeSoft' = activeSoft \cup {lit[2] : lit \in SoftIn(K) \ H}
                      \cup {Len(soft) + i : i \in 1..n}
    BY <1>7, <1>8 DEF RelaxSoft
  <2>2. {lit[2] : lit \in SoftIn(K) \ H} = Relaxed(K) \ Split(K, w)
    <3>1. ASSUME NEW lit \in SoftIn(K) \ H
          PROVE  lit[2] \in Relaxed(K) \ Split(K, w)
      BY <1>2, <1>4
    <3>2. ASSUME NEW k \in Relaxed(K) \ Split(K, w)
          PROVE  \E lit \in SoftIn(K) \ H : lit[2] = k
      <4>1. <<0, k>> \in SoftIn(K) \ H /\ <<0, k>>[2] = k
        BY <1>2, <1>4
      <4> QED
        BY <4>1
    <3> HIDE DEF H
    <3> QED
      BY <3>1, <3>2
  <2> QED
    BY <2>1, <2>2
<1>18. SoftSplit(K, w, copies)
  <2>1. DOMAIN soft' = 1..(Len(soft) + n)
    BY <1>16
  <2> HIDE DEF rest, new, copies, n
  <2>2. \A k \in DOMAIN soft : soft'[k] = rest[k]
    BY <1>2, <1>16
  <2>3. \A k \in DOMAIN soft :
           /\ soft'[k].clause = soft[k].clause
           /\ soft'[k].weight = IF k \in Split(K, w) THEN soft[k].weight - w
                                ELSE soft[k].weight
    BY <1>12, <2>2
  <2>4. \A i \in 1..n : /\ soft'[Len(soft) + i].clause = soft[copies[i]].clause
                        /\ soft'[Len(soft) + i].weight = w
    BY <1>14, <1>16
  <2> QED
    BY <1>6, <1>16, <1>17, <2>1, <2>3, <2>4 DEF SoftSplit
<1> HIDE DEF copies, n
<1> QED
    BY <1>6, <1>7, <1>10, <1>18

\* The soft clauses of the working formula that a model falsifies.
Falsified(P) == {k \in DOMAIN soft : soft[k].clause \in P}
WeightsOfSoft == [k \in DOMAIN soft |-> soft[k].weight]

\* A soft clause and its copy weigh what the soft clause weighed.
LEMMA SplitKeepsCost ==
    ASSUME SoftOK, NEW K, NEW w \in Nat, Relaxed(K) \in SUBSET (DOMAIN soft),
           IsFiniteSet(Split(K, w)),
           NEW copies \in Bijection(1..Cardinality(Split(K, w)), Split(K, w)),
           SoftSplit(K, w, copies), NEW P
    PROVE  CostModel(P)' = CostModel(P)
<1> DEFINE n == Cardinality(Split(K, w))
           old == Falsified(P)
           F == {Len(soft) + i : i \in {j \in 1..n : soft[copies[j]].clause \in P}}
           H == Split(K, w) \cap old
           u == WeightsOfSoft
           v == [k \in DOMAIN soft' |-> soft'[k].weight]
           d == [k \in H |-> w]
<1>1. /\ DOMAIN soft = 1..Len(soft) /\ Len(soft) \in Nat
      /\ DOMAIN soft' = 1..(Len(soft) + n)
      /\ n \in Nat
      /\ Split(K, w) \in SUBSET (DOMAIN soft)
    BY FS_CardinalityType DEF SoftOK, SoftSplit, Split
<1>2. IsFiniteSet(DOMAIN soft) /\ IsFiniteSet(DOMAIN soft')
    BY <1>1, FS_Interval
<1>3. CostModel(P) = SumOver(u, old)
    BY DEF CostModel, Falsified, WeightsOfSoft
<1>4. CostModel(P)' = SumOver(v, old \cup F)
  <2>1. {k \in DOMAIN soft' : soft'[k].clause \in P} = old \cup F
    <3>1. ASSUME NEW k \in DOMAIN soft', soft'[k].clause \in P
          PROVE  k \in old \cup F
      <4>1. CASE k \in DOMAIN soft
        BY <3>1, <4>1 DEF SoftSplit, Falsified
      <4>2. CASE k \notin DOMAIN soft
        <5>1. k - Len(soft) \in 1..n /\ Len(soft) + (k - Len(soft)) = k
          BY <1>1, <4>2
        <5>2. soft[copies[k - Len(soft)]].clause \in P
          BY <3>1, <5>1 DEF SoftSplit
        <5> QED
          BY <5>1, <5>2
      <4> QED
        BY <4>1, <4>2
    <3>2. ASSUME NEW k \in old
          PROVE  k \in DOMAIN soft' /\ soft'[k].clause \in P
      BY <1>1 DEF SoftSplit, Falsified
    <3>3. ASSUME NEW k \in F
          PROVE  k \in DOMAIN soft' /\ soft'[k].clause \in P
      <4>1. PICK i \in 1..n : k = Len(soft) + i /\ soft[copies[i]].clause \in P
        OBVIOUS
      <4>2. k \in DOMAIN soft'
        BY <1>1, <4>1
      <4> QED
        BY <4>1, <4>2 DEF SoftSplit
    <3> HIDE DEF F, old
    <3> QED
      BY <3>1, <3>2, <3>3
  <2> QED
    BY <2>1 DEF CostModel
<1>5. ASSUME NEW k \in DOMAIN soft
      PROVE  /\ soft[k].weight \in Nat
             /\ k \in Split(K, w) => soft[k].weight > w
             /\ v[k] = IF k \in Split(K, w) THEN soft[k].weight - w ELSE soft[k].weight
             /\ u[k] = soft[k].weight
    BY <1>1, SoftType DEF SoftSplit, Split, WeightsOfSoft
<1>6. /\ old \in SUBSET (DOMAIN soft)
      /\ F \in SUBSET (DOMAIN soft')
      /\ old \cap F = {}
    BY <1>1 DEF Falsified
<1>7. ASSUME NEW k \in F
      PROVE  v[k] = w
  <2>1. PICK i \in 1..n : k = Len(soft) + i
    OBVIOUS
  <2> QED
    BY <2>1, <1>6 DEF SoftSplit
<1>8. Weighing(u, old)
    BY <1>2, <1>5, <1>6, FS_Subset DEF Weighing
<1>9. Weighing(v, old \cup F) /\ Weighing(v, old) /\ Weighing(v, F)
  <2>1. \A k \in old \cup F : v[k] \in Nat
    BY <1>5, <1>6, <1>7
  <2>2. old \cup F \in SUBSET (DOMAIN soft')
    BY <1>1, <1>6
  <2>3. Weighing(v, old \cup F)
    <3> HIDE DEF v, old, F
    <3> QED
      BY <1>2, <2>1, <2>2, FS_Subset DEF Weighing
  <2> HIDE DEF v, old, F
  <2> QED
    BY <2>3, WeighingParts
<1>10. IsFiniteSet(H) /\ Weighing(d, H) /\ H \in SUBSET old
  <2>1. IsFiniteSet(H)
    <3>1. H \in SUBSET Split(K, w)
      OBVIOUS
    <3> QED
      BY <3>1, FS_Subset
  <2> QED
    BY <2>1 DEF Weighing
<1>11. SumOver(v, old \cup F) = SumOver(v, old) + SumOver(v, F)
  <2> HIDE DEF v, old, F
  <2> QED
    BY <1>6, <1>9, SumApart
<1>12. SumOver(u, old) = SumOver(v, old) + SumOver(d, H)
  <2>1. \A k \in old \ H : u[k] = v[k]
    BY <1>5, <1>6
  <2>2. \A k \in H \ {} : u[k] = v[k] + d[k]
    BY <1>5, <1>6
  <2>3. old \ {} = old
    OBVIOUS
  <2> HIDE DEF v, old, H, u, d
  <2> QED
    <3>1. Taken(u, v, d, old, H, {})
      BY <1>8, <1>9, <1>10, <2>1, <2>2, <2>3 DEF Taken
    <3> QED
      BY <2>3, <3>1, SumTaken
<1>13. SumOver(d, H) = Cardinality(H) * w
    BY <1>10, SumConstant
<1>14. SumOver(v, F) = Cardinality(F) * w
  <2> HIDE DEF v, F
  <2> QED
    BY <1>7, <1>9, SumConstant DEF Weighing
<1>15. Cardinality(F) = Cardinality(H)
  <2> DEFINE b == [k \in F |-> copies[k - Len(soft)]]
  <2>1. ASSUME NEW k \in F
        PROVE  /\ k - Len(soft) \in 1..n
               /\ b[k] = copies[k - Len(soft)]
               /\ b[k] \in H
    <3>1. PICK i \in 1..n : k = Len(soft) + i /\ soft[copies[i]].clause \in P
      OBVIOUS
    <3>2. k - Len(soft) = i
      BY <1>1, <3>1
    <3>3. copies[i] \in Split(K, w)
      BY DEF Bijection, Injection
    <3> QED
      BY <1>1, <3>1, <3>2, <3>3 DEF Falsified
  <2>2. ASSUME NEW k \in F, NEW l \in F, b[k] = b[l]
        PROVE  k = l
    <3>1. k - Len(soft) = l - Len(soft)
      <4> HIDE DEF b
      <4> QED
        BY <2>1, <2>2 DEF Bijection, Injection, IsInjective
    <3>2. k \in Int /\ l \in Int
      BY <1>1, <1>6
    <3> QED
      BY <1>1, <3>1, <3>2
  <2>3. ASSUME NEW h \in H
        PROVE  \E k \in F : b[k] = h
    <3>1. PICK i \in 1..n : copies[i] = h
      BY DEF Bijection, Surjection
    <3>2. soft[copies[i]].clause \in P
      BY <3>1 DEF Falsified
    <3>3. Len(soft) + i \in F /\ (Len(soft) + i) - Len(soft) = i
      BY <1>1, <3>2
    <3> QED
      BY <3>1, <3>3
  <2>4. b \in Bijection(F, H)
    <3>1. b \in [F -> H]
      BY <2>1
    <3>2. DOMAIN b = F
      OBVIOUS
    <3> HIDE DEF b, F, H
    <3> QED
      BY <2>2, <2>3, <3>1, <3>2 DEF Bijection, Injection, Surjection, IsInjective
  <2>5. IsFiniteSet(F)
    BY <1>9 DEF Weighing
  <2> HIDE DEF b, F, H
  <2> QED
    BY <2>4, <2>5, FS_Bijection DEF ExistsBijection
<1> HIDE DEF u, v, d, F, H, old
<1> QED
    BY <1>3, <1>4, <1>11, <1>12, <1>13, <1>14, <1>15

\* Relaxing a core takes its weight from every soft clause of it that a model
\* falsifies.
LEMMA SplitLeaves ==
    ASSUME SoftOK, NEW K, NEW w \in Nat, Relaxed(K) \in SUBSET ((DOMAIN soft) \ activeSoft),
           IsFiniteSet(Split(K, w)), \A k \in Relaxed(K) : soft[k].weight >= w,
           NEW copies, SoftSplit(K, w, copies), NEW P
    PROVE  /\ SoftLeft(P) = SoftLeft(P)' + Cardinality(Relaxed(K) \cap Falsified(P)) * w
           /\ SoftLeft(P)' \in Nat
           /\ IsFiniteSet(Relaxed(K) \cap Falsified(P))
<1> DEFINE n == Cardinality(Split(K, w))
           S == {k \in (DOMAIN soft) \ activeSoft : soft[k].clause \in P}
           T == Relaxed(K) \cap Falsified(P)
           R == T \ Split(K, w)
           u == [k \in DOMAIN soft |-> soft[k].weight]
           v == [k \in DOMAIN soft' |-> soft'[k].weight]
           d == [k \in T |-> w]
<1>1. /\ DOMAIN soft = 1..Len(soft) /\ Len(soft) \in Nat
      /\ DOMAIN soft' = 1..(Len(soft) + n)
      /\ n \in Nat
      /\ Split(K, w) \in SUBSET Relaxed(K)
    BY FS_CardinalityType DEF SoftOK, SoftSplit, Split
<1>2. IsFiniteSet(S) /\ IsFiniteSet(T) /\ IsFiniteSet(S \ R)
  <2>1. IsFiniteSet(DOMAIN soft)
    BY <1>1, FS_Interval
  <2>2. S \in SUBSET (DOMAIN soft) /\ T \in SUBSET (DOMAIN soft) /\ S \ R \in SUBSET (DOMAIN soft)
    OBVIOUS
  <2> HIDE DEF S, T, R
  <2> QED
    BY <2>1, <2>2, FS_Subset
<1>3. T \in SUBSET S /\ R \in SUBSET T
    BY DEF Falsified
<1>4. SoftLeft(P)' = SumOver(v, S \ R)
  <2>1. (DOMAIN soft') \ activeSoft' = (DOMAIN soft) \ (activeSoft \cup (Relaxed(K) \ Split(K, w)))
    <3>1. activeSoft' = activeSoft \cup (Relaxed(K) \ Split(K, w)) \cup {Len(soft) + i : i \in 1..n}
      BY DEF SoftSplit
    <3>2. \A k \in DOMAIN soft' : k \in DOMAIN soft \/ k \in {Len(soft) + i : i \in 1..n}
      <4>1. ASSUME NEW k \in DOMAIN soft', k \notin DOMAIN soft
            PROVE  k - Len(soft) \in 1..n /\ Len(soft) + (k - Len(soft)) = k
        BY <1>1, <4>1
      <4> QED
        BY <4>1
    <3>3. \A k \in DOMAIN soft : k \in DOMAIN soft' /\ k \notin {Len(soft) + i : i \in 1..n}
      BY <1>1
    <3> QED
      BY <3>1, <3>2, <3>3
  <2>2. {k \in (DOMAIN soft') \ activeSoft' : soft'[k].clause \in P} = S \ R
    <3>1. \A k \in DOMAIN soft : soft'[k].clause = soft[k].clause
      BY DEF SoftSplit
    <3>2. ASSUME NEW k \in DOMAIN soft
          PROVE  (k \notin activeSoft \cup (Relaxed(K) \ Split(K, w)) /\ soft[k].clause \in P)
                   <=> k \in S \ R
      BY <1>3 DEF Falsified
    <3> QED
      BY <2>1, <3>1, <3>2
  <2> QED
    BY <2>2 DEF SoftLeft
<1>5. ASSUME NEW k \in DOMAIN soft
      PROVE  /\ soft[k].weight \in Nat
             /\ k \in Split(K, w) => soft[k].weight > w
             /\ k \in Relaxed(K) \ Split(K, w) => soft[k].weight = w
             /\ v[k] = IF k \in Split(K, w) THEN soft[k].weight - w ELSE soft[k].weight
             /\ u[k] = soft[k].weight
  <2>1. soft[k].weight \in Nat
    BY SoftType
  <2>2. k \in Split(K, w) => soft[k].weight > w
    BY DEF Split
  <2>3. k \in Relaxed(K) \ Split(K, w) => soft[k].weight = w
    BY <2>1 DEF Split
  <2>4. k \in DOMAIN soft'
    BY <1>1
  <2> QED
    BY <2>1, <2>2, <2>3, <2>4 DEF SoftSplit
<1>6. SumOver(u, S) = SumOver(v, S \ R) + SumOver(d, T)
  <2>1. Weighing(u, S)
    BY <1>2, <1>5 DEF Weighing
  <2>2. \A k \in S \ R : v[k] \in Nat
    BY <1>5
  <2>3. Weighing(v, S \ R) /\ Weighing(d, T)
    BY <1>2, <2>2 DEF Weighing
  <2>4. \A k \in S \ T : u[k] = v[k]
    BY <1>1, <1>5 DEF Falsified
  <2>5. \A k \in T \ R : u[k] = v[k] + d[k]
    <3>1. ASSUME NEW k \in T \ R
          PROVE  /\ k \in Split(K, w) /\ k \in DOMAIN soft
                 /\ d[k] = w
      BY DEF Falsified
    <3> HIDE DEF u, v, d, T, R
    <3> QED
      BY <3>1, <1>5
  <2>6. \A k \in R : u[k] = d[k]
    <3>1. ASSUME NEW k \in R
          PROVE  /\ k \in Relaxed(K) \ Split(K, w) /\ k \in DOMAIN soft
                 /\ d[k] = w
      BY DEF Falsified
    <3> HIDE DEF u, v, d, T, R
    <3> QED
      BY <3>1, <1>5
  <2> HIDE DEF u, v, d, S, T, R
  <2> QED
    <3>1. Taken(u, v, d, S, T, R)
      BY <1>3, <2>1, <2>3, <2>4, <2>5, <2>6 DEF Taken
    <3> QED
      BY <3>1, SumTaken
<1>7. SumOver(d, T) = Cardinality(T) * w
    BY <1>2, SumConstant
<1>8. SumOver(v, S \ R) \in Nat
  <2>1. Weighing(v, S \ R)
    BY <1>2, <1>5 DEF Weighing
  <2> HIDE DEF v, S, R
  <2> QED
    BY <2>1, SumType
<1>9. SoftLeft(P) = SumOver(u, S)
    BY DEF SoftLeft
<1> QED
    BY <1>2, <1>4, <1>6, <1>7, <1>8, <1>9

-----------------------------------------------------------------------------
\* Duplicating totalizers.

\* The outputs of totalizers in a core.
Outputs(K) == K \cap CardinalityAssumptions

\* Those that weigh more than the core.
Copied(K, w) == {lit \in Outputs(K) : cardinalityWeight[lit] > w}

\* place[lit] is the totalizer that stands for that of lit once the copies are
\* made: a copy when the totalizer weighs more than w.
Placed(K, w, place) ==
    /\ place \in [Outputs(K) -> 1..(Len(soft_cardinality) + Cardinality(Copied(K, w)))]
    /\ \A l, m \in Outputs(K) : place[l] = place[m] => l = m
    /\ \A lit \in Outputs(K) \ Copied(K, w) : place[lit] = lit[1]
    /\ \A lit \in Copied(K, w) : place[lit] > Len(soft_cardinality)
    /\ \A j \in 1..(Len(soft_cardinality) + Cardinality(Copied(K, w))) :
          j > Len(soft_cardinality) => \E lit \in Copied(K, w) : place[lit] = j
    /\ cardinality_relax(K, w) = {<<place[lit], lit[2]>> : lit \in Outputs(K)}

\* The totalizers once the copies are made.
TotalizersCopied(K, w, place) ==
    /\ WithCopies(K, w) \in Seq(SUBSET (Nat \X Nat))
    /\ Len(WithCopies(K, w)) = Len(soft_cardinality) + Cardinality(Copied(K, w))
    /\ \A j \in DOMAIN soft_cardinality : WithCopies(K, w)[j] = soft_cardinality[j]
    /\ \A lit \in Outputs(K) : WithCopies(K, w)[place[lit]] = soft_cardinality[lit[1]]

\* The outputs assumed of totalizers.
LEMMA OutputsType ==
    ASSUME TotalizersOK, AssumedOK
    PROVE  /\ DOMAIN soft_cardinality = 1..Len(soft_cardinality)
           /\ Len(soft_cardinality) \in Nat
           /\ \A lit \in CardinalityAssumptions :
                 /\ lit = <<lit[1], lit[2]>>
                 /\ lit[1] \in 1..Len(soft_cardinality) /\ lit[1] \in DOMAIN soft_cardinality
                 /\ lit[2] \in Nat
                 /\ cardinalityWeight[lit] \in Nat \ {0}
           /\ IsFiniteSet(CardinalityAssumptions)
<1>1. /\ DOMAIN soft_cardinality = 1..Len(soft_cardinality)
      /\ Len(soft_cardinality) \in Nat
    BY DEF TotalizersOK
<1>2. \A lit \in CardinalityAssumptions :
         /\ lit = <<lit[1], lit[2]>>
         /\ lit[1] \in DOMAIN soft_cardinality
         /\ lit[2] \in Nat
  <2>1. ASSUME NEW D, NEW lit \in D \X Nat
        PROVE  lit = <<lit[1], lit[2]>> /\ lit[1] \in D /\ lit[2] \in Nat
    OBVIOUS
  <2> QED
    BY <2>1 DEF AssumedOK
<1>3. \A lit \in CardinalityAssumptions : cardinalityWeight[lit] \in Nat \ {0}
    BY DEF AssumedOK
<1>4. IsFiniteSet(CardinalityAssumptions)
  <2> DEFINE number == [lit \in CardinalityAssumptions |-> lit[1]]
  <2>1. number \in [CardinalityAssumptions -> 1..Len(soft_cardinality)]
    BY <1>1, <1>2
  <2>2. \A l, m \in CardinalityAssumptions : number[l] = number[m] => l = m
    BY DEF AssumedOK
  <2>3. number \in Injection(CardinalityAssumptions, 1..Len(soft_cardinality))
    <3>1. DOMAIN number = CardinalityAssumptions
      OBVIOUS
    <3> HIDE DEF number
    <3> QED
      BY <2>1, <2>2, <3>1 DEF Injection, IsInjective
  <2>4. IsFiniteSet(1..Len(soft_cardinality))
    BY <1>1, FS_Interval
  <2> HIDE DEF number
  <2> QED
    BY <2>3, <2>4, FS_Injection
<1> QED
    BY <1>1, <1>2, <1>3, <1>4

\* What duplicating the heavier totalizers of a core does.
LEMMA CopiesMade ==
    ASSUME SoftOK, TotalizersOK, AssumedOK, NEW K, NEW w, Relaxable(K, w)
    PROVE  /\ Cardinality(Copied(K, w)) \in Nat
           /\ \E place : Placed(K, w, place) /\ TotalizersCopied(K, w, place)
<1> DEFINE A == CardinalityAssumptions
           D == Copied(K, w)
           seq == SetToSeq(D)
           n == Cardinality(D)
           L == Len(soft_cardinality)
<1>1. /\ K \in SUBSET Open /\ w \in Nat \ {0}
      /\ K \ SoftIn(K) = Outputs(K)
      /\ \A lit \in Outputs(K) : WeightOf(lit) = cardinalityWeight[lit]
      /\ \A lit \in Outputs(K) : cardinalityWeight[lit] >= w
    BY CoreLiterals DEF Relaxable, Outputs
<1>2. /\ DOMAIN soft_cardinality = 1..L /\ L \in Nat
      /\ \A lit \in Outputs(K) : /\ lit[1] \in 1..L /\ lit[1] \in DOMAIN soft_cardinality
                                 /\ lit[2] \in Nat
                                 /\ lit = <<lit[1], lit[2]>>
      /\ D \in SUBSET Outputs(K) /\ Outputs(K) \in SUBSET A /\ IsFiniteSet(A)
      /\ \A l, m \in A : l[1] = m[1] => l = m
    BY OutputsType DEF Outputs, Copied, AssumedOK
<1>3. IsFiniteSet(D)
  <2> HIDE DEF D
  <2> QED
    BY <1>2, FS_Subset
<1>4. /\ n \in Nat
      /\ seq \in Bijection(1..n, D)
      /\ DOMAIN seq = 1..n
  <2> HIDE DEF D
  <2> QED
    BY <1>3, Numbered
<1>5. Duplicates(K, w) = seq
  <2>1. {lit \in Outputs(K) : WeightOf(lit) > w} = D
    BY <1>1 DEF Copied
  <2> QED
    BY <1>1, <2>1 DEF Duplicates, Heavier
<1> DEFINE at(lit) == CHOOSE i \in 1..n : seq[i] = lit
           place == [lit \in Outputs(K) |-> IF lit \in D THEN L + at(lit) ELSE lit[1]]
<1> HIDE DEF D, seq, n, L
<1>6. ASSUME NEW lit \in D
      PROVE  at(lit) \in 1..n /\ seq[at(lit)] = lit
  <2>1. \E i \in 1..n : seq[i] = lit
    BY <1>4 DEF Bijection, Surjection
  <2> QED
    BY <2>1
<1>7. \A i \in 1..n : seq[i] \in D /\ at(seq[i]) = i
  <2>1. \A i \in 1..n : seq[i] \in D
    BY <1>4 DEF Bijection, Injection
  <2>2. \A i, j \in 1..n : seq[i] = seq[j] => i = j
    BY <1>4 DEF Bijection, Injection, IsInjective
  <2> HIDE DEF at
  <2> QED
    BY <1>6, <2>1, <2>2
<1>8. ASSUME NEW lit \in Outputs(K)
      PROVE  CopyOf(lit, seq) = <<place[lit], lit[2]>>
  <2>1. (\E i \in DOMAIN seq : seq[i] = lit) <=> lit \in D
    BY <1>4, <1>6, <1>7
  <2>2. CopyOf(lit, seq) = IF lit \in D THEN <<L + at(lit), lit[2]>> ELSE lit
    BY <1>4, <2>1 DEF CopyOf, L
  <2> HIDE DEF at
  <2> QED
    BY <2>2, <1>2
<1>9. Placed(K, w, place)
  <2> HIDE DEF at
  <2>1. ASSUME NEW lit \in Outputs(K)
        PROVE  /\ place[lit] \in 1..(L + n)
               /\ lit \in D => place[lit] > L
               /\ lit \notin D => place[lit] = lit[1] /\ place[lit] <= L
    BY <1>2, <1>4, <1>6
  <2>2. ASSUME NEW l \in Outputs(K), NEW m \in Outputs(K), place[l] = place[m]
        PROVE  l = m
    <3>1. CASE l \in D /\ m \in D
      <4>1. at(l) = at(m)
        BY <1>2, <1>6, <2>2, <3>1
      <4> QED
        BY <1>6, <3>1, <4>1
    <3>2. CASE l \notin D /\ m \notin D
      <4>1. l[1] = m[1]
        BY <2>1, <2>2, <3>2
      <4> QED
        BY <1>2, <4>1
    <3>3. CASE (l \in D) # (m \in D)
      <4>1. place[l] \in Int /\ place[m] \in Int
        BY <2>1
      <4> QED
        BY <2>1, <2>2, <3>3, <4>1, <1>2
    <3> QED
      BY <3>1, <3>2, <3>3
  <2>3. ASSUME NEW j \in 1..(L + n), j > L
        PROVE  \E lit \in D : place[lit] = j
    <3>1. j - L \in 1..n /\ L + (j - L) = j
      BY <1>2, <1>4, <2>3
    <3>2. seq[j - L] \in D /\ at(seq[j - L]) = j - L
      BY <1>7, <3>1
    <3>3. place[seq[j - L]] = j
      BY <1>2, <3>1, <3>2
    <3> QED
      BY <3>2, <3>3
  <2>4. cardinality_relax(K, w) = {<<place[lit], lit[2]>> : lit \in Outputs(K)}
    <3>1. cardinality_relax(K, w) = {CopyOf(lit, seq) : lit \in Outputs(K)}
      BY <1>1, <1>5 DEF cardinality_relax
    <3> HIDE DEF place
    <3> QED
      BY <1>8, <3>1
  <2>5. place \in [Outputs(K) -> 1..(L + n)]
    BY <2>1
  <2> HIDE DEF place
  <2> QED
    BY <1>2, <2>1, <2>2, <2>3, <2>4, <2>5 DEF Placed, L, n, D
<1>10. TotalizersCopied(K, w, place)
  <2> DEFINE new == [i \in 1..n |-> soft_cardinality[seq[i][1]]]
  <2> HIDE DEF at
  <2>1. WithCopies(K, w) = soft_cardinality \o new
    BY <1>4, <1>5 DEF WithCopies
  <2>2. soft_cardinality \in Seq(SUBSET (Nat \X Nat))
    BY DEF TotalizersOK
  <2>3. \A i \in 1..n : new[i] \in SUBSET (Nat \X Nat)
    <3>1. \A i \in 1..n : seq[i][1] \in DOMAIN soft_cardinality
      BY <1>2, <1>7
    <3> QED
      BY <2>2, <3>1
  <2>4. new \in Seq(SUBSET (Nat \X Nat)) /\ Len(new) = n
    <3>1. new \in [1..n -> SUBSET (Nat \X Nat)]
      BY <2>3
    <3> HIDE DEF new
    <3> QED
      BY <1>4, <3>1
  <2>5. \A i \in 1..n : new[i] = soft_cardinality[seq[i][1]]
    OBVIOUS
  <2> HIDE DEF new
  <2>6. /\ WithCopies(K, w) \in Seq(SUBSET (Nat \X Nat))
        /\ Len(WithCopies(K, w)) = L + n
        /\ \A i \in 1..(L + n) :
              WithCopies(K, w)[i] = IF i <= L THEN soft_cardinality[i] ELSE new[i - L]
    <3> DEFINE T == SUBSET (Nat \X Nat)
    <3>1. soft_cardinality \in Seq(T) /\ new \in Seq(T)
      BY <2>2, <2>4
    <3> HIDE DEF T
    <3>2. /\ soft_cardinality \o new \in Seq(T)
          /\ Len(soft_cardinality \o new) = Len(soft_cardinality) + Len(new)
          /\ \A i \in 1..(Len(soft_cardinality) + Len(new)) :
                (soft_cardinality \o new)[i] =
                    IF i <= Len(soft_cardinality) THEN soft_cardinality[i]
                    ELSE new[i - Len(soft_cardinality)]
      BY <3>1, ConcatProperties
    <3> QED
      BY <2>1, <2>4, <3>2 DEF L, T
  <2>7. ASSUME NEW lit \in Outputs(K)
        PROVE  WithCopies(K, w)[place[lit]] = soft_cardinality[lit[1]]
    <3>1. CASE lit \in D
      <4>1. place[lit] = L + at(lit) /\ at(lit) \in 1..n /\ seq[at(lit)] = lit
        BY <1>6, <3>1
      <4>2. /\ L + at(lit) \in 1..(L + n) /\ ~ (L + at(lit) <= L)
            /\ (L + at(lit)) - L = at(lit)
        BY <1>2, <1>4, <4>1
      <4>3. WithCopies(K, w)[L + at(lit)] = new[at(lit)]
        BY <2>6, <4>2
      <4> QED
        BY <2>5, <4>1, <4>3
    <3>2. CASE lit \notin D
      <4>1. place[lit] = lit[1] /\ lit[1] \in 1..L
        BY <1>2, <3>2
      <4>2. lit[1] \in 1..(L + n) /\ lit[1] <= L
        BY <1>2, <1>4, <4>1
      <4> QED
        BY <2>6, <4>1, <4>2
    <3> QED
      BY <3>1, <3>2
  <2>8. \A j \in DOMAIN soft_cardinality : WithCopies(K, w)[j] = soft_cardinality[j]
    <3>1. \A j \in DOMAIN soft_cardinality : j \in 1..(L + n) /\ j <= L
      BY <1>2, <1>4
    <3> QED
      BY <2>6, <3>1
  <2> HIDE DEF place
  <2> QED
    BY <2>6, <2>7, <2>8 DEF TotalizersCopied, L, n, D
<1> HIDE DEF place
<1> QED
    BY <1>4, <1>9, <1>10 DEF n, D

-----------------------------------------------------------------------------
\* The literals of a core and those that replace them.

\* What a core's relaxation variables become: spot[k] stands for soft clause k.
Spotted(K, spot) ==
    /\ spot \in [Relaxed(K) -> DOMAIN soft']
    /\ \A k, l \in Relaxed(K) : spot[k] = spot[l] => k = l
    /\ \A k \in Relaxed(K) : soft'[spot[k]].clause = soft[k].clause
    /\ soft_relax = {<<0, spot[k]>> : k \in Relaxed(K)}

\* Each soft clause of the core has one soft clause relaxed for it.
LEMMA SpotsExist ==
    ASSUME SoftOK, NEW K, NEW w, Relaxed(K) \in SUBSET ((DOMAIN soft) \ activeSoft),
           Cardinality(Split(K, w)) \in Nat,
           NEW copies \in Bijection(1..Cardinality(Split(K, w)), Split(K, w)),
           SoftSplit(K, w, copies)
    PROVE  \E spot : Spotted(K, spot)
<1> DEFINE H == Split(K, w)
           n == Cardinality(H)
           L == Len(soft)
           at(k) == CHOOSE i \in 1..n : copies[i] = k
           spot == [k \in Relaxed(K) |-> IF k \in H THEN L + at(k) ELSE k]
<1>1. /\ DOMAIN soft = 1..L /\ L \in Nat
      /\ DOMAIN soft' = 1..(L + n)
      /\ n \in Nat
      /\ H \in SUBSET Relaxed(K)
      /\ activeSoft \in SUBSET (DOMAIN soft)
    BY DEF SoftOK, SoftSplit, Split
<1>2. ASSUME NEW k \in H
      PROVE  at(k) \in 1..n /\ copies[at(k)] = k
  <2>1. \E i \in 1..n : copies[i] = k
    BY DEF Bijection, Surjection
  <2> QED
    BY <2>1
<1>3. \A i \in 1..n : copies[i] \in H /\ at(copies[i]) = i
  <2>1. \A i \in 1..n : copies[i] \in H
    BY DEF Bijection, Injection
  <2>2. \A i, j \in 1..n : copies[i] = copies[j] => i = j
    BY DEF Bijection, Injection, IsInjective
  <2> HIDE DEF at
  <2> QED
    BY <1>2, <2>1, <2>2
<1>4. /\ \A k \in DOMAIN soft : soft'[k].clause = soft[k].clause
      /\ \A i \in 1..n : soft'[L + i].clause = soft[copies[i]].clause
      /\ activeSoft' = activeSoft \cup (Relaxed(K) \ H) \cup {L + i : i \in 1..n}
    BY DEF SoftSplit
<1> HIDE DEF H, n, L, at
<1>5. ASSUME NEW k \in Relaxed(K)
      PROVE  /\ k \in 1..L /\ k \in DOMAIN soft
             /\ k \in H => at(k) \in 1..n /\ spot[k] = L + at(k) /\ copies[at(k)] = k
             /\ k \notin H => spot[k] = k
             /\ spot[k] \in DOMAIN soft'
             /\ spot[k] \notin activeSoft
  <2>1. k \in 1..L /\ k \in DOMAIN soft /\ k \notin activeSoft
    BY <1>1
  <2>2. CASE k \in H
    <3>1. at(k) \in 1..n /\ spot[k] = L + at(k) /\ copies[at(k)] = k
      BY <1>2, <2>2
    <3>2. L + at(k) \in 1..(L + n) /\ L + at(k) \notin 1..L
      BY <1>1, <3>1
    <3> QED
      BY <1>1, <2>1, <2>2, <3>1, <3>2
  <2>3. CASE k \notin H
    BY <1>1, <2>1, <2>3
  <2> QED
    BY <2>1, <2>2, <2>3
<1>6. spot \in [Relaxed(K) -> DOMAIN soft']
    BY <1>5
<1> HIDE DEF spot
<1>7. \A k \in Relaxed(K) : soft'[spot[k]].clause = soft[k].clause
    BY <1>4, <1>5
<1>8. ASSUME NEW k \in Relaxed(K), NEW l \in Relaxed(K), spot[k] = spot[l]
      PROVE  k = l
  <2>1. CASE k \in H /\ l \in H
    <3>1. at(k) = at(l)
      BY <1>1, <1>5, <1>8, <2>1
    <3> QED
      BY <1>5, <2>1, <3>1
  <2>2. CASE k \notin H /\ l \notin H
    BY <1>5, <1>8, <2>2
  <2>3. CASE k \in H /\ l \notin H
    BY <1>1, <1>5, <1>8, <2>3
  <2>4. CASE k \notin H /\ l \in H
    BY <1>1, <1>5, <1>8, <2>4
  <2> QED
    BY <2>1, <2>2, <2>3, <2>4
<1>9. activeSoft' \ activeSoft = {spot[k] : k \in Relaxed(K)}
  <2>1. ASSUME NEW j \in activeSoft' \ activeSoft
        PROVE  \E k \in Relaxed(K) : spot[k] = j
    <3>1. CASE j \in Relaxed(K) \ H
      BY <1>5, <3>1
    <3>2. CASE j \in {L + i : i \in 1..n}
      <4>1. PICK i \in 1..n : j = L + i
        BY <3>2
      <4>2. copies[i] \in H /\ at(copies[i]) = i /\ copies[i] \in Relaxed(K)
        BY <1>1, <1>3
      <4> QED
        BY <1>5, <4>1, <4>2
    <3> QED
      BY <1>4, <3>1, <3>2
  <2>2. ASSUME NEW k \in Relaxed(K)
        PROVE  spot[k] \in activeSoft' \ activeSoft
    BY <1>4, <1>5
  <2> QED
    BY <2>1, <2>2
<1>10. soft_relax = {<<0, spot[k]>> : k \in Relaxed(K)}
    BY <1>9 DEF soft_relax
<1> QED
    BY <1>6, <1>7, <1>8, <1>10 DEF Spotted

\* The literals that replace those of a core, and which stands for which.
NewLiterals(K, w) == soft_relax \cup cardinality_relax(K, w)

\* r[lit] is the literal that stands for lit.
Standing(K, w, spot, place, r) ==
    /\ r \in Bijection(K, NewLiterals(K, w))
    /\ \A lit \in K :
          \/ lit[1] = 0 /\ lit[2] \in Relaxed(K) /\ r[lit] = <<0, spot[lit[2]]>>
          \/ lit \in Outputs(K) /\ lit[1] # 0 /\ r[lit] = <<place[lit], lit[2]>>

\* The literals of the core and those of the new totalizer, one to one.
LEMMA LiteralsReplaced ==
    ASSUME SoftOK, TotalizersOK, AssumedOK, NEW K, NEW w, Relaxable(K, w),
           NEW spot, Spotted(K, spot), NEW place, Placed(K, w, place)
    PROVE  /\ IsFiniteSet(K)
           /\ \E r : Standing(K, w, spot, place, r)
<1>1. /\ K \in SUBSET Open
      /\ SoftIn(K) = {<<0, k>> : k \in Relaxed(K)}
      /\ K \ SoftIn(K) = Outputs(K)
      /\ \A lit \in Outputs(K) : lit[1] # 0 /\ place[lit] # 0
      /\ IsFiniteSet(Relaxed(K))
      /\ Outputs(K) \in SUBSET K
  <2>1. \A lit \in Outputs(K) : place[lit] # 0
    BY OutputsType DEF Placed
  <2> QED
    BY <2>1, CoreLiterals DEF Relaxable, Outputs
<1>2. IsFiniteSet(K)
  <2> DEFINE pair == [k \in Relaxed(K) |-> <<0, k>>]
  <2>1. pair \in Surjection(Relaxed(K), SoftIn(K))
    BY <1>1 DEF Surjection
  <2>2. IsFiniteSet(SoftIn(K))
    <3> HIDE DEF pair
    <3> QED
      BY <1>1, <2>1, FS_Surjection
  <2>3. IsFiniteSet(Outputs(K))
    BY OutputsType, FS_Subset DEF Outputs
  <2>4. K = SoftIn(K) \cup Outputs(K)
    BY <1>1 DEF SoftIn
  <2> QED
    BY <2>2, <2>3, <2>4, FS_Union
<1> DEFINE r == [lit \in K |-> IF lit \in SoftIn(K) THEN <<0, spot[lit[2]]>>
                               ELSE <<place[lit], lit[2]>>]
<1>3. ASSUME NEW lit \in K
      PROVE  \/ /\ lit[1] = 0 /\ lit[2] \in Relaxed(K) /\ lit = <<0, lit[2]>>
                /\ r[lit] = <<0, spot[lit[2]]>>
             \/ lit \in Outputs(K) /\ lit[1] # 0 /\ r[lit] = <<place[lit], lit[2]>>
  <2>1. CASE lit \in SoftIn(K)
    <3>1. PICK k \in Relaxed(K) : lit = <<0, k>>
      BY <1>1, <2>1
    <3> QED
      BY <2>1, <3>1
  <2>2. CASE lit \notin SoftIn(K)
    BY <1>1, <2>2
  <2> QED
    BY <2>1, <2>2
<1>4. \A lit \in K : r[lit] \in NewLiterals(K, w)
  <2> HIDE DEF r
  <2>1. ASSUME NEW lit \in K
        PROVE  r[lit] \in NewLiterals(K, w)
    <3>1. CASE lit[2] \in Relaxed(K) /\ r[lit] = <<0, spot[lit[2]]>>
      <4>1. r[lit] \in soft_relax
        BY <3>1 DEF Spotted
      <4> QED
        BY <4>1 DEF NewLiterals
    <3>2. CASE lit \in Outputs(K) /\ r[lit] = <<place[lit], lit[2]>>
      <4>1. r[lit] \in cardinality_relax(K, w)
        BY <3>2 DEF Placed
      <4> QED
        BY <4>1 DEF NewLiterals
    <3> QED
      BY <1>3, <3>1, <3>2
  <2> QED
    BY <2>1
<1>5. r \in [K -> NewLiterals(K, w)] /\ DOMAIN r = K
    BY <1>4
<1> HIDE DEF r
<1>6. ASSUME NEW l \in K, NEW m \in K, r[l] = r[m]
      PROVE  l = m
  <2>1. CASE l[1] = 0 /\ m[1] = 0
    <3>1. spot[l[2]] = spot[m[2]] /\ l[2] \in Relaxed(K) /\ m[2] \in Relaxed(K)
      BY <1>3, <1>6, <2>1
    <3>2. l[2] = m[2]
      BY <3>1 DEF Spotted
    <3> QED
      BY <1>3, <2>1, <3>2
  <2>2. CASE l[1] # 0 /\ m[1] # 0
    BY <1>3, <1>6, <2>2 DEF Placed
  <2>3. CASE l[1] = 0 /\ m[1] # 0
    BY <1>1, <1>3, <1>6, <2>3
  <2>4. CASE l[1] # 0 /\ m[1] = 0
    BY <1>1, <1>3, <1>6, <2>4
  <2> QED
    BY <2>1, <2>2, <2>3, <2>4
<1>7. ASSUME NEW x \in NewLiterals(K, w)
      PROVE  \E lit \in K : r[lit] = x
  <2>1. CASE x \in soft_relax
    <3>1. PICK k \in Relaxed(K) : x = <<0, spot[k]>>
      BY <2>1 DEF Spotted
    <3>2. <<0, k>> \in K /\ <<0, k>>[1] = 0 /\ <<0, k>>[2] = k
      BY DEF Relaxed
    <3> QED
      BY <1>1, <1>3, <3>1, <3>2
  <2>2. CASE x \in cardinality_relax(K, w)
    <3>1. PICK lit \in Outputs(K) : x = <<place[lit], lit[2]>>
      BY <2>2 DEF Placed
    <3>2. lit \in K /\ lit[1] # 0
      BY <1>1
    <3> QED
      BY <1>3, <3>1, <3>2
  <2> QED
    BY <2>1, <2>2 DEF NewLiterals
<1>8. r \in Bijection(K, NewLiterals(K, w))
    BY <1>5, <1>6, <1>7 DEF Bijection, Injection, Surjection, IsInjective
<1> QED
    BY <1>2, <1>3, <1>8 DEF Standing

\* The working formula after a core.
Replaced(K, w, spot, place) ==
    /\ soft' \in Seq(SoftClauses)
    /\ DOMAIN soft \subseteq DOMAIN soft'
    /\ \A k \in DOMAIN soft : soft'[k].clause = soft[k].clause
    /\ Spotted(K, spot)
    /\ Placed(K, w, place)

\* The old totalizers are there, and each output of the core has one like its own.
TotalizersExtended(K, w, place) ==
    /\ \A j \in DOMAIN soft_cardinality :
          j \in DOMAIN soft_cardinality' /\ soft_cardinality'[j] = soft_cardinality[j]
    /\ \A lit \in Outputs(K) :
          /\ place[lit] \in DOMAIN soft_cardinality'
          /\ soft_cardinality'[place[lit]] = soft_cardinality[lit[1]]

\* Several literals get the new totalizer n, which counts them; one gets none.
NewTotalizer(K, w, n) ==
    \/ /\ Cardinality(NewLiterals(K, w)) = 1
       /\ Reweigh(K, w, {})
    \/ /\ Cardinality(NewLiterals(K, w)) > 1
       /\ n \in DOMAIN soft_cardinality'
       /\ soft_cardinality'[n] = NewLiterals(K, w)
       /\ Reweigh(K, w, {<<n, 1>>})

\* The totalizers after a core: the old ones, the copies and the new one.
LEMMA TotalizersRelaxed ==
    ASSUME SoftOK, TotalizersOK, AssumedOK, NEW K, NEW w, Relaxable(K, w),
           Cardinality(Copied(K, w)) \in Nat,
           NEW spot, NEW place, Replaced(K, w, spot, place),
           TotalizersCopied(K, w, place), RelaxCardinality(K, w)
    PROVE  /\ TotalizersOK'
           /\ TotalizersExtended(K, w, place)
           /\ NewTotalizer(K, w, Len(soft_cardinality) + Cardinality(Copied(K, w)) + 1)
<1> DEFINE c == WithCopies(K, w)
           L == Len(soft_cardinality)
           m == Cardinality(Copied(K, w))
           n == Len(c) + 1
           relax == NewLiterals(K, w)
           Lits == SUBSET (Nat \X Nat)
<1>1. /\ c \in Seq(Lits) /\ Len(c) = L + m
      /\ \A j \in DOMAIN soft_cardinality : c[j] = soft_cardinality[j]
      /\ \A lit \in Outputs(K) : c[place[lit]] = soft_cardinality[lit[1]]
    BY DEF TotalizersCopied
<1>2. /\ DOMAIN soft_cardinality = 1..L /\ L \in Nat /\ m \in Nat
      /\ \A lit \in Outputs(K) : /\ lit[1] \in 1..L /\ lit[1] \in DOMAIN soft_cardinality
                                 /\ lit[2] \in Nat
    BY OutputsType DEF Outputs
<1>3. /\ \A lit \in Outputs(K) : place[lit] \in 1..(L + m)
      /\ \A lit \in Outputs(K) : place[lit] >= lit[1]
  <2>1. \A lit \in Outputs(K) : place[lit] \in 1..(L + m)
    BY DEF Replaced, Placed
  <2>2. ASSUME NEW lit \in Outputs(K)
        PROVE  place[lit] >= lit[1]
    <3>1. CASE lit \in Copied(K, w)
      <4>1. place[lit] > L
        BY <3>1 DEF Replaced, Placed
      <4> QED
        BY <1>2, <2>1, <4>1
    <3>2. CASE lit \notin Copied(K, w)
      <4>1. place[lit] = lit[1]
        BY <3>2 DEF Replaced, Placed
      <4> QED
        BY <1>2, <4>1
    <3> QED
      BY <3>1, <3>2
  <2> QED
    BY <2>1, <2>2
<1>4. /\ \A x \in soft_relax : x \in {0} \X DOMAIN soft'
      /\ DOMAIN soft' \in SUBSET Nat
  <2>1. soft_relax = {<<0, spot[k]>> : k \in Relaxed(K)} /\ spot \in [Relaxed(K) -> DOMAIN soft']
    BY DEF Replaced, Spotted
  <2>2. DOMAIN soft' \in SUBSET Nat
    BY DEF Replaced
  <2> QED
    BY <2>1, <2>2
<1>5. \A x \in cardinality_relax(K, w) : x \in (1..(L + m)) \X Nat
  <2>1. cardinality_relax(K, w) = {<<place[lit], lit[2]>> : lit \in Outputs(K)}
    BY DEF Replaced, Placed
  <2> QED
    BY <1>2, <1>3, <2>1
<1>6. /\ relax \in Lits
      /\ \A x \in relax : x \in ({0} \X DOMAIN soft') \cup ((1..(n - 1)) \X Nat)
      /\ IsFiniteSet(relax)
  <2>1. \A x \in relax : x \in ({0} \X DOMAIN soft') \cup ((1..(L + m)) \X Nat)
    BY <1>4, <1>5 DEF NewLiterals
  <2>2. \A x \in ({0} \X DOMAIN soft') \cup ((1..(L + m)) \X Nat) : x \in Nat \X Nat
    BY <1>2, <1>4
  <2>3. n - 1 = L + m
    BY <1>1, <1>2
  <2>4. IsFiniteSet(relax)
    <3>1. IsFiniteSet(K) /\ ExistsBijection(K, relax)
      BY LiteralsReplaced DEF Replaced, Standing, ExistsBijection
    <3> QED
      BY <3>1, FS_Bijection
  <2> QED
    BY <2>1, <2>2, <2>3, <2>4
<1>7. ASSUME NEW j \in 1..(L + m)
      PROVE  /\ IsFiniteSet(c[j])
             /\ \A x \in c[j] : x \in ({0} \X DOMAIN soft') \cup ((1..(j - 1)) \X Nat)
  <2>1. \A k \in 1..L : /\ IsFiniteSet(soft_cardinality[k])
                        /\ soft_cardinality[k] \subseteq ({0} \X DOMAIN soft) \cup ((1..(k - 1)) \X Nat)
    BY <1>2 DEF TotalizersOK, LiteralsBelow
  <2>2. DOMAIN soft \subseteq DOMAIN soft'
    BY DEF Replaced
  <2>3. ASSUME NEW k \in 1..L, k <= j
        PROVE  \A x \in soft_cardinality[k] : x \in ({0} \X DOMAIN soft') \cup ((1..(j - 1)) \X Nat)
    <3>1. 1..(k - 1) \subseteq 1..(j - 1)
      BY <1>2, <2>3
    <3> QED
      BY <2>1, <2>2, <3>1
  <2>4. CASE j <= L
    <3>1. j \in 1..L /\ c[j] = soft_cardinality[j]
      BY <1>1, <1>2, <2>4
    <3> QED
      BY <2>1, <2>3, <3>1
  <2>5. CASE j > L
    <3>1. PICK lit \in Copied(K, w) : place[lit] = j
      BY <2>5 DEF Replaced, Placed
    <3>2. lit \in Outputs(K)
      BY DEF Copied
    <3>3. c[j] = soft_cardinality[lit[1]] /\ lit[1] \in 1..L /\ lit[1] <= j
      BY <1>1, <1>2, <1>3, <3>1, <3>2
    <3> QED
      BY <2>1, <2>3, <3>3
  <2> QED
    BY <1>2, <2>4, <2>5
<1>8. \/ /\ Cardinality(relax) = 1
         /\ soft_cardinality' = c
         /\ Reweigh(K, w, {})
      \/ /\ Cardinality(relax) > 1
         /\ soft_cardinality' = Append(c, relax)
         /\ Reweigh(K, w, {<<n, 1>>})
    BY DEF RelaxCardinality, NewLiterals
<1> HIDE DEF c, Lits, relax
<1>9. /\ Append(c, relax) \in Seq(Lits)
      /\ Len(Append(c, relax)) = L + m + 1
      /\ \A j \in 1..(L + m) : Append(c, relax)[j] = c[j]
      /\ Append(c, relax)[n] = relax
      /\ n = L + m + 1
    BY <1>1, <1>2, <1>6, AppendProperties
<1>10. /\ soft_cardinality' \in Seq(Lits)
       /\ Len(soft_cardinality') \in Nat
       /\ Len(soft_cardinality') >= L + m
       /\ \A j \in 1..(L + m) : soft_cardinality'[j] = c[j]
       /\ \A j \in 1..Len(soft_cardinality') :
             j \in 1..(L + m) \/ (j = n /\ soft_cardinality'[j] = relax)
       /\ DOMAIN soft_cardinality' = 1..Len(soft_cardinality')
  <2>1. CASE soft_cardinality' = c
    BY <1>1, <1>2, <2>1
  <2>2. CASE soft_cardinality' = Append(c, relax)
    BY <1>2, <1>9, <2>2
  <2> QED
    BY <1>8, <2>1, <2>2
<1>11. ASSUME NEW j \in DOMAIN soft_cardinality'
       PROVE  /\ IsFiniteSet(soft_cardinality'[j])
              /\ \A x \in soft_cardinality'[j] : x \in ({0} \X DOMAIN soft') \cup ((1..(j - 1)) \X Nat)
    BY <1>6, <1>7, <1>10
<1>12. TotalizersOK'
    BY <1>10, <1>11 DEF TotalizersOK, LiteralsBelow, Lits
<1>13. TotalizersExtended(K, w, place)
  <2>1. \A j \in 1..(L + m) : j \in DOMAIN soft_cardinality'
    BY <1>2, <1>10
  <2>2. \A j \in DOMAIN soft_cardinality : j \in 1..(L + m)
    BY <1>2
  <2> QED
    BY <1>1, <1>3, <1>10, <2>1, <2>2 DEF TotalizersExtended
<1>14. NewTotalizer(K, w, L + m + 1)
  <2>1. CASE soft_cardinality' = Append(c, relax)
    <3>1. n \in DOMAIN soft_cardinality' /\ soft_cardinality'[n] = relax
      BY <1>2, <1>9, <1>10, <2>1
    <3> QED
      BY <1>8, <1>9, <3>1 DEF NewTotalizer, relax
  <2>2. CASE Cardinality(relax) = 1 /\ Reweigh(K, w, {})
    BY <2>2 DEF NewTotalizer, relax
  <2> QED
    BY <1>8, <2>1, <2>2
<1> QED
    BY <1>12, <1>13, <1>14

\* The lemma TotalizerCounts in a form that can be primed.
LEMMA CountsAlways ==
    TotalizersOK => \A P :
        /\ Counting(soft, soft_cardinality, P, Counts(P), 1..Len(soft_cardinality))
        /\ \A j \in DOMAIN soft_cardinality :
              Counts(P)[j] = Cardinality({lit \in soft_cardinality[j] : True(P, lit)})
    BY TotalizerCounts

\* The same of the next state.
LEMMA CountsNext ==
    TotalizersOK' => (\A P :
        /\ Counting(soft, soft_cardinality, P, Counts(P), 1..Len(soft_cardinality))
        /\ \A j \in DOMAIN soft_cardinality :
              Counts(P)[j] = Cardinality({lit \in soft_cardinality[j] : True(P, lit)}))'
    BY CountsAlways, PTL

\* A core leaves the counts alone, the copies count what their originals do, and
\* as many literals of the new totalizer are true as were of the core.
LEMMA CountsRelaxed ==
    ASSUME SoftOK, TotalizersOK, AssumedOK, NEW K, NEW w, Relaxable(K, w),
           NEW spot, NEW place, Replaced(K, w, spot, place),
           TotalizersOK', TotalizersExtended(K, w, place), NEW P
    PROVE  /\ \A j \in DOMAIN soft_cardinality : Counts(P)'[j] = Counts(P)[j]
           /\ \A lit \in Outputs(K) : Counts(P)'[place[lit]] = Counts(P)[lit[1]]
           /\ Cardinality({x \in NewLiterals(K, w) : True(P, x)'})
                 = Cardinality({lit \in K : True(P, lit)})
           /\ IsFiniteSet({lit \in K : True(P, lit)})
<1> DEFINE L == Len(soft_cardinality)
           LL == Len(soft_cardinality')
<1>1. /\ DOMAIN soft_cardinality = 1..L /\ L \in Nat
      /\ DOMAIN soft_cardinality' = 1..LL /\ LL \in Nat
      /\ L <= LL
  <2>1. DOMAIN soft_cardinality = 1..L /\ L \in Nat
    BY DEF TotalizersOK
  <2>2. DOMAIN soft_cardinality' = 1..LL /\ LL \in Nat
    BY DEF TotalizersOK
  <2>3. \A j \in 1..L : j \in 1..LL
    BY <2>1, <2>2 DEF TotalizersExtended
  <2> HIDE DEF L, LL
  <2>4. L <= LL
    <3>1. CASE L = 0
      BY <2>2, <3>1
    <3>2. CASE L # 0
      <4>1. L \in 1..L
        BY <2>1, <3>2
      <4> QED
        BY <2>2, <2>3, <4>1
    <3> QED
      BY <3>1, <3>2
  <2> QED
    BY <2>1, <2>2, <2>4
<1>2. /\ Counting(soft, soft_cardinality, P, Counts(P), 1..L)
      /\ \A j \in DOMAIN soft_cardinality :
            Counts(P)[j] = Cardinality({lit \in soft_cardinality[j] : True(P, lit)})
    BY CountsAlways
<1>3. /\ Counting(soft', soft_cardinality', P, Counts(P)', 1..LL)
      /\ \A j \in DOMAIN soft_cardinality' :
            Counts(P)'[j] = Cardinality({lit \in soft_cardinality'[j] : True(P, lit)'})
    BY CountsNext
<1>4. ASSUME NEW j \in 1..L
      PROVE  /\ soft_cardinality'[j] = soft_cardinality[j]
             /\ \A lit \in soft_cardinality[j] :
                   \/ lit[1] = 0 /\ soft'[lit[2]].clause = soft[lit[2]].clause
                   \/ lit[1] # 0 /\ lit[1] \in 1..(j - 1)
  <2>1. soft_cardinality'[j] = soft_cardinality[j]
    BY <1>1 DEF TotalizersExtended
  <2>2. ASSUME NEW lit \in soft_cardinality[j]
        PROVE  \/ lit[1] = 0 /\ lit[2] \in DOMAIN soft
               \/ lit[1] # 0 /\ lit[1] \in 1..(j - 1)
    <3>1. lit \in LiteralsBelow(j)
      BY <1>1 DEF TotalizersOK
    <3> QED
      BY <1>1, <3>1 DEF LiteralsBelow
  <2>3. \A k \in DOMAIN soft : soft'[k].clause = soft[k].clause
    BY DEF Replaced
  <2> QED
    BY <2>1, <2>2, <2>3
<1>5. \A j \in 1..L : Counts(P)'[j] = Counts(P)[j]
  <2>1. Extends(soft', soft_cardinality', LL, soft, soft_cardinality, L)
    BY <1>1, <1>4 DEF Extends
  <2> HIDE DEF L, LL
  <2> QED
    BY <1>2, <1>3, <2>1, CountsKept
<1>6. ASSUME NEW j \in 1..L, NEW lit \in soft_cardinality[j]
      PROVE  True(P, lit)' <=> True(P, lit)
  <2>1. CASE lit[1] = 0
    <3>1. soft'[lit[2]].clause = soft[lit[2]].clause
      BY <1>4, <2>1
    <3> QED
      BY <2>1, <3>1 DEF True
  <2>2. CASE lit[1] # 0
    <3>1. lit[1] \in 1..L
      BY <1>1, <1>4, <2>2
    <3>2. Counts(P)'[lit[1]] = Counts(P)[lit[1]]
      BY <1>5, <3>1
    <3> QED
      BY <2>2, <3>2 DEF True
  <2> QED
    BY <2>1, <2>2
<1>7. ASSUME NEW lit \in Outputs(K)
      PROVE  Counts(P)'[place[lit]] = Counts(P)[lit[1]]
  <2>1. /\ place[lit] \in DOMAIN soft_cardinality'
        /\ soft_cardinality'[place[lit]] = soft_cardinality[lit[1]]
    BY DEF TotalizersExtended
  <2>2. lit[1] \in 1..L
    BY OutputsType DEF Outputs
  <2>3. {x \in soft_cardinality'[place[lit]] : True(P, x)'}
           = {x \in soft_cardinality[lit[1]] : True(P, x)}
    BY <2>1, <2>2, <1>6
  <2> QED
    BY <1>1, <1>2, <1>3, <2>1, <2>2, <2>3
<1>8. /\ IsFiniteSet(K)
      /\ \E r : Standing(K, w, spot, place, r)
    BY LiteralsReplaced DEF Replaced
<1>14. PICK r : Standing(K, w, spot, place, r)
    BY <1>8
<1>9. /\ r \in Bijection(K, NewLiterals(K, w))
      /\ \A lit \in K :
            \/ lit[1] = 0 /\ lit[2] \in Relaxed(K) /\ r[lit] = <<0, spot[lit[2]]>>
            \/ lit \in Outputs(K) /\ lit[1] # 0 /\ r[lit] = <<place[lit], lit[2]>>
    BY <1>14 DEF Standing
<1>10. ASSUME NEW lit \in K
       PROVE  True(P, r[lit])' <=> True(P, lit)
  <2>1. CASE lit[1] = 0 /\ lit[2] \in Relaxed(K) /\ r[lit] = <<0, spot[lit[2]]>>
    <3>1. soft'[spot[lit[2]]].clause = soft[lit[2]].clause
      BY <2>1 DEF Replaced, Spotted
    <3>2. r[lit][1] = 0 /\ r[lit][2] = spot[lit[2]]
      BY <2>1
    <3> QED
      BY <2>1, <3>1, <3>2 DEF True
  <2>2. CASE lit \in Outputs(K) /\ lit[1] # 0 /\ r[lit] = <<place[lit], lit[2]>>
    <3>1. r[lit][1] = place[lit] /\ r[lit][2] = lit[2] /\ place[lit] # 0
      BY <1>1, <2>2 DEF TotalizersExtended
    <3> QED
      BY <1>7, <2>2, <3>1 DEF True
  <2> QED
    BY <1>9, <2>1, <2>2
<1> DEFINE old == {lit \in K : True(P, lit)}
           new == {x \in NewLiterals(K, w) : True(P, x)'}
           b == [lit \in old |-> r[lit]]
<1>11. b \in Bijection(old, new)
  <2>1. ASSUME NEW lit \in old
        PROVE  b[lit] \in new
    BY <1>9, <1>10 DEF Bijection, Injection
  <2>2. ASSUME NEW l \in old, NEW m \in old, b[l] = b[m]
        PROVE  l = m
    BY <1>9, <2>2 DEF Bijection, Injection, IsInjective
  <2>3. ASSUME NEW x \in new
        PROVE  \E lit \in old : b[lit] = x
    <3>1. PICK lit \in K : r[lit] = x
      BY <1>9 DEF Bijection, Surjection
    <3>2. lit \in old
      BY <1>10, <3>1
    <3> QED
      BY <3>1, <3>2
  <2>4. b \in [old -> new] /\ DOMAIN b = old
    BY <2>1
  <2> HIDE DEF b, old, new
  <2> QED
    BY <2>2, <2>3, <2>4 DEF Bijection, Injection, Surjection, IsInjective
<1>12. IsFiniteSet(old)
  <2>1. old \in SUBSET K
    OBVIOUS
  <2> HIDE DEF old
  <2> QED
    BY <1>8, <2>1, FS_Subset
<1>13. Cardinality(new) = Cardinality(old)
  <2> HIDE DEF b, old, new
  <2> QED
    BY <1>11, <1>12, FS_Bijection DEF ExistsBijection
<1> QED
    BY <1>1, <1>5, <1>7, <1>12, <1>13

-----------------------------------------------------------------------------
\* What is assumed after a core.

\* The outputs that the core leaves without weight.
Gone(K, w) == Outputs(K) \ Copied(K, w)

\* The outputs of the core that have one above them.
Raisable(K) == {lit \in Outputs(K) : lit[2] + 1 < Cardinality(soft_cardinality[lit[1]])}

\* The outputs assumed after a core: those that keep their place, those that are
\* raised and that of the new totalizer, n.
Reassumed(K, w, place, new) ==
    /\ Raised(K, w) = {<<place[lit], lit[2] + 1>> : lit \in Raisable(K)}
    /\ CardinalityAssumptions' = (CardinalityAssumptions \ Gone(K, w)) \cup Raised(K, w) \cup new
    /\ Raised(K, w) \cap CardinalityAssumptions = {}
    /\ new \cap CardinalityAssumptions = {}
    /\ new \cap Raised(K, w) = {}
    /\ \A lit \in (CardinalityAssumptions \ Outputs(K)) :
          cardinalityWeight'[lit] = cardinalityWeight[lit]
    /\ \A lit \in Copied(K, w) : cardinalityWeight'[lit] = cardinalityWeight[lit] - w
    /\ \A lit \in Raised(K, w) \cup new : cardinalityWeight'[lit] = w

\* What is assumed after a core is right again.
LEMMA AssumedRelaxed ==
    ASSUME SoftOK, TotalizersOK, AssumedOK, NEW K, NEW w, Relaxable(K, w),
           Cardinality(Copied(K, w)) \in Nat,
           NEW spot, NEW place, Replaced(K, w, spot, place),
           TotalizersCopied(K, w, place), TotalizersOK', TotalizersExtended(K, w, place),
           NEW new,
           new \subseteq {<<Len(soft_cardinality) + Cardinality(Copied(K, w)) + 1, 1>>},
           \A x \in new : x[1] \in DOMAIN soft_cardinality',
           Reweigh(K, w, new)
    PROVE  AssumedOK' /\ Reassumed(K, w, place, new)
<1> DEFINE A == CardinalityAssumptions
           L == Len(soft_cardinality)
           n == L + Cardinality(Copied(K, w)) + 1
<1>1. /\ K \in SUBSET Open /\ w \in Nat \ {0}
      /\ K \ SoftIn(K) = Outputs(K)
      /\ Outputs(K) \in SUBSET A
      /\ \A lit \in Outputs(K) : cardinalityWeight[lit] >= w
      /\ \A lit \in A : lit \in K <=> lit \in Outputs(K)
  <2>1. K \in SUBSET Open /\ w \in Nat \ {0} /\ \A lit \in K : WeightOf(lit) >= w
    BY DEF Relaxable
  <2> QED
    BY <2>1, CoreLiterals DEF Outputs
<1>2. /\ DOMAIN soft_cardinality = 1..L /\ L \in Nat
      /\ \A lit \in A : /\ lit = <<lit[1], lit[2]>>
                        /\ lit[1] \in 1..L /\ lit[1] \in DOMAIN soft_cardinality
                        /\ lit[2] \in Nat
                        /\ cardinalityWeight[lit] \in Nat \ {0}
      /\ \A l, m \in A : l[1] = m[1] => l = m
    BY OutputsType DEF AssumedOK
<1>3. /\ \A lit \in Outputs(K) : place[lit] \in 1..(n - 1)
      /\ \A l, m \in Outputs(K) : place[l] = place[m] => l = m
      /\ \A lit \in Gone(K, w) : place[lit] = lit[1]
      /\ \A lit \in Copied(K, w) : place[lit] > L
      /\ n \in Nat
      /\ n > L
  <2>1. n - 1 = L + Cardinality(Copied(K, w)) /\ n \in Nat /\ n > L
    BY <1>2
  <2> HIDE DEF n
  <2> QED
    BY <2>1 DEF Replaced, Placed, Gone
<1>4. Raised(K, w) = {<<place[lit], lit[2] + 1>> : lit \in Raisable(K)}
  <2>1. cardinality_relax(K, w) = {<<place[lit], lit[2]>> : lit \in Outputs(K)}
    BY DEF Replaced, Placed
  <2>2. \A lit \in Outputs(K) : WithCopies(K, w)[place[lit]] = soft_cardinality[lit[1]]
    BY DEF TotalizersCopied
  <2>3. ASSUME NEW x \in Raised(K, w)
        PROVE  \E lit \in Raisable(K) : x = <<place[lit], lit[2] + 1>>
    <3>1. PICK l \in cardinality_relax(K, w) :
             /\ l[2] + 1 < Cardinality(WithCopies(K, w)[l[1]])
             /\ x = <<l[1], l[2] + 1>>
      BY DEF Raised
    <3>2. PICK lit \in Outputs(K) : l = <<place[lit], lit[2]>>
      BY <2>1, <3>1
    <3>3. lit \in Raisable(K)
      BY <2>2, <3>1, <3>2 DEF Raisable
    <3> QED
      BY <3>1, <3>2, <3>3
  <2>4. ASSUME NEW lit \in Raisable(K)
        PROVE  <<place[lit], lit[2] + 1>> \in Raised(K, w)
    <3> DEFINE l == <<place[lit], lit[2]>>
    <3>1. lit \in Outputs(K) /\ lit[2] + 1 < Cardinality(soft_cardinality[lit[1]])
      BY DEF Raisable
    <3>2. l \in cardinality_relax(K, w) /\ l[1] = place[lit] /\ l[2] = lit[2]
      BY <2>1, <3>1
    <3>3. l[2] + 1 < Cardinality(WithCopies(K, w)[l[1]])
      BY <2>2, <3>1, <3>2
    <3>4. <<l[1], l[2] + 1>> \in Raised(K, w)
      <4> HIDE DEF l
      <4> QED
        BY <3>2, <3>3 DEF Raised
    <3> QED
      BY <3>2, <3>4
  <2> QED
    BY <2>3, <2>4
<1>5. ASSUME NEW x \in Raised(K, w)
      PROVE  /\ x[1] \in 1..(n - 1) /\ x[2] \in Nat
             /\ x[1] \in DOMAIN soft_cardinality'
             /\ x = <<x[1], x[2]>>
             /\ x \notin A
             /\ \A a \in A \ Gone(K, w) : a[1] # x[1]
             /\ \A y \in Raised(K, w) : y[1] = x[1] => y = x
  <2>1. PICK lit \in Raisable(K) : x = <<place[lit], lit[2] + 1>>
    BY <1>4
  <2>2. lit \in Outputs(K) /\ lit \in A /\ lit[2] \in Nat
    BY <1>1, <1>2 DEF Raisable
  <2>3. x[1] = place[lit] /\ x[2] = lit[2] + 1
    BY <2>1
  <2>4. x[1] \in 1..(n - 1) /\ x[2] \in Nat /\ x = <<x[1], x[2]>>
    BY <1>3, <2>1, <2>2, <2>3
  <2>5. x[1] \in DOMAIN soft_cardinality'
    BY <2>2, <2>3 DEF TotalizersExtended
  <2>6. ASSUME NEW a \in A, a[1] = x[1]
        PROVE  a = lit /\ lit \in Gone(K, w)
    <3>1. lit \notin Copied(K, w)
      <4>1. a[1] \in 1..L
        BY <1>2
      <4> QED
        BY <1>2, <1>3, <2>3, <2>6, <4>1
    <3>2. lit \in Gone(K, w)
      BY <2>2, <3>1 DEF Gone
    <3>3. a[1] = lit[1]
      BY <1>3, <2>3, <2>6, <3>2
    <3> QED
      BY <1>2, <2>2, <3>2, <3>3
  <2>7. x \notin A
    <3>1. SUFFICES ASSUME x \in A
                   PROVE  FALSE
      OBVIOUS
    <3>2. x = lit
      BY <2>6, <3>1
    <3>3. lit[2] + 1 = lit[2]
      BY <2>3, <3>2
    <3> QED
      BY <2>2, <3>3
  <2>8. ASSUME NEW y \in Raised(K, w), y[1] = x[1]
        PROVE  y = x
    <3>1. PICK m \in Raisable(K) : y = <<place[m], m[2] + 1>>
      BY <1>4
    <3>2. m \in Outputs(K) /\ place[m] = place[lit]
      BY <2>3, <2>8, <3>1 DEF Raisable
    <3>3. m = lit
      BY <1>3, <2>2, <3>2
    <3> QED
      BY <2>1, <3>1, <3>3
  <2> QED
    BY <2>4, <2>5, <2>6, <2>7, <2>8
<1>6. ASSUME NEW x \in new
      PROVE  x = <<n, 1>> /\ x[1] = n /\ x[2] = 1 /\ x \notin A /\ x \notin Raised(K, w)
  <2>1. x = <<n, 1>> /\ x[1] = n /\ x[2] = 1
    OBVIOUS
  <2>2. n \notin 1..L /\ n \notin 1..(n - 1)
    BY <1>2, <1>3
  <2> HIDE DEF n
  <2> QED
    BY <1>2, <1>5, <2>1, <2>2
<1>7. {lit \in K \ SoftIn(K) : cardinalityWeight[lit] = w} = Gone(K, w)
    BY <1>1, <1>2 DEF Gone, Copied
<1>8. cardinalityWeight' =
          [lit \in (A \ Gone(K, w)) \cup Raised(K, w) \cup new |->
              IF lit \in K THEN cardinalityWeight[lit] - w
              ELSE IF lit \in A THEN cardinalityWeight[lit]
              ELSE w]
    BY <1>7 DEF Reweigh
<1>9. A' = (A \ Gone(K, w)) \cup Raised(K, w) \cup new
    BY <1>8 DEF CardinalityAssumptions
<1> HIDE DEF n, L
<1>10. ASSUME NEW x \in Raised(K, w) \cup new
       PROVE  x \notin K
  <2>1. x \notin A /\ x[1] # 0
    BY <1>3, <1>5, <1>6
  <2> QED
    BY <1>1, <2>1 DEF Open
<1>11. \A lit \in A \ Outputs(K) : cardinalityWeight'[lit] = cardinalityWeight[lit]
    BY <1>1, <1>8 DEF Gone
<1>12. \A lit \in Copied(K, w) : /\ cardinalityWeight'[lit] = cardinalityWeight[lit] - w
                                 /\ cardinalityWeight[lit] > w
                                 /\ lit \in Outputs(K)
    BY <1>1, <1>8 DEF Gone, Copied
<1>13. \A lit \in Raised(K, w) \cup new : cardinalityWeight'[lit] = w
    BY <1>5, <1>6, <1>8, <1>10
<1>14. Reassumed(K, w, place, new)
  <2>1. Raised(K, w) \cap A = {} /\ new \cap A = {} /\ new \cap Raised(K, w) = {}
    BY <1>5, <1>6
  <2> QED
    BY <1>4, <1>9, <1>11, <1>12, <1>13, <2>1 DEF Reassumed
<1>15. ASSUME NEW lit \in A'
       PROVE  /\ cardinalityWeight'[lit] \in Nat \ {0}
              /\ lit \in (DOMAIN soft_cardinality') \X Nat
  <2>1. CASE lit \in A \ Gone(K, w)
    <3>1. cardinalityWeight'[lit] \in Nat \ {0}
      <4>1. CASE lit \in Copied(K, w)
        BY <1>1, <1>2, <1>12, <4>1
      <4>2. CASE lit \notin Outputs(K)
        BY <1>2, <1>11, <2>1, <4>2
      <4> QED
        BY <2>1, <4>1, <4>2 DEF Gone
    <3>2. lit[1] \in DOMAIN soft_cardinality' /\ lit[2] \in Nat /\ lit = <<lit[1], lit[2]>>
      BY <1>2, <2>1 DEF TotalizersExtended
    <3> QED
      BY <3>1, <3>2
  <2>2. CASE lit \in Raised(K, w)
    BY <1>1, <1>5, <1>13, <2>2
  <2>3. CASE lit \in new
    BY <1>1, <1>6, <1>13, <2>3
  <2> QED
    BY <1>9, <2>1, <2>2, <2>3
<1>16. ASSUME NEW l \in A', NEW m \in A', l[1] = m[1]
       PROVE  l = m
  <2>1. \A a \in A : a[1] # n
    BY <1>2, <1>3
  <2>2. \A a \in Raised(K, w) : a[1] # n
    BY <1>3, <1>5
  <2>3. CASE l \in A \ Gone(K, w)
    BY <1>2, <1>5, <1>6, <1>9, <1>16, <2>1, <2>3
  <2>4. CASE l \in Raised(K, w)
    BY <1>5, <1>6, <1>9, <1>16, <2>2, <2>4
  <2>5. CASE l \in new
    BY <1>5, <1>6, <1>9, <1>16, <2>1, <2>2, <2>5
  <2> QED
    BY <1>9, <2>3, <2>4, <2>5
<1>17. cardinalityWeight' \in [A' -> Nat \ {0}]
    BY <1>8, <1>9, <1>15
<1>18. AssumedOK'
    BY <1>15, <1>16, <1>17 DEF AssumedOK
<1> QED
    BY <1>14, <1>18

-----------------------------------------------------------------------------
\* What is left to pay.

\* What an output assumed has beyond its bound.
LEMMA OutputsBeyond ==
    TotalizersOK /\ AssumedOK => \A P : \A lit \in CardinalityAssumptions :
        /\ Counts(P)[lit[1]] \in Nat
        /\ Counts(P)[lit[1]] <= Cardinality(soft_cardinality[lit[1]])
        /\ True(P, lit) <=> Counts(P)[lit[1]] > lit[2]
        /\ Beyond(P, lit) = IF Counts(P)[lit[1]] > lit[2]
                            THEN Counts(P)[lit[1]] - lit[2] ELSE 0
        /\ Beyond(P, lit) \in Nat
<1> SUFFICES ASSUME TotalizersOK, AssumedOK, NEW P, NEW lit \in CardinalityAssumptions
             PROVE  /\ Counts(P)[lit[1]] \in Nat
                    /\ Counts(P)[lit[1]] <= Cardinality(soft_cardinality[lit[1]])
                    /\ True(P, lit) <=> Counts(P)[lit[1]] > lit[2]
                    /\ Beyond(P, lit) = IF Counts(P)[lit[1]] > lit[2]
                                        THEN Counts(P)[lit[1]] - lit[2] ELSE 0
                    /\ Beyond(P, lit) \in Nat
  OBVIOUS
<1>1. lit[1] \in DOMAIN soft_cardinality /\ lit[1] # 0 /\ lit[2] \in Nat
  BY OutputsType
<1>2. /\ Counts(P)[lit[1]] \in Nat
      /\ Counts(P)[lit[1]] <= Cardinality(soft_cardinality[lit[1]])
  BY <1>1, TotalizerCounts
<1>3. True(P, lit) <=> Counts(P)[lit[1]] > lit[2]
  BY <1>1 DEF True
<1>4. Beyond(P, lit) = IF Counts(P)[lit[1]] > lit[2]
                       THEN Counts(P)[lit[1]] - lit[2] ELSE 0
  <2> DEFINE n == Counts(P)[lit[1]] - lit[2]
  <2>1. n \in Int /\ (n > 0 <=> Counts(P)[lit[1]] > lit[2])
    BY <1>1, <1>2
  <2>2. Beyond(P, lit) = Max({0, n})
    BY DEF Beyond
  <2> HIDE DEF n
  <2>3. Beyond(P, lit) = IF n > 0 THEN n ELSE 0
    BY <2>1, <2>2, AboveZero
  <2> QED
    BY <2>1, <2>3 DEF n
<1> QED
  BY <1>1, <1>2, <1>3, <1>4

\* The same of the next state.
LEMMA OutputsBeyondNext ==
    TotalizersOK' /\ AssumedOK' => (\A P : \A lit \in CardinalityAssumptions :
        /\ Counts(P)[lit[1]] \in Nat
        /\ Counts(P)[lit[1]] <= Cardinality(soft_cardinality[lit[1]])
        /\ True(P, lit) <=> Counts(P)[lit[1]] > lit[2]
        /\ Beyond(P, lit) = IF Counts(P)[lit[1]] > lit[2]
                            THEN Counts(P)[lit[1]] - lit[2] ELSE 0
        /\ Beyond(P, lit) \in Nat)'
  BY OutputsBeyond, PTL

\* What a model pays for the outputs assumed.
Pays(P) == [lit \in CardinalityAssumptions |-> cardinalityWeight[lit] * Beyond(P, lit)]

\* What a model has to pay for totalizers is the sum over what is assumed.
LEMMA PaysWeighing ==
    TotalizersOK /\ AssumedOK => \A P :
        /\ CardinalityLeft(P) = SumOver(Pays(P), CardinalityAssumptions)
        /\ Weighing(Pays(P), CardinalityAssumptions)
        /\ CardinalityLeft(P) \in Nat
<1> SUFFICES ASSUME TotalizersOK, AssumedOK, NEW P
             PROVE  /\ CardinalityLeft(P) = SumOver(Pays(P), CardinalityAssumptions)
                    /\ Weighing(Pays(P), CardinalityAssumptions)
                    /\ CardinalityLeft(P) \in Nat
  OBVIOUS
<1>1. CardinalityLeft(P) = SumOver(Pays(P), CardinalityAssumptions)
  BY DEF CardinalityLeft, Pays
<1>2. ASSUME NEW lit \in CardinalityAssumptions
      PROVE  Pays(P)[lit] \in Nat
  <2>1. cardinalityWeight[lit] \in Nat /\ Beyond(P, lit) \in Nat
    BY OutputsType, OutputsBeyond
  <2>2. \A m, n \in Nat : m * n \in Nat
    OBVIOUS
  <2> QED
    BY <2>1, <2>2 DEF Pays
<1>3. Weighing(Pays(P), CardinalityAssumptions)
  BY <1>2, OutputsType DEF Weighing
<1> QED
  BY <1>1, <1>3, SumType

\* The same of the next state.
LEMMA PaysWeighingNext ==
    TotalizersOK' /\ AssumedOK' => (\A P :
        /\ CardinalityLeft(P) = SumOver(Pays(P), CardinalityAssumptions)
        /\ Weighing(Pays(P), CardinalityAssumptions)
        /\ CardinalityLeft(P) \in Nat)'
  BY PaysWeighing, PTL

\* One true literal more costs w more.
LEMMA OneMore ==
    ASSUME NEW w \in Nat, NEW c \in Nat, NEW b \in Nat, NEW u, NEW v,
           u = (IF c > b THEN c - b ELSE 0),
           v = (IF c > b + 1 THEN c - (b + 1) ELSE 0)
    PROVE  /\ w * u = w * v + (IF c > b THEN w ELSE 0)
           /\ w * v \in Nat /\ w * u \in Nat
<1>1. u = v + (IF c > b THEN 1 ELSE 0) /\ v \in Nat
  OBVIOUS
<1>2. w * (v + 1) = w * v + w /\ w * v \in Nat /\ w * (v + 1) \in Nat /\ w * (v + 0) = w * v + 0
  BY <1>1
<1> QED
  BY <1>1, <1>2

\* Taking w from the outputs of a core.
LEMMA LessToPay ==
    ASSUME NEW a \in Nat, NEW w \in Nat, NEW n \in Nat, w <= a
    PROVE  /\ a * n = (a - w) * n + w * n
           /\ a * n \in Nat /\ (a - w) * n \in Nat /\ w * n \in Nat
<1>1. PICK r \in Nat : a = r + w
  <2>1. a - w \in Nat /\ a = (a - w) + w
    OBVIOUS
  <2> QED
    BY <2>1
<1>2. a - w = r
  BY <1>1
<1>3. (r + w) * n = r * n + w * n /\ r * n \in Nat /\ w * n \in Nat /\ (r + w) * n \in Nat
  OBVIOUS
<1> QED
  BY <1>1, <1>2, <1>3

\* The totalizers count what they counted, and the copies what was copied.
Steady(K, P, place) ==
    /\ \A j \in DOMAIN soft_cardinality : Counts(P)'[j] = Counts(P)[j]
    /\ \A lit \in Outputs(K) : Counts(P)'[place[lit]] = Counts(P)[lit[1]]

\* What the outputs of a core pay for the weight of the core, and what of it
\* the outputs above them pay.
PaysInCore(K, w, P) == [lit \in Outputs(K) |-> w * Beyond(P, lit)]

PaysAbove(K, w, P) ==
    [lit \in Outputs(K) |-> w * (IF Counts(P)[lit[1]] > lit[2] + 1
                                 THEN Counts(P)[lit[1]] - (lit[2] + 1) ELSE 0)]

TrueOutputs(K, P) == {lit \in Outputs(K) : True(P, lit)}

\* An output of the core and the output above it.
LEMMA CorePays ==
    ASSUME SoftOK, TotalizersOK, AssumedOK, NEW K, NEW w, Relaxable(K, w), NEW P
    PROVE  /\ IsFiniteSet(Outputs(K)) /\ Outputs(K) \in SUBSET CardinalityAssumptions
           /\ Weighing(PaysInCore(K, w, P), Outputs(K))
           /\ Weighing(PaysAbove(K, w, P), Outputs(K))
           /\ \A lit \in Outputs(K) :
                 PaysInCore(K, w, P)[lit] = PaysAbove(K, w, P)[lit]
                                            + (IF True(P, lit) THEN w ELSE 0)
<1>1. IsFiniteSet(Outputs(K)) /\ Outputs(K) \in SUBSET CardinalityAssumptions
  <2>1. Outputs(K) \in SUBSET CardinalityAssumptions
    BY DEF Outputs
  <2> QED
    BY <2>1, OutputsType, FS_Subset
<1>2. ASSUME NEW lit \in Outputs(K)
      PROVE  /\ PaysInCore(K, w, P)[lit] \in Nat
             /\ PaysAbove(K, w, P)[lit] \in Nat
             /\ PaysInCore(K, w, P)[lit] = PaysAbove(K, w, P)[lit]
                                           + (IF True(P, lit) THEN w ELSE 0)
  <2> DEFINE c == Counts(P)[lit[1]]
             b == lit[2]
             y == Beyond(P, lit)
             z == IF c > b + 1 THEN c - (b + 1) ELSE 0
  <2>1. lit \in CardinalityAssumptions
    BY <1>1
  <2>2. c \in Nat /\ b \in Nat /\ y = (IF c > b THEN c - b ELSE 0) /\ (True(P, lit) <=> c > b)
    BY <2>1, OutputsBeyond, OutputsType
  <2>3. w \in Nat
    BY DEF Relaxable
  <2>4. PaysInCore(K, w, P)[lit] = w * y /\ PaysAbove(K, w, P)[lit] = w * z
    BY DEF PaysInCore, PaysAbove
  <2>5. z = (IF c > b + 1 THEN c - (b + 1) ELSE 0)
    OBVIOUS
  <2> HIDE DEF c, b, y, z
  <2> QED
    BY <2>2, <2>3, <2>4, <2>5, OneMore
<1> QED
  BY <1>1, <1>2 DEF Weighing

\* What the core pays for is what the outputs above pay for, and w for each
\* of its outputs that is true.
LEMMA CorePaysAbove ==
    ASSUME SoftOK, TotalizersOK, AssumedOK, NEW K, NEW w, Relaxable(K, w), NEW P
    PROVE  /\ SumOver(PaysInCore(K, w, P), Outputs(K))
                 = SumOver(PaysAbove(K, w, P), Raisable(K)) + Cardinality(TrueOutputs(K, P)) * w
           /\ Weighing(PaysAbove(K, w, P), Raisable(K))
           /\ IsFiniteSet(TrueOutputs(K, P))
<1> DEFINE O == Outputs(K)
           e == PaysAbove(K, w, P)
           T == TrueOutputs(K, P)
           R == Raisable(K)
           g == [lit \in O |-> IF True(P, lit) THEN w ELSE 0]
<1>1. /\ IsFiniteSet(O) /\ O \in SUBSET CardinalityAssumptions
      /\ Weighing(PaysInCore(K, w, P), O) /\ Weighing(e, O)
      /\ \A lit \in O : PaysInCore(K, w, P)[lit] = e[lit] + (IF True(P, lit) THEN w ELSE 0)
  BY CorePays
<1>2. w \in Nat
  BY DEF Relaxable
<1>3. T \in SUBSET O /\ R \in SUBSET O
  BY DEF TrueOutputs, Raisable
<1>4. /\ \A lit \in T : g[lit] = w
      /\ \A lit \in O \ T : g[lit] = 0
      /\ \A lit \in O : g[lit] \in Nat
      /\ \A lit \in O : PaysInCore(K, w, P)[lit] = e[lit] + g[lit]
  BY <1>1, <1>2 DEF TrueOutputs
<1>5. ASSUME NEW lit \in O \ R
      PROVE  e[lit] = 0
  <2>1. lit \in CardinalityAssumptions
    BY <1>1
  <2>2. /\ Counts(P)[lit[1]] \in Nat /\ lit[2] \in Nat
        /\ Counts(P)[lit[1]] <= Cardinality(soft_cardinality[lit[1]])
    BY <2>1, OutputsBeyond, OutputsType
  <2>3. IsFiniteSet(soft_cardinality[lit[1]])
    BY <2>1, OutputsType DEF TotalizersOK
  <2>4. Cardinality(soft_cardinality[lit[1]]) \in Nat
    BY <2>3, FS_CardinalityType
  <2>5. ~(lit[2] + 1 < Cardinality(soft_cardinality[lit[1]]))
    BY DEF Raisable
  <2>6. ~(Counts(P)[lit[1]] > lit[2] + 1)
    BY <2>2, <2>4, <2>5
  <2>7. e[lit] = w * 0
    BY <2>6 DEF PaysAbove
  <2> QED
    BY <1>2, <2>7
<1> HIDE DEF O, e, T, R, g
<1>6. Weighing(g, O) /\ Weighing(g, T) /\ Weighing(g, O \ T) /\ Weighing(e, R) /\ Weighing(e, O \ R)
  <2>1. Weighing(g, O)
    BY <1>1, <1>4 DEF Weighing
  <2> QED
    BY <1>1, <1>3, <2>1, WeighingParts
<1>7. SumOver(PaysInCore(K, w, P), O) = SumOver(e, O) + SumOver(g, O)
  BY <1>1, <1>4, <1>6, SumPlus
<1>8. SumOver(g, O) = Cardinality(T) * w
  <2>1. T \cup (O \ T) = O /\ T \cap (O \ T) = {}
    BY <1>3
  <2>2. SumOver(g, T \cup (O \ T)) = SumOver(g, T) + SumOver(g, O \ T)
    BY <1>6, <2>1, SumApart
  <2>3. SumOver(g, T) = Cardinality(T) * w
    BY <1>2, <1>4, <1>6, SumConstant DEF Weighing
  <2>4. SumOver(g, O \ T) = 0
    BY <1>4, <1>6, SumOfZeros DEF Weighing
  <2>5. SumOver(g, T) \in Nat
    BY <1>6, SumType
  <2>6. SumOver(g, O) = SumOver(g, T)
    BY <2>1, <2>2, <2>4, <2>5
  <2> QED
    BY <2>3, <2>6
<1>9. SumOver(e, O) = SumOver(e, R)
  <2>1. R \cup (O \ R) = O /\ R \cap (O \ R) = {}
    BY <1>3
  <2>2. SumOver(e, R \cup (O \ R)) = SumOver(e, R) + SumOver(e, O \ R)
    BY <1>1, <2>1, SumApart
  <2>3. SumOver(e, O \ R) = 0
    BY <1>5, <1>6, SumOfZeros DEF Weighing
  <2>4. SumOver(e, R) \in Nat
    BY <1>6, SumType
  <2> QED
    BY <2>1, <2>2, <2>3, <2>4
<1> QED
  BY <1>6, <1>7, <1>8, <1>9 DEF O, e, T, R, Weighing

\* What is left to pay after a core: the outputs above take the place of the
\* outputs of the core.
LEMMA OutputsLeave ==
    ASSUME SoftOK, TotalizersOK, AssumedOK, NEW K, NEW w, Relaxable(K, w),
           TotalizersOK', AssumedOK', NEW place, Placed(K, w, place),
           NEW new, Reassumed(K, w, place, new), NEW P, Steady(K, P, place)
    PROVE  /\ CardinalityLeft(P) + SumOver(Pays(P)', new)
                 = CardinalityLeft(P)' + Cardinality(TrueOutputs(K, P)) * w
           /\ CardinalityLeft(P) \in Nat /\ CardinalityLeft(P)' \in Nat
           /\ SumOver(Pays(P)', new) \in Nat
           /\ IsFiniteSet(TrueOutputs(K, P))
<1> DEFINE A == CardinalityAssumptions
           O == Outputs(K)
           G == Gone(K, w)
           R == Raisable(K)
           S == Raised(K, w)
           u == Pays(P)
           v == Pays(P)'
           d == PaysInCore(K, w, P)
           e == PaysAbove(K, w, P)
<1>1. w \in Nat /\ w > 0
  BY DEF Relaxable
<1>2. /\ CardinalityLeft(P) = SumOver(u, A) /\ Weighing(u, A) /\ CardinalityLeft(P) \in Nat
  BY PaysWeighing
<1>3. /\ CardinalityLeft(P)' = SumOver(v, A') /\ Weighing(v, A') /\ CardinalityLeft(P)' \in Nat
  BY PaysWeighingNext
<1>4. /\ O \in SUBSET A /\ Weighing(d, O)
      /\ SumOver(d, O) = SumOver(e, R) + Cardinality(TrueOutputs(K, P)) * w
      /\ Weighing(e, R) /\ IsFiniteSet(TrueOutputs(K, P))
  BY CorePays, CorePaysAbove
<1>5. /\ S = {<<place[lit], lit[2] + 1>> : lit \in R}
      /\ A' = (A \ G) \cup S \cup new
      /\ S \cap (A \ G) = {} /\ new \cap ((A \ G) \cup S) = {}
  BY DEF Reassumed
<1>6. ASSUME NEW lit \in A \ G
      PROVE  v[lit] = cardinalityWeight'[lit] * Beyond(P, lit) /\ lit \in A'
  <2>1. lit \in A'
    BY <1>5
  <2>2. v[lit] = cardinalityWeight'[lit] * Beyond(P, lit)'
    BY <2>1 DEF Pays
  <2>3. Counts(P)'[lit[1]] = Counts(P)[lit[1]]
    BY OutputsType DEF Steady
  <2>4. Beyond(P, lit)' = Beyond(P, lit)
    BY <2>3 DEF Beyond
  <2> QED
    BY <2>1, <2>2, <2>4
<1>7. Taken(u, v, d, A, O, G)
  <2>1. G \in SUBSET O
    BY DEF Gone
  <2>2. Weighing(v, A \ G)
    BY <1>3, <1>5, WeighingParts
  <2>3. \A lit \in A \ O : u[lit] = v[lit]
    <3> SUFFICES ASSUME NEW lit \in A \ O
                 PROVE  u[lit] = v[lit]
      OBVIOUS
    <3>1. v[lit] = cardinalityWeight'[lit] * Beyond(P, lit)
      BY <1>6, <2>1
    <3>2. cardinalityWeight'[lit] = cardinalityWeight[lit]
      BY DEF Reassumed
    <3> QED
      BY <3>1, <3>2 DEF Pays
  <2>4. ASSUME NEW lit \in O
        PROVE  /\ u[lit] = cardinalityWeight[lit] * Beyond(P, lit)
               /\ d[lit] = w * Beyond(P, lit)
               /\ Beyond(P, lit) \in Nat
               /\ cardinalityWeight[lit] \in Nat
               /\ w <= cardinalityWeight[lit]
               /\ cardinalityWeight[lit] > w <=> lit \in Copied(K, w)
    <3>1. lit \in A /\ lit \in K
      BY <1>4 DEF Outputs
    <3>2. Beyond(P, lit) \in Nat /\ cardinalityWeight[lit] \in Nat
      BY <3>1, OutputsBeyond, OutputsType
    <3>3. w <= cardinalityWeight[lit]
      <4>1. WeightOf(lit) >= w
        BY <3>1 DEF Relaxable
      <4>2. WeightOf(lit) = cardinalityWeight[lit]
        BY <3>1, OutputsType DEF WeightOf
      <4> QED
        BY <1>1, <3>2, <4>1, <4>2
    <3>4. cardinalityWeight[lit] > w <=> lit \in Copied(K, w)
      BY DEF Copied
    <3> QED
      BY <3>1, <3>2, <3>3, <3>4 DEF Pays, PaysInCore
  <2>5. \A lit \in O \ G : u[lit] = v[lit] + d[lit]
    <3> SUFFICES ASSUME NEW lit \in O \ G
                 PROVE  u[lit] = v[lit] + d[lit]
      OBVIOUS
    <3>1. lit \in Copied(K, w) /\ lit \in A \ G
      BY <1>4 DEF Gone
    <3>2. cardinalityWeight'[lit] = cardinalityWeight[lit] - w
      BY <3>1 DEF Reassumed
    <3>3. v[lit] = (cardinalityWeight[lit] - w) * Beyond(P, lit)
      BY <1>6, <3>1, <3>2
    <3> DEFINE a == cardinalityWeight[lit]
               n == Beyond(P, lit)
    <3>4. /\ a \in Nat /\ n \in Nat /\ w <= a
          /\ u[lit] = a * n /\ d[lit] = w * n /\ v[lit] = (a - w) * n
      BY <2>4, <3>3
    <3> HIDE DEF a, n, u, v, d
    <3> QED
      BY <1>1, <3>4, LessToPay
  <2>6. \A lit \in G : u[lit] = d[lit]
    <3> SUFFICES ASSUME NEW lit \in G
                 PROVE  u[lit] = d[lit]
      OBVIOUS
    <3>1. lit \in O /\ lit \notin Copied(K, w)
      BY DEF Gone
    <3>2. cardinalityWeight[lit] = w
      BY <1>1, <2>4, <3>1
    <3> QED
      BY <2>4, <3>1, <3>2
  <2> HIDE DEF A, O, G, u, v, d
  <2> QED
    BY <1>2, <1>4, <2>1, <2>2, <2>3, <2>5, <2>6 DEF Taken
<1>8. SumOver(v, S) = SumOver(e, R)
  <2> DEFINE f == [lit \in R |-> <<place[lit], lit[2] + 1>>]
  <2>1. R \in SUBSET O
    BY DEF Raisable
  <2>2. ASSUME NEW lit \in R
        PROVE  f[lit] \in S /\ e[lit] = v[f[lit]]
    <3>1. f[lit] = <<place[lit], lit[2] + 1>> /\ f[lit][1] = place[lit] /\ f[lit][2] = lit[2] + 1
      OBVIOUS
    <3>2. f[lit] \in S /\ f[lit] \in A'
      BY <1>5, <3>1
    <3>3. cardinalityWeight'[f[lit]] = w
      BY <3>2 DEF Reassumed
    <3>4. Counts(P)'[f[lit][1]] = Counts(P)[lit[1]]
      BY <2>1, <3>1 DEF Steady
    <3>5. v[f[lit]] = cardinalityWeight'[f[lit]] * (IF Counts(P)'[f[lit][1]] > f[lit][2]
                        THEN Counts(P)'[f[lit][1]] - f[lit][2] ELSE 0)
      <4>1. \A x \in A' : Beyond(P, x)' = IF Counts(P)'[x[1]] > x[2]
                                          THEN Counts(P)'[x[1]] - x[2] ELSE 0
        BY OutputsBeyondNext
      <4>2. \A x \in A' : v[x] = cardinalityWeight'[x] * Beyond(P, x)'
        BY DEF Pays
      <4> HIDE DEF v, f
      <4> QED
        BY <3>2, <4>1, <4>2
    <3>6. lit \in O
      BY <2>1
    <3>7. e[lit] = w * (IF Counts(P)[lit[1]] > lit[2] + 1
                        THEN Counts(P)[lit[1]] - (lit[2] + 1) ELSE 0)
      BY <3>6 DEF PaysAbove
    <3> HIDE DEF e, v, f
    <3> QED
      BY <3>1, <3>2, <3>3, <3>4, <3>5, <3>7
  <2>3. ASSUME NEW l \in R, NEW m \in R, f[l] = f[m]
        PROVE  l = m
    <3>1. place[l] = place[m]
      BY <2>3
    <3> QED
      BY <2>1, <3>1 DEF Placed
  <2>4. ASSUME NEW x \in S
        PROVE  \E lit \in R : f[lit] = x
    BY <1>5
  <2>5. f \in [R -> S] /\ DOMAIN f = R
    BY <2>2
  <2>6. f \in Bijection(R, S)
    <3> HIDE DEF f, R, S
    <3> QED
      BY <2>3, <2>4, <2>5 DEF Bijection, Injection, Surjection, IsInjective
  <2> HIDE DEF f, R, S, e, v
  <2> QED
    BY <1>4, <2>2, <2>6, SumMoved
<1> HIDE DEF A, O, G, R, S, u, v, d, e
<1>9. SumOver(v, A') = SumOver(v, A \ G) + SumOver(v, S) + SumOver(v, new)
  <2>1. Weighing(v, (A \ G) \cup S)
    BY <1>3, <1>5, WeighingParts
  <2>2. SumOver(v, (A \ G) \cup S) = SumOver(v, A \ G) + SumOver(v, S)
    BY <1>5, <2>1, SumApart
  <2>3. A' = ((A \ G) \cup S) \cup new /\ ((A \ G) \cup S) \cap new = {}
    BY <1>5
  <2>4. SumOver(v, ((A \ G) \cup S) \cup new) = SumOver(v, (A \ G) \cup S) + SumOver(v, new)
    BY <1>3, <2>3, SumApart
  <2> QED
    BY <2>2, <2>3, <2>4
<1>10. SumOver(v, A \ G) \in Nat /\ SumOver(v, S) \in Nat /\ SumOver(v, new) \in Nat
  <2>1. Weighing(v, A \ G) /\ Weighing(v, S) /\ Weighing(v, new)
    BY <1>3, <1>5, WeighingParts
  <2> QED
    BY <2>1, SumType
<1>11. SumOver(u, A) = SumOver(v, A \ G) + SumOver(d, O)
  BY <1>7, SumTaken
<1> DEFINE tw == Cardinality(TrueOutputs(K, P)) * w
<1>12. tw \in Nat
  <2>1. Cardinality(TrueOutputs(K, P)) \in Nat
    BY <1>4, FS_CardinalityType
  <2>2. \A m, n \in Nat : m * n \in Nat
    OBVIOUS
  <2> QED
    BY <1>1, <2>1, <2>2
<1>13. SumOver(d, O) = SumOver(e, R) + tw
  BY <1>4
<1> HIDE DEF tw
<1>14. CardinalityLeft(P) + SumOver(v, new) = CardinalityLeft(P)' + tw
  BY <1>2, <1>3, <1>8, <1>9, <1>10, <1>11, <1>12, <1>13
<1> QED
  BY <1>2, <1>3, <1>4, <1>10, <1>14 DEF tw, v

-----------------------------------------------------------------------------
\* A core that was relaxed.

\* What is left of SoftOK after a split.
LEMMA SoftKept ==
    ASSUME SoftOK, UNCHANGED inputWeight, NEW K, NEW w \in Nat,
           Relaxed(K) \in SUBSET ((DOMAIN soft) \ activeSoft),
           IsFiniteSet(Split(K, w)),
           NEW copies \in Bijection(1..Cardinality(Split(K, w)), Split(K, w)),
           SoftSplit(K, w, copies)
    PROVE  SoftOK'
<1> DEFINE n == Cardinality(Split(K, w))
           L == Len(soft)
<1>1. /\ soft' \in Seq(SoftClauses)
      /\ DOMAIN soft' = 1..(L + n)
      /\ \A k \in DOMAIN soft : soft'[k].weight = IF k \in Split(K, w) THEN soft[k].weight - w
                                                  ELSE soft[k].weight
      /\ activeSoft' = activeSoft \cup (Relaxed(K) \ Split(K, w)) \cup {L + i : i \in 1..n}
  BY DEF SoftSplit
<1>2. n \in Nat /\ L \in Nat /\ DOMAIN soft = 1..L
  BY FS_CardinalityType DEF SoftOK
<1>3. /\ activeSoft \in SUBSET (DOMAIN soft)
      /\ \A k \in (DOMAIN soft) \ activeSoft : k \in Soft /\ soft[k].weight > 0
      /\ \A k \in DOMAIN soft : soft[k].weight \in Nat
  BY SoftType DEF SoftOK
<1>4. \A P \in SUBSET Soft : CostModel(P)' = CostModel(P)
  BY SplitKeepsCost
<1>5. \A P \in SUBSET Soft : CostModel(P)' = InputCost(P)'
  BY <1>4 DEF SoftOK, InputCost
<1>6. \A k \in Split(K, w) : soft[k].weight > w
  BY DEF Split
<1>7. \A k \in Relaxed(K) : k \in DOMAIN soft
  BY DEF Relaxed
<1> HIDE DEF n, L
<1>8. activeSoft' \in SUBSET (DOMAIN soft')
  BY <1>1, <1>2, <1>3, <1>7
<1>9. ASSUME NEW k \in (DOMAIN soft') \ activeSoft'
      PROVE  k \in Soft /\ soft'[k].weight > 0
  <2>1. k \in (DOMAIN soft) \ activeSoft
    <3>1. k \in 1..(L + n) /\ k \notin {L + i : i \in 1..n} /\ k \notin activeSoft
      BY <1>1, <1>9
    <3>2. k \in 1..L
      <4>1. CASE k > L
        <5>1. k - L \in 1..n /\ k = L + (k - L)
          BY <1>2, <3>1, <4>1
        <5> QED
          BY <3>1, <5>1
      <4> QED
        BY <1>2, <3>1, <4>1
    <3> QED
      BY <1>2, <3>1, <3>2
  <2>2. soft[k].weight > 0 /\ soft[k].weight \in Nat /\ k \in Soft
    BY <1>3, <2>1
  <2>3. CASE k \in Split(K, w)
    BY <1>1, <1>6, <2>1, <2>2, <2>3
  <2>4. CASE k \notin Split(K, w)
    BY <1>1, <2>1, <2>2, <2>4
  <2> QED
    BY <2>2, <2>3, <2>4
<1>10. soft' \in Seq(SoftClauses)'
  BY <1>1 DEF SoftClauses
<1>11. Soft \in SUBSET (DOMAIN soft')
  <2>1. Soft \in SUBSET (1..L)
    BY <1>2 DEF SoftOK
  <2> QED
    BY <1>1, <1>2, <2>1
<1> QED
  BY <1>5, <1>8, <1>9, <1>10, <1>11 DEF SoftOK

\* The true literals of a core.
LEMMA TrueLiterals ==
    ASSUME SoftOK, TotalizersOK, AssumedOK, NEW K, NEW w, Relaxable(K, w), NEW P,
           IsFiniteSet({lit \in K : True(P, lit)})
    PROVE  Cardinality({lit \in K : True(P, lit)})
              = Cardinality(Relaxed(K) \cap Falsified(P)) + Cardinality(TrueOutputs(K, P))
<1> DEFINE T == {lit \in K : True(P, lit)}
           X == Relaxed(K) \cap Falsified(P)
           S == {<<0, k>> : k \in X}
           O == TrueOutputs(K, P)
           f == [k \in X |-> <<0, k>>]
<1>1. /\ SoftIn(K) = {<<0, k>> : k \in Relaxed(K)}
      /\ K \ SoftIn(K) = Outputs(K)
      /\ Relaxed(K) \in SUBSET ((DOMAIN soft) \ activeSoft)
      /\ IsFiniteSet(Relaxed(K))
  BY CoreLiterals DEF Relaxable, Outputs
<1>2. \A k \in Relaxed(K) : True(P, <<0, k>>) <=> k \in Falsified(P)
  BY <1>1 DEF True, Falsified
<1>3. T = S \cup O /\ S \cap O = {}
  <2>1. SoftIn(K) \in SUBSET K
    BY DEF SoftIn
  <2>2. T = {lit \in SoftIn(K) : True(P, lit)} \cup {lit \in K \ SoftIn(K) : True(P, lit)}
    BY <2>1
  <2>3. {lit \in SoftIn(K) : True(P, lit)} = S
    BY <1>1, <1>2
  <2>4. {lit \in K \ SoftIn(K) : True(P, lit)} = O
    BY <1>1 DEF TrueOutputs
  <2>5. S \cap (K \ SoftIn(K)) = {}
    BY <1>1
  <2> QED
    BY <1>1, <2>2, <2>3, <2>4, <2>5 DEF TrueOutputs
<1>4. IsFiniteSet(X)
  BY <1>1, FS_Intersection
<1>5. f \in Bijection(X, S)
  <2>1. f \in [X -> S] /\ DOMAIN f = X
    OBVIOUS
  <2>2. \A k, l \in X : f[k] = f[l] => k = l
    OBVIOUS
  <2>3. \A x \in S : \E k \in X : f[k] = x
    OBVIOUS
  <2> HIDE DEF f, X, S
  <2> QED
    BY <2>1, <2>2, <2>3 DEF Bijection, Injection, Surjection, IsInjective
<1> HIDE DEF T, X, S, O, f
<1>6. IsFiniteSet(S) /\ Cardinality(S) = Cardinality(X)
  BY <1>4, <1>5, FS_Bijection DEF ExistsBijection
<1>7. IsFiniteSet(O)
  <2>1. IsFiniteSet(T)
    BY DEF T
  <2> QED
    BY <1>3, <2>1, FS_Subset
<1>8. Cardinality(S \cup O) = Cardinality(S) + Cardinality(O) - Cardinality(S \cap O)
  BY <1>6, <1>7, FS_Union
<1>9. Cardinality(S) \in Nat /\ Cardinality(O) \in Nat /\ Cardinality(S \cap O) = 0
  BY <1>3, <1>6, <1>7, FS_CardinalityType, FS_EmptySet
<1>10. Cardinality(T) = Cardinality(X) + Cardinality(O)
  BY <1>3, <1>6, <1>8, <1>9
<1> QED
  BY <1>10 DEF T, X, O

\* The output assumed of the new totalizer, when t literals of the core are true.
NewOutput(K, w, P, n, new, t) ==
    /\ t \in Nat /\ t > 0
    /\ t = Cardinality({x \in NewLiterals(K, w) : True(P, x)'})
    /\ new \subseteq CardinalityAssumptions'
    /\ \A lit \in new : cardinalityWeight'[lit] = w
    /\ \/ new = {} /\ t <= 1
       \/ new = {<<n, 1>>} /\ soft_cardinality'[n] = NewLiterals(K, w)

\* What the new totalizer lets pay: all but one of the true literals of the core.
LEMMA NewOutputPays ==
    ASSUME TotalizersOK', AssumedOK', NEW K, NEW w \in Nat, NEW P, NEW n, NEW new, NEW t,
           NewOutput(K, w, P, n, new, t)
    PROVE  SumOver(Pays(P)', new) = w * (t - 1) /\ w * (t - 1) + w = t * w
<1> DEFINE v == Pays(P)'
<1> USE DEF NewOutput
<1>1. w * (t - 1) + w = t * w
  <2>1. PICK s \in Nat : t = s + 1
    <3>1. t - 1 \in Nat /\ t = (t - 1) + 1
      OBVIOUS
    <3> QED
      BY <3>1
  <2>2. t - 1 = s
    BY <2>1
  <2>3. w * s + w = (s + 1) * w
    OBVIOUS
  <2> QED
    BY <2>1, <2>2, <2>3
<1>2. CASE new = {} /\ t <= 1
  <2>1. t - 1 = 0
    BY <1>2
  <2>2. SumOver(v, {}) = 0
    BY SumOfNone
  <2> QED
    BY <1>1, <1>2, <2>1, <2>2
<1>3. CASE new = {<<n, 1>>} /\ soft_cardinality'[n] = NewLiterals(K, w)
  <2> DEFINE x == <<n, 1>>
  <2>1. x \in CardinalityAssumptions' /\ cardinalityWeight'[x] = w /\ x[1] = n /\ x[2] = 1
    BY <1>3
  <2>2. n \in DOMAIN soft_cardinality'
    BY <2>1 DEF AssumedOK
  <2>3. Counts(P)'[n] = t
    <3>1. Counts(P)'[n] = Cardinality({y \in soft_cardinality'[n] : True(P, y)'})
      BY <2>2, CountsNext
    <3> QED
      BY <1>3, <3>1
  <2>4. Beyond(P, x)' = t - 1
    <3>1. \A y \in CardinalityAssumptions' :
              Beyond(P, y)' = IF Counts(P)'[y[1]] > y[2] THEN Counts(P)'[y[1]] - y[2] ELSE 0
      BY OutputsBeyondNext
    <3> HIDE DEF x
    <3>2. Beyond(P, x)' = IF t > 1 THEN t - 1 ELSE 0
      BY <2>1, <2>3, <3>1
    <3> QED
      BY <3>2
  <2>5. v[x] = w * (t - 1)
    <3>1. \A y \in CardinalityAssumptions' : v[y] = cardinalityWeight'[y] * Beyond(P, y)'
      BY DEF Pays
    <3> HIDE DEF x, v
    <3>2. v[x] = cardinalityWeight'[x] * Beyond(P, x)'
      BY <2>1, <3>1
    <3> QED
      BY <2>1, <2>4, <3>2 DEF x
  <2>6. v[x] \in Nat
    BY <2>1, PaysWeighingNext DEF Weighing
  <2> HIDE DEF x, v
  <2>7. Weighing(v, {x})
    BY <2>6, FS_Singleton DEF Weighing
  <2>8. SumOver(v, {x}) = SumOver(v, {x} \ {x}) + v[x]
    BY <2>7, SumWithout
  <2>9. {x} \ {x} = {}
    OBVIOUS
  <2>10. SumOver(v, {x}) = v[x]
    <3>1. SumOver(v, {x} \ {x}) = 0
      BY <2>9, SumOfNone
    <3> QED
      BY <2>6, <2>8, <3>1
  <2> QED
    BY <1>1, <1>3, <2>5, <2>10 DEF x, v
<1> QED
  BY <1>2, <1>3

\* A core can be relaxed so: the state is one of the search again, and a model
\* that makes a literal of the core true has w less to pay.
CoreGone(K, w) ==
    /\ SoftOK' /\ TotalizersOK' /\ AssumedOK'
    /\ \A P : (\E lit \in K : True(P, lit)) =>
                /\ SoftLeft(P) \in Nat /\ CardinalityLeft(P) \in Nat
                /\ SoftLeft(P)' \in Nat /\ CardinalityLeft(P)' \in Nat
                /\ SoftLeft(P) + CardinalityLeft(P)
                      = w + SoftLeft(P)' + CardinalityLeft(P)'

\* Relaxing a core, with its splits and duplicates, pays its weight.
LEMMA CoreRelaxed ==
    ASSUME SoftOK, TotalizersOK, AssumedOK, UNCHANGED inputWeight,
           NEW K, NEW w, Relaxable(K, w), RelaxSoft(K, w), RelaxCardinality(K, w)
    PROVE  CoreGone(K, w)
<1>1. w \in Nat /\ w > 0 /\ K \in SUBSET Open
  BY DEF Relaxable
<1>2. /\ Relaxed(K) \in SUBSET ((DOMAIN soft) \ activeSoft)
      /\ IsFiniteSet(Relaxed(K))
      /\ \A k \in Relaxed(K) : soft[k].weight >= w
      /\ SoftIn(K) = {<<0, k>> : k \in Relaxed(K)}
      /\ DOMAIN soft = 1..Len(soft) /\ Len(soft) \in Nat
  <2>1. /\ Relaxed(K) \in SUBSET ((DOMAIN soft) \ activeSoft)
        /\ IsFiniteSet(Relaxed(K))
        /\ \A k \in Relaxed(K) : WeightOf(<<0, k>>) = soft[k].weight
        /\ SoftIn(K) = {<<0, k>> : k \in Relaxed(K)}
        /\ DOMAIN soft = 1..Len(soft) /\ Len(soft) \in Nat
    BY <1>1, CoreLiterals
  <2>2. \A k \in Relaxed(K) : <<0, k>> \in K
    BY DEF Relaxed
  <2> QED
    BY <2>1, <2>2 DEF Relaxable
<1>3. IsFiniteSet(Split(K, w)) /\ Cardinality(Split(K, w)) \in Nat
  <2>1. Split(K, w) \in SUBSET Relaxed(K)
    BY DEF Split
  <2> QED
    BY <1>2, <2>1, FS_Subset, FS_CardinalityType
<1>4. PICK copies \in Bijection(1..Cardinality(Split(K, w)), Split(K, w)) : SoftSplit(K, w, copies)
  BY SoftRelaxed
<1>5. SoftOK'
  BY <1>1, <1>2, <1>3, <1>4, SoftKept
<1>6. PICK spot : Spotted(K, spot)
  BY <1>2, <1>3, <1>4, SpotsExist
<1>7. /\ Cardinality(Copied(K, w)) \in Nat
      /\ \E place : Placed(K, w, place) /\ TotalizersCopied(K, w, place)
  BY CopiesMade
<1>8. PICK place : Placed(K, w, place) /\ TotalizersCopied(K, w, place)
  BY <1>7
<1>9. Replaced(K, w, spot, place)
  BY <1>2, <1>3, <1>4, <1>6, <1>8 DEF Replaced, SoftSplit
<1> DEFINE n == Len(soft_cardinality) + Cardinality(Copied(K, w)) + 1
<1>10. /\ TotalizersOK'
       /\ TotalizersExtended(K, w, place)
       /\ NewTotalizer(K, w, n)
  BY <1>7, <1>8, <1>9, TotalizersRelaxed
<1>11. PICK new : /\ Reweigh(K, w, new)
                  /\ \/ new = {} /\ Cardinality(NewLiterals(K, w)) = 1
                     \/ /\ new = {<<n, 1>>} /\ n \in DOMAIN soft_cardinality'
                        /\ soft_cardinality'[n] = NewLiterals(K, w)
  <2> HIDE DEF n
  <2> QED
    BY <1>10 DEF NewTotalizer
<1>12. AssumedOK' /\ Reassumed(K, w, place, new)
  <2>1. new \subseteq {<<n, 1>>} /\ \A x \in new : x[1] \in DOMAIN soft_cardinality'
    <3> HIDE DEF n
    <3> QED
      BY <1>11
  <2> QED
    BY <1>7, <1>8, <1>9, <1>10, <1>11, <2>1, AssumedRelaxed
<1>13. ASSUME NEW P, NEW lit \in K, True(P, lit)
       PROVE  /\ SoftLeft(P) \in Nat /\ CardinalityLeft(P) \in Nat
              /\ SoftLeft(P)' \in Nat /\ CardinalityLeft(P)' \in Nat
              /\ SoftLeft(P) + CardinalityLeft(P) = w + SoftLeft(P)' + CardinalityLeft(P)'
  <2> DEFINE T == {x \in K : True(P, x)}
             t == Cardinality(T)
             r == Cardinality(Relaxed(K) \cap Falsified(P))
             o == Cardinality(TrueOutputs(K, P))
             pays == SumOver(Pays(P)', new)
  <2>1. /\ \A j \in DOMAIN soft_cardinality : Counts(P)'[j] = Counts(P)[j]
        /\ \A x \in Outputs(K) : Counts(P)'[place[x]] = Counts(P)[x[1]]
        /\ Cardinality({x \in NewLiterals(K, w) : True(P, x)'}) = t
        /\ IsFiniteSet(T)
    BY <1>9, <1>10, CountsRelaxed
  <2>2. Steady(K, P, place)
    BY <2>1 DEF Steady
  <2>3. /\ CardinalityLeft(P) + pays = CardinalityLeft(P)' + o * w
        /\ CardinalityLeft(P) \in Nat /\ CardinalityLeft(P)' \in Nat /\ pays \in Nat
        /\ IsFiniteSet(TrueOutputs(K, P))
    BY <1>8, <1>10, <1>12, <2>2, OutputsLeave
  <2>4. /\ SoftLeft(P) = SoftLeft(P)' + r * w
        /\ SoftLeft(P)' \in Nat
        /\ IsFiniteSet(Relaxed(K) \cap Falsified(P))
    BY <1>1, <1>2, <1>3, <1>4, SplitLeaves
  <2>5. t = r + o
    BY <2>1, TrueLiterals
  <2>6. r \in Nat /\ o \in Nat /\ t \in Nat
    BY <2>1, <2>3, <2>4, FS_CardinalityType
  <2>7. t > 0
    <3>1. lit \in T
      BY <1>13
    <3> HIDE DEF T
    <3> QED
      BY <2>1, <2>6, <3>1, FS_EmptySet
  <2>8. new \subseteq CardinalityAssumptions' /\ \A x \in new : cardinalityWeight'[x] = w
    BY <1>12 DEF Reassumed
  <2>9. new = {} => t <= 1
    <3> SUFFICES ASSUME new = {}
                 PROVE  t <= 1
      OBVIOUS
    <3>1. Cardinality(NewLiterals(K, w)) = 1
      <4> HIDE DEF n
      <4> QED
        BY <1>11
    <3>2. /\ IsFiniteSet(K) /\ \E s : Standing(K, w, spot, place, s)
      BY <1>6, <1>8, LiteralsReplaced
    <3>3. Cardinality(K) = 1
      <4>1. PICK s : s \in Bijection(K, NewLiterals(K, w))
        BY <3>2 DEF Standing
      <4> QED
        BY <3>1, <3>2, <4>1, FS_Bijection DEF ExistsBijection
    <3>4. T \in SUBSET K
      OBVIOUS
    <3> HIDE DEF T
    <3> QED
      BY <3>2, <3>3, <3>4, FS_Subset
  <2>10. pays = w * (t - 1) /\ w * (t - 1) + w = t * w
    <3>1. \/ new = {} /\ t <= 1
          \/ new = {<<n, 1>>} /\ soft_cardinality'[n] = NewLiterals(K, w)
      <4> HIDE DEF n, t
      <4> QED
        BY <1>11, <2>9
    <3>2. t = Cardinality({x \in NewLiterals(K, w) : True(P, x)'})
      BY <2>1
    <3> HIDE DEF n, t, pays
    <3>3. NewOutput(K, w, P, n, new, t)
      BY <2>6, <2>7, <2>8, <3>1, <3>2 DEF NewOutput
    <3>4. SumOver(Pays(P)', new) = w * (t - 1) /\ w * (t - 1) + w = t * w
      BY <1>1, <1>10, <1>12, <3>3, NewOutputPays
    <3> QED
      BY <3>4 DEF pays
  <2>11. t * w = r * w + o * w /\ r * w \in Nat /\ o * w \in Nat
    <3> HIDE DEF t, r, o
    <3>1. (r + o) * w = r * w + o * w /\ r * w \in Nat /\ o * w \in Nat
      BY <1>1, <2>6
    <3> QED
      BY <2>5, <3>1
  <2> DEFINE rw == r * w
             ow == o * w
             tw == t * w
  <2>13. /\ rw \in Nat /\ ow \in Nat /\ tw = rw + ow /\ pays + w = tw
         /\ SoftLeft(P) = SoftLeft(P)' + rw
         /\ CardinalityLeft(P) + pays = CardinalityLeft(P)' + ow
    BY <2>3, <2>4, <2>10, <2>11
  <2>12. pays \in Nat
    BY <2>3
  <2> HIDE DEF t, r, o, pays, rw, ow, tw
  <2>14. tw \in Nat
    BY <2>13
  <2>15. SoftLeft(P) \in Nat /\ SoftLeft(P)' \in Nat
    BY <2>4, <2>13
  <2>16. CardinalityLeft(P) \in Nat /\ CardinalityLeft(P)' \in Nat
    BY <2>3
  <2>18. /\ pays + w = rw + ow
         /\ SoftLeft(P) = SoftLeft(P)' + rw
         /\ CardinalityLeft(P) + pays = CardinalityLeft(P)' + ow
         /\ rw \in Nat /\ ow \in Nat
    BY <2>13
  <2>19. SoftLeft(P) + CardinalityLeft(P) = w + SoftLeft(P)' + CardinalityLeft(P)'
    <3> DEFINE a == SoftLeft(P)
               b == SoftLeft(P)'
               c == CardinalityLeft(P)
               d == CardinalityLeft(P)'
    <3>1. /\ a \in Nat /\ b \in Nat /\ c \in Nat /\ d \in Nat
          /\ a = b + rw /\ c + pays = d + ow
      BY <2>15, <2>16, <2>18
    <3> HIDE DEF a, b, c, d
    <3>2. a + c = w + b + d
      BY <1>1, <2>12, <2>18, <3>1
    <3> QED
      BY <3>2 DEF a, b, c, d
  <2> QED
    BY <2>15, <2>16, <2>19
<1> QED
  BY <1>5, <1>10, <1>12, <1>13 DEF CoreGone

-----------------------------------------------------------------------------
\* Models and cores.

\* What a model pays for the soft clauses that are not relaxed.
LEMMA SoftPays ==
    ASSUME SoftOK, NEW P
    PROVE  /\ SoftLeft(P) = SumOver(WeightsOfSoft, ((DOMAIN soft) \ activeSoft) \cap Falsified(P))
           /\ Weighing(WeightsOfSoft, ((DOMAIN soft) \ activeSoft) \cap Falsified(P))
           /\ SoftLeft(P) \in Nat
<1> DEFINE S == ((DOMAIN soft) \ activeSoft) \cap Falsified(P)
<1>1. S = {k \in (DOMAIN soft) \ activeSoft : soft[k].clause \in P}
  BY DEF Falsified
<1>2. SoftLeft(P) = SumOver(WeightsOfSoft, S)
  BY <1>1 DEF SoftLeft, WeightsOfSoft
<1>3. DOMAIN soft = 1..Len(soft) /\ Len(soft) \in Nat
  BY DEF SoftOK
<1>4. IsFiniteSet(S)
  <2>1. IsFiniteSet(1..Len(soft))
    BY <1>3, FS_Interval
  <2>2. S \in SUBSET (1..Len(soft))
    BY <1>3
  <2> HIDE DEF S
  <2> QED
    BY <2>1, <2>2, FS_Subset
<1>5. \A k \in S : WeightsOfSoft[k] \in Nat
  BY SoftType DEF WeightsOfSoft
<1> HIDE DEF S
<1>6. Weighing(WeightsOfSoft, S)
  BY <1>4, <1>5 DEF Weighing
<1> QED
  BY <1>2, <1>6, SumType DEF S

\* A model that makes none of the literals true has nothing left to pay.
LEMMA NothingLeft ==
    ASSUME SoftOK, TotalizersOK, AssumedOK, NEW P, Allows(P, Open)
    PROVE  SoftLeft(P) = 0 /\ CardinalityLeft(P) = 0
<1>1. SoftLeft(P) = 0
  <2>1. ((DOMAIN soft) \ activeSoft) \cap Falsified(P) = {}
    <3> SUFFICES ASSUME NEW k \in (DOMAIN soft) \ activeSoft, k \in Falsified(P)
                 PROVE  FALSE
      OBVIOUS
    <3>1. <<0, k>> \in Open /\ True(P, <<0, k>>)
      BY DEF Open, True, Falsified
    <3> QED
      BY <3>1 DEF Allows
  <2> QED
    BY <2>1, SoftPays, SumOfNone
<1>2. CardinalityLeft(P) = 0
  <2>1. /\ CardinalityLeft(P) = SumOver(Pays(P), CardinalityAssumptions)
        /\ Weighing(Pays(P), CardinalityAssumptions)
    BY PaysWeighing
  <2>2. ASSUME NEW lit \in CardinalityAssumptions
        PROVE  Pays(P)[lit] = 0
    <3>1. lit \in Open
      BY DEF Open
    <3>2. ~True(P, lit)
      BY <3>1 DEF Allows
    <3>3. Beyond(P, lit) = 0
      BY <3>2, OutputsBeyond
    <3>4. cardinalityWeight[lit] \in Nat
      BY OutputsType
    <3>5. Pays(P)[lit] = cardinalityWeight[lit] * 0
      BY <3>3 DEF Pays
    <3> QED
      BY <3>4, <3>5
  <2> QED
    BY <2>1, <2>2, SumOfZeros DEF Weighing
<1> QED
  BY <1>1, <1>2

\* A model that makes a literal of a core true has the weight of the core to pay.
LEMMA CoreWeighs ==
    ASSUME SoftOK, TotalizersOK, AssumedOK, NEW K, NEW w, Relaxable(K, w),
           NEW P, NEW lit \in K, True(P, lit)
    PROVE  w <= SoftLeft(P) + CardinalityLeft(P)
<1>1. w \in Nat /\ K \in SUBSET Open /\ WeightOf(lit) >= w
  BY DEF Relaxable
<1>2. SoftLeft(P) \in Nat /\ CardinalityLeft(P) \in Nat
  BY SoftPays, PaysWeighing
<1>3. CASE lit \in CardinalityAssumptions
  <2>1. /\ CardinalityLeft(P) = SumOver(Pays(P), CardinalityAssumptions)
        /\ Weighing(Pays(P), CardinalityAssumptions)
    BY PaysWeighing
  <2>2. Pays(P)[lit] <= CardinalityLeft(P)
    BY <1>3, <2>1, SumAtLeast
  <2>3. /\ Beyond(P, lit) \in Nat /\ cardinalityWeight[lit] \in Nat
        /\ cardinalityWeight[lit] >= w
        /\ Beyond(P, lit) >= 1
    <3>1. WeightOf(lit) = cardinalityWeight[lit]
      BY <1>3, OutputsType DEF WeightOf
    <3>2. Beyond(P, lit) \in Nat /\ Beyond(P, lit) >= 1
      BY <1>3, OutputsBeyond, OutputsType
    <3> QED
      BY <1>1, <1>3, <3>1, <3>2, OutputsType
  <2>4. w <= cardinalityWeight[lit] * Beyond(P, lit)
    <3> DEFINE a == cardinalityWeight[lit]
               n == Beyond(P, lit)
    <3>1. a \in Nat /\ n \in Nat /\ a >= w /\ n >= 1
      BY <2>3
    <3> HIDE DEF a, n
    <3>2. PICK m \in Nat : n = m + 1
      <4>1. n - 1 \in Nat /\ n = (n - 1) + 1
        BY <3>1
      <4> QED
        BY <4>1
    <3>3. a * (m + 1) = a * m + a /\ a * m \in Nat
      BY <3>1
    <3>4. w <= a * n
      BY <1>1, <3>1, <3>2, <3>3
    <3> QED
      BY <3>4 DEF a, n
  <2>5. Pays(P)[lit] = cardinalityWeight[lit] * Beyond(P, lit)
    BY <1>3 DEF Pays
  <2>6. Pays(P)[lit] \in Nat
    BY <1>3, <2>1 DEF Weighing
  <2> QED
    BY <1>1, <1>2, <2>2, <2>4, <2>5, <2>6
<1>4. CASE lit \notin CardinalityAssumptions
  <2>1. PICK k \in (DOMAIN soft) \ activeSoft : lit = <<0, k>>
    BY <1>1, <1>4 DEF Open
  <2>2. k \in Falsified(P) /\ WeightOf(lit) = soft[k].weight
    BY <2>1 DEF True, Falsified, WeightOf
  <2>3. WeightsOfSoft[k] <= SoftLeft(P)
    BY <2>1, <2>2, SoftPays, SumAtLeast
  <2>4. WeightsOfSoft[k] = soft[k].weight /\ soft[k].weight \in Nat
    BY <2>1, SoftType DEF WeightsOfSoft
  <2> QED
    BY <1>1, <1>2, <2>2, <2>3, <2>4
<1> QED
  BY <1>3, <1>4

\* Every literal that may be assumed has weight.
LEMMA OpenWeight ==
    ASSUME SoftOK, TotalizersOK, AssumedOK
    PROVE  \A lit \in Open : WeightOf(lit) \in Nat /\ WeightOf(lit) > 0
<1> SUFFICES ASSUME NEW lit \in Open
             PROVE  WeightOf(lit) \in Nat /\ WeightOf(lit) > 0
  OBVIOUS
<1>1. CASE lit \in CardinalityAssumptions
  BY <1>1, OutputsType DEF WeightOf
<1>2. CASE lit \notin CardinalityAssumptions
  <2>1. PICK k \in (DOMAIN soft) \ activeSoft : lit = <<0, k>>
    BY <1>2 DEF Open
  <2>2. WeightOf(lit) = soft[k].weight
    BY <2>1 DEF WeightOf
  <2> QED
    BY <2>1, <2>2, SoftType DEF SoftOK
<1> QED
  BY <1>1, <1>2

\* A core can be relaxed by its least weight.
LEMMA LeastRelaxable ==
    ASSUME SoftOK, TotalizersOK, AssumedOK, NEW K \in SUBSET Open, K # {}
    PROVE  Relaxable(K, Min({WeightOf(lit) : lit \in K}))
<1> DEFINE f == [lit \in K |-> WeightOf(lit)]
           w == Min({WeightOf(lit) : lit \in K})
<1>1. \A lit \in K : f[lit] = WeightOf(lit) /\ f[lit] \in Nat /\ f[lit] > 0
  BY OpenWeight
<1>2. {WeightOf(lit) : lit \in K} = {f[lit] : lit \in K}
  OBVIOUS
<1>3. IsFiniteSet(K)
  <2>1. IsFiniteSet(Outputs(K))
    BY OutputsType, FS_Subset DEF Outputs
  <2>2. /\ SoftIn(K) = {<<0, k>> : k \in Relaxed(K)}
        /\ K \ SoftIn(K) = Outputs(K)
        /\ IsFiniteSet(Relaxed(K))
    BY CoreLiterals DEF Outputs
  <2>3. IsFiniteSet(SoftIn(K))
    <3> DEFINE g == [k \in Relaxed(K) |-> <<0, k>>]
    <3>1. g \in [Relaxed(K) -> SoftIn(K)] /\ \A x \in SoftIn(K) : \E k \in Relaxed(K) : g[k] = x
      BY <2>2
    <3> HIDE DEF g
    <3>2. g \in Surjection(Relaxed(K), SoftIn(K))
      BY <3>1 DEF Surjection
    <3> QED
      BY <2>2, <3>2, FS_Surjection
  <2>4. K = SoftIn(K) \cup Outputs(K)
    BY <2>2 DEF SoftIn, Outputs
  <2> QED
    BY <2>1, <2>3, <2>4, FS_Union
<1>4. w = Min({f[lit] : lit \in K})
  BY <1>2
<1> HIDE DEF f, w
<1>5. (\E lit \in K : w = f[lit]) /\ \A lit \in K : w <= f[lit]
  <2>1. \A lit \in K : f[lit] \in Int
    BY <1>1
  <2>2. /\ \E lit \in K : Min({f[y] : y \in K}) = f[lit]
        /\ \A lit \in K : Min({f[y] : y \in K}) <= f[lit]
    BY <1>3, <2>1, LeastWeight
  <2> QED
    BY <1>4, <2>2
<1>6. w \in Nat \ {0} /\ \A lit \in K : WeightOf(lit) >= w
  BY <1>1, <1>5
<1>7. Relaxable(K, w)
  BY <1>6 DEF Relaxable
<1> QED
  BY <1>7 DEF w

\* What the soft clauses of the input cost.
LEMMA InputCosts ==
    ASSUME inputWeight \in [Soft -> Nat \ {0}]
    PROVE  \A P \in SUBSET Soft : InputCost(P) \in Nat /\ InputCost(P) <= InputCost(Soft)
<1>1. Weighing(inputWeight, Soft)
  BY SoftAssumption DEF Weighing
<1> SUFFICES ASSUME NEW P \in SUBSET Soft
             PROVE  InputCost(P) \in Nat /\ InputCost(P) <= InputCost(Soft)
  OBVIOUS
<1> DEFINE Q == Soft \ P
<1>2. Soft = P \cup Q /\ P \cap Q = {} /\ Q \in SUBSET Soft
  OBVIOUS
<1> HIDE DEF Q
<1>3. SumOver(inputWeight, P) \in Nat /\ SumOver(inputWeight, Q) \in Nat
  BY <1>1, <1>2, WeighingParts, SumType
<1>4. SumOver(inputWeight, P \cup Q) = SumOver(inputWeight, P) + SumOver(inputWeight, Q)
  BY <1>1, <1>2, SumApart
<1>5. InputCost(Soft) = SumOver(inputWeight, P) + SumOver(inputWeight, Q)
  BY <1>2, <1>4 DEF InputCost
<1> QED
  BY <1>3, <1>5 DEF InputCost

\* A step that leaves the working formula alone.
LEMMA FormulaKept ==
    ASSUME IInv, UNCHANGED <<problem, formula, lbCost>>
    PROVE  /\ SoftOK' /\ TotalizersOK' /\ AssumedOK'
           /\ profiles' = profiles /\ label' = label /\ inputWeight' = inputWeight
           /\ \A P : InputCost(P)' = InputCost(P)
           /\ answer = Running => CostPreserved'
<1>1. /\ profiles' = profiles /\ label' = label /\ inputWeight' = inputWeight
      /\ soft' = soft /\ activeSoft' = activeSoft
      /\ soft_cardinality' = soft_cardinality /\ cardinalityWeight' = cardinalityWeight
      /\ lbCost' = lbCost
  BY DEF problem, formula
<1>2. /\ \A P : InputCost(P)' = InputCost(P)
      /\ \A P : CostModel(P)' = CostModel(P)
      /\ \A P : SoftLeft(P)' = SoftLeft(P)
  BY <1>1 DEF InputCost, CostModel, SoftLeft
<1>3. \A P : CardinalityLeft(P)' = CardinalityLeft(P)
  BY <1>1 DEF CardinalityLeft, Beyond, Counts, CardinalityAssumptions
<1>4. SoftOK'
  BY <1>1, <1>2 DEF IInv, SoftOK
<1>5. TotalizersOK'
  BY <1>1 DEF IInv, TotalizersOK, LiteralsBelow
<1>6. AssumedOK'
  BY <1>1 DEF IInv, AssumedOK, CardinalityAssumptions
<1>7. answer = Running => CostPreserved'
  BY <1>1, <1>2, <1>3 DEF IInv, CostPreserved
<1> QED
  BY <1>1, <1>2, <1>4, <1>5, <1>6, <1>7

\* The cost of a model is between the lower bound and all there is to lose.
LEMMA ModelCosts ==
    ASSUME IInv, answer = Running, NEW P \in profiles
    PROVE  /\ P \in SUBSET Soft
           /\ CostModel(P) = InputCost(P) /\ InputCost(P) \in Nat
           /\ InputCost(P) <= InputCost(Soft)
           /\ lbCost <= InputCost(P)
           /\ Allows(P, Open) => InputCost(P) = lbCost
<1>1. P \in SUBSET Soft /\ lbCost \in Nat
  BY DEF IInv, TypeOK
<1>2. CostModel(P) = InputCost(P) /\ InputCost(P) \in Nat /\ InputCost(P) <= InputCost(Soft)
  BY <1>1, InputCosts DEF IInv, SoftOK, TypeOK
<1>3. SoftLeft(P) \in Nat /\ CardinalityLeft(P) \in Nat
  BY SoftPays, PaysWeighing DEF IInv
<1>4. InputCost(P) = lbCost + SoftLeft(P) + CardinalityLeft(P)
  BY DEF IInv, CostPreserved
<1>5. ASSUME Allows(P, Open)
      PROVE  InputCost(P) = lbCost
  <2>1. SoftLeft(P) = 0 /\ CardinalityLeft(P) = 0
    BY <1>5, NothingLeft DEF IInv
  <2> QED
    BY <1>1, <1>4, <2>1
<1> QED
  BY <1>1, <1>2, <1>3, <1>4, <1>5

\* A model is saved.
Saved(P) ==
    /\ model' \in profiles
    /\ ubCost' = InputCost(model')
    /\ ubCost' <= InputCost(P)

\* UpOLL saves a model that costs no more than the one it has.
LEMMA BestSaved ==
    ASSUME IInv, answer = Running, NEW P \in profiles, SaveModel(P)
    PROVE  Saved(P)
<1>1. CostModel(P) = InputCost(P) /\ InputCost(P) \in Nat /\ InputCost(P) <= InputCost(Soft)
  BY ModelCosts
<1>2. InputCost(Soft) \in Nat /\ ubCost \in Nat
  BY InputCosts DEF IInv, TypeOK
<1>3. CASE CostModel(P) <= ubCost /\ model' = P /\ ubCost' = CostModel(P)
  BY <1>1, <1>3 DEF Saved
<1>4. CASE CostModel(P) > ubCost /\ UNCHANGED <<model, ubCost>>
  <2>1. model \in profiles /\ ubCost = InputCost(model)
    BY <1>1, <1>2, <1>4 DEF IInv, ModelSaved
  <2> QED
    BY <1>1, <1>2, <1>4, <2>1 DEF Saved
<1> QED
  BY <1>3, <1>4 DEF SaveModel

\* OLL saves the model it is given.
LEMMA AnySaved ==
    ASSUME IInv, answer = Running, NEW P \in profiles, SaveAny(P)
    PROVE  Saved(P)
  BY ModelCosts DEF SaveAny, Saved

\* After a model the search goes on, or the model is the best one.
LEMMA SavedInv ==
    ASSUME IInv, answer = Running, NEW P \in profiles, Saved(P),
           UNCHANGED <<problem, formula, lbCost>>,
           current_partition' \in 0..(nSoftPartitions' - 1), Entered',
           \/ answer' = Running
           \/ answer' = "_OPTIMUM_" /\ (Allows(P, Open) \/ ubCost' = 0)
    PROVE  IInv'
<1>1. /\ SoftOK' /\ TotalizersOK' /\ AssumedOK'
      /\ profiles' = profiles /\ label' = label /\ inputWeight' = inputWeight
      /\ \A Q : InputCost(Q)' = InputCost(Q)
      /\ CostPreserved'
      /\ lbCost' = lbCost
  BY FormulaKept
<1>2. model' \in profiles /\ ubCost' = InputCost(model') /\ ubCost' <= InputCost(P)
  BY DEF Saved
<1>3. /\ \A Q \in profiles : lbCost <= InputCost(Q)
      /\ \A Q \in profiles : InputCost(Q) \in Nat
      /\ Allows(P, Open) => InputCost(P) = lbCost
  BY ModelCosts
<1>4. InputCost(model)' = InputCost(model')
  BY <1>1 DEF InputCost
<1>5. lbCost \in Nat /\ ubCost' \in Nat
  BY <1>2, <1>3 DEF IInv, TypeOK
<1>6. TypeOK'
  BY <1>1, <1>5 DEF IInv, TypeOK
<1>7. ModelSaved'
  BY <1>1, <1>2, <1>4 DEF ModelSaved
<1>8. Answered'
  <2>1. CASE answer' = Running
    BY <2>1 DEF Answered, Running
  <2>2. CASE answer' = "_OPTIMUM_" /\ (Allows(P, Open) \/ ubCost' = 0)
    <3>1. ubCost' = lbCost
      BY <1>2, <1>3, <1>5, <2>2
    <3>2. \A Q \in profiles' : lbCost' <= InputCost(Q)'
      BY <1>1, <1>3
    <3> QED
      BY <1>1, <1>2, <1>4, <2>2, <3>1, <3>2 DEF Answered
  <2> QED
    BY <2>1, <2>2
<1> QED
  BY <1>1, <1>6, <1>7, <1>8 DEF IInv

-----------------------------------------------------------------------------
\* The steps of UpOLL.

\* Nothing is relaxed when the search begins.
LEMMA InitInv == Init => IInv
<1> SUFFICES ASSUME Init
             PROVE  IInv
  OBVIOUS
<1> USE DEF Init
<1>1. inputWeight \in [Soft -> Nat \ {0}] /\ profiles \in SUBSET SUBSET Soft
  BY WeightAssumption, ProblemAssumption
<1>2. /\ \A P \in SUBSET Soft : InputCost(P) \in Nat
      /\ ubCost = InputCost(Soft)
  BY <1>1, InputCosts DEF InputCost
<1>3. /\ nSoftPartitions \in Nat /\ 0 < nSoftPartitions
      /\ label \in [Soft -> -1..nPartitions]
      /\ \A i \in Soft : Position(SlotOf(i)) \in 0..(nSoftPartitions - 1)
  BY PositionRange DEF InitLabels
<1>4. TypeOK
  BY <1>1, <1>2, <1>3 DEF TypeOK
<1>5. DOMAIN soft = Soft /\ \A k \in Soft : soft[k].clause = k /\ soft[k].weight = inputWeight[k]
  OBVIOUS
<1>6. soft \in Seq(SoftClauses)
  <2>1. Cardinality(Soft) \in Nat /\ Soft = 1..Cardinality(Soft)
    BY SoftAssumption, IndexAssumption, FS_CardinalityType
  <2>2. soft \in [1..Cardinality(Soft) -> SoftClauses]
    BY <1>1, <2>1 DEF SoftClauses
  <2> QED
    BY <2>1, <2>2
<1>7. ASSUME NEW P \in SUBSET Soft
      PROVE  CostModel(P) = InputCost(P) /\ SoftLeft(P) = InputCost(P)
  <2> DEFINE f == [k \in DOMAIN soft |-> soft[k].weight]
  <2>1. Weighing(inputWeight, P)
    BY <1>1, SoftAssumption, PartsOfFinite DEF Weighing
  <2>2. \A k \in P : f[k] = inputWeight[k]
    BY <1>5
  <2>3. /\ {k \in DOMAIN soft : soft[k].clause \in P} = P
        /\ {k \in (DOMAIN soft) \ activeSoft : soft[k].clause \in P} = P
    BY <1>5
  <2>4. CostModel(P) = SumOver(f, P) /\ SoftLeft(P) = SumOver(f, P)
    BY <2>3 DEF CostModel, SoftLeft
  <2> HIDE DEF f
  <2>5. SumOver(f, P) = SumOver(inputWeight, P)
    BY <2>1, <2>2, SumSame
  <2> QED
    BY <2>4, <2>5 DEF InputCost
<1>8. SoftOK
  BY <1>1, <1>5, <1>6, <1>7 DEF SoftOK
<1>9. TotalizersOK
  <2>1. DOMAIN soft_cardinality = {}
    OBVIOUS
  <2>2. soft_cardinality \in Seq(SUBSET (Nat \X Nat))
    OBVIOUS
  <2> QED
    BY <2>1, <2>2 DEF TotalizersOK
<1>10. CardinalityAssumptions = {}
  BY DEF CardinalityAssumptions
<1>11. AssumedOK
  <2>1. cardinalityWeight \in [{} -> Nat \ {0}]
    OBVIOUS
  <2> QED
    BY <1>10, <2>1 DEF AssumedOK
<1>12. CostPreserved
  <2> SUFFICES ASSUME NEW P \in profiles
               PROVE  InputCost(P) = lbCost + SoftLeft(P) + CardinalityLeft(P)
    BY DEF CostPreserved
  <2>1. CardinalityLeft(P) = 0
    BY <1>10, SumOfNone DEF CardinalityLeft
  <2>2. SoftLeft(P) = InputCost(P) /\ InputCost(P) \in Nat
    BY <1>1, <1>2, <1>7
  <2> QED
    BY <2>1, <2>2
<1>13. ModelSaved
  BY <1>2 DEF ModelSaved
<1>14. Entered
  <2>1. \A i \in Soft : Position(SlotOf(i)) = 0 <=> Position(SlotOf(i)) <= 0
    BY <1>3
  <2> QED
    BY <2>1 DEF Entered, SoftPartition
<1>15. Answered
  BY DEF Answered, Running
<1> QED
  BY <1>4, <1>8, <1>9, <1>11, <1>12, <1>13, <1>14, <1>15 DEF IInv

\* The next partition enters.
LEMMA NextPartitionEnters ==
    ASSUME IInv, UNCHANGED problem, NextPartition
    PROVE  current_partition' \in 0..(nSoftPartitions' - 1) /\ Entered' /\ answer' = answer
<1>1. UNCHANGED label /\ label \in [Soft -> -1..nPartitions]
  BY DEF problem, IInv, TypeOK
<1>2. /\ nSoftPartitions' = nSoftPartitions
      /\ \A i \in Soft : Position(SlotOf(i))' = Position(SlotOf(i))
  BY <1>1, PartitionsFixed
<1>3. /\ nSoftPartitions \in Nat
      /\ \A i \in Soft : Position(SlotOf(i)) \in 0..(nSoftPartitions - 1)
  BY <1>1, PositionRange
<1>4. current_partition \in 0..(nSoftPartitions - 1)
  BY DEF IInv, TypeOK
<1>5. /\ current_partition + 1 # nSoftPartitions
      /\ current_partition' = current_partition + 1
      /\ activeSoftPartition' = activeSoftPartition \cup SoftPartition(current_partition + 1)
      /\ answer' = answer
  BY DEF NextPartition, LastPartition
<1>6. current_partition' \in 0..(nSoftPartitions' - 1)
  BY <1>2, <1>3, <1>4, <1>5
<1>7. \A i \in Soft : Position(SlotOf(i)) <= current_partition + 1
                        <=> \/ Position(SlotOf(i)) <= current_partition
                            \/ Position(SlotOf(i)) = current_partition + 1
  BY <1>3, <1>4
<1>8. Entered'
  BY <1>2, <1>5, <1>7 DEF IInv, Entered, SoftPartition
<1> QED
  BY <1>5, <1>6, <1>8

\* Nothing enters.
LEMMA NothingEnters ==
    ASSUME IInv, UNCHANGED <<problem, activeSoftPartition, current_partition>>
    PROVE  current_partition' \in 0..(nSoftPartitions' - 1) /\ Entered'
<1>1. /\ UNCHANGED label
      /\ activeSoftPartition' = activeSoftPartition
      /\ current_partition' = current_partition
  BY DEF problem
<1>2. /\ nSoftPartitions' = nSoftPartitions
      /\ \A i \in Soft : Position(SlotOf(i))' = Position(SlotOf(i))
  BY <1>1, PartitionsFixed
<1> QED
  BY <1>1, <1>2 DEF IInv, TypeOK, Entered

\* Once the last partition is in, everything that is left is assumed.
LEMMA AllAssumed ==
    ASSUME IInv, LastPartition
    PROVE  Open \subseteq Assumed
<1>1. activeSoftPartition = Soft
  <2>1. /\ nSoftPartitions \in Nat
        /\ \A i \in Soft : Position(SlotOf(i)) \in 0..(nSoftPartitions - 1)
    BY PositionRange DEF IInv, TypeOK
  <2>2. current_partition + 1 = nSoftPartitions /\ current_partition \in Int
    BY DEF LastPartition, IInv, TypeOK
  <2> QED
    BY <2>1, <2>2 DEF IInv, Entered
<1>2. \A k \in (DOMAIN soft) \ activeSoft : k \in Soft
  BY DEF IInv, SoftOK
<1> QED
  BY <1>1, <1>2 DEF Open, Assumed, SoftAssumptions

\* What is assumed is left.
LEMMA AssumedOpen ==
    ASSUME IInv
    PROVE  Assumed \subseteq Open
<1>1. activeSoftPartition \subseteq Soft /\ Soft \subseteq DOMAIN soft
  BY DEF IInv, SoftOK, Entered
<1> QED
  BY <1>1 DEF Open, Assumed, SoftAssumptions

\* A model: the next partition enters, or the search ends.
LEMMA SatisfiableInv ==
    ASSUME IInv, NEW P \in profiles, Satisfiable(P)
    PROVE  IInv'
<1> USE DEF Satisfiable
<1>1. answer = Running /\ Saved(P)
  BY BestSaved
<1>2. UNCHANGED <<problem, formula, lbCost>> /\ UNCHANGED problem
  OBVIOUS
<1>3. CASE (LastPartition \/ (~Weighted /\ ubCost' = 0)) /\ Stop
  <2>1. /\ UNCHANGED <<problem, activeSoftPartition, current_partition>>
        /\ answer' = "_OPTIMUM_"
    BY <1>3 DEF Stop
  <2>2. Allows(P, Open) \/ ubCost' = 0
    BY <1>3, AllAssumed DEF Allows
  <2> QED
    BY <1>1, <1>2, <2>1, <2>2, NothingEnters, SavedInv
<1>4. CASE NextPartition
  BY <1>1, <1>2, <1>4, NextPartitionEnters, SavedInv
<1> QED
  BY <1>3, <1>4

\* The conflict budget is used up.
LEMMA BudgetExhaustedInv ==
    ASSUME IInv, BudgetExhausted
    PROVE  IInv'
<1> USE DEF BudgetExhausted
<1>1. UNCHANGED <<problem, formula, lbCost>> /\ UNCHANGED problem /\ answer = Running
  OBVIOUS
<1>2. /\ SoftOK' /\ TotalizersOK' /\ AssumedOK'
      /\ profiles' = profiles /\ label' = label /\ inputWeight' = inputWeight
      /\ \A Q : InputCost(Q)' = InputCost(Q)
      /\ CostPreserved'
  BY <1>1, FormulaKept
<1>3. current_partition' \in 0..(nSoftPartitions' - 1) /\ Entered' /\ answer' = answer
  BY <1>1, NextPartitionEnters
<1>4. TypeOK'
  BY <1>2, <1>3 DEF IInv, TypeOK
<1>5. ModelSaved'
  BY <1>2 DEF IInv, ModelSaved, InputCost
<1>6. Answered'
  BY <1>1, <1>3 DEF Answered, Running
<1> QED
  BY <1>2, <1>3, <1>4, <1>5, <1>6 DEF IInv

\* Every model has the weight of a core to pay, and less when it is relaxed.
LEMMA CoreInv ==
    ASSUME IInv, answer = Running, NEW K, K # {}, IsCore(K), NEW w, Relaxable(K, w),
           RelaxSoft(K, w), RelaxCardinality(K, w), lbCost' = lbCost + w,
           UNCHANGED <<problem, activeSoftPartition, current_partition, ubCost, model, answer>>
    PROVE  IInv'
<1>1. /\ profiles' = profiles /\ label' = label /\ inputWeight' = inputWeight
      /\ activeSoftPartition' = activeSoftPartition
      /\ current_partition' = current_partition
      /\ ubCost' = ubCost /\ model' = model /\ answer' = Running
  BY DEF problem
<1>2. /\ SoftOK' /\ TotalizersOK' /\ AssumedOK'
      /\ \A P : (\E lit \in K : True(P, lit)) =>
                   /\ SoftLeft(P) \in Nat /\ CardinalityLeft(P) \in Nat
                   /\ SoftLeft(P)' \in Nat /\ CardinalityLeft(P)' \in Nat
                   /\ SoftLeft(P) + CardinalityLeft(P)
                         = w + SoftLeft(P)' + CardinalityLeft(P)'
  <2>1. CoreGone(K, w)
    BY <1>1, CoreRelaxed DEF IInv
  <2> QED
    BY <2>1 DEF CoreGone
<1>3. w \in Nat /\ lbCost \in Nat
  BY DEF Relaxable, IInv, TypeOK
<1>4. \A P : InputCost(P)' = InputCost(P)
  BY <1>1 DEF InputCost
<1>5. CostPreserved'
  <2> SUFFICES ASSUME NEW P \in profiles
               PROVE  InputCost(P)' = lbCost' + SoftLeft(P)' + CardinalityLeft(P)'
    BY <1>1 DEF CostPreserved
  <2>1. \E lit \in K : True(P, lit)
    BY DEF IsCore, Allows
  <2>2. InputCost(P) = lbCost + SoftLeft(P) + CardinalityLeft(P)
    BY DEF IInv, CostPreserved
  <2> DEFINE a == SoftLeft(P)
             b == SoftLeft(P)'
             c == CardinalityLeft(P)
             d == CardinalityLeft(P)'
  <2>3. /\ a \in Nat /\ b \in Nat /\ c \in Nat /\ d \in Nat
        /\ a + c = w + b + d
    BY <1>2, <2>1
  <2>4. InputCost(P) = lbCost + a + c
    BY <2>2
  <2> HIDE DEF a, b, c, d
  <2>5. InputCost(P)' = lbCost' + b + d
    BY <1>3, <1>4, <2>3, <2>4
  <2> QED
    BY <2>5 DEF b, d
<1>6. TypeOK' /\ Entered'
  <2>1. current_partition' \in 0..(nSoftPartitions' - 1) /\ Entered'
    BY NothingEnters
  <2> QED
    BY <1>1, <1>3, <2>1 DEF IInv, TypeOK
<1>7. ModelSaved'
  BY <1>1, <1>4 DEF IInv, ModelSaved, InputCost
<1>8. Answered'
  BY <1>1 DEF Answered, Running
<1> QED
  BY <1>2, <1>5, <1>6, <1>7, <1>8 DEF IInv

\* A step that changes nothing the invariant is about.
LEMMA NothingChanged ==
    ASSUME IInv, UNCHANGED <<problem, formula, activeSoftPartition, current_partition,
                             lbCost, ubCost, model, answer>>
    PROVE  IInv'
<1>1. /\ UNCHANGED <<problem, formula, lbCost>>
      /\ UNCHANGED <<problem, activeSoftPartition, current_partition>>
      /\ ubCost' = ubCost /\ model' = model /\ answer' = answer /\ lbCost' = lbCost
  OBVIOUS
<1>2. /\ SoftOK' /\ TotalizersOK' /\ AssumedOK'
      /\ profiles' = profiles /\ label' = label /\ inputWeight' = inputWeight
      /\ \A Q : InputCost(Q)' = InputCost(Q)
      /\ answer = Running => CostPreserved'
  BY <1>1, FormulaKept
<1>3. CostPreserved'
  BY <1>1, <1>2 DEF CostPreserved
<1>4. current_partition' \in 0..(nSoftPartitions' - 1) /\ Entered'
  BY <1>1, NothingEnters
<1>5. TypeOK'
  BY <1>1, <1>2, <1>4 DEF IInv, TypeOK
<1>6. ModelSaved'
  BY <1>1, <1>2 DEF IInv, ModelSaved, InputCost
<1>7. Answered'
  BY <1>1, <1>2 DEF IInv, Answered, InputCost
<1> QED
  BY <1>2, <1>3, <1>4, <1>5, <1>6, <1>7 DEF IInv

\* Every step of UpOLL keeps the invariant.
LEMMA NextInv == IInv /\ [Next]_vars => IInv'
<1> SUFFICES ASSUME IInv, [Next]_vars
             PROVE  IInv'
  OBVIOUS
<1>1. ASSUME NEW P \in profiles, Satisfiable(P)
      PROVE  IInv'
  BY <1>1, SatisfiableInv
<1>2. CASE BudgetExhausted
  BY <1>2, BudgetExhaustedInv
<1>3. ASSUME NEW K \in SUBSET Assumed, Core(K)
      PROVE  IInv'
  <2> DEFINE w == Min({WeightOf(lit) : lit \in K})
  <2>1. /\ answer = Running /\ K # {} /\ IsCore(K)
        /\ lbCost' = lbCost + w
        /\ RelaxSoft(K, w) /\ RelaxCardinality(K, w)
        /\ UNCHANGED <<problem, activeSoftPartition, current_partition, ubCost, model, answer>>
    BY <1>3 DEF Core
  <2>2. K \in SUBSET Open
    BY AssumedOpen
  <2>3. Relaxable(K, w)
    BY <2>1, <2>2, LeastRelaxable DEF IInv
  <2> HIDE DEF w
  <2> QED
    BY <2>1, <2>3, CoreInv
<1>4. CASE EmptyCore
  BY <1>4, NothingChanged DEF EmptyCore
<1>5. CASE UNCHANGED vars
  BY <1>5, NothingChanged DEF vars
<1> QED
  BY <1>1, <1>2, <1>3, <1>4, <1>5 DEF Next

-----------------------------------------------------------------------------
\* The steps of OLL.

\* No literal of weight 1 is left out without weights.
LEMMA WeightOne ==
    ASSUME inputWeight \in [Soft -> Nat \ {0}], ~Weighted
    PROVE  Max({inputWeight[i] : i \in Soft}) = 1
<1>1. {inputWeight[i] : i \in Soft} = {1}
  BY SoftAssumption DEF Weighted
<1>2. \A x \in {1} : \A y \in {1} : x >= y
  OBVIOUS
<1> QED
  BY <1>1, <1>2 DEF Max

\* What is assumed by OLL is left.
LEMMA OLLAssumedOpen == OLLAssumed \in SUBSET Open
  BY DEF OLLAssumed, Open

\* When nothing is left to later strata all that is left is assumed.
LEMMA AllConsidered ==
    ASSUME IInv, nbSatisfiable # 0, Considered \/ min_weight = 1
    PROVE  Open \subseteq OLLAssumed
<1> SUFFICES ASSUME NEW lit \in Open
             PROVE  WeightOf(lit) >= min_weight
  BY DEF Open, OLLAssumed
<1>1. CASE Considered
  BY <1>1 DEF Considered, AtLeast, Weighed, Open
<1>2. CASE min_weight = 1
  BY <1>2, OpenWeight DEF IInv
<1> QED
  BY <1>1, <1>2

\* The problem, and what UpOLL keeps besides, when OLL runs.
OLLKeeps == UNCHANGED <<problem, activeSoftPartition, current_partition, aborted, upmax>>

\* Once a model was found it is the one saved.
ModelFound == nbSatisfiable > 0 => model \in profiles /\ ubCost = InputCost(model)

\* What a step has to show for Strata.
LEMMA StrataNext ==
    ASSUME UNCHANGED <<problem, upmax>>, nbSatisfiable' \in 0..2,
           nbSatisfiable' > 0 => model' \in profiles /\ ubCost' = InputCost(model'),
           ~Weighted => min_weight' = 1
    PROVE  Strata'
<1>1. profiles' = profiles /\ inputWeight' = inputWeight
  BY DEF problem
<1> QED
  BY <1>1 DEF Strata, Weighted, InputCost

\* A model is counted.
LEMMA ModelCounted ==
    ASSUME nbSatisfiable \in 0..2, CountModel
    PROVE  nbSatisfiable' \in 0..2
<1>1. CASE nbSatisfiable + 1 <= 2
  <2>1. \A x \in {nbSatisfiable + 1, 2} : nbSatisfiable + 1 <= x
    BY <1>1
  <2>2. \A x \in {nbSatisfiable + 1, 2} :
           (\A y \in {nbSatisfiable + 1, 2} : x <= y) => x = nbSatisfiable + 1
    BY <1>1
  <2>3. Min({nbSatisfiable + 1, 2}) = nbSatisfiable + 1
    BY <2>1, <2>2 DEF Min
  <2> QED
    BY <1>1, <2>3 DEF CountModel
<1>2. CASE ~(nbSatisfiable + 1 <= 2)
  <2>1. \A x \in {nbSatisfiable + 1, 2} : 2 <= x
    BY <1>2
  <2>2. \A x \in {nbSatisfiable + 1, 2} :
           (\A y \in {nbSatisfiable + 1, 2} : x <= y) => x = 2
    BY <1>2
  <2>3. Min({nbSatisfiable + 1, 2}) = 2
    BY <2>1, <2>2 DEF Min
  <2> QED
    BY <2>3 DEF CountModel
<1> QED
  BY <1>1, <1>2

\* OLL without weights: the first model, or the last.
LEMMA UnweightedModelInv ==
    ASSUME IInv, Strata, ~upmax, OLLKeeps, answer = Running,
           NEW P \in profiles, UnweightedModel(P)
    PROVE  IInv' /\ Strata'
<1> USE DEF UnweightedModel
<1>1. /\ UNCHANGED <<problem, formula, lbCost>>
      /\ UNCHANGED <<problem, activeSoftPartition, current_partition>>
      /\ UNCHANGED <<problem, upmax>>
  BY DEF OLLKeeps
<1>2. Saved(P)
  BY AnySaved
<1>3. min_weight = 1 /\ min_weight' = 1 /\ nbSatisfiable \in 0..2
  BY DEF Strata
<1>4. \/ answer' = Running
      \/ answer' = "_OPTIMUM_" /\ (Allows(P, Open) \/ ubCost' = 0)
  <2>1. CASE ubCost' = 0
    BY <2>1
  <2>2. CASE nbSatisfiable > 0
    <3>1. Open \subseteq OLLAssumed
      BY <1>3, <2>2, AllConsidered
    <3>2. Allows(P, Open)
      BY <3>1 DEF Allows
    <3> QED
      BY <3>2
  <2>3. CASE nbSatisfiable = 0 /\ ubCost' # 0
    BY <2>3
  <2> QED
    BY <1>3, <2>1, <2>2, <2>3
<1>5. IInv'
  BY <1>1, <1>2, <1>4, NothingEnters, SavedInv
<1>6. Strata'
  BY <1>1, <1>2, <1>3, ModelCounted, StrataNext DEF Saved
<1> QED
  BY <1>5, <1>6

\* OLL with weights: the first model.
LEMMA WeightedFirstModelInv ==
    ASSUME IInv, Strata, ~upmax, OLLKeeps, answer = Running,
           NEW P \in profiles, WeightedFirstModel(P)
    PROVE  IInv' /\ Strata'
<1> USE DEF WeightedFirstModel
<1>1. /\ UNCHANGED <<problem, formula, lbCost>>
      /\ UNCHANGED <<problem, activeSoftPartition, current_partition>>
      /\ UNCHANGED <<problem, upmax>>
  BY DEF OLLKeeps
<1>2. Saved(P)
  BY AnySaved
<1>3. nbSatisfiable' \in 0..2
  BY ModelCounted DEF Strata
<1>4. IInv'
  BY <1>1, <1>2, NothingEnters, SavedInv
<1>5. Strata'
  BY <1>1, <1>2, <1>3, StrataNext DEF Saved
<1> QED
  BY <1>4, <1>5

\* OLL with weights: a model of a stratum.
LEMMA WeightedModelInv ==
    ASSUME IInv, Strata, ~upmax, OLLKeeps, answer = Running,
           NEW P \in profiles, WeightedModel(P)
    PROVE  IInv' /\ Strata'
<1> USE DEF WeightedModel
<1>1. /\ UNCHANGED <<problem, formula, lbCost>>
      /\ UNCHANGED <<problem, activeSoftPartition, current_partition>>
      /\ UNCHANGED <<problem, upmax>>
  BY DEF OLLKeeps
<1>2. Saved(P)
  <2>1. CASE SaveAny(P)
    BY <2>1, AnySaved
  <2>2. CASE CostModel(P) >= ubCost /\ UNCHANGED <<model, ubCost>>
    <3>1. model \in profiles /\ ubCost = InputCost(model)
      BY DEF Strata
    <3>2. CostModel(P) = InputCost(P)
      BY ModelCosts
    <3> QED
      BY <2>2, <3>1, <3>2 DEF Saved, IInv, TypeOK
  <2> QED
    BY <2>1, <2>2
<1>3. nbSatisfiable' \in 0..2
  BY ModelCounted DEF Strata
<1>4. \/ answer' = Running
      \/ answer' = "_OPTIMUM_" /\ (Allows(P, Open) \/ ubCost' = 0)
  <2>1. CASE Considered
    <3>1. Open \subseteq OLLAssumed
      BY <2>1, AllConsidered
    <3> QED
      BY <2>1, <3>1 DEF Allows
  <2>2. CASE ~Considered
    BY <2>2
  <2> QED
    BY <2>1, <2>2
<1>5. IInv'
  BY <1>1, <1>2, <1>4, NothingEnters, SavedInv
<1>6. Strata'
  BY <1>1, <1>2, <1>3, StrataNext DEF Saved
<1> QED
  BY <1>5, <1>6

\* OLL finds that the hard clauses have no model.
LEMMA NoModelAtAllInv ==
    ASSUME IInv, Strata, ~upmax, OLLKeeps, answer = Running, NoModelAtAll
    PROVE  IInv' /\ Strata'
<1> USE DEF NoModelAtAll
<1>1. /\ UNCHANGED <<problem, formula, lbCost>>
      /\ UNCHANGED <<problem, activeSoftPartition, current_partition>>
      /\ UNCHANGED <<problem, upmax>>
      /\ ubCost' = ubCost /\ model' = model /\ lbCost' = lbCost
  BY DEF OLLKeeps
<1>2. /\ SoftOK' /\ TotalizersOK' /\ AssumedOK'
      /\ profiles' = profiles /\ label' = label /\ inputWeight' = inputWeight
      /\ \A Q : InputCost(Q)' = InputCost(Q)
      /\ CostPreserved'
  BY <1>1, FormulaKept
<1>3. current_partition' \in 0..(nSoftPartitions' - 1) /\ Entered'
  BY <1>1, NothingEnters
<1>4. TypeOK'
  BY <1>1, <1>2, <1>3 DEF IInv, TypeOK
<1>5. ModelSaved'
  BY <1>1, <1>2 DEF IInv, ModelSaved, InputCost
<1>6. Answered'
  BY <1>2 DEF Answered
<1>7. Strata'
  BY <1>1, StrataNext DEF Strata
<1> QED
  BY <1>2, <1>3, <1>4, <1>5, <1>6, <1>7 DEF IInv

\* The bounds meet: every model has the weight of the core to pay.
LEMMA BoundsMeetInv ==
    ASSUME IInv, answer = Running, NEW K, IsCore(K), NEW w, Relaxable(K, w),
           model \in profiles, ubCost = InputCost(model),
           UNCHANGED <<problem, formula, activeSoftPartition, current_partition, ubCost, model>>,
           lbCost' = lbCost + w, lbCost' = ubCost, answer' = "_OPTIMUM_"
    PROVE  IInv'
<1>1. /\ profiles' = profiles /\ label' = label /\ inputWeight' = inputWeight
      /\ soft' = soft /\ activeSoft' = activeSoft
      /\ soft_cardinality' = soft_cardinality /\ cardinalityWeight' = cardinalityWeight
      /\ ubCost' = ubCost /\ model' = model
      /\ UNCHANGED <<problem, activeSoftPartition, current_partition>>
  BY DEF problem, formula
<1>2. /\ \A P : InputCost(P)' = InputCost(P)
      /\ \A P : CostModel(P)' = CostModel(P)
  BY <1>1 DEF InputCost, CostModel
<1>3. SoftOK' /\ TotalizersOK' /\ AssumedOK'
  BY <1>1, <1>2 DEF IInv, SoftOK, TotalizersOK, LiteralsBelow, AssumedOK, CardinalityAssumptions
<1>4. w \in Nat /\ lbCost \in Nat /\ ubCost \in Nat
  BY DEF Relaxable, IInv, TypeOK
<1>5. ASSUME NEW P \in profiles
      PROVE  lbCost + w <= InputCost(P)
  <2>1. PICK lit \in K : True(P, lit)
    BY DEF IsCore, Allows
  <2>2. w <= SoftLeft(P) + CardinalityLeft(P)
    BY <2>1, CoreWeighs DEF IInv
  <2>3. SoftLeft(P) \in Nat /\ CardinalityLeft(P) \in Nat
    BY SoftPays, PaysWeighing DEF IInv
  <2>4. InputCost(P) = lbCost + SoftLeft(P) + CardinalityLeft(P)
    BY DEF IInv, CostPreserved
  <2> QED
    BY <1>4, <2>2, <2>3, <2>4
<1>6. TypeOK' /\ Entered'
  <2>1. current_partition' \in 0..(nSoftPartitions' - 1) /\ Entered'
    BY <1>1, NothingEnters
  <2> QED
    BY <1>1, <1>4, <2>1 DEF IInv, TypeOK
<1>7. ModelSaved'
  BY <1>1, <1>2 DEF ModelSaved, InputCost
<1>8. Answered'
  <2>1. InputCost(model)' = InputCost(model)
    BY <1>1 DEF InputCost
  <2> QED
    BY <1>1, <1>2, <1>5, <2>1 DEF Answered
<1>9. CostPreserved'
  BY DEF CostPreserved, Running
<1> QED
  BY <1>3, <1>6, <1>7, <1>8, <1>9 DEF IInv

\* OLL relaxes a core, or its bounds meet.
LEMMA OLLCoreInv ==
    ASSUME IInv, Strata, ~upmax, OLLKeeps, answer = Running,
           NEW K \in SUBSET OLLAssumed, OLLCore(K)
    PROVE  IInv' /\ Strata'
<1>1. /\ K # {} /\ IsCore(K)
      /\ UNCHANGED <<ubCost, model, min_weight, nbSatisfiable>>
      /\ UnweightedCore(K) \/ WeightedCore(K)
  BY DEF OLLCore
<1>2. K \in SUBSET Open /\ nbSatisfiable # 0
  BY <1>1, OLLAssumedOpen DEF OLLAssumed
<1>3. PICK w : Relaxable(K, w) /\ lbCost' = lbCost + w /\ OLLRelax(K, w)
  <2>1. CASE UnweightedCore(K)
    <3>1. \A lit \in Open : WeightOf(lit) >= 1
      BY OpenWeight DEF IInv
    <3>2. Relaxable(K, 1)
      BY <1>2, <3>1 DEF Relaxable
    <3> QED
      BY <2>1, <3>2 DEF UnweightedCore
  <2>2. CASE WeightedCore(K)
    <3>1. Relaxable(K, CoreWeight(K))
      BY <1>1, <1>2, LeastRelaxable DEF IInv, CoreWeight
    <3> QED
      BY <2>2, <3>1 DEF WeightedCore
  <2> QED
    BY <1>1, <2>1, <2>2
<1>4. model \in profiles /\ ubCost = InputCost(model)
  BY <1>2 DEF Strata
<1>5. /\ UNCHANGED <<problem, upmax>>
      /\ UNCHANGED <<problem, activeSoftPartition, current_partition, ubCost, model>>
  BY <1>1 DEF OLLKeeps
<1>6. IInv'
  <2>1. CASE lbCost' = ubCost /\ answer' = "_OPTIMUM_" /\ UNCHANGED formula
    BY <1>1, <1>3, <1>4, <1>5, <2>1, BoundsMeetInv
  <2>2. CASE RelaxOrSplit(K, w) /\ RaiseOrDuplicate(K, w) /\ UNCHANGED answer
    <3>1. RelaxSoft(K, w) /\ RelaxCardinality(K, w)
      BY <2>2 DEF RelaxOrSplit, RaiseOrDuplicate
    <3> QED
      BY <1>1, <1>3, <1>5, <2>2, <3>1, CoreInv
  <2> QED
    BY <1>3, <2>1, <2>2 DEF OLLRelax
<1>7. Strata'
  <2>1. /\ model' = model /\ ubCost' = ubCost
        /\ nbSatisfiable' = nbSatisfiable /\ min_weight' = min_weight
    BY <1>1
  <2> QED
    BY <1>4, <1>5, <2>1, StrataNext DEF Strata
<1> QED
  BY <1>6, <1>7

-----------------------------------------------------------------------------
\* The theorems.

\* Both searches start with the greatest weight, which is 1 without weights.
LEMMA OLLInitInv == OLLInit => EitherInv
<1> SUFFICES ASSUME OLLInit
             PROVE  EitherInv
  OBVIOUS
<1>1. IInv
  BY InitInv DEF OLLInit
<1>2. ~Weighted => min_weight = 1
  BY <1>1, WeightOne DEF OLLInit, IInv, TypeOK
<1> QED
  BY <1>1, <1>2 DEF EitherInv, Strata, OLLInit

\* Every step of either search keeps the invariant.
LEMMA OLLNextInv == EitherInv /\ [OLLNext]_OLLvars => EitherInv'
<1> SUFFICES ASSUME IInv, Strata, [OLLNext]_OLLvars
             PROVE  IInv' /\ Strata'
  BY DEF EitherInv
<1>1. CASE UpOLLStep
  <2>1. IInv'
    BY <1>1, NextInv DEF UpOLLStep
  <2> QED
    BY <1>1, <2>1 DEF UpOLLStep, Strata
<1>2. CASE OLLStep
  <2>1. ~upmax /\ answer = Running /\ OLLKeeps
    BY <1>2 DEF OLLStep, Searching, OLLKeeps
  <2>2. ASSUME NEW P \in profiles,
               UnweightedModel(P) \/ WeightedFirstModel(P) \/ WeightedModel(P)
        PROVE  IInv' /\ Strata'
    BY <2>1, <2>2, UnweightedModelInv, WeightedFirstModelInv, WeightedModelInv
  <2>3. CASE NoModelAtAll
    BY <2>1, <2>3, NoModelAtAllInv
  <2>4. ASSUME NEW K \in SUBSET OLLAssumed, OLLCore(K)
        PROVE  IInv' /\ Strata'
    BY <2>1, <2>4, OLLCoreInv
  <2> QED
    BY <1>2, <2>2, <2>3, <2>4 DEF OLLStep
<1>3. CASE UNCHANGED OLLvars
  <2>1. UNCHANGED vars /\ UNCHANGED <<upmax, min_weight, nbSatisfiable>>
    BY <1>3 DEF OLLvars
  <2>2. UNCHANGED <<problem, formula, activeSoftPartition, current_partition,
                    lbCost, ubCost, model, answer>>
    BY <2>1 DEF vars
  <2>3. IInv'
    BY <2>2, NothingChanged
  <2>4. Strata'
    BY <2>1, <2>2 DEF Strata, Weighted, InputCost, problem
  <2> QED
    BY <2>3, <2>4
<1> QED
  BY <1>1, <1>2, <1>3 DEF OLLNext

(***************************************************************************)
(* Every reachable state of either search has the cost of every model in    *)
(* its books, and what it prints as optimal is.                             *)
(***************************************************************************)
THEOREM EitherInvariant == OLLSpec => []EitherInv
  BY OLLInitInv, OLLNextInv, PTL DEF OLLSpec

(***************************************************************************)
(* However many cores UpOLL or OLL relaxes, with soft clauses split and     *)
(* totalizers raised and duplicated, what a model costs is the lower bound, *)
(* the soft clauses it falsifies that are not relaxed, and what the outputs *)
(* assumed of totalizers cost it.                                           *)
(***************************************************************************)
THEOREM CostsPreserved == OLLSpec => []CostPreserved
<1>1. EitherInv => CostPreserved
  BY DEF EitherInv, IInv
<1> QED
  BY <1>1, EitherInvariant, PTL

(***************************************************************************)
(* The model that either search prints with "s OPTIMUM FOUND" costs no more *)
(* than any other.                                                          *)
(***************************************************************************)
THEOREM OptimumFound == OLLSpec => []OptimumCorrect
<1>1. EitherInv => OptimumCorrect
  <2> SUFFICES ASSUME IInv, answer = "_OPTIMUM_"
               PROVE  /\ model \in profiles
                      /\ ubCost = InputCost(model)
                      /\ \A P \in profiles : InputCost(model) <= InputCost(P)
    BY DEF EitherInv, OptimumCorrect
  <2> QED
    BY DEF IInv, Answered
<1> QED
  BY <1>1, EitherInvariant, PTL

(***************************************************************************)
(* The cores relaxed until then add up to the cost of that model, in every  *)
(* order of partitions and of strata.                                       *)
(***************************************************************************)
THEOREM BoundsMeetAtTheEnd == OLLSpec => []BoundsMeet
<1>1. EitherInv => BoundsMeet
  BY DEF EitherInv, IInv, Answered, BoundsMeet
<1> QED
  BY <1>1, EitherInvariant, PTL

(***************************************************************************)
(* UpOLL alone: the model it prints is optimal.                             *)
(***************************************************************************)
THEOREM UpOLLCorrect == Spec => [](CostPreserved /\ OptimumCorrect /\ BoundsMeet)
<1>1. IInv => CostPreserved /\ OptimumCorrect /\ BoundsMeet
  <2> SUFFICES ASSUME IInv
               PROVE  CostPreserved /\ OptimumCorrect /\ BoundsMeet
    OBVIOUS
  <2>1. CostPreserved
    BY DEF IInv
  <2>2. BoundsMeet
    BY DEF IInv, Answered, BoundsMeet
  <2>3. OptimumCorrect
    BY DEF IInv, Answered, OptimumCorrect
  <2> QED
    BY <2>1, <2>2, <2>3
<1>2. Spec => []IInv
  BY InitInv, NextInv, PTL DEF Spec
<1> QED
  BY <1>1, <1>2, PTL
=============================================================================
