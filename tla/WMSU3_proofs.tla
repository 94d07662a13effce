----------------------------- MODULE WMSU3_proofs -----------------------------
(***************************************************************************)
(* The safety properties of UpWMSU3, and then of whichever of UpWMSU3 and   *)
(* WMSU3 runs, for every finite set of soft clauses, all weights (any       *)
(* additive cost that gives a single soft clause a positive weight), every  *)
(* family of problems and every number of labels.                           *)
(*                                                                         *)
(* The argument is that of UpMSU3_proofs with the subset sums in the place   *)
(* of counting: what a model costs on the relaxed soft clauses is one of    *)
(* their subset sums and exceeds the bound the core refuted, so it is at    *)
(* least the next subset sum.                                               *)
(*                                                                         *)
(* WMSU3 has no partitions: its first query assumes nothing and its second  *)
(* model is the last, so what makes that model optimal is that every soft   *)
(* clause is assumed or relaxed as soon as there is a model.  It may also   *)
(* stop at the first one, when that costs what the lower bound is.          *)
(***************************************************************************)
EXTENDS WMSU3, SetSums

(***************************************************************************)
(* The first model found is always saved; from then on ubCost is the cost   *)
(* of the saved model.                                                      *)
(***************************************************************************)
ModelSaved ==
    \/ nbSatisfiable = 0 /\ model = NoModel /\ ubCost = cost[Soft]
    \/ nbSatisfiable > 0 /\ model \in profiles /\ ubCost = cost[model]

(***************************************************************************)
(* While the search runs, the partitions up to current_partition have       *)
(* entered, and current_partition is one of them.                           *)
(***************************************************************************)
Entered ==
    answer = Running =>
        /\ current_partition < nSoftPartitions
        /\ activeSoftPartition =
              {i \in Soft : Position(SlotOf(i)) <= current_partition}

IInv ==
    /\ TypeOK
    /\ LowerBound
    /\ StuckOnlyWithoutModel
    /\ AssumedOrRelaxed
    /\ ModelSaved
    /\ Entered
    /\ OptimumCorrect
-----------------------------------------------------------------------------
\* The position of every soft clause's slot is that of some soft partition, so
\* after the last partition every soft clause has entered.
LEMMA PositionRange ==
    ASSUME label \in [Soft -> -1..nPartitions]
    PROVE  /\ nSoftPartitions \in Nat
           /\ 0 < nSoftPartitions
           /\ \A i \in Soft : Position(SlotOf(i)) \in 0..(nSoftPartitions - 1)
<1>1. IsFiniteSet(UsedSlots)
  <2>1. IsFiniteSet(0..nPartitions) /\ UsedSlots \in SUBSET (0..nPartitions)
    BY PartitionAssumption, FS_Interval DEF UsedSlots
  <2> QED
    BY <2>1, FS_Subset
<1>2. \A v \in UsedSlots : ~Before(v, v)
    BY SoftAssumption, PartitionAssumption, PartsOfFinite DEF Before, Slot, UsedSlots
<1>3. \A i \in Soft : SlotOf(i) \in UsedSlots
    BY PartitionAssumption DEF SlotOf, Slot, UsedSlots
<1>4. \A v \in UsedSlots : Position(v) \in 0..(nSoftPartitions - 1)
    BY <1>1, <1>2, PlaceAmong DEF Position, nSoftPartitions
<1>5. nSoftPartitions \in Nat
    BY <1>1, FS_CardinalityType DEF nSoftPartitions
<1> QED
    BY <1>3, <1>4, <1>5, SoftAssumption

\* The labels never change, nor does what createPartitions made of them.
LEMMA PartitionsFixed ==
    ASSUME UNCHANGED label
    PROVE  /\ nSoftPartitions' = nSoftPartitions
           /\ \A i \in Soft : Position(SlotOf(i))' = Position(SlotOf(i))
    BY DEF nSoftPartitions, Position, UsedSlots, Slot, SlotOf, Before

-----------------------------------------------------------------------------
\* More soft clauses weigh more.
LEMMA CostMonotone ==
    ASSUME NEW B \in SUBSET Soft, NEW A \in SUBSET B
    PROVE  /\ cost[A] \in Nat /\ cost[B] \in Nat
           /\ cost[A] <= cost[B]
           /\ A # B => cost[A] < cost[B]
<1>1. /\ A \in SUBSET Soft
      /\ B \ A \in SUBSET Soft
      /\ A \cap (B \ A) = {}
      /\ A \cup (B \ A) = B
    OBVIOUS
<1>2. cost[A] \in Nat /\ cost[B] \in Nat /\ cost[B \ A] \in Nat
    BY <1>1, CostAssumption
<1>3. cost[A \cup (B \ A)] = cost[A] + cost[B \ A]
    BY <1>1, CostAssumption
<1>4. ASSUME A # B PROVE cost[B \ A] > 0
  <2>1. PICK x \in B \ A : TRUE
    BY <1>4
  <2>2. /\ {x} \in SUBSET Soft
        /\ (B \ A) \ {x} \in SUBSET Soft
        /\ {x} \cap ((B \ A) \ {x}) = {}
        /\ {x} \cup ((B \ A) \ {x}) = B \ A
    BY <2>1
  <2>3. cost[{x} \cup ((B \ A) \ {x})] = cost[{x}] + cost[(B \ A) \ {x}]
    BY <2>2, CostAssumption
  <2>4. cost[{x}] \in Nat /\ cost[{x}] > 0 /\ cost[(B \ A) \ {x}] \in Nat
    BY <2>1, <2>2, CostAssumption
  <2>5. cost[B \ A] = cost[{x}] + cost[(B \ A) \ {x}]
    BY <2>2, <2>3
  <2> QED
    BY <2>4, <2>5
<1> QED
    BY <1>1, <1>2, <1>3, <1>4

\* The cost of no soft clauses is zero.
LEMMA CostOfNone == cost[{}] = 0
<1>1. cost[{} \cup {}] = cost[{}] + cost[{}]
    BY CostAssumption
<1>2. cost[{}] = cost[{}] + cost[{}]
    <2>1. {} \cup {} = {}
        OBVIOUS
    <2> QED
        BY <1>1, <2>1
<1>3. cost[{}] \in Nat
    BY CostAssumption
<1>4. \A n \in Nat : n = n + n => n = 0
    OBVIOUS
<1> QED
    BY <1>2, <1>3, <1>4

\* current_partition and the one after it index soft_partitions or its end.
LEMMA IndexInRange ==
    ASSUME IInv, UNCHANGED label
    PROVE  /\ current_partition \in 0..nSoftPartitions'
           /\ answer = Running => current_partition + 1 \in 0..nSoftPartitions'
<1>1. /\ nSoftPartitions \in Nat
      /\ nSoftPartitions' = nSoftPartitions
    BY PositionRange, PartitionsFixed DEF IInv, TypeOK
<1> QED
    BY <1>1 DEF IInv, TypeOK, Entered

LEMMA InitIInv == Init => IInv
<1> SUFFICES ASSUME Init PROVE IInv
    OBVIOUS
<1> USE DEF Init, InitLabels
<1>1. /\ SoftPartition(0) \in SUBSET Soft
      /\ SoftPartition(0) = {i \in Soft : Position(SlotOf(i)) <= 0}
      /\ current_partition \in 0..nSoftPartitions
    BY PositionRange DEF SoftPartition
<1>2. cost[Soft] \in Nat
    BY CostAssumption
<1>3. TypeOK
    BY <1>1, <1>2, ProblemAssumption DEF TypeOK
<1>4. LowerBound
  <2>1. ASSUME NEW P \in profiles PROVE lbCost <= cost[P \cap activeSoft]
    BY CostOfNone, P \cap activeSoft = {}
  <2> QED
    BY <2>1 DEF LowerBound
<1>5. StuckOnlyWithoutModel /\ AssumedOrRelaxed /\ ModelSaved
    BY DEF StuckOnlyWithoutModel, AssumedOrRelaxed, ModelSaved
<1>6. Entered
    BY <1>1, PositionRange DEF Entered
<1>7. OptimumCorrect
    BY DEF OptimumCorrect, Running
<1> QED
    BY <1>3, <1>4, <1>5, <1>6, <1>7 DEF IInv

\* A model of a query of the last partition costs no more than any model.
LEMMA LastModelOptimal ==
    ASSUME IInv, answer = Running, LastPartition,
           NEW P \in profiles, SatisfiesQuery(P),
           NEW Q \in profiles
    PROVE  cost[P] <= cost[Q]
<1>1. activeSoftPartition = Soft
  <2>1. /\ nSoftPartitions \in Nat
        /\ \A i \in Soft : Position(SlotOf(i)) \in 0..(nSoftPartitions - 1)
    BY PositionRange DEF IInv, TypeOK
  <2>2. current_partition \in Nat /\ current_partition + 1 = nSoftPartitions
    BY DEF IInv, TypeOK, LastPartition
  <2>3. \A i \in Soft : Position(SlotOf(i)) <= current_partition
    BY <2>1, <2>2
  <2> QED
    BY <2>3 DEF IInv, Entered
<1>2. P \in SUBSET Soft /\ Q \in SUBSET Soft /\ lbCost \in Nat
    BY DEF IInv, TypeOK
<1>3. P \cap activeSoft = P
    BY <1>1, <1>2 DEF IInv, AssumedOrRelaxed, SatisfiesQuery
<1>4. cost[P] <= lbCost
    BY <1>3 DEF SatisfiesQuery, WithinBound
<1>5. lbCost <= cost[Q \cap activeSoft]
    BY DEF IInv, LowerBound
<1>6. /\ cost[Q \cap activeSoft] \in Nat
      /\ cost[Q \cap activeSoft] <= cost[Q]
      /\ cost[P] \in Nat /\ cost[Q] \in Nat
    BY <1>2, CostMonotone, CostAssumption
<1> QED
    BY <1>2, <1>4, <1>5, <1>6

-----------------------------------------------------------------------------
\* The next partition enters: what is assumed is still what has entered and is
\* not relaxed.
LEMMA AddPartitionStep ==
    ASSUME IInv, answer = Running, ~LastPartition,
           UNCHANGED <<problem, activeSoft, answer>>,
           current_partition' = current_partition + 1,
           AddPartition(current_partition + 1)
    PROVE  /\ activeSoftPartition' \in SUBSET Soft
           /\ assumptions' \in SUBSET Soft
           /\ AssumedOrRelaxed'
           /\ Entered'
<1> DEFINE new == SoftPartition(current_partition + 1)
<1>1. new \in SUBSET Soft
    BY DEF SoftPartition
<1>2. /\ nSoftPartitions \in Nat
      /\ \A i \in Soft : Position(SlotOf(i)) \in 0..(nSoftPartitions - 1)
    BY PositionRange DEF IInv, TypeOK
<1>3. /\ activeSoftPartition' = activeSoftPartition \cup new
      /\ assumptions' = assumptions \cup (new \ activeSoft)
    BY DEF AddPartition
<1>4. /\ current_partition \in Nat
      /\ current_partition + 1 < nSoftPartitions
    BY <1>2 DEF IInv, TypeOK, Entered, LastPartition
<1>5. activeSoftPartition = {i \in Soft : Position(SlotOf(i)) <= current_partition}
    BY DEF IInv, Entered
<1>6. AssumedOrRelaxed'
    BY <1>3 DEF IInv, AssumedOrRelaxed
<1>7. activeSoftPartition' =
          {i \in Soft : Position(SlotOf(i)) <= current_partition + 1}
    BY <1>2, <1>3, <1>4, <1>5 DEF SoftPartition
<1>8. Entered'
    BY <1>4, <1>7, PartitionsFixed DEF Entered, problem
<1> QED
    BY <1>1, <1>3, <1>6, <1>8 DEF IInv, TypeOK

(***************************************************************************)
(* Whether the model found is saved or not, the saved one is the problem's, *)
(* and it costs no more than the model found nor than the one saved before. *)
(***************************************************************************)
LEMMA SaveModelStep ==
    ASSUME TypeOK, ModelSaved, NEW P \in profiles, SaveModel(P),
           nbSatisfiable' = nbSatisfiable + 1
    PROVE  /\ nbSatisfiable' > 0
           /\ model' \in profiles
           /\ ubCost' = cost[model']
           /\ ubCost' \in Nat
           /\ ubCost' <= ubCost
           /\ ubCost' <= cost[P]
           /\ \/ model' = P /\ ubCost' = cost[P]
              \/ UNCHANGED <<model, ubCost>>
<1>1. /\ P \in SUBSET Soft
      /\ cost[P] \in Nat /\ cost[Soft] \in Nat
      /\ cost[P] <= cost[Soft]
      /\ ubCost \in Nat
      /\ nbSatisfiable \in Nat
    BY CostMonotone DEF TypeOK
<1>2. CASE model' = P /\ ubCost' = cost[P] /\ (cost[P] < ubCost \/ nbSatisfiable' = 1)
    BY <1>1, <1>2 DEF ModelSaved
<1>3. CASE cost[P] >= ubCost /\ nbSatisfiable' # 1 /\ UNCHANGED <<model, ubCost>>
    BY <1>1, <1>3 DEF ModelSaved
<1> QED
    BY <1>2, <1>3 DEF SaveModel

LEMMA SatisfiableStep ==
    ASSUME IInv, NEW P \in profiles, Satisfiable(P)
    PROVE  IInv' /\ ubCost' <= ubCost
<1> USE DEF Satisfiable, problem
<1>1. P \in SUBSET Soft /\ cost[P] \in Nat /\ nbSatisfiable' \in Nat
    BY CostAssumption DEF IInv, TypeOK
<1>2. /\ nbSatisfiable' > 0
      /\ model' \in profiles
      /\ ubCost' = cost[model']
      /\ ubCost' \in Nat
      /\ ubCost' <= ubCost
      /\ ubCost' <= cost[P]
    BY SaveModelStep DEF IInv
<1>3. model' \in {NoModel} \cup SUBSET Soft
    BY <1>2 DEF IInv, TypeOK
<1>4. LowerBound' /\ StuckOnlyWithoutModel' /\ ModelSaved'
    BY <1>2 DEF IInv, LowerBound, StuckOnlyWithoutModel, ModelSaved
<1>5. CASE /\ Stop
           /\ ubCost' = 0 \/ LastPartition
           /\ \/ UNCHANGED current_partition
              \/ current_partition' = current_partition + 1
  <2>1. current_partition' \in 0..nSoftPartitions'
    BY <1>5, IndexInRange
  <2>2. TypeOK'
    BY <1>1, <1>2, <1>3, <1>5, <2>1 DEF IInv, TypeOK, Stop
  <2>3. AssumedOrRelaxed' /\ Entered'
    BY <1>5 DEF IInv, AssumedOrRelaxed, Entered, Stop, Running
  <2>4. ASSUME NEW Q \in profiles PROVE cost[model'] <= cost[Q]
    <3>1. cost[Q] \in Nat
      BY CostAssumption DEF IInv, TypeOK
    <3>2. CASE ubCost' = 0
      BY <1>2, <3>1, <3>2
    <3>3. CASE LastPartition
      BY <1>1, <1>2, <3>1, <3>3, LastModelOptimal
    <3> QED
      BY <1>5, <3>2, <3>3
  <2>5. OptimumCorrect'
    BY <1>2, <2>4 DEF OptimumCorrect
  <2> QED
    BY <1>2, <1>4, <2>2, <2>3, <2>5 DEF IInv
<1>6. CASE /\ ~LastPartition
           /\ AddPartition(current_partition + 1)
           /\ current_partition' = current_partition + 1
           /\ UNCHANGED answer
  <2>1. /\ activeSoftPartition' \in SUBSET Soft
        /\ assumptions' \in SUBSET Soft
        /\ AssumedOrRelaxed'
        /\ Entered'
    BY <1>6, AddPartitionStep
  <2>2. TypeOK'
    BY <1>1, <1>2, <1>3, <1>6, <2>1, IndexInRange DEF IInv, TypeOK
  <2>3. OptimumCorrect'
    BY <1>6 DEF OptimumCorrect, Running
  <2> QED
    BY <1>2, <1>4, <2>1, <2>2, <2>3 DEF IInv
<1> QED
    BY <1>5, <1>6

LEMMA BudgetExhaustedStep ==
    ASSUME IInv, BudgetExhausted
    PROVE  IInv'
<1> USE DEF BudgetExhausted, problem
<1>1. /\ activeSoftPartition' \in SUBSET Soft
      /\ assumptions' \in SUBSET Soft
      /\ AssumedOrRelaxed'
      /\ Entered'
    BY AddPartitionStep
<1>2. TypeOK'
    BY <1>1, IndexInRange DEF IInv, TypeOK
<1>3. LowerBound' /\ StuckOnlyWithoutModel' /\ ModelSaved' /\ OptimumCorrect'
    BY DEF IInv, LowerBound, StuckOnlyWithoutModel, ModelSaved, OptimumCorrect
<1> QED
    BY <1>1, <1>2, <1>3 DEF IInv

\* A model weighs more on the relaxed soft clauses, once those of the core are
\* among them, than the bound the core refuted; and what it weighs is one of
\* their subset sums.
LEMMA CoreExceedsBound ==
    ASSUME TypeOK, LowerBound, NEW K \in SUBSET (Soft \ activeSoft), IsCore(K),
           NEW P \in profiles
    PROVE  /\ lbCost < cost[P \cap (activeSoft \cup K)]
           /\ cost[P \cap (activeSoft \cup K)] \in Sums(activeSoft \cup K)
<1> DEFINE A == P \cap activeSoft
           B == P \cap (activeSoft \cup K)
<1>1. /\ K \in SUBSET Soft
      /\ K \cap activeSoft = {}
      /\ B \in SUBSET Soft
      /\ A \in SUBSET B
      /\ B \in SUBSET (activeSoft \cup K)
      /\ lbCost \in Nat
    BY DEF TypeOK
<1>2. lbCost <= cost[A]
    BY DEF LowerBound
<1>3. cost[B] \in Sums(activeSoft \cup K)
    BY <1>1 DEF Sums
<1>4. CASE P \cap K # {}
  <2>1. A # B
    BY <1>1, <1>4
  <2> HIDE DEF A, B
  <2>2. cost[A] \in Nat /\ cost[B] \in Nat /\ cost[A] < cost[B]
    BY <1>1, <2>1, CostMonotone
  <2> QED
    BY <1>1, <1>2, <1>3, <2>2 DEF B
<1>5. CASE P \cap K = {}
  <2>1. ~(cost[A] <= lbCost)
    BY <1>5 DEF IsCore, WithinBound
  <2> HIDE DEF A, B
  <2>2. cost[A] \in Nat /\ cost[B] \in Nat /\ cost[A] <= cost[B]
    BY <1>1, CostMonotone
  <2> QED
    BY <1>1, <1>3, <2>1, <2>2 DEF B
<1> QED
    BY <1>4, <1>5

(***************************************************************************)
(* Going to the next subset sum skips only values no model can cost, and    *)
(* there is one whenever there is a model.                                  *)
(***************************************************************************)
LEMMA RaiseBoundStep ==
    ASSUME TypeOK, LowerBound, StuckOnlyWithoutModel,
           NEW K \in SUBSET (Soft \ activeSoft), IsCore(K),
           activeSoft' = activeSoft \cup K, RaiseBound(activeSoft'),
           UNCHANGED profiles
    PROVE  /\ activeSoft' \in SUBSET Soft
           /\ lbCost' \in Nat /\ stuck' \in BOOLEAN
           /\ LowerBound' /\ StuckOnlyWithoutModel'
<1>1. activeSoft' \in SUBSET Soft /\ Sums(activeSoft') \in SUBSET Nat
  <2>1. activeSoft' \in SUBSET Soft
    BY DEF TypeOK
  <2> QED
    BY <2>1, CostAssumption DEF Sums
<1>2. lbCost' \in Nat /\ stuck' \in BOOLEAN
    BY <1>1 DEF RaiseBound, TypeOK
<1>3. ASSUME NEW P \in profiles
      PROVE  /\ lbCost < cost[P \cap activeSoft']
             /\ cost[P \cap activeSoft'] \in Sums(activeSoft')
             /\ cost[P \cap activeSoft'] \in Nat /\ lbCost \in Nat
    BY <1>1, CoreExceedsBound DEF TypeOK
<1>4. CASE /\ lbCost' \in Sums(activeSoft')
           /\ \A s \in Sums(activeSoft') : s > lbCost => lbCost' <= s
           /\ UNCHANGED stuck
  <2>1. ASSUME NEW P \in profiles
        PROVE  lbCost' <= cost[P \cap activeSoft']
    BY <1>3, <1>4
  <2> QED
    BY <1>1, <1>2, <1>4, <2>1 DEF LowerBound, StuckOnlyWithoutModel
<1>5. CASE /\ \A s \in Sums(activeSoft') : s <= lbCost
           /\ stuck' = TRUE
           /\ UNCHANGED lbCost
  <2>1. ASSUME NEW P \in profiles PROVE FALSE
    <3>1. /\ lbCost < cost[P \cap activeSoft'] /\ lbCost \in Nat
          /\ cost[P \cap activeSoft'] \in Sums(activeSoft')
          /\ cost[P \cap activeSoft'] \in Nat
      BY <1>3
    <3> QED
      BY <1>5, <3>1
  <2> QED
    BY <1>1, <1>2, <2>1 DEF LowerBound, StuckOnlyWithoutModel
<1> QED
    BY <1>4, <1>5 DEF RaiseBound

LEMMA CoreStep ==
    ASSUME IInv, NEW K \in SUBSET assumptions, Core(K)
    PROVE  IInv'
<1> USE DEF Core, problem
<1>1. K \in SUBSET (Soft \ activeSoft)
    BY DEF IInv, TypeOK, AssumedOrRelaxed
<1>2. /\ activeSoft' \in SUBSET Soft
      /\ lbCost' \in Nat /\ stuck' \in BOOLEAN
      /\ LowerBound' /\ StuckOnlyWithoutModel'
    BY <1>1, RaiseBoundStep DEF IInv
<1>3. TypeOK'
    BY <1>2, IndexInRange DEF IInv, TypeOK
<1>4. AssumedOrRelaxed'
    BY DEF IInv, AssumedOrRelaxed
<1>5. Entered'
    BY PartitionsFixed DEF IInv, Entered
<1>6. ModelSaved' /\ OptimumCorrect'
    BY DEF IInv, ModelSaved, OptimumCorrect
<1> QED
    BY <1>2, <1>3, <1>4, <1>5, <1>6 DEF IInv

LEMMA StepIInv ==
    ASSUME IInv, [Next]_vars
    PROVE  IInv'
<1>1. ASSUME NEW P \in profiles, Satisfiable(P) PROVE IInv'
    BY <1>1, SatisfiableStep
<1>2. CASE BudgetExhausted
    BY <1>2, BudgetExhaustedStep
<1>3. ASSUME NEW K \in SUBSET assumptions, Core(K) PROVE IInv'
    BY <1>3, CoreStep
<1>4. CASE UNCHANGED vars
  <2>1. /\ TypeOK' /\ LowerBound' /\ StuckOnlyWithoutModel'
        /\ AssumedOrRelaxed' /\ ModelSaved'
    BY <1>4, IndexInRange
       DEF vars, problem, search, IInv, TypeOK, LowerBound,
           StuckOnlyWithoutModel, AssumedOrRelaxed, ModelSaved
  <2>2. Entered' /\ OptimumCorrect'
    BY <1>4, PartitionsFixed
       DEF vars, problem, search, IInv, Entered, OptimumCorrect
  <2> QED
    BY <2>1, <2>2 DEF IInv
<1> QED
    BY <1>1, <1>2, <1>3, <1>4 DEF Next

(***************************************************************************)
(* IInv is an invariant of the search.                                      *)
(***************************************************************************)
THEOREM Invariance == Spec => []IInv
<1>1. IInv /\ [Next]_vars => IInv'
    BY StepIInv
<1> QED
    BY InitIInv, <1>1, PTL DEF Spec

(***************************************************************************)
(* lbCost never passes what a model costs.                                  *)
(***************************************************************************)
THEOREM LowerBoundHolds == Spec => []LowerBound
<1>1. IInv => LowerBound
    BY DEF IInv
<1> QED
    BY <1>1, Invariance, PTL

(***************************************************************************)
(* The loop that raises lbCost ends whenever the formula has a model.       *)
(***************************************************************************)
THEOREM NotStuck == Spec => []StuckOnlyWithoutModel
<1>1. IInv => StuckOnlyWithoutModel
    BY DEF IInv
<1> QED
    BY <1>1, Invariance, PTL

(***************************************************************************)
(* The model printed with OPTIMUM FOUND is optimal.                         *)
(***************************************************************************)
THEOREM AnswersCorrectly == Spec => [](TypeOK /\ OptimumCorrect)
<1>1. IInv => TypeOK /\ OptimumCorrect
    BY DEF IInv
<1> QED
    BY <1>1, Invariance, PTL
-----------------------------------------------------------------------------
\* A model that is saved, or not, while the search goes on or answers.
LEMMA ModelImplements ==
    ASSUME TypeOK, ModelSaved, answer = Running, NEW P \in profiles, SaveModel(P),
           nbSatisfiable' = nbSatisfiable + 1,
           UNCHANGED <<profiles, lbCost>>,
           answer' = "_OPTIMUM_" \/ UNCHANGED answer,
           OptimumCorrect'
    PROVE  [Promise!Next]_(Promise!vars)
<1>1. answer = Promise!Running
    BY DEF Running, Promise!Running
<1>2. answer' = "_OPTIMUM_" => Promise!Optimal(model')
    BY DEF OptimumCorrect, Promise!Optimal
<1>3. CASE model' = P /\ ubCost' = cost[P] /\ ubCost' <= ubCost
  <2>1. Promise!SaveBetterModel(P)
    BY <1>3 DEF Promise!SaveBetterModel
  <2> QED
    BY <1>1, <1>2, <2>1
       DEF Promise!FindModel, Promise!AnswerOptimum, Promise!Next
<1>4. CASE UNCHANGED <<model, ubCost>>
    BY <1>1, <1>2, <1>4 DEF Promise!AnswerOptimum, Promise!Next, Promise!vars
<1> QED
    BY <1>3, <1>4, SaveModelStep

\* The bound grows, or the loop that raises it hangs.
LEMMA BoundImplements ==
    ASSUME TypeOK, TypeOK', LowerBound', RaiseBound(activeSoft'),
           answer = Running, UNCHANGED <<profiles, ubCost, model, answer>>
    PROVE  [Promise!Next]_(Promise!vars)
<1>1. answer = Promise!Running /\ lbCost' \in Nat
    BY DEF TypeOK, Running, Promise!Running
<1>2. CASE lbCost' > lbCost
  <2>1. ASSUME NEW P \in profiles PROVE lbCost' <= cost[P]
    <3>1. P \in SUBSET Soft /\ P \cap activeSoft' \in SUBSET P
      BY DEF TypeOK
    <3>2. /\ cost[P \cap activeSoft'] \in Nat /\ cost[P] \in Nat
          /\ cost[P \cap activeSoft'] <= cost[P]
      BY <3>1, CostMonotone
    <3>3. lbCost' <= cost[P \cap activeSoft']
      BY DEF LowerBound
    <3> QED
      BY <1>1, <3>2, <3>3
  <2> QED
    BY <1>1, <1>2, <2>1 DEF Promise!RaiseLowerBound, Promise!Next
<1>3. CASE UNCHANGED lbCost
    BY <1>3 DEF Promise!vars
<1> QED
    BY <1>2, <1>3 DEF RaiseBound

LEMMA StepImplements ==
    ASSUME IInv, IInv', [Next]_vars
    PROVE  [Promise!Next]_(Promise!vars)
<1>1. ASSUME NEW P \in profiles, Satisfiable(P)
      PROVE  [Promise!Next]_(Promise!vars)
    BY <1>1, ModelImplements DEF IInv, Satisfiable, Stop, problem
<1>2. CASE BudgetExhausted
    BY <1>2 DEF BudgetExhausted, problem, Promise!vars
<1>3. ASSUME NEW K \in SUBSET assumptions, Core(K)
      PROVE  [Promise!Next]_(Promise!vars)
    BY <1>3, BoundImplements DEF IInv, Core, problem
<1>4. CASE UNCHANGED vars
    BY <1>4 DEF vars, problem, Promise!vars
<1> QED
    BY <1>1, <1>2, <1>3, <1>4 DEF Next

(***************************************************************************)
(* Every behaviour of the search is one that MaxSATSearch allows.           *)
(***************************************************************************)
THEOREM Implementation == Spec => ImplementsMaxSATSearch
<1>1. Init => Promise!Init
    BY ProblemAssumption DEF Init, Promise!Init, Running, Promise!Running
<1>2. IInv /\ IInv' /\ [Next]_vars => [Promise!Next]_(Promise!vars)
    BY StepImplements
<1> QED
    BY <1>1, Invariance, <1>2, PTL DEF Spec, Promise!Spec, ImplementsMaxSATSearch

-----------------------------------------------------------------------------
\* Either search.

(***************************************************************************)
(* Nothing is assumed before the first model, and every soft clause that is *)
(* not relaxed is assumed from then on.                                     *)
(***************************************************************************)
AllAssumed ==
    answer = Running =>
        /\ nbSatisfiable = 0 => activeSoft = {} /\ assumptions = {}
        /\ nbSatisfiable > 0 => assumptions = Soft \ activeSoft

WInv ==
    /\ TypeOK
    /\ LowerBound
    /\ StuckOnlyWithoutModel
    /\ AllAssumed
    /\ ModelSaved
    /\ OptimumCorrect

\* Either search: UNSATISFIABLE is an answer of WMSU3 only.
EitherInv ==
    /\ upmax \in BOOLEAN
    /\ upmax => IInv
    /\ ~upmax => WInv \/ (answer = "_UNSATISFIABLE_" /\ profiles = {})
-----------------------------------------------------------------------------
LEMMA WMSU3InitWInv == WMSU3Init => WInv
<1> SUFFICES ASSUME WMSU3Init PROVE WInv
    OBVIOUS
<1> USE DEF WMSU3Init, InitLabels
<1>1. current_partition \in 0..nSoftPartitions /\ cost[Soft] \in Nat
    BY PositionRange, CostAssumption
<1>2. TypeOK
    BY <1>1, ProblemAssumption DEF TypeOK
<1>3. LowerBound
  <2>1. ASSUME NEW P \in profiles PROVE lbCost <= cost[P \cap activeSoft]
    BY CostOfNone, P \cap activeSoft = {}
  <2> QED
    BY <2>1 DEF LowerBound
<1>4. StuckOnlyWithoutModel /\ AllAssumed /\ ModelSaved /\ OptimumCorrect
    BY DEF StuckOnlyWithoutModel, AllAssumed, ModelSaved, OptimumCorrect, Running
<1> QED
    BY <1>2, <1>3, <1>4 DEF WInv

\* The labels are not read, so what is known of partitions stays true.
LEMMA PartitionKept ==
    ASSUME WInv, UNCHANGED <<problem, current_partition>>
    PROVE  current_partition' \in 0..nSoftPartitions'
    BY PartitionsFixed DEF WInv, TypeOK, problem

(***************************************************************************)
(* The first model is optimal when it costs nothing or what the lower bound *)
(* is, the second because it falsifies relaxed soft clauses only.           *)
(***************************************************************************)
LEMMA ModelStep ==
    ASSUME WInv, answer = Running, ~stuck, NEW P \in profiles, Model(P),
           UNCHANGED <<problem, current_partition, activeSoftPartition>>
    PROVE  WInv'
<1> USE DEF WInv, Model, problem
<1>1. /\ nbSatisfiable' > 0
      /\ model' \in profiles
      /\ ubCost' = cost[model']
      /\ ubCost' \in Nat
      /\ ubCost' <= cost[P]
    BY SaveModelStep
<1>2. assumptions' \in SUBSET Soft /\ answer' \in {Running, "_OPTIMUM_"}
    BY DEF TypeOK
<1>3. TypeOK'
    BY <1>1, <1>2, PartitionKept DEF TypeOK
<1>4. LowerBound' /\ StuckOnlyWithoutModel' /\ ModelSaved'
    BY <1>1 DEF LowerBound, StuckOnlyWithoutModel, ModelSaved
<1>5. AllAssumed'
    BY <1>1 DEF AllAssumed, TypeOK, Running
<1>6. ASSUME answer' = "_OPTIMUM_", NEW Q \in profiles
      PROVE  cost[model'] <= cost[Q]
  <2>1. /\ P \in SUBSET Soft /\ cost[P] \in Nat
        /\ Q \in SUBSET Soft /\ cost[Q] \in Nat
        /\ lbCost \in Nat
    BY CostAssumption DEF TypeOK
  <2>2. lbCost <= cost[Q]
    <3>1. /\ cost[Q \cap activeSoft] \in Nat
          /\ cost[Q \cap activeSoft] <= cost[Q]
      BY <2>1, CostMonotone
    <3>2. lbCost <= cost[Q \cap activeSoft]
      BY DEF LowerBound
    <3> QED
      BY <2>1, <3>1, <3>2
  <2>3. CASE ubCost' = 0 \/ lbCost = ubCost'
    BY <1>1, <2>1, <2>2, <2>3
  <2>4. CASE nbSatisfiable > 0
    <3>1. P \cap activeSoft = P
      BY <2>1, <2>4 DEF AllAssumed, SatisfiesQuery
    <3>2. cost[P] <= lbCost
      BY <3>1 DEF SatisfiesQuery, WithinBound
    <3> QED
      BY <1>1, <2>1, <2>2, <3>2
  <2> QED
    BY <1>6, <2>3, <2>4 DEF Running
<1>7. OptimumCorrect'
    BY <1>1, <1>6 DEF OptimumCorrect
<1> QED
    BY <1>3, <1>4, <1>5, <1>7

LEMMA RelaxedCoreStep ==
    ASSUME WInv, answer = Running, ~stuck, NEW K \in SUBSET assumptions, RelaxedCore(K),
           UNCHANGED <<problem, current_partition, activeSoftPartition>>
    PROVE  WInv'
<1> USE DEF WInv, RelaxedCore, problem
<1>1. K \in SUBSET (Soft \ activeSoft)
    BY DEF AllAssumed
<1>2. /\ activeSoft' \in SUBSET Soft
      /\ lbCost' \in Nat /\ stuck' \in BOOLEAN
      /\ LowerBound' /\ StuckOnlyWithoutModel'
    BY <1>1, RaiseBoundStep
<1>3. TypeOK'
    BY <1>2, PartitionKept DEF TypeOK
<1>4. AllAssumed' /\ ModelSaved' /\ OptimumCorrect'
    BY DEF AllAssumed, ModelSaved, OptimumCorrect, Running
<1> QED
    BY <1>2, <1>3, <1>4

LEMMA WMSU3StepEitherInv ==
    ASSUME EitherInv, WMSU3Step
    PROVE  EitherInv'
<1> USE DEF WMSU3Step
<1>1. WInv
    BY DEF EitherInv, Running
<1>2. ASSUME NEW P \in profiles, Model(P) PROVE WInv'
    BY <1>1, <1>2, ModelStep
<1>3. ASSUME NEW K \in SUBSET assumptions, RelaxedCore(K) PROVE WInv'
    BY <1>1, <1>3, RelaxedCoreStep
<1>4. CASE NoModelAtAll
    BY <1>4 DEF NoModelAtAll, EitherInv, problem
<1> QED
    BY <1>2, <1>3, <1>4 DEF EitherInv

(***************************************************************************)
(* EitherInv is an invariant of both searches.                              *)
(***************************************************************************)
THEOREM EitherInvariance == EitherSpec => []EitherInv
<1>1. EitherInit => EitherInv
    BY InitIInv, WMSU3InitWInv DEF EitherInit, EitherInv
<1>2. EitherInv /\ [EitherNext]_WMSU3vars => EitherInv'
  <2> SUFFICES ASSUME EitherInv, [EitherNext]_WMSU3vars PROVE EitherInv'
    OBVIOUS
  <2>1. CASE UpWMSU3Step
    BY <2>1, StepIInv DEF UpWMSU3Step, EitherInv
  <2>2. CASE WMSU3Step
    BY <2>2, WMSU3StepEitherInv
  <2>3. CASE UNCHANGED WMSU3vars
    <3>1. UNCHANGED vars /\ UNCHANGED <<upmax, answer, profiles>>
      BY <2>3 DEF WMSU3vars, vars, problem
    <3>2. WInv => WInv'
      BY <3>1, PartitionKept
         DEF vars, problem, search, WInv, TypeOK, LowerBound, StuckOnlyWithoutModel,
             AllAssumed, ModelSaved, OptimumCorrect
    <3>3. IInv => IInv'
      BY <3>1, StepIInv
    <3> QED
      BY <3>1, <3>2, <3>3 DEF EitherInv
  <2> QED
    BY <2>1, <2>2, <2>3 DEF EitherNext
<1> QED
    BY <1>1, <1>2, PTL DEF EitherSpec

(***************************************************************************)
(* Neither search lets lbCost pass what a model costs.                      *)
(***************************************************************************)
THEOREM EitherLowerBound == EitherSpec => []LowerBound
<1>1. EitherInv => LowerBound
    BY DEF EitherInv, IInv, WInv, LowerBound
<1> QED
    BY <1>1, EitherInvariance, PTL

(***************************************************************************)
(* Neither search hangs on a formula that has a model.                      *)
(***************************************************************************)
THEOREM EitherNotStuck == EitherSpec => []StuckOnlyWithoutModel
<1>1. EitherInv => StuckOnlyWithoutModel
    BY DEF EitherInv, IInv, WInv, StuckOnlyWithoutModel
<1> QED
    BY <1>1, EitherInvariance, PTL

(***************************************************************************)
(* The model that either prints with "s OPTIMUM FOUND" is one that no other *)
(* beats.                                                                   *)
(***************************************************************************)
THEOREM EitherAnswersCorrectly == EitherSpec => []OptimumCorrect
<1>1. EitherInv => OptimumCorrect
    BY DEF EitherInv, IInv, WInv, OptimumCorrect
<1> QED
    BY <1>1, EitherInvariance, PTL

(***************************************************************************)
(* Both implement MaxSATSearch.                                             *)
(***************************************************************************)
THEOREM EitherImplementation == EitherSpec => ImplementsMaxSATSearch
<1>1. EitherInit => Promise!Init
    BY ProblemAssumption
       DEF EitherInit, Init, WMSU3Init, Promise!Init, Running, Promise!Running
<1>2. EitherInv /\ EitherInv' /\ [EitherNext]_WMSU3vars
          => [Promise!Next]_(Promise!vars)
  <2> SUFFICES ASSUME EitherInv, EitherInv', [EitherNext]_WMSU3vars
               PROVE  [Promise!Next]_(Promise!vars)
    OBVIOUS
  <2>1. CASE UpWMSU3Step
    BY <2>1, StepImplements DEF UpWMSU3Step, EitherInv
  <2>2. CASE WMSU3Step
    <3> USE <2>2 DEF WMSU3Step, problem
    <3>1. WInv /\ lbCost \in Nat
      BY DEF EitherInv, WInv, TypeOK, Running
    <3>2. ASSUME NEW P \in profiles, Model(P)
          PROVE  [Promise!Next]_(Promise!vars)
      BY <3>1, <3>2, ModelImplements, ModelStep DEF WInv, Model
    <3>3. ASSUME NEW K \in SUBSET assumptions, RelaxedCore(K)
          PROVE  [Promise!Next]_(Promise!vars)
      BY <3>1, <3>3, BoundImplements, RelaxedCoreStep DEF WInv, RelaxedCore
    <3>4. CASE NoModelAtAll
      BY <3>1, <3>4 DEF NoModelAtAll, Running, Promise!Running,
                        Promise!AnswerUnsatisfiable, Promise!Next
    <3> QED
      BY <3>2, <3>3, <3>4
  <2>3. CASE UNCHANGED WMSU3vars
    BY <2>3 DEF WMSU3vars, vars, problem, Promise!vars
  <2> QED
    BY <2>1, <2>2, <2>3 DEF EitherNext
<1> QED
    BY <1>1, <1>2, EitherInvariance, PTL
       DEF EitherSpec, Promise!Spec, ImplementsMaxSATSearch
=============================================================================
