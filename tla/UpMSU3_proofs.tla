---------------------------- MODULE UpMSU3_proofs ----------------------------
(***************************************************************************)
(* The default algorithm and the partitions it is given: the safety         *)
(* properties of UpMSU3, for every finite set of soft clauses, every family *)
(* of problems, every number of labels and every budget, and those of the   *)
(* communities that automatic partitioning finds.                           *)
(*                                                                         *)
(* AnswerCorrect is not inductive: that the model found on the last         *)
(* partition is optimal follows from the lower bound, from the totalizer    *)
(* being in step with it, from every soft clause being assumed or relaxed   *)
(* by then, and from the saved model being one of the problem's.  IInv is   *)
(* the conjunction of these.                                                *)
(***************************************************************************)
EXTENDS UpMSU3, Communities, SetSums

(***************************************************************************)
(* The saved model is a model of the problem and ubCost is what it costs.   *)
(***************************************************************************)
ModelSaved ==
    \/ model = NoModel /\ ubCost = Cardinality(Soft)
    \/ model \in profiles /\ ubCost = Cardinality(model)

(***************************************************************************)
(* While the search runs, the partitions up to current_partition have       *)
(* entered, and current_partition is one of them.                           *)
(***************************************************************************)
Entered ==
    answer = Running =>
        /\ current_partition < nSoftPartitions
        /\ activeSoftPartition =
              {i \in Soft : Position(SlotOf(i)) <= current_partition}

IInv ==
    /\ TypeOK
    /\ LowerBound
    /\ EncodingInStep
    /\ AssumedOrRelaxed
    /\ ModelSaved
    /\ Entered
    /\ AnswerCorrect
-----------------------------------------------------------------------------
\* The position of every soft clause's slot is that of some soft partition, so
\* after the last partition every soft clause has entered.
LEMMA PositionRange ==
    ASSUME label \in [Soft -> -1..nPartitions]
    PROVE  /\ nSoftPartitions \in Nat
           /\ 0 < nSoftPartitions
           /\ \A i \in Soft : Position(SlotOf(i)) \in 0..(nSoftPartitions - 1)
<1>1. IsFiniteSet(UsedSlots)
  <2>1. IsFiniteSet(0..nPartitions) /\ UsedSlots \in SUBSET (0..nPartitions)
    BY PartitionAssumption, FS_Interval DEF UsedSlots
  <2> QED
    BY <2>1, FS_Subset
<1>2. \A v \in UsedSlots : ~Before(v, v)
    BY SoftAssumption, PartitionAssumption, PartsOfFinite DEF Before, Slot, UsedSlots
<1>3. \A i \in Soft : SlotOf(i) \in UsedSlots
    BY PartitionAssumption DEF SlotOf, Slot, UsedSlots
<1>4. \A v \in UsedSlots : Position(v) \in 0..(nSoftPartitions - 1)
    BY <1>1, <1>2, PlaceAmong DEF Position, nSoftPartitions
<1>5. nSoftPartitions \in Nat
    BY <1>1, FS_CardinalityType DEF nSoftPartitions
<1> QED
    BY <1>3, <1>4, <1>5, SoftAssumption

\* The labels never change, nor does what createPartitions made of them.
LEMMA PartitionsFixed ==
    ASSUME UNCHANGED label
    PROVE  /\ nSoftPartitions' = nSoftPartitions
           /\ \A i \in Soft : Position(SlotOf(i))' = Position(SlotOf(i))
    BY DEF nSoftPartitions, Position, UsedSlots, Slot, SlotOf, Before

\* Sets of soft clauses are finite and no larger than a set they are part of.
LEMMA SoftSets ==
    ASSUME NEW S \in SUBSET Soft
    PROVE  /\ IsFiniteSet(S)
           /\ Cardinality(S) \in Nat
           /\ \A T \in SUBSET S : Cardinality(T) \in Nat /\ Cardinality(T) <= Cardinality(S)
<1>1. IsFiniteSet(S)
    BY SoftAssumption, PartsOfFinite
<1> QED
    BY <1>1, PartsOfFinite

-----------------------------------------------------------------------------
LEMMA InitIInv == Init => IInv
<1> SUFFICES ASSUME Init PROVE IInv
    OBVIOUS
<1> USE DEF Init, InitLabels
<1>1. /\ SoftPartition(0) \in SUBSET Soft
      /\ SoftPartition(0) = {i \in Soft : Position(SlotOf(i)) <= 0}
    BY PositionRange DEF SoftPartition
<1>2. Cardinality({}) = 0 /\ Cardinality(Soft) \in Nat
    BY FS_EmptySet, SoftSets
<1>3. TypeOK
  <2>1. current_partition \in 0..nSoftPartitions
    BY PositionRange
  <2> QED
    BY <1>1, <1>2, <2>1, ProblemAssumption DEF TypeOK
<1>4. LowerBound
    BY <1>2 DEF LowerBound
<1>5. EncodingInStep
    BY <1>2 DEF EncodingInStep
<1>6. AssumedOrRelaxed /\ ModelSaved
    BY DEF AssumedOrRelaxed, ModelSaved
<1>7. Entered
    BY <1>1, PositionRange DEF Entered
<1>8. AnswerCorrect
    BY DEF AnswerCorrect, Running
<1> QED
    BY <1>3, <1>4, <1>5, <1>6, <1>7, <1>8 DEF IInv

\* current_partition and the one after it index soft_partitions or its end.
LEMMA IndexInRange ==
    ASSUME IInv, UNCHANGED label
    PROVE  /\ current_partition \in 0..nSoftPartitions'
           /\ answer = Running => current_partition + 1 \in 0..nSoftPartitions'
<1>1. /\ nSoftPartitions \in Nat
      /\ nSoftPartitions' = nSoftPartitions
    BY PositionRange, PartitionsFixed DEF IInv, TypeOK
<1> QED
    BY <1>1 DEF IInv, TypeOK, Entered

\* A model of a query of the last partition costs no more than any model: it
\* falsifies no more than lbCost soft clauses.
LEMMA LastModelOptimal ==
    ASSUME IInv, answer = Running, LastPartition,
           NEW P \in profiles, SatisfiesQuery(P),
           NEW Q \in profiles
    PROVE  Cardinality(P) <= Cardinality(Q)
<1>1. activeSoftPartition = Soft
  <2>1. /\ nSoftPartitions \in Nat
        /\ \A i \in Soft : Position(SlotOf(i)) \in 0..(nSoftPartitions - 1)
    BY PositionRange DEF IInv, TypeOK
  <2>2. current_partition \in Nat /\ current_partition + 1 = nSoftPartitions
    BY DEF IInv, TypeOK, LastPartition
  <2>3. \A i \in Soft : Position(SlotOf(i)) <= current_partition
    BY <2>1, <2>2
  <2> QED
    BY <2>3 DEF IInv, Entered
<1>2. P \in SUBSET Soft /\ Q \in SUBSET Soft /\ activeSoft \in SUBSET Soft
    BY DEF IInv, TypeOK
<1>3. P \subseteq activeSoft
    BY <1>1, <1>2 DEF IInv, AssumedOrRelaxed, SatisfiesQuery
<1>4. Cardinality(P) <= lbCost
  <2>1. CASE hasEncoding
    BY <2>1, <1>3, P \cap encoded = P
       DEF IInv, EncodingInStep, SatisfiesQuery, WithinBound
  <2>2. CASE ~hasEncoding
    BY <2>2, <1>2, <1>3, SoftSets DEF IInv, EncodingInStep
  <2> QED
    BY <2>1, <2>2
<1>5. lbCost <= Cardinality(Q \cap activeSoft)
    BY DEF IInv, LowerBound
<1>6. /\ Cardinality(P) \in Nat
      /\ Cardinality(Q) \in Nat
      /\ Cardinality(Q \cap activeSoft) \in Nat
      /\ Cardinality(Q \cap activeSoft) <= Cardinality(Q)
    BY <1>2, SoftSets
<1>7. lbCost \in Nat
    BY DEF IInv, TypeOK
<1> QED
    BY <1>4, <1>5, <1>6, <1>7

-----------------------------------------------------------------------------
\* The next partition enters: what is assumed is still what has entered and is
\* in no core.
LEMMA AddNextPartitionStep ==
    ASSUME IInv, answer = Running, UNCHANGED <<problem, activeSoft>>,
           current_partition' = current_partition + 1, AddNextPartition
    PROVE  /\ activeSoftPartition' \in SUBSET Soft
           /\ assumptions' \in SUBSET Soft
           /\ AssumedOrRelaxed'
           /\ Entered'
<1> DEFINE new == SoftPartition(current_partition + 1)
<1>1. new \in SUBSET Soft
    BY DEF SoftPartition
<1>2. /\ nSoftPartitions \in Nat
      /\ \A i \in Soft : Position(SlotOf(i)) \in 0..(nSoftPartitions - 1)
    BY PositionRange DEF IInv, TypeOK
<1>3. /\ activeSoftPartition' = activeSoftPartition \cup new
      /\ assumptions' = assumptions \cup new
    BY DEF AddNextPartition
<1>4. /\ current_partition \in Nat
      /\ current_partition + 1 < nSoftPartitions
    BY <1>2 DEF IInv, TypeOK, Entered, AddNextPartition, LastPartition
<1>5. activeSoftPartition = {i \in Soft : Position(SlotOf(i)) <= current_partition}
    BY DEF IInv, Entered
<1>6. activeSoft \subseteq activeSoftPartition
    BY DEF IInv, AssumedOrRelaxed
<1>7. new \cap activeSoft = {}
    BY <1>2, <1>4, <1>5, <1>6 DEF SoftPartition
<1>8. AssumedOrRelaxed'
    BY <1>3, <1>7 DEF IInv, AssumedOrRelaxed
<1>9. activeSoftPartition' =
          {i \in Soft : Position(SlotOf(i)) <= current_partition + 1}
    BY <1>2, <1>3, <1>4, <1>5 DEF SoftPartition
<1>10. Entered'
    BY <1>4, <1>9, PartitionsFixed DEF Entered, problem
<1> QED
    BY <1>1, <1>3, <1>8, <1>10 DEF IInv, TypeOK

\* Whether the model found is saved or not, the saved one is the problem's and
\* ubCost is its cost.
LEMMA SaveModelStep ==
    ASSUME IInv, NEW P \in profiles, SaveModel(P), UNCHANGED profiles
    PROVE  /\ ubCost' \in Nat
           /\ model' \in {NoModel} \cup SUBSET Soft
           /\ ModelSaved'
           /\ model' \in profiles
           /\ ubCost' = Cardinality(model')
           /\ ubCost' <= ubCost
           /\ ubCost' <= Cardinality(P)
<1>1. /\ P \in SUBSET Soft
      /\ Cardinality(P) \in Nat
      /\ Cardinality(P) <= Cardinality(Soft)
      /\ Cardinality(Soft) \in Nat
      /\ ubCost \in Nat
    BY SoftSets DEF IInv, TypeOK
<1>2. CASE Cost(P) <= ubCost /\ model' = P /\ ubCost' = Cost(P)
    BY <1>1, <1>2 DEF Cost, ModelSaved
<1>3. CASE Cost(P) > ubCost /\ UNCHANGED <<model, ubCost>>
    BY <1>1, <1>3 DEF Cost, IInv, TypeOK, ModelSaved
<1> QED
    BY <1>2, <1>3 DEF SaveModel

LEMMA SatisfiableStep ==
    ASSUME IInv, NEW P \in profiles, Satisfiable(P)
    PROVE  IInv'
<1> USE DEF Satisfiable, problem, encoder
<1>1. /\ ubCost' \in Nat
      /\ model' \in {NoModel} \cup SUBSET Soft
      /\ ModelSaved'
      /\ model' \in profiles
      /\ ubCost' = Cardinality(model')
      /\ ubCost' <= Cardinality(P)
    BY SaveModelStep
<1>2. LowerBound'
    BY DEF IInv, LowerBound
<1>3. CASE (ubCost' = 0 \/ LastPartition) /\ Stop("_OPTIMUM_")
  <2>1. TypeOK'
    BY <1>1, <1>3, IndexInRange DEF IInv, TypeOK, Stop
  <2>2. AssumedOrRelaxed'
    BY <1>3 DEF IInv, AssumedOrRelaxed, Stop
  <2>3. answer' = "_OPTIMUM_" /\ answer' # Running
    BY <1>3 DEF Stop, Running
  <2>4. EncodingInStep' /\ Entered'
    BY <2>3 DEF EncodingInStep, Entered, Running
  <2>5. ASSUME NEW Q \in profiles PROVE Cardinality(model') <= Cardinality(Q)
    <3>1. Cardinality(Q) \in Nat /\ Cardinality(P) \in Nat
      BY SoftSets DEF IInv, TypeOK
    <3>2. CASE ubCost' = 0
      BY <1>1, <3>1, <3>2
    <3>3. CASE LastPartition
      BY <1>1, <3>1, <3>3, LastModelOptimal
    <3> QED
      BY <1>3, <3>2, <3>3
  <2>6. AnswerCorrect'
    BY <1>1, <2>3, <2>5 DEF AnswerCorrect, Cost
  <2> QED
    BY <1>1, <1>2, <2>1, <2>2, <2>4, <2>6 DEF IInv
<1>4. CASE (ubCost' # 0) /\ AddNextPartition
  <2>1. /\ activeSoftPartition' \in SUBSET Soft
        /\ assumptions' \in SUBSET Soft
        /\ AssumedOrRelaxed'
        /\ Entered'
    BY <1>4, AddNextPartitionStep
  <2>2. answer' = Running
    BY <1>4 DEF AddNextPartition
  <2>3. TypeOK'
    BY <1>1, <2>1, <2>2, IndexInRange DEF IInv, TypeOK
  <2>4. EncodingInStep'
    BY <2>2 DEF IInv, EncodingInStep
  <2>5. AnswerCorrect'
    BY <2>2 DEF AnswerCorrect, Running
  <2> QED
    BY <1>1, <1>2, <2>1, <2>3, <2>4, <2>5 DEF IInv
<1> QED
    BY <1>3, <1>4

LEMMA BudgetExhaustedStep ==
    ASSUME IInv, BudgetExhausted
    PROVE  IInv'
<1> USE DEF BudgetExhausted, problem, encoder
<1>1. /\ activeSoftPartition' \in SUBSET Soft
      /\ assumptions' \in SUBSET Soft
      /\ AssumedOrRelaxed'
      /\ Entered'
    BY AddNextPartitionStep
<1>2. answer' = Running
    BY DEF AddNextPartition
<1>3. TypeOK'
    BY <1>1, <1>2, IndexInRange DEF IInv, TypeOK
<1>4. LowerBound' /\ EncodingInStep' /\ ModelSaved'
    BY <1>2 DEF IInv, LowerBound, EncodingInStep, ModelSaved
<1>5. AnswerCorrect'
    BY <1>2 DEF AnswerCorrect, Running
<1> QED
    BY <1>1, <1>3, <1>4, <1>5 DEF IInv

\* A core raises the bound by one, and no model escapes the new bound: one that
\* falsifies none of the core's soft clauses already exceeded the old one.
LEMMA CoreRaisesBound ==
    ASSUME IInv, answer = Running, NEW K \in SUBSET assumptions, IsCore(K),
           NEW P \in profiles
    PROVE  lbCost + 1 <= Cardinality(P \cap (activeSoft \cup K))
<1>1. /\ P \in SUBSET Soft
      /\ K \in SUBSET Soft
      /\ activeSoft \in SUBSET Soft
      /\ lbCost \in Nat
      /\ rhs \in Nat
      /\ activeSoft \cap K = {}
    BY DEF IInv, TypeOK, AssumedOrRelaxed
<1>2. /\ Cardinality(P \cap activeSoft) \in Nat
      /\ Cardinality(P \cap (activeSoft \cup K)) \in Nat
      /\ Cardinality(activeSoft) \in Nat
      /\ Cardinality(P \cap activeSoft) <= Cardinality(activeSoft)
      /\ P \cap activeSoft \in SUBSET (P \cap (activeSoft \cup K))
      /\ P \cap (activeSoft \cup K) \in SUBSET Soft
    BY <1>1, SoftSets
<1>3. Cardinality(P \cap activeSoft) <= Cardinality(P \cap (activeSoft \cup K))
    BY <1>2, SoftSets
<1>4. lbCost <= Cardinality(P \cap activeSoft)
    BY DEF IInv, LowerBound
<1>5. CASE P \cap K # {}
  <2>1. Cardinality(P \cap activeSoft) + 1 <= Cardinality(P \cap (activeSoft \cup K))
    <3>1. IsFiniteSet(activeSoft \cup K)
      BY <1>1, SoftSets
    <3> QED
      BY <1>1, <1>5, <3>1, MeetsNewCore
  <2> QED
    BY <1>1, <1>2, <1>4, <2>1
<1>6. CASE P \cap K = {}
  <2>1. hasEncoding /\ ~(Cardinality(P \cap encoded) <= rhs)
    BY <1>6 DEF IsCore, WithinBound
  <2>2. encoded = activeSoft /\ rhs = lbCost
    BY <2>1 DEF IInv, EncodingInStep
  <2> QED
    BY <1>1, <1>2, <1>3, <2>1, <2>2
<1> QED
    BY <1>5, <1>6

LEMMA CoreStep ==
    ASSUME IInv, NEW K \in SUBSET assumptions, Core(K)
    PROVE  IInv'
<1> USE DEF Core, problem, encoder
<1>1. /\ K \in SUBSET activeSoftPartition
      /\ activeSoft' \in SUBSET Soft
      /\ activeSoft' \in SUBSET activeSoftPartition
      /\ Cardinality(activeSoft') \in Nat
      /\ lbCost' = lbCost + 1
      /\ lbCost' \in Nat
    BY SoftSets DEF IInv, TypeOK, AssumedOrRelaxed
<1>2. /\ hasEncoding' \in BOOLEAN
      /\ encoded' \in SUBSET Soft
      /\ rhs' \in Nat
      /\ EncodingInStep'
  <2>1. CASE ~hasEncoding /\ lbCost' # Cardinality(activeSoft')
    BY <1>1, <2>1 DEF UpdateEncoding, EncodingInStep
  <2>2. CASE ~hasEncoding /\ lbCost' = Cardinality(activeSoft')
    BY <1>1, <2>2 DEF UpdateEncoding, IInv, TypeOK, EncodingInStep
  <2>3. CASE hasEncoding
    BY <1>1, <2>3 DEF UpdateEncoding, IInv, TypeOK, EncodingInStep
  <2> QED
    BY <2>1, <2>2, <2>3 DEF IInv, TypeOK
<1>3. TypeOK'
    BY <1>1, <1>2, IndexInRange DEF IInv, TypeOK
<1>4. LowerBound'
    BY CoreRaisesBound DEF LowerBound
<1>5. AssumedOrRelaxed'
    BY <1>1 DEF AssumedOrRelaxed
<1>6. Entered'
    BY PartitionsFixed DEF IInv, Entered
<1>7. ModelSaved' /\ AnswerCorrect'
    BY DEF IInv, ModelSaved, AnswerCorrect, Running
<1> QED
    BY <1>2, <1>3, <1>4, <1>5, <1>6, <1>7 DEF IInv

LEMMA EmptyCoreStep ==
    ASSUME IInv, EmptyCore
    PROVE  IInv'
<1> USE DEF EmptyCore, Stop, problem, encoder
<1>1. TypeOK'
    BY IndexInRange DEF IInv, TypeOK
<1>2. LowerBound'
    BY DEF LowerBound
<1>3. EncodingInStep' /\ Entered'
    BY DEF EncodingInStep, Entered, Running
<1>4. AssumedOrRelaxed' /\ ModelSaved'
    BY DEF IInv, AssumedOrRelaxed, ModelSaved
<1>5. AnswerCorrect'
    BY DEF AnswerCorrect
<1> QED
    BY <1>1, <1>2, <1>3, <1>4, <1>5 DEF IInv

(***************************************************************************)
(* IInv is an invariant of the search.                                      *)
(***************************************************************************)
THEOREM Invariance == Spec => []IInv
<1>1. IInv /\ [Next]_vars => IInv'
  <2> SUFFICES ASSUME IInv, [Next]_vars PROVE IInv'
    OBVIOUS
  <2>1. ASSUME NEW P \in profiles, Satisfiable(P) PROVE IInv'
    BY <2>1, SatisfiableStep
  <2>2. CASE BudgetExhausted
    BY <2>2, BudgetExhaustedStep
  <2>3. ASSUME NEW K \in SUBSET assumptions, Core(K) PROVE IInv'
    BY <2>3, CoreStep
  <2>4. CASE EmptyCore
    BY <2>4, EmptyCoreStep
  <2>5. CASE UNCHANGED vars
    <3>1. TypeOK' /\ LowerBound' /\ EncodingInStep' /\ AssumedOrRelaxed' /\ ModelSaved'
      BY <2>5, IndexInRange
         DEF vars, problem, search, encoder, IInv, TypeOK, LowerBound,
             EncodingInStep, AssumedOrRelaxed, ModelSaved
    <3>2. Entered'
      BY <2>5, PartitionsFixed DEF vars, problem, search, IInv, Entered
    <3>3. AnswerCorrect'
      BY <2>5 DEF vars, problem, IInv, AnswerCorrect
    <3> QED
      BY <3>1, <3>2, <3>3 DEF IInv
  <2> QED
    BY <2>1, <2>2, <2>3, <2>4, <2>5 DEF Next
<1> QED
    BY InitIInv, <1>1, PTL DEF Spec

(***************************************************************************)
(* Every variable keeps its type.                                           *)
(***************************************************************************)
THEOREM TypeCorrect == Spec => []TypeOK
<1>1. IInv => TypeOK
    BY DEF IInv
<1> QED
    BY <1>1, Invariance, PTL

(***************************************************************************)
(* lbCost never passes what any model falsifies among the relaxed soft      *)
(* clauses, so it never passes the optimum.                                 *)
(***************************************************************************)
THEOREM LowerBoundHolds == Spec => []LowerBound
<1>1. IInv => LowerBound
    BY DEF IInv
<1> QED
    BY <1>1, Invariance, PTL

(***************************************************************************)
(* The totalizer is in step with the relaxed soft clauses and the bound,    *)
(* and a soft clause that has entered is assumed or relaxed.                *)
(***************************************************************************)
THEOREM QueriesCurrent == Spec => [](EncodingInStep /\ AssumedOrRelaxed)
<1>1. IInv => EncodingInStep /\ AssumedOrRelaxed
    BY DEF IInv
<1> QED
    BY <1>1, Invariance, PTL

(***************************************************************************)
(* The answer is right: the model printed with OPTIMUM FOUND is optimal,    *)
(* and UNSATISFIABLE means there is no model.                               *)
(***************************************************************************)
THEOREM AnswersCorrectly == Spec => []AnswerCorrect
<1>1. IInv => AnswerCorrect
    BY DEF IInv
<1> QED
    BY <1>1, Invariance, PTL
-----------------------------------------------------------------------------
(***************************************************************************)
(* UpMSU3 implements MaxSATSearch: a core raises the abstract lower bound,  *)
(* a model that is saved is an abstract FindModel, and what the code prints *)
(* at the end is an abstract answer.                                        *)
(***************************************************************************)
LEMMA CostIsCardinality ==
    ASSUME NEW P \in SUBSET Soft
    PROVE  [S \in SUBSET Soft |-> Cardinality(S)][P] = Cardinality(P)
    OBVIOUS

LEMMA InitImplements == Init => Promise!Init
    BY ProblemAssumption DEF Init, InitLabels, Promise!Init, Running, Promise!Running

LEMMA SatisfiableImplements ==
    ASSUME IInv, IInv', NEW P \in profiles, Satisfiable(P)
    PROVE  [Promise!Next]_(Promise!vars)
<1> USE DEF Satisfiable, problem, encoder
<1>1. /\ P \in SUBSET Soft
      /\ profiles \in SUBSET SUBSET Soft
      /\ UNCHANGED <<profiles, lbCost>>
      /\ answer = Promise!Running
    BY DEF IInv, TypeOK, Running, Promise!Running
<1>2. CASE Cost(P) <= ubCost /\ model' = P /\ ubCost' = Cost(P)
  <2>1. Promise!SaveBetterModel(P)
    BY <1>1, <1>2 DEF Promise!SaveBetterModel, Cost
  <2>2. CASE answer' = "_OPTIMUM_"
    <3>1. Promise!Optimal(model')
      BY <1>1, <2>2 DEF IInv, TypeOK, AnswerCorrect, Cost, Promise!Optimal
    <3>2. Promise!AnswerOptimum
      BY <1>1, <2>1, <2>2, <3>1 DEF Promise!AnswerOptimum
    <3> QED
      BY <3>2 DEF Promise!Next
  <2>3. CASE UNCHANGED answer
    BY <1>1, <2>1, <2>3 DEF Promise!FindModel, Promise!Next
  <2> QED
    BY <2>2, <2>3 DEF Stop, AddNextPartition
<1>3. CASE UNCHANGED <<model, ubCost>>
  <2>1. CASE answer' = "_OPTIMUM_"
    <3>1. Promise!Optimal(model')
      BY <1>1, <2>1 DEF IInv, TypeOK, AnswerCorrect, Cost, Promise!Optimal
    <3>2. Promise!AnswerOptimum
      BY <1>1, <1>3, <2>1, <3>1 DEF Promise!AnswerOptimum
    <3> QED
      BY <3>2 DEF Promise!Next
  <2>2. CASE UNCHANGED answer
    BY <1>1, <1>3, <2>2 DEF Promise!vars
  <2> QED
    BY <2>1, <2>2 DEF Stop, AddNextPartition
<1> QED
    BY <1>2, <1>3 DEF SaveModel

LEMMA CoreImplements ==
    ASSUME IInv, IInv', NEW K \in SUBSET assumptions, Core(K)
    PROVE  Promise!RaiseLowerBound
<1> USE DEF Core, problem, encoder
<1>1. /\ lbCost \in Nat
      /\ lbCost' = lbCost + 1
      /\ answer = Promise!Running
      /\ UNCHANGED <<profiles, ubCost, model, answer>>
    BY DEF IInv, TypeOK, Running, Promise!Running
<1>2. ASSUME NEW P \in profiles
      PROVE  lbCost' <= [S \in SUBSET Soft |-> Cardinality(S)][P]
  <2>1. P \in SUBSET Soft
    BY DEF IInv, TypeOK
  <2>2. /\ Cardinality(P) \in Nat
        /\ Cardinality(P \cap (activeSoft \cup K)) \in Nat
        /\ Cardinality(P \cap (activeSoft \cup K)) <= Cardinality(P)
    BY <2>1, SoftSets
  <2>3. lbCost + 1 <= Cardinality(P \cap (activeSoft \cup K))
    BY CoreRaisesBound
  <2> QED
    BY <1>1, <2>1, <2>2, <2>3, CostIsCardinality
<1>3. lbCost' \in Nat /\ lbCost' > lbCost
    BY <1>1
<1>4. \A P \in profiles : lbCost' <= [S \in SUBSET Soft |-> Cardinality(S)][P]
    BY <1>2
<1> QED
    BY <1>1, <1>3, <1>4 DEF Promise!RaiseLowerBound

LEMMA EmptyCoreImplements ==
    ASSUME IInv, EmptyCore
    PROVE  Promise!AnswerUnsatisfiable
    BY DEF EmptyCore, Stop, problem, encoder, IInv, TypeOK, Running,
           Promise!Running, Promise!AnswerUnsatisfiable

(***************************************************************************)
(* Every behaviour of the search is one that MaxSATSearch allows.           *)
(***************************************************************************)
THEOREM Implementation == Spec => ImplementsMaxSATSearch
<1>1. IInv /\ IInv' /\ [Next]_vars => [Promise!Next]_(Promise!vars)
  <2> SUFFICES ASSUME IInv, IInv', [Next]_vars
               PROVE  [Promise!Next]_(Promise!vars)
    OBVIOUS
  <2>1. ASSUME NEW P \in profiles, Satisfiable(P)
        PROVE  [Promise!Next]_(Promise!vars)
    BY <2>1, SatisfiableImplements
  <2>2. CASE BudgetExhausted
    BY <2>2 DEF BudgetExhausted, AddNextPartition, problem, Promise!vars
  <2>3. ASSUME NEW K \in SUBSET assumptions, Core(K)
        PROVE  [Promise!Next]_(Promise!vars)
    BY <2>3, CoreImplements DEF Promise!Next
  <2>4. CASE EmptyCore
    BY <2>4, EmptyCoreImplements DEF Promise!Next
  <2>5. CASE UNCHANGED vars
    BY <2>5 DEF vars, problem, search, encoder, Promise!vars
  <2> QED
    BY <2>1, <2>2, <2>3, <2>4, <2>5 DEF Next
<1> QED
    BY InitImplements, Invariance, <1>1, PTL DEF Spec, Promise!Spec, ImplementsMaxSATSearch
-----------------------------------------------------------------------------
(***************************************************************************)
(* The communities found, for every undirected graph, every order in which  *)
(* the vertices are moved and every way ties between communities fall.      *)
(*                                                                         *)
(* The working graph is the original one with vertices made one (Folded),   *)
(* so sums over edges of the one are sums over edges of the other, and      *)
(* inside and total are such sums of the working graph (CountsKept).  A     *)
(* level that has moved nothing has found no vertex that gains by entering  *)
(* the community of another, and that level is the last (NothingMoved).     *)
(***************************************************************************)

\* The folds of SumFunctionOnSet over integers, from sums of natural numbers.
LEMMA FunctionSum ==
    ASSUME NEW S, NEW w, NEW p, NEW n, Weighing(p, S), Weighing(n, S),
           \A x \in S : w[x] = p[x] - n[x]
    PROVE  SumFunctionOnSet(w, S) = SumOver(p, S) - SumOver(n, S)
<1> DEFINE some(s) == CHOOSE x \in s : TRUE
           Sums(f) == f = [s \in SUBSET S |->
                             IF s = {} THEN 0 ELSE w[some(s)] + f[s \ {some(s)}]]
           sum == CHOOSE f : Sums(f)
           size == [s \in SUBSET S |-> SumOver(p, s) - SumOver(n, s)]
<1>1. SumFunctionOnSet(w, S) = sum[S]
    BY DEF SumFunctionOnSet, FoldFunctionOnSet, MapThenFoldSet
<1>2. Sums(size)
  <2>1. ASSUME NEW s \in SUBSET S, s # {}
        PROVE  size[s] = w[some(s)] + size[s \ {some(s)}]
    <3>1. /\ some(s) \in s
          /\ Weighing(p, s) /\ Weighing(n, s)
          /\ p[some(s)] \in Nat /\ n[some(s)] \in Nat
      BY <2>1, WeighingParts DEF Weighing
    <3>2. /\ SumOver(p, s) = SumOver(p, s \ {some(s)}) + p[some(s)]
          /\ SumOver(n, s) = SumOver(n, s \ {some(s)}) + n[some(s)]
          /\ SumOver(p, s \ {some(s)}) \in Nat /\ SumOver(n, s \ {some(s)}) \in Nat
      <4> HIDE DEF some
      <4> QED
        BY <3>1, SumWithout
    <3> QED
      BY <3>1, <3>2
  <2>2. size[{}] = 0
    BY SumOfNone
  <2>3. size = [s \in SUBSET S |-> IF s = {} THEN 0 ELSE w[some(s)] + size[s \ {some(s)}]]
    BY <2>1, <2>2
  <2> QED
    BY <2>3
<1>3. Sums(sum)
  <2> HIDE DEF size, Sums
  <2> QED
    BY <1>2
<1> DEFINE C == {T \in SUBSET S : sum[T] = size[T]}
<1>4. ASSUME NEW T \in SUBSET S, \A x \in T : T \ {x} \in C
      PROVE  T \in C
  <2> HIDE DEF sum, size
  <2>1. sum[T] = IF T = {} THEN 0 ELSE w[some(T)] + sum[T \ {some(T)}]
    BY <1>3
  <2>2. size[T] = IF T = {} THEN 0 ELSE w[some(T)] + size[T \ {some(T)}]
    BY <1>2
  <2> QED
    BY <1>4, <2>1, <2>2
<1>5. \A T \in SUBSET S : T \in C
  <2> HIDE DEF C
  <2> QED
    BY <1>4, SubsetInduction DEF Weighing
<1> QED
    BY <1>1, <1>5

\* On natural numbers both folds are the same sum.
LEMMA NaturalSum ==
    ASSUME NEW S, NEW w, Weighing(w, S)
    PROVE  SumFunctionOnSet(w, S) = SumOver(w, S)
<1> DEFINE none == [x \in S |-> 0]
<1>1. Weighing(none, S) /\ SumOver(none, S) = 0
    BY SumOfZeros DEF Weighing
<1>2. \A x \in S : w[x] = w[x] - none[x]
    BY DEF Weighing
<1>3. SumFunctionOnSet(w, S) = SumOver(w, S) - SumOver(none, S)
  <2> HIDE DEF none
  <2> QED
    BY <1>1, <1>2, FunctionSum
<1> QED
    BY <1>1, <1>3, SumType

\* Zeros may be left out of a sum of natural numbers.
LEMMA ZerosApart ==
    ASSUME NEW S, NEW w, Weighing(w, S), NEW T \in SUBSET S, \A x \in S \ T : w[x] = 0
    PROVE  SumOver(w, S) = SumOver(w, T)
<1>1. Weighing(w, T) /\ Weighing(w, S \ T) /\ T \cup (S \ T) = S
    BY WeighingParts
<1>2. SumOver(w, S) = SumOver(w, T) + SumOver(w, S \ T)
    BY <1>1, SumApart
<1>3. SumOver(w, S \ T) = 0
    BY <1>1, SumOfZeros DEF Weighing
<1> QED
    BY <1>1, <1>2, <1>3, SumType

\* Zeros may be left out of a sum of integers.
LEMMA SameSum ==
    ASSUME NEW S, IsFiniteSet(S), NEW w, \A x \in S : w[x] \in Int,
           NEW T \in SUBSET S, \A x \in S \ T : w[x] = 0,
           NEW v, \A x \in T : v[x] = w[x]
    PROVE  SumFunctionOnSet(v, T) = SumFunctionOnSet(w, S)
<1> DEFINE p == [x \in S |-> IF w[x] > 0 THEN w[x] ELSE 0]
           n == [x \in S |-> IF w[x] > 0 THEN 0 ELSE -w[x]]
<1>1. /\ Weighing(p, S) /\ Weighing(n, S)
      /\ \A x \in S : w[x] = p[x] - n[x]
      /\ \A x \in S \ T : p[x] = 0 /\ n[x] = 0
    BY DEF Weighing
<1> HIDE DEF p, n
<1>2. Weighing(p, T) /\ Weighing(n, T) /\ \A x \in T : v[x] = p[x] - n[x]
    BY <1>1, WeighingParts
<1>3. SumFunctionOnSet(w, S) = SumOver(p, S) - SumOver(n, S)
    BY <1>1, FunctionSum
<1>4. SumFunctionOnSet(v, T) = SumOver(p, T) - SumOver(n, T)
    BY <1>2, FunctionSum
<1>5. SumOver(p, S) = SumOver(p, T) /\ SumOver(n, S) = SumOver(n, T)
    BY <1>1, ZerosApart
<1> QED
    BY <1>3, <1>4, <1>5
-----------------------------------------------------------------------------
\* What the edges from S to T weigh, in the matrix W.
Edges(W, S, T) == SumOver([u \in S |-> SumOver(W[u], T)], S)

\* What one edge weighs.
Weight(W, u, v) == W[u][v]

Matrix(W, V) ==
    /\ IsFiniteSet(V)
    /\ W \in [V -> [V -> Nat]]
    /\ \A u, v \in V : Weight(W, u, v) = Weight(W, v, u)

\* The rows of a matrix are summed, and so are the sums.
LEMMA RowSums ==
    ASSUME NEW V, NEW W, Matrix(W, V), NEW S \in SUBSET V, NEW T \in SUBSET V
    PROVE  /\ Weighing([u \in S |-> SumOver(W[u], T)], S)
           /\ Edges(W, S, T) \in Nat
<1>1. IsFiniteSet(S) /\ \A u \in S : Weighing(W[u], T)
    BY FS_Subset DEF Matrix, Weighing
<1>2. Weighing([u \in S |-> SumOver(W[u], T)], S)
    BY <1>1, SumType DEF Weighing
<1> QED
    BY <1>2, SumType DEF Edges

\* One row.
LEMMA RowEdges ==
    ASSUME NEW V, NEW W, Matrix(W, V), NEW u \in V, NEW T \in SUBSET V
    PROVE  Edges(W, {u}, T) = SumOver(W[u], T)
<1> DEFINE row == [v \in {u} |-> SumOver(W[v], T)]
<1>1. Weighing(row, {u})
    BY RowSums
<1>2. row[u] = SumOver(W[u], T) /\ {u} \ {u} = {}
    OBVIOUS
<1>3. SumOver(row, {u}) = SumOver(row, {}) + row[u] /\ row[u] \in Nat
  <2> HIDE DEF row
  <2> QED
    BY <1>1, <1>2, SumWithout DEF Weighing
<1> QED
    BY <1>2, <1>3, SumOfNone DEF Edges

\* One edge.
LEMMA OneEdge ==
    ASSUME NEW V, NEW W, Matrix(W, V)
    PROVE  \A u, v \in V : Edges(W, {u}, {v}) = Weight(W, u, v)
<1> TAKE u, v \in V
<1>1. Weighing(W[u], {v}) /\ W[u][v] \in Nat
  <2>1. W[u] \in [V -> Nat]
    BY DEF Matrix
  <2>2. IsFiniteSet({v})
    BY FS_Singleton
  <2> QED
    BY <2>1, <2>2 DEF Weighing
<1>2. SumOver(W[u], {v}) = SumOver(W[u], {v} \ {v}) + W[u][v]
    BY <1>1, SumWithout
<1>3. {v} \ {v} = {}
    OBVIOUS
<1> QED
    BY <1>1, <1>2, <1>3, SumOfNone, RowEdges DEF Weight

\* Sources in two parts.
LEMMA EdgesFrom ==
    ASSUME NEW V, NEW W, Matrix(W, V), NEW T \in SUBSET V,
           NEW A \in SUBSET V, NEW B \in SUBSET V, A \cap B = {}
    PROVE  Edges(W, A \cup B, T) = Edges(W, A, T) + Edges(W, B, T)
<1> DEFINE row(S) == [u \in S |-> SumOver(W[u], T)]
<1>1. Weighing(row(A \cup B), A \cup B) /\ Weighing(row(A), A) /\ Weighing(row(B), B)
    BY RowSums
<1>2. /\ SumOver(row(A \cup B), A) = SumOver(row(A), A)
      /\ SumOver(row(A \cup B), B) = SumOver(row(B), B)
  <2>1. /\ \A u \in A : row(A \cup B)[u] = row(A)[u]
        /\ \A u \in B : row(A \cup B)[u] = row(B)[u]
    OBVIOUS
  <2> HIDE DEF row
  <2> QED
    BY <1>1, <2>1, SumSame
<1>3. SumOver(row(A \cup B), A \cup B)
        = SumOver(row(A \cup B), A) + SumOver(row(A \cup B), B)
  <2> HIDE DEF row
  <2> QED
    BY <1>1, SumApart
<1> QED
    BY <1>2, <1>3 DEF Edges

\* Targets in two parts.
LEMMA EdgesTo ==
    ASSUME NEW V, NEW W, Matrix(W, V), NEW S \in SUBSET V,
           NEW A \in SUBSET V, NEW B \in SUBSET V, A \cap B = {}
    PROVE  Edges(W, S, A \cup B) = Edges(W, S, A) + Edges(W, S, B)
<1> DEFINE row(T) == [u \in S |-> SumOver(W[u], T)]
<1>1. Weighing(row(A), S) /\ Weighing(row(B), S)
    BY RowSums
<1>2. \A u \in S : row(A \cup B)[u] = row(A)[u] + row(B)[u]
  <2>1. ASSUME NEW u \in S
        PROVE  SumOver(W[u], A \cup B) = SumOver(W[u], A) + SumOver(W[u], B)
    <3>1. Weighing(W[u], A \cup B)
      BY FS_Subset DEF Matrix, Weighing
    <3> QED
      BY <3>1, SumApart
  <2> QED
    BY <2>1
<1>3. SumOver(row(A \cup B), S) = SumOver(row(A), S) + SumOver(row(B), S)
  <2> HIDE DEF row
  <2> QED
    BY <1>1, <1>2, SumPlus
<1> QED
    BY <1>3 DEF Edges

\* No edges.
LEMMA NoEdges ==
    ASSUME NEW V, NEW W, Matrix(W, V), NEW S \in SUBSET V
    PROVE  Edges(W, {}, S) = 0 /\ Edges(W, S, {}) = 0
<1>1. Edges(W, {}, S) = 0
    BY SumOfNone DEF Edges
<1>2. IsFiniteSet(S) /\ \A u \in S : [v \in S |-> SumOver(W[v], {})][u] = 0
    BY SumOfNone, FS_Subset DEF Matrix
<1>3. Edges(W, S, {}) = 0
    BY <1>2, SumOfZeros DEF Edges
<1> QED
    BY <1>1, <1>3

\* The edges of one vertex, seen from both sides.
LEMMA EdgesOfOne ==
    ASSUME NEW V, NEW W, Matrix(W, V), NEW u \in V, NEW T \in SUBSET V
    PROVE  Edges(W, T, {u}) = Edges(W, {u}, T)
<1> DEFINE C == {U \in SUBSET T : Edges(W, U, {u}) = Edges(W, {u}, U)}
<1>1. ASSUME NEW U \in SUBSET T, \A x \in U : U \ {x} \in C
      PROVE  U \in C
  <2>1. CASE U = {}
    BY <2>1, NoEdges
  <2>2. CASE U # {}
    <3>1. PICK x \in U : TRUE
      BY <2>2
    <3>2. /\ U = (U \ {x}) \cup {x} /\ (U \ {x}) \cap {x} = {}
          /\ U \ {x} \in SUBSET V /\ {x} \in SUBSET V /\ {u} \in SUBSET V /\ x \in V
      BY <3>1
    <3>3. Edges(W, U, {u}) = Edges(W, U \ {x}, {u}) + Edges(W, {x}, {u})
      BY <3>2, EdgesFrom
    <3>4. Edges(W, {u}, U) = Edges(W, {u}, U \ {x}) + Edges(W, {u}, {x})
      BY <3>2, EdgesTo
    <3>5. /\ Edges(W, {x}, {u}) = Weight(W, x, u)
          /\ Edges(W, {u}, {x}) = Weight(W, u, x)
      BY <3>2, OneEdge
    <3>6. Weight(W, x, u) = Weight(W, u, x)
      BY <3>2 DEF Matrix
    <3>7. Edges(W, U \ {x}, {u}) = Edges(W, {u}, U \ {x})
      BY <1>1, <3>1
    <3> QED
      BY <3>3, <3>4, <3>5, <3>6, <3>7
  <2> QED
    BY <2>1, <2>2
<1>2. IsFiniteSet(T)
    BY FS_Subset DEF Matrix
<1>3. T \in C
  <2> HIDE DEF C
  <2> QED
    BY <1>1, <1>2, SubsetInduction
<1> QED
    BY <1>3

\* The edges between two sets, seen from both sides.
LEMMA EdgesBothWays ==
    ASSUME NEW V, NEW W, Matrix(W, V), NEW S \in SUBSET V, NEW T \in SUBSET V
    PROVE  Edges(W, S, T) = Edges(W, T, S)
<1> DEFINE C == {U \in SUBSET S : Edges(W, U, T) = Edges(W, T, U)}
<1>1. ASSUME NEW U \in SUBSET S, \A x \in U : U \ {x} \in C
      PROVE  U \in C
  <2>1. CASE U = {}
    BY <2>1, NoEdges
  <2>2. CASE U # {}
    <3>1. PICK x \in U : TRUE
      BY <2>2
    <3>2. /\ U = (U \ {x}) \cup {x} /\ (U \ {x}) \cap {x} = {}
          /\ U \ {x} \in SUBSET V /\ {x} \in SUBSET V /\ x \in V
      BY <3>1
    <3>3. Edges(W, U, T) = Edges(W, U \ {x}, T) + Edges(W, {x}, T)
      BY <3>2, EdgesFrom
    <3>4. Edges(W, T, U) = Edges(W, T, U \ {x}) + Edges(W, T, {x})
      BY <3>2, EdgesTo
    <3>5. Edges(W, T, {x}) = Edges(W, {x}, T)
      BY <3>2, EdgesOfOne
    <3>6. Edges(W, U \ {x}, T) = Edges(W, T, U \ {x})
      BY <1>1, <3>1
    <3> QED
      BY <3>3, <3>4, <3>5, <3>6
  <2> QED
    BY <2>1, <2>2
<1>2. IsFiniteSet(S)
    BY FS_Subset DEF Matrix
<1>3. S \in C
  <2> HIDE DEF C
  <2> QED
    BY <1>1, <1>2, SubsetInduction
<1> QED
    BY <1>3

\* A vertex brings its edges to the others, twice, and those to itself.
LEMMA EdgesWith ==
    ASSUME NEW V, NEW W, Matrix(W, V), NEW S \in SUBSET V, NEW u \in V \ S
    PROVE  Edges(W, S \cup {u}, S \cup {u})
               = Edges(W, S, S) + 2 * Edges(W, {u}, S) + Weight(W, u, u)
<1>1. S \cup {u} \in SUBSET V /\ {u} \in SUBSET V /\ S \cap {u} = {} /\ u \in V
    OBVIOUS
<1>2. Edges(W, S \cup {u}, S \cup {u})
          = Edges(W, S, S \cup {u}) + Edges(W, {u}, S \cup {u})
    BY <1>1, EdgesFrom
<1>3. /\ Edges(W, S, S \cup {u}) = Edges(W, S, S) + Edges(W, S, {u})
      /\ Edges(W, {u}, S \cup {u}) = Edges(W, {u}, S) + Edges(W, {u}, {u})
    BY <1>1, EdgesTo
<1>4. Edges(W, S, {u}) = Edges(W, {u}, S)
    BY <1>1, EdgesOfOne
<1>6. Edges(W, {u}, {u}) = Weight(W, u, u)
    BY <1>1, OneEdge
<1>5. /\ Edges(W, S, S) \in Nat /\ Edges(W, {u}, S) \in Nat
      /\ Edges(W, {u}, {u}) \in Nat
    BY <1>1, RowSums
<1> QED
    BY <1>2, <1>3, <1>4, <1>5, <1>6
-----------------------------------------------------------------------------
\* What p maps into T.
Fiber(p, T) == {x \in DOMAIN p : p[x] \in T}

LEMMA Fibers ==
    ASSUME NEW V, NEW K, NEW p \in [V -> K]
    PROVE  /\ \A T : Fiber(p, T) \in SUBSET V
           /\ Fiber(p, {}) = {}
           /\ Fiber(p, K) = V
           /\ \A S, T : /\ Fiber(p, S \cup T) = Fiber(p, S) \cup Fiber(p, T)
                        /\ S \cap T = {} => Fiber(p, S) \cap Fiber(p, T) = {}
    BY DEF Fiber

(***************************************************************************)
(* N is the matrix W with vertices made one: p says which vertex of N a     *)
(* vertex of W has become.                                                  *)
(***************************************************************************)
Folded(W, V, N, K, p) ==
    /\ p \in [V -> K]
    /\ \A c, d \in K : Weight(N, c, d) = Edges(W, Fiber(p, {c}), Fiber(p, {d}))

\* The edges of a vertex that stands for several are theirs.
LEMMA FoldedRow ==
    ASSUME NEW V, NEW W, Matrix(W, V), NEW K, NEW N, Matrix(N, K),
           NEW p, Folded(W, V, N, K, p), NEW c \in K, NEW T \in SUBSET K
    PROVE  Edges(N, {c}, T) = Edges(W, Fiber(p, {c}), Fiber(p, T))
<1> DEFINE E(U) == Edges(W, Fiber(p, {c}), Fiber(p, U))
           C == {U \in SUBSET T : Edges(N, {c}, U) = E(U)}
<1>0. /\ Fiber(p, {c}) \in SUBSET V /\ {c} \in SUBSET K /\ p \in [V -> K]
      /\ Fiber(p, {}) = {}
    BY Fibers DEF Folded
<1>1. ASSUME NEW U \in SUBSET T, \A x \in U : U \ {x} \in C
      PROVE  U \in C
  <2>1. CASE U = {}
    <3>1. Edges(N, {c}, {}) = 0 /\ Edges(W, Fiber(p, {c}), {}) = 0
      BY <1>0, NoEdges
    <3> QED
      BY <3>1, <2>1, <1>0
  <2>2. CASE U # {}
    <3>1. PICK x \in U : TRUE
      BY <2>2
    <3>2. /\ U = (U \ {x}) \cup {x} /\ (U \ {x}) \cap {x} = {}
          /\ U \ {x} \in SUBSET K /\ {x} \in SUBSET K /\ x \in K
      BY <3>1
    <3>3. Edges(N, {c}, U) = Edges(N, {c}, U \ {x}) + Edges(N, {c}, {x})
      BY <1>0, <3>2, EdgesTo
    <3>4. /\ Fiber(p, U) = Fiber(p, U \ {x}) \cup Fiber(p, {x})
          /\ Fiber(p, U \ {x}) \cap Fiber(p, {x}) = {}
          /\ Fiber(p, U \ {x}) \in SUBSET V /\ Fiber(p, {x}) \in SUBSET V
      BY <1>0, <3>2 DEF Fiber
    <3>5. E(U) = E(U \ {x}) + E({x})
      <4> DEFINE F == Fiber(p, {c})
                 A == Fiber(p, U \ {x})
                 B == Fiber(p, {x})
      <4>1. Edges(W, F, A \cup B) = Edges(W, F, A) + Edges(W, F, B)
        <5>1. F \in SUBSET V /\ A \in SUBSET V /\ B \in SUBSET V /\ A \cap B = {}
          BY <1>0, <3>4
        <5> HIDE DEF F, A, B
        <5> QED
          BY <5>1, EdgesTo
      <4> QED
        BY <3>4, <4>1
    <3>6. Edges(N, {c}, {x}) = E({x})
      <4>1. Edges(N, {c}, {x}) = Weight(N, c, x)
        BY <3>2, OneEdge
      <4> QED
        BY <4>1, <3>2 DEF Folded
    <3>7. Edges(N, {c}, U \ {x}) = E(U \ {x})
      BY <1>1, <3>1
    <3> QED
      BY <3>3, <3>5, <3>6, <3>7
  <2> QED
    BY <2>1, <2>2
<1>2. IsFiniteSet(T)
    BY FS_Subset DEF Matrix
<1>3. T \in C
  <2> HIDE DEF C
  <2> QED
    BY <1>1, <1>2, SubsetInduction
<1> QED
    BY <1>3

\* The edges between sets of vertices that stand for several are theirs.
LEMMA FoldedEdges ==
    ASSUME NEW V, NEW W, Matrix(W, V), NEW K, NEW N, Matrix(N, K),
           NEW p, Folded(W, V, N, K, p), NEW S \in SUBSET K, NEW T \in SUBSET K
    PROVE  Edges(N, S, T) = Edges(W, Fiber(p, S), Fiber(p, T))
<1> DEFINE E(U) == Edges(W, Fiber(p, U), Fiber(p, T))
           C == {U \in SUBSET S : Edges(N, U, T) = E(U)}
<1>0. /\ Fiber(p, T) \in SUBSET V /\ p \in [V -> K]
      /\ Fiber(p, {}) = {}
    BY Fibers DEF Folded
<1>1. ASSUME NEW U \in SUBSET S, \A x \in U : U \ {x} \in C
      PROVE  U \in C
  <2>1. CASE U = {}
    <3>1. Edges(N, {}, T) = 0 /\ Edges(W, {}, Fiber(p, T)) = 0
      BY <1>0, NoEdges
    <3> QED
      BY <3>1, <2>1, <1>0
  <2>2. CASE U # {}
    <3>1. PICK x \in U : TRUE
      BY <2>2
    <3>2. /\ U = (U \ {x}) \cup {x} /\ (U \ {x}) \cap {x} = {}
          /\ U \ {x} \in SUBSET K /\ {x} \in SUBSET K /\ x \in K
      BY <3>1
    <3>3. Edges(N, U, T) = Edges(N, U \ {x}, T) + Edges(N, {x}, T)
      BY <3>2, EdgesFrom
    <3>4. /\ Fiber(p, U) = Fiber(p, U \ {x}) \cup Fiber(p, {x})
          /\ Fiber(p, U \ {x}) \cap Fiber(p, {x}) = {}
          /\ Fiber(p, U \ {x}) \in SUBSET V /\ Fiber(p, {x}) \in SUBSET V
      BY <1>0, <3>2 DEF Fiber
    <3>5. E(U) = E(U \ {x}) + E({x})
      <4> DEFINE F == Fiber(p, T)
                 A == Fiber(p, U \ {x})
                 B == Fiber(p, {x})
      <4>1. Edges(W, A \cup B, F) = Edges(W, A, F) + Edges(W, B, F)
        <5>1. F \in SUBSET V /\ A \in SUBSET V /\ B \in SUBSET V /\ A \cap B = {}
          BY <1>0, <3>4
        <5> HIDE DEF F, A, B
        <5> QED
          BY <5>1, EdgesFrom
      <4> QED
        BY <3>4, <4>1
    <3>6. Edges(N, {x}, T) = E({x})
      BY <3>2, FoldedRow
    <3>7. Edges(N, U \ {x}, T) = E(U \ {x})
      BY <1>1, <3>1
    <3> QED
      BY <3>3, <3>5, <3>6, <3>7
  <2> QED
    BY <2>1, <2>2
<1>2. IsFiniteSet(S)
    BY FS_Subset DEF Matrix
<1>3. S \in C
  <2> HIDE DEF C
  <2> QED
    BY <1>1, <1>2, SubsetInduction
<1> QED
    BY <1>3

\* What is folded twice is folded.
LEMMA FoldedTwice ==
    ASSUME NEW V, NEW W, Matrix(W, V), NEW K, NEW N, Matrix(N, K),
           NEW p, Folded(W, V, N, K, p),
           NEW L, NEW M, NEW r, Folded(N, K, M, L, r)
    PROVE  Folded(W, V, M, L, [x \in V |-> r[p[x]]])
<1> DEFINE q == [x \in V |-> r[p[x]]]
<1>1. p \in [V -> K] /\ r \in [K -> L] /\ q \in [V -> L]
    BY DEF Folded
<1>2. ASSUME NEW c \in L
      PROVE  Fiber(q, {c}) = Fiber(p, Fiber(r, {c})) /\ Fiber(r, {c}) \in SUBSET K
    BY <1>1 DEF Fiber
<1>3. ASSUME NEW c \in L, NEW d \in L
      PROVE  Weight(M, c, d) = Edges(W, Fiber(q, {c}), Fiber(q, {d}))
  <2>1. Weight(M, c, d) = Edges(N, Fiber(r, {c}), Fiber(r, {d}))
    BY DEF Folded
  <2>2. Edges(N, Fiber(r, {c}), Fiber(r, {d}))
            = Edges(W, Fiber(p, Fiber(r, {c})), Fiber(p, Fiber(r, {d})))
    <3>1. Fiber(r, {c}) \in SUBSET K /\ Fiber(r, {d}) \in SUBSET K
      BY <1>2
    <3> QED
      BY <3>1, FoldedEdges
  <2> HIDE DEF q
  <2> QED
    BY <1>2, <2>1, <2>2
<1> HIDE DEF q
<1>4. Folded(W, V, M, L, q)
    BY <1>1, <1>3 DEF Folded
<1> QED
    BY <1>4 DEF q
-----------------------------------------------------------------------------
\* The weights of an undirected graph, and what is summed of them.
LEMMA GraphSums ==
    ASSUME NEW h, Undirected(h)
    PROVE  LET V == Vertexes(h)
               W == h.weights
           IN  /\ Matrix(W, V)
               /\ Cardinality(V) \in Nat /\ V = 0..(Cardinality(V) - 1)
               /\ h.weightedDegree \in [V -> Nat]
               /\ \A u \in V : h.weightedDegree[u] = Edges(W, {u}, V)
               /\ h.totalWeight = Edges(W, V, V)
               /\ h.totalWeight \in Nat
<1> DEFINE V == Vertexes(h)
           W == h.weights
           degree == [u \in V |-> SumFunction(W[u])]
<1>1. /\ W \in [V -> [V -> Nat]]
      /\ \A u, v \in V : W[u][v] = W[v][u]
      /\ h = GraphOf(W)
      /\ V = 0..(Cardinality(V) - 1)
    BY DEF Undirected, Vertexes
<1>2. IsFiniteSet(V) /\ Cardinality(V) \in Nat
    BY FS_CardinalityType DEF Undirected
<1>3. Matrix(W, V)
    BY <1>1, <1>2 DEF Matrix, Weight
<1>4. ASSUME NEW u \in V
      PROVE  degree[u] = Edges(W, {u}, V) /\ degree[u] = SumOver(W[u], V) /\ degree[u] \in Nat
  <2>1. Weighing(W[u], V) /\ DOMAIN W[u] = V
    BY <1>1, <1>2 DEF Weighing
  <2>2. SumFunctionOnSet(W[u], V) = SumOver(W[u], V) /\ SumOver(W[u], V) \in Nat
    BY <2>1, NaturalSum, SumType
  <2>3. Edges(W, {u}, V) = SumOver(W[u], V)
    BY <1>3, RowEdges
  <2> QED
    BY <2>1, <2>2, <2>3 DEF SumFunction
<1>5. h.weightedDegree = degree /\ h.totalWeight = SumFunction(degree)
  <2>1. DOMAIN W = V
    BY DEF Vertexes
  <2>2. GraphOf(W) = [weights |-> W, weightedDegree |-> degree, totalWeight |-> SumFunction(degree)]
    BY <2>1 DEF GraphOf
  <2> HIDE DEF degree, W
  <2> QED
    BY <1>1, <2>2
<1>6. SumFunction(degree) = Edges(W, V, V) /\ SumFunction(degree) \in Nat
  <2>1. Weighing(degree, V) /\ DOMAIN degree = V
    BY <1>2, <1>4 DEF Weighing
  <2>2. SumFunctionOnSet(degree, V) = SumOver(degree, V) /\ SumOver(degree, V) \in Nat
    BY <2>1, NaturalSum, SumType
  <2>3. degree = [u \in V |-> SumOver(W[u], V)]
    BY <1>4
  <2> QED
    BY <2>1, <2>2, <2>3 DEF SumFunction, Edges
<1>7. degree \in [V -> Nat]
    BY <1>4
<1> QED
    BY <1>1, <1>2, <1>3, <1>4, <1>5, <1>6, <1>7

\* The sums the properties are stated with.
LEMMA SumsAreEdges ==
    ASSUME NEW h, Undirected(h), NEW S \in SUBSET Vertexes(h), NEW T \in SUBSET Vertexes(h)
    PROVE  /\ SumFunction([u \in S |-> SumFunctionOnSet(h.weights[u], T)])
                  = Edges(h.weights, S, T)
           /\ SumFunctionOnSet(h.weightedDegree, S)
                  = Edges(h.weights, S, Vertexes(h))
<1> DEFINE V == Vertexes(h)
           W == h.weights
           row == [u \in S |-> SumOver(W[u], T)]
           full == [u \in S |-> SumOver(W[u], V)]
<1>1. Matrix(W, V) /\ \A u \in V : h.weightedDegree[u] = Edges(W, {u}, V)
    BY GraphSums
<1>2. W \in [V -> [V -> Nat]] /\ IsFiniteSet(V) /\ IsFiniteSet(S) /\ IsFiniteSet(T)
    BY <1>1, FS_Subset DEF Matrix
<1>3. ASSUME NEW u \in S
      PROVE  SumFunctionOnSet(W[u], T) = SumOver(W[u], T)
  <2>1. Weighing(W[u], T)
    BY <1>2 DEF Weighing
  <2> QED
    BY <2>1, NaturalSum
<1>4. [u \in S |-> SumFunctionOnSet(W[u], T)] = row
    BY <1>3
<1>5. SumFunctionOnSet(row, S) = SumOver(row, S)
    BY <1>1, RowSums, NaturalSum
<1>6. SumFunction(row) = Edges(W, S, T)
    BY <1>5 DEF SumFunction, Edges
<1>7. Weighing(full, S)
    BY <1>1, RowSums
<1>8. \A u \in S : h.weightedDegree[u] = full[u]
  <2>1. ASSUME NEW u \in S
        PROVE  Edges(W, {u}, V) = SumOver(W[u], V)
    <3>1. u \in V
      OBVIOUS
    <3> HIDE DEF V, W
    <3> QED
      BY <1>1, <3>1, RowEdges
  <2> QED
    BY <1>1, <2>1
<1>9. Weighing(h.weightedDegree, S)
    BY <1>7, <1>8 DEF Weighing
<1>10. SumFunctionOnSet(h.weightedDegree, S) = SumOver(h.weightedDegree, S)
    BY <1>9, NaturalSum
<1>11. SumOver(h.weightedDegree, S) = SumOver(full, S)
  <2> HIDE DEF full
  <2> QED
    BY <1>7, <1>8, SumSame
<1> QED
    BY <1>4, <1>6, <1>10, <1>11 DEF Edges

\* A symmetric matrix is the graph it makes.
LEMMA GraphMade ==
    ASSUME NEW n \in Nat, NEW M, Matrix(M, 0..(n - 1))
    PROVE  /\ Undirected(GraphOf(M))
           /\ GraphOf(M).weights = M
           /\ Vertexes(GraphOf(M)) = 0..(n - 1)
<1>1. GraphOf(M).weights = M
    BY DEF GraphOf
<1>2. M \in [0..(n - 1) -> [0..(n - 1) -> Nat]] /\ DOMAIN M = 0..(n - 1)
    BY DEF Matrix
<1>3. /\ Vertexes(GraphOf(M)) = 0..(n - 1)
      /\ Cardinality(0..(n - 1)) = n /\ IsFiniteSet(0..(n - 1))
    BY <1>1, <1>2, FS_Interval DEF Vertexes
<1>4. \A u, v \in 0..(n - 1) : M[u][v] = M[v][u]
    BY DEF Matrix, Weight
<1> QED
    BY <1>1, <1>2, <1>3, <1>4 DEF Undirected
-----------------------------------------------------------------------------
(***************************************************************************)
(* The working graph is the original one with vertices made one.            *)
(***************************************************************************)
GraphsKept ==
    /\ Undirected(original) /\ Undirected(g)
    /\ Folded(original.weights, Vertexes(original), g.weights, Vertexes(g),
              vertexCommunity)

Community(c) == Fiber(vertexToComm, {c})

(***************************************************************************)
(* inside and total are what they are named for.                            *)
(***************************************************************************)
CountsKept ==
    /\ vertexToComm \in [Vertexes(g) -> Vertexes(g)]
    /\ inside = [c \in Vertexes(g) |-> Edges(g.weights, Community(c), Community(c))]
    /\ total = [c \in Vertexes(g) |-> Edges(g.weights, Community(c), Vertexes(g))]

\* u gains nothing in the community of any other vertex.
Settled(u) ==
    \A v \in Vertexes(g) \ {u} :
        g.totalWeight * g.weights[u][v] <= g.weightedDegree[u] * g.weightedDegree[v]

(***************************************************************************)
(* As long as a level has moved nothing every vertex is a community, and    *)
(* those that had their turn are settled; in the end all are.               *)
(***************************************************************************)
NothingMoved ==
    /\ ~(phase = "moving" /\ better) => vertexToComm = [u \in Vertexes(g) |-> u]
    /\ phase = "moving" =>
          /\ random_order \in Bijection(Vertexes(g), Vertexes(g))
          /\ next \in Nat
    /\ phase = "moving" /\ ~better =>
          \A i \in Vertexes(g) : i < next => Settled(random_order[i])
    /\ phase = "found" =>
          /\ Vertexes(g) = 0..(nCommunities - 1)
          /\ \A u \in Vertexes(g) : Settled(u)

CommunityInv ==
    /\ phase \in {"idle", "iterate", "moving", "found"}
    /\ better \in BOOLEAN
    /\ phase # "idle" => GraphsKept /\ CountsKept /\ NothingMoved
-----------------------------------------------------------------------------
\* The division that the properties speak of, seen from the working graph.
LEMMA SeenFromBelow ==
    ASSUME GraphsKept, CountsKept, NEW c \in Vertexes(g), NEW d \in Vertexes(g)
    PROVE  /\ Weighs(Members(c), Members(d))
                  = g.totalWeight * Edges(g.weights, Community(c), Community(d))
           /\ Expected(Members(c), Members(d)) = total[c] * total[d]
<1> DEFINE Vo == Vertexes(original)
           Wo == original.weights
           V == Vertexes(g)
           W == g.weights
           p == vertexCommunity
<1>1. /\ Matrix(Wo, Vo) /\ original.totalWeight = Edges(Wo, Vo, Vo)
      /\ Matrix(W, V) /\ g.totalWeight = Edges(W, V, V)
    BY GraphSums DEF GraphsKept
<1>2. Folded(Wo, Vo, W, V, p) /\ p \in [Vo -> V]
    BY DEF GraphsKept, Folded
<1>3. vertexToComm \in [V -> V] /\ DOMAIN vertexToComm = V
    BY DEF CountsKept
<1>4. ASSUME NEW e \in V
      PROVE  /\ Members(e) = Fiber(p, Community(e))
             /\ Members(e) \in SUBSET Vo /\ Community(e) \in SUBSET V
    BY <1>2, <1>3 DEF Members, CurrentCommunity, Community, Fiber
<1>5. Fiber(p, V) = Vo
    BY <1>2, Fibers
<1>6. g.totalWeight = original.totalWeight
  <2>1. Edges(W, V, V) = Edges(Wo, Fiber(p, V), Fiber(p, V))
    <3> HIDE DEF V, W, Vo, Wo, p
    <3> QED
      BY <1>1, <1>2, FoldedEdges
  <2> QED
    BY <1>1, <1>5, <2>1
<1>7. Edges(W, Community(c), Community(d)) = Edges(Wo, Members(c), Members(d))
  <2>1. Community(c) \in SUBSET V /\ Community(d) \in SUBSET V
    BY <1>4
  <2>2. Edges(W, Community(c), Community(d))
            = Edges(Wo, Fiber(p, Community(c)), Fiber(p, Community(d)))
    <3> HIDE DEF V, W, Vo, Wo, p
    <3> QED
      BY <1>1, <1>2, <2>1, FoldedEdges
  <2> QED
    BY <1>4, <2>2
<1>8. ASSUME NEW e \in V
      PROVE  total[e] = Edges(Wo, Members(e), Vo)
  <2>1. Community(e) \in SUBSET V /\ V \in SUBSET V
    BY <1>4
  <2>2. Edges(W, Community(e), V)
            = Edges(Wo, Fiber(p, Community(e)), Fiber(p, V))
    <3> HIDE DEF V, W, Vo, Wo, p
    <3> QED
      BY <1>1, <1>2, <2>1, FoldedEdges
  <2>3. total[e] = Edges(W, Community(e), V)
    BY DEF CountsKept
  <2> QED
    BY <1>4, <1>5, <2>2, <2>3
<1>9. Weighs(Members(c), Members(d))
          = original.totalWeight * Edges(Wo, Members(c), Members(d))
  <2>1. Members(c) \in SUBSET Vertexes(original) /\ Members(d) \in SUBSET Vertexes(original)
    BY <1>4
  <2> QED
    BY <2>1, SumsAreEdges DEF Weighs, GraphsKept
<1>10. ASSUME NEW e \in V
       PROVE  SumFunctionOnSet(original.weightedDegree, Members(e)) = total[e]
  <2>1. Members(e) \in SUBSET Vertexes(original)
    BY <1>4
  <2>2. SumFunctionOnSet(original.weightedDegree, Members(e)) = Edges(Wo, Members(e), Vo)
    BY <2>1, SumsAreEdges DEF GraphsKept
  <2> QED
    BY <1>8, <2>2
<1> QED
    BY <1>6, <1>7, <1>9, <1>10 DEF Expected

\* The modularity computed is that of the division.
LEMMA CountsExact ==
    ASSUME GraphsKept, CountsKept
    PROVE  modularity = SumFunction([c \in Used |->
               Weighs(Members(c), Members(c)) - Expected(Members(c), Members(c))])
<1> DEFINE V == Vertexes(g)
           W == g.weights
           m == g.totalWeight
           w == [c \in V |-> inside[c] * m - total[c] * total[c]]
           D == {d \in V : total[d] > 0}
           f == [c \in D |-> inside[c] * m - total[c] * total[c]]
           v == [c \in Used |->
                    Weighs(Members(c), Members(c)) - Expected(Members(c), Members(c))]
<1>1. Matrix(W, V) /\ m \in Nat /\ IsFiniteSet(V)
    BY GraphSums DEF GraphsKept, Matrix
<1>2. vertexToComm \in [V -> V] /\ Used \in SUBSET V
    BY DEF CountsKept, Used
<1>3. ASSUME NEW c \in V
      PROVE  /\ Community(c) \in SUBSET V
             /\ inside[c] = Edges(W, Community(c), Community(c))
             /\ total[c] = Edges(W, Community(c), V)
             /\ inside[c] \in Nat /\ total[c] \in Nat
             /\ inside[c] <= total[c]
  <2>1. Community(c) \in SUBSET V
    BY <1>2 DEF Community, Fiber
  <2>2. /\ inside[c] = Edges(W, Community(c), Community(c))
        /\ total[c] = Edges(W, Community(c), V)
    BY DEF CountsKept
  <2> DEFINE R == V \ Community(c)
  <2>3. R \in SUBSET V /\ Community(c) \cap R = {} /\ Community(c) \cup R = V
    BY <2>1
  <2>4. /\ Edges(W, Community(c), Community(c) \cup R)
               = Edges(W, Community(c), Community(c)) + Edges(W, Community(c), R)
    <3> HIDE DEF V, W, R
    <3> QED
      BY <1>1, <2>1, <2>3, EdgesTo
  <2>5. Edges(W, Community(c), Community(c)) \in Nat /\ Edges(W, Community(c), R) \in Nat
    <3> HIDE DEF V, W, R
    <3> QED
      BY <1>1, <2>1, <2>3, RowSums
  <2>6. total[c] = inside[c] + Edges(W, Community(c), R)
    BY <2>2, <2>3, <2>4
  <2> QED
    BY <2>1, <2>2, <2>5, <2>6
<1>4. \A c \in V : w[c] \in Int
    BY <1>1, <1>3
<1>5. \A c \in V \ D : w[c] = 0
  <2> TAKE c \in V \ D
  <2>1. total[c] = 0 /\ inside[c] = 0
    BY <1>3
  <2> QED
    BY <2>1, <1>1
<1>6. \A c \in V \ Used : w[c] = 0
  <2> TAKE c \in V \ Used
  <2>1. Community(c) = {}
    BY <1>2 DEF Community, Fiber, Used
  <2>2. Edges(W, {}, {}) = 0 /\ Edges(W, {}, V) = 0
    <3>1. {} \in SUBSET V /\ V \in SUBSET V
      OBVIOUS
    <3> HIDE DEF V, W
    <3> QED
      BY <1>1, <3>1, NoEdges
  <2>3. total[c] = 0 /\ inside[c] = 0
    BY <1>3, <2>1, <2>2
  <2> QED
    BY <2>3, <1>1
<1>7. \A c \in Used : v[c] = w[c]
  <2> TAKE c \in Used
  <2>1. c \in V
    BY <1>2
  <2>2. /\ Weighs(Members(c), Members(c)) = m * inside[c]
        /\ Expected(Members(c), Members(c)) = total[c] * total[c]
    BY <2>1, <1>3, SeenFromBelow
  <2>3. m * inside[c] = inside[c] * m
    BY <2>1, <1>1, <1>3
  <2> QED
    BY <2>1, <2>2, <2>3
<1>8. \A c \in D : f[c] = w[c]
    OBVIOUS
<1>9. modularity = SumFunctionOnSet(f, D)
    BY DEF modularity, SumFunction
<1>10. SumFunction(v) = SumFunctionOnSet(v, Used)
    BY DEF SumFunction
<1>11. D \in SUBSET V
    OBVIOUS
<1> HIDE DEF w, v, f, D, V
<1>12. SumFunctionOnSet(f, D) = SumFunctionOnSet(w, V)
    BY <1>1, <1>4, <1>5, <1>8, <1>11, SameSum
<1>13. SumFunctionOnSet(v, Used) = SumFunctionOnSet(w, V)
    BY <1>1, <1>2, <1>4, <1>6, <1>7, SameSum
<1> QED
    BY <1>9, <1>10, <1>12, <1>13 DEF v
-----------------------------------------------------------------------------
\* The graph given is the first working graph.
LEMMA FoldedSelf ==
    ASSUME NEW V, NEW W, Matrix(W, V)
    PROVE  Folded(W, V, W, V, [u \in V |-> u])
<1> DEFINE p == [u \in V |-> u]
<1>1. p \in [V -> V] /\ \A c \in V : Fiber(p, {c}) = {c}
    BY DEF Fiber
<1>2. \A c, d \in V : Edges(W, {c}, {d}) = Weight(W, c, d)
    BY OneEdge
<1> HIDE DEF p
<1>3. Folded(W, V, W, V, p)
    BY <1>1, <1>2 DEF Folded
<1> QED
    BY <1>3 DEF p

\* Every vertex of a new working graph is a community.
LEMMA ResetCounts ==
    ASSUME NEW h, Undirected(h), ResetTo(h)
    PROVE  /\ g' = h
           /\ CountsKept'
           /\ vertexToComm' = [u \in Vertexes(h) |-> u]
<1>1. /\ g' = h
      /\ vertexToComm' = [u \in Vertexes(h) |-> u]
      /\ inside' = [u \in Vertexes(h) |-> h.weights[u][u]]
      /\ total' = h.weightedDegree
      /\ Vertexes(g)' = Vertexes(h)
    BY DEF ResetTo, Vertexes
<1>2. /\ Matrix(h.weights, Vertexes(h))
      /\ h.weightedDegree \in [Vertexes(h) -> Nat]
      /\ \A u \in Vertexes(h) : h.weightedDegree[u] = Edges(h.weights, {u}, Vertexes(h))
    BY GraphSums
<1>3. \A c \in Vertexes(h) : Community(c)' = {c}
    BY <1>1 DEF Community, Fiber
<1>4. \A c \in Vertexes(h) : Edges(h.weights, {c}, {c}) = h.weights[c][c]
  <2>1. \A c \in Vertexes(h) : Edges(h.weights, {c}, {c}) = Weight(h.weights, c, c)
    <3> DEFINE V == Vertexes(h)
               W == h.weights
    <3>1. Matrix(W, V)
      BY <1>2
    <3> HIDE DEF V, W
    <3>2. \A c \in V : Edges(W, {c}, {c}) = Weight(W, c, c)
      BY <3>1, OneEdge
    <3> QED
      BY <3>2 DEF V, W
  <2> QED
    BY <2>1 DEF Weight
<1>5. inside' = [c \in Vertexes(h) |-> Edges(h.weights, Community(c)', Community(c)')]
    BY <1>1, <1>3, <1>4
<1>6. total' = [c \in Vertexes(h) |-> Edges(h.weights, Community(c)', Vertexes(h))]
    BY <1>1, <1>2, <1>3
<1>7. vertexToComm' \in [Vertexes(h) -> Vertexes(h)]
    BY <1>1
<1> QED
    BY <1>1, <1>5, <1>6, <1>7 DEF CountsKept

LEMMA FindCommunitiesKeeps ==
    ASSUME CommunityInv, Undirected(original'), FindCommunities(original')
    PROVE  CommunityInv'
<1> DEFINE h == original'
<1>1. /\ phase' = "iterate" /\ ResetTo(h)
      /\ vertexCommunity' = [u \in Vertexes(h) |-> u]
      /\ better' = better
    BY DEF FindCommunities
<1>2. g' = h /\ CountsKept' /\ vertexToComm' = [u \in Vertexes(h) |-> u]
    BY <1>1, ResetCounts
<1>3. Vertexes(g)' = Vertexes(h) /\ Vertexes(original)' = Vertexes(h)
    BY <1>2 DEF Vertexes
<1>4. Folded(h.weights, Vertexes(h), h.weights, Vertexes(h), vertexCommunity')
  <2>1. Matrix(h.weights, Vertexes(h))
    BY GraphSums
  <2> HIDE DEF h
  <2> QED
    BY <1>1, <2>1, FoldedSelf
<1>5. GraphsKept'
  <2>1. Undirected(original)' /\ Undirected(g)'
    BY <1>2 DEF Undirected, Vertexes, GraphOf
  <2> QED
    BY <1>2, <1>3, <1>4, <2>1 DEF GraphsKept
<1>6. NothingMoved'
    BY <1>1, <1>2, <1>3 DEF NothingMoved
<1> QED
    BY <1>1, <1>2, <1>5, <1>6 DEF CommunityInv

LEMMA IterateKeeps ==
    ASSUME CommunityInv, Iterate
    PROVE  CommunityInv'
<1>1. /\ phase = "iterate" /\ phase' = "moving"
      /\ random_order' \in Bijection(Vertexes(g), Vertexes(g))
      /\ next' = 0 /\ better' = FALSE
      /\ UNCHANGED <<original, g, vertexCommunity, vertexToComm, inside, total>>
    BY DEF Iterate
<1>2. GraphsKept /\ CountsKept /\ NothingMoved
    BY <1>1 DEF CommunityInv
<1>3. GraphsKept'
    BY <1>1, <1>2 DEF GraphsKept, Undirected, Vertexes, GraphOf
<1>4. CountsKept'
    BY <1>1, <1>2 DEF CountsKept, Vertexes, Community
<1>5. Vertexes(g)' = Vertexes(g)
    BY <1>1 DEF Vertexes
<1>6. \A i \in Vertexes(g) : i \in Nat
    BY <1>2, GraphSums DEF GraphsKept
<1>7. NothingMoved'
    BY <1>1, <1>2, <1>5, <1>6 DEF NothingMoved
<1> QED
    BY <1>1, <1>3, <1>4, <1>7 DEF CommunityInv

LEMMA SweepAgainKeeps ==
    ASSUME CommunityInv, SweepAgain
    PROVE  CommunityInv'
<1>1. /\ phase = "moving" /\ phase' = "moving"
      /\ next' = 0
      /\ UNCHANGED <<original, g, vertexCommunity, vertexToComm, inside, total,
                     better, random_order>>
    BY DEF SweepAgain
<1>2. GraphsKept /\ CountsKept /\ NothingMoved
    BY <1>1 DEF CommunityInv
<1>3. GraphsKept'
    BY <1>1, <1>2 DEF GraphsKept, Undirected, Vertexes, GraphOf
<1>4. CountsKept'
    BY <1>1, <1>2 DEF CountsKept, Vertexes, Community
<1>5. Vertexes(g)' = Vertexes(g)
    BY <1>1 DEF Vertexes
<1>6. \A i \in Vertexes(g) : i \in Nat
    BY <1>2, GraphSums DEF GraphsKept
<1>7. NothingMoved'
  <2>1. /\ ~better => vertexToComm = [u \in Vertexes(g) |-> u]
        /\ random_order \in Bijection(Vertexes(g), Vertexes(g))
    BY <1>1, <1>2 DEF NothingMoved
  <2>2. \A i \in Vertexes(g) : ~(i < 0)
    BY <1>6
  <2> QED
    BY <1>1, <1>5, <2>1, <2>2 DEF NothingMoved
<1> QED
    BY <1>1, <1>3, <1>4, <1>7 DEF CommunityInv

\* What u weighs in a community: its edges to the others there.
LEMMA AdjacentEdges ==
    ASSUME GraphsKept, CountsKept, NEW u \in Vertexes(g), NEW c \in Vertexes(g)
    PROVE  adjWeight(u, c) = Edges(g.weights, {u}, Community(c) \ {u})
<1> DEFINE V == Vertexes(g)
           W == g.weights
           T == Community(c) \ {u}
           f == [v \in T |-> W[u][v]]
<1>1. Matrix(W, V) /\ vertexToComm \in [V -> V]
    BY GraphSums DEF GraphsKept, CountsKept
<1>2. T = {w \in V : w # u /\ vertexToComm[w] = c} /\ T \in SUBSET V
    BY <1>1 DEF Community, Fiber
<1>3. W[u] \in [V -> Nat] /\ IsFiniteSet(T)
    BY <1>1, <1>2, FS_Subset DEF Matrix
<1>4. Weighing(W[u], T) /\ Weighing(f, T) /\ \A v \in T : f[v] = W[u][v]
    BY <1>2, <1>3 DEF Weighing
<1>5. adjWeight(u, c) = SumFunctionOnSet(f, T)
    BY <1>2 DEF adjWeight, SumFunction
<1> HIDE DEF f, T, V, W
<1>6. SumFunctionOnSet(f, T) = SumOver(f, T)
    BY <1>4, NaturalSum
<1>7. SumOver(f, T) = SumOver(W[u], T)
    BY <1>4, SumSame
<1>8. u \in V
    BY DEF V
<1>9. Edges(W, {u}, T) = SumOver(W[u], T)
    BY <1>1, <1>2, <1>8, RowEdges
<1> QED
    BY <1>5, <1>6, <1>7, <1>9 DEF T, W

\* A vertex that leaves a community takes its edges along.
LEMMA EdgesWithout ==
    ASSUME NEW V, NEW W, Matrix(W, V), NEW S \in SUBSET V, NEW u \in S
    PROVE  /\ Edges(W, S \ {u}, S \ {u})
                  = Edges(W, S, S) - (2 * Edges(W, {u}, S \ {u}) + Weight(W, u, u))
           /\ Edges(W, S \ {u}, V) = Edges(W, S, V) - Edges(W, {u}, V)
<1> DEFINE R == S \ {u}
<1>1. /\ R \in SUBSET V /\ u \in V /\ u \notin R /\ R \cup {u} = S
      /\ {u} \in SUBSET V /\ R \cap {u} = {} /\ V \in SUBSET V
    OBVIOUS
<1> HIDE DEF R
<1>2. Edges(W, R \cup {u}, R \cup {u})
          = Edges(W, R, R) + 2 * Edges(W, {u}, R) + Weight(W, u, u)
    BY <1>1, EdgesWith
<1>3. Edges(W, R \cup {u}, V) = Edges(W, R, V) + Edges(W, {u}, V)
    BY <1>1, EdgesFrom
<1>4. /\ Edges(W, R, R) \in Nat /\ Edges(W, {u}, R) \in Nat
      /\ Edges(W, R, V) \in Nat /\ Edges(W, {u}, V) \in Nat
    BY <1>1, RowSums
<1>5. Weight(W, u, u) \in Nat
    BY <1>1 DEF Matrix, Weight
<1>6. /\ Edges(W, S, S) = Edges(W, R, R) + 2 * Edges(W, {u}, R) + Weight(W, u, u)
      /\ Edges(W, S, V) = Edges(W, R, V) + Edges(W, {u}, V)
    BY <1>1, <1>2, <1>3
<1> QED
    BY <1>4, <1>5, <1>6 DEF R

\* A move keeps the counts.
LEMMA MoveCounts ==
    ASSUME GraphsKept, CountsKept, NEW u \in Vertexes(g), NEW best_comm \in Vertexes(g),
           UNCHANGED g,
           LET comm   == vertexToComm[u]
               degree == g.weightedDegree[u]
           IN  /\ total' = [[total EXCEPT ![comm] = @ - degree]
                               EXCEPT ![best_comm] = @ + degree]
               /\ inside' = [[inside EXCEPT ![comm] = @ - Inside(u, comm)]
                                EXCEPT ![best_comm] = @ + Inside(u, best_comm)]
               /\ vertexToComm' = [vertexToComm EXCEPT ![u] = best_comm]
    PROVE  CountsKept'
<1> DEFINE V == Vertexes(g)
           W == g.weights
           comm == vertexToComm[u]
           degree == g.weightedDegree[u]
           E(S) == Edges(W, S, S)
<1>1. /\ Matrix(W, V) /\ vertexToComm \in [V -> V] /\ comm \in V
      /\ Vertexes(g)' = V /\ g'.weights = W
      /\ degree = Edges(W, {u}, V)
    BY GraphSums DEF GraphsKept, CountsKept, Vertexes
<1>2. /\ DOMAIN inside = V /\ DOMAIN total = V
      /\ \A c \in V : inside[c] = E(Community(c)) /\ total[c] = Edges(W, Community(c), V)
    BY DEF CountsKept
<1>3. ASSUME NEW c \in V
      PROVE  /\ Community(c) \in SUBSET V
             /\ Community(c)' = IF c = best_comm THEN Community(c) \cup {u}
                                ELSE Community(c) \ {u}
             /\ c # comm => u \notin Community(c)
             /\ c = comm => u \in Community(c)
    BY <1>1 DEF Community, Fiber
<1>4. ASSUME NEW c \in V
      PROVE  inside[c] \in Nat /\ total[c] \in Nat /\ Inside(u, c) \in Nat /\ degree \in Nat
  <2>1. Inside(u, c) = 2 * Edges(W, {u}, Community(c) \ {u}) + Weight(W, u, u)
    BY AdjacentEdges DEF Inside, Weight
  <2>2. /\ Community(c) \in SUBSET V /\ Community(c) \ {u} \in SUBSET V
        /\ {u} \in SUBSET V /\ V \in SUBSET V
    BY <1>3
  <2>3. /\ E(Community(c)) \in Nat /\ Edges(W, Community(c), V) \in Nat
        /\ Edges(W, {u}, Community(c) \ {u}) \in Nat /\ Edges(W, {u}, V) \in Nat
    <3> HIDE DEF V, W
    <3> QED
      BY <2>2, <1>1, RowSums
  <2>4. Weight(W, u, u) \in Nat
    BY <1>1 DEF Matrix, Weight
  <2> QED
    BY <1>1, <1>2, <2>1, <2>3, <2>4
<1>5. /\ vertexToComm' \in [V -> V]
      /\ inside \in [V -> Nat] /\ total \in [V -> Nat]
    BY <1>1, <1>4 DEF CountsKept
<1>6. ASSUME best_comm = comm
      PROVE  inside' = inside /\ total' = total /\ \A c \in V : Community(c)' = Community(c)
  <2>1. \A c \in V : Community(c)' = Community(c)
    BY <1>3, <1>6
  <2>2. inside[comm] - Inside(u, comm) + Inside(u, comm) = inside[comm]
    BY <1>1, <1>4
  <2>3. total[comm] - degree + degree = total[comm]
    <3>1. total[comm] \in Nat /\ degree \in Nat
      BY <1>1, <1>4
    <3> HIDE DEF degree, comm
    <3> QED
      BY <3>1
  <2>4. inside' = inside
    <3>1. inside' = [[inside EXCEPT ![comm] = @ - Inside(u, comm)]
                         EXCEPT ![comm] = @ + Inside(u, comm)]
      BY <1>6
    <3> HIDE DEF comm
    <3> QED
      BY <1>1, <1>5, <2>2, <3>1
  <2>5. total' = total
    <3>1. total' = [[total EXCEPT ![comm] = @ - degree] EXCEPT ![comm] = @ + degree]
      BY <1>6
    <3> HIDE DEF comm, degree
    <3> QED
      BY <1>1, <1>5, <2>3, <3>1
  <2> QED
    BY <2>1, <2>4, <2>5
<1>7. ASSUME best_comm # comm, NEW c \in V
      PROVE  /\ inside'[c] = E(Community(c)')
             /\ total'[c] = Edges(W, Community(c)', V)
  <2>1. CASE c = comm
    <3>1. Community(c)' = Community(c) \ {u} /\ u \in Community(c) /\ Community(c) \in SUBSET V
      BY <1>3, <1>7, <2>1
    <3>2. inside'[c] = inside[c] - Inside(u, c) /\ total'[c] = total[c] - degree
      BY <1>1, <1>2, <1>7, <2>1
    <3>3. Inside(u, c) = 2 * Edges(W, {u}, Community(c) \ {u}) + Weight(W, u, u)
      BY AdjacentEdges DEF Inside, Weight
    <3>4. /\ E(Community(c) \ {u}) = E(Community(c))
                 - (2 * Edges(W, {u}, Community(c) \ {u}) + Weight(W, u, u))
          /\ Edges(W, Community(c) \ {u}, V) = Edges(W, Community(c), V) - Edges(W, {u}, V)
      <4> HIDE DEF V, W
      <4> QED
        BY <1>1, <3>1, EdgesWithout
    <3> QED
      BY <1>1, <1>2, <3>1, <3>2, <3>3, <3>4
  <2>2. CASE c = best_comm
    <3>1. Community(c)' = Community(c) \cup {u} /\ u \notin Community(c) /\ Community(c) \in SUBSET V
      BY <1>3, <1>7, <2>2
    <3>2. inside'[c] = inside[c] + Inside(u, c) /\ total'[c] = total[c] + degree
      BY <1>1, <1>2, <1>7, <2>2
    <3>3. Inside(u, c) = 2 * Edges(W, {u}, Community(c) \ {u}) + Weight(W, u, u)
      BY AdjacentEdges DEF Inside, Weight
    <3>4. Community(c) \ {u} = Community(c)
      BY <3>1
    <3>5. /\ E(Community(c) \cup {u}) = E(Community(c))
                 + 2 * Edges(W, {u}, Community(c)) + Weight(W, u, u)
          /\ Edges(W, Community(c) \cup {u}, V) = Edges(W, Community(c), V) + Edges(W, {u}, V)
      <4>1. u \in V \ Community(c) /\ {u} \in SUBSET V /\ Community(c) \cap {u} = {}
            /\ V \in SUBSET V
        BY <3>1
      <4> HIDE DEF V, W
      <4>2. E(Community(c) \cup {u}) = E(Community(c))
                 + 2 * Edges(W, {u}, Community(c)) + Weight(W, u, u)
        BY <1>1, <3>1, <4>1, EdgesWith
      <4>3. Edges(W, Community(c) \cup {u}, V) = Edges(W, Community(c), V) + Edges(W, {u}, V)
        BY <1>1, <3>1, <4>1, EdgesFrom
      <4> QED
        BY <4>2, <4>3
    <3>6. /\ E(Community(c)) \in Nat /\ Edges(W, {u}, Community(c)) \in Nat
          /\ Weight(W, u, u) \in Nat
      <4>1. Weight(W, u, u) \in Nat
        BY <1>1 DEF Matrix, Weight
      <4>2. Community(c) \in SUBSET V /\ {u} \in SUBSET V
        BY <3>1
      <4> HIDE DEF V, W
      <4> QED
        BY <1>1, <4>1, <4>2, RowSums
    <3>7. inside'[c] = E(Community(c)) + (2 * Edges(W, {u}, Community(c)) + Weight(W, u, u))
      BY <1>2, <3>2, <3>3, <3>4
    <3>8. inside'[c] = E(Community(c)')
      <4> HIDE DEF W
      <4> QED
        BY <3>1, <3>5, <3>6, <3>7
    <3>9. total'[c] = Edges(W, Community(c)', V)
      BY <1>1, <1>2, <3>1, <3>2, <3>5
    <3> QED
      BY <3>8, <3>9
  <2>3. CASE c # comm /\ c # best_comm
    <3>1. Community(c)' = Community(c)
      <4>1. Community(c)' = Community(c) \ {u} /\ u \notin Community(c)
        BY <1>3, <2>3
      <4> QED
        BY <4>1
    <3>2. inside'[c] = inside[c] /\ total'[c] = total[c]
      BY <1>1, <1>2, <2>3
    <3> QED
      BY <1>2, <3>1, <3>2
  <2> QED
    BY <2>1, <2>2, <2>3
<1>8. /\ inside' = [c \in V |-> inside'[c]]
      /\ total' = [c \in V |-> total'[c]]
    BY <1>2
<1>9. \A c \in V : inside'[c] = E(Community(c)') /\ total'[c] = Edges(W, Community(c)', V)
    BY <1>2, <1>6, <1>7
<1> QED
    BY <1>1, <1>5, <1>8, <1>9 DEF CountsKept

\* In a level where nothing has moved, a vertex that stays is settled.
LEMMA StaysSettled ==
    ASSUME GraphsKept, CountsKept, vertexToComm = [v \in Vertexes(g) |-> v],
           NEW u \in Vertexes(g), vertexToComm[u] \in BestComms(u)
    PROVE  Settled(u)
<1> DEFINE V == Vertexes(g)
           W == g.weights
           m == g.totalWeight
           k == g.weightedDegree
<1>1. /\ Matrix(W, V) /\ IsFiniteSet(V) /\ W \in [V -> [V -> Nat]]
      /\ m \in Nat /\ k \in [V -> Nat]
      /\ \A v \in V : k[v] = Edges(W, {v}, V)
    BY GraphSums DEF GraphsKept, Matrix
<1>2. \A v \in V : vertexToComm[v] = v /\ Community(v) = {v}
    BY DEF Community, Fiber
<1>3. \A v \in V : total[v] = k[v]
    BY <1>1, <1>2 DEF CountsKept
<1>4. variation(u, u) = 0
  <2>1. adjWeight(u, u) = Edges(W, {u}, {u} \ {u}) /\ {u} \ {u} = {}
    BY <1>2, AdjacentEdges
  <2>2. Edges(W, {u}, {}) = 0
    <3>1. {u} \in SUBSET V
      OBVIOUS
    <3> HIDE DEF V, W
    <3> QED
      BY <1>1, <3>1, NoEdges
  <2>3. total[u] - k[u] = 0
    BY <1>1, <1>3
  <2>4. 0 * m - 0 * k[u] = 0
    BY <1>1
  <2> QED
    BY <1>2, <2>1, <2>2, <2>3, <2>4 DEF variation
<1>5. ASSUME NEW v \in V \ {u}
      PROVE  /\ variation(u, v) = W[u][v] * m - k[v] * k[u]
             /\ variation(u, v) \in Int
  <2>1. adjWeight(u, v) = Edges(W, {u}, {v} \ {u}) /\ {v} \ {u} = {v}
    BY <1>2, AdjacentEdges
  <2>2. Edges(W, {u}, {v}) = Weight(W, u, v)
    <3>1. u \in V /\ v \in V
      OBVIOUS
    <3> HIDE DEF V, W
    <3> QED
      BY <1>1, <3>1, OneEdge
  <2>3. adjWeight(u, v) = W[u][v]
    BY <2>1, <2>2 DEF Weight
  <2>4. total[v] - 0 = k[v]
    BY <1>1, <1>3
  <2>5. W[u][v] \in Nat /\ k[v] \in Nat /\ k[u] \in Nat
    BY <1>1
  <2>6. variation(u, v) = W[u][v] * m - k[v] * k[u]
    BY <1>2, <2>3, <2>4 DEF variation
  <2> QED
    BY <1>1, <2>5, <2>6
<1> DEFINE A == adjComm(u)
           S == {variation(u, c) : c \in A}
           top == Max(S)
<1>6. A \in SUBSET V /\ u \in A /\ \A v \in V \ {u} : W[u][v] > 0 => v \in A
    BY <1>2 DEF adjComm
<1>7. \A c \in A : variation(u, c) \in Int
    BY <1>4, <1>5, <1>6
<1>8. top \in S /\ \A y \in S : y <= top
  <2> DEFINE w == [c \in A |-> -variation(u, c)]
  <2>1. IsFiniteSet(A) /\ A # {} /\ \A c \in A : w[c] \in Int
    BY <1>1, <1>6, <1>7, FS_Subset
  <2>2. PICK c \in A : \A d \in A : w[c] <= w[d]
    <3> HIDE DEF w, A
    <3> QED
      BY <2>1, LeastExists
  <2>3. \A d \in A : variation(u, d) <= variation(u, c)
    BY <1>7, <2>2
  <2>4. \E x \in S : \A y \in S : x >= y
    BY <2>3, <1>7
  <2>5. \A x \in S : x \in Int
    BY <1>7
  <2> HIDE DEF S
  <2> QED
    BY <2>4, <2>5 DEF Max
<1>9. top <= 0
  <2>1. u \in (IF top <= 0 \/ variation(u, u) = top THEN {u}
               ELSE {c \in A : variation(u, c) = top})
    BY <1>2 DEF BestComms
  <2> HIDE DEF top, A
  <2> QED
    BY <2>1, <1>4
<1>10. \A c \in A : variation(u, c) <= 0
  <2> TAKE c \in A
  <2>1. variation(u, c) \in S /\ variation(u, c) \in Int /\ \E d \in A : top = variation(u, d)
    BY <1>7, <1>8
  <2>2. variation(u, c) <= top /\ top \in Int
    BY <1>7, <1>8, <2>1
  <2> HIDE DEF top, S
  <2> QED
    BY <1>9, <2>1, <2>2
<1>11. ASSUME NEW v \in V \ {u}
       PROVE  m * W[u][v] <= k[u] * k[v]
  <2>1. W[u][v] \in Nat /\ k[v] \in Nat /\ k[u] \in Nat
    BY <1>1
  <2>2. CASE v \in A
    <3>1. W[u][v] * m - k[v] * k[u] <= 0
      BY <1>5, <1>10, <2>2
    <3> HIDE DEF W, k, m
    <3> QED
      BY <1>1, <2>1, <3>1
  <2>3. CASE v \notin A
    <3>1. W[u][v] = 0
      BY <1>6, <2>1, <2>3
    <3>2. m * 0 = 0 /\ k[u] * k[v] \in Nat
      BY <1>1, <2>1
    <3> QED
      BY <3>1, <3>2
  <2> QED
    BY <2>2, <2>3
<1> QED
    BY <1>11 DEF Settled

LEMMA MoveKeeps ==
    ASSUME CommunityInv, Move
    PROVE  CommunityInv'
<1> DEFINE V == Vertexes(g)
           u == random_order[next]
           comm == vertexToComm[u]
<1>1. /\ phase = "moving" /\ phase' = "moving" /\ next \in V
      /\ next' = next + 1
      /\ UNCHANGED <<original, g, vertexCommunity, random_order>>
    BY DEF Move
<1>2. GraphsKept /\ CountsKept /\ NothingMoved
    BY <1>1 DEF CommunityInv
<1>3. /\ random_order \in [V -> V] /\ u \in V /\ next \in Nat
      /\ comm \in V /\ \A i \in V : i \in Nat
  <2>1. random_order \in [V -> V] /\ next \in Nat
    BY <1>1, <1>2 DEF NothingMoved, Bijection, Injection
  <2> QED
    BY <1>1, <1>2, <2>1, GraphSums DEF CountsKept, GraphsKept
<1>4. PICK best_comm \in BestComms(u) :
         /\ total' = [[total EXCEPT ![comm] = @ - g.weightedDegree[u]]
                          EXCEPT ![best_comm] = @ + g.weightedDegree[u]]
         /\ inside' = [[inside EXCEPT ![comm] = @ - Inside(u, comm)]
                          EXCEPT ![best_comm] = @ + Inside(u, best_comm)]
         /\ vertexToComm' = [vertexToComm EXCEPT ![u] = best_comm]
         /\ better' = (better \/ best_comm # comm)
    BY DEF Move
<1>5. best_comm \in V
  <2>1. vertexToComm \in [V -> V]
    BY <1>2 DEF CountsKept
  <2>2. adjComm(u) \in SUBSET V
    BY <1>3, <2>1 DEF adjComm
  <2>3. best_comm = comm \/ best_comm \in adjComm(u)
    BY <1>4 DEF BestComms
  <2> QED
    BY <1>3, <2>2, <2>3
<1>6. CountsKept'
  <2> HIDE DEF u
  <2> QED
    BY <1>1, <1>2, <1>3, <1>4, <1>5, MoveCounts
<1>7. GraphsKept'
    BY <1>1, <1>2 DEF GraphsKept, Undirected, Vertexes, GraphOf
<1>8. Vertexes(g)' = V /\ \A v : Settled(v)' = Settled(v)
    BY <1>1 DEF Vertexes, Settled
<1>9. better' \in BOOLEAN
    BY <1>4 DEF CommunityInv
<1>10. ASSUME ~better'
       PROVE  /\ ~better /\ best_comm = comm
              /\ vertexToComm' = [v \in V |-> v]
              /\ \A i \in V : i < next + 1 => Settled(random_order[i])
  <2>1. ~better /\ best_comm = comm
    BY <1>4, <1>10
  <2>2. vertexToComm = [v \in V |-> v]
    BY <1>2, <2>1 DEF NothingMoved
  <2>3. vertexToComm' = vertexToComm
    BY <1>3, <1>4, <2>1, <2>2
  <2>4. Settled(u)
    BY <1>2, <1>3, <1>4, <2>1, <2>2, StaysSettled
  <2>5. \A i \in V : i < next => Settled(random_order[i])
    BY <1>1, <1>2, <2>1 DEF NothingMoved
  <2>6. \A i \in V : i < next + 1 => i < next \/ i = next
    BY <1>3
  <2> QED
    BY <2>1, <2>2, <2>3, <2>4, <2>5, <2>6
<1>11. NothingMoved'
  <2>1. random_order \in Bijection(V, V) /\ next + 1 \in Nat
    BY <1>1, <1>2, <1>3 DEF NothingMoved
  <2> HIDE DEF V
  <2> QED
    BY <1>1, <1>8, <1>10, <2>1 DEF NothingMoved
<1> QED
    BY <1>1, <1>6, <1>7, <1>9, <1>11 DEF CommunityInv

\* The vertices of the next working graph are the communities that are used.
Renumbered == [u \in Vertexes(g) |-> renumber(vertexToComm[u])]

LEMMA RenumberedRange ==
    ASSUME GraphsKept, CountsKept
    PROVE  /\ Cardinality(Used) \in Nat
           /\ Renumbered \in [Vertexes(g) -> 0..(Cardinality(Used) - 1)]
<1> DEFINE V == Vertexes(g)
<1>1. /\ IsFiniteSet(V) /\ \A c \in V : c \in Nat
      /\ vertexToComm \in [V -> V]
    BY GraphSums DEF GraphsKept, CountsKept, Matrix
<1>2. Used \in SUBSET V /\ IsFiniteSet(Used) /\ Cardinality(Used) \in Nat
    BY <1>1, FS_Subset, FS_CardinalityType DEF Used
<1>3. ASSUME NEW u \in V
      PROVE  renumber(vertexToComm[u]) \in 0..(Cardinality(Used) - 1)
  <2> DEFINE c == vertexToComm[u]
             E == {d \in Used : d < c}
  <2>1. c \in Used /\ c \in Nat /\ E \in SUBSET Used /\ c \notin E
    BY <1>1 DEF Used
  <2> HIDE DEF E, c
  <2>2. Cardinality(E) \in 0..(Cardinality(Used) - 1)
    BY <1>2, <2>1, PlaceAmong
  <2> QED
    BY <2>2 DEF renumber, E, c
<1> QED
    BY <1>2, <1>3 DEF Renumbered

\* nextIterationGraph makes every community one vertex.
LEMMA NextGraphFolds ==
    ASSUME GraphsKept, CountsKept
    PROVE  /\ Undirected(NextGraph)
           /\ Vertexes(NextGraph) = 0..(Cardinality(Used) - 1)
           /\ Folded(g.weights, Vertexes(g), NextGraph.weights, Vertexes(NextGraph),
                     Renumbered)
<1> DEFINE V == Vertexes(g)
           W == g.weights
           L == 0..(Cardinality(Used) - 1)
           r == Renumbered
           members(c) == {u \in V : renumber(vertexToComm[u]) = c}
           M == [c \in L |-> [d \in L |->
                    SumFunction([u \in members(c) |->
                        SumFunctionOnSet(W[u], members(d))])]]
<1>1. Matrix(W, V) /\ V \in SUBSET V
    BY GraphSums DEF GraphsKept
<1>2. Cardinality(Used) \in Nat /\ r \in [V -> L] /\ IsFiniteSet(L)
    BY RenumberedRange, FS_Interval
<1>3. NextGraph = GraphOf(M)
    BY DEF NextGraph
<1>4. ASSUME NEW c
      PROVE  members(c) = Fiber(r, {c}) /\ Fiber(r, {c}) \in SUBSET V
    BY DEF Renumbered, Fiber
<1>5. ASSUME NEW c \in L, NEW d \in L
      PROVE  M[c][d] = Edges(W, Fiber(r, {c}), Fiber(r, {d}))
  <2> DEFINE A == Fiber(r, {c})
             B == Fiber(r, {d})
  <2>1. M[c][d] = SumFunction([u \in A |-> SumFunctionOnSet(W[u], B)])
    BY <1>4
  <2>2. A \in SUBSET Vertexes(g) /\ B \in SUBSET Vertexes(g)
    BY <1>4
  <2>3. SumFunction([u \in A |-> SumFunctionOnSet(g.weights[u], B)]) = Edges(g.weights, A, B)
    <3> HIDE DEF A, B
    <3> QED
      BY <2>2, SumsAreEdges DEF GraphsKept
  <2> HIDE DEF M
  <2> QED
    BY <2>1, <2>3
<1>6. ASSUME NEW c \in L, NEW d \in L
      PROVE  M[c][d] \in Nat /\ M[c][d] = M[d][c]
  <2> DEFINE A == Fiber(r, {c})
             B == Fiber(r, {d})
  <2>1. A \in SUBSET V /\ B \in SUBSET V /\ M[c][d] = Edges(W, A, B) /\ M[d][c] = Edges(W, B, A)
    BY <1>4, <1>5
  <2> HIDE DEF A, B, M, V, W
  <2>2. Edges(W, A, B) \in Nat
    BY <1>1, <2>1, RowSums
  <2>3. Edges(W, A, B) = Edges(W, B, A)
    BY <1>1, <2>1, EdgesBothWays
  <2> QED
    BY <2>1, <2>2, <2>3
<1>7. Matrix(M, L)
  <2>1. M = [c \in L |-> [d \in L |-> M[c][d]]]
    OBVIOUS
  <2> HIDE DEF M, L
  <2>2. M \in [L -> [L -> Nat]]
    BY <1>6, <2>1
  <2> QED
    BY <1>2, <1>6, <2>2 DEF Matrix, Weight
<1> HIDE DEF M
<1>8. Undirected(GraphOf(M)) /\ GraphOf(M).weights = M /\ Vertexes(GraphOf(M)) = L
    BY <1>2, <1>7, GraphMade
<1>9. Folded(W, V, M, L, r)
    BY <1>2, <1>5 DEF Folded, Weight
<1> QED
    BY <1>3, <1>8, <1>9

\* When every vertex is a community the next working graph is the same.
LEMMA SameGraph ==
    ASSUME GraphsKept, CountsKept, vertexToComm = [u \in Vertexes(g) |-> u]
    PROVE  NextGraph = g /\ Cardinality(Used) = Cardinality(Vertexes(g))
<1> DEFINE V == Vertexes(g)
           W == g.weights
           N == NextGraph.weights
           n == Cardinality(V)
<1>1. /\ Matrix(W, V) /\ W \in [V -> [V -> Nat]]
      /\ n \in Nat /\ V = 0..(n - 1)
    BY GraphSums DEF GraphsKept, Matrix
<1>2. Used = V
    BY DEF Used
<1>3. Renumbered = [u \in V |-> u]
  <2>1. ASSUME NEW u \in V
        PROVE  renumber(u) = u
    <3>1. {d \in V : d < u} = 0..(u - 1) /\ u \in Nat
      BY <1>1
    <3>2. Cardinality(0..(u - 1)) = u
      BY <3>1, FS_Interval
    <3> QED
      BY <1>2, <3>1, <3>2 DEF renumber
  <2> QED
    BY <2>1 DEF Renumbered
<1>4. /\ Undirected(NextGraph) /\ Vertexes(NextGraph) = V
      /\ Folded(W, V, N, V, Renumbered)
    BY <1>1, <1>2, NextGraphFolds
<1>5. \A c, d \in V : Weight(N, c, d) = Weight(W, c, d)
  <2>1. \A c \in V : Fiber(Renumbered, {c}) = {c}
    BY <1>3 DEF Fiber
  <2>2. \A c, d \in V : Weight(N, c, d) = Edges(W, {c}, {d})
    BY <1>4, <2>1 DEF Folded
  <2>3. \A c, d \in V : Edges(W, {c}, {d}) = Weight(W, c, d)
    <3> HIDE DEF V, W
    <3> QED
      BY <1>1, OneEdge
  <2> QED
    BY <2>2, <2>3
<1>6. N \in [V -> [V -> Nat]]
  <2>1. Matrix(NextGraph.weights, Vertexes(NextGraph))
    BY <1>4, GraphSums
  <2> QED
    BY <1>4, <2>1 DEF Matrix
<1>7. N = W
  <2> HIDE DEF N, W, V
  <2>1. \A c \in V : N[c] = W[c]
    BY <1>1, <1>5, <1>6 DEF Weight
  <2> QED
    BY <1>1, <1>6, <2>1
<1>8. NextGraph = GraphOf(N) /\ g = GraphOf(W)
    BY <1>4 DEF Undirected, GraphsKept
<1> QED
    BY <1>2, <1>7, <1>8

LEMMA NextLevelKeeps ==
    ASSUME CommunityInv, NextLevel
    PROVE  CommunityInv'
<1> DEFINE h == NextGraph
           V == Vertexes(g)
<1>1. /\ phase = "moving" /\ next \notin V
      /\ nCommunities' = Cardinality(Used)
      /\ vertexCommunity' = [u \in Vertexes(original) |->
                                renumber(vertexToComm[vertexCommunity[u]])]
      /\ ResetTo(h)
      /\ phase' = IF Improvement THEN "iterate" ELSE "found"
      /\ UNCHANGED <<original, better>>
    BY DEF NextLevel
<1>2. GraphsKept /\ CountsKept /\ NothingMoved
    BY <1>1 DEF CommunityInv
<1>3. /\ Undirected(h) /\ Vertexes(h) = 0..(Cardinality(Used) - 1)
      /\ Folded(g.weights, V, h.weights, Vertexes(h), Renumbered)
    BY <1>2, NextGraphFolds
<1> HIDE DEF h
<1>4. /\ g' = h /\ CountsKept'
      /\ vertexToComm' = [u \in Vertexes(h) |-> u]
    BY <1>1, <1>3, ResetCounts
<1>5. Vertexes(g)' = Vertexes(h) /\ Vertexes(original)' = Vertexes(original)
    BY <1>1, <1>4 DEF Vertexes
<1>6. vertexCommunity' = [x \in Vertexes(original) |-> Renumbered[vertexCommunity[x]]]
  <2>1. vertexCommunity \in [Vertexes(original) -> V]
    BY <1>2 DEF GraphsKept, Folded
  <2> QED
    BY <1>1, <2>1 DEF Renumbered
<1>7. Folded(original.weights, Vertexes(original), h.weights, Vertexes(h), vertexCommunity')
  <2> DEFINE Vo == Vertexes(original)
             Wo == original.weights
             W == g.weights
             N == h.weights
             L == Vertexes(h)
             p == vertexCommunity
  <2>1. Matrix(Wo, Vo) /\ Matrix(W, V)
    BY <1>2, GraphSums DEF GraphsKept
  <2>2. Folded(Wo, Vo, W, V, p) /\ Folded(W, V, N, L, Renumbered)
    BY <1>2, <1>3 DEF GraphsKept
  <2> HIDE DEF Vo, Wo, W, N, L, V
  <2>3. Folded(Wo, Vo, N, L, [x \in Vo |-> Renumbered[p[x]]])
    BY <2>1, <2>2, FoldedTwice
  <2> QED
    BY <1>6, <2>3 DEF Vo, Wo, N, L
<1>8. GraphsKept'
  <2>1. Undirected(original)' /\ Undirected(g)'
    BY <1>1, <1>2, <1>3, <1>4 DEF GraphsKept, Undirected, Vertexes, GraphOf
  <2> QED
    BY <1>1, <1>4, <1>5, <1>7, <2>1 DEF GraphsKept
<1>9. ASSUME phase' = "found"
      PROVE  /\ Vertexes(h) = 0..(nCommunities' - 1)
             /\ \A u \in Vertexes(h) : Settled(u)'
  <2>1. ~better
    BY <1>1, <1>9 DEF Improvement, CommunityInv
  <2>2. vertexToComm = [u \in V |-> u]
    BY <1>2, <2>1 DEF NothingMoved
  <2>3. g' = g
    BY <1>2, <1>4, <2>2, SameGraph DEF h
  <2>4. \A i \in V : i < next
    <3>1. V = 0..(Cardinality(V) - 1) /\ Cardinality(V) \in Nat
      BY <1>2, GraphSums DEF GraphsKept
    <3>2. next \in Nat
      BY <1>1, <1>2 DEF NothingMoved
    <3> QED
      BY <1>1, <3>1, <3>2
  <2>5. \A i \in V : Settled(random_order[i])
    BY <1>1, <1>2, <2>1, <2>4 DEF NothingMoved
  <2>6. \A u \in V : \E i \in V : random_order[i] = u
    BY <1>1, <1>2 DEF NothingMoved, Bijection, Surjection
  <2>7. \A u \in V : Settled(u)
    BY <2>5, <2>6
  <2>8. \A u \in V : Settled(u)'
    BY <2>3, <2>7 DEF Settled, Vertexes
  <2> QED
    BY <1>1, <1>3, <1>4, <2>3, <2>8
<1>10. NothingMoved'
  <2>1. phase' \in {"iterate", "found"}
    BY <1>1
  <2> QED
    BY <1>4, <1>5, <1>9, <2>1 DEF NothingMoved
<1> QED
    BY <1>1, <1>4, <1>8, <1>10 DEF CommunityInv
-----------------------------------------------------------------------------
LEMMA NextKeeps ==
    ASSUME CommunityInv, [CommunityNext]_communityVars
    PROVE  CommunityInv'
<1>1. CASE Undirected(original') /\ FindCommunities(original')
    BY <1>1, FindCommunitiesKeeps
<1>2. CASE Iterate
    BY <1>2, IterateKeeps
<1>3. CASE Move
    BY <1>3, MoveKeeps
<1>4. CASE SweepAgain
    BY <1>4, SweepAgainKeeps
<1>5. CASE NextLevel
    BY <1>5, NextLevelKeeps
<1>6. CASE CommunityRestart
    BY <1>6 DEF CommunityInv, CommunityRestart
<1>7. CASE UNCHANGED communityVars
    BY <1>7 DEF communityVars, CommunityInv, GraphsKept, CountsKept, NothingMoved, Undirected,
                Vertexes, GraphOf, Community, Settled
<1> QED
    BY <1>1, <1>2, <1>3, <1>4, <1>5, <1>6, <1>7 DEF CommunityNext, CommunitySteps

(***************************************************************************)
(* The working graph is the original one with the vertices of communities   *)
(* made one, inside and total are what they are named for, and a level that *)
(* has moved nothing has found nothing to gain.                             *)
(***************************************************************************)
THEOREM CommunityInvariance == CommunitySpec => []CommunityInv
<1>1. CommunityInit => CommunityInv
    BY DEF CommunityInit, CommunityInv
<1>2. CommunityInv /\ [CommunityNext]_communityVars => CommunityInv'
    BY NextKeeps
<1> QED
    BY <1>1, <1>2, PTL DEF CommunitySpec

(***************************************************************************)
(* The modularity that iterate() goes by is that of the division of the     *)
(* original graph, after every move and at every level.                     *)
(***************************************************************************)
THEOREM ExactModularity == CommunitySpec => []ModularityExact
<1>1. CommunityInv => ModularityExact
    BY CountsExact DEF CommunityInv, ModularityExact, GraphsKept
<1> QED
    BY <1>1, CommunityInvariance, PTL

(***************************************************************************)
(* No two of the communities found are better off as one.                   *)
(***************************************************************************)
THEOREM FoundAreApart == CommunitySpec => []MergingGainsNothing
<1>1. ASSUME CommunityInv, phase = "found",
             NEW c \in 0..(nCommunities - 1), NEW d \in 0..(nCommunities - 1), c < d
      PROVE  Weighs(Members(c), Members(d)) <= Expected(Members(c), Members(d))
  <2> DEFINE V == Vertexes(g)
             W == g.weights
             k == g.weightedDegree
  <2>1. GraphsKept /\ CountsKept /\ NothingMoved
    BY <1>1 DEF CommunityInv
  <2>2. /\ c \in V /\ d \in V /\ c # d
        /\ vertexToComm = [u \in V |-> u]
        /\ Settled(c)
    <3>1. V = 0..(nCommunities - 1) /\ \A u \in V : Settled(u)
      BY <1>1, <2>1 DEF NothingMoved
    <3>2. \A u \in V : u \in Int
      BY <2>1, GraphSums DEF GraphsKept
    <3>3. c \in V /\ d \in V
      BY <3>1
    <3>4. c # d
      BY <1>1, <3>2, <3>3
    <3> QED
      BY <1>1, <2>1, <3>1, <3>3, <3>4 DEF NothingMoved
  <2>3. Community(c) = {c} /\ Community(d) = {d}
    BY <2>2 DEF Community, Fiber
  <2>4. /\ Matrix(W, V)
        /\ k[c] = Edges(W, {c}, V) /\ k[d] = Edges(W, {d}, V)
    BY <2>1, <2>2, GraphSums DEF GraphsKept
  <2>5. Edges(W, {c}, {d}) = W[c][d]
    <3>1. Edges(W, {c}, {d}) = Weight(W, c, d)
      <4> HIDE DEF V, W
      <4> QED
        BY <2>2, <2>4, OneEdge
    <3> QED
      BY <3>1 DEF Weight
  <2>6. total[c] = k[c] /\ total[d] = k[d]
    BY <2>1, <2>2, <2>3, <2>4 DEF CountsKept
  <2>7. /\ Weighs(Members(c), Members(d)) = g.totalWeight * W[c][d]
        /\ Expected(Members(c), Members(d)) = k[c] * k[d]
    BY <2>1, <2>2, <2>3, <2>5, <2>6, SeenFromBelow
  <2> QED
    BY <2>2, <2>7 DEF Settled
<1>2. CommunityInv => MergingGainsNothing
    BY <1>1 DEF MergingGainsNothing
<1> QED
    BY <1>2, CommunityInvariance, PTL
==============================================================================
