-------------------------------- MODULE UpOLL --------------------------------
(***************************************************************************)
(* The partition-based OLL search (algorithms/Alg_UpOLL.cc), -algorithm 2.  *)
(*                                                                         *)
(* A core of least weight w raises lbCost by w.  Its literals are counted   *)
(* by a totalizer of their own, whose second output is assumed false with   *)
(* weight w: at most one of them may be true free of charge.  When such an  *)
(* output is itself in a core, the output above it takes its place.  A      *)
(* literal that weighs more than w is split: a soft clause or a totalizer   *)
(* is duplicated with weight w, and the rest of the weight stays.           *)
(*                                                                         *)
(* unweighted() and weighted() do the same when every weight is 1, but for  *)
(* the early stop at cost 0, which only unweighted() has.                   *)
(*                                                                         *)
(* A literal is <<0, k>>, the relaxation variable of soft[k], or <<j, b>>,  *)
(* outputs()[b] of the totalizer j, true when more than b of its literals   *)
(* are.  All clauses force literals to be true only, so a model that meets  *)
(* the assumptions exists when the one with as few true literals as         *)
(* possible meets them.                                                     *)
(***************************************************************************)
EXTENDS SoftPartitions, SequencesExt, Sums

CONSTANTS
    Problems,       \* the sets of profiles the search may be given
    Weights,        \* the weight functions the search may be given
    limit,          \* the conflict budget of -limit, -1 for none
    MaxCores,       \* bound: the number of cores when there is no profile
    NoModel         \* model while none has been saved

ASSUME ProblemAssumption == Problems \subseteq SUBSET SUBSET Soft
ASSUME IndexAssumption == Soft = 1..Cardinality(Soft)
ASSUME WeightAssumption == Weights \subseteq [Soft -> Nat \ {0}]
ASSUME BoundAssumption == limit \in Int /\ MaxCores \in Nat

VARIABLES
    profiles,           \* the problem: what its models may falsify
    inputWeight,        \* the weights of the input formula
    soft,               \* the soft clauses of the working formula
    activeSoft,         \* the soft clauses that were in a core
    soft_cardinality,   \* soft_cardinality[j]: the literals totalizer j counts
    cardinalityWeight,  \* boundMapping[p].second for p in cardinality_assumptions
    activeSoftPartition,\* the soft clauses whose partition has entered
    current_partition,
    nbCores, lbCost, ubCost, model, answer,
    aborted             \* an assertion has failed

problem == <<profiles, label, inputWeight>>
formula == <<soft, activeSoft, soft_cardinality, cardinalityWeight>>
vars    == <<problem, formula, activeSoftPartition, current_partition,
             nbCores, lbCost, ubCost, model, answer, aborted>>

Running == "_UNKNOWN_"

\* Parsers set the problem type from the largest weight.
Weighted == \E i \in Soft : inputWeight[i] # 1
-----------------------------------------------------------------------------
(***************************************************************************)
(* How many literals each totalizer counts under a model with profile P.    *)
(***************************************************************************)
Counts(P) ==
    LET count[j \in DOMAIN soft_cardinality] ==
            Cardinality({lit \in soft_cardinality[j] :
                            IF lit[1] = 0 THEN soft[lit[2]].clause \in P
                            ELSE count[lit[1]] > lit[2]})
    IN  count

True(P, lit) == IF lit[1] = 0 THEN soft[lit[2]].clause \in P
                ELSE Counts(P)[lit[1]] > lit[2]

SoftAssumptions == {<<0, k>> : k \in activeSoftPartition \ activeSoft}

CardinalityAssumptions == DOMAIN cardinalityWeight

\* assumptions, of which each holds the negation.
Assumed == SoftAssumptions \cup CardinalityAssumptions

Allows(P, K) == \A lit \in K : ~True(P, lit)

\* Mutant: the last partition is never let in.
LastPartitionEarly == current_partition + 2 >= nSoftPartitions

LastPartition == current_partition + 1 = nSoftPartitions

Init ==
    /\ profiles \in Problems
    /\ InitLabels
    /\ inputWeight \in Weights
    /\ soft = [i \in Soft |-> [clause |-> i, weight |-> inputWeight[i]]]
    /\ activeSoft = {}
    /\ soft_cardinality = <<>>
    /\ cardinalityWeight = <<>>
    /\ activeSoftPartition = SoftPartition(0)
    /\ current_partition = 0
    /\ nbCores = 0
    /\ lbCost = 0
    /\ ubCost = SumOver(inputWeight, Soft)
    /\ model = NoModel
    /\ answer = Running
    /\ aborted = FALSE

\* computeCostModel, over the soft clauses of the working formula.
CostModel(P) == SumOver([k \in DOMAIN soft |-> soft[k].weight],
                        {k \in DOMAIN soft : soft[k].clause \in P})

SaveModel(P) ==
    \/ CostModel(P) <= ubCost /\ model' = P /\ ubCost' = CostModel(P)
    \/ CostModel(P) > ubCost /\ UNCHANGED <<model, ubCost>>

\* Mutant: the next partition waits for a model that costs less.
NextPartitionIfBetter ==
    /\ ~LastPartition
    /\ ubCost' < ubCost
    /\ current_partition' = current_partition + 1
    /\ activeSoftPartition' =
          activeSoftPartition \cup SoftPartition(current_partition + 1)
    /\ UNCHANGED answer

NextPartition ==
    /\ ~LastPartition
    /\ current_partition' = current_partition + 1
    /\ activeSoftPartition' =
          activeSoftPartition \cup SoftPartition(current_partition + 1)
    /\ UNCHANGED answer

Stop ==
    /\ answer' = "_OPTIMUM_"
    /\ UNCHANGED <<current_partition, activeSoftPartition>>

\* res = l_True
Satisfiable(P) ==
    /\ answer = Running /\ ~aborted
    /\ Allows(P, Assumed)
    /\ SaveModel(P)
    /\ LET stop == LastPartition \/ (~Weighted /\ ubCost' = 0)
       IN  (stop /\ Stop) \/ (~stop /\ NextPartition)
    /\ UNCHANGED <<problem, formula, nbCores, lbCost, aborted>>

\* res = l_Undef: the budget is off on the last partition.
BudgetExhausted ==
    /\ answer = Running /\ ~aborted
    /\ limit # -1
    /\ UNCHANGED <<problem, formula, nbCores, lbCost, ubCost, model, aborted>>
    /\ NextPartition

(***************************************************************************)
(* res = l_False with conflict K, of least weight w.                        *)
(***************************************************************************)
WeightOf(lit) == IF lit[1] = 0 THEN soft[lit[2]].weight
                 ELSE cardinalityWeight[lit]

SoftIn(K) == {lit \in K : lit[1] = 0}

\* In the order in which they are split, which only numbers the copies.
Heavier(K, w) == SetToSeq({lit \in K : WeightOf(lit) > w})

Rest(k, w) == [soft[k] EXCEPT !.weight = @ - w]

\* A soft clause that weighs w is relaxed; of a heavier one a copy of weight
\* w is made and relaxed.  The literals are those the new totalizer counts.
RelaxSoft(K, w) ==
    LET split == Heavier(SoftIn(K), w)
    IN  /\ soft' = [k \in DOMAIN soft |->
                      IF <<0, k>> \in ToSet(split)
                      THEN Rest(k, w) ELSE soft[k]]
                   \o [i \in DOMAIN split |->
                      [clause |-> soft[split[i][2]].clause, weight |-> w]]
        /\ activeSoft' = activeSoft
                         \cup {lit[2] : lit \in SoftIn(K) \ ToSet(split)}
                         \cup {Len(soft) + i : i \in DOMAIN split}

soft_relax == {<<0, k>> : k \in activeSoft' \ activeSoft}

\* The totalizers of K that weigh more than w, each counted anew by a copy.
Duplicates(K, w) == Heavier(K \ SoftIn(K), w)

CopyOf(lit, split) ==
    IF \E i \in DOMAIN split : split[i] = lit
    THEN <<Len(soft_cardinality) + CHOOSE i \in DOMAIN split : split[i] = lit,
           lit[2]>>
    ELSE lit

cardinality_relax(K, w) ==
    {CopyOf(lit, Duplicates(K, w)) : lit \in K \ SoftIn(K)}

\* All totalizers once the copies are made.
WithCopies(K, w) ==
    soft_cardinality \o [i \in DOMAIN Duplicates(K, w) |->
                            soft_cardinality[Duplicates(K, w)[i][1]]]

\* The outputs above those of the core, where there is one.
Raised(K, w) ==
    {<<lit[1], lit[2] + 1>> :
        lit \in {l \in cardinality_relax(K, w) :
                   l[2] + 1 < Cardinality(WithCopies(K, w)[l[1]])}}

\* Mutant: the heavier totalizer keeps all its weight.
ReweighKeepingAll(K, w, new) ==
    LET gone == {lit \in K \ SoftIn(K) : cardinalityWeight[lit] = w}
    IN  cardinalityWeight' =
          [lit \in (CardinalityAssumptions \ gone) \cup Raised(K, w) \cup new |->
              IF lit \in CardinalityAssumptions THEN cardinalityWeight[lit] ELSE w]

\* What is assumed of totalizers, and for what weight; new is the output of
\* the new totalizer.
Reweigh(K, w, new) ==
    LET gone == {lit \in K \ SoftIn(K) : cardinalityWeight[lit] = w}
    IN  cardinalityWeight' =
          [lit \in (CardinalityAssumptions \ gone) \cup Raised(K, w) \cup new |->
              IF lit \in K THEN cardinalityWeight[lit] - w
              ELSE IF lit \in CardinalityAssumptions THEN cardinalityWeight[lit]
              ELSE w]

\* A core of one literal gets no totalizer.
RelaxCardinality(K, w) ==
    LET relax == soft_relax \cup cardinality_relax(K, w)
        n     == Len(WithCopies(K, w)) + 1
    IN  \/ /\ Cardinality(relax) = 1
           /\ soft_cardinality' = WithCopies(K, w)
           /\ Reweigh(K, w, {})
        \/ /\ Cardinality(relax) > 1
           /\ soft_cardinality' = Append(WithCopies(K, w), relax)
           /\ Reweigh(K, w, {<<n, 1>>})

IsCore(K) == \A P \in profiles : ~Allows(P, K)

Core(K) ==
    /\ answer = Running /\ ~aborted
    /\ K # {} /\ IsCore(K)
    /\ profiles # {} \/ nbCores < MaxCores
    /\ nbCores' = nbCores + 1
    /\ LET w == Min({WeightOf(lit) : lit \in K})
       IN  /\ lbCost' = lbCost + w
           /\ RelaxSoft(K, w)
           /\ RelaxCardinality(K, w)
    /\ UNCHANGED <<problem, activeSoftPartition, current_partition,
                   ubCost, model, answer, aborted>>

\* An empty conflict: the assertion on soft_relax and cardinality_relax fails.
EmptyCore ==
    /\ answer = Running /\ ~aborted
    /\ profiles = {}
    /\ aborted' = TRUE
    /\ UNCHANGED <<problem, formula, activeSoftPartition, current_partition,
                   nbCores, lbCost, ubCost, model, answer>>

Next ==
    \/ \E P \in profiles : Satisfiable(P)
    \/ BudgetExhausted
    \/ \E K \in SUBSET Assumed : Core(K)
    \/ EmptyCore

\* The search is one thread that runs until it returns, and the SAT solver
\* answers every call, so a step that can be taken is taken.
Spec == Init /\ [][Next]_vars /\ WF_vars(Next)
-----------------------------------------------------------------------------
(***************************************************************************)
(* The objective that is left: what a model costs is lbCost, plus the soft  *)
(* clauses not yet relaxed that it falsifies, plus for each totalizer its   *)
(* weight for every true literal beyond the bound.  Splitting a soft clause *)
(* or duplicating a totalizer must keep the sum.  (A search that returns    *)
(* when its bounds meet does not relax the last core.)                      *)
(***************************************************************************)
InputCost(P) == SumOver(inputWeight, P)

\* The soft clauses not yet relaxed that a model falsifies.
SoftLeft(P) == SumOver([k \in DOMAIN soft |-> soft[k].weight],
                       {k \in (DOMAIN soft) \ activeSoft : soft[k].clause \in P})

Beyond(P, lit) == Max({0, Counts(P)[lit[1]] - lit[2]})

CardinalityLeft(P) == SumOver([lit \in CardinalityAssumptions |->
                                  cardinalityWeight[lit] * Beyond(P, lit)],
                              CardinalityAssumptions)

CostPreserved ==
    answer = Running => \A P \in profiles :
        InputCost(P) = lbCost + SoftLeft(P) + CardinalityLeft(P)

(***************************************************************************)
(* The model printed with "s OPTIMUM FOUND" costs ubCost, and no model      *)
(* costs less.                                                              *)
(***************************************************************************)
OptimumCorrect ==
    answer = "_OPTIMUM_" =>
        /\ model \in profiles
        /\ ubCost = InputCost(model)
        /\ \A P \in profiles : InputCost(model) <= InputCost(P)

(***************************************************************************)
(* A formula whose hard clauses have a model is answered.                   *)
(***************************************************************************)
AnswersWhenSatisfiable == <>(profiles = {} \/ answer # Running)
=============================================================================
