------------------------------- MODULE UpWMSU3 -------------------------------
(***************************************************************************)
(* The partition-based MSU3 search for weighted formulas                    *)
(* (algorithms/Alg_UpWMSU3.cc), what -algorithm 1 runs when the formula is   *)
(* weighted.                                                                *)
(*                                                                         *)
(* As in UpMSU3 the partitions enter one at a time and a core relaxes its   *)
(* soft clauses, but the bound is on the weight of the relaxed soft clauses *)
(* that are falsified, it is a hard constraint of a SAT solver built anew   *)
(* after each core, and a core raises it to the next value that the weights *)
(* of the relaxed soft clauses can add up to.                               *)
(*                                                                         *)
(* The weights are given as the cost of every set of soft clauses.  _limit  *)
(* is never given a value by the constructor, so whether a conflict budget  *)
(* is on is left open.                                                      *)
(***************************************************************************)
EXTENDS SoftPartitions

CONSTANTS
    Problems,       \* the sets of profiles the search may be given
    cost,           \* cost[S]: the sum of the weights of S
    NoModel         \* model while none has been saved

ASSUME ProblemAssumption == Problems \subseteq SUBSET SUBSET Soft
ASSUME CostAssumption ==
    /\ cost \in [SUBSET Soft -> Nat]
    /\ \A i \in Soft : cost[{i}] > 0
    /\ \A A, B \in SUBSET Soft :
          A \cap B = {} => cost[A \cup B] = cost[A] + cost[B]

VARIABLES
    profiles,               \* the problem: what its models may falsify
    current_partition,
    activeSoftPartition,    \* the soft clauses whose partition has entered
    activeSoft,             \* the soft clauses that were in a core
    assumptions,            \* the soft clauses assumed to hold
    nbSatisfiable,          \* the number of models found
    stuck,                  \* the loop that raises lbCost will not end
    lbCost, ubCost, model, answer

problem == <<profiles, label>>
search  == <<current_partition, activeSoftPartition, activeSoft, assumptions>>
vars    == <<problem, search, nbSatisfiable, stuck, lbCost, ubCost, model, answer>>

Running == "_UNKNOWN_"
-----------------------------------------------------------------------------
\* encodePB: the relaxed soft clauses a model falsifies weigh at most lbCost.
WithinBound(P) == cost[P \cap activeSoft] <= lbCost

SatisfiesQuery(P) == P \cap assumptions = {} /\ WithinBound(P)

LastPartition == current_partition + 1 = nSoftPartitions

Init ==
    /\ profiles \in Problems
    /\ InitLabels
    /\ current_partition = 0
    /\ activeSoftPartition = SoftPartition(0)
    /\ activeSoft = {}
    /\ assumptions = SoftPartition(0)
    /\ nbSatisfiable = 0
    /\ stuck = FALSE
    /\ lbCost = 0
    /\ ubCost = cost[Soft]
    /\ model = NoModel
    /\ answer = Running

\* Mutant: the first model is saved only if it costs less than ubCost.
SaveModelStrict(P) ==
    \/ cost[P] < ubCost /\ model' = P /\ ubCost' = cost[P]
    \/ cost[P] >= ubCost /\ UNCHANGED <<model, ubCost>>

\* Mutant: the last model is saved, not the best one.
SaveModelAlways(P) == model' = P /\ ubCost' = cost[P]

SaveModel(P) ==
    \/ /\ cost[P] < ubCost \/ nbSatisfiable' = 1
       /\ model' = P
       /\ ubCost' = cost[P]
    \/ /\ cost[P] >= ubCost /\ nbSatisfiable' # 1
       /\ UNCHANGED <<model, ubCost>>

(***************************************************************************)
(* initAssumptionsPartition: the partition that enters is assumed, but for  *)
(* the soft clauses that were relaxed already.                              *)
(***************************************************************************)
AddPartition(k) ==
    /\ activeSoftPartition' = activeSoftPartition \cup SoftPartition(k)
    /\ assumptions' = assumptions \cup (SoftPartition(k) \ activeSoft)

Stop ==
    /\ answer' = "_OPTIMUM_"
    /\ UNCHANGED <<activeSoftPartition, assumptions>>

\* res = l_True
Satisfiable(P) ==
    /\ answer = Running /\ ~stuck
    /\ SatisfiesQuery(P)
    /\ nbSatisfiable' = nbSatisfiable + 1
    /\ SaveModel(P)
    /\ \/ /\ ubCost' = 0
          /\ Stop
          /\ UNCHANGED current_partition
       \/ /\ ubCost' # 0 /\ LastPartition
          /\ Stop
          /\ current_partition' = current_partition + 1
       \/ /\ ubCost' # 0 /\ ~LastPartition
          /\ AddPartition(current_partition + 1)
          /\ current_partition' = current_partition + 1
          /\ UNCHANGED answer
    /\ UNCHANGED <<problem, activeSoft, stuck, lbCost>>

\* res = l_Undef; the budget is off on the last partition.
BudgetExhausted ==
    /\ answer = Running /\ ~stuck
    /\ ~LastPartition
    /\ AddPartition(current_partition + 1)
    /\ current_partition' = current_partition + 1
    /\ UNCHANGED <<problem, activeSoft, nbSatisfiable, stuck,
                   lbCost, ubCost, model, answer>>

(***************************************************************************)
(* lbCost++, then again until subsetSum finds soft clauses in A that weigh  *)
(* lbCost.  With no such value left the loop does not end: its table grows  *)
(* with lbCost until memory is exhausted.                                   *)
(***************************************************************************)
Sums(A) == {cost[S] : S \in SUBSET A}

\* Mutant: the bound grows by the least weight of a relaxed soft clause.
RaiseBoundByLeast(A) ==
    \E i \in A : /\ \A j \in A : cost[{i}] <= cost[{j}]
               /\ lbCost' = lbCost + cost[{i}]
               /\ UNCHANGED stuck

\* Mutant: subsetSum is asked before the core is relaxed.
RaiseBoundEarly(A) ==
    \/ /\ lbCost' \in Sums(activeSoft)
       /\ lbCost' > lbCost
       /\ \A s \in Sums(activeSoft) : s > lbCost => lbCost' <= s
       /\ UNCHANGED stuck
    \/ /\ \A s \in Sums(activeSoft) : s <= lbCost
       /\ stuck' = TRUE
       /\ UNCHANGED lbCost

RaiseBound(A) ==
    \/ /\ lbCost' \in Sums(A)
       /\ lbCost' > lbCost
       /\ \A s \in Sums(A) : s > lbCost => lbCost' <= s
       /\ UNCHANGED stuck
    \/ /\ \A s \in Sums(A) : s <= lbCost
       /\ stuck' = TRUE
       /\ UNCHANGED lbCost

(***************************************************************************)
(* res = l_False with conflict K.  The bound is a hard constraint, so the   *)
(* conflict holds soft clauses only; it may be empty.                       *)
(***************************************************************************)
IsCore(K) == \A P \in profiles : P \cap K = {} => ~WithinBound(P)

Core(K) ==
    /\ answer = Running /\ ~stuck
    /\ IsCore(K)
    /\ activeSoft' = activeSoft \cup K
    /\ assumptions' = activeSoftPartition \ activeSoft'
    /\ RaiseBound(activeSoft')
    /\ UNCHANGED <<problem, current_partition, activeSoftPartition,
                   nbSatisfiable, ubCost, model, answer>>

Next ==
    \/ \E P \in profiles : Satisfiable(P)
    \/ BudgetExhausted
    \/ \E K \in SUBSET assumptions : Core(K)

\* The search is one thread that runs until it answers, and the SAT solver
\* answers every call, so a step that can be taken is taken.
Spec == Init /\ [][Next]_vars /\ WF_vars(Next)
-----------------------------------------------------------------------------
TypeOK ==
    /\ profiles \in SUBSET SUBSET Soft
    /\ label \in [Soft -> -1..nPartitions]
    /\ current_partition \in 0..nSoftPartitions
    /\ activeSoftPartition \in SUBSET Soft
    /\ activeSoft \in SUBSET Soft
    /\ assumptions \in SUBSET Soft
    /\ nbSatisfiable \in Nat
    /\ stuck \in BOOLEAN
    /\ lbCost \in Nat
    /\ ubCost \in Nat
    /\ model \in {NoModel} \cup SUBSET Soft
    /\ answer \in {Running, "_OPTIMUM_"}

(***************************************************************************)
(* The relaxed soft clauses every model falsifies weigh at least lbCost.    *)
(* Going to the next subset sum (lines 172-177) skips only values that no   *)
(* model can cost.                                                          *)
(***************************************************************************)
LowerBound == \A P \in profiles : lbCost <= cost[P \cap activeSoft]

(***************************************************************************)
(* The loop of lines 173-176 fails to end only when there is nothing to     *)
(* find, that is when the hard clauses have no model.                       *)
(***************************************************************************)
StuckOnlyWithoutModel == stuck => profiles = {}

(***************************************************************************)
(* A soft clause that has entered is assumed or relaxed, never both.        *)
(***************************************************************************)
AssumedOrRelaxed ==
    /\ assumptions = activeSoftPartition \ activeSoft
    /\ activeSoft \subseteq activeSoftPartition

(***************************************************************************)
(* The model printed with "s OPTIMUM FOUND" costs ubCost, and no model      *)
(* costs less.                                                              *)
(***************************************************************************)
OptimumCorrect ==
    answer = "_OPTIMUM_" =>
        /\ model \in profiles
        /\ ubCost = cost[model]
        /\ \A P \in profiles : cost[model] <= cost[P]

(***************************************************************************)
(* The search keeps the promise of MaxSATSearch.                            *)
(***************************************************************************)
Promise == INSTANCE MaxSATSearch

ImplementsMaxSATSearch == Promise!Spec
=============================================================================
