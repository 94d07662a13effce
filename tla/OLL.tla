--------------------------------- MODULE OLL ---------------------------------
(***************************************************************************)
(* The OLL search without partitions (algorithms/Alg_OLL.cc), what          *)
(* -algorithm 2 runs with -no-upmax.                                        *)
(*                                                                         *)
(* Its cores are relaxed as UpOLL relaxes them (the code of that part is a  *)
(* copy).  Every soft clause may be assumed from the start, but the first   *)
(* query assumes nothing, which finds the formulas without a model, and     *)
(* weighted() goes by strata: what weighs less than min_weight is not       *)
(* assumed until all that weighs more has a model.  Both searches stop when *)
(* the bounds meet.                                                         *)
(***************************************************************************)
EXTENDS UpOLL

VARIABLES
    upmax,          \* UpOLL runs, not OLL
    min_weight,     \* what weighs less is not assumed
    nbSatisfiable   \* the number of models found: 0, 1, or 2 for more

OLLvars == <<vars, upmax, min_weight, nbSatisfiable>>

Searching == answer = Running /\ ~aborted
-----------------------------------------------------------------------------
(***************************************************************************)
(* Stratification.  The soft clauses, the relaxed ones included, and the    *)
(* outputs assumed of totalizers are told apart as in WeightOf.             *)
(***************************************************************************)
Weighed == {<<0, k>> : k \in DOMAIN soft} \cup CardinalityAssumptions

AtLeast(w) == {lit \in Weighed : WeightOf(lit) >= w}

\* The greatest weight below w, or 1.
findNextWeight(w) ==
    Max({1} \cup {v \in {WeightOf(lit) : lit \in Weighed} : v < w})

\* Five to four different weights or more, or everything.
Diverse(w) ==
    \/ 4 * Cardinality(AtLeast(w))
          > 5 * Cardinality({WeightOf(lit) : lit \in AtLeast(w)})
    \/ AtLeast(w) = Weighed

\* With the first model only, the weight itself may do.
findNextWeightDiversity(w, models) ==
    Max({v \in {WeightOf(lit) : lit \in Weighed} \cup {1, w} :
            Diverse(v) /\ (v < w \/ v = 1 \/ (v = w /\ models = 1))})

\* Mutant: only the soft clauses are asked, not the totalizers.
AllSoftConsidered == \A k \in DOMAIN soft : soft[k].weight >= min_weight

\* not_considered = 0
Considered == AtLeast(min_weight) = Weighed

OLLAssumed ==
    IF nbSatisfiable = 0 THEN {}
    ELSE {lit \in {<<0, k>> : k \in (DOMAIN soft) \ activeSoft}
                  \cup CardinalityAssumptions : WeightOf(lit) >= min_weight}

OLLInit ==
    /\ Init
    /\ upmax \in BOOLEAN
    /\ min_weight = Max({inputWeight[i] : i \in Soft})
    /\ nbSatisfiable = 0
-----------------------------------------------------------------------------
CountModel == nbSatisfiable' = Min({nbSatisfiable + 1, 2})

SaveAny(P) == model' = P /\ ubCost' = CostModel(P)

\* unweighted(), res = l_True: the first model, and the last.
UnweightedModel(P) ==
    /\ ~Weighted
    /\ Allows(P, OLLAssumed)
    /\ SaveAny(P)
    /\ CountModel
    /\ \/ /\ nbSatisfiable = 0 /\ ubCost' # 0
          /\ UNCHANGED answer
       \/ /\ nbSatisfiable > 0 \/ ubCost' = 0
          /\ answer' = "_OPTIMUM_"
    /\ UNCHANGED <<formula, nbCores, lbCost, min_weight>>

\* weighted(), res = l_True: the first model.
WeightedFirstModel(P) ==
    /\ Weighted /\ nbSatisfiable = 0
    /\ SaveAny(P)
    /\ CountModel
    /\ min_weight' = findNextWeightDiversity(min_weight, 1)
    /\ UNCHANGED <<formula, nbCores, lbCost, answer>>

\* A model of a stratum: the next one enters, or there is none.
WeightedModel(P) ==
    /\ Weighted /\ nbSatisfiable > 0
    /\ Allows(P, OLLAssumed)
    /\ \/ CostModel(P) < ubCost /\ SaveAny(P)
       \/ CostModel(P) >= ubCost /\ UNCHANGED <<model, ubCost>>
    /\ CountModel
    /\ \/ /\ ~Considered
          /\ min_weight' = findNextWeightDiversity(min_weight, 2)
          /\ UNCHANGED answer
       \/ /\ Considered
          /\ answer' = "_OPTIMUM_"
          /\ UNCHANGED min_weight
    /\ UNCHANGED <<formula, nbCores, lbCost>>

\* res = l_False before any model.  No literal weighs anything: the bound
\* of weighted() wraps around to the greatest number, but is not used again.
NoModelAtAll ==
    /\ nbSatisfiable = 0 /\ profiles = {}
    /\ answer' = "_UNSATISFIABLE_"
    /\ nbCores' = nbCores + 1
    /\ UNCHANGED <<formula, lbCost, ubCost, model, min_weight, nbSatisfiable>>

\* The soft clauses of the conflict are relaxed, or split.
RelaxOrSplit(K, w) == RelaxSoft(K, w)

\* Its totalizers are raised, or duplicated, and there is a new one.
RaiseOrDuplicate(K, w) == RelaxCardinality(K, w)

\* The bounds meet, or the core is relaxed.
OLLRelax(K, w) ==
    \/ /\ lbCost' = ubCost
       /\ answer' = "_OPTIMUM_"
       /\ UNCHANGED formula
    \/ /\ lbCost' # ubCost
       /\ RelaxOrSplit(K, w)
       /\ RaiseOrDuplicate(K, w)
       /\ UNCHANGED answer

\* min_core
CoreWeight(K) == Min({WeightOf(lit) : lit \in K})

\* res = l_False with conflict K.  unweighted() takes every weight for 1.
UnweightedCore(K) ==
    /\ ~Weighted
    /\ lbCost' = lbCost + 1
    /\ OLLRelax(K, 1)

WeightedCore(K) ==
    /\ Weighted
    /\ lbCost' = lbCost + CoreWeight(K)
    /\ OLLRelax(K, CoreWeight(K))

OLLCore(K) ==
    /\ K # {} /\ IsCore(K)
    /\ nbCores' = nbCores + 1
    /\ UnweightedCore(K) \/ WeightedCore(K)
    /\ UNCHANGED <<ubCost, model, min_weight, nbSatisfiable>>

UpOLLStep == upmax /\ Next /\ UNCHANGED <<upmax, min_weight, nbSatisfiable>>

OLLStep ==
    /\ ~upmax /\ Searching
    /\ \/ \E P \in profiles : \/ UnweightedModel(P)
                              \/ WeightedFirstModel(P)
                              \/ WeightedModel(P)
       \/ NoModelAtAll
       \/ \E K \in SUBSET OLLAssumed : OLLCore(K)
    /\ UNCHANGED <<problem, activeSoftPartition, current_partition, aborted, upmax>>

OLLNext == UpOLLStep \/ OLLStep

\* One thread, which runs until it returns.
OLLSpec == OLLInit /\ [][OLLNext]_OLLvars /\ WF_OLLvars(OLLNext)
-----------------------------------------------------------------------------
(***************************************************************************)
(* When "s OPTIMUM FOUND" is printed the cores found add up to the cost of  *)
(* the model (the assertions lbCost == newCost): no stratum, and no output  *)
(* of a totalizer, was forgotten on the way.                                *)
(***************************************************************************)
BoundsMeet == answer = "_OPTIMUM_" => lbCost = ubCost
=============================================================================
