--------------------------------- MODULE WBO ---------------------------------
(***************************************************************************)
(* The WBO search without partitions (algorithms/Alg_WBO.cc), what          *)
(* -algorithm 0 runs with -no-upmax.                                        *)
(*                                                                         *)
(* It transforms the formula as UpWBO does (the code of the two is a copy   *)
(* but for the searches), assumes every soft clause from the start, and has *)
(* the options UpWBO's constructor fixes: the weight strategy, symmetry     *)
(* breaking and the limit on symmetry clauses.  With a weight strategy the  *)
(* solver is given the soft clauses from a weight on only, and the weight   *)
(* falls when they have a model.                                            *)
(***************************************************************************)
EXTENDS UpWBO

CONSTANTS
    Options,        \* what the command line may say
    hard_weight     \* of the input; no soft clause weighs as much

VARIABLES
    upmax,              \* UpWBO runs, not WBO
    options,            \* weightStrategy, symmetryStrategy, symmetryBreakingLimit
    max_soft_weight,    \* the weight from which on soft clauses are considered
    nbSatisfiable       \* the number of models found: 0, 1, or 2 for more

settings   == <<upmax, options>>
stratified == <<max_soft_weight, nbSatisfiable>>
WBOvars    == <<vars, settings, stratified>>

Weights == {soft[k].weight : k \in DOMAIN soft}

\* search(): a formula whose soft clauses all weigh 1 needs no strategy.
weightStrategy ==
    IF \A i \in Soft : weight[i] = 1 THEN "none" ELSE options.weightStrategy
-----------------------------------------------------------------------------
(***************************************************************************)
(* Which soft clauses the solver has: rebuildSolver takes all of them,      *)
(* rebuildWeightSolver those of the maximum weight at least.                *)
(***************************************************************************)
rebuildWeightSolver == {k \in DOMAIN soft : soft[k].weight >= max_soft_weight}

InSolver == IF weightStrategy = "none" THEN DOMAIN soft ELSE rebuildWeightSolver

\* Mutant: the weight itself is no smaller, but passes.
findNextWeightAtMost(w) == Max({1} \cup {v \in Weights : v <= w})

\* The greatest weight below w, or 1.
findNextWeight(w) == Max({1} \cup {v \in Weights : v < w})

\* Five clauses or more to four different weights, or all clauses.
Diverse(w) ==
    LET clauses == {k \in DOMAIN soft : soft[k].weight >= w}
    IN  \/ 4 * Cardinality(clauses) > 5 * Cardinality({soft[k].weight : k \in clauses})
        \/ clauses = DOMAIN soft

\* With the first model only, the weight itself may do.
findNextWeightDiversity(w, models) ==
    Max({v \in Weights \cup {1, w} :
            Diverse(v) /\ (v < w \/ v = 1 \/ (v = w /\ models = 1))})

\* updateCurrentWeight and setMaximumWeightWBO.
updateCurrentWeight(models) ==
    LET next == IF weightStrategy = "diversify"
                THEN findNextWeightDiversity(max_soft_weight, models)
                ELSE findNextWeight(max_soft_weight)
    IN  max_soft_weight' = IF next # hard_weight THEN next ELSE max_soft_weight

(***************************************************************************)
(* The next query is about what the solver has; a soft clause it does not   *)
(* have is in no core.                                                      *)
(***************************************************************************)
WBOAllows(P, K) == Allows(P, K \cap InSolver)

WBOInit ==
    /\ Init
    /\ upmax \in BOOLEAN
    /\ options \in Options
    /\ max_soft_weight = Max({weight[i] : i \in Soft})
    /\ nbSatisfiable = 0

(***************************************************************************)
(* unsatSearch, initAssumptions and what comes before the loop.  What       *)
(* unsatSearch returns is dropped, as in UpWBO; findNextWeightDiversity     *)
(* asserts that it has found a model.                                       *)
(***************************************************************************)
WBOUnsatSearch ==
    /\ pc = "unsatSearch"
    /\ \/ /\ \E P \in profiles : model' = P /\ ubCost' = CostModel(P)
          /\ nbSatisfiable' = 1
          /\ UNCHANGED answer
       \/ /\ profiles = {}
          /\ answer' = "_UNSATISFIABLE_"
          /\ UNCHANGED <<nbSatisfiable, model, ubCost>>
    /\ assumptions' = DOMAIN soft
    /\ \/ /\ weightStrategy = "none"
          /\ pc' = "normalSearch"
          /\ UNCHANGED max_soft_weight
       \/ /\ weightStrategy = "diversify" /\ nbSatisfiable' = 0
          /\ pc' = "aborted"
          /\ UNCHANGED max_soft_weight
       \/ /\ weightStrategy # "none" /\ (weightStrategy = "normal" \/ nbSatisfiable' > 0)
          /\ pc' = "weightSearch"
          /\ updateCurrentWeight(nbSatisfiable')
    /\ UNCHANGED <<problem, formula, current_partition, lbCost, settings>>

CountModel == nbSatisfiable' = Min({nbSatisfiable + 1, 2})

Optimum == answer' = "_OPTIMUM_" /\ pc' = "returned"

\* Mutant: the search stops when the bounds are within one.
BoundsNearlyMet == lbCost' + 1 >= ubCost

BoundsMet == lbCost' = ubCost

(***************************************************************************)
(* symmetryLog and symmetryBreaking under a limit.  The clauses are made in *)
(* the order of the conflict; of one soft clause, core after core as the    *)
(* cores were met; and the limit may stop this half way.                    *)
(***************************************************************************)
Logging ==
    /\ options.symmetryStrategy
    /\ Cardinality(symmetryClauses) < options.symmetryBreakingLimit

Sooner(s, t) == \E d \in 1..4 : s[d] < t[d] /\ \A e \in 1..(d - 1) : s[e] = t[e]

symmetryBreaking(indexSoftCore) ==
    LET made == Together(indexSoftCore)
        met  == [c \in {t[3] : t \in made} |->
                    Min({i \in DOMAIN indexSoftCore :
                            c \in soft[indexSoftCore[i]].softMapping})]
        turn == [t \in made |-> <<t[2], met[t[3]], t[3], t[1]>>]
        room == options.symmetryBreakingLimit - Cardinality(symmetryClauses)
    IN  {SymmetryClause(indexSoftCore, t) :
            t \in {u \in made : Cardinality({s \in made : Sooner(turn[s], turn[u])}) < room}}

\* relaxCore and the solver rebuilt.  A relaxed clause is logged for symmetry
\* breaking only while there is room.
WBORelaxCore(K) ==
    /\ \/ /\ Logging
          /\ RelaxCore(K)
          /\ \E indexSoftCore \in IndexSoftCores(K) :
                symmetryClauses' = symmetryClauses \cup symmetryBreaking(indexSoftCore)
       \/ /\ ~Logging
          /\ RelaxAndLog(K, {})
          /\ UNCHANGED symmetryClauses
    /\ solverClauses' = symmetryClauses
    /\ UNCHANGED answer

\* res = l_False.  Only normalSearch compares the bounds.
WBOCore(K) ==
    /\ pc \in {"normalSearch", "weightSearch"}
    /\ K # {}
    /\ profiles # {} \/ Len(exactlyOne) < MaxCores
    /\ lbCost' = lbCost + CostCore(K)
    /\ \/ /\ pc = "normalSearch" /\ BoundsMet
          /\ Optimum
          /\ UNCHANGED <<formula, assumptions>>
       \/ /\ pc = "weightSearch" \/ ~BoundsMet
          /\ WBORelaxCore(K)
          /\ UNCHANGED pc
    /\ UNCHANGED <<problem, current_partition, ubCost, model, settings, stratified>>

\* res = l_True in normalSearch.
NormalModel(P) ==
    /\ pc = "normalSearch"
    /\ WBOAllows(P, assumptions)
    /\ CountModel
    /\ model' = P
    /\ ubCost' = CostModel(P)
    /\ Optimum
    /\ UNCHANGED <<problem, formula, current_partition, assumptions, lbCost,
                   settings, max_soft_weight>>

\* nbCurrentSoft == nSoft()
Considered == InSolver = DOMAIN soft

\* res = l_True in weightSearch: every soft clause was considered.
LastModel(P) ==
    /\ pc = "weightSearch" /\ Considered
    /\ WBOAllows(P, assumptions)
    /\ CountModel
    /\ \/ lbCost < ubCost /\ ubCost' = lbCost /\ model' = P
       \/ lbCost >= ubCost /\ UNCHANGED <<ubCost, model>>
    /\ Optimum
    /\ UNCHANGED <<problem, formula, current_partition, assumptions, lbCost,
                   settings, max_soft_weight>>

\* Some were not: lighter ones are considered from now on.
StratumModel(P) ==
    /\ pc = "weightSearch" /\ ~Considered
    /\ WBOAllows(P, assumptions)
    /\ CountModel
    /\ updateCurrentWeight(nbSatisfiable')
    /\ \/ CostModel(P) < ubCost /\ ubCost' = CostModel(P) /\ model' = P
       \/ CostModel(P) >= ubCost /\ UNCHANGED <<ubCost, model>>
    /\ \/ /\ lbCost = ubCost'
          /\ Optimum
          /\ UNCHANGED solverClauses
       \/ /\ lbCost # ubCost'
          /\ solverClauses' = symmetryClauses
          /\ UNCHANGED <<answer, pc>>
    /\ UNCHANGED <<problem, soft, exactlyOne, symmetryClauses, current_partition,
                   assumptions, lbCost, settings>>

\* The assertion conflict.size() > 0 fails.
WBOEmptyCore ==
    /\ pc \in {"normalSearch", "weightSearch"}
    /\ {} \in Cores({})
    /\ pc' = "aborted"
    /\ UNCHANGED <<problem, formula, current_partition, assumptions,
                   lbCost, ubCost, model, answer, settings, stratified>>

UpWBOStep == upmax /\ Next /\ UNCHANGED <<settings, stratified>>

WBOStep ==
    /\ ~upmax
    /\ \/ WBOUnsatSearch
       \/ \E K \in Cores(assumptions \cap InSolver) : WBOCore(K)
       \/ \E P \in profiles : NormalModel(P) \/ LastModel(P) \/ StratumModel(P)
       \/ WBOEmptyCore

WBONext == UpWBOStep \/ WBOStep

\* One thread, which runs until it returns; the SAT solver has no budget here.
WBOSpec == WBOInit /\ [][WBONext]_WBOvars /\ WF_WBOvars(WBONext)
-----------------------------------------------------------------------------
(***************************************************************************)
(* When "s OPTIMUM FOUND" is printed the bounds have met: the cores found,  *)
(* whatever was considered when, add up to the cost of the best model.      *)
(* (Unless a logged soft clause was split.  And on hard clauses without a   *)
(* model normalSearch of WBO may print it too, after "s UNSATISFIABLE",     *)
(* when lbCost comes to equal the initial ubCost.)                          *)
(***************************************************************************)
BoundsMeet ==
    (answer = "_OPTIMUM_" /\ profiles # {} /\ ~LoggedSplit) => lbCost = ubCost

(***************************************************************************)
(* "assert(lbCost == ubCost)", which normalSearch has where it prints the   *)
(* optimum it has found (Alg_WBO.cc, line 976).                             *)
(***************************************************************************)
AssertedBounds ==
    (~upmax /\ answer = "_OPTIMUM_" /\ profiles # {}) => lbCost = ubCost
=============================================================================
