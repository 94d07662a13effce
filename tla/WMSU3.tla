-------------------------------- MODULE WMSU3 --------------------------------
(***************************************************************************)
(* The weighted MSU3 search without partitions (algorithms/Alg_WMSU3.cc),   *)
(* what -algorithm 1 runs on a weighted formula with -no-upmax.             *)
(*                                                                         *)
(* UpWMSU3 was made from it.  Here the first query assumes nothing, every   *)
(* soft clause is assumed from the first model on, and the second model     *)
(* ends the search.  (currentWeight is 1 throughout: isBMO() decides only   *)
(* what printConfiguration prints.)                                         *)
(***************************************************************************)
EXTENDS UpWMSU3

VARIABLE upmax      \* UpWMSU3 runs, not WMSU3

WMSU3vars == <<vars, upmax>>

WMSU3Init ==
    /\ profiles \in Problems
    /\ InitLabels
    /\ current_partition = 0
    /\ activeSoftPartition = Soft
    /\ activeSoft = {}
    /\ assumptions = {}
    /\ nbSatisfiable = 0
    /\ stuck = FALSE
    /\ lbCost = 0
    /\ ubCost = cost[Soft]
    /\ model = NoModel
    /\ answer = Running

\* res = l_True: the first model enables the soft clauses, the second is best.
Model(P) ==
    /\ SatisfiesQuery(P)
    /\ nbSatisfiable' = nbSatisfiable + 1
    /\ SaveModel(P)
    /\ \/ /\ ubCost' = 0 \/ lbCost = ubCost' \/ nbSatisfiable > 0
          /\ answer' = "_OPTIMUM_"
          /\ UNCHANGED assumptions
       \/ /\ ubCost' # 0 /\ lbCost # ubCost' /\ nbSatisfiable = 0
          /\ assumptions' = Soft \ activeSoft
          /\ UNCHANGED answer
    /\ UNCHANGED <<activeSoft, stuck, lbCost>>

\* res = l_False before any model.
NoModelAtAll ==
    /\ nbSatisfiable = 0 /\ profiles = {}
    /\ answer' = "_UNSATISFIABLE_"
    /\ UNCHANGED <<activeSoft, assumptions, nbSatisfiable, stuck, lbCost, ubCost, model>>

\* res = l_False with conflict K.  The early return for lbCost = ubCost is not
\* taken: the search would stop short of Answered if a core were met then.
RelaxedCore(K) ==
    /\ nbSatisfiable > 0
    /\ lbCost # ubCost
    /\ IsCore(K)
    /\ activeSoft' = activeSoft \cup K
    /\ assumptions' = Soft \ activeSoft'
    /\ RaiseBound(activeSoft')
    /\ UNCHANGED <<nbSatisfiable, ubCost, model, answer>>

WMSU3Step ==
    /\ ~upmax /\ answer = Running /\ ~stuck
    /\ \/ \E P \in profiles : Model(P)
       \/ NoModelAtAll
       \/ \E K \in SUBSET assumptions : RelaxedCore(K)
    /\ UNCHANGED <<problem, current_partition, activeSoftPartition, upmax>>

UpWMSU3Step == upmax /\ Next /\ UNCHANGED upmax

EitherInit ==
    \/ upmax = TRUE /\ Init
    \/ upmax = FALSE /\ WMSU3Init

EitherNext == UpWMSU3Step \/ WMSU3Step

\* One thread, which runs until it answers.
EitherSpec == EitherInit /\ [][EitherNext]_WMSU3vars /\ WF_WMSU3vars(EitherNext)
-----------------------------------------------------------------------------
(***************************************************************************)
(* UpWMSU3 answers a formula whose hard clauses have a model; WMSU3, which  *)
(* asks for a model before anything else, answers every formula.            *)
(***************************************************************************)
Answered == <>((upmax /\ profiles = {}) \/ answer # Running)
=============================================================================
