-------------------------------- MODULE UpWBO --------------------------------
(***************************************************************************)
(* The partition-based WBO search (algorithms/Alg_UpWBO.cc), -algorithm 0.  *)
(*                                                                         *)
(* UpWBO transforms the formula: a core gives each of its soft clauses a    *)
(* relaxation variable, a hard constraint makes exactly one of them true,   *)
(* and lbCost grows by the least weight in the core.  A soft clause that    *)
(* weighs more is split, and the part with the weight of the core is        *)
(* relaxed.  Binary hard clauses break the symmetries between the           *)
(* relaxation variables of soft clauses that were in two cores together.    *)
(*                                                                         *)
(* The constructor selects the variant of the module: no weight strategy,   *)
(* so normalSearch, with symmetry breaking on.                              *)
(***************************************************************************)
EXTENDS SoftPartitions, SequencesExt, Sums

CONSTANTS
    Problems,       \* the sets of profiles the search may be given
    weight,         \* weight[i]: the weight of soft clause i
    limit,          \* the conflict budget of -limit, -1 for none
    MaxCores,       \* bound: the number of cores when there is no profile
    MaxSlack,       \* bound: a core of more soft clauses than this is minimal
    NoModel         \* model while none has been saved

ASSUME ProblemAssumption == Problems \subseteq SUBSET SUBSET Soft
ASSUME IndexAssumption == Soft = 1..Cardinality(Soft)
ASSUME WeightAssumption == weight \in [Soft -> Nat \ {0}]
ASSUME BoundAssumption == limit \in Int /\ {MaxCores, MaxSlack} \subseteq Nat

VARIABLES
    profiles,           \* the problem: what its models may falsify
    soft,               \* the soft clauses of the working formula, each the
                        \* (partial) copy of a clause of the input
    exactlyOne,         \* exactlyOne[n]: the soft clauses relaxed in core n
    symmetryClauses,    \* the symmetry clauses of the working formula
    solverClauses,      \* the symmetry clauses the SAT solver was built with
    current_partition,
    assumptions,        \* the soft clauses assumed to hold
    lbCost, ubCost, model, answer,
    pc                  \* "unsatSearch", "normalSearch", "returned", "aborted"

problem == <<profiles, label>>
formula == <<soft, exactlyOne, symmetryClauses, solverClauses>>
vars    == <<problem, formula, current_partition, assumptions,
             lbCost, ubCost, model, answer, pc>>

Running == "_UNKNOWN_"

WeightOf(K) == SumOver([k \in DOMAIN soft |-> soft[k].weight], K)
-----------------------------------------------------------------------------
(***************************************************************************)
(* The working formula.  <<n, k>> is the relaxation variable that core n    *)
(* gave to soft[k].  encodeEO lets exactly one variable of a core be true:  *)
(* a choice names it, and a symmetry clause forbids two of them together.   *)
(***************************************************************************)
Selections ==
    LET first[n \in 0..Len(exactlyOne)] ==
            IF n = 0 THEN {<<>>}
            ELSE {Append(f, k) : f \in first[n - 1], k \in exactlyOne[n]}
    IN  first[Len(exactlyOne)]

Relaxations(clauses) ==
    {f \in Selections : \A c \in clauses : \E v \in c : f[v[1]] # v[2]}

Relaxed(k, f) == \E v \in soft[k].relaxation_vars : f[v[1]] = v[2]

\* The soft clauses that an assignment falsifies.
Falsified(P, f) == {k \in DOMAIN soft : soft[k].clause \in P /\ ~Relaxed(k, f)}

\* The hard part, and the soft clauses K, have a model with profile P.
Allows(P, K) == \E f \in Relaxations(solverClauses) : Falsified(P, f) \cap K = {}

LastPartition == current_partition + 1 = nSoftPartitions

Init ==
    /\ profiles \in Problems
    /\ InitLabels
    /\ soft = [i \in Soft |-> [clause |-> i, weight |-> weight[i],
                               relaxation_vars |-> {}, softMapping |-> {}]]
    /\ exactlyOne = <<>>
    /\ symmetryClauses = {}
    /\ solverClauses = {}
    /\ current_partition = 0
    /\ assumptions = {}
    /\ lbCost = 0
    /\ ubCost = WeightOf(Soft)
    /\ model = NoModel
    /\ answer = Running
    /\ pc = "unsatSearch"

\* computeCostModel, over the soft clauses of the working formula.
CostModel(P) == WeightOf({k \in DOMAIN soft : soft[k].clause \in P})

\* Mutant: the last model is saved, not the best one.
SaveModelAlways(P) == model' = P /\ ubCost' = CostModel(P)

SaveModel(P) ==
    \/ CostModel(P) <= ubCost /\ model' = P /\ ubCost' = CostModel(P)
    \/ CostModel(P) > ubCost /\ UNCHANGED <<model, ubCost>>

(***************************************************************************)
(* unsatSearch: the hard clauses alone.  normalSearch does not look at what *)
(* it returns, and goes on in either case.                                  *)
(***************************************************************************)
UnsatSearch ==
    /\ pc = "unsatSearch"
    /\ \/ /\ \E P \in profiles : model' = P /\ ubCost' = CostModel(P)
          /\ UNCHANGED answer
       \/ /\ profiles = {}
          /\ answer' = "_UNSATISFIABLE_"
          /\ UNCHANGED <<model, ubCost>>
    /\ pc' = "normalSearch"
    /\ assumptions' = SoftPartition(0)
    /\ UNCHANGED <<problem, formula, current_partition, lbCost>>

\* The partition that is done was the last, or the next one enters.
NextPartition ==
    /\ current_partition' = current_partition + 1
    /\ \/ /\ LastPartition \/ ubCost' = 0
          /\ answer' = "_OPTIMUM_"
          /\ pc' = "returned"
          /\ UNCHANGED assumptions
       \/ /\ ~LastPartition /\ ubCost' # 0
          /\ assumptions' = assumptions \cup SoftPartition(current_partition + 1)
          /\ UNCHANGED <<answer, pc>>

\* res = l_True
Satisfiable(P) ==
    /\ pc = "normalSearch"
    /\ Allows(P, assumptions)
    /\ SaveModel(P)
    /\ NextPartition
    /\ UNCHANGED <<problem, formula, lbCost>>

\* res = l_Undef: the budget is off on the last partition.
BudgetExhausted ==
    /\ pc = "normalSearch"
    /\ limit # -1 /\ ~LastPartition
    /\ current_partition' = current_partition + 1
    /\ assumptions' = assumptions \cup SoftPartition(current_partition + 1)
    /\ UNCHANGED <<problem, formula, lbCost, ubCost, model, answer, pc>>

\* assumps.push(~l): the new parts are assumed as well.
AssumeParts == assumptions' = assumptions \cup (DOMAIN soft' \ DOMAIN soft)

(***************************************************************************)
(* relaxCore.  The soft clauses of the core K that weigh w are relaxed      *)
(* where they are; of each of the others a part of weight w is split off    *)
(* and relaxed.  The order of the conflict only numbers these parts.        *)
(***************************************************************************)
CostCore(K) == Min({soft[k].weight : k \in K})

Kept(K) == {k \in K : soft[k].weight = CostCore(K)}

\* The part of weight w that a core splits off soft[k] and relaxes by v.
SplitOff(k, w, v, logged) ==
    [soft[k] EXCEPT !.weight = w, !.relaxation_vars = @ \cup {v},
                    !.softMapping = logged]

\* logged: what symmetryLog notes of a relaxed clause, the core or nothing.
RelaxAndLog(K, logged) ==
    LET n     == Len(exactlyOne) + 1
        w     == CostCore(K)
        split == SetToSeq(K \ Kept(K))
        new   == {Len(soft) + i : i \in DOMAIN split}
    IN  /\ soft' = [k \in DOMAIN soft |->
                      IF k \in Kept(K)
                      THEN [soft[k] EXCEPT !.relaxation_vars = @ \cup {<<n, k>>},
                                           !.softMapping = @ \cup logged]
                      ELSE [soft[k] EXCEPT !.weight = IF k \in K THEN @ - w ELSE @]]
                   \o [i \in DOMAIN split |->
                      SplitOff(split[i], w, <<n, Len(soft) + i>>, logged)]
        /\ exactlyOne' = Append(exactlyOne, Kept(K) \cup new)
        /\ AssumeParts

RelaxCore(K) == RelaxAndLog(K, {Len(exactlyOne) + 1})

(***************************************************************************)
(* symmetryBreaking.  indexSoftCore lists the relaxed soft clauses that     *)
(* were relaxed before, in the order of the conflict.  Of two of them that  *)
(* were both in core c, the first may not be chosen for c when the second   *)
(* is chosen for the new core.  rebuildSolver calls it after it has copied  *)
(* the hard clauses, so the solver gets the new ones one core late.         *)
(***************************************************************************)
IndexSoftCores(K) == SetToSeqs({k \in Kept(K) : soft[k].softMapping # {}})

\* <<i, j, c>>: its i-th and its j-th were both in core c.
Together(indexSoftCore) ==
    {t \in (DOMAIN indexSoftCore) \X (DOMAIN indexSoftCore) \X (DOMAIN exactlyOne) :
        /\ t[1] < t[2]
        /\ t[3] \in soft[indexSoftCore[t[1]]].softMapping
        /\ t[3] \in soft[indexSoftCore[t[2]]].softMapping}

SymmetryClause(indexSoftCore, t) ==
    {<<t[3], indexSoftCore[t[1]]>>, <<Len(exactlyOne) + 1, indexSoftCore[t[2]]>>}

\* Mutant: the inner loop starts at 0, not after i.
SymmetryBreakingBothWays(indexSoftCore) ==
    {SymmetryClause(indexSoftCore, t) : t \in Together(indexSoftCore)}
      \cup {SymmetryClause(indexSoftCore, <<t[2], t[1], t[3]>>) : t \in Together(indexSoftCore)}

SymmetryBreaking(indexSoftCore) ==
    {SymmetryClause(indexSoftCore, t) : t \in Together(indexSoftCore)}

\* The subsets of A, assumptions of a query, that cannot all hold, as far as
\* the bound lets them be returned.
Cores(A) ==
    LET models  == {Falsified(P, f) : P \in profiles, f \in Relaxations(solverClauses)}
        cores   == {K \in SUBSET A : \A F \in models : F \cap K # {}}
    IN  {K \in cores : \/ Cardinality(K) <= MaxSlack
                       \/ \A k \in K : K \ {k} \notin cores}

\* res = l_False
Core(K) ==
    /\ pc = "normalSearch"
    /\ K # {}
    /\ profiles # {} \/ Len(exactlyOne) < MaxCores
    /\ lbCost' = lbCost + CostCore(K)
    /\ RelaxCore(K)
    /\ \E indexSoftCore \in IndexSoftCores(K) :
          symmetryClauses' = symmetryClauses \cup SymmetryBreaking(indexSoftCore)
    /\ solverClauses' = symmetryClauses
    /\ UNCHANGED <<problem, current_partition, ubCost, model, answer, pc>>

\* The assertion conflict.size() > 0 fails.
EmptyCore ==
    /\ pc = "normalSearch"
    /\ {} \in Cores({})
    /\ pc' = "aborted"
    /\ UNCHANGED <<problem, formula, current_partition, assumptions,
                   lbCost, ubCost, model, answer>>

Next ==
    \/ UnsatSearch
    \/ \E P \in profiles : Satisfiable(P)
    \/ BudgetExhausted
    \/ \E K \in Cores(assumptions) : Core(K)
    \/ EmptyCore

\* The search is one thread that runs until it returns, and the SAT solver
\* answers every call, so a step that can be taken is taken.
Spec == Init /\ [][Next]_vars /\ WF_vars(Next)
-----------------------------------------------------------------------------
(***************************************************************************)
(* A soft clause was split after symmetry breaking had logged a core that   *)
(* relaxed it.  The relaxation variable of that core is no longer its own,  *)
(* it relaxes the part as well, but the log keeps it.                       *)
(***************************************************************************)
LoggedSplit ==
    \E k, l \in DOMAIN soft :
        k # l /\ \E c \in soft[k].softMapping : <<c, k>> \in soft[l].relaxation_vars

(***************************************************************************)
(* The working formula is the input formula shifted by lbCost: what a model *)
(* costs is lbCost plus the least weight it falsifies of the working        *)
(* formula.  Relaxing, splitting and breaking symmetries must not cut off   *)
(* the best choice of relaxation variables of any model.  This holds as     *)
(* long as no logged soft clause is split.  (A search that returns when its *)
(* bounds meet does not relax the last core.)                               *)
(***************************************************************************)
InputCost(P) == SumOver(weight, P)

CostPreserved ==
    (pc # "returned" /\ ~LoggedSplit) =>
        LET choices == Relaxations(symmetryClauses)
        IN  \A P \in profiles :
                InputCost(P) = lbCost + Min({WeightOf(Falsified(P, f)) : f \in choices})

(***************************************************************************)
(* On a formula whose hard clauses have a model the search keeps the        *)
(* promise of MaxSATSearch, as long as no logged soft clause is split.      *)
(***************************************************************************)
Promise == INSTANCE MaxSATSearch WITH
              cost <- [P \in SUBSET Soft |-> InputCost(P)]

ImplementsMaxSATSearch ==
    /\ Promise!Init
    /\ [][profiles # {} /\ ~LoggedSplit => Promise!Next]_(Promise!vars)

(***************************************************************************)
(* A formula whose hard clauses have a model is answered.                   *)
(***************************************************************************)
AnswersWhenSatisfiable == <>(profiles = {} \/ pc = "returned")

(***************************************************************************)
(* "If the hard clauses are unsatisfiable then the MaxSAT solver terminates *)
(* and returns 'UNSATISFIABLE'." (the comment on unsatSearch, lines 788-789)*)
(***************************************************************************)
TerminatesWhenUnsatisfiable == [][answer # "_UNSATISFIABLE_"]_vars
=============================================================================
