-------------------------------- MODULE MSU3 --------------------------------
(***************************************************************************)
(* The MSU3 search without partitions (algorithms/Alg_MSU3.cc,              *)
(* MSU3_iterative), which -no-upmax selects for unweighted formulas, and    *)
(* the enumeration of all optimal solutions it ends with under -all-opt     *)
(* (MaxSAT.cc, enumerate_opt).                                              *)
(*                                                                         *)
(* A solution is <<P, k>>: an assignment that satisfies the hard clauses    *)
(* and falsifies the soft clauses P.  k tells assignments apart that        *)
(* falsify the same ones, which matters to the enumeration only.  The       *)
(* clauses that rebuildSolver adds last make a relaxation variable          *)
(* equivalent to its soft clause being falsified.                           *)
(***************************************************************************)
EXTENDS Integers, FiniteSets

CONSTANTS
    Soft,           \* the soft clauses
    Problems,       \* the sets of solutions the search may be given
    NoModel         \* model while none has been saved

ASSUME SoftAssumption == IsFiniteSet(Soft)
ASSUME ProblemAssumption == \A p \in Problems : p \subseteq (SUBSET Soft) \X Nat

VARIABLES
    solutions,              \* the problem
    allOpt, allVars,        \* _all_opt_sols and _all_var_sols
    activeSoft,             \* the soft clauses that were in a core
    assumptions,            \* the soft clauses assumed to hold
    hasEncoding, encoded, rhs,  \* the totalizer: at most rhs of encoded
    nbSatisfiable, lbCost, ubCost, model, answer,
    pc,                     \* "search", "enumerate" or "returned"
    blocked,                \* the solutions that blocking clauses exclude
    lastModel,              \* solver->model while enumerating
    n_opt_sols,
    found                   \* history: the solutions enumerated

problem     == <<solutions, allOpt, allVars>>
encoder     == <<hasEncoding, encoded, rhs>>
enumeration == <<blocked, lastModel, n_opt_sols, found>>
vars == <<problem, activeSoft, assumptions, encoder, nbSatisfiable,
          lbCost, ubCost, model, answer, pc, enumeration>>

Running == "_UNKNOWN_"

Cost(m) == Cardinality(m[1])
-----------------------------------------------------------------------------
\* Mutant: the bound lets one more soft clause be falsified.
WithinNextBound(m) == hasEncoding => Cardinality(m[1] \cap encoded) <= rhs + 1

WithinBound(m) == hasEncoding => Cardinality(m[1] \cap encoded) <= rhs

SatisfiesQuery(m) ==
    /\ m \in solutions \ blocked
    /\ m[1] \cap assumptions = {}
    /\ WithinBound(m)

Init ==
    /\ solutions \in Problems
    /\ allOpt \in BOOLEAN /\ allVars \in BOOLEAN
    /\ activeSoft = {} /\ assumptions = {}
    /\ hasEncoding = FALSE /\ encoded = {} /\ rhs = 0
    /\ nbSatisfiable = 0
    /\ lbCost = 0
    /\ ubCost = Cardinality(Soft)
    /\ model = NoModel
    /\ answer = Running
    /\ pc = "search"
    /\ blocked = {} /\ lastModel = NoModel /\ n_opt_sols = 0 /\ found = {}

\* Mutant: a later model is taken to cost what the first did.
SaveFirstModel(m) ==
    /\ model' = IF nbSatisfiable = 0 THEN m ELSE model
    /\ ubCost' = IF nbSatisfiable = 0 THEN Cost(m) ELSE ubCost

SaveModel(m) == model' = m /\ ubCost' = Cost(m)

\* The first call assumes nothing; from then on the soft clauses are assumed.
FirstModel(m) ==
    /\ pc = "search" /\ nbSatisfiable = 0
    /\ SatisfiesQuery(m)
    /\ nbSatisfiable' = 1
    /\ SaveModel(m)
    /\ assumptions' = Soft
    /\ UNCHANGED <<problem, activeSoft, encoder, lbCost, answer, pc, enumeration>>

\* A later model is optimal: printAnswer(_OPTIMUM_), then enumerate_opt.
OptimalModel(m) ==
    /\ pc = "search" /\ nbSatisfiable > 0
    /\ SatisfiesQuery(m)
    /\ nbSatisfiable' = nbSatisfiable + 1
    /\ SaveModel(m)
    /\ answer' = "_OPTIMUM_"
    /\ n_opt_sols' = 1
    /\ lastModel' = m
    /\ found' = {m}
    /\ pc' = IF allOpt THEN "enumerate" ELSE "returned"
    /\ UNCHANGED <<problem, activeSoft, assumptions, encoder, lbCost, blocked>>

\* res = l_False before any model was found, or with an empty conflict.
Unsatisfiable ==
    /\ pc = "search"
    /\ solutions = {}
    /\ lbCost' = lbCost + 1
    /\ answer' = "_UNSATISFIABLE_"
    /\ pc' = "returned"
    /\ UNCHANGED <<problem, activeSoft, assumptions, encoder, nbSatisfiable,
                   ubCost, model, enumeration>>

(***************************************************************************)
(* res = l_False with soft part K of the conflict, which also holds outputs *)
(* of the totalizer when it is empty.                                       *)
(***************************************************************************)
IsCore(K) ==
    /\ K # {} \/ (hasEncoding /\ rhs < Cardinality(encoded))
    /\ \A m \in solutions : m[1] \cap K = {} => ~WithinBound(m)

\* Mutant: the new soft clauses are not joined to the totalizer.
UpdateEncodingNoJoin(joinObjFunction) ==
    /\ hasEncoding' = (hasEncoding \/ lbCost' # Cardinality(activeSoft'))
    /\ encoded' = IF hasEncoding \/ ~hasEncoding' THEN encoded ELSE activeSoft'
    /\ rhs' = IF hasEncoding' THEN lbCost' ELSE 0

UpdateEncoding(joinObjFunction) ==
    \/ /\ ~hasEncoding
       /\ lbCost' # Cardinality(activeSoft')
       /\ hasEncoding' = TRUE
       /\ encoded' = activeSoft'
       /\ rhs' = lbCost'
    \/ /\ ~hasEncoding
       /\ lbCost' = Cardinality(activeSoft')
       /\ UNCHANGED encoder
    \/ /\ hasEncoding
       /\ encoded' = encoded \cup joinObjFunction
       /\ rhs' = lbCost'
       /\ UNCHANGED hasEncoding

Core(K) ==
    /\ pc = "search" /\ nbSatisfiable > 0
    /\ IsCore(K)
    /\ lbCost' = lbCost + 1
    /\ activeSoft' = activeSoft \cup K
    /\ assumptions' = Soft \ activeSoft'
    /\ UpdateEncoding(K)
    /\ UNCHANGED <<problem, nbSatisfiable, ubCost, model, answer, pc, enumeration>>

(***************************************************************************)
(* enumerate_opt.  The clause that blocks a solution is over all initial    *)
(* variables under -all-vars, and over the relaxation variables otherwise.  *)
(* The assumptions stay those of the search, so the bound holds on.         *)
(***************************************************************************)
\* Mutant: the clause is over the model the search has saved.
BlockSaved(m) == {s \in solutions : IF allVars THEN s = model ELSE s[1] = model[1]}

Block(m) == {s \in solutions : IF allVars THEN s = m ELSE s[1] = m[1]}

NextSolution(m) ==
    /\ pc = "enumerate"
    /\ Cost(lastModel) = ubCost
    /\ blocked' = blocked \cup Block(lastModel)
    /\ m \notin blocked' /\ SatisfiesQuery(m)
    /\ n_opt_sols' = n_opt_sols + 1
    /\ lastModel' = m
    /\ found' = found \cup {m}
    /\ UNCHANGED <<problem, activeSoft, assumptions, encoder, nbSatisfiable,
                   lbCost, ubCost, model, answer, pc>>

\* The last call fails, and is counted like the others.
NoMoreSolutions ==
    /\ pc = "enumerate"
    /\ Cost(lastModel) = ubCost
    /\ blocked' = blocked \cup Block(lastModel)
    /\ \A m \in solutions \ blocked' : ~SatisfiesQuery(m)
    /\ n_opt_sols' = n_opt_sols + 1
    /\ pc' = "returned"
    /\ UNCHANGED <<problem, activeSoft, assumptions, encoder, nbSatisfiable,
                   lbCost, ubCost, model, answer, lastModel, found>>

Next ==
    \/ \E m \in solutions : FirstModel(m)
    \/ \E m \in solutions : OptimalModel(m)
    \/ Unsatisfiable
    \/ \E K \in SUBSET assumptions : Core(K)
    \/ \E m \in solutions : NextSolution(m)
    \/ NoMoreSolutions

\* One thread, and a SAT solver that answers every call.
Spec == Init /\ [][Next]_vars /\ WF_vars(Next)
-----------------------------------------------------------------------------
(***************************************************************************)
(* What is printed is true: an optimum that no solution beats, and          *)
(* "s UNSATISFIABLE" only when there is no solution.                        *)
(***************************************************************************)
Optima == {m \in solutions : \A s \in solutions : Cost(m) <= Cost(s)}

AnswerCorrect ==
    /\ answer = "_OPTIMUM_" => model \in Optima /\ ubCost = Cost(model)
    /\ answer = "_UNSATISFIABLE_" => solutions = {}

(***************************************************************************)
(* -all-opt finds every optimal solution, or with each set of soft clauses  *)
(* one that falsifies it.  This relies on the assumptions left over from    *)
(* the search to exclude exactly the solutions that are not optimal.        *)
(***************************************************************************)
ProfilesOf(S) == {m[1] : m \in S}

AllOptimaFound ==
    pc = "returned" /\ answer = "_OPTIMUM_" /\ allOpt =>
        /\ allVars => found = Optima
        /\ ~allVars => ProfilesOf(found) = ProfilesOf(Optima)

(***************************************************************************)
(* No solution is found twice, and while the enumeration runs the counter   *)
(* that a signal prints (SIGINT_all_opt_exit) is the number found.  The     *)
(* query that ends the enumeration finds nothing and is counted all the     *)
(* same, so "c Optimal Solutions: %d" (MaxSAT.cc, line 706) prints one more *)
(* than were found under -all-opt.                                          *)
(***************************************************************************)
SolutionsCounted ==
    answer = "_OPTIMUM_" =>
        n_opt_sols = Cardinality(found) + (IF allOpt /\ pc = "returned" THEN 1 ELSE 0)

\* Both: every optimal solution is found, and counted, once.
EachOptimumOnce == AllOptimaFound /\ SolutionsCounted

(***************************************************************************)
(* The search keeps the promise of MaxSATSearch; the enumeration, which     *)
(* comes after the answer, changes nothing that is promised.                *)
(***************************************************************************)
Promise == INSTANCE MaxSATSearch WITH
              profiles <- ProfilesOf(solutions),
              cost     <- [P \in SUBSET Soft |-> Cardinality(P)],
              model    <- IF nbSatisfiable = 0 THEN NoModel ELSE model[1]

ImplementsMaxSATSearch == Promise!Spec

(***************************************************************************)
(* The search and the enumeration return.  It also shows that the break of  *)
(* lines 683-684, for a solution that costs more than the optimum, is never *)
(* taken: the model would be stuck there.                                   *)
(***************************************************************************)
Termination == <>(pc = "returned")
=============================================================================
