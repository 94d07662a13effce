------------------------------- MODULE UpMSU3 -------------------------------
(***************************************************************************)
(* The partition-based MSU3 search (algorithms/Alg_UpMSU3.cc), the default *)
(* algorithm of UpMax for unweighted formulas.                             *)
(*                                                                         *)
(* The soft clauses are split into partitions that enter the search one at *)
(* a time, smallest first.  Every call of the SAT solver assumes that the  *)
(* soft clauses which have entered and are not yet in a core hold, and that *)
(* at most lbCost of the ones in a core are falsified.  A core raises       *)
(* lbCost and relaxes its soft clauses; a model, or the end of the conflict *)
(* budget, lets the next partition in.                                      *)
(*                                                                         *)
(* The SAT solver is outside the module.  It answers as a complete solver   *)
(* may: any model of the query, any subset of the assumptions that cannot   *)
(* hold together, or no answer at all while the conflict budget is on.      *)
(* rebuildSolver makes the relaxation variable of a soft clause equivalent  *)
(* to the clause being falsified, so a model of the solver is a profile in  *)
(* the sense of MaxSATSearch.                                               *)
(***************************************************************************)
EXTENDS SoftPartitions

CONSTANTS
    Problems,       \* the sets of profiles the search may be given
    limit,          \* the conflict budget of -limit, -1 for none
    NoModel         \* model while none has been saved

ASSUME ProblemAssumption == Problems \subseteq SUBSET SUBSET Soft
ASSUME LimitAssumption == limit \in Int

VARIABLES
    profiles,               \* the problem: what its models may falsify
    current_partition,
    activeSoftPartition,    \* the soft clauses whose partition has entered
    activeSoft,             \* the soft clauses that were in a core
    assumptions,            \* the soft clauses assumed to hold
    hasEncoding,            \* encoder.hasCardEncoding()
    encoded,                \* the soft clauses the totalizer counts
    rhs,                    \* encodingAssumptions: at most rhs of encoded
    lbCost, ubCost, model, answer

problem == <<profiles, label>>
search  == <<current_partition, activeSoftPartition, activeSoft, assumptions>>
encoder == <<hasEncoding, encoded, rhs>>
vars    == <<problem, search, encoder, lbCost, ubCost, model, answer>>

Running == "_UNKNOWN_"

Cost(P) == Cardinality(P)
-----------------------------------------------------------------------------
(***************************************************************************)
(* What the query of one searchSATSolver call demands of a model.           *)
(***************************************************************************)
WithinBound(P) == hasEncoding => Cardinality(P \cap encoded) <= rhs

SatisfiesQuery(P) == P \cap assumptions = {} /\ WithinBound(P)

LastPartition == current_partition + 1 = nSoftPartitions

Init ==
    /\ profiles \in Problems
    /\ InitLabels
    /\ current_partition = 0
    /\ activeSoftPartition = SoftPartition(0)
    /\ activeSoft = {}
    /\ assumptions = SoftPartition(0)
    /\ hasEncoding = FALSE
    /\ encoded = {}
    /\ rhs = 0
    /\ lbCost = 0
    /\ ubCost = Cardinality(Soft)
    /\ model = NoModel
    /\ answer = Running

\* Mutant: a model that costs ubCost is not saved.
SaveModelStrict(P) ==
    \/ Cost(P) < ubCost /\ model' = P /\ ubCost' = Cost(P)
    \/ Cost(P) >= ubCost /\ UNCHANGED <<model, ubCost>>

\* Mutant: the last model is saved, not the best one.
SaveModelAlways(P) == model' = P /\ ubCost' = Cost(P)

(***************************************************************************)
(* res = l_True: a model at least as good as the saved one is saved.        *)
(***************************************************************************)
SaveModel(P) ==
    \/ /\ Cost(P) <= ubCost
       /\ model' = P
       /\ ubCost' = Cost(P)
    \/ /\ Cost(P) > ubCost
       /\ UNCHANGED <<model, ubCost>>

AddNextPartition ==
    /\ ~LastPartition
    /\ activeSoftPartition' =
          activeSoftPartition \cup SoftPartition(current_partition + 1)
    /\ assumptions' = assumptions \cup SoftPartition(current_partition + 1)
    /\ UNCHANGED answer

Stop(status) ==
    /\ answer' = status
    /\ UNCHANGED <<activeSoftPartition, assumptions>>

Satisfiable(P) ==
    /\ answer = Running
    /\ SatisfiesQuery(P)
    /\ SaveModel(P)
    /\ current_partition' = current_partition + 1
    /\ \/ (ubCost' = 0 \/ LastPartition) /\ Stop("_OPTIMUM_")
       \/ (ubCost' # 0) /\ AddNextPartition
    /\ UNCHANGED <<problem, encoder, activeSoft, lbCost>>

(***************************************************************************)
(* res = l_Undef: possible only with a budget, and the budget is off on     *)
(* the last partition.                                                      *)
(***************************************************************************)
BudgetExhausted ==
    /\ answer = Running
    /\ limit # -1
    /\ current_partition' = current_partition + 1
    /\ AddNextPartition
    /\ UNCHANGED <<problem, encoder, activeSoft, lbCost, ubCost, model>>

(***************************************************************************)
(* res = l_False.  K is the soft part of the conflict; the conflict is not  *)
(* empty when it holds a soft clause or an output of the totalizer.         *)
(***************************************************************************)
IsCore(K) ==
    /\ K # {} \/ (hasEncoding /\ rhs < Cardinality(encoded))
    /\ \A P \in profiles : P \cap K = {} => ~WithinBound(P)

\* Mutant: the totalizer is first built over the last core alone.
UpdateEncodingOverCore(joinObjFunction) ==
    /\ hasEncoding' = (hasEncoding \/ lbCost' # Cardinality(activeSoft'))
    /\ encoded' = IF hasEncoding' THEN encoded \cup joinObjFunction ELSE {}
    /\ rhs' = IF hasEncoding' THEN lbCost' ELSE 0

\* Mutant: the totalizer is updated before lbCost is.
UpdateEncodingEarly(joinObjFunction) ==
    /\ hasEncoding' = TRUE
    /\ encoded' = activeSoft'
    /\ rhs' = lbCost

\* The totalizer is first built when it has something to forbid, over all
\* relaxed soft clauses; from then on the new ones are joined to it.
UpdateEncoding(joinObjFunction) ==
    \/ /\ ~hasEncoding
       /\ lbCost' # Cardinality(activeSoft')
       /\ hasEncoding' = TRUE
       /\ encoded' = activeSoft'
       /\ rhs' = lbCost'
    \/ /\ ~hasEncoding
       /\ lbCost' = Cardinality(activeSoft')
       /\ UNCHANGED encoder
    \/ /\ hasEncoding
       /\ encoded' = encoded \cup joinObjFunction
       /\ rhs' = lbCost'
       /\ UNCHANGED hasEncoding

Core(K) ==
    /\ answer = Running
    /\ IsCore(K)
    /\ lbCost' = lbCost + 1
    /\ activeSoft' = activeSoft \cup K
    /\ assumptions' = activeSoftPartition \ activeSoft'
    /\ UpdateEncoding(K)
    /\ UNCHANGED <<problem, current_partition, activeSoftPartition,
                   ubCost, model, answer>>

\* Mutant: an empty conflict is taken for a core.
EmptyCoreIgnored == UNCHANGED vars

\* An empty conflict: the hard clauses have no model.
EmptyCore ==
    /\ answer = Running
    /\ profiles = {}
    /\ lbCost' = lbCost + 1
    /\ Stop("_UNSATISFIABLE_")
    /\ UNCHANGED <<problem, current_partition, activeSoft, encoder,
                   ubCost, model>>

Next ==
    \/ \E P \in profiles : Satisfiable(P)
    \/ BudgetExhausted
    \/ \E K \in SUBSET assumptions : Core(K)
    \/ EmptyCore

\* The search is one thread that runs until it answers, and the SAT solver
\* answers every call, so a step that can be taken is taken.
Spec == Init /\ [][Next]_vars /\ WF_vars(Next)
-----------------------------------------------------------------------------
TypeOK ==
    /\ profiles \in SUBSET SUBSET Soft
    /\ label \in [Soft -> -1..nPartitions]
    /\ current_partition \in 0..nSoftPartitions
    /\ activeSoftPartition \in SUBSET Soft
    /\ activeSoft \in SUBSET Soft
    /\ assumptions \in SUBSET Soft
    /\ hasEncoding \in BOOLEAN
    /\ encoded \in SUBSET Soft
    /\ rhs \in Nat
    /\ lbCost \in Nat
    /\ ubCost \in Nat
    /\ model \in {NoModel} \cup SUBSET Soft
    /\ answer \in {Running, "_OPTIMUM_", "_UNSATISFIABLE_"}

(***************************************************************************)
(* Every model falsifies at least lbCost of the soft clauses that were in a *)
(* core.  The search relies on it each time it raises lbCost by one for a   *)
(* core it did not look into (lines 127-150): a soft clause counted twice,  *)
(* or relaxed without being counted, would let the bound pass the optimum.  *)
(***************************************************************************)
LowerBound == \A P \in profiles : lbCost <= Cardinality(P \cap activeSoft)

(***************************************************************************)
(* The totalizer counts exactly the relaxed soft clauses and allows lbCost  *)
(* of them; while there is none, it would have had nothing to forbid.       *)
(* Building it late and joining to it (lines 167-184) must not lose the     *)
(* soft clauses of the cores found in between.                              *)
(***************************************************************************)
EncodingInStep ==
    answer = Running =>
        /\ hasEncoding => encoded = activeSoft /\ rhs = lbCost
        /\ ~hasEncoding => lbCost = Cardinality(activeSoft)

(***************************************************************************)
(* A soft clause that has entered the search is either assumed or relaxed,  *)
(* never both (the assertion of line 142) and never neither, also when the  *)
(* next partition is pushed onto assumptions left by a core.                *)
(***************************************************************************)
AssumedOrRelaxed ==
    /\ assumptions = activeSoftPartition \ activeSoft
    /\ activeSoft \subseteq activeSoftPartition

(***************************************************************************)
(* What is printed is true: "s OPTIMUM FOUND" with a model no other model   *)
(* beats, "s UNSATISFIABLE" only when there is none.                        *)
(***************************************************************************)
AnswerCorrect ==
    /\ answer = "_OPTIMUM_" =>
          /\ model \in profiles
          /\ ubCost = Cost(model)
          /\ \A P \in profiles : Cost(model) <= Cost(P)
    /\ answer = "_UNSATISFIABLE_" => profiles = {}

(***************************************************************************)
(* The search keeps the promise of MaxSATSearch.                            *)
(***************************************************************************)
Promise == INSTANCE MaxSATSearch WITH
              cost <- [P \in SUBSET Soft |-> Cardinality(P)]

ImplementsMaxSATSearch == Promise!Spec

(***************************************************************************)
(* The loop for(;;) of MSU3_iterative is left: every problem is answered.   *)
(***************************************************************************)
Termination == <>(answer # Running)
=============================================================================
