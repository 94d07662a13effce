---------------------------- MODULE MaxSATSearch ----------------------------
(***************************************************************************)
(* What every search() of UpMax promises, whatever algorithm runs: the     *)
(* state class MaxSAT keeps for its subclasses (MaxSAT.h, "Bound values"   *)
(* and "Stores the best satisfying model") and the only ways a search may  *)
(* change it.  The algorithm modules are shown to implement this one.      *)
(*                                                                         *)
(* A problem is its set of profiles: for every assignment that satisfies   *)
(* the hard part of the formula, the set of soft clauses it falsifies.     *)
(* This is all the cost of a model depends on; the hard part is            *)
(* unsatisfiable exactly when there is no profile.                         *)
(***************************************************************************)
EXTENDS Naturals

CONSTANTS
    Soft,   \* the soft clauses of the input formula
    cost,   \* cost[P], a number: what a model that falsifies exactly P costs
    NoModel \* model while none has been saved (model.size() == 0)

VARIABLES
    profiles,   \* the problem; a search never changes it
    lbCost,     \* the lower bound (printed as "c LB")
    ubCost,     \* the upper bound (the last "o" line)
    model,      \* the profile of the saved model, or NoModel
    answer      \* the argument of printAnswer, or Running

vars == <<profiles, lbCost, ubCost, model, answer>>

Running == "_UNKNOWN_"

\* P is what a model of least cost falsifies.
Optimal(P) == P \in profiles /\ \A Q \in profiles : cost[P] <= cost[Q]

Init ==
    /\ profiles \in SUBSET SUBSET Soft
    /\ lbCost = 0
    /\ ubCost = cost[Soft]
    /\ model = NoModel
    /\ answer = Running

(***************************************************************************)
(* The lower bound grows, and stays below the cost of every model.         *)
(***************************************************************************)
RaiseLowerBound ==
    /\ answer = Running
    /\ lbCost' \in Nat
    /\ lbCost' > lbCost
    /\ \A P \in profiles : lbCost' <= cost[P]
    /\ UNCHANGED <<profiles, ubCost, model, answer>>

(***************************************************************************)
(* A model at least as good as the last one is saved, and the upper bound  *)
(* becomes its cost.                                                       *)
(***************************************************************************)
SaveBetterModel(P) ==
    /\ cost[P] <= ubCost
    /\ model' = P
    /\ ubCost' = cost[P]

FindModel ==
    /\ answer = Running
    /\ \E P \in profiles : SaveBetterModel(P)
    /\ UNCHANGED <<profiles, lbCost, answer>>

\* _OPTIMUM_ is printed when the model saved by then is a best one; the lower
\* bound may reach the upper in the same step.
AnswerOptimum ==
    /\ answer = Running
    /\ \/ \E P \in profiles : SaveBetterModel(P)
       \/ UNCHANGED <<model, ubCost>>
    /\ Optimal(model')
    /\ answer' = "_OPTIMUM_"
    /\ lbCost' \in {lbCost, ubCost'}
    /\ UNCHANGED profiles

\* _UNSATISFIABLE_ is printed when the hard part has no model.
AnswerUnsatisfiable ==
    /\ answer = Running
    /\ profiles = {}
    /\ answer' = "_UNSATISFIABLE_"
    /\ lbCost' \in Nat /\ lbCost' >= lbCost
    /\ UNCHANGED <<profiles, ubCost, model>>

Next ==
    \/ RaiseLowerBound
    \/ FindModel
    \/ AnswerOptimum
    \/ AnswerUnsatisfiable

Spec == Init /\ [][Next]_vars
=============================================================================
