------------------------------- MODULE Encoder -------------------------------
(***************************************************************************)
(* Class Encoder (Encoder.cc): one object that owns an encoder of each      *)
(* kind and passes each call on to the one that was asked for.  A search    *)
(* makes an Encoder for one of three purposes, and each purpose has its own *)
(* protocol of calls:                                                       *)
(*   "hard"      the constraints of the formula, encoded once and then      *)
(*               perhaps made tighter (HardConstraints);                    *)
(*   "counter"   a cardinality constraint over the relaxed literals, which  *)
(*               grows while the search goes on (Totalizer);                *)
(*   "weights"   the same for a pseudo-Boolean constraint (IncrementalSWC). *)
(***************************************************************************)
EXTENDS HardConstraints

CONSTANTS
    MaxLits,        \* bound: the literals of a counter
    MaxItems,       \* bound: the literals of a weighted counter,
    MaxWeight,      \* their coefficients,
    MaxBound        \* and its right-hand side

ASSUME CounterAssumption ==
    MaxLits \in Nat \ {0, 1} /\ {MaxItems, MaxWeight, MaxBound} \subseteq Nat

VARIABLES
    use,                                \* what this Encoder is for
    caller, adders, cardinality_outlits, joinMode, counted, bound, updated,
    assumptions,                        \* of the totalizer
    coefficients, lits_inc, unit_lits, current_pb_rhs, blockings, clauses,
    assumed                             \* of the sequential weight counter

counterVars == <<caller, adders, cardinality_outlits, joinMode, counted, bound,
                 updated, assumptions>>

weightsVars == <<coefficients, lits_inc, unit_lits, current_pb_rhs, blockings,
                 clauses, assumed>>

encoderVars == <<use, vars, counterVars, weightsVars>>

Counter == INSTANCE Totalizer

Weights == INSTANCE IncrementalSWC

AnyLine == CHOOSE l \in Lines : TRUE

\* What is not used stays as it begins.
EncoderInit ==
    /\ use \in {"hard", "counter", "weights"}
    /\ InitWith(IF use = "hard" THEN Lines ELSE {AnyLine})
    /\ Counter!Init /\ (use # "counter" => caller = "MSU3")
    /\ Weights!SWCInit

HardStep ==
    /\ use = "hard"
    /\ Next
    /\ UNCHANGED <<use, counterVars, weightsVars>>

CounterStep ==
    /\ use = "counter"
    /\ Counter!Next
    /\ UNCHANGED <<use, vars, weightsVars>>

WeightsStep ==
    /\ use = "weights"
    /\ Weights!SWCNext
    /\ UNCHANGED <<use, vars, counterVars>>

EncoderNext == HardStep \/ CounterStep \/ WeightsStep

EncoderSpec == EncoderInit /\ [][EncoderNext]_encoderVars
-----------------------------------------------------------------------------
(***************************************************************************)
(* Whatever was built, joined and updated, the totalizer's outputs up to    *)
(* the first one above the bound are the number of true inputs in unary     *)
(* (Totalizer), as OLL needs it of each output it puts into a core.         *)
(***************************************************************************)
OutputsCount == use = "counter" => Counter!OutputsCount

(***************************************************************************)
(* The query after a call to the totalizer allows exactly the assignments   *)
(* in which at most bound of the literals are true (Totalizer).             *)
(***************************************************************************)
AtMostBound == use = "counter" => Counter!AtMostBound

(***************************************************************************)
(* The query after a call to the weight counter allows exactly the          *)
(* assignments that weigh at most its right-hand side (IncrementalSWC).     *)
(***************************************************************************)
WeightBound == use = "weights" => Weights!WeightBound
=============================================================================
