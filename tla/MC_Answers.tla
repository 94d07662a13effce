----------------------------- MODULE MC_Answers -----------------------------
(***************************************************************************)
(* Three assignments, two of the same cost and one that falsifies every     *)
(* soft clause, over three variables.                                       *)
(***************************************************************************)
EXTENDS Answers

MCModels == 1..3

MCCost == <<1, 1, 2>>
=============================================================================
