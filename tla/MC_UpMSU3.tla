------------------------------ MODULE MC_UpMSU3 ------------------------------
(***************************************************************************)
(* Every problem over three soft clauses (any set of profiles, the empty    *)
(* one included) under every labelling with two labels and the slot of the  *)
(* unlabelled ones, with a conflict budget.  Three soft clauses are enough  *)
(* for a totalizer that is built late ({1}, then {2, 3}), one that is       *)
(* joined to ({1, 2}, then {3}), a core without soft clauses, three         *)
(* partitions, and ties between their sizes.                                *)
(***************************************************************************)
EXTENDS UpMSU3

MCSoft == 1..3

MCProblems == SUBSET SUBSET MCSoft
=============================================================================
