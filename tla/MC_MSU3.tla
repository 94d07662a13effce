------------------------------- MODULE MC_MSU3 -------------------------------
(***************************************************************************)
(* Every set of profiles over three soft clauses, each with one or with two *)
(* solutions.                                                               *)
(***************************************************************************)
EXTENDS MSU3

MCSoft == 1..3

MCProblems == {ps \X (1..n) : ps \in SUBSET SUBSET MCSoft, n \in 1..2}
=============================================================================
