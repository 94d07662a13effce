-------------------------- MODULE MC_WBO_symmetry ---------------------------
(***************************************************************************)
(* WBO on a formula of which every model falsifies all six soft clauses, so *)
(* that every set of soft clauses is a core.  The SAT solver returns the    *)
(* cores below, in any order of their literals.                             *)
(*                                                                         *)
(* Core 1 relaxes soft clauses 1 and 2; cores 2 and 3 split them, into 1    *)
(* and 7, 2 and 8; cores 4 and 5 find 1 and 2 again.  Each of the two may   *)
(* then be ordered before the other in one of the cores 4 and 5, and        *)
(* together the symmetry clauses leave no choice that pays for all of them. *)
(***************************************************************************)
EXTENDS WBO

MCSoft == 1..6

MCProblems == {{MCSoft}}

MCWeight == <<4, 4, 2, 2, 1, 1>>

MCOptions ==
    {[weightStrategy |-> "none", symmetryStrategy |-> TRUE, symmetryBreakingLimit |-> 500000]}

\* What each core relaxes: its soft clauses, or the parts split off them.
MCCores == <<{1, 2}, {3, 7}, {4, 8}, {1, 2, 8}, {1, 2, 3, 4, 7, 8}, {5},
             {1, 2, 3, 4, 7, 8}, {6}>>

MCInit ==
    /\ WBOInit
    /\ ~upmax
    /\ label = [i \in MCSoft |-> -1]

MCNext ==
    /\ WBONext
    /\ exactlyOne' = SubSeq(MCCores, 1, Len(exactlyOne'))

MCSpec == MCInit /\ [][MCNext]_WBOvars
=============================================================================
