------------------------------ MODULE MC_UpWBO ------------------------------
(***************************************************************************)
(* UpWBO and WBO on every problem over three soft clauses, with weights     *)
(* that cores split into parts of other weights.                            *)
(***************************************************************************)
EXTENDS WBO

MCSoft == 1..3

\* At most two kinds of models.  One that falsifies every soft clause is left
\* out: with no other beside it every set of soft clauses is a core.
MCProblems == {p \in SUBSET SUBSET MCSoft : MCSoft \notin p /\ Cardinality(p) <= 2}

MCWeight == <<1, 2, 3>>

MCNoLimit == -1

\* A limit of 1 ends symmetry breaking in the middle of the search.
MCOptions ==
    {[weightStrategy |-> "none", symmetryStrategy |-> FALSE, symmetryBreakingLimit |-> 9],
     [weightStrategy |-> "normal", symmetryStrategy |-> TRUE, symmetryBreakingLimit |-> 1],
     [weightStrategy |-> "diversify", symmetryStrategy |-> TRUE, symmetryBreakingLimit |-> 9]}

\* UpWBO has two slots, the label 0 and no label; which of them soft clause 1
\* is in does not matter, for two slots of three soft clauses differ in size.
\* UpWBO does not read options, WBO no label.
MCInit ==
    /\ WBOInit
    /\ \/ /\ upmax
          /\ label \in {l \in [MCSoft -> {-1, 0}] : l[1] = -1}
          /\ options.weightStrategy = "none"
       \/ /\ ~upmax
          /\ label = [i \in MCSoft |-> -1]

MCSpec == MCInit /\ [][WBONext]_WBOvars /\ WF_WBOvars(WBONext)
=============================================================================
