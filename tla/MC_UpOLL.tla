------------------------------ MODULE MC_UpOLL ------------------------------
(***************************************************************************)
(* UpOLL and OLL on four soft clauses, so that a totalizer over three       *)
(* literals of weight 2 can be duplicated by a core of weight 1 and raised  *)
(* afterwards.                                                              *)
(***************************************************************************)
EXTENDS OLL

MCSoft == 1..4

\* No model, a model that costs nothing, one that falsifies every soft clause,
\* and pairs of models of which at least one falsifies two or three.
MCProblems ==
    {{}, {{}}, {Soft}, {{1, 2, 3}, {1, 2, 4}}, {{1, 2, 4}, {1, 3, 4}},
     {{1, 2}, {1, 3, 4}}, {{1, 4}, {1, 2, 3}}}

\* With the last, OLL has a totalizer that weighs less than any soft clause.
MCWeights == {<<1, 1, 1, 1>>, <<2, 2, 2, 1>>, <<3, 3, 2, 2>>}

\* The problem with most cores is searched without weights only.  OLL does
\* not read labels.
MCInit ==
    /\ OLLInit
    /\ label \in {<<-1, -1, -1, -1>>, <<0, 0, 0, -1>>}
    /\ profiles = {Soft} => ~Weighted
    /\ ~upmax => label[1] = -1
    /\ upmax => inputWeight[1] # 3

MCSpec == MCInit /\ [][OLLNext]_OLLvars /\ WF_OLLvars(OLLNext)
=============================================================================
