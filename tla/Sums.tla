-------------------------------- MODULE Sums --------------------------------
(***************************************************************************)
(* Sums of weights over finite sets.                                        *)
(***************************************************************************)
EXTENDS FiniteSetsExt

\* The sum of w[x] for the x in S.
SumOver(w, S) == FoldSet(LAMBDA x, sum : sum + w[x], 0, S)
=============================================================================
