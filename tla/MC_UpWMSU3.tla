------------------------------ MODULE MC_UpWMSU3 ------------------------------
(***************************************************************************)
(* UpWMSU3 and WMSU3 on every problem over three soft clauses of weights 2, *)
(* 2 and 5, UpWMSU3 under every labelling with two labels and the           *)
(* unlabelled slot.  The weights leave gaps between the subset sums         *)
(* (0 2 4 5 7 9) and give one sum twice.                                    *)
(***************************************************************************)
EXTENDS WMSU3, FiniteSetsExt

MCSoft == 1..3

MCProblems == SUBSET SUBSET MCSoft

MCWeight == <<2, 2, 5>>

MCCost == [S \in SUBSET MCSoft |-> MapThenSumSet(LAMBDA i : MCWeight[i], S)]

\* WMSU3 does not read labels.
MCInit == EitherInit /\ (upmax \/ label = [i \in MCSoft |-> -1])

MCSpec == MCInit /\ [][EitherNext]_WMSU3vars /\ WF_WMSU3vars(EitherNext)
=============================================================================
