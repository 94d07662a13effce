--------------------------- MODULE IncrementalSWC ---------------------------
(***************************************************************************)
(* The sequential weight counter when literals and the right-hand side are  *)
(* added to it between the queries: incEncodePB, incUpdatePB and            *)
(* incUpdatePBAssumptions of class Encoder, the methods of Enc_SWC that     *)
(* take assumptions.                                                        *)
(*                                                                         *)
(* A literal whose coefficient exceeds the right-hand side is kept apart    *)
(* and assumed false until the right-hand side reaches its coefficient.     *)
(* The clauses that forbid more than the right-hand side hold only while a  *)
(* blocking literal is assumed false; update() retires it for a new one.    *)
(*                                                                         *)
(* Each call is given literals that no earlier call had, with coefficients  *)
(* above 0, and a right-hand side above that of the encoding.               *)
(***************************************************************************)
EXTENDS Encodings

CONSTANTS
    MaxItems,       \* bound: the number of literals given
    MaxWeight,      \* bound: the largest coefficient
    MaxBound        \* bound: the largest right-hand side

VARIABLES
    coefficients,       \* coefficients[k] is that of the k-th literal given
    lits_inc,           \* the literals in the encoding, by number
    unit_lits,          \* those kept apart
    current_pb_rhs,
    blockings,          \* how many blocking literals have been made
    clauses,            \* what the solver holds
    assumed             \* the literals assumed by the next query

swcVars == <<coefficients, lits_inc, unit_lits, current_pb_rhs, blockings,
             clauses, assumed>>

hasEncoding == lits_inc # <<>>

Blocking(k) == New("blocking", k, k, 0)

SWCInit ==
    /\ coefficients = <<>>
    /\ lits_inc = <<>>
    /\ unit_lits = <<>>
    /\ current_pb_rhs = -1
    /\ blockings = 0
    /\ clauses = {}
    /\ assumed = {}

\* The literals of a call, after those kept apart.
Pending(ws) == unit_lits \o [k \in DOMAIN ws |-> Len(coefficients) + k]

Within(all, ks, rhs) == SelectSeq(ks, LAMBDA k : all[k] <= rhs)

Beyond(all, ks, rhs) == SelectSeq(ks, LAMBDA k : all[k] > rhs)

NotInputs(ks) == {Not(Input(k)) : k \in ToSet(ks)}

\* The clause of the i-th literal for the right-hand side, while blocking is
\* assumed false.
BlockedLimit(lit, w, i, rhs, blocking) ==
    {c \cup {blocking} : c \in SWCLimit(lit, w, i, rhs)}

\* encode() with assumptions.  A single literal is only noted.
IncEncode(ws, rhs) ==
    LET all  == coefficients \o ws
        ks   == Within(all, Pending(ws), rhs)
        rest == Beyond(all, Pending(ws), rhs)
    IN  /\ ~hasEncoding
        /\ rhs >= current_pb_rhs
        /\ coefficients' = all
        /\ \/ /\ Len(ks) <= 1
              /\ unit_lits' = rest \o ks
              /\ assumed' = NotInputs(rest)
              /\ UNCHANGED <<lits_inc, blockings, clauses>>
           \/ /\ Len(ks) > 1
              /\ lits_inc' = ks
              /\ unit_lits' = rest
              /\ blockings' = 1
              /\ clauses' = UNION {SWCRow(Input(ks[i]), all[ks[i]], i, rhs)
                                   \cup BlockedLimit(Input(ks[i]), all[ks[i]], i, rhs,
                                                     Blocking(1)) : i \in DOMAIN ks}
              /\ assumed' = NotInputs(rest) \cup {Not(Blocking(1))}
        /\ current_pb_rhs' = rhs

\* Mutant: no sum passes from the old range of the counter to the new one.
CarriedOverNew(lit, w, i, from, rhs) ==
    {{Not(seq(i - 1, j)), Not(lit), seq(i, j + w)} : j \in from..(rhs - w)}

\* The sums of the i-th literal beyond the old range, which ends below from.
CarriedOver(lit, w, i, from, rhs) ==
    {{Not(seq(i - 1, j)), Not(lit), seq(i, j + w)} : j \in (from - w)..(rhs - w)}

\* update(): the rows of the literals in the encoding, for the larger range.
Widened(rhs, blocking) ==
    LET from == current_pb_rhs + 1
    IN  UNION {{{Not(seq(i - 1, j)), seq(i, j)} : j \in from..rhs}
               \cup CarriedOver(Input(lits_inc[i]), coefficients[lits_inc[i]], i, from, rhs)
               \cup BlockedLimit(Input(lits_inc[i]), coefficients[lits_inc[i]], i, rhs,
                                 blocking) : i \in 2..Len(lits_inc)}

\* join(): the rows of the literals ks from the first new one on.
Joined(all, ks, first, rhs, blocking) ==
    UNION {SWCRow(Input(ks[i]), all[ks[i]], i, rhs)
           \cup BlockedLimit(Input(ks[i]), all[ks[i]], i, rhs, blocking) :
              i \in first..Len(ks)}

\* incUpdatePB and incUpdatePBAssumptions.
IncUpdate(ws, rhs) ==
    LET all      == coefficients \o ws
        ks       == lits_inc \o Within(all, Pending(ws), rhs)
        rest     == Beyond(all, Pending(ws), rhs)
        blocking == Blocking(blockings + 1)
    IN  /\ hasEncoding
        /\ rhs > current_pb_rhs
        /\ coefficients' = all
        /\ lits_inc' = ks
        /\ unit_lits' = rest
        /\ blockings' = blockings + 1
        /\ clauses' = clauses \cup {{Blocking(blockings)}}
                      \cup Widened(rhs, blocking)
                      \cup Joined(all, ks, Len(lits_inc) + 1, rhs, blocking)
        /\ assumed' = NotInputs(rest) \cup {Not(blocking)}
        /\ current_pb_rhs' = rhs

SWCNext ==
    \E n \in 0..(MaxItems - Len(coefficients)), rhs \in 0..MaxBound :
        \E ws \in [1..n -> 1..MaxWeight] : IncEncode(ws, rhs) \/ IncUpdate(ws, rhs)

SWCSpec == SWCInit /\ [][SWCNext]_swcVars
-----------------------------------------------------------------------------
(***************************************************************************)
(* The next query allows exactly the assignments whose literals weigh no    *)
(* more than the right-hand side last asked for: the counter is exact after *)
(* any order of calls, and no earlier right-hand side is left in force.     *)
(***************************************************************************)
WeightBound ==
    current_pb_rhs >= 0 =>
        \A X \in SUBSET DOMAIN coefficients :
            LET weight == Total([k \in DOMAIN coefficients |->
                                    IF k \in X THEN coefficients[k] ELSE 0])
                query  == clauses \cup {{lit} : lit \in assumed}
            IN  Satisfiable(FoldSet(
                    LAMBDA k, cs : Assign(cs, IF k \in X THEN Input(k) ELSE Not(Input(k))),
                    query, DOMAIN coefficients))
                <=> weight <= current_pb_rhs
=============================================================================
