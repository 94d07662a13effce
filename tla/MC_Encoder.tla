----------------------------- MODULE MC_Encoder -----------------------------
(***************************************************************************)
(* Lines over up to eight variables with coefficients 1 and -1, and lines   *)
(* with other coefficients over up to four, with right-hand sides from      *)
(* below the least sum to above the largest.  An int has five bits and a    *)
(* uint64_t ten.  The totalizer counts up to seven literals, the weight     *)
(* counter up to four with coefficients up to three.                        *)
(***************************************************************************)
EXTENDS Encoder

Relations == {">=", "<=", "="}

LinesOver(coeffs, vars_, range) ==
    {[products |-> [i \in 1..Len(c) |-> <<c[i], vars_[i]>>], sign |-> s, rhs |-> r,
      card |-> "MTOTALIZER", pb |-> "GTE"] :
        c \in coeffs, s \in Relations, r \in range}

With(lines, card, pb) == {[l EXCEPT !.card = card, !.pb = pb] : l \in lines}

\* One coefficient or two of a cardinality negated.
Units(n) == {[i \in 1..n |-> IF i <= m THEN -1 ELSE 1] : m \in 0..Min({n, 2})}

Ascending(n, values) ==
    {c \in [1..n -> values] : \A i \in 1..(n - 1) : c[i] <= c[i + 1]}

Cards(n) == UNION {LinesOver(Units(m), [i \in 1..m |-> i], -2..(m + 2)) : m \in 1..n}

PBs ==
    UNION {LinesOver(Ascending(n, {-2, 0, 1, 3}), [i \in 1..n |-> i], -6..9) :
                    n \in 1..3}
    \cup LinesOver(Ascending(4, {1, 2, 3}), [i \in 1..4 |-> i], 0..13)
    \* a variable twice
    \cup LinesOver({<<1, 1, 1>>, <<2, -1, 1>>}, <<1, 1, 2>>, -2..5)

FewPBs ==
    LinesOver(Ascending(3, {-2, 1, 3}), [i \in 1..3 |-> i], -4..6)
    \cup LinesOver({<<1, 1, 2, 3>>, <<1, 2, 2, 3>>, <<2, 2, 3, 3>>},
                   [i \in 1..4 |-> i], 1..11)

MCLines == Cards(8) \cup PBs \cup With(Cards(5), "CNETWORKS", "GTE")
           \cup With(FewPBs, "MTOTALIZER", "SWC") \cup With(FewPBs, "MTOTALIZER", "ADDER")
=============================================================================
