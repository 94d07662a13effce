------------------------------ MODULE Encodings ------------------------------
(***************************************************************************)
(* The encodings of constraints class Encoder offers: the ladder for at     *)
(* most one (encodings/Enc_Ladder.cc); the modulo totalizer                 *)
(* (Enc_MTotalizer.cc) and cardinality networks (Enc_CNetworks.cc) for      *)
(* cardinality; the generalized totalizer (Enc_GTE.cc), the sequential      *)
(* weight counter (Enc_SWC.cc) and adders (Enc_Adder.cc) for pseudo-Boolean *)
(* constraints.  Each is a function from a constraint to the set of clauses *)
(* it adds, and so is what update() adds for a smaller right-hand side.     *)
(*                                                                         *)
(* A variable is <<kind, first, last, i>>: a new one is named for the       *)
(* encoding and the inputs first..last it is made for, an input variable v  *)
(* is <<"x", v, v, 0>>.  A literal is a variable and its value, a clause a  *)
(* set of literals.                                                         *)
(***************************************************************************)
EXTENDS Integers, FiniteSets, SequencesExt

CONSTANTS
    W32,    \* 2^32, the size of unsigned
    W64     \* 2^64, the size of uint64_t

ASSUME WidthAssumption == W32 \in Nat \ {0} /\ W64 \in Nat /\ W64 > W32

New(kind, first, last, i) == <<<<kind, first, last, i>>, TRUE>>

Input(v) == New("x", v, v, 0)

Not(lit) == <<lit[1], ~lit[2]>>

Nots(lits) == {Not(lit) : lit \in lits}

Total(s) == FoldLeft(LAMBDA sum, n : sum + n, 0, s)
-----------------------------------------------------------------------------
(***************************************************************************)
(* Ladder::encode: s[i] is true when one of the first i literals is.        *)
(***************************************************************************)
seq_auxiliary(i) == New("s", i, i, 0)

\* The clauses of a literal between the first and the last.
Rung(lits, i) ==
    {{Not(seq_auxiliary(i - 1)), seq_auxiliary(i)},
     {lits[i], Not(seq_auxiliary(i)), seq_auxiliary(i - 1)},
     {Not(lits[i]), seq_auxiliary(i)},
     {Not(lits[i]), Not(seq_auxiliary(i - 1))}}

Ladder(lits) ==
    LET n == Len(lits)
    IN  IF n = 1 THEN {{lits[1]}}
        ELSE {{Not(lits[1]), seq_auxiliary(1)},
              {lits[n], seq_auxiliary(n - 1)},
              {Not(lits[n]), Not(seq_auxiliary(n - 1))}}
             \cup UNION {Rung(lits, i) : i \in 2..(n - 1)}
-----------------------------------------------------------------------------
(***************************************************************************)
(* MTotalizer: a number is counted as upper * mod + lower, both in unary.   *)
(* h0 stands for an upper part without outputs.                             *)
(***************************************************************************)
h0 == New("h0", 0, 0, 0)

Modulo(rhs) == CHOOSE m \in 1..(rhs + 1) : (m - 1) * (m - 1) < rhs + 1
                                           /\ rhs + 1 <= m * m

Upper(first, last, mod) ==
    LET n == (last - first + 1) \div mod
    IN  IF n = 0 THEN <<h0>> ELSE [i \in 1..n |-> New("u", first, last, i)]

Lower(lits, first, last, mod) ==
    LET n == last - first + 1
    IN  IF n = 1 THEN <<lits[first]>>
        ELSE [i \in 1..(IF (n \div mod) % mod = 0 /\ n < mod - 1
                        THEN n ELSE mod - 1) |-> New("l", first, last, i)]

\* The literal at position i, if there is one that is not h0.
At(lits, i) == IF i \in DOMAIN lits THEN {lits[i]} \ {h0} ELSE {}

\* The lower parts: a sum of mod or more raises the carry.
LowerClauses(lower, left, right, carry, mod, current_cardinality_rhs) ==
    LET pairs == {ij \in (0..Len(left)) \X (0..Len(right)) :
                    /\ ij # <<0, 0>>
                    /\ ~(/\ ij[1] + ij[2] > current_cardinality_rhs + 1
                         /\ current_cardinality_rhs + 1 < mod)}
    IN  {Nots(At(left, ij[1]) \cup At(right, ij[2]))
         \cup (IF ij[1] + ij[2] < mod THEN {lower[ij[1] + ij[2]]} \cup carry
               ELSE IF ij[1] + ij[2] = mod THEN carry
               ELSE {lower[(ij[1] + ij[2]) % mod]}) : ij \in pairs}

\* Mutant: the carry is not added to the upper parts.
UpperClausesBare(upper, left, right, carry, mod, current_cardinality_rhs) ==
    {c \in {Nots(At(left, i) \cup At(right, j)) \cup At(upper, i + j) :
              i \in 0..Len(left), j \in 0..Len(right)} : Cardinality(c) > 1}

\* The upper parts and the carry; what passes the right-hand side is left out.
UpperClauses(upper, left, right, carry, mod, current_cardinality_rhs) ==
    LET close_mod == (current_cardinality_rhs + mod - 1) \div mod
        pairs     == {ij \in (0..Len(left)) \X (0..Len(right)) :
                        ij[1] + ij[2] <= close_mod}
        parts(ij) == At(left, ij[1]) \cup At(right, ij[2])
        sums      == {Nots(parts(ij)) \cup At(upper, ij[1] + ij[2]) :
                        ij \in {p \in pairs : At(upper, p[1] + p[2]) # {}}}
        carries   == {Nots(parts(ij) \cup carry) \cup At(upper, ij[1] + ij[2] + 1) :
                        ij \in pairs}
    IN  {c \in sums \cup carries : Cardinality(c) > 1}

\* toCNF and adder over the literals first..last; the left half is taken from
\* the end.
RECURSIVE MTotalizerTree(_, _, _, _, _)
MTotalizerTree(lits, first, last, mod, current_cardinality_rhs) ==
    LET mid     == last - (last - first + 1) \div 2
        upper   == Upper(first, last, mod)
        lower   == Lower(lits, first, last, mod)
        carry   == IF upper[1] = h0 THEN {} ELSE {New("c", first, last, 0)}
    IN  IF first = last THEN {}
        ELSE LowerClauses(lower, Lower(lits, first, mid, mod),
                          Lower(lits, mid + 1, last, mod),
                          carry, mod, current_cardinality_rhs)
             \cup (IF upper[1] = h0 THEN {}
                   ELSE UpperClauses(upper, Upper(first, mid, mod),
                                     Upper(mid + 1, last, mod),
                                     carry, mod, current_cardinality_rhs))
             \cup MTotalizerTree(lits, mid + 1, last, mod, current_cardinality_rhs)
             \cup MTotalizerTree(lits, first, mid, mod, current_cardinality_rhs)

\* encode_output: upper * mod + lower stays below rhs + 1.
EncodeOutput(upper, lower, mod, rhs) ==
    LET ulimit == (rhs + 1) \div mod
        llimit == (rhs + 1) % mod
        above  == {{Not(upper[i])} : i \in (ulimit + 1)..Len(upper)}
        rest   == {Not(lower[i]) : i \in llimit..Len(lower)}
    IN  above \cup (IF ulimit # 0 /\ llimit # 0
                    THEN {{Not(upper[ulimit]), lit} : lit \in rest}
                    ELSE IF ulimit = 0 THEN {{lit} : lit \in rest}
                    ELSE {{Not(upper[ulimit])}})

\* Mutant: the assertion comes before the case of no true literal.
MTotalizerFitsAbove(lits, rhs) == rhs \in 1..Len(lits)

\* The assertion of MTotalizer::encode.
MTotalizerFits(lits, rhs) == rhs \in 0..Len(lits)

\* MTotalizer::encode, where the assertion holds.
MTotalizer(lits, rhs) ==
    LET n   == Len(lits)
        mod == Modulo(rhs)
    IN  IF rhs = 0 THEN {{Not(lits[i])} : i \in 1..n}
        ELSE IF rhs = n THEN {}
        ELSE MTotalizerTree(lits, 1, n, mod, rhs + 1)
             \cup EncodeOutput(Upper(1, n, mod), Lower(lits, 1, n, mod), mod, rhs)
\* MTotalizer::update with the modulo of the encoding.
MTotalizerUpdate(lits, from, rhs) ==
    LET n   == Len(lits)
        mod == Modulo(from)
    IN  EncodeOutput(Upper(1, n, mod), Lower(lits, 1, n, mod), mod, rhs)
-----------------------------------------------------------------------------
(***************************************************************************)
(* CNetworks: sorting networks that put the true literals first, simplified *)
(* where only the first k outputs count.  id names the place of a network.  *)
(***************************************************************************)
Odd(s)  == [i \in 1..((Len(s) + 1) \div 2) |-> s[2 * i - 1]]
Even(s) == [i \in 1..(Len(s) \div 2) |-> s[2 * i]]
Half(s, first) == IF first THEN SubSeq(s, 1, Len(s) \div 2)
                  ELSE SubSeq(s, Len(s) \div 2 + 1, Len(s))

NewLits(kind, id, n) == [i \in 1..n |-> New(kind, id, 0, i)]

Comparator(a, b, c1, c2) == {{Not(a), Not(b), c2}, {Not(a), c1}, {Not(b), c1}}

Comparators(n, d, e, c) ==
    UNION {Comparator(d[i + 1], e[i], c[2 * i], c[2 * i + 1]) : i \in 1..n}

RECURSIVE CN_hmerge(_, _, _, _)
CN_hmerge(id, a, b, c) ==
    LET n == Len(a) - 1
        d == <<c[1]>> \o NewLits("d", id, n)
        e == NewLits("e", id, n) \o <<Last(c)>>
    IN  IF n = 0 THEN Comparator(a[1], b[1], c[1], c[2])
        ELSE Comparators(n, d, e, c) \cup CN_hmerge(3 * id, Odd(a), Odd(b), d)
                                    \cup CN_hmerge(3 * id + 1, Even(a), Even(b), e)

RECURSIVE CN_hsort(_, _, _)
CN_hsort(id, a, c) ==
    LET lower == NewLits("lower", id, Len(a) \div 2)
        upper == NewLits("upper", id, Len(a) \div 2)
    IN  IF Len(a) = 2 THEN CN_hmerge(id, <<a[1]>>, <<a[2]>>, c)
        ELSE CN_hsort(3 * id, Half(a, TRUE), lower)
             \cup CN_hsort(3 * id + 1, Half(a, FALSE), upper)
             \cup CN_hmerge(3 * id + 2, lower, upper, c)

RECURSIVE CN_smerge(_, _, _, _)
CN_smerge(id, a, b, c) ==
    LET n == Len(a) \div 2
        d == <<c[1]>> \o NewLits("d", id, n)
        e == NewLits("e", id, n + 1)
    IN  IF Len(a) = 1 THEN Comparator(a[1], b[1], c[1], c[2])
        ELSE Comparators(n, d, e, c) \cup CN_smerge(3 * id, Odd(a), Odd(b), d)
                                    \cup CN_smerge(3 * id + 1, Even(a), Even(b), e)

RECURSIVE CN_encode(_, _, _, _)
CN_encode(id, a, c, k) ==
    LET lower == NewLits("lower", id, k)
        upper == NewLits("upper", id, k)
    IN  IF Len(a) = k THEN CN_hsort(id, a, c)
        ELSE CN_encode(3 * id, SubSeq(a, 1, k), lower, k)
             \cup CN_encode(3 * id + 1, SubSeq(a, k + 1, Len(a)), upper, k)
             \cup CN_smerge(3 * id + 2, lower, upper, Append(c, New("last", id, 0, 0)))

\* The smallest power of two above the right-hand side.
NewK(rhs) == CHOOSE k \in {2^b : b \in 1..rhs} : k \div 2 <= rhs /\ rhs < k

OutputsFrom(outlits, from, to) == {{Not(outlits[i])} : i \in (from + 1)..to}

\* CNetworks::encode: the inputs are filled up to a multiple of new_k.
CNetworks(lits, rhs) ==
    LET n       == Len(lits)
        new_k   == NewK(rhs)
        filling == NewLits("fill", 0, ((n + new_k - 1) \div new_k) * new_k - n)
        out     == NewLits("out", 0, new_k)
    IN  IF rhs = 0 THEN {{Not(lits[i])} : i \in 1..n}
        ELSE CN_encode(1, lits \o filling, out, new_k)
             \cup {{Not(p)} : p \in ToSet(filling)} \cup OutputsFrom(out, rhs, new_k)

CNetworksUpdate(from, rhs) == OutputsFrom(NewLits("out", 0, NewK(from)), rhs, from)
-----------------------------------------------------------------------------
(***************************************************************************)
(* GTE: an output of weight w is true when the inputs below it weigh w, and *)
(* every sum above k is taken for k.  inputs is a sequence of <<weight,     *)
(* literal>>; the outputs are a set of the same.                            *)
(***************************************************************************)
RECURSIVE encodeLeq(_, _, _, _)
encodeLeq(k, inputs, first, last) ==
    LET mid       == first + (last - first + 1) \div 2 - 1
        weigh(f, l) == Total([i \in 1..(l - f + 1) |-> inputs[f + i - 1][1]])
        left      == encodeLeq(Min({k, weigh(first, mid)}), inputs, first, mid)
        right     == encodeLeq(Min({k, weigh(mid + 1, last)}), inputs, mid + 1, last)
        get_var(w) == <<Min({w, k}), New("g", first, last, Min({w, k}))>>
        single    == {<<{o[2]}, o[1]>> : o \in left.outputs \cup right.outputs}
        sums      == {<<{o[1][2], o[2][2]}, o[1][1] + o[2][1]>> :
                        o \in left.outputs \X right.outputs}
    IN  IF first = last THEN [outputs |-> {inputs[first]}, clauses |-> {}]
        ELSE [outputs |-> {get_var(s[2]) : s \in single \cup sums},
              clauses |-> {Nots(s[1]) \cup {get_var(s[2])[2]} : s \in single \cup sums}
                          \cup left.clauses \cup right.clauses]

GTEFits(rhs) == rhs # W64 - 1

\* The cast (unsigned)rhs keeps the lower half.
FitsUnder(coeff, rhs) == coeff <= rhs % W32

\* What encode() leaves of a constraint, of a right-hand side read as
\* uint64_t: literals whose coefficients do not fit are fixed.
Used(coeffs)      == {i \in DOMAIN coeffs : coeffs[i] # 0}
Kept(coeffs, rhs) == {i \in Used(coeffs) : FitsUnder(coeffs[i], rhs)}

Fixed(lits, coeffs, rhs) ==
    {{Not(lits[i])} : i \in Used(coeffs) \ Kept(coeffs, rhs)}

\* encodeLeq is given them by rising coefficient.
GTETree(lits, coeffs, rhs) ==
    LET inputs == SetToSortSeq(Kept(coeffs, rhs), LAMBDA i, j :
                      coeffs[i] < coeffs[j] \/ (coeffs[i] = coeffs[j] /\ i < j))
    IN  encodeLeq(rhs + 1, [i \in DOMAIN inputs |->
                               <<coeffs[inputs[i]], lits[inputs[i]]>>],
                  1, Len(inputs))

\* The outputs that weigh more than rhs, up to a weight.
OutputsAbove(tree, rhs, to) ==
    {{Not(o[2])} : o \in {p \in tree.outputs : rhs < p[1] /\ p[1] <= to}}

GTE(lits, coeffs, rhs) ==
    Fixed(lits, coeffs, rhs)
    \cup (IF Cardinality(Kept(coeffs, rhs)) <= 1 THEN {}
          ELSE LET tree == GTETree(lits, coeffs, rhs)
               IN  tree.clauses \cup OutputsAbove(tree, rhs, rhs + 1))

GTEUpdate(lits, coeffs, from, rhs) ==
    OutputsAbove(GTETree(lits, coeffs, from), rhs, from)
-----------------------------------------------------------------------------
(***************************************************************************)
(* SWC: seq(i, j) is true when the first i literals weigh j or more.        *)
(***************************************************************************)
seq(i, j) == New("q", i, i, j)

SWCFits(coeffs, rhs) ==
    /\ rhs < W32 \div 2 - 1
    /\ \A i \in Used(coeffs) : coeffs[i] < W32 \div 2 - 1

\* The clauses of the i-th literal that raise the counter.
SWCRow(lit, w, i, rhs) ==
    {{Not(lit), seq(i, j)} : j \in 1..w}
    \cup (IF i = 1 THEN {}
          ELSE {{Not(seq(i - 1, j)), seq(i, j)} : j \in 1..rhs}
               \cup {{Not(seq(i - 1, j)), Not(lit), seq(i, j + w)} : j \in 1..(rhs - w)})

\* The clause of the i-th literal that forbids more than rhs.
SWCLimit(lit, w, i, rhs) ==
    IF i = 1 THEN {} ELSE {{Not(seq(i - 1, rhs + 1 - w)), Not(lit)}}

SWC(lits, coeffs, rhs) ==
    LET kept == SetToSortSeq(Kept(coeffs, rhs), <)
    IN  Fixed(lits, coeffs, rhs)
        \cup (IF Len(kept) <= 1 THEN {}
              ELSE UNION {SWCRow(lits[kept[i]], coeffs[kept[i]], i, rhs)
                          \cup SWCLimit(lits[kept[i]], coeffs[kept[i]], i, rhs) :
                             i \in DOMAIN kept})

SWCUpdate(coeffs, from, rhs) ==
    LET n == Cardinality(Kept(coeffs, from))
    IN  OutputsFrom([j \in 1..from |-> seq(n, j)], rhs, from)
-----------------------------------------------------------------------------
(***************************************************************************)
(* Adder: the bits of the sum, from full and half adders on one bit after   *)
(* the other, compared with those of the right-hand side.  Only the bits    *)
(* the right-hand side has are looked at in a coefficient.                  *)
(***************************************************************************)
Bit(n, i) == (n \div 2^i) % 2

\* The number of bits; of 0 it is undefined.
ld64(x) == CHOOSE b \in 1..x : 2^(b - 1) <= x /\ x < 2^b

Sum(i, n) == New("sum", i, i, n)
Carry(i, n) == New("carry", i, i, n)

FullAdder(a, b, c, xs, xc) ==
    LET Clause(p, q, r, x) == {IF p THEN a ELSE Not(a), IF q THEN b ELSE Not(b),
                               IF r THEN c ELSE Not(c), x}
        odd == {p \in BOOLEAN \X BOOLEAN \X BOOLEAN : p[1] # (p[2] # p[3])}
        FA_sum == {Clause(p[1], p[2], p[3], IF p \in odd THEN Not(xs) ELSE xs) :
                      p \in BOOLEAN \X BOOLEAN \X BOOLEAN}
        FA_carry == {{b, c, Not(xc)}, {a, c, Not(xc)}, {a, b, Not(xc)},
                     {Not(b), Not(c), xc}, {Not(a), Not(c), xc}, {Not(a), Not(b), xc}}
        FA_extra == UNION {{{Not(xc), Not(xs), lit}, {xc, xs, Not(lit)}} :
                              lit \in {a, b, c}}
    IN  FA_sum \cup FA_carry \cup FA_extra

HalfAdder(a, b, xs, xc) ==
    {{Not(a), Not(b), Not(xs)}, {a, b, Not(xs)}, {Not(a), b, xs}, {a, Not(b), xs},
     {a, Not(xc)}, {b, Not(xc)}, {Not(a), Not(b), xc}}

\* Bucket i brought down to one literal: result, carries and clauses.
RECURSIVE AddUp(_, _, _, _)
AddUp(i, bucket, carries, clauses) ==
    LET n  == Len(carries) + 1
        xs == Sum(i, n)
        xc == Carry(i, n)
    IN  IF bucket = <<>> THEN [result |-> {}, carries |-> <<>>, clauses |-> {}]
        ELSE IF Len(bucket) = 1
        THEN [result |-> {bucket[1]}, carries |-> carries, clauses |-> clauses]
        ELSE IF Len(bucket) = 2
        THEN [result |-> {xs}, carries |-> Append(carries, xc),
              clauses |-> clauses \cup HalfAdder(bucket[1], bucket[2], xs, xc)]
        ELSE AddUp(i, Append(SubSeq(bucket, 4, Len(bucket)), xs), Append(carries, xc),
                   clauses \cup FullAdder(bucket[1], bucket[2], bucket[3], xs, xc))

\* Bits above those of the right-hand side are there for carries only.
RECURSIVE adderTree(_, _, _, _, _)
adderTree(i, nb, Bucket(_), carries, made) ==
    LET one == AddUp(i, (IF i < nb THEN Bucket(i) ELSE <<>>) \o carries, <<>>, {})
    IN  IF i >= nb /\ carries = <<>> THEN made
        ELSE adderTree(i + 1, nb, Bucket, one.carries,
                       [outputs |-> Append(made.outputs, one.result),
                        clauses |-> made.clauses \cup one.clauses])

AdderTree(lits, coeffs, rhs) ==
    LET Bucket(i) == SetToSortSeq({v \in DOMAIN lits : Bit(coeffs[v], i) = 1}, <)
    IN  adderTree(0, ld64(rhs), LAMBDA i : [k \in DOMAIN Bucket(i) |-> lits[Bucket(i)[k]]],
                  <<>>, [outputs |-> <<>>, clauses |-> {}])

\* Where the right-hand side has a zero the sum has one only if it is smaller
\* above; a bit the sum lacks where the right-hand side has a one makes it so.
lessThanOrEqual(xs, rhs) ==
    LET one(i)    == Bit(rhs, i - 1) = 1
        Above(i)  == (i + 1)..Len(xs)
        Clause(i) == Nots(xs[i])
                     \cup UNION {IF one(j) THEN Nots(xs[j]) ELSE xs[j] : j \in Above(i)}
    IN  {Clause(i) : i \in {k \in DOMAIN xs :
            /\ ~one(k) /\ xs[k] # {}
            /\ \A j \in Above(k) : one(j) => xs[j] # {}}}

Adder(lits, coeffs, rhs) ==
    LET tree == AdderTree(lits, coeffs, rhs)
    IN  tree.clauses \cup lessThanOrEqual(tree.outputs, rhs)

AdderUpdate(lits, coeffs, from, rhs) ==
    lessThanOrEqual(AdderTree(lits, coeffs, from).outputs, rhs)
-----------------------------------------------------------------------------
(***************************************************************************)
(* Whether clauses have a model, by unit propagation and splitting.         *)
(***************************************************************************)
Assign(clauses, lit) == {c \ {Not(lit)} : c \in {d \in clauses : lit \notin d}}

RECURSIVE Satisfiable(_)
Satisfiable(clauses) ==
    IF clauses = {} THEN TRUE
    ELSE IF {} \in clauses THEN FALSE
    ELSE LET least == CHOOSE c \in clauses :
                         \A d \in clauses : Cardinality(c) <= Cardinality(d)
             lit   == CHOOSE l \in least : TRUE
         IN  \/ Satisfiable(Assign(clauses, lit))
             \/ Cardinality(least) > 1 /\ Satisfiable(Assign(clauses, Not(lit)))
=============================================================================
