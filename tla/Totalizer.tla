------------------------------ MODULE Totalizer ------------------------------
(***************************************************************************)
(* The incremental totalizer (encodings/Enc_Totalizer.cc, called through    *)
(* Encoder.cc): the counter that UpMSU3, MSU3 and UpOLL rely on.            *)
(*                                                                         *)
(* An adder takes two sequences of literals, each a number written in       *)
(* unary, to their sum.  Only sums up to right-hand side + 1 are encoded;   *)
(* update() adds those that a larger right-hand side needs.                 *)
(*                                                                         *)
(* The two ways the searches use a totalizer:                               *)
(*   "MSU3"  build() and update() with the lower bound; after later cores   *)
(*           join() the new literals, and update() with the bound plus one; *)
(*           every output from the bound on is assumed false;               *)
(*   "OLL"   build(); one output is assumed false; when it is in a core,    *)
(*           update() with the bound plus one and assume the next output.   *)
(*                                                                         *)
(* A literal is <<0, k>>, the k-th input, or <<z, i>>, the i-th output of   *)
(* the z-th adder.  lits(), which join() gets wrong, is left out: only OLL  *)
(* asks for it, and OLL never joins.                                        *)
(***************************************************************************)
EXTENDS Integers, FiniteSets, SequencesExt

CONSTANT MaxLits    \* bound: the number of literals counted

VARIABLES
    caller,             \* the search that owns the encoder
    adders,             \* totalizerIterative_left, _right and _rhs; sums: the
                        \* <<i, j>> whose clause "i left and j right make i+j"
                        \* is in the solver
    cardinality_outlits,
    joinMode,
    counted,            \* the inputs are <<0, 1>> .. <<0, counted>>
    bound,              \* the right-hand side last asked for
    updated,            \* update() has been called for it, if it is to be
    assumptions         \* the positions of the outputs assumed false

vars == <<caller, adders, cardinality_outlits, joinMode, counted,
          bound, updated, assumptions>>

Inputs(first, last) == [k \in 1..(last - first + 1) |-> <<0, first + k - 1>>]

Outputs(z, n) == [i \in 1..n |-> <<z, i>>]

\* The sums of an adder for a right-hand side.
SumsUpTo(left, right, rhs) ==
    {s \in (0..Len(left)) \X (0..Len(right)) :
        s[1] + s[2] \in 1..(rhs + 1)}

adder(left, right, rhs) ==
    [left |-> left, right |-> right, rhs |-> rhs,
     sums |-> SumsUpTo(left, right, rhs)]

(***************************************************************************)
(* The adders of a tree over inlits, in the order they are made; the left   *)
(* half is taken from the end of inlits.                                    *)
(***************************************************************************)
RECURSIVE toCNF(_, _, _)
toCNF(made, inlits, rhs) ==
    LET n      == Len(inlits)
        split  == n \div 2
        lower  == toCNF(made, SubSeq(inlits, n - split + 1, n), rhs)
        both   == toCNF(lower, SubSeq(inlits, 1, n - split), rhs)
        left   == IF split = 1 THEN <<inlits[n]>> ELSE Outputs(Len(lower), split)
        right  == IF n - split = 1 THEN <<inlits[1]>>
                  ELSE Outputs(Len(both), n - split)
    IN  IF n = 1 THEN made ELSE Append(both, adder(left, right, rhs))

\* Nothing is built when the constraint is trivial, except for a join.
build(made, inlits, rhs) ==
    IF rhs = Len(inlits) /\ ~joinMode
    THEN [adders |-> made, out |-> <<>>]
    ELSE LET all == toCNF(made, inlits, rhs)
         IN  [adders |-> all, out |-> Outputs(Len(all), Len(inlits))]

-----------------------------------------------------------------------------
Init ==
    /\ caller \in {"MSU3", "OLL"}
    /\ adders = <<>>
    /\ cardinality_outlits = <<>>
    /\ joinMode = FALSE
    /\ counted = 0
    /\ bound = 0
    /\ updated = TRUE
    /\ assumptions = {}

\* buildCardinality.  MSU3 builds when the bound is not the number of the
\* literals; OLL over two literals or more with bound 1, or a copy.  OLL
\* assumes the output above the bound at once.
Build(n, rhs) ==
    /\ adders = <<>>
    /\ rhs < n
    /\ LET built == build(<<>>, Inputs(1, n), rhs)
       IN  /\ adders' = built.adders
           /\ cardinality_outlits' = built.out
    /\ joinMode' = TRUE
    /\ counted' = n
    /\ bound' = rhs
    /\ updated' = (caller = "OLL")
    /\ assumptions' = IF caller = "OLL" THEN {rhs + 1} ELSE {}
    /\ UNCHANGED caller

\* joinEncoding with n new literals.
Join(n) ==
    /\ caller = "MSU3" /\ adders # <<>> /\ updated
    /\ LET rhs   == bound + 1
           new   == Inputs(counted + 1, counted + n)
           right == IF n > 1
                    THEN build(adders, new, Min({rhs, n}))
                    ELSE [adders |-> adders, out |-> new]
           all   == Append(right.adders,
                           adder(cardinality_outlits, right.out, rhs))
       IN  /\ adders' = all
           /\ cardinality_outlits' =
                 Outputs(Len(all), Len(cardinality_outlits) + Len(right.out))
            /\ bound' = rhs
    /\ counted' = counted + n
    /\ updated' = FALSE
    /\ UNCHANGED <<caller, joinMode, assumptions>>

\* Mutant: the sum right-hand side + 1 is not added.
MissingToRhs(a, rhs) ==
    {s \in (0..Len(a.left)) \X (0..Len(a.right)) :
        s[1] + s[2] > a.rhs + 1 /\ s[1] + s[2] <= rhs}

\* The clauses incremental() adds to an adder.
Missing(a, rhs) ==
    {s \in (0..Len(a.left)) \X (0..Len(a.right)) :
        s[1] + s[2] > a.rhs + 1 /\ s[1] + s[2] <= rhs + 1}

incremental(rhs) ==
    /\ adders' = [z \in DOMAIN adders |->
                    [adders[z] EXCEPT !.sums = @ \cup Missing(adders[z], rhs),
                                      !.rhs  = rhs]]

\* Mutant: the output at the bound is left free.
FromAbove(rhs) == (rhs + 2)..Len(cardinality_outlits)

From(rhs) == (rhs + 1)..Len(cardinality_outlits)

\* incUpdateCardinality by MSU3: for the bound just built or joined, or for
\* the next one after a core that relaxes nothing new; there is such a core
\* only while an output is assumed.
Update ==
    /\ caller = "MSU3" /\ adders # <<>>
    /\ LET rhs == IF updated THEN bound + 1 ELSE bound
       IN  /\ updated => assumptions # {}
           /\ incremental(rhs)
           /\ assumptions' = From(rhs)
           /\ bound' = rhs
    /\ updated' = TRUE
    /\ UNCHANGED <<caller, cardinality_outlits, joinMode, counted>>

NextOutput(rhs) == {rhs + 1} \cap DOMAIN cardinality_outlits

\* incUpdateCardinality by OLL, for an output that was in a core; the next
\* output is assumed when there is one.
Raise ==
    /\ caller = "OLL" /\ assumptions # {}
    /\ incremental(bound + 1)
    /\ assumptions' = NextOutput(bound + 1)
    /\ bound' = bound + 1
    /\ UNCHANGED <<caller, cardinality_outlits, joinMode, counted, updated>>

Next ==
    \/ \E n \in 2..MaxLits, rhs \in 1..MaxLits : Build(n, rhs)
    \/ \E n \in 1..(MaxLits - counted) : Join(n)
    \/ Update
    \/ Raise

Spec == Init /\ [][Next]_vars
-----------------------------------------------------------------------------
\* What unit propagation makes true when exactly the inputs X are.
ForcedBy(X) ==
    LET holds(forced, lit) == IF lit[1] = 0 THEN lit[2] \in X
                              ELSE lit[2] \in forced[lit[1]]
    IN  FoldLeft(LAMBDA forced, a :
                    Append(forced,
                           {s[1] + s[2] : s \in {t \in a.sums :
                               /\ t[1] = 0 \/ holds(forced, a.left[t[1]])
                               /\ t[2] = 0 \/ holds(forced, a.right[t[2]])}}),
                 <<>>, adders)

ForcedOutputs(X) ==
    LET forced == ForcedBy(X)
    IN  {p \in DOMAIN cardinality_outlits :
            LET lit == cardinality_outlits[p] IN lit[2] \in forced[lit[1]]}

(***************************************************************************)
(* Up to the first output above the bound, the outputs forced are the       *)
(* number of true inputs in unary, no output missing and none too many.     *)
(* OLL puts single outputs into cores and into other totalizers, and it is  *)
(* right to do so only if each of them means "more than so many".           *)
(***************************************************************************)
OutputsCount ==
    (adders # <<>> /\ updated) =>
        \A X \in SUBSET (1..counted) :
            ForcedOutputs(X) \cap (1..(bound + 1))
                = 1..Min({Cardinality(X), bound + 1})

(***************************************************************************)
(* The next query allows exactly the assignments in which at most bound of  *)
(* the literals are true, whatever was built, joined and updated before.    *)
(* UpMSU3, MSU3 and UpOLL are modelled on this.                             *)
(***************************************************************************)
AtMostBound ==
    (adders # <<>> /\ updated) =>
        \A X \in SUBSET (1..counted) :
            (ForcedOutputs(X) \cap assumptions = {})
                <=> (Cardinality(X) <= bound)
=============================================================================
