--------------------------- MODULE HardConstraints ---------------------------
(***************************************************************************)
(* From a constraint line of an OPB file to clauses: ParserPB reads it into *)
(* a PB (FormulaPB.h), MaxSATFormula::addPBConstraint files it as a clause, *)
(* a cardinality or a PB constraint, and rebuildSolver() of every search    *)
(* encodes what was filed through class Encoder.  A constraint that is the  *)
(* only one may then be given smaller right-hand sides (updatePB and        *)
(* updateCardinality), as linear searches do.                               *)
(*                                                                         *)
(* A line is a sequence of products <<coefficient, variable>>, a relation,  *)
(* a right-hand side, and the encodings the Encoder is made with: card and  *)
(* pb.  Each constraint gets new variables, so that its clauses are kept    *)
(* and looked at apart from those of the others.                            *)
(***************************************************************************)
EXTENDS Encodings

CONSTANTS
    Lines,          \* the lines that may be read
    MaxUpdate       \* bound: how far an update lowers a right-hand side

Variables(products) == {product[2] : product \in ToSet(products)}

ASSUME LinesAssumption ==
    \A line \in Lines :
        /\ line.products \in Seq(Int \X Nat) /\ line.products # <<>>
        /\ line.sign \in {">=", "<=", "="} /\ line.rhs \in Int
        /\ line.card \in {"MTOTALIZER", "CNETWORKS"}
        /\ line.pb \in {"SWC", "GTE", "ADDER"}

ASSUME MaxUpdateAssumption == MaxUpdate \in Nat

VARIABLES
    line,
    read,                       \* parseConstraint has read the line
    hard_clauses,               \* the constraints filed, by what they are
    cardinality_constraints,
    pb_constraints,
    solver,                     \* the clauses of each constraint encoded
    current_rhs,                \* of the constraint, once it has been updated
    status                      \* "running", "encoded", or how it ended early

filed == <<hard_clauses, cardinality_constraints, pb_constraints>>
vars  == <<line, read, filed, solver, current_rhs, status>>

\* What an int holds after n has been stored in it.
Int32(n) == ((n + W32 \div 2) % W32) - (W32 \div 2)

\* PB::addProduct, one product after the other: a negative coefficient is that
\* of the other literal.
Read(products, rhs, sign) ==
    [lits   |-> [i \in DOMAIN products |->
                    IF products[i][1] >= 0 THEN Input(products[i][2])
                    ELSE Not(Input(products[i][2]))],
     coeffs |-> [i \in DOMAIN products |->
                    IF products[i][1] >= 0 THEN products[i][1] ELSE -products[i][1]],
     rhs    |-> rhs + Total([i \in DOMAIN products |->
                    IF products[i][1] >= 0 THEN 0 ELSE -products[i][1]]),
     sign   |-> sign]

\* The sum of the coefficients is made in an int.
changeSign(p) ==
    [p EXCEPT !.lits = [i \in DOMAIN p.lits |-> Not(p.lits[i])],
              !.rhs  = Int32(Total(p.coeffs)) - @,
              !.sign = ~@]

AtLeast(p) == IF p.sign THEN changeSign(p) ELSE p

AtMost(p)  == IF p.sign THEN p ELSE changeSign(p)

Unit(p) == \A i \in DOMAIN p.coeffs : p.coeffs[i] = 1

isClause(p) == AtLeast(p).rhs = 1 /\ Unit(p)

isCardinality(p) == Unit(p)

InitWith(lines) ==
    /\ line \in lines
    /\ read = FALSE
    /\ hard_clauses = <<>>
    /\ cardinality_constraints = <<>>
    /\ pb_constraints = <<>>
    /\ solver = <<>>
    /\ current_rhs = -1
    /\ status = "running"

Init == InitWith(Lines)

\* The PBs of the line: an equation makes two.
Parts ==
    LET p == Read(line.products, line.rhs, FALSE)
    IN  IF line.sign = "<=" THEN <<changeSign([p EXCEPT !.sign = TRUE])>>
        ELSE IF line.sign = "=" THEN <<p, [p EXCEPT !.sign = TRUE]>>
        ELSE <<p>>

\* parseConstraint and addPBConstraint.
ParseConstraint ==
    /\ ~read
    /\ read' = TRUE
    /\ LET clauses == SelectSeq(Parts, isClause)
           others  == SelectSeq(Parts, LAMBDA p : ~isClause(p))
           cards   == SelectSeq(others, isCardinality)
           pbs     == SelectSeq(others, LAMBDA p : ~isCardinality(p))
       IN  /\ hard_clauses' = [i \in DOMAIN clauses |->
                                  ToSet(AtLeast(clauses[i]).lits)]
           /\ cardinality_constraints' = [i \in DOMAIN cards |-> AtMost(cards[i])]
           /\ pb_constraints' = [i \in DOMAIN pbs |-> AtMost(pbs[i])]
    /\ UNCHANGED <<line, solver, current_rhs, status>>

\* rebuildSolver takes clauses first, then PB constraints, then cardinalities.
AddClauses ==
    /\ read /\ status = "running"
    /\ Len(solver) < Len(hard_clauses)
    /\ solver' = Append(solver, {hard_clauses[Len(solver) + 1]})
    /\ UNCHANGED <<line, read, filed, current_rhs, status>>

\* The encoder of PB constraints takes the right-hand side as uint64_t, and
\* exits when a number is too large; the bits of 0 are not defined.
PBFits(p, rhs) ==
    CASE line.pb = "GTE"   -> GTEFits(rhs)
      [] line.pb = "SWC"   -> SWCFits(p.coeffs, rhs)
      [] line.pb = "ADDER" -> rhs # 0

PBClauses(p, rhs) ==
    CASE line.pb = "GTE"   -> GTE(p.lits, p.coeffs, rhs)
      [] line.pb = "SWC"   -> SWC(p.lits, p.coeffs, rhs)
      [] line.pb = "ADDER" -> Adder(p.lits, p.coeffs, rhs)

EncodePB ==
    /\ read /\ status = "running"
    /\ LET k == Len(solver) - Len(hard_clauses) + 1
       IN  /\ k \in DOMAIN pb_constraints
           /\ LET p   == pb_constraints[k]
                  rhs == p.rhs % W64
              IN  \/ /\ PBFits(p, rhs)
                     /\ solver' = Append(solver, PBClauses(p, rhs))
                     /\ UNCHANGED status
                  \/ /\ ~PBFits(p, rhs)
                     /\ status' = "overflow"
                     /\ UNCHANGED solver
    /\ UNCHANGED <<line, read, filed, current_rhs>>

\* The assertions of the encoder of cardinality constraints.
CardFits(p) ==
    IF line.card = "MTOTALIZER" THEN MTotalizerFits(p.lits, p.rhs) ELSE p.rhs >= 0

CardClauses(p) ==
    IF line.card = "MTOTALIZER" THEN MTotalizer(p.lits, p.rhs)
    ELSE CNetworks(p.lits, p.rhs)

\* encodeAMO for a right-hand side of 1, encodeCardinality for others.
EncodeCard ==
    /\ read /\ status = "running"
    /\ LET k == Len(solver) - Len(hard_clauses) - Len(pb_constraints) + 1
       IN  /\ k \in DOMAIN cardinality_constraints
           /\ LET p == cardinality_constraints[k]
              IN  \/ /\ p.rhs = 1
                     /\ solver' = Append(solver, Ladder(p.lits))
                     /\ UNCHANGED status
                  \/ /\ p.rhs # 1 /\ CardFits(p)
                     /\ solver' = Append(solver, CardClauses(p))
                     /\ UNCHANGED status
                  \/ /\ p.rhs # 1 /\ ~CardFits(p)
                     /\ status' = "aborted"
                     /\ UNCHANGED solver
    /\ UNCHANGED <<line, read, filed, current_rhs>>

Solve ==
    /\ read /\ status = "running"
    /\ Len(solver) = Len(hard_clauses) + Len(pb_constraints)
                     + Len(cardinality_constraints)
    /\ status' = "encoded"
    /\ UNCHANGED <<line, read, filed, solver, current_rhs>>

\* hasCreatedEncoding(): not when the constraint came to nothing or to units.
CreatedEncoding(p) ==
    IF isCardinality(p)
    THEN IF line.card = "MTOTALIZER" THEN p.rhs \in 2..(Len(p.lits) - 1) ELSE p.rhs > 1
    ELSE line.pb = "ADDER" \/ Cardinality(Kept(p.coeffs, p.rhs)) > 1

\* The clauses updatePB or updateCardinality adds for a right-hand side.
UpdateClauses(p, rhs) ==
    CASE isCardinality(p) /\ line.card = "MTOTALIZER" -> MTotalizerUpdate(p.lits, p.rhs, rhs)
      [] isCardinality(p) /\ line.card = "CNETWORKS" -> CNetworksUpdate(p.rhs, rhs)
      [] ~isCardinality(p) /\ line.pb = "GTE" -> GTEUpdate(p.lits, p.coeffs, p.rhs, rhs)
      [] ~isCardinality(p) /\ line.pb = "SWC" -> SWCUpdate(p.coeffs, p.rhs, rhs)
      [] ~isCardinality(p) /\ line.pb = "ADDER" -> AdderUpdate(p.lits, p.coeffs, p.rhs, rhs)

\* The caller keeps what the encoders ask for: one constraint, with an encoding.
Update ==
    /\ status = "encoded"
    /\ Len(cardinality_constraints \o pb_constraints) = 1
    /\ LET p    == (cardinality_constraints \o pb_constraints)[1]
           last == IF current_rhs = -1 THEN p.rhs ELSE current_rhs
       IN  /\ CreatedEncoding(p)
           /\ \E rhs \in 0..(last - 1) :
                 /\ last - rhs <= MaxUpdate
                 /\ solver' = [solver EXCEPT ![Len(solver)] = @ \cup UpdateClauses(p, rhs)]
                 /\ current_rhs' = rhs
    /\ UNCHANGED <<line, read, filed, status>>

Next == ParseConstraint \/ AddClauses \/ EncodePB \/ EncodeCard \/ Solve \/ Update

Spec == Init /\ [][Next]_vars
-----------------------------------------------------------------------------
\* What the line says of an assignment that makes X true.
Means(X) ==
    LET sum == Total([i \in DOMAIN line.products |->
                         IF line.products[i][2] \in X THEN line.products[i][1] ELSE 0])
    IN  CASE line.sign = ">=" -> sum >= line.rhs
          [] line.sign = "<=" -> sum <= line.rhs
          [] line.sign = "="  -> sum = line.rhs

\* What it says once its right-hand side has been updated.
MeansUpdated(X) ==
    LET p == (cardinality_constraints \o pb_constraints)[1]
        sum == Total([i \in DOMAIN p.lits |->
                   IF (p.lits[i][1][2] \in X) = p.lits[i][2] THEN p.coeffs[i] ELSE 0])
    IN  Means(X) /\ (current_rhs # -1 => sum <= current_rhs)

Assignments == SUBSET Variables(line.products)

\* What the solver is left with once the inputs are X.
Allows(X) ==
    \A k \in DOMAIN solver :
        Satisfiable(FoldSet(
            LAMBDA v, clauses :
                Assign(clauses, IF v \in X THEN Input(v) ELSE Not(Input(v))),
            solver[k], Variables(line.products)))

\* changeSign can add the coefficients up.
SumFits == \A p \in ToSet(Parts) : Total(p.coeffs) < W32 \div 2

\* What is encoded is neither a PB constraint below zero or beyond unsigned,
\* nor at most one of a single literal; and for adders no coefficient has more
\* bits than the right-hand side.
InRange ==
    /\ SumFits
    /\ \A p \in ToSet(pb_constraints) :
          /\ p.rhs \in 0..(W32 - 1)
          /\ line.pb = "ADDER" => \A c \in ToSet(p.coeffs) : c < 2^ld64(p.rhs)
    /\ \A p \in ToSet(cardinality_constraints) : ~(p.rhs = 1 /\ Len(p.lits) = 1)

(***************************************************************************)
(* In range, the solver allows an assignment exactly when the line does,    *)
(* and after updates when the smaller right-hand side does.  Signs change   *)
(* up to three times on the way, each encoding leaves out the sums it takes *)
(* to be out of reach, and update() relies on the outputs that are left.    *)
(***************************************************************************)
EncodesLine ==
    (status = "encoded" /\ InRange) =>
        \A X \in Assignments :
            Allows(X) <=> IF current_rhs = -1 THEN Means(X) ELSE MeansUpdated(X)

(***************************************************************************)
(* With the encodings the searches ask for, the exits and assertions of the *)
(* encoders are met only by lines that every assignment meets or none does: *)
(* a constraint that says something about its variables is always encoded.  *)
(***************************************************************************)
StopsOnlyWhenConstant ==
    (/\ status \in {"overflow", "aborted"} /\ SumFits
     /\ line.pb = "GTE" /\ line.card = "MTOTALIZER") =>
        \/ \A X \in Assignments : Means(X)
        \/ \A X \in Assignments : ~Means(X)
=============================================================================
