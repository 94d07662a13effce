------------------------------ MODULE Formula ------------------------------
(***************************************************************************)
(* MaxSATFormula and its readers: a file of DIMACS CNF or WCNF              *)
(* (ParserMaxSAT.h), of PWCNF, whose clauses have labels                    *)
(* (ParserPartitions.h), or of OPB, with an objective to minimise           *)
(* (ParserPB.cc), is read into one formula of hard clauses and weighted     *)
(* soft clauses, which MaxSAT::loadFormula hands to a search.               *)
(*                                                                         *)
(* A file is [format, top, lines, objective]: a line is [label, weight,     *)
(* lits], a literal v or -v; the objective is a sequence of products        *)
(* <<coefficient, variable>>.  The lines of an OPB file stand for its       *)
(* constraints that are clauses (HardConstraints has the others); variables *)
(* are numbered as the file names them for the first time.  A file with     *)
(* weights and without a top weight has UINT64_MAX for it.  Assertions are  *)
(* compiled in, as they are by default: the process stops at one that fails.*)
(***************************************************************************)
EXTENDS Integers, FiniteSets, SequencesExt, FiniteSetsExt

CONSTANT UINT64_MAX

ASSUME MaximumAssumption == UINT64_MAX \in Nat

\* n_partitions before it is set.
Unset == -1

NewFormula ==
    [nVars |-> 0, hard |-> <<>>, soft |-> <<>>, weight |-> <<>>,
     hardLabel |-> <<>>, softLabel |-> <<>>, n_partitions |-> Unset,
     hard_weight |-> UINT64_MAX, problem_type |-> "unweighted",
     sum_soft_weight |-> 0, max_soft_weight |-> 0,
     objective |-> [lits |-> <<>>, coeffs |-> <<>>, const |-> 0],
     off_set |-> 0, ubCost |-> 0]

VarOf(lit) == IF lit > 0 THEN lit ELSE -lit

WithVars(f, lits) == [f EXCEPT !.nVars = Max({@} \cup {VarOf(lit) : lit \in ToSet(lits)})]

\* setMaximumWeight and updateSumWeights.
Weigh(f, weight) ==
    IF weight = f.hard_weight THEN f
    ELSE [f EXCEPT !.max_soft_weight = Max({@, weight}),
                   !.sum_soft_weight = @ + weight]

addSoftClause(f, weight, lits, label) ==
    [f EXCEPT !.soft = Append(@, lits), !.weight = Append(@, weight),
              !.softLabel = Append(@, label)]

addHardClause(f, lits, label) ==
    [f EXCEPT !.hard = Append(@, lits), !.hardLabel = Append(@, label)]

\* A uint64_t that is put into an int64_t.
Int64(n) == IF n > UINT64_MAX \div 2 THEN n - (UINT64_MAX + 1) ELSE n

\* The weight that readClause reads.
readWeight(f, line) == IF f.problem_type = "weighted" THEN Int64(line.weight) ELSE 1

isSoft(f, weight) == weight < f.hard_weight \/ f.problem_type = "unweighted"

\* One clause of parseMaxSAT or parsePwcnf: a file without weights has soft
\* clauses only.
ReadClause(f, line) ==
    LET weight == readWeight(f, line)
        g      == WithVars(f, line.lits)
    IN  IF isSoft(f, weight)
        THEN addSoftClause(Weigh(g, weight), weight, line.lits, line.label)
        ELSE addHardClause(g, line.lits, line.label)

ReadHeader(f, file) ==
    IF file.format \in {"wcnf", "pwcnf"}
    THEN [f EXCEPT !.problem_type = "weighted", !.hard_weight = file.top]
    ELSE f

WithType(f) ==
    [f EXCEPT !.problem_type = IF f.max_soft_weight = 1 THEN "unweighted" ELSE "weighted"]

\* Mutant: as many partitions as there are labels.
PartitionsCounted(f) ==
    [f EXCEPT !.n_partitions = Cardinality(ToSet(f.hardLabel) \cup ToSet(f.softLabel))]

\* The largest label.
WithPartitions(f) ==
    [f EXCEPT !.n_partitions = Max({0} \cup ToSet(f.hardLabel) \cup ToSet(f.softLabel))]

\* readClause: assert(weight > 0)
AssertionFails(file) ==
    /\ file.format # "opb"
    /\ \E i \in DOMAIN file.lines :
          readWeight(ReadHeader(NewFormula, file), file.lines[i]) <= 0

\* parseMaxSATFormula and parsePwcnfFormula, when no assertion fails.
ParseClauses(file) ==
    LET read == FoldLeft(ReadClause, ReadHeader(NewFormula, file), file.lines)
    IN  WithType(IF file.format = "pwcnf" THEN WithPartitions(read) ELSE read)

\* Mutant: the constant of a literal turned round is left out.
addProductPlain(of, product) ==
    [of EXCEPT !.coeffs = Append(@, IF product[1] >= 0 THEN product[1] ELSE -product[1]),
               !.lits = Append(@, IF product[1] >= 0 THEN product[2] ELSE -product[2])]

\* PBObjFunction::addProduct: coefficients are made positive.
addProduct(of, product) ==
    IF product[1] >= 0
    THEN [of EXCEPT !.coeffs = Append(@, product[1]), !.lits = Append(@, product[2])]
    ELSE [coeffs |-> Append(of.coeffs, -product[1]),
          lits   |-> Append(of.lits, -product[2]),
          const  |-> of.const + product[1]]

\* ParserPB, for a file whose constraints are clauses.
ParsePB(file) ==
    LET of   == FoldLeft(addProduct, NewFormula.objective, file.objective)
        goal == WithVars([NewFormula EXCEPT !.objective = of], of.lits)
    IN  FoldLeft(LAMBDA f, line : addHardClause(WithVars(f, line.lits), line.lits, -1),
                 goal, file.lines)

Parse(file) == IF file.format = "opb" THEN ParsePB(file) ELSE ParseClauses(file)

\* A soft clause for each product of the objective, which pays for its literal.
convertPBtoMaxSAT(f) ==
    WithType(FoldLeft(
        LAMBDA h, k : Weigh(addSoftClause(h, f.objective.coeffs[k],
                                          <<-f.objective.lits[k]>>, -1),
                            f.objective.coeffs[k]),
        f, [k \in DOMAIN f.objective.lits |-> k]))

\* MaxSAT::loadFormula.
loadFormula(f) ==
    LET loaded == IF f.objective.lits = <<>> THEN f
                  ELSE convertPBtoMaxSAT([f EXCEPT !.off_set = f.objective.const])
    IN  [loaded EXCEPT !.ubCost = loaded.sum_soft_weight]
-----------------------------------------------------------------------------
\* The clause is true when exactly the variables X are.
Satisfies(X, lits) == \E lit \in ToSet(lits) : (VarOf(lit) \in X) = (lit > 0)

SumOver(S, w(_)) == SumFunction([i \in S |-> w(i)])

\* The weights of the file are positive integers of int64_t.
HasWeights(file) ==
    \/ file.format \in {"cnf", "opb"}
    \/ \A i \in DOMAIN file.lines : file.lines[i].weight \in 1..(UINT64_MAX \div 2)

\* What the file says of X: whether it may be, and what it costs.
Feasible(file, X) ==
    \A i \in DOMAIN file.lines :
        (\/ file.format = "opb"
         \/ file.format # "cnf" /\ file.lines[i].weight >= file.top)
            => Satisfies(X, file.lines[i].lits)

Objective(file, X) ==
    IF file.format = "opb"
    THEN SumOver({k \in DOMAIN file.objective : file.objective[k][2] \in X},
                 LAMBDA k : file.objective[k][1])
    ELSE SumOver({i \in DOMAIN file.lines :
                    ~Satisfies(X, file.lines[i].lits)
                    /\ (file.format = "cnf" \/ file.lines[i].weight < file.top)},
                 LAMBDA i : IF file.format = "cnf" THEN 1 ELSE file.lines[i].weight)

(***************************************************************************)
(* The formula of the file: the same assignments satisfy its hard clauses,  *)
(* and of each of them the soft clauses left false and the offset cost what *)
(* the file says; the upper bound a search begins with is that of leaving   *)
(* every soft clause false.                                                 *)
(***************************************************************************)
MeansTheFile(f, file) ==
    /\ f.ubCost = SumFunction(f.weight)
    /\ \A X \in SUBSET (1..f.nVars) :
          /\ Feasible(file, X) <=> \A i \in DOMAIN f.hard : Satisfies(X, f.hard[i])
          /\ Objective(file, X) =
                SumOver({i \in DOMAIN f.soft : ~Satisfies(X, f.soft[i])},
                        LAMBDA i : f.weight[i]) + f.off_set
=============================================================================
