---------------------------- MODULE Partitioning ----------------------------
(***************************************************************************)
(* MaxSAT_Partition (MaxSAT_Partition.cc): with -upfile a file is read and  *)
(* its formula split into partitions, from a graph of its clauses or        *)
(* variables or at random, and written as a PWCNF file, which the program   *)
(* reads when it is started on it to solve the formula.                     *)
(*                                                                         *)
(* A literal is v or -v, a clause a sequence of literals.  Weights of edges *)
(* are multiplied to be integers, see Common.                               *)
(***************************************************************************)
EXTENDS Communities, Formula

CONSTANTS
    Files,              \* the files that may be given
    EdgeLimit,          \* _EDGE_LIMIT_
    nRandomPartitions   \* _nRandomPartitions

ASSUME PartitioningAssumption ==
    EdgeLimit \in Nat \ {0} /\ nRandomPartitions \in Nat \ {0}

VARIABLES
    infile,             \* the file given
    formula,            \* maxsat_formula
    graphType,          \* "vig", "cvig", "res", "random"
    mapping,            \* _graphMappingVar, _graphMappingHard, _graphMappingSoft
    nPartitions,
    true,               \* the literals _solver has assigned: init() has put
                        \* the hard clauses into it
    stage,              \* "read", "split", "graph", "partitioned", "written";
                        \* "reread" by another process; "aborted", "rejected"
                        \* when an assertion fails in reading and rereading
    file                \* the labels written, and n_part

partitionVars ==
    <<infile, formula, graphType, mapping, nPartitions, true, stage, file>>
vars == <<communityVars, partitionVars>>

\* Bound: clauses have at most three literals, so that all weights are integers
\* when those of variables are multiplied by Common, and those of edges again.
Common == 6

Vars == 1..formula.nVars

\* The literals that unit propagation makes true.
RECURSIVE Propagated(_, _)
Propagated(hard, lits) ==
    LET open(c) == {lit \in ToSet(c) : -lit \notin lits}
        units   == UNION {open(c) : c \in {d \in ToSet(hard) :
                              Cardinality(open(d)) = 1}}
    IN  IF units \subseteq lits THEN lits ELSE Propagated(hard, lits \cup units)

\* solver->okay()
okay ==
    /\ \A lit \in true : -lit \notin true
    /\ \A c \in ToSet(formula.hard) : \E lit \in ToSet(c) : -lit \notin true

Unassigned(lit) == lit \notin true /\ -lit \notin true

\* The literals unassignedLiterals counts.
UnassignedLiterals(c) ==
    IF ToSet(c) \cap true # {} THEN <<>> ELSE SelectSeq(c, Unassigned)

unassignedLiterals(c) == Len(UnassignedLiterals(c))

Unresolved(clauses) == {i \in DOMAIN clauses : unassignedLiterals(clauses[i]) > 0}

\* The elements of S numbered from first on, -1 for the others of 1..n.
Numbered(S, n, first) ==
    [i \in 1..n |-> IF i \in S THEN first + Cardinality({j \in S : j < i}) ELSE -1]

gVars == Cardinality({v \in Vars : Unassigned(v)})
sVars == Cardinality(Unresolved(formula.soft))

\* Common times graphWeight: 1, and a share of each unresolved soft clause.
graphWeight(v) ==
    Common + SumFunction([i \in Unresolved(formula.soft) |->
        LET lits == UnassignedLiterals(formula.soft[i])
        IN  Cardinality({k \in DOMAIN lits : VarOf(lits[k]) = v})
            * ((Common * formula.weight[i]) \div Len(lits))])

Init ==
    /\ CommunityInit
    /\ infile \in Files
    /\ formula = NewFormula
    /\ graphType \in {"vig", "cvig", "res", "random"}
    /\ mapping = [var |-> <<>>, hard |-> <<>>, soft |-> <<>>]
    /\ nPartitions = 0
    /\ true = {}
    /\ stage = "read"
    /\ file = [hard |-> <<>>, soft |-> <<>>, n_part |-> 0]
-----------------------------------------------------------------------------
(***************************************************************************)
(* The graphs.  Their elements are <<"var", v>>, <<"hard", i>> and          *)
(* <<"soft", i>>, for variables and unresolved clauses.                     *)
(***************************************************************************)
Pieces == ({"hard"} \X Unresolved(formula.hard))
          \cup ({"soft"} \X Unresolved(formula.soft))

Lits(piece) == UnassignedLiterals(formula[piece[1]][piece[2]])

Occurrences(piece, v) == {k \in DOMAIN Lits(piece) : VarOf(Lits(piece)[k]) = v}

\* Two variables, for every clause they are in together.
VIGWeight(a, b) ==
    IF a[1] # "var" \/ b[1] # "var" THEN 0
    ELSE SumFunction([p \in {q \in Pieces : Len(Lits(q)) > 1} |->
            LET ul    == Len(Lits(p))
                pairs == {kl \in Occurrences(p, a[2]) \X Occurrences(p, b[2]) :
                            kl[1] # kl[2]}
            IN  Cardinality(pairs)
                * ((graphWeight(a[2]) * graphWeight(b[2]) * Common) \div (ul * (ul - 1)))])

\* A variable and a clause it is in.
CVIGWeight(a, b) ==
    IF a[1] = "var" /\ b[1] # "var"
    THEN Cardinality(Occurrences(b, a[2]))
         * ((graphWeight(a[2]) * Common) \div Len(Lits(b)))
    ELSE IF a[1] # "var" /\ b[1] = "var"
    THEN Cardinality(Occurrences(a, b[2]))
         * ((graphWeight(b[2]) * Common) \div Len(Lits(a)))
    ELSE 0

\* Two clauses have a resolvent: they clash in one literal.
Resolve(c, rc) == Cardinality({k \in DOMAIN rc : -rc[k] \in ToSet(c)}) = 1

\* Hard clauses are joined with each other and with the soft clauses.
RESWeight(a, b) ==
    LET c  == Lits(a)
        rc == Lits(b)
        ul == Len(c) - 1 + Cardinality({k \in DOMAIN rc :
                               ToSet(c) \cap {rc[k], -rc[k]} = {}})
    IN  IF a = b \/ "var" \in {a[1], b[1]} \/ "hard" \notin {a[1], b[1]} THEN 0
        ELSE IF Resolve(c, rc) THEN (2 * Common) \div ul ELSE 0

Weight(a, b) ==
    CASE graphType = "vig"  -> VIGWeight(a, b)
      [] graphType = "cvig" -> CVIGWeight(a, b)
      [] graphType = "res"  -> RESWeight(a, b)

\* The first vertex of a hard clause.
FirstHard == IF graphType = "cvig" THEN gVars + sVars ELSE sVars

\* The vertices of variables and clauses; a VIG has none of clauses, a RES
\* graph none of variables.
Vertices ==
    LET unassigned == {v \in Vars : Unassigned(v)}
        hard       == Unresolved(formula.hard)
        soft       == Unresolved(formula.soft)
        nHard      == Len(formula.hard)
        nSoft      == Len(formula.soft)
        first      == IF graphType = "cvig" THEN gVars ELSE 0
    IN  [var  |-> Numbered(IF graphType = "res" THEN {} ELSE unassigned,
                           formula.nVars, 0),
         soft |-> Numbered(IF graphType = "vig" THEN {} ELSE soft, nSoft, first),
         hard |-> Numbered(IF graphType = "vig" THEN {} ELSE hard, nHard, FirstHard)]

ElementsAt(vertex, of) ==
    {e \in Pieces \cup ({"var"} \X Vars) : of[e[1]][e[2]] = vertex}

Graph(of) ==
    LET n == Max({-1} \cup UNION {ToSet(of[kind]) : kind \in DOMAIN of}) + 1
    IN  GraphOf([u \in 0..(n - 1) |-> [v \in 0..(n - 1) |->
            SumFunction([e \in ElementsAt(u, of) \X ElementsAt(v, of) |->
                            Weight(e[1], e[2])])]])

\* What the graph builders count in nEdges.
nEdges ==
    LET lengths == [p \in Pieces |-> Len(Lits(p))]
    IN  CASE graphType = "vig"  -> SumFunction([p \in Pieces |->
                                      (lengths[p] * (lengths[p] - 1)) \div 2])
          [] graphType = "cvig" -> SumFunction(lengths)
          [] graphType = "res"  -> Cardinality({{a, b} : <<a, b>> \in
                                      {e \in Pieces \X Pieces : RESWeight(e[1], e[2]) > 0}})
-----------------------------------------------------------------------------
\* After init(), and when it finds the hard clauses without a model.
Unmapped ==
    [var  |-> [v \in Vars |-> 0],
     hard |-> [i \in DOMAIN formula.hard |-> 0],
     soft |-> [i \in DOMAIN formula.soft |-> 0]]

\* main reads the file, loadFormula and init().
ReadFile ==
    /\ stage = "read" /\ ~AssertionFails(infile)
    /\ formula' = loadFormula(Parse(infile))
    /\ true' = Propagated(formula'.hard, {})
    /\ stage' = "split"
    /\ UNCHANGED <<communityVars, infile, graphType, mapping, nPartitions, file>>

AbortReading ==
    /\ stage = "read" /\ AssertionFails(infile)
    /\ stage' = "aborted"
    /\ UNCHANGED <<communityVars, infile, formula, graphType, mapping, nPartitions,
                   true, file>>

NothingToSplit ==
    /\ stage = "split" /\ ~okay
    /\ mapping' = Unmapped
    /\ stage' = "partitioned"
    /\ UNCHANGED <<communityVars, infile, formula, graphType, true, nPartitions, file>>

SplitRandom ==
    /\ stage = "split" /\ okay /\ graphType = "random"
    /\ nPartitions' = nRandomPartitions
    /\ \E c \in [Unresolved(formula.soft) -> 0..(nRandomPartitions - 1)] :
          mapping' = [Unmapped EXCEPT !.soft =
              [i \in DOMAIN formula.soft |-> IF i \in DOMAIN c THEN c[i] ELSE -1]]
    /\ stage' = "partitioned"
    /\ UNCHANGED <<communityVars, infile, formula, graphType, true, file>>

\* buildGraph finds more edges than it takes: buildSinglePartition.
SinglePartition ==
    /\ stage = "split" /\ okay /\ graphType # "random"
    /\ nEdges >= EdgeLimit
    /\ LET zeroOn(S, n) == [i \in 1..n |-> IF i \in S THEN 0 ELSE -1]
       IN  mapping' =
             [var  |-> zeroOn({v \in Vars : Unassigned(v)}, formula.nVars),
              hard |-> zeroOn(Unresolved(formula.hard), Len(formula.hard)),
              soft |-> zeroOn(Unresolved(formula.soft), Len(formula.soft))]
    /\ nPartitions' = 1
    /\ stage' = "partitioned"
    /\ UNCHANGED <<communityVars, infile, formula, graphType, true, file>>

BuildGraph ==
    /\ stage = "split" /\ okay /\ graphType # "random"
    /\ nEdges < EdgeLimit
    /\ mapping' = Vertices
    /\ \E h \in {Graph(Vertices)} : FindCommunities(h)
    /\ stage' = "graph"
    /\ UNCHANGED <<infile, formula, graphType, true, nPartitions, file>>

\* The community that is first to be met as often as any.
MostOf(comms) ==
    LET met(k) == Cardinality({j \in 1..k : comms[j] = comms[k]})
    IN  comms[CHOOSE k \in DOMAIN comms :
                 \A j \in DOMAIN comms : met(j) < met(k) \/ (met(j) = met(k) /\ j >= k)]

\* buildPartitions: vertices are replaced by their communities; in a VIG a
\* clause goes with most of its variables.
BuildPartitions ==
    /\ stage = "graph" /\ phase = "found"
    /\ LET community(f) == [i \in DOMAIN f |->
                               IF f[i] = -1 THEN -1 ELSE vertexCommunity[f[i]]]
           most(kind) == [i \in DOMAIN formula[kind] |->
                            IF <<kind, i>> \in Pieces
                            THEN LET lits == Lits(<<kind, i>>)
                                 IN  MostOf([k \in DOMAIN lits |->
                                        vertexCommunity[mapping.var[VarOf(lits[k])]]])
                            ELSE -1]
       IN  mapping' = [var  |-> community(mapping.var),
                       hard |-> IF graphType = "vig" THEN most("hard")
                                ELSE community(mapping.hard),
                       soft |-> IF graphType = "vig" THEN most("soft")
                                ELSE community(mapping.soft)]
    /\ nPartitions' = nCommunities
    /\ stage' = "partitioned"
    /\ UNCHANGED <<communityVars, infile, formula, graphType, true, file>>

\* Mutant: both extra partitions get the first free label.
ExtrasSame(p) ==
    [minus |-> nPartitions + 1, zero |-> nPartitions + 1, n_part |-> nPartitions + 1]

\* The labels that -1 and 0 are written as, numbered as they are met, and the
\* number of labels in the header.
Extras(p) ==
    LET minus == {k \in DOMAIN p : p[k] < 0}
        zero  == {k \in DOMAIN p : p[k] = 0}
        later(a, b) == a # {} /\ b # {} /\ Min(a) > Min(b)
    IN  [minus  |-> nPartitions + (IF later(minus, zero) THEN 2 ELSE 1),
         zero   |-> nPartitions + (IF later(zero, minus) THEN 2 ELSE 1),
         n_part |-> nPartitions + (IF minus # {} THEN 1 ELSE 0)
                                + (IF zero # {} THEN 1 ELSE 0)]

printPWCNFtoFile ==
    /\ stage = "partitioned"
    /\ LET extra    == Extras(mapping.hard \o mapping.soft)
           label(f) == [i \in DOMAIN f |-> IF f[i] < 0 THEN extra.minus
                                           ELSE IF f[i] = 0 THEN extra.zero
                                           ELSE f[i]]
       IN  file' = [hard |-> label(mapping.hard), soft |-> label(mapping.soft),
                    n_part |-> extra.n_part]
    /\ stage' = "written"
    /\ UNCHANGED <<communityVars, infile, formula, graphType, true, mapping, nPartitions>>

\* What printPWCNFtoFile has put into the file.
Written ==
    LET lines(kind, weight(_)) ==
            [i \in DOMAIN formula[kind] |-> [label |-> file[kind][i], weight |-> weight(i),
                                            lits |-> formula[kind][i]]]
    IN  [format |-> "pwcnf", top |-> formula.hard_weight, objective |-> <<>>,
         lines |-> lines("hard", LAMBDA i : formula.hard_weight)
                   \o lines("soft", LAMBDA i : formula.weight[i])]

\* The program is started again, on the file that has been written.
Reread ==
    /\ stage = "written" /\ ~AssertionFails(Written)
    /\ formula' = loadFormula(Parse(Written))
    /\ stage' = "reread"
    /\ CommunityRestart
    /\ mapping' = [var |-> <<>>, hard |-> <<>>, soft |-> <<>>]
    /\ nPartitions' = 0
    /\ true' = {}
    /\ UNCHANGED <<infile, graphType, file>>

AbortRereading ==
    /\ stage = "written" /\ AssertionFails(Written)
    /\ stage' = "rejected"
    /\ UNCHANGED <<communityVars, infile, formula, graphType, mapping, nPartitions,
                   true, file>>

Split ==
    \/ ReadFile \/ AbortReading
    \/ NothingToSplit \/ SplitRandom \/ SinglePartition \/ BuildGraph
    \/ CommunitySteps /\ UNCHANGED partitionVars
    \/ BuildPartitions
    \/ printPWCNFtoFile

Next == Split \/ Reread \/ AbortRereading

\* One thread, and nothing it waits for; nobody has to start the next process.
Spec == Init /\ [][Next]_vars /\ WF_vars(Split)
-----------------------------------------------------------------------------
\* Clauses that are linked by unassigned variables.
RECURSIVE Reached(_)
Reached(pieces) ==
    LET variables == UNION {{VarOf(lit) : lit \in ToSet(Lits(p))} : p \in pieces}
        more      == {p \in Pieces : \E v \in variables : Occurrences(p, v) # {}}
    IN  IF more = pieces THEN pieces ELSE Reached(more)

Label(piece) == file[piece[1]][piece[2]]

AllClauses == ({"hard"} \X DOMAIN formula.hard) \cup ({"soft"} \X DOMAIN formula.soft)

(***************************************************************************)
(* The file says what was found: its labels are "a positive integer from 1  *)
(* to n_part" (README.md, line 20), two clauses have the same label exactly *)
(* when they are in the same partition, resolved clauses in one of their    *)
(* own, and a graph never puts clauses together that no chain of variables  *)
(* links.                                                                   *)
(***************************************************************************)
FileKeepsPartitions ==
    stage = "written" =>
        /\ \A a \in AllClauses : Label(a) \in 1..file.n_part
        /\ \A a, b \in AllClauses :
              (Label(a) = Label(b)) <=> (mapping[a[1]][a[2]] = mapping[b[1]][b[2]])
        /\ phase = "found" =>
              \A a \in AllClauses, b \in Pieces :
                  Label(a) = Label(b) => a \in Reached({b})

(***************************************************************************)
(* What is split is the formula of the file (Formula).                      *)
(***************************************************************************)
ReadsTheFile == stage = "split" => MeansTheFile(formula, infile)

(***************************************************************************)
(* The process that solves the file has the formula that was split: the     *)
(* same clauses, hard and soft, the same weights and bound, but for the     *)
(* offset; and its labels index the table the searches make for             *)
(* n_partitions (createPartitions).  It aborts when, and only when, there   *)
(* are hard clauses and their weight in the file is 0 or above INT64_MAX,   *)
(* as that of a formula in OPB is.                                          *)
(***************************************************************************)
ReadBack ==
    LET given == loadFormula(Parse(infile))
        fits  == given.hard = <<>> \/ given.hard_weight \in 1..(UINT64_MAX \div 2)
    IN  /\ stage = "rejected" => ~fits
        /\ stage = "reread" =>
              /\ fits
              /\ \A part \in {"nVars", "hard", "soft", "weight", "hard_weight",
                               "problem_type", "max_soft_weight", "ubCost"} :
                    formula[part] = given[part]
              /\ formula.hardLabel = file.hard /\ formula.softLabel = file.soft
              /\ ToSet(file.hard) \cup ToSet(file.soft) \subseteq 1..formula.n_partitions

(***************************************************************************)
(* The passes end, whatever the order in which vertices are moved, and a    *)
(* file is written, unless the file given has weights that are none.        *)
(***************************************************************************)
Termination ==
    <>(stage \in {"written", "reread", "rejected"} \/ ~HasWeights(infile))
=============================================================================
