# UpMax in TLA+

UpMax is a MaxSAT solver: given hard clauses, which must hold, and weighted soft
clauses, it looks for an assignment that falsifies soft clauses of the least
total weight. It derives from Open-WBO. What it adds is that the user may
partition the soft clauses: the search solves the first partition, adds the
next, and so on, and may limit the effort spent on each partition but the last.
The modules here follow an input all the way: from the file that is read, through
automatic partitioning, each of the searches, and the encodings they use, down to
the SAT solver they call. TLC checks them, and TLAPS proves for every input what
the searches answer (MSU3, OLL and WBO, with partitions and without), what the
communities of a graph are, that the SAT solver answers what it should, and what the
process prints when it is interrupted. One proof, about the symmetry breaking of
WBO, could not be done, because the code gets a case wrong (finding 3).

## The system

### Parts and how they interact

| Part | Source | State it keeps |
|---|---|---|
| Process | `Main.cc` | `mxsolver`, set once the input is parsed; signal handlers |
| Parsers | `ParserMaxSAT.h`, `ParserPB.cc`, `ParserPartitions.h` | none: they fill the formula |
| Formula | `MaxSATFormula.cc`, `FormulaPB.h` | hard and soft clauses, cardinality and PB constraints, a partition label for each clause |
| Search base class | `MaxSAT.cc`, `MaxSAT.h` | `model`, `ubCost`, `lbCost`, `nbSatisfiable`, `nbCores` |
| Partition-based searches | `algorithms/Alg_Up*.cc` | what is relaxed, what is assumed, the partitions let in, the encodings built |
| Searches without partitions | `algorithms/Alg_{MSU3,OLL,WBO,WMSU3}.cc` | the same without partitions |
| Encodings | `Encoder.cc`, `encodings/` | literals and right-hand side of a constraint that later calls tighten or extend |
| Automatic partitioning | `MaxSAT_Partition.cc`, `graph/` | a graph of the formula and its communities |
| SAT solver | `solvers/glucose4.1/core/` (third party, the build's `VERSION = core`) | clauses, watchers, the trail, the model or the core of the last query |
| Python front end | `upPySAT/` | the same ideas on top of PySAT |

`main` parses the input into a `MaxSATFormula`, chooses a search (`-algorithm`)
and calls `search()`. The search orders the partitions (`createPartitions`),
builds a SAT solver and repeats one loop: query the solver under assumptions
that the soft clauses of the active partitions hold. A model may be saved and
ends the partition. A core, a set of assumptions that cannot all hold, raises
`lbCost`, and its soft clauses are relaxed: counted by an encoding or given
relaxation variables. On the last partition a model is an optimum. The program
is one thread. What interleaves with it are the signal handlers, which print an
answer and exit.

### What is hard in it

* The query depends on state built up by all earlier cores (what is relaxed,
  what the encoding counts, its right-hand side, what is assumed). A part that
  is out of step makes a wrong optimum, and only on some sequences of cores.
* The choice of core and model is the SAT solver's. A test sees one of very
  many sequences.
* A query may run out of its conflict budget, and then nothing is known.
* Boundaries: the last partition, the core of no soft clauses, the right-hand
  side equal to the number of literals, the next sum of weights.
* The weighted searches split soft clauses and duplicate totalizers, and must
  keep the sum of the weights over many cores.
* Automatic partitioning keeps sums up to date move by move, in random order,
  and carries indices through several levels of graphs and tables.
* A signal may arrive between any two steps, also in the middle of saving a
  model.
* Searches by strata of weights answer early when the bounds meet, with soft
  clauses the solver has never been given.
* A constraint is extended and tightened between queries: an output or a sum
  left out earlier is missed later.
* The SAT solver keeps learnt clauses, watchers and a trail across calls, and
  frees and moves clauses while assignments refer to them.

The hazards, each at its line and with the properties about it, are listed in
`PROJECT.json`.

### What makes each component correct

* A search: `lbCost` never passes the cost of an optimum; a saved model is a
  model of the problem and never worse than the one before; the status printed
  is true; it returns.
* The reformulating searches (WBO, OLL): the working formula has the cost of
  the input formula less `lbCost`, for every assignment.
* Enumeration: every optimal solution is found, and counted, once.
* Automatic partitioning: the modularity by which vertices are moved is that of
  the division they are in; the passes end, in any order of the vertices; the
  file has the partitions that were found, under labels its header allows.
* Encodings: at most `rhs` literals can be true, and exactly those choices of
  at most `rhs` are allowed, after any sequence of extensions.
* Reading: the formula allows and costs what the file says, with the labels of
  the file; a file written by `-upfile` is read back as what was written, where the
  weight of hard clauses is one the reader takes (an OPB formula with hard clauses
  has none such, see the disagreements).
* SAT solver: propagation misses no clause; reasons justify what they are kept
  for; what is learnt follows from the clauses; a model is a model and a core is
  one over the assumptions; work done is never done again.
* Process: what is printed is true whenever the process is interrupted, and an `o`
  line is backed by the model printed, but for two places named below.

## The modules

| Module | Models | Relation |
|---|---|---|
| `Formula` | the readers (CNF, WCNF, PWCNF, OPB), `MaxSATFormula`, `loadFormula` | extended by `Partitioning` |
| `SoftPartitions` | `createPartitions`: labels to an ordered list of partitions | extended by the partition-based searches |
| `MaxSATSearch` | what every search promises: the abstract specification | implemented by `UpMSU3`, `UpWMSU3`, `WMSU3`, `MSU3`, `UpWBO`, `WBO` |
| `UpMSU3` | `UpMSU3_iterative`, unweighted | refines `MaxSATSearch` |
| `UpWMSU3` | `UpWMSU3_iterative` with `subsetSum`, weighted | refines `MaxSATSearch` |
| `WMSU3` | `WMSU3_none`, what `-no-upmax` runs instead | extends `UpWMSU3` |
| `UpWBO` | `unsatSearch`, `normalSearch`, core relaxation, splitting, symmetry breaking | refines `MaxSATSearch` |
| `WBO` | the same without partitions, `weightSearch` by both weight strategies, the options, the limit on symmetry clauses | extends `UpWBO` |
| `UpOLL` | the unweighted and weighted OLL searches | |
| `OLL` | the same without partitions, by strata of weights, with early answers | extends `UpOLL` |
| `MSU3` | `MSU3_iterative` and `enumerate_opt` | refines `MaxSATSearch` |
| `Totalizer` | the incremental totalizer as `MSU3` and `OLL` searches build, join and update it | what `UpMSU3`, `MSU3` and `UpOLL` take for granted |
| `Encodings` | the clauses of the ladder, the modulo totalizer, the cardinality networks, the generalized totalizer, the weight counter and the adder, and what `update()` adds | extended by `HardConstraints` and `IncrementalSWC` |
| `HardConstraints` | a constraint line of an OPB file: parsed, classified, encoded by `rebuildSolver`, updated | from the line to the clauses |
| `IncrementalSWC` | the weight counter that grows between queries | |
| `Encoder` | class `Encoder`, in each of its three uses | composes `HardConstraints`, `Totalizer` and `IncrementalSWC` |
| `SatOracle` | what a query of the SAT solver promises: the abstract specification | implemented by `Glucose` |
| `Glucose` | class `Solver` of Glucose 4.1 through incremental calls | refines `SatOracle` |
| `Answers` | `saveModel`, `printBound`, `printAnswer` and the signal handler | over any search that keeps the promise |
| `Communities` | `Graph` and `Graph_Communities`: the unfolding method | extended by `Partitioning` |
| `Partitioning` | a file read, split (the graphs, the four ways to split), written with labels, and read by the process that solves it | produces the labels `SoftPartitions` starts from |
| `Sums` | the sum of a weight over a set | extended by `UpOLL` and `UpWBO` |
| `SetSums` | lemmas about finite sets and sums | extended by the proofs |
| `UpMSU3_proofs`, `MSU3_proofs` | theorems about the module they are named after; `UpMSU3_proofs` has those about `Communities` as well | extend these modules |
| `WMSU3_proofs`, `OLL_proofs`, `WBO_proofs` | theorems about the search without partitions and its copy with them | extend `WMSU3`, `OLL`, `WBO` |
| `Glucose_lemmas` | the invariant of the solver; propagation and analysis keep it | extends `Glucose` |
| `Glucose_proofs` | theorems about `Glucose`, and about `Answers` | extends `Glucose_lemmas` and `Answers` |
| `MC_*` | instances for TLC | extend the module they instantiate |

The searches without partitions came first in the history of the code, and the
partition-based ones are edited copies. `WMSU3`, `WBO` and `OLL` extend the
modules of the copies, take over the operators for the parts that are the same
(each mapped to its lines in both files) and add the parts that differ; `upmax`,
chosen in `Init` as `main` chooses by `-no-upmax`, says which of the two runs.

### The state and the code

The hard clauses appear only through what they let the soft clauses do. A model
of the SAT solver is abstracted to its *profile*, the set of soft clauses it
falsifies, and a problem is the set of profiles of the models of its hard
clauses. Any set of profiles is one of some formula, so choosing the problem
in `Init` from all sets of profiles covers every formula over that many soft
clauses. The cost of a model, whether it satisfies the assumptions and whether
it meets a cardinality constraint over soft clauses depend on the profile only.
(A relaxation variable may be true although its clause holds. For the encodings
of MSU3 and OLL, which are monotone, a model then exists with the variable
false as well; WBO's relaxation variables are modelled as such.)

A query of the SAT solver is, in the searches, the choice, by the action, of any
profile that satisfies the query (`Satisfiable(P)`), or, when there is none, of any set of
assumptions that is a core (`Core(K)`). Cores need not be minimal: neither are
Glucose's. `BudgetExhausted` is the third outcome where a budget is set. Each
iteration of a search loop, from query to query, is one action: nothing reads
the state in between but the signal handler, which is why `Answers` has an action
for each of the three statements that take a model, `saveModel`, `printBound` and
the assignment of `ubCost`. Their order differs, and `todo` holds those that are
left of it:

| Order | Where |
|---|---|
| `SaveFirst`: `saveModel`, `printBound`, `ubCost` | `MSU3` 91-94, 225-228; `UpMSU3` 115-117; `WMSU3` 77-79; `UpWMSU3` 88-90; `OLL` 128-137, 327-335; `UpOLL` 98-100, 319-321; `UpWBO` 988-990 |
| `BoundFirst`: `ubCost`, `saveModel`, `printBound` | `WBO` 822-824, 893-895, 903-905; `UpWBO` 819-821 |
| `SaveLast`: `ubCost`, `printBound`, `saveModel` | `WBO` 975-978 (`normalSearch`, of the model that is its answer) |

The totalizer of `UpMSU3`, `MSU3` and `UpOLL` is the set of literals it counts
and its right-hand side. That this is what the clauses amount to, after any
sequence of builds, joins and updates these searches can make, is the property
`AtMostBound` of `Totalizer`; `UpOLL` needs in addition that each output alone
means "more than so many", which is `OutputsCount`. A PB encoding of `UpWMSU3`
is the bound it states; it is the weight counter (`_PB_SWC_`, the default of the
constructor in `Alg_UpWMSU3.h` line 50, as in `WMSU3`: `Main.cc` reads `-pb` and hands
it on to no search), one of the encodings `EncodesLine` of `HardConstraints` is about.

In the modules of encodings clauses are data: a clause is a set of literals, a literal
a variable and a truth value, and a new variable is named after the node of the
encoding and its place there. `HardConstraints` gives every constraint a solver
of its own, because the encodings share no new variables, and asks of each
assignment of the input variables whether the clauses can still be satisfied.
`Totalizer` asks what unit propagation makes of the outputs: that is what an
assumption on an output meets. `IncrementalSWC` keeps the clauses given to the
solver, those of earlier right-hand sides included, and asks which assignments
they and the assumptions leave.

In `Glucose` the object `S` holds the fields of class `Solver`. A call of the
searches is served in steps: one literal propagated, one conflict analysed, one
decision. Activities, saved phases and the averages that trigger restarts and
reductions are heuristics, and the model leaves open what they decide. The LBD of a
clause met in an analysis may be improved; that only clauses up to a limit are then
kept from the next reduction (line 773) is left out. The
clause memory is a sequence and a reference its index, so that collection moves
clauses; a freed clause stays until then. `order_heap` is a set. A watcher list
is a sequence, because the walk over it rewrites it. What the build or the
constructor turns off is left out: selectors (`INCREMENTAL` is not defined),
minimisation with binary resolution (`incremental` is true), one-watched
clauses, certified output, the parallel solver's sharing.

A file of `Formula` is a header and a sequence of lines. The readers fold over
the lines as the code's loops do; `n_partitions` is set by the PWCNF reader only. `readClause` puts
the weight of a line, parsed as `uint64_t`, into an `int64_t` (`Int64`) and asserts that
it is positive; where it is not (`AssertionFails`) the process stops, `"aborted"` in
`Partitioning` on the file given and `"rejected"` on the file written. Assertions
are active in the default build (`mtl/template.mk` line 6).

`Partitioning` works on formulas with clauses, since the graphs are made of
them. What the SAT solver contributes is unit propagation of the hard clauses
(`true`). A graph is a matrix of weights. The code adds edges to lists and
merges duplicates; the order in these lists decides only which of several
equally good communities a vertex moves to, and the model leaves that open, as
it leaves open the random order of the vertices. The actions around it are those
of two processes: `ReadFile`, the splitting and `Written` belong to the one started
with `-upfile`, `Reread` and `AbortRereading` to the one started on its output. The action `Move` is one turn
of the loop over vertices, `SweepAgain` one of the loop around it, `NextLevel`
what follows `iterate()`.

`encoder` variables are kept even when they repeat `activeSoft` and `lbCost`,
because keeping them in step is the code's task. The variables keep the names
of the source, and so do the actions where there is a function to name.

Where a search hangs or aborts, the model says so: `UpWMSU3` has a variable
`stuck` for the loop of lines 174-177 that has no exit, `UpWBO` a `pc` of
`"aborted"` for the failing assertion of line 963, and `UpOLL`'s `EmptyCore` is
the assertion of line 617.

## The runs

| Run | What it shows | Instance and bounds |
|---|---|---|
| `UpMSU3` | lower bound; the encoding in step; true answers; the promise; termination | 3 soft clauses, every problem over them, every labelling with 2 labels and without; budget on |
| `UpWMSU3` | UpWMSU3 and WMSU3: the same with weights; stuck only when there is no model; an answer | 3 soft clauses of weights 2, 2, 5 (subset sums with gaps and a repeated sum), every problem, every labelling; arbitrary budget |
| `UpWBO` | UpWBO and WBO: cost preserved by relaxation, splitting and symmetry breaking while no logged soft clause is split; an optimum only when the bounds meet; the promise; an answer when there is a model | 3 soft clauses of weights 1, 2, 3, problems of at most two profiles; UpWBO under 4 labellings, WBO with the options: no strategy, strategy normal with a limit of one symmetry clause, strategy diversify |
| `UpWBO_unsat` | *violation*: the search goes on after UNSATISFIABLE | as `UpWBO` |
| `WBO_symmetry` | *violation*: the bounds have not met where the code asserts it | 6 soft clauses of weights 4, 4, 2, 2, 1, 1, a model that falsifies them all; eight given cores, in any order of their literals |
| `UpOLL` | UpOLL and OLL: cost preserved by raising, duplicating and splitting; true optimum; an optimum only when the bounds meet; an answer | 4 soft clauses of weights 1 or 2, 2, 2, 1 or 3, 3, 2, 2; seven sets of models chosen for duplication and raising |
| `MSU3` | every optimal solution found, and counted once; true answers; the promise; termination | 3 soft clauses, every set of profiles, one or two solutions for each |
| `Answers` | a process that ends has printed the truth | 3 assignments of which any may be feasible, 3 variables, the three orders in which a model is saved, printed and made `ubCost`, a signal at any step |
| `Answers_save` | *violation*: a truncated model is printed | as `Answers` |
| `Encoder` | the clauses of a line mean what the line says, before and after an update; the encoders stop only on lines that are always or never met; the totalizer's outputs count, and allow at most the bound, exactly; the growing weight counter allows what its right-hand side allows | cardinalities of up to 8 variables, PB lines of up to 4, right-hand sides from below the least sum to above the greatest, a variable twice; totalizers of up to 7 literals joined in any portions; weight counters of up to 4 literals and weight 3 |
| `Partitioning` | the formula means what the file says; modularity computed exactly; no two communities better off as one; the file keeps the partitions, and is read back or aborts the reader, each when it should; the process ends | 37 files: 20 WCNF over 3 variables with resolved and unresolved clauses, two of 5 and 4 variables, one CNF, WCNF without a top weight and with weights above it, PWCNF with labels, three OPB with an objective, with and without hard clauses, eight with weights or a top weight of 0, `INT64_MAX` and above; the three graphs and random splitting into 3; edge limit met by some |
| `Glucose` | no missed propagation; reasons justify; learnt clauses follow; answers are those of `SatOracle`; each step moves on | 7 scripts of incremental calls over up to 5 variables, with and without a budget; every decision, restart, reduction and collection |

Two parts of the program that do the same work share a run, chosen in `Init`.

Why the bounds are enough. Three soft clauses allow a totalizer that is built
late (core {1}, right-hand side equal to its size, then {2, 3}), one that is
joined to, three partitions with ties in size, a core without a soft clause
after everything is relaxed, and for WBO a soft clause in two cores with the
symmetry clauses that follow; weights 1, 2 and 3 make cores split clauses into parts
of weights no clause had, in three strata. A limit of one symmetry clause stops the
loop in the middle of a core. Four are needed for OLL to duplicate a totalizer
and raise the copy; of weights 3, 3, 2, 2 a totalizer is lighter than any soft
clause, which decides whether the last stratum is reached. Seven literals give the
totalizer halves of unequal size
two levels deep and three portions of which the last two are joined; a join
of a single literal and a join wider than the bound both occur. Eight variables
give the modulo totalizer the modulos 2 and 3, with and without a remainder, a
half that is smaller than the modulo, and a cut-off sum in the upper part. Four
literals let the weight counter be built of two, widened, joined by one kept apart,
and joined again. The graphs of `Partitioning` have up to nine vertices, two levels
and more, isolated vertices, and ties broken differently by different orders; among
the formulas are clauses resolved by propagation on both sides, and hard clauses
without a model. The scripts of `Glucose` are made for what each names: a conflict
over three levels, an assumption repeated or contradicted, binary reasons, a
conflict without a decision, two learnt clauses of which one is removed, learnt
literals of one level that imply each other or do not, and a conflict that cuts a
walk over watchers short.

Named bounds:

* `limit` is the value of `-limit`. Only whether it is -1 matters: any query
  with a budget may run out of it.
* `MaxCores` (`UpWBO`, `UpOLL`) stops counting cores on a problem without a
  model, where the code would go on. On problems with a model it is not
  reached: the cost of a model bounds the number of cores.
* `MaxSlack` (`UpWBO`): of the cores with more soft clauses than this only the
  minimal ones are taken.
* `MCCores` (`WBO_symmetry`) are the cores the SAT solver returns in that run, which
  shows one behaviour that may occur and bounds nothing else.
* `Options` (`WBO`): the command lines tried. `symmetryBreakingLimit` is 500000
  by default; 1 is where it bites on instances of this size.
* `MaxLits` (`Totalizer`) is the number of literals counted in the end;
  `MaxItems`, `MaxWeight` and `MaxBound` (`IncrementalSWC`) are the literals,
  weights and right-hand sides given to the weight counter; `MaxUpdate`
  (`HardConstraints`) is how far an update lowers the right-hand side.
* `UINT64_MAX` (`Formula`) is 15, and `INT64_MAX` with it 7: as in the code, the one
  is the top weight of a file without one and the other half of it. The weights of
  the files are 0 to 8, so that sums of soft weights stay below 15.
* `MaxVars` and `Scripts` (`Glucose`) are the calls made. `AdaptAfter` is 100000
  conflicts in the code; 0, 1 and 3 put the adaptation before, between and after
  the few conflicts of an instance. `MaxRestarts` is 1: the code bounds
  neither restarts nor, with a strategy, their distance.
* `W32` and `W64` (`Encodings`) stand for 2^32 and 2^64. They are 32 and 1024
  in the runs, so that an `int` overflows and a negative number read as
  `uint64_t` is cut to `unsigned` within reach of TLC; nothing but their order
  matters.
* `EdgeLimit` is `_EDGE_LIMIT_`, 50000000 in the code and 8 in the run;
  `nRandomPartitions` is 16 in the code and 3 in the run.
* `Common` scales the weights of edges to integers: clauses have at most three
  literals. The modularity is scaled by the square of the total weight, and the
  precision of 0.000001 with it. Comparisons are thus exact. The rounding of
  `double`, which could make a gain of zero look positive, is not modelled.
* Weights, `lbCost` and `ubCost` are natural numbers. They wrap around in
  the code only for sums of weights beyond 64 bits, and in OLL on hard clauses
  that are unsatisfiable, a case the model stops at.

`CHECK_DEADLOCK FALSE` is set where a search returns or a process exits. `Glucose` is
checked for deadlock: between calls it waits (`Done` when the script is over), and in
a call there is always a next step.

### Fairness

`WF_vars(Next)`: the search is one thread, it is never blocked, and every call
of the SAT solver comes back (with a budget or without). Nothing more is
assumed: which model, which core, and whether a budget runs out are left to the
solver. `Answers` has no fairness: the signal may come at any time or never,
and its properties are about what has been printed. In `Partitioning` only the
splitting is fair (`WF_vars(Split)`): it is one thread that waits for nothing, but
nobody has to start the process that reads the result. `Glucose` states no fairness.
That a query ends is shown by `TrailAdvances`, an action property: between
restarts, every conflict leaves a trail that is greater in the lexicographic order
of its levels, which has finitely many values; with no deadlock, the query goes on
until it answers.

## What is proved

TLAPS checks the theorems for every finite set of soft clauses, labelling, set of
models and, where they occur, weights, budget and options. The bounds that TLC
needs on cores (`MaxCores`, `MaxSlack`) are constants like any other there: what
a search may do in finitely many steps, it may do for bounds that are large enough.

That a saved model is optimal, that the bounds have met, and that costs are kept is
not inductive as it stands. The invariant each needs is in the `*_proofs` module; a
lemma shows that `Init` establishes it, and one lemma for each action that the
action keeps it. TLC checked it on the instance of the run before it was proved.

| Module | About | Theorems |
|---|---|---|
| `SetSums` | finite sets and their sums | lemmas the others cite |
| `UpMSU3_proofs` | `UpMSU3` | `LowerBoundHolds`, `QueriesCurrent`, `AnswersCorrectly`, `Implementation` |
| | `Communities` | `ExactModularity`, `FoundAreApart` |
| `WMSU3_proofs` | `UpWMSU3`; `UpWMSU3` and `WMSU3` (`Either...`) | lower bound, `NotStuck`, true optimum, implementation, for each |
| `MSU3_proofs` | `MSU3` | `AnswersCorrectly`, `FindsAllOptima`, `Implementation` |
| `OLL_proofs` | `UpOLL` and `OLL` | `CostsPreserved`, `OptimumFound`, `BoundsMeetAtTheEnd` |
| `WBO_proofs` | `UpWBO` and `WBO` | `CostsPreserved`, `BoundsHaveMet`, `SearchesImplement` |
| `Glucose_lemmas` | `Glucose` | the invariant and lemmas on every operation up to the clause learnt |
| `Glucose_proofs` | `Glucose` | `Invariance`, `NoMissedPropagationHolds`, `ReasonsJustifyHolds`, `HoldsTheFormulaHolds`, `Implements`, `TrailAdvancesHolds` |
| | `Answers` | `KeepsItsBound`, `SaysTheTruth` |

The assumptions are the ASSUMEs of the modules: soft clauses are finite in
number (and in the partition-based searches there is one at least), numbered from
1 where the code indexes by them, weights are positive, a problem is a set of
sets of soft clauses, `limit` is an integer. `UpWMSU3` states weights as a
function `cost` on sets of soft clauses, assumed additive and positive on a
single soft clause; `Answers` assumes that there is a variable, that the cost of
an assignment is at most `sumWeights`, and that `None` is neither an assignment nor
what a line prints of one. `Glucose` assumes that a script of calls names only
variables that calls before have created (`ScriptsAssumption`): `value` and `watches`
index vectors by them. Scripts are of any length, clauses of any size, with literals
repeated or opposite, and there may be any number of variables.

### MSU3: counting what is relaxed

The theorem that matters is `AnswersCorrectly`: an optimum is claimed only
with a model that no other beats. The argument for `UpMSU3` is:

1. The partitions are numbered without gaps, so when the last has been let in
   every soft clause has (`PositionRange`).
2. Every soft clause let in is assumed or relaxed (`AssumedOrRelaxed`), so on
   the last partition a model of the query falsifies relaxed clauses only.
3. The encoding is in step with the relaxed clauses and the bound
   (`EncodingInStep`), so this model falsifies at most `lbCost` of them.
4. Every model falsifies at least `lbCost` of the relaxed clauses
   (`LowerBound`): the core refuted all models that falsify at most the old
   bound and none of the core, and a model that meets the core has one more in
   the clauses relaxed now (`CoreRaisesBound`).
5. The saved model is a model of the problem and `ubCost` its cost
   (`ModelSaved`), so the comparison in the code keeps the better one.

`IInv` is the conjunction of these with the type invariant and with the relation
between `current_partition` and the clauses let in (`Entered`). In `UpWMSU3` step 4
uses subset sums: what a model costs on the relaxed clauses is one of their sums
and exceeds the refuted bound, so it is at least the next sum
(`CoreExceedsBound`). The same fact proves `NotStuck`: where no next sum exists,
no model exists. `WMSU3` has steps 1 and 2 replaced by `AllAssumed`: after the
first model exactly the soft clauses that are not relaxed are assumed. Its invariant
holds until it answers `UNSATISFIABLE`, and there is no model then (`EitherInv`).

`MSU3` adds the enumeration. `Phases` relates where the process is to its answer,
and `FoundAndBlocked` says that what was found is optimal, that each blocking clause
belongs to a solution found, and that only the last one found is not yet blocked. With `QueryOptimal`, which says that the query the
search leaves behind is passed by the optimal solutions exactly, a failed query
means that every optimal solution has been found, and a solution that passes is one
that was not found before.

### OLL: what is left to pay

`CostPreserved` says that what a model costs is `lbCost`, the weights of the soft
clauses it falsifies that are not relaxed, and what the outputs assumed of
totalizers cost it. It is kept by all three things done to a core: a split leaves
the two parts together with the weight and the clause of the whole; a totalizer that is
duplicated shares its weight with its copy; and what a model still pays for a
totalizer drops by the weight of its first assumed output when that is raised. A core
relaxed pays exactly its weight less, for each model, because every model makes at
least one literal of the core true (`CoreRelaxed`). This needs that totalizers count
only literals made before them (`TotalizersOK`), so that their outputs are
determined one after another, and that of each totalizer at most one output is
assumed, with a weight (`AssumedOK`).

A model that satisfies all assumptions pays nothing that is assumed, and when
everything open is assumed it costs `lbCost` (`NothingLeft`). That everything is,
follows in `UpOLL` from the last partition being in (`Entered`), and in `OLL`
from the last stratum. The early stop, when the bounds meet, rests on
`CostPreserved` alone: no model costs less than `lbCost`.

### WBO: choices of relaxation variables

Each core constrains exactly one of its relaxation variables to be true, so a model
goes with a *choice*, one soft clause of each core. What a choice leaves to pay
(`Left`) drops with a new core by the weight of the core at most, and by that
weight exactly when the choice for the core is a soft clause that the choices before
left falsified (`LeftNext`). So no choice makes a model look too cheap (`Paid`), and
since every model falsifies a soft clause of the core, some choice is exact
(`PaidFor`).

Symmetry breaking forbids choices. `Unbroken` says that for each choice there is one
that relaxes the same soft clauses and breaks no symmetry clause. Two soft clauses
that were in two cores together may swap their choices (`ChoicesExchanged`), and of all
choices that relax the same, the one whose last choice comes first in the order
of the new core breaks none of its clauses (`UnbrokenNext`). The lemmas hold for
every order, and for every limit on symmetry clauses: fewer are broken still.

The swap needs that a relaxation variable relaxes the one soft clause it is
logged for. `relaxCore` does not keep to that, and without it the proof cannot be
done: the missing case is finding 3 below. The properties and theorems therefore speak
of searches in which no logged soft clause has been split (`~LoggedSplit`). `Paid` does
not need it, but `PaidFor` and all that follows does.

### What a process prints

`Taking` says which statements may be left at each stage, `WholeModel` where in
`saveModel` the saved model is incomplete, `BoundAnnounced` that no `o` line announces
less than the model being taken costs, and none less than the saved model but where
`SaveLast` is about to save, and `Printed` what has been printed at each place where
a process may be. Together they are inductive, with `BoundKept` and `StatusTrue`,
whichever two steps the signal arrives between and in all three orders. The two
exceptions of `BoundKept` are in the theorem as well: there the code does print a
model that the last `o` line does not fit.

### Communities of a graph

`iterate()` never computes the modularity of a division: it keeps `inside` and
`total` up to date as vertices move, and `nextIterationGraph` makes a new graph of
the communities and starts again. Three invariants show what the numbers stand for:

1. `GraphsKept`: the working graph is the original one with the vertices of
   each community made one, and the edges between them added up (`Folded`). What
   the edges from one set of its vertices to another weigh is therefore what the
   edges between the original vertices weigh (`SeenFromBelow`).
2. `CountsKept`: `inside[c]` and `total[c]` are sums over the edges of the
   working graph, within community `c` and out of it. A move takes the vertex
   out of one pair and adds it to another.
3. `NothingMoved`: while the sweeps of a level have moved nothing, each vertex
   is its own community and those already looked at are *settled*: none of them gains by
   entering the community of another. A level that ends like this is the last.

`ExactModularity` follows from the first two, `FoundAreApart` from all three. Both
hold of `CommunitySpec`: any undirected graph with natural weights, any order in
which the vertices are looked at (a permutation, written as a bijection because
the prover cannot expand `Permutations`), any choice among communities that gain
the same. That the graphs the program builds are undirected (`Undirected`) is part of
`ModularityExact`, which run `Partitioning` checks of the graphs of all its files.

### The SAT solver

The solver keeps everything between calls but the decisions, so what one call leaves
behind is what the next relies on. `IInv` (in `Glucose_lemmas`) says of the solver, at
each place where it may stand:

1. `Consistent`: the trail has a variable once and is cut into levels by
   `trail_lim` (`TrailOK`); above level 0 the first literal of a level, and no
   other, has no reason (`DecisionsFirst`); a reason is a clause the solver still
   has, with the literal it implies in front and the others false before it
   (`ReasonsOK`); unassigned variables are in the heap (`HeapOK`).
2. `WatchersOK`, `WatchedOK`: watchers are those of the two literals in front of a
   clause, once each, and every clause has them. `propagate` breaks this in the middle
   of a list it is rewriting, and `WatchedBut` says how.
3. `Quiet`: for each literal propagated (`qhead`) every watcher left in its lists
   has a *blocker*: another literal of the clause, true on no later level. This is why
   nothing has to be visited again after backtracking: if the literal stays
   assigned, the blocker does. When the walk stops at a conflict, it holds below the
   present level only.
4. `Meaning`: clauses, learnt ones included, and the literals of level 0 have the
   models of the formula (`Sound`), for which the clauses of the caller suffice
   (`Complete`): any learnt clause may be removed. A solver that is not ok has been
   given a formula without a model.
5. `Assumed`: level k is that of the k-th assumption, which is true on it. Several
   assumptions may share a literal, and then a level is empty.
6. `CallsLeft`, `Queue`, `Named`: what is being served, and where the queue has to be empty.

None of these holds alone. `NoMissedPropagation` follows from 2 and 3 with
`qhead` at the end of the trail. That analysis finds reasons where it looks
needs 1, and 1 needs `locked`, which keeps a reason from removal, and the
renaming of `relocAll`, which follows the order of references (`Rank`). That the clause learnt
follows from the formula is shown along the resolution (each step keeps a clause that is implied
and false), and that it implies its first literal after backtracking, from the
levels counted on the way (`pathC` reaches 1 at one literal of the present level). For
minimisation it is enough that each literal left out is implied, through reasons and in
the order of the trail, by those that stay.

`Implements` is `StepsRefine` for each step: a call begun is the query of
`SatOracle`, `ModelFound` has all variables assigned (`HeapOK`) and all clauses true
(2 and 3), hence a model (4) that meets the assumptions (5); and what
`analyzeFinal` collects is a core, because the decisions below are all assumptions (5).

`TrailAdvances` compares the literals of each level before and after a step. Only
`analyze` takes literals from the trail within a search, and the level it goes back to
has one literal more.

### Refinement

`Implementation`, `EitherImplementation` and `SearchesImplement` prove that `UpMSU3`,
`UpWMSU3`, `WMSU3`, `MSU3`, `UpWBO` and `WBO` refine `MaxSATSearch`. The mapping is
the identity on `lbCost`, `ubCost`, `answer` and `model` (of which `MSU3` shows the
profile); what differs is the cost, which is a count, a function, or a sum of weights.
Each step saves a model, raises the bound, answers, or changes nothing visible. For
`UpWBO` and `WBO` this holds of the steps on problems that have a model, as long as no
logged soft clause is split.

### Model-checked only

* Liveness (`Termination`, `AnswersWhenSatisfiable`, `Answered` of `UpWMSU3`): not in
  reach of the prover, nor is ENABLED.
* The encodings, the totalizer's clauses and what propagation makes of them (`Encoder`,
  `HardConstraints`, `Totalizer`, `IncrementalSWC`): recursive over the tree they build,
  written with RECURSIVE operators. What the searches take for granted of the
  totalizer is thus model-checked (`OutputsCount`, `AtMostBound`) and not proved.
* The readers and writers (`Formula`, `Partitioning`): folds over lines, whose
  results call for induction over data.
* That a call of `Glucose` returns: `TrailAdvancesHolds` proves each step of the
  argument, but that a lexicographic order of bounded numbers has no infinite ascent is
  an induction, and the return itself is liveness.
* That the searches need no more than `SatOracle` promises: the two ends are not
  composed in one module, because a search abstracts models to profiles.

## Disagreements between the code and its texts

Three runs expect a violation; the findings quote the texts.

1. `normalSearch` ignores the status of `unsatSearch` (`Alg_UpWBO.cc` line 944;
   run `UpWBO_unsat`).
2. A signal during `saveModel` prints a model that is cut short (run `Answers_save`).
3. Symmetry breaking goes on after a soft clause that it has logged is split (run
   `WBO_symmetry`). `relaxCore` (`Alg_WBO.cc` line 539) gives the part a copy of the
   relaxation variables, while the rest keeps its place in the log. The variable then
   relaxes two soft clauses, of which the log knows one, and two soft clauses
   logged for the same cores may not be swapped any more. In the run, soft clauses 1
   and 2 are relaxed together and then split by other cores. Two more cores with both
   of them follow, and the symmetry clauses order 1 before 2 in one and
   2 before 1 in the other, so that together they forbid every choice that
   pays for all cores. The search ends with `lbCost` 16 and a saved model of
   cost 14, where line 976 asserts that they are equal. Here the model saved is the
   only one, so the optimum is right, but the bound is not. The run needs cores that are not
   minimal. `Alg_UpWBO.cc` has the same code (lines 536 and 649).

Three more are part of properties that hold.

`SolutionsCounted` (`MSU3`) says what the code
prints as `c Optimal Solutions:`: the number of solutions found if a signal ends the
enumeration, and one more than that if it ends by itself, because the last query is
counted before its result is known (`MaxSAT.cc` line 702).

`BoundKept` (`Answers`) excepts, besides the middle of `saveModel`, a signal between
the `o` line and `saveModel` of `WBO::normalSearch` (`Alg_WBO.cc` lines 977 and 978;
`-algorithm 0 -no-upmax` without strata). The bound printed is the optimum then, and
the model printed, which `unsatSearch` saved, may cost more: it is not the "best
satisfying model" of `MaxSAT.cc` line 360. No other order has such a place. Without
the exception TLC finds the signal in a few steps.

`ReadBack` (`Partitioning`) says when a file written by `-upfile` is read back: when it
has no hard clauses, or their weight is positive within `int64_t`. A formula read from OPB keeps
`UINT64_MAX` for it (`MaxSATFormula.h`), `printPWCNFtoFile` writes 18446744073709551615
on each hard line (`MaxSAT_Partition.h` line 153), and the process that reads the
file has -1 for the weight and fails at `assert(weight > 0)` (`ParserMaxSAT.h` lines 67
to 71). Without hard clauses the number stands in the header only, which is read as
`uint64_t`. A build with `NDEBUG` would turn -1 back into the weight written, and read
the file.

`EncodesLine` asks about constraints in the range the encoders handle
(`InRange`). What lies outside is modelled all the same, and named here so that
nobody takes the property for more than it says: a PB constraint with a
negative right-hand side, which `Enc_GTE.cc` reads as a very large unsigned
number (its line 173 stops at -1 only, so `-2 x1 <= -8`, which no assignment
meets, is encoded as if all did) or one of 2^32 and more (cut by the cast in
line 204), coefficients whose sum does not fit an `int` (`FormulaPB.h` line
111), and at most one of a single literal, which the ladder makes true
(`Enc_Ladder.cc` line 61; the line `+1 x1 <= 1;` gets there). The adder looks only at those bits of a coefficient that the right-hand side has
(`Enc_Adder.cc` line 273), so that a coefficient above it may count for nothing, and
takes the logarithm of a right-hand side of 0, which is undefined (line 334).
`Encoder::hasPBEncoding` says no for an adder that has been built (`Encoder.cc`
line 373); `HardConstraints` has that in `CreatedEncoding`.

Void and infeasible cardinalities meet the assertion of `Enc_MTotalizer.cc`
line 70, and the model stops at it (`"aborted"`), as it does at the exit of the
generalized totalizer (`"overflow"`). With `NDEBUG` the code would go on past
the end of its vectors. `StopsOnlyWhenConstant` shows that no other line stops.

## Not modelled

* `UpWBO::weightSearch` (the constructor fixes the weight strategy to none; `WBO`
  has the search), the non-incremental variants of `MSU3`: no option reaches them.
* `predict` of the generalized totalizer, `add` and the other incremental strategies
  of the totalizer, the adder's incremental calls, `Encoder::addCardinality`: nothing
  calls them. (Nothing calls `incEncodePB` either, but `Encoder` offers it as its way
  to count weights incrementally.)
* PB constraints in `UpWMSU3`, whose `rebuildSolver` adds none (line 225): on such an
  input it solves another problem.
* `splitPWCNF` (`-wcnf`), which indexes a table of `n_part` entries with
  labels from 1 to `n_part`; the sparsity, and the graph traversals of
  `Graph_Algorithms.cc`, which nothing calls. Tautological clauses in the graph
  of resolvents, whose edge weight may be 1.0/0.
* What `-upfile` makes of an OPB file with constraints that are no clauses:
  `printPWCNFtoFile` writes clauses only, and the others are lost.
* `off_set` in the bounds printed: only OLL adds it to the `o` lines
  (`Alg_OLL.cc` line 132), so that on a PB objective with negative coefficients
  the searches print bounds that differ by a constant. `Answers` has bounds without it.
* Characters, options, statistics, JSON output, the Python front end.
* SAT preprocessing and parallel solving (`simp/`, `parallel/`), not in the build;
  of `Solver.cc` what is named above.
* Inputs without soft clauses, for which the searches read
  `soft_partitions[0]` of an empty vector, and plain WCNF given to a
  partition-based search, for which `n_partitions` is never set
  (`MaxSATFormula.h` line 231). A signal before the search exists calls
  `printAnswer` through a null pointer; `Answers` has the crash, and no property.

## Plan

In order of importance:

1. A module that composes a search with `SatOracle`, now that both ends are proved: a
   search over models instead of profiles.
2. The clauses of the totalizer, written with functions instead of RECURSIVE operators.
3. `splitPWCNF`, should its table be made long enough.
