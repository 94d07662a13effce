------------------------------- MODULE Glucose -------------------------------
(***************************************************************************)
(* The SAT solver UpMax is built with (Glucose 4.1, class Solver): clauses *)
(* with two watched literals, propagation, analysis of conflicts, learnt   *)
(* clauses and their removal, restarts, assumptions and incremental calls. *)
(*                                                                         *)
(* The searches make calls one after the other; the solver keeps its       *)
(* clauses, its trail at level 0 and its watcher lists between them.  What *)
(* depends on activities, saved phases and counters of conflicts - which   *)
(* variable is branched on and with which sign, when to restart, when to   *)
(* reduce the clauses, when memory is collected - is left open.            *)
(***************************************************************************)
EXTENDS Integers, Sequences, FiniteSets, SequencesExt

CONSTANTS
    MaxVars,        \* bound: the variables the calls create
    Scripts,        \* the sequences of calls the searches may make
    AdaptAfter,     \* the conflicts after which strategies are adapted (100000)
    MaxRestarts     \* bound: restarts in one call

Lits == (-MaxVars .. MaxVars) \ {0}
Neg(l) == -l
Var(l) == IF l < 0 THEN -l ELSE l
CRef_Undef == 0

Calls ==
    [op : {"newVar"}]
    \cup [op : {"addClause"}, lits : Seq(Lits)]
    \cup [op : {"solve"}, lits : Seq(Lits), budget : BOOLEAN]

\* How many variables the first n calls create.
Created(script, n) == Cardinality({i \in 1..n : script[i].op = "newVar"})

ASSUME BoundsAssumption == MaxVars \in Nat /\ AdaptAfter \subseteq Nat

\* A call names variables that calls before it have created.
WellFormed(script) ==
    /\ script \in Seq(Calls)
    /\ Created(script, Len(script)) <= MaxVars
    /\ \A i \in DOMAIN script : script[i].op # "newVar" =>
           \A l \in ToSet(script[i].lits) : Var(l) <= Created(script, i)

ASSUME ScriptsAssumption == \A script \in Scripts : WellFormed(script)

VARIABLES
    S,          \* the Solver object
    calls,      \* the calls still to return, the one being served first
    pc,         \* where the solver stands
    confl,      \* the conflicting clause propagate returned, or CRef_Undef
    fresh,      \* "restart", "reduce": a conflict occurred since the last one
    adaptIn,    \* conflicts left until adaptSolver; 0 when it is over
    restarts,   \* restarts made by this call
    formula,    \* every clause the caller has added, as a set of literals
    answer      \* what the last call of solveLimited returned

vars == <<S, calls, pc, confl, fresh, adaptIn, restarts, formula, answer>>

(***************************************************************************)
(* Fields of S: ok; nVars; ca, the clause memory, a clause being           *)
(*   lits, list ("clauses", "learnts", "permanentLearnts" or "freed"),     *)
(*   learnt, lbd, canBeDel;                                                *)
(* watches and watchesBin, the watchers [cref, blocker] visited when a     *)
(* literal becomes true; trail, with the vardata of each literal, and      *)
(* trail_lim; qhead; order_heap; simpDB_assigns; coLBDBound, 0 unless      *)
(* chanseokStrategy is on.                                                 *)
(***************************************************************************)
Oracle == INSTANCE SatOracle WITH
    nVars <- S.nVars,
    query <- IF pc \in {"idle", "adding"}
             THEN [assumptions |-> {}, budget |-> FALSE, asked |-> FALSE]
             ELSE [assumptions |-> ToSet(Head(calls).lits),
                   budget |-> Head(calls).budget, asked |-> TRUE]

\* The k-th of a set of numbers, and what a sequence has at some of its places.
Rank(T, i) == Cardinality({j \in T : j <= i})
Nth(T, k) == CHOOSE i \in T : Rank(T, i) = k
At(seq, T) == [k \in 1 .. Cardinality(T) |-> seq[Nth(T, k)]]
Where(seq, Test(_)) == At(seq, {i \in DOMAIN seq : Test(seq[i])})

Swap(c, a, b) == [c EXCEPT ![a] = c[b], ![b] = c[a]]

(***************************************************************************)
(* Values, levels and reasons                                              *)
(***************************************************************************)
IsTrue(s, l) == \E i \in DOMAIN s.trail : s.trail[i].lit = l
IsFalse(s, l) == IsTrue(s, Neg(l))
IsUndef(s, l) == ~IsTrue(s, l) /\ ~IsFalse(s, l)

Position(s, l) == CHOOSE i \in DOMAIN s.trail : Var(s.trail[i].lit) = Var(l)
LevelOf(s, l) == s.trail[Position(s, l)].level

DecisionLevel(s) == Len(s.trail_lim)

ListOf(s, name) == {cr \in DOMAIN s.ca : s.ca[cr].list = name}

uncheckedEnqueue(s, l, from) ==
    [s EXCEPT !.trail =
        Append(@, [lit |-> l, level |-> DecisionLevel(s), reason |-> from])]

newDecisionLevel(s) == [s EXCEPT !.trail_lim = Append(@, Len(s.trail))]

cancelUntil(s, level) ==
    IF DecisionLevel(s) <= level THEN s
    ELSE LET n == s.trail_lim[level + 1]
         IN  [s EXCEPT !.trail = SubSeq(@, 1, n),
                       !.trail_lim = SubSeq(@, 1, level),
                       !.qhead = n,
                       !.order_heap =
                           @ \cup {Var(s.trail[i].lit) : i \in n + 1 .. Len(s.trail)}]

(***************************************************************************)
(* Clauses                                                                 *)
(***************************************************************************)
Watcher(cr, l) == [cref |-> cr, blocker |-> l]

attachClause(s, cr) ==
    LET c == s.ca[cr].lits
    IN  IF Len(c) = 2
        THEN [s EXCEPT !.watchesBin[Neg(c[1])] = Append(@, Watcher(cr, c[2])),
                       !.watchesBin[Neg(c[2])] = Append(@, Watcher(cr, c[1]))]
        ELSE [s EXCEPT !.watches[Neg(c[1])] = Append(@, Watcher(cr, c[2])),
                       !.watches[Neg(c[2])] = Append(@, Watcher(cr, c[1]))]

\* The lists are cleaned before they are read again (smudge, cleanAll).
detachClause(s, cr) ==
    LET c == s.ca[cr].lits
        Without(ws) == Where(ws, LAMBDA w : w.cref # cr)
    IN  IF Len(c) = 2
        THEN [s EXCEPT !.watchesBin[Neg(c[1])] = Without(@),
                       !.watchesBin[Neg(c[2])] = Without(@)]
        ELSE [s EXCEPT !.watches[Neg(c[1])] = Without(@),
                       !.watches[Neg(c[2])] = Without(@)]

NewClause(s, lits, list, lbd) ==
    attachClause([s EXCEPT !.ca = Append(@,
        [lits |-> lits, list |-> list, learnt |-> list = "learnts",
         lbd |-> lbd, canBeDel |-> TRUE])], Len(s.ca) + 1)

\* Mutant: the reason of the second literal is looked at.
lockedSecond(s, cr) ==
    \E i \in DOMAIN s.trail :
        s.trail[i].lit = s.ca[cr].lits[2] /\ s.trail[i].reason = cr

locked(s, cr) ==
    LET c == s.ca[cr].lits
        Implies(l) == \E i \in DOMAIN s.trail :
                          s.trail[i].lit = l /\ s.trail[i].reason = cr
    IN  Implies(c[1]) \/ (Len(c) = 2 /\ Implies(c[2]))

\* The reason that is cleared is that of the first literal, whichever of a
\* binary clause's two literals it implies.
removeClause(s, cr) ==
    LET first == s.ca[cr].lits[1]
        clear == locked(s, cr)
    IN  [detachClause(s, cr) EXCEPT
            !.ca[cr].list = "freed",
            !.trail = [i \in DOMAIN s.trail |->
                          IF clear /\ Var(s.trail[i].lit) = Var(first)
                          THEN [s.trail[i] EXCEPT !.reason = CRef_Undef]
                          ELSE s.trail[i]]]

RemoveEach(s, crs, refs) ==
    FoldLeft(LAMBDA t, cr : IF cr \in crs THEN removeClause(t, cr) ELSE t, s, refs)

RemoveAll(s, crs) == RemoveEach(s, crs, [cr \in DOMAIN s.ca |-> cr])

removeSatisfied(s, list) ==
    RemoveAll(s, {cr \in ListOf(s, list) :
                     \E l \in ToSet(s.ca[cr].lits) : IsTrue(s, l)})

(***************************************************************************)
(* garbageCollect: what is watched, listed or a locked reason moves to the *)
(* front of a new memory, and every reference to it follows.               *)
(***************************************************************************)
Moved(s) ==
    {cr \in DOMAIN s.ca : s.ca[cr].list # "freed" \/ locked(s, cr)}

garbageCollect(s) ==
    LET moved == Moved(s)
        New(cr) == IF cr \in moved THEN Rank(moved, cr) ELSE cr
        Move(ws) == [i \in DOMAIN ws |-> Watcher(New(ws[i].cref), ws[i].blocker)]
        Copied(c) == IF c.learnt THEN c ELSE [c EXCEPT !.lbd = 0, !.canBeDel = TRUE]
    IN  [s EXCEPT
            !.ca = [i \in 1..Cardinality(moved) |->
                       Copied(s.ca[Nth(moved, i)])],
            !.watches = [l \in Lits |-> Move(s.watches[l])],
            !.watchesBin = [l \in Lits |-> Move(s.watchesBin[l])],
            !.trail = [i \in DOMAIN s.trail |->
                          [s.trail[i] EXCEPT !.reason = New(@)]]]

\* checkGarbage: whether enough memory is wasted is left open.
Collected(s) == IF Moved(s) = DOMAIN s.ca THEN {s} ELSE {s, garbageCollect(s)}

(***************************************************************************)
(* propagate: one literal of the queue, the binary clauses first.  Both    *)
(* return the state and the conflicting clause, or CRef_Undef.             *)
(***************************************************************************)
PropagateBinary(r, w) ==
    IF r.confl # CRef_Undef \/ IsTrue(r.s, w.blocker) THEN r
    ELSE IF IsFalse(r.s, w.blocker) THEN [r EXCEPT !.confl = w.cref]
    ELSE [r EXCEPT !.s = uncheckedEnqueue(@, w.blocker, w.cref)]

\* The false literal goes to the second place.
FalseSecond(c, false_lit) == IF c[1] = false_lit THEN Swap(c, 1, 2) ELSE c

\* Visits one watcher of p: r.s.watches[p] holds the watchers kept so far.
KeepWatcher(s, p, w) == [s EXCEPT !.watches[p] = Append(@, w)]

VisitWatcher(p, r, w) ==
    LET c == FalseSecond(r.s.ca[w.cref].lits, Neg(p))
        first == c[1]
        swapped == [r.s EXCEPT !.ca[w.cref].lits = c]
        kept == KeepWatcher(swapped, p, Watcher(w.cref, first))
        new == SelectInSubSeq(c, 3, Len(c), LAMBDA l : ~IsFalse(r.s, l))
    IN  IF IsTrue(r.s, w.blocker) THEN [r EXCEPT !.s = KeepWatcher(@, p, w)]
        ELSE IF IsTrue(r.s, first) THEN [r EXCEPT !.s = kept]
        ELSE IF new # 0 THEN
            [r EXCEPT !.s =
                [swapped EXCEPT
                    !.ca[w.cref].lits = Swap(c, 2, new),
                    !.watches[Neg(c[new])] = Append(@, Watcher(w.cref, first))]]
        ELSE IF IsFalse(r.s, first) THEN
            [s |-> [kept EXCEPT !.qhead = Len(r.s.trail)], confl |-> w.cref]
        ELSE [r EXCEPT !.s = uncheckedEnqueue(kept, first, w.cref)]

\* Mutant: after a conflict the watchers left are not kept.
PropagateWatcherLast(p, r, w) ==
    IF r.confl # CRef_Undef THEN r ELSE VisitWatcher(p, r, w)

PropagateWatcher(p, r, w) ==
    IF r.confl # CRef_Undef THEN [r EXCEPT !.s = KeepWatcher(@, p, w)]
    ELSE VisitWatcher(p, r, w)

PropagateWatchers(p, base, ws) ==
    FoldLeft(LAMBDA r, w : PropagateWatcher(p, r, w), base, ws)

PropagateLit(s) ==
    LET p == s.trail[s.qhead + 1].lit
        binary == FoldLeft(PropagateBinary,
                           [s |-> [s EXCEPT !.qhead = @ + 1], confl |-> CRef_Undef],
                           s.watchesBin[p])
    IN  IF binary.confl # CRef_Undef THEN binary
        ELSE PropagateWatchers(p, [binary EXCEPT !.s.watches[p] = <<>>], s.watches[p])

(***************************************************************************)
(* analyze: resolution back to the first unique implication point          *)
(***************************************************************************)
computeLBD(s, lits) == Cardinality({LevelOf(s, l) : l \in ToSet(lits)})

\* A learnt clause that now spans fewer levels is protected for a round, and
\* kept for good when the Chanseok strategy is on.
Improved(s, c) ==
    LET nblevels == computeLBD(s, c.lits)
    IN  IF ~c.learnt \/ c.lbd <= 2 \/ nblevels + 1 >= c.lbd THEN c
        ELSE IF s.coLBDBound > 0 /\ nblevels <= s.coLBDBound THEN
            [c EXCEPT !.canBeDel = FALSE, !.learnt = FALSE, !.list = "permanentLearnts"]
        ELSE [c EXCEPT !.canBeDel = FALSE, !.lbd = nblevels]

\* The literal a binary clause implies may be its second.
ImpliedFirst(s, c) ==
    IF Len(c) = 2 /\ IsFalse(s, c[1]) THEN Swap(c, 1, 2) ELSE c

\* Adds the literals of clause cr from the given place on to the resolvent.
Resolve(a, cr, from) ==
    LET c == IF from = 1 THEN a.s.ca[cr].lits ELSE ImpliedFirst(a.s, a.s.ca[cr].lits)
        new == Where(SubSeq(c, from, Len(c)),
                         LAMBDA q : Var(q) \notin a.seen /\ LevelOf(a.s, q) > 0)
        current == Where(new, LAMBDA q : LevelOf(a.s, q) = DecisionLevel(a.s))
    IN  [a EXCEPT
            !.s.ca[cr] = Improved(a.s, [@ EXCEPT !.lits = c]),
            !.seen = @ \cup {Var(q) : q \in ToSet(new)},
            !.pathC = @ + Len(current),
            !.learnt = @ \o Where(new,
                                LAMBDA q : LevelOf(a.s, q) < DecisionLevel(a.s))]

\* e is the next entry of the trail, from the last to the first.
ResolveOn(a, e) ==
    IF a.uip # 0 \/ Var(e.lit) \notin a.seen THEN a
    ELSE IF a.pathC = 1 THEN [a EXCEPT !.uip = e.lit]
    ELSE Resolve([a EXCEPT !.seen = @ \ {Var(e.lit)}, !.pathC = @ - 1], e.reason, 2)

\* Mutant: antecedents on the levels of the clause count as being in it.
RedundantByLevel(s, learnt) ==
    LET levels == {LevelOf(s, q) : q \in ToSet(learnt)}
    IN  {i \in DOMAIN s.trail :
            /\ s.trail[i].reason # CRef_Undef
            /\ \A q \in ToSet(Tail(ImpliedFirst(s, s.ca[s.trail[i].reason].lits))) :
                   LevelOf(s, q) = 0 \/ LevelOf(s, q) \in levels}

\* litRedundant: which places of the trail follow from the clause learnt.
\* (That it turns binary reasons round as Resolve does is left out.)
Redundant(s, learnt) ==
    LET seen == {Var(q) : q \in ToSet(learnt)}
        levels == {LevelOf(s, q) : q \in ToSet(learnt)}
        Antecedents(i) ==
            Tail(ImpliedFirst(s, s.ca[s.trail[i].reason].lits))
        red[i \in DOMAIN s.trail] ==
            /\ s.trail[i].level > 0
            /\ s.trail[i].reason # CRef_Undef
            /\ \A q \in ToSet(Antecedents(i)) :
                   \/ LevelOf(s, q) = 0
                   \/ Var(q) \in seen
                   \/ LevelOf(s, q) \in levels /\ red[Position(s, q)]
    IN  {i \in DOMAIN s.trail : red[i]}

\* A literal of the highest level is put second.
HighestSecond(s, c) ==
    IF Len(c) = 1 THEN c
    ELSE LET high == SelectInSubSeq(c, 2, Len(c), LAMBDA q :
                         \A k \in 2..Len(c) : LevelOf(s, q) >= LevelOf(s, c[k]))
         IN  Swap(c, 2, high)

\* The state after the analysis, and the clause learnt.
analyze(s, cr) ==
    LET a == FoldLeft(ResolveOn,
                      Resolve([s |-> s, seen |-> {}, pathC |-> 0, learnt |-> <<>>,
                               uip |-> 0], cr, 1),
                      Reverse(s.trail))
        redundant == Redundant(a.s, a.learnt)
        minimal == Where(a.learnt, LAMBDA q : Position(s, q) \notin redundant)
    IN  [s |-> a.s, learnt |-> HighestSecond(s, <<Neg(a.uip)>> \o minimal)]

\* Mutant: a learnt unit clause is not asserted at once.
LearnUnitLater(s, learnt) ==
    LET back == cancelUntil(s, IF Len(learnt) = 1 THEN 0 ELSE LevelOf(s, learnt[2]))
        added == NewClause(back, learnt, "learnts", computeLBD(s, learnt))
    IN  IF Len(learnt) = 1 THEN back
        ELSE uncheckedEnqueue(added, learnt[1], Len(added.ca))

\* search(), from the conflict to the literal the learnt clause asserts.
Learn(s, learnt) ==
    LET nblevels == computeLBD(s, learnt)
        permanent == s.coLBDBound > 0 /\ nblevels <= s.coLBDBound
        back == cancelUntil(s, IF Len(learnt) = 1 THEN 0 ELSE LevelOf(s, learnt[2]))
        added == IF permanent THEN NewClause(back, learnt, "permanentLearnts", 0)
                 ELSE NewClause(back, learnt, "learnts", nblevels)
    IN  IF Len(learnt) = 1 THEN uncheckedEnqueue(back, learnt[1], CRef_Undef)
        ELSE uncheckedEnqueue(added, learnt[1], Len(added.ca))

\* Mutant: every reason is read from its second literal on.
analyzeFinalFromSecond(s, p) ==
    LET Step(a, e) ==
            IF e.level = 0 \/ Var(e.lit) \notin a.seen THEN a
            ELSE IF e.reason = CRef_Undef THEN [a EXCEPT !.out = @ \cup {Neg(e.lit)}]
            ELSE [a EXCEPT !.seen = @ \cup
                     {Var(q) : q \in {q \in ToSet(Tail(s.ca[e.reason].lits)) :
                                          LevelOf(s, q) > 0}}]
    IN  IF DecisionLevel(s) = 0 THEN {p}
        ELSE FoldLeft(Step, [seen |-> {Var(p)}, out |-> {p}], Reverse(s.trail)).out

\* e is the next entry of the trail, from the last to the first.
Explain(s, a, e) ==
    IF e.level = 0 \/ Var(e.lit) \notin a.seen THEN a
    ELSE IF e.reason = CRef_Undef THEN [a EXCEPT !.out = @ \cup {Neg(e.lit)}]
    ELSE LET c == s.ca[e.reason].lits
             rest == SubSeq(c, IF Len(c) = 2 THEN 1 ELSE 2, Len(c))
         IN  [a EXCEPT !.seen = @ \cup
                 {Var(q) : q \in {q \in ToSet(rest) : LevelOf(s, q) > 0}}]

ExplainAll(s, base, entries) == FoldLeft(LAMBDA a, e : Explain(s, a, e), base, entries)

\* The assumptions that made p true, negated, and p itself.
analyzeFinal(s, p) ==
    IF DecisionLevel(s) = 0 THEN {p}
    ELSE ExplainAll(s, [seen |-> {Var(p)}, out |-> {p}], Reverse(s.trail)).out

(***************************************************************************)
(* The calls                                                               *)
(***************************************************************************)
Call == Head(calls)

NoClauses == [l \in Lits |-> <<>>]

Init ==
    /\ calls \in Scripts
    /\ adaptIn \in AdaptAfter
    /\ S = [ok |-> TRUE, nVars |-> 0, ca |-> <<>>, watches |-> NoClauses,
            watchesBin |-> NoClauses, trail |-> <<>>, trail_lim |-> <<>>, qhead |-> 0,
            order_heap |-> {}, simpDB_assigns |-> -1, coLBDBound |-> 0]
    /\ pc = "idle"
    /\ confl = CRef_Undef
    /\ fresh = {}
    /\ restarts = 0
    /\ formula = {}
    /\ answer = [status |-> "none", model |-> {}, conflict |-> {}]

Serving(op) == pc = "idle" /\ calls # <<>> /\ Call.op = op

newVar ==
    /\ Serving("newVar")
    /\ S' = [S EXCEPT !.nVars = @ + 1, !.order_heap = @ \cup {S.nVars + 1}]
    /\ calls' = Tail(calls)
    /\ UNCHANGED <<pc, confl, fresh, adaptIn, restarts, formula, answer>>

LitLess(l, m) == Var(l) < Var(m) \/ (Var(l) = Var(m) /\ l > m)

\* The clause is sorted and loses its false and repeated literals; one that is
\* satisfied or a tautology is dropped, one of a single literal is propagated.
addClause_ ==
    /\ Serving("addClause")
    /\ LET ps == ToSet(Call.lits)
           dropped == \/ ~S.ok
                      \/ \E l \in ps : IsTrue(S, l) \/ Neg(l) \in ps
       IN  \E left \in SetToSeqs({l \in ps : ~IsFalse(S, l)}) :
           /\ \A i, j \in DOMAIN left : i < j => LitLess(left[i], left[j])
           /\ formula' = formula \cup {ps}
           /\ S' = CASE dropped -> S
                     [] ~dropped /\ left = <<>> -> [S EXCEPT !.ok = FALSE]
                     [] ~dropped /\ Len(left) = 1 ->
                           uncheckedEnqueue(S, left[1], CRef_Undef)
                     [] OTHER -> NewClause(S, left, "clauses", 0)
           /\ IF ~dropped /\ Len(left) = 1
              THEN pc' = "adding" /\ calls' = calls
              ELSE pc' = "idle" /\ calls' = Tail(calls)
    /\ UNCHANGED <<confl, fresh, adaptIn, restarts, answer>>

\* What solve_ does once it knows the status of the query.
Finish(s, status, out) ==
    /\ S' = cancelUntil([s EXCEPT !.ok = @ /\ ~(status = "l_False" /\ out = {})], 0)
    /\ answer' = [status |-> status, conflict |-> out,
                  model |-> IF status = "l_True"
                            THEN {s.trail[i].lit : i \in DOMAIN s.trail} ELSE {}]
    /\ calls' = Tail(calls)
    /\ pc' = "idle"
    /\ confl' = CRef_Undef

\* search() has returned l_Undef: the budget is looked at, then it starts again.
SearchAgain(s) ==
    \/ Call.budget /\ Finish(s, "l_Undef", {})
    \/ S' = s /\ pc' = "propagate" /\ confl' = CRef_Undef /\ UNCHANGED <<calls, answer>>

solveLimited ==
    /\ Serving("solve")
    /\ pc' = "propagate"
    /\ restarts' = 0
    /\ UNCHANGED <<S, calls, confl, fresh, adaptIn, formula, answer>>

\* A solver that is not ok says so without a search.
NotOk ==
    /\ pc = "propagate"
    /\ ~S.ok
    /\ Finish(S, "l_False", {})
    /\ UNCHANGED <<fresh, adaptIn, restarts, formula>>

(***************************************************************************)
(* search() and the propagation of a unit clause that is added             *)
(***************************************************************************)
Propagate ==
    /\ pc \in {"propagate", "adding"}
    /\ S.ok
    /\ S.qhead < Len(S.trail)
    /\ LET r == PropagateLit(S)
           failed == pc = "adding" /\ r.confl # CRef_Undef
       IN  /\ S' = [r.s EXCEPT !.ok = ~failed]
           /\ confl' = IF failed THEN CRef_Undef ELSE r.confl
           /\ pc' = CASE failed -> "idle"
                      [] ~failed /\ r.confl # CRef_Undef -> "conflict"
                      [] OTHER -> pc
           /\ calls' = IF failed THEN Tail(calls) ELSE calls
    /\ UNCHANGED <<fresh, adaptIn, restarts, formula, answer>>

Propagated ==
    /\ pc \in {"propagate", "adding"}
    /\ S.ok
    /\ S.qhead = Len(S.trail)
    /\ IF pc = "adding" THEN pc' = "idle" /\ calls' = Tail(calls)
                        ELSE pc' = "restart" /\ calls' = calls
    /\ UNCHANGED <<S, confl, fresh, adaptIn, restarts, formula, answer>>

CountConflict ==
    /\ fresh' = {"restart", "reduce"}
    /\ adaptIn' = IF adaptIn = 0 THEN 0 ELSE adaptIn - 1

TopLevelConflict ==
    /\ pc = "conflict"
    /\ DecisionLevel(S) = 0
    /\ CountConflict
    /\ Finish(S, "l_False", {})
    /\ UNCHANGED <<restarts, formula>>

\* adaptSolver: few decisions per conflict (4 levels kept, the other learnt
\* clauses removed), or many conflicts in a row (3 levels kept), or neither.
Adapted(s, few, many) ==
    LET bound == CASE many -> 3 [] few /\ ~many -> 4 [] OTHER -> s.coLBDBound
        Kept(c) == IF c.list = "learnts" /\ bound > 0 /\ c.lbd <= bound
                   THEN [c EXCEPT !.list = "permanentLearnts"] ELSE c
        t == [s EXCEPT !.coLBDBound = bound,
                       !.ca = [cr \in DOMAIN @ |-> Kept(@[cr])]]
    IN  IF few THEN Collected(RemoveAll(t, ListOf(t, "learnts"))) ELSE {t}

Adapt ==
    /\ pc = "conflict"
    /\ DecisionLevel(S) > 0
    /\ adaptIn = 1
    /\ CountConflict
    /\ \E few, many \in BOOLEAN :
           \E s \in Adapted(cancelUntil(S, 0), few, many) : SearchAgain(s)
    /\ UNCHANGED <<restarts, formula>>

Analyze ==
    /\ pc = "conflict"
    /\ DecisionLevel(S) > 0
    /\ adaptIn # 1
    /\ CountConflict
    /\ LET a == analyze(S, confl) IN S' = Learn(a.s, a.learnt)
    /\ pc' = "propagate"
    /\ confl' = CRef_Undef
    /\ UNCHANGED <<calls, restarts, formula, answer>>

Restart ==
    /\ pc = "restart"
    /\ "restart" \in fresh
    /\ restarts < MaxRestarts
    /\ fresh' = fresh \ {"restart"}
    /\ restarts' = restarts + 1
    /\ SearchAgain(cancelUntil(S, 0))
    /\ UNCHANGED <<adaptIn, formula>>

NoRestart ==
    /\ pc = "restart"
    /\ pc' = IF DecisionLevel(S) = 0 THEN "simplify" ELSE "reduce"
    /\ UNCHANGED <<S, calls, confl, fresh, adaptIn, restarts, formula, answer>>

\* simplify(), with an empty queue: what is satisfied at level 0 goes, unless
\* nothing new is assigned or not enough was propagated since the last time.
Simplified(s) ==
    LET t == removeSatisfied(removeSatisfied(removeSatisfied(
                 s, "learnts"), "permanentLearnts"), "clauses")
        unassigned == {v \in 1..s.nVars : IsUndef(s, v)}
    IN  {[u EXCEPT !.order_heap = unassigned, !.simpDB_assigns = Len(s.trail)] :
            u \in Collected(t)}

Simplify ==
    /\ pc = "simplify"
    /\ \/ S' = S
       \/ Len(S.trail) # S.simpDB_assigns /\ S' \in Simplified(S)
    /\ pc' = "reduce"
    /\ UNCHANGED <<calls, confl, fresh, adaptIn, restarts, formula, answer>>

\* The orders reduceDB may sort the learnt clauses into: binary clauses last,
\* then by falling lbd, by activity only under the Chanseok strategy.
Sorted(s, order) ==
    \A i, j \in DOMAIN order : i < j =>
        LET c == s.ca[order[i]]
            d == s.ca[order[j]]
        IN  IF Len(c.lits) = 2 \/ Len(d.lits) = 2
            THEN Len(c.lits) = 2 => Len(d.lits) = 2
            ELSE s.coLBDBound > 0 \/ c.lbd >= d.lbd

\* reduceDB: the first half goes, what is binary, locked or protected stays.
KeepOrRemove(r, cr) ==
    LET c == r.s.ca[cr]
        i == r.i + 1
    IN  IF c.lbd > 2 /\ Len(c.lits) > 2 /\ c.canBeDel /\ ~locked(r.s, cr)
           /\ i <= r.limit
        THEN [r EXCEPT !.s = removeClause(@, cr), !.i = i]
        ELSE [s |-> [r.s EXCEPT !.ca[cr].canBeDel = TRUE], i |-> i,
              limit |-> IF c.canBeDel THEN r.limit ELSE r.limit + 1]

Reduced(s, order) ==
    FoldLeft(KeepOrRemove, [s |-> s, i |-> 0, limit |-> Len(order) \div 2], order).s

ReduceDB ==
    /\ pc = "reduce"
    /\ "reduce" \in fresh
    /\ ListOf(S, "learnts") # {}
    /\ \E order \in SetToSeqs(ListOf(S, "learnts")) :
           /\ Sorted(S, order)
           /\ S' \in Collected(Reduced(S, order))
    /\ fresh' = fresh \ {"reduce"}
    /\ pc' = "decide"
    /\ UNCHANGED <<calls, confl, adaptIn, restarts, formula, answer>>

NoReduce ==
    /\ pc = "reduce"
    /\ pc' = "decide"
    /\ UNCHANGED <<S, calls, confl, fresh, adaptIn, restarts, formula, answer>>

\* Assumptions that already hold get a level of their own.
DummyLevels(s) ==
    LET d == DecisionLevel(s)
        rest == SelectInSubSeq(Call.lits, d + 1, Len(Call.lits), LAMBDA l : ~IsTrue(s, l))
        last == IF rest = 0 THEN Len(Call.lits) ELSE rest - 1
    IN  IF last <= d THEN s
        ELSE [s EXCEPT !.trail_lim = @ \o [k \in 1 .. last - d |-> Len(s.trail)]]

AssumptionsLeft(s) == DecisionLevel(s) < Len(Call.lits)
NextAssumption(s) == Call.lits[DecisionLevel(s) + 1]

Assume ==
    /\ pc = "decide"
    /\ LET s == DummyLevels(S)
       IN  /\ AssumptionsLeft(s)
           /\ IsUndef(s, NextAssumption(s))
           /\ S' = uncheckedEnqueue(newDecisionLevel(s), NextAssumption(s), CRef_Undef)
    /\ pc' = "propagate"
    /\ UNCHANGED <<calls, confl, fresh, adaptIn, restarts, formula, answer>>

AssumptionFails ==
    /\ pc = "decide"
    /\ LET s == DummyLevels(S)
       IN  /\ AssumptionsLeft(s)
           /\ IsFalse(s, NextAssumption(s))
           /\ Finish(s, "l_False", analyzeFinal(s, Neg(NextAssumption(s))))
    /\ UNCHANGED <<fresh, adaptIn, restarts, formula>>

\* pickBranchLit: an unassigned variable of the heap with either sign.  The
\* assigned ones that may leave the heap before it do: backtracking puts them
\* back.
Branch ==
    /\ pc = "decide"
    /\ LET s == DummyLevels(S)
           free == {v \in s.order_heap : IsUndef(s, v)}
       IN  /\ ~AssumptionsLeft(s)
           /\ \E v \in free : \E l \in {v, Neg(v)} :
                  S' = uncheckedEnqueue(
                           newDecisionLevel([s EXCEPT !.order_heap = free \ {v}]),
                           l, CRef_Undef)
    /\ pc' = "propagate"
    /\ UNCHANGED <<calls, confl, fresh, adaptIn, restarts, formula, answer>>

\* With nothing left to branch on the trail is a model.
ModelFound ==
    /\ pc = "decide"
    /\ LET s == DummyLevels(S)
       IN  /\ ~AssumptionsLeft(s)
           /\ \A v \in s.order_heap : ~IsUndef(s, v)
           /\ Finish([s EXCEPT !.order_heap = {}], "l_True", {})
    /\ UNCHANGED <<fresh, adaptIn, restarts, formula>>

\* The searches are done.
Done == calls = <<>> /\ UNCHANGED vars

Next ==
    \/ newVar \/ addClause_ \/ solveLimited \/ NotOk
    \/ Propagate \/ Propagated
    \/ TopLevelConflict \/ Adapt \/ Analyze
    \/ Restart \/ NoRestart \/ Simplify \/ ReduceDB \/ NoReduce
    \/ Assume \/ AssumptionFails \/ Branch \/ ModelFound
    \/ Done

\* The solver runs until the call returns, and the searches go on calling it.
Spec == Init /\ [][Next]_vars /\ WF_vars(Next)

(***************************************************************************)
(* Properties                                                              *)
(***************************************************************************)
Attached == {cr \in DOMAIN S.ca : S.ca[cr].list # "freed"}

\* When propagation has emptied its queue, no clause of the solver is false
\* and none is unit: the two-watched-literal scheme, after swaps, backtracking
\* and removals, has missed nothing.
NoMissedPropagation ==
    pc \in {"restart", "simplify", "reduce", "decide"} =>
        \A cr \in Attached :
            LET c == ToSet(S.ca[cr].lits)
            IN  \/ \E l \in c : IsTrue(S, l)
                \/ Cardinality({l \in c : ~IsFalse(S, l)}) >= 2

\* Above level 0, a reason is a clause of the solver whose other literals were
\* false before the one it implies, which conflict analysis finds where it
\* looks for it.
ReasonsJustify ==
    \A i \in DOMAIN S.trail :
        LET e == S.trail[i]
            c == S.ca[e.reason].lits
        IN  e.reason # CRef_Undef /\ e.level > 0 =>
                /\ e.reason \in Attached
                /\ e.lit = c[1] \/ (Len(c) = 2 /\ e.lit = c[2])
                /\ \A l \in ToSet(c) \ {e.lit} :
                       \E j \in 1 .. i - 1 : S.trail[j].lit = Neg(l)

\* Between calls the solver holds the formula it was given: what it has learnt
\* follows from it, what it has removed follows from the rest, and only a
\* formula without a model makes it not ok.
HoldsTheFormula ==
    pc = "idle" =>
        Oracle!ModelsOf(S.nVars, formula) =
            IF S.ok
            THEN Oracle!ModelsOf(S.nVars,
                     {ToSet(S.ca[cr].lits) : cr \in Attached}
                     \cup {{S.trail[i].lit} : i \in DOMAIN S.trail})
            ELSE {}

\* Every answer is one the searches expect: a total model, or a clause over
\* the negated assumptions that the formula implies.
ImplementsSatOracle == Oracle!Spec

\* Within a search each conflict leaves a trail that is greater, comparing the
\* numbers of literals level by level, than the one before, whatever clauses are
\* removed on the way: with restarts few enough this is why a call returns.
LiteralsOn(s, d) == Cardinality({i \in DOMAIN s.trail : s.trail[i].level = d})

Greater(t, s) ==
    \E d \in 0 .. DecisionLevel(t) :
        /\ \A k \in 0 .. d - 1 : LiteralsOn(t, k) = LiteralsOn(s, k)
        /\ d > DecisionLevel(s) \/ LiteralsOn(t, d) > LiteralsOn(s, d)

Searching == pc \in {"propagate", "conflict", "restart", "simplify", "reduce", "decide"}

TrailAdvances ==
    [][/\ Searching /\ Searching'
       /\ restarts' = restarts
       /\ ~(pc = "conflict" /\ adaptIn = 1)
       => \/ \A d \in 0 .. DecisionLevel(S) : LiteralsOn(S', d) = LiteralsOn(S, d)
          \/ Greater(S', S)]_vars
==============================================================================
