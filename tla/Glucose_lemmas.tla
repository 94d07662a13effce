---------------------------- MODULE Glucose_lemmas ----------------------------
(***************************************************************************)
(* The SAT solver, one operation at a time: that propagation and the       *)
(* analysis of a conflict keep a solver consistent, for every number of    *)
(* variables and every choice its heuristics make.                         *)
(*                                                                         *)
(* The invariants speak of a solver object s, so that they can be asked    *)
(* of the states in the middle of a propagation or of an analysis too.     *)
(***************************************************************************)
EXTENDS Glucose, SetSums, SequenceTheorems

Vars == 1..MaxVars

Entries == [lit : Lits, level : Nat, reason : Nat]

Watchers == [cref : Nat, blocker : Lits]

Lists == {"clauses", "learnts", "permanentLearnts", "freed"}

Clauses == [lits : Seq(Lits), list : Lists, learnt : BOOLEAN, lbd : Nat,
            canBeDel : BOOLEAN]

Solvers ==
    [ok : BOOLEAN, nVars : 0..MaxVars, ca : Seq(Clauses),
     watches : [Lits -> Seq(Watchers)], watchesBin : [Lits -> Seq(Watchers)],
     trail : Seq(Entries), trail_lim : Seq(Nat), qhead : Nat,
     order_heap : SUBSET Vars, simpDB_assigns : Int, coLBDBound : Nat]

\* The clauses of the solver.
AttachedIn(s) == {cr \in DOMAIN s.ca : s.ca[cr].list # "freed"}

(***************************************************************************)
(* The trail names a variable once; it is cut into levels by trail_lim, and *)
(* what is on a level was assigned after the level began.                   *)
(***************************************************************************)
TrailOK(s) ==
    /\ \A i, j \in DOMAIN s.trail : Var(s.trail[i].lit) = Var(s.trail[j].lit) => i = j
    /\ \A i \in DOMAIN s.trail : Var(s.trail[i].lit) <= s.nVars
    /\ s.qhead <= Len(s.trail)
    /\ \A d \in DOMAIN s.trail_lim : s.trail_lim[d] <= s.qhead
    /\ \A d, e \in DOMAIN s.trail_lim : d <= e => s.trail_lim[d] <= s.trail_lim[e]
    /\ \A i \in DOMAIN s.trail :
           /\ s.trail[i].level <= DecisionLevel(s)
           /\ \A d \in DOMAIN s.trail_lim :
                  d <= s.trail[i].level <=> s.trail_lim[d] < i

\* Above level 0, only the first literal of a level has no reason.
DecisionsFirst(s) ==
    \A i \in DOMAIN s.trail :
        s.trail[i].level > 0 =>
            (s.trail[i].reason = CRef_Undef <=> i = s.trail_lim[s.trail[i].level] + 1)

\* No variable occurs twice.
Distinct(c) == \A i, j \in DOMAIN c : Var(c[i]) = Var(c[j]) => i = j

\* What may become a clause.
Proper(s, c) ==
    /\ c \in Seq(Lits) /\ Len(c) >= 2 /\ Distinct(c)
    /\ \A i \in DOMAIN c : Var(c[i]) <= s.nVars

ClausesOK(s) ==
    \A cr \in AttachedIn(s) :
        LET c == s.ca[cr].lits
        IN  /\ Len(c) >= 2
            /\ Distinct(c)
            /\ \A i \in DOMAIN c : Var(c[i]) <= s.nVars
            /\ s.ca[cr].learnt => s.ca[cr].list # "clauses"

\* A watcher of p is that of a clause with the opposite of p in front.
Watches(s, p, w) ==
    LET c == s.ca[w.cref].lits
    IN  /\ w.cref \in AttachedIn(s)
        /\ Len(c) > 2
        /\ \E k \in 1..2 : c[k] = Neg(p)
        /\ w.blocker \in ToSet(c) /\ w.blocker # Neg(p)

WatchesBinary(s, p, w) ==
    LET c == s.ca[w.cref].lits
    IN  /\ w.cref \in AttachedIn(s)
        /\ c \in {<<Neg(p), w.blocker>>, <<w.blocker, Neg(p)>>}

WatchersOK(s) ==
    \A p \in Lits :
        /\ \A i \in DOMAIN s.watches[p] : Watches(s, p, s.watches[p][i])
        /\ \A i \in DOMAIN s.watchesBin[p] : WatchesBinary(s, p, s.watchesBin[p][i])
        /\ \A i, j \in DOMAIN s.watches[p] :
               s.watches[p][i].cref = s.watches[p][j].cref => i = j

Listed(ws, cr) == \E i \in DOMAIN ws : ws[i].cref = cr

\* The two literals in front of a clause are watched.
WatchedOK(s) ==
    \A cr \in AttachedIn(s) : \A k \in 1..2 :
        LET c == s.ca[cr].lits
        IN  /\ Len(c) = 2 => Listed(s.watchesBin[Neg(c[k])], cr)
            /\ Len(c) > 2 => Listed(s.watches[Neg(c[k])], cr)

\* The same while the watchers of p in rest are still to be visited.
WatchedBut(s, p, rest) ==
    \A cr \in AttachedIn(s) : \A k \in 1..2 :
        LET c == s.ca[cr].lits
        IN  /\ Len(c) = 2 => Listed(s.watchesBin[Neg(c[k])], cr)
            /\ Len(c) > 2 => \/ Listed(s.watches[Neg(c[k])], cr)
                             \/ c[k] = Neg(p) /\ cr \in rest

ReasonOK(s, i) ==
    LET e == s.trail[i]
        c == s.ca[e.reason].lits
    IN  /\ e.reason \in AttachedIn(s)
        /\ e.lit = c[1] \/ (Len(c) = 2 /\ e.lit = c[2])
        /\ \A l \in ToSet(c) \ {e.lit} : \E j \in 1 .. i - 1 : s.trail[j].lit = Neg(l)

ReasonsOK(s) ==
    \A i \in DOMAIN s.trail :
        s.trail[i].reason # CRef_Undef /\ s.trail[i].level > 0 => ReasonOK(s, i)

(***************************************************************************)
(* What the first n literals of the trail make a watcher visit is over: the *)
(* blocker is true, and stays so as long as the literal does.               *)
(***************************************************************************)
Blocked(s, i, w) ==
    \E j \in DOMAIN s.trail :
        s.trail[j].lit = w.blocker /\ s.trail[j].level <= s.trail[i].level

Visited(s, n) ==
    \A i \in DOMAIN s.trail : i <= n =>
        LET p == s.trail[i].lit
        IN  /\ \A k \in DOMAIN s.watches[p] : Blocked(s, i, s.watches[p][k])
            /\ \A k \in DOMAIN s.watchesBin[p] : Blocked(s, i, s.watchesBin[p][k])

\* Before the present level began.
LastLim(s) == IF DecisionLevel(s) = 0 THEN 0 ELSE s.trail_lim[DecisionLevel(s)]

\* No list of watchers has changed but by those of a clause that begins with
\* two given literals.
WatchersAdded(f, g, l, m) ==
    \A q \in Lits : \A k \in DOMAIN g[q] :
        \/ k \in DOMAIN f[q] /\ g[q][k] = f[q][k]
        \/ q = Neg(l) /\ g[q][k].blocker = m
        \/ q = Neg(m) /\ g[q][k].blocker = l

\* The lists after clause cr, which begins with l and m, is watched.
TwoAdded(f, g, l, m, cr) ==
    /\ g[Neg(l)] = Append(f[Neg(l)], Watcher(cr, m))
    /\ g[Neg(m)] = Append(f[Neg(m)], Watcher(cr, l))
    /\ \A q \in Lits : q # Neg(l) /\ q # Neg(m) => g[q] = f[q]

\* The variables to branch on are there, and are variables of the solver.
HeapOK(s) ==
    /\ \A v \in 1..s.nVars : IsUndef(s, v) => v \in s.order_heap
    /\ s.order_heap \subseteq 1..s.nVars

(***************************************************************************)
(* The clauses and the literals of level 0 have the models of the formula;  *)
(* what is learnt adds nothing.                                             *)
(***************************************************************************)
Fixed(s) == {s.trail[i].lit : i \in {j \in DOMAIN s.trail : s.trail[j].level = 0}}

Satisfies(A, s, crs) ==
    /\ \A cr \in crs : ToSet(s.ca[cr].lits) \cap A # {}
    /\ Fixed(s) \subseteq A

Sound(s, F) ==
    \A A \in Oracle!ModelsOf(s.nVars, F) : Satisfies(A, s, AttachedIn(s))

Complete(s, F) ==
    \A A \in Oracle!Assignments(s.nVars) :
        Satisfies(A, s, ListOf(s, "clauses")) => A \in Oracle!ModelsOf(s.nVars, F)

(***************************************************************************)
(* The k-th level is that of the k-th assumption.                           *)
(***************************************************************************)
AssumptionsFirst(s, lits) ==
    /\ \A d \in DOMAIN s.trail_lim : d <= Len(lits) =>
           \E i \in DOMAIN s.trail : s.trail[i].lit = lits[d] /\ s.trail[i].level <= d
    /\ \A i \in DOMAIN s.trail :
           LET e == s.trail[i]
           IN  e.reason = CRef_Undef /\ e.level \in 1..Len(lits) => e.lit = lits[e.level]

\* What holds of a solver at every moment, but for its watchers.
Consistent(s) ==
    /\ s \in Solvers
    /\ TrailOK(s) /\ DecisionsFirst(s) /\ HeapOK(s)
    /\ ClausesOK(s) /\ ReasonsOK(s)

\* Clause cr is false, and would not have been on a lower level.
Conflicting(s, cr) ==
    /\ cr \in AttachedIn(s)
    /\ \A l \in ToSet(s.ca[cr].lits) : IsFalse(s, l)
    /\ \E l \in ToSet(s.ca[cr].lits) : LevelOf(s, l) = DecisionLevel(s)

\* Clause cr implies l, which its level has begun.
Implied(s, l, cr) ==
    /\ IsUndef(s, l) /\ cr \in AttachedIn(s)
    /\ l = s.ca[cr].lits[1] \/ (Len(s.ca[cr].lits) = 2 /\ l = s.ca[cr].lits[2])
    /\ \A m \in ToSet(s.ca[cr].lits) \ {l} : IsFalse(s, m)
    /\ DecisionLevel(s) > 0 => LastLim(s) < Len(s.trail)

Places == {"idle", "adding", "propagate", "conflict", "restart", "simplify", "reduce",
           "decide"}

TypeOK ==
    /\ pc \in Places
    /\ confl \in Nat
    /\ fresh \subseteq {"restart", "reduce"}
    /\ adaptIn \in Nat
    /\ restarts \in Nat

\* What is left of a script when n variables have been created.
Remaining(cs, n) ==
    \E script \in Scripts : \E k \in 0..Len(script) :
        cs = SubSeq(script, k + 1, Len(script)) /\ n = Created(script, k)

CallsLeft ==
    /\ Remaining(calls, S.nVars)
    /\ pc # "idle" => calls # <<>>
    /\ pc = "adding" => Call.op = "addClause"
    /\ pc \notin {"idle", "adding"} => Call.op = "solve"

Queue ==
    /\ pc \in {"idle", "adding", "simplify"} => DecisionLevel(S) = 0
    /\ pc \in {"conflict", "restart", "simplify", "reduce", "decide"} => S.ok
    /\ pc \in {"restart", "simplify", "reduce", "decide"} \/ (pc = "idle" /\ S.ok)
           => S.qhead = Len(S.trail)
    /\ pc = "conflict" => Conflicting(S, confl)

Quiet == S.ok => Visited(S, IF pc = "conflict" THEN LastLim(S) ELSE S.qhead)

Named == \A ps \in formula : ps \subseteq Oracle!Literals(S.nVars)

Meaning ==
    IF S.ok THEN Sound(S, formula) /\ Complete(S, formula)
    ELSE Oracle!ModelsOf(S.nVars, formula) = {}

Assumed ==
    pc \notin {"idle", "adding"} => AssumptionsFirst(S, Call.lits)

IInv ==
    /\ TypeOK /\ CallsLeft /\ Queue
    /\ Consistent(S) /\ WatchersOK(S) /\ WatchedOK(S)
    /\ Quiet /\ Named /\ Meaning /\ Assumed

-----------------------------------------------------------------------------
(***************************************************************************)
(* The operators the solver is built from: ranks in a set of numbers, and  *)
(* the states that a fold over a sequence goes through.                    *)
(***************************************************************************)

\* The elements of a finite set of numbers are ranked without gaps.
LEMMA RankType ==
    ASSUME NEW T \in SUBSET Nat, IsFiniteSet(T), NEW i \in T
    PROVE  /\ Cardinality(T) \in Nat
           /\ Rank(T, i) \in 1..Cardinality(T)
<1> DEFINE U == {j \in T : j <= i}
<1>1. U \in SUBSET T /\ i \in U
    OBVIOUS
<1>2. /\ Cardinality(T) \in Nat /\ Cardinality(U) \in Nat /\ IsFiniteSet(U)
      /\ Cardinality(U) <= Cardinality(T)
  <2> HIDE DEF U
  <2> QED
    BY <1>1, PartsOfFinite
<1>3. Cardinality(U) # 0
  <2> HIDE DEF U
  <2> QED
    BY <1>1, <1>2, FS_EmptySet
<1> QED
    BY <1>2, <1>3 DEF Rank

LEMMA RankOrder ==
    ASSUME NEW T \in SUBSET Nat, IsFiniteSet(T), NEW i \in T, NEW j \in T, i < j
    PROVE  Rank(T, i) < Rank(T, j)
<1> DEFINE U == {k \in T : k <= i}
           V == {k \in T : k <= j}
<1>1. U \in SUBSET V /\ j \in V /\ j \notin U /\ V \in SUBSET T
  <2>1. i \in Nat /\ j \in Nat /\ \A k \in T : k \in Nat
    OBVIOUS
  <2>2. \A k \in T : k <= i => k <= j
    BY <2>1
  <2>3. U \in SUBSET V
    BY <2>2
  <2> QED
    BY <2>1, <2>3
<1>2. IsFiniteSet(V)
  <2> HIDE DEF U, V
  <2> QED
    BY <1>1, FS_Subset
<1>3. Cardinality(U) \in 0..(Cardinality(V) - 1)
  <2> HIDE DEF U, V
  <2> QED
    BY <1>1, <1>2, PlaceAmong
<1>4. Cardinality(V) \in Nat
  <2> HIDE DEF U, V
  <2> QED
    BY <1>2, FS_CardinalityType
<1> QED
    BY <1>3, <1>4 DEF Rank

LEMMA RankInjective ==
    ASSUME NEW T \in SUBSET Nat, IsFiniteSet(T), NEW i \in T, NEW j \in T,
           Rank(T, i) = Rank(T, j)
    PROVE  i = j
<1>1. i \in Nat /\ j \in Nat
    OBVIOUS
<1>2. Rank(T, i) \in Nat /\ Rank(T, j) \in Nat
    BY RankType
<1>3. ~(i < j) /\ ~(j < i)
    BY <1>2, RankOrder
<1> QED
    BY <1>1, <1>3

\* Nth turns ranks into the numbers ranked.
LEMMA NthOfRank ==
    ASSUME NEW T \in SUBSET Nat, IsFiniteSet(T)
    PROVE  /\ Cardinality(T) \in Nat
           /\ \A k \in 1..Cardinality(T) : Nth(T, k) \in T /\ Rank(T, Nth(T, k)) = k
           /\ \A i \in T : Rank(T, i) \in 1..Cardinality(T) /\ Nth(T, Rank(T, i)) = i
           /\ \A k, l \in 1..Cardinality(T) : k < l => Nth(T, k) < Nth(T, l)
<1> DEFINE n == Cardinality(T)
           r == [i \in T |-> Rank(T, i)]
<1>0. n \in Nat /\ IsFiniteSet(1..n) /\ Cardinality(1..n) = n
    BY FS_CardinalityType, FS_Interval
<1>1. r \in Injection(T, 1..n)
    BY RankType, RankInjective DEF Injection, IsInjective
<1>2. r \in Surjection(T, 1..n)
  <2> HIDE DEF r
  <2> QED
    BY <1>0, <1>1, FS_Injection
<1>3. ASSUME NEW k \in 1..n
      PROVE  Nth(T, k) \in T /\ Rank(T, Nth(T, k)) = k
  <2>1. \E i \in T : Rank(T, i) = k
    BY <1>2 DEF Surjection
  <2> QED
    BY <2>1 DEF Nth
<1>4. ASSUME NEW i \in T
      PROVE  Rank(T, i) \in 1..n /\ Nth(T, Rank(T, i)) = i
  <2>1. Rank(T, i) \in 1..n
    BY RankType
  <2>2. Nth(T, Rank(T, i)) \in T /\ Rank(T, Nth(T, Rank(T, i))) = Rank(T, i)
    BY <1>3, <2>1
  <2>3. Nth(T, Rank(T, i)) = i
    <3>1. PICK x \in T : x = Nth(T, Rank(T, i)) /\ Rank(T, x) = Rank(T, i)
      BY <2>2
    <3>2. x = i
      BY <3>1, RankInjective
    <3> QED
      BY <3>1, <3>2
  <2> QED
    BY <2>1, <2>3
<1>5. ASSUME NEW k \in 1..n, NEW l \in 1..n, k < l
      PROVE  Nth(T, k) < Nth(T, l)
  <2>1. /\ Nth(T, k) \in T /\ Rank(T, Nth(T, k)) = k
        /\ Nth(T, l) \in T /\ Rank(T, Nth(T, l)) = l
    BY <1>3
  <2>2. Nth(T, k) \in Nat /\ Nth(T, l) \in Nat /\ k \in Nat /\ l \in Nat
    <3>1. \A i \in T : i \in Nat
      OBVIOUS
    <3>2. k \in Nat /\ l \in Nat
      BY <1>0
    <3> QED
      BY <2>1, <3>1, <3>2
  <2>3. Nth(T, k) # Nth(T, l)
    BY <1>5, <2>1, <2>2
  <2>4. Nth(T, l) < Nth(T, k) => l < k
    BY <2>1, RankOrder
  <2>5. ~(Nth(T, l) < Nth(T, k))
    BY <1>5, <2>2, <2>4
  <2> QED
    BY <2>2, <2>3, <2>5
<1> QED
    BY <1>0, <1>3, <1>4, <1>5

\* At keeps what it is told to, in the order in which it finds it.
LEMMA AtPlaces ==
    ASSUME NEW R, NEW seq \in Seq(R), NEW T \in SUBSET DOMAIN seq
    PROVE  /\ At(seq, T) \in Seq(R)
           /\ Len(At(seq, T)) = Cardinality(T) /\ Cardinality(T) \in Nat
           /\ DOMAIN At(seq, T) = 1..Cardinality(T)
           /\ \A k \in 1..Cardinality(T) :
                  Nth(T, k) \in T /\ At(seq, T)[k] = seq[Nth(T, k)]
           /\ \A i \in T : \E k \in 1..Cardinality(T) : At(seq, T)[k] = seq[i]
           /\ \A k, l \in 1..Cardinality(T) : k < l => Nth(T, k) < Nth(T, l)
           /\ ToSet(At(seq, T)) = {seq[i] : i \in T}
<1>1. IsFiniteSet(T) /\ T \in SUBSET Nat
  <2>1. DOMAIN seq = 1..Len(seq) /\ Len(seq) \in Nat
    OBVIOUS
  <2>2. IsFiniteSet(1..Len(seq)) /\ T \in SUBSET (1..Len(seq))
    BY <2>1, FS_Interval
  <2> QED
    BY <2>1, <2>2, FS_Subset
<1>2. /\ Cardinality(T) \in Nat
      /\ \A k \in 1..Cardinality(T) : Nth(T, k) \in T /\ Rank(T, Nth(T, k)) = k
      /\ \A i \in T : Rank(T, i) \in 1..Cardinality(T) /\ Nth(T, Rank(T, i)) = i
      /\ \A k, l \in 1..Cardinality(T) : k < l => Nth(T, k) < Nth(T, l)
    BY <1>1, NthOfRank
<1>3. \A i \in T : seq[i] \in R
    OBVIOUS
<1>4. At(seq, T) \in [1..Cardinality(T) -> R]
    BY <1>2, <1>3 DEF At
<1>5. At(seq, T) \in Seq(R) /\ Len(At(seq, T)) = Cardinality(T)
      /\ DOMAIN At(seq, T) = 1..Cardinality(T)
    BY <1>2, <1>4
<1>6. /\ \A k \in 1..Cardinality(T) : At(seq, T)[k] = seq[Nth(T, k)]
      /\ \A i \in T : At(seq, T)[Rank(T, i)] = seq[i]
    BY <1>2 DEF At
<1>7. ToSet(At(seq, T)) = {seq[i] : i \in T}
    BY <1>2, <1>5, <1>6 DEF ToSet
<1> QED
    BY <1>2, <1>5, <1>6, <1>7

\* The first place that passes a test, where there is one.
LEMMA LeastOf ==
    ASSUME NEW I \in SUBSET Nat, I # {}
    PROVE  Min(I) \in I /\ \A i \in I : Min(I) <= i
<1>1. PICK n \in I : TRUE
    OBVIOUS
<1> DEFINE J == {i \in I : i <= n}
           id == [i \in J |-> i]
<1>2. IsFiniteSet(J) /\ J # {}
  <2>1. n \in Nat /\ \A i \in I : i \in Nat
    BY <1>1
  <2>2. J \in SUBSET (0..n) /\ n \in J
    <3>1. \A j \in J : j \in 0..n
      BY <2>1
    <3>2. n <= n
      BY <2>1
    <3> QED
      BY <3>1, <3>2
  <2>3. IsFiniteSet(0..n)
    BY <2>1, FS_Interval
  <2> HIDE DEF J
  <2> QED
    BY <2>2, <2>3, FS_Subset
<1>3. PICK m \in J : \A i \in J : id[m] <= id[i]
  <2>1. \A i \in J : id[i] \in Int
    OBVIOUS
  <2> HIDE DEF J, id
  <2> QED
    BY <1>2, <2>1, LeastExists
<1>4. m \in I /\ \A i \in I : m <= i
    BY <1>1, <1>3
<1> QED
    BY <1>4 DEF Min

\* The greatest of numbers up to k, where k is among them.
LEMMA MaxLast ==
    ASSUME NEW k \in Nat, k # 0, NEW s \in SUBSET (1..k)
    PROVE  /\ k \in s => Max(s) = k /\ s \ {k} \in SUBSET (1..(k - 1))
           /\ k \notin s => s \in SUBSET (1..(k - 1))
<1>1. \A i \in s : i \in Nat /\ 1 <= i /\ i <= k /\ (i # k => i <= k - 1)
    OBVIOUS
<1>2. ASSUME k \in s
      PROVE  Max(s) = k
  <2>1. Max(s) \in s /\ \A i \in s : i <= Max(s)
    BY <1>1, <1>2 DEF Max
  <2>2. Max(s) \in Nat /\ Max(s) <= k /\ k <= Max(s)
    BY <1>1, <1>2, <2>1
  <2> QED
    BY <2>2
<1>3. \A i \in s : i # k => i \in 1..(k - 1)
    BY <1>1
<1> QED
    BY <1>2, <1>3

LEMMA MaxPrefix ==
    ASSUME NEW k \in Nat, k # 0
    PROVE  Max(1..k) = k /\ (1..k) \ {k} = 1..(k - 1)
<1>1. 1..k \in SUBSET (1..k) /\ k \in 1..k
    OBVIOUS
<1>2. Max(1..k) = k
    BY <1>1, MaxLast
<1> QED
    BY <1>2

PropagateBinaries(base, seq) == FoldLeft(PropagateBinary, base, seq)

BinaryRuns(base, seq) ==
    \E h :
        /\ h[0] = base
        /\ \A k \in 1..Len(seq) : h[k] = PropagateBinary(h[k - 1], seq[k])
        /\ PropagateBinaries(base, seq) = h[Len(seq)]

LEMMA BinaryTrace ==
    ASSUME NEW base, NEW seq, NEW R, seq \in Seq(R)
    PROVE  BinaryRuns(base, seq)
<1> DEFINE n == Len(seq)
           Step(it, s) == IF s = {} THEN base
                          ELSE PropagateBinary(it[s \ {Max(s)}], seq[Max(s)])
           Iter(it, k) == it = [s \in SUBSET (1..k) |-> Step(it, s)]
           iter == CHOOSE it : Iter(it, n)
           C == {k \in 0..n : \E it : Iter(it, k)}
<1>1. n \in Nat /\ DOMAIN seq = 1..n
    OBVIOUS
<1>2. PropagateBinaries(base, seq) = iter[1..n]
    BY <1>1 DEF FoldLeft, MapThenFoldSet, PropagateBinaries
<1>3. ASSUME NEW k \in 0..n, \A j \in 0..(k - 1) : j \in C
      PROVE  k \in C
  <2>1. CASE k = 0
    <3> DEFINE it == [s \in SUBSET (1..k) |-> base]
    <3>1. 1..k = {}
      BY <2>1
    <3>2. Iter(it, k)
      BY <3>1
    <3> QED
      BY <3>2
  <2>2. CASE k # 0
    <3>1. k - 1 \in 0..(k - 1) /\ k \in 1..n
      BY <1>1, <2>2
    <3>2. PICK f : Iter(f, k - 1)
      BY <1>3, <3>1
    <3> DEFINE g == [s \in SUBSET (1..k) |-> IF k \in s THEN Step(f, s) ELSE f[s]]
    <3>3. ASSUME NEW s \in SUBSET (1..k)
          PROVE  g[s] = Step(g, s)
      <4>1. CASE k \in s
        <5>1. Max(s) = k /\ s \ {k} \in SUBSET (1..(k - 1)) /\ k \notin s \ {k}
          BY <3>1, <4>1, MaxLast
        <5>2. g[s \ {k}] = f[s \ {k}] /\ s # {}
          BY <4>1, <5>1
        <5>3. g[s] = Step(f, s)
          BY <4>1
        <5> QED
          BY <5>1, <5>2, <5>3
      <4>2. CASE k \notin s
        <5>1. s \in SUBSET (1..(k - 1))
          BY <3>1, <4>2, MaxLast
        <5>2. g[s] = f[s]
          BY <4>2
        <5>3. f[s] = Step(f, s)
          <6> HIDE DEF Step
          <6> QED
            BY <3>2, <5>1
        <5>4. ASSUME s # {}
              PROVE  k \notin s \ {Max(s)} /\ s \ {Max(s)} \in SUBSET (1..k)
          BY <4>2
        <5>5. s # {} => g[s \ {Max(s)}] = f[s \ {Max(s)}]
          BY <5>4
        <5> QED
          BY <5>2, <5>3, <5>5
      <4> QED
        BY <4>1, <4>2
    <3>4. Iter(g, k)
      <4>1. g = [s \in SUBSET (1..k) |-> g[s]]
        OBVIOUS
      <4> HIDE DEF g, Step
      <4> QED
        BY <3>3, <4>1
    <3> QED
      <4> HIDE DEF g, Iter
      <4> QED
        BY <3>4
  <2> QED
    BY <2>1, <2>2
<1>4. n \in C
  <2>1. \A k \in 0..n : k \in C
    <3> HIDE DEF n, C
    <3> QED
      BY <1>1, <1>3, UpwardInduction
  <2>2. n \in 0..n
    BY <1>1
  <2> QED
    <3> HIDE DEF n, C
    <3> QED
      BY <2>1, <2>2
<1>5. Iter(iter, n)
  <2> HIDE DEF Iter
  <2> QED
    BY <1>4
<1> DEFINE h == [k \in 0..n |-> iter[1..k]]
<1>6. h[0] = base
  <2>1. 1..0 = {} /\ 1..0 \in SUBSET (1..n) /\ 0 \in 0..n
    BY <1>1
  <2>2. iter[1..0] = Step(iter, 1..0)
    <3> HIDE DEF iter, Step
    <3> QED
      BY <1>5, <2>1
  <2> HIDE DEF iter
  <2> QED
    BY <2>1, <2>2
<1>7. ASSUME NEW k \in 1..n
      PROVE  h[k] = PropagateBinary(h[k - 1], seq[k])
  <2>1. /\ Max(1..k) = k /\ (1..k) \ {k} = 1..(k - 1) /\ 1..k # {}
        /\ 1..k \in SUBSET (1..n) /\ k \in 0..n /\ k - 1 \in 0..n
    BY <1>1, <1>7, MaxPrefix
  <2>2. iter[1..k] = Step(iter, 1..k)
    <3> HIDE DEF iter, Step
    <3> QED
      BY <1>5, <2>1
  <2> HIDE DEF iter
  <2> QED
    BY <2>1, <2>2
<1>8. h[n] = iter[1..n]
  <2> HIDE DEF iter
  <2> QED
    BY <1>1
<1> QED
  <2> HIDE DEF h, iter
  <2> QED
    BY <1>2, <1>6, <1>7, <1>8 DEF BinaryRuns

WatcherRuns(p, base, seq) ==
    \E h :
        /\ h[0] = base
        /\ \A k \in 1..Len(seq) : h[k] = PropagateWatcher(p, h[k - 1], seq[k])
        /\ PropagateWatchers(p, base, seq) = h[Len(seq)]

LEMMA WatcherTrace ==
    ASSUME NEW base, NEW seq, NEW R, seq \in Seq(R), NEW p
    PROVE  WatcherRuns(p, base, seq)
<1> DEFINE n == Len(seq)
           Step(it, s) == IF s = {} THEN base
                          ELSE PropagateWatcher(p, it[s \ {Max(s)}], seq[Max(s)])
           Iter(it, k) == it = [s \in SUBSET (1..k) |-> Step(it, s)]
           iter == CHOOSE it : Iter(it, n)
           C == {k \in 0..n : \E it : Iter(it, k)}
<1>1. n \in Nat /\ DOMAIN seq = 1..n
    OBVIOUS
<1>2. PropagateWatchers(p, base, seq) = iter[1..n]
    BY <1>1 DEF FoldLeft, MapThenFoldSet, PropagateWatchers
<1>3. ASSUME NEW k \in 0..n, \A j \in 0..(k - 1) : j \in C
      PROVE  k \in C
  <2>1. CASE k = 0
    <3> DEFINE it == [s \in SUBSET (1..k) |-> base]
    <3>1. 1..k = {}
      BY <2>1
    <3>2. Iter(it, k)
      BY <3>1
    <3> QED
      BY <3>2
  <2>2. CASE k # 0
    <3>1. k - 1 \in 0..(k - 1) /\ k \in 1..n
      BY <1>1, <2>2
    <3>2. PICK f : Iter(f, k - 1)
      BY <1>3, <3>1
    <3> DEFINE g == [s \in SUBSET (1..k) |-> IF k \in s THEN Step(f, s) ELSE f[s]]
    <3>3. ASSUME NEW s \in SUBSET (1..k)
          PROVE  g[s] = Step(g, s)
      <4>1. CASE k \in s
        <5>1. Max(s) = k /\ s \ {k} \in SUBSET (1..(k - 1)) /\ k \notin s \ {k}
          BY <3>1, <4>1, MaxLast
        <5>2. g[s \ {k}] = f[s \ {k}] /\ s # {}
          BY <4>1, <5>1
        <5>3. g[s] = Step(f, s)
          BY <4>1
        <5> QED
          BY <5>1, <5>2, <5>3
      <4>2. CASE k \notin s
        <5>1. s \in SUBSET (1..(k - 1))
          BY <3>1, <4>2, MaxLast
        <5>2. g[s] = f[s]
          BY <4>2
        <5>3. f[s] = Step(f, s)
          <6> HIDE DEF Step
          <6> QED
            BY <3>2, <5>1
        <5>4. ASSUME s # {}
              PROVE  k \notin s \ {Max(s)} /\ s \ {Max(s)} \in SUBSET (1..k)
          BY <4>2
        <5>5. s # {} => g[s \ {Max(s)}] = f[s \ {Max(s)}]
          BY <5>4
        <5> QED
          BY <5>2, <5>3, <5>5
      <4> QED
        BY <4>1, <4>2
    <3>4. Iter(g, k)
      <4>1. g = [s \in SUBSET (1..k) |-> g[s]]
        OBVIOUS
      <4> HIDE DEF g, Step
      <4> QED
        BY <3>3, <4>1
    <3> QED
      <4> HIDE DEF g, Iter
      <4> QED
        BY <3>4
  <2> QED
    BY <2>1, <2>2
<1>4. n \in C
  <2>1. \A k \in 0..n : k \in C
    <3> HIDE DEF n, C
    <3> QED
      BY <1>1, <1>3, UpwardInduction
  <2>2. n \in 0..n
    BY <1>1
  <2> QED
    <3> HIDE DEF n, C
    <3> QED
      BY <2>1, <2>2
<1>5. Iter(iter, n)
  <2> HIDE DEF Iter
  <2> QED
    BY <1>4
<1> DEFINE h == [k \in 0..n |-> iter[1..k]]
<1>6. h[0] = base
  <2>1. 1..0 = {} /\ 1..0 \in SUBSET (1..n) /\ 0 \in 0..n
    BY <1>1
  <2>2. iter[1..0] = Step(iter, 1..0)
    <3> HIDE DEF iter, Step
    <3> QED
      BY <1>5, <2>1
  <2> HIDE DEF iter
  <2> QED
    BY <2>1, <2>2
<1>7. ASSUME NEW k \in 1..n
      PROVE  h[k] = PropagateWatcher(p, h[k - 1], seq[k])
  <2>1. /\ Max(1..k) = k /\ (1..k) \ {k} = 1..(k - 1) /\ 1..k # {}
        /\ 1..k \in SUBSET (1..n) /\ k \in 0..n /\ k - 1 \in 0..n
    BY <1>1, <1>7, MaxPrefix
  <2>2. iter[1..k] = Step(iter, 1..k)
    <3> HIDE DEF iter, Step
    <3> QED
      BY <1>5, <2>1
  <2> HIDE DEF iter
  <2> QED
    BY <2>1, <2>2
<1>8. h[n] = iter[1..n]
  <2> HIDE DEF iter
  <2> QED
    BY <1>1
<1> QED
  <2> HIDE DEF h, iter
  <2> QED
    BY <1>2, <1>6, <1>7, <1>8 DEF WatcherRuns

Resolutions(base, seq) == FoldLeft(ResolveOn, base, seq)

ResolveRuns(base, seq) ==
    \E h :
        /\ h[0] = base
        /\ \A k \in 1..Len(seq) : h[k] = ResolveOn(h[k - 1], seq[k])
        /\ Resolutions(base, seq) = h[Len(seq)]

LEMMA ResolveTrace ==
    ASSUME NEW base, NEW seq, NEW R, seq \in Seq(R)
    PROVE  ResolveRuns(base, seq)
<1> DEFINE n == Len(seq)
           Step(it, s) == IF s = {} THEN base
                          ELSE ResolveOn(it[s \ {Max(s)}], seq[Max(s)])
           Iter(it, k) == it = [s \in SUBSET (1..k) |-> Step(it, s)]
           iter == CHOOSE it : Iter(it, n)
           C == {k \in 0..n : \E it : Iter(it, k)}
<1>1. n \in Nat /\ DOMAIN seq = 1..n
    OBVIOUS
<1>2. Resolutions(base, seq) = iter[1..n]
    BY <1>1 DEF FoldLeft, MapThenFoldSet, Resolutions
<1>3. ASSUME NEW k \in 0..n, \A j \in 0..(k - 1) : j \in C
      PROVE  k \in C
  <2>1. CASE k = 0
    <3> DEFINE it == [s \in SUBSET (1..k) |-> base]
    <3>1. 1..k = {}
      BY <2>1
    <3>2. Iter(it, k)
      BY <3>1
    <3> QED
      BY <3>2
  <2>2. CASE k # 0
    <3>1. k - 1 \in 0..(k - 1) /\ k \in 1..n
      BY <1>1, <2>2
    <3>2. PICK f : Iter(f, k - 1)
      BY <1>3, <3>1
    <3> DEFINE g == [s \in SUBSET (1..k) |-> IF k \in s THEN Step(f, s) ELSE f[s]]
    <3>3. ASSUME NEW s \in SUBSET (1..k)
          PROVE  g[s] = Step(g, s)
      <4>1. CASE k \in s
        <5>1. Max(s) = k /\ s \ {k} \in SUBSET (1..(k - 1)) /\ k \notin s \ {k}
          BY <3>1, <4>1, MaxLast
        <5>2. g[s \ {k}] = f[s \ {k}] /\ s # {}
          BY <4>1, <5>1
        <5>3. g[s] = Step(f, s)
          BY <4>1
        <5> QED
          BY <5>1, <5>2, <5>3
      <4>2. CASE k \notin s
        <5>1. s \in SUBSET (1..(k - 1))
          BY <3>1, <4>2, MaxLast
        <5>2. g[s] = f[s]
          BY <4>2
        <5>3. f[s] = Step(f, s)
          <6> HIDE DEF Step
          <6> QED
            BY <3>2, <5>1
        <5>4. ASSUME s # {}
              PROVE  k \notin s \ {Max(s)} /\ s \ {Max(s)} \in SUBSET (1..k)
          BY <4>2
        <5>5. s # {} => g[s \ {Max(s)}] = f[s \ {Max(s)}]
          BY <5>4
        <5> QED
          BY <5>2, <5>3, <5>5
      <4> QED
        BY <4>1, <4>2
    <3>4. Iter(g, k)
      <4>1. g = [s \in SUBSET (1..k) |-> g[s]]
        OBVIOUS
      <4> HIDE DEF g, Step
      <4> QED
        BY <3>3, <4>1
    <3> QED
      <4> HIDE DEF g, Iter
      <4> QED
        BY <3>4
  <2> QED
    BY <2>1, <2>2
<1>4. n \in C
  <2>1. \A k \in 0..n : k \in C
    <3> HIDE DEF n, C
    <3> QED
      BY <1>1, <1>3, UpwardInduction
  <2>2. n \in 0..n
    BY <1>1
  <2> QED
    <3> HIDE DEF n, C
    <3> QED
      BY <2>1, <2>2
<1>5. Iter(iter, n)
  <2> HIDE DEF Iter
  <2> QED
    BY <1>4
<1> DEFINE h == [k \in 0..n |-> iter[1..k]]
<1>6. h[0] = base
  <2>1. 1..0 = {} /\ 1..0 \in SUBSET (1..n) /\ 0 \in 0..n
    BY <1>1
  <2>2. iter[1..0] = Step(iter, 1..0)
    <3> HIDE DEF iter, Step
    <3> QED
      BY <1>5, <2>1
  <2> HIDE DEF iter
  <2> QED
    BY <2>1, <2>2
<1>7. ASSUME NEW k \in 1..n
      PROVE  h[k] = ResolveOn(h[k - 1], seq[k])
  <2>1. /\ Max(1..k) = k /\ (1..k) \ {k} = 1..(k - 1) /\ 1..k # {}
        /\ 1..k \in SUBSET (1..n) /\ k \in 0..n /\ k - 1 \in 0..n
    BY <1>1, <1>7, MaxPrefix
  <2>2. iter[1..k] = Step(iter, 1..k)
    <3> HIDE DEF iter, Step
    <3> QED
      BY <1>5, <2>1
  <2> HIDE DEF iter
  <2> QED
    BY <2>1, <2>2
<1>8. h[n] = iter[1..n]
  <2> HIDE DEF iter
  <2> QED
    BY <1>1
<1> QED
  <2> HIDE DEF h, iter
  <2> QED
    BY <1>2, <1>6, <1>7, <1>8 DEF ResolveRuns

RemoveRuns(base, seq, crs) ==
    \E h :
        /\ h[0] = base
        /\ \A k \in 1..Len(seq) : h[k] = (IF seq[k] \in crs THEN removeClause(h[k - 1], seq[k]) ELSE h[k - 1])
        /\ RemoveEach(base, crs, seq) = h[Len(seq)]

LEMMA RemoveTrace ==
    ASSUME NEW base, NEW seq, NEW R, seq \in Seq(R), NEW crs
    PROVE  RemoveRuns(base, seq, crs)
<1> DEFINE n == Len(seq)
           Step(it, s) == IF s = {} THEN base
                          ELSE (IF seq[Max(s)] \in crs THEN removeClause(it[s \ {Max(s)}], seq[Max(s)]) ELSE it[s \ {Max(s)}])
           Iter(it, k) == it = [s \in SUBSET (1..k) |-> Step(it, s)]
           iter == CHOOSE it : Iter(it, n)
           C == {k \in 0..n : \E it : Iter(it, k)}
<1>1. n \in Nat /\ DOMAIN seq = 1..n
    OBVIOUS
<1>2. RemoveEach(base, crs, seq) = iter[1..n]
    BY <1>1 DEF FoldLeft, MapThenFoldSet, RemoveEach
<1>3. ASSUME NEW k \in 0..n, \A j \in 0..(k - 1) : j \in C
      PROVE  k \in C
  <2>1. CASE k = 0
    <3> DEFINE it == [s \in SUBSET (1..k) |-> base]
    <3>1. 1..k = {}
      BY <2>1
    <3>2. Iter(it, k)
      BY <3>1
    <3> QED
      BY <3>2
  <2>2. CASE k # 0
    <3>1. k - 1 \in 0..(k - 1) /\ k \in 1..n
      BY <1>1, <2>2
    <3>2. PICK f : Iter(f, k - 1)
      BY <1>3, <3>1
    <3> DEFINE g == [s \in SUBSET (1..k) |-> IF k \in s THEN Step(f, s) ELSE f[s]]
    <3>3. ASSUME NEW s \in SUBSET (1..k)
          PROVE  g[s] = Step(g, s)
      <4>1. CASE k \in s
        <5>1. Max(s) = k /\ s \ {k} \in SUBSET (1..(k - 1)) /\ k \notin s \ {k}
          BY <3>1, <4>1, MaxLast
        <5>2. g[s \ {k}] = f[s \ {k}] /\ s # {}
          BY <4>1, <5>1
        <5>3. g[s] = Step(f, s)
          BY <4>1
        <5> QED
          BY <5>1, <5>2, <5>3
      <4>2. CASE k \notin s
        <5>1. s \in SUBSET (1..(k - 1))
          BY <3>1, <4>2, MaxLast
        <5>2. g[s] = f[s]
          BY <4>2
        <5>3. f[s] = Step(f, s)
          <6> HIDE DEF Step
          <6> QED
            BY <3>2, <5>1
        <5>4. ASSUME s # {}
              PROVE  k \notin s \ {Max(s)} /\ s \ {Max(s)} \in SUBSET (1..k)
          BY <4>2
        <5>5. s # {} => g[s \ {Max(s)}] = f[s \ {Max(s)}]
          BY <5>4
        <5> QED
          BY <5>2, <5>3, <5>5
      <4> QED
        BY <4>1, <4>2
    <3>4. Iter(g, k)
      <4>1. g = [s \in SUBSET (1..k) |-> g[s]]
        OBVIOUS
      <4> HIDE DEF g, Step
      <4> QED
        BY <3>3, <4>1
    <3> QED
      <4> HIDE DEF g, Iter
      <4> QED
        BY <3>4
  <2> QED
    BY <2>1, <2>2
<1>4. n \in C
  <2>1. \A k \in 0..n : k \in C
    <3> HIDE DEF n, C
    <3> QED
      BY <1>1, <1>3, UpwardInduction
  <2>2. n \in 0..n
    BY <1>1
  <2> QED
    <3> HIDE DEF n, C
    <3> QED
      BY <2>1, <2>2
<1>5. Iter(iter, n)
  <2> HIDE DEF Iter
  <2> QED
    BY <1>4
<1> DEFINE h == [k \in 0..n |-> iter[1..k]]
<1>6. h[0] = base
  <2>1. 1..0 = {} /\ 1..0 \in SUBSET (1..n) /\ 0 \in 0..n
    BY <1>1
  <2>2. iter[1..0] = Step(iter, 1..0)
    <3> HIDE DEF iter, Step
    <3> QED
      BY <1>5, <2>1
  <2> HIDE DEF iter
  <2> QED
    BY <2>1, <2>2
<1>7. ASSUME NEW k \in 1..n
      PROVE  h[k] = (IF seq[k] \in crs THEN removeClause(h[k - 1], seq[k]) ELSE h[k - 1])
  <2>1. /\ Max(1..k) = k /\ (1..k) \ {k} = 1..(k - 1) /\ 1..k # {}
        /\ 1..k \in SUBSET (1..n) /\ k \in 0..n /\ k - 1 \in 0..n
    BY <1>1, <1>7, MaxPrefix
  <2>2. iter[1..k] = Step(iter, 1..k)
    <3> HIDE DEF iter, Step
    <3> QED
      BY <1>5, <2>1
  <2> HIDE DEF iter
  <2> QED
    BY <2>1, <2>2
<1>8. h[n] = iter[1..n]
  <2> HIDE DEF iter
  <2> QED
    BY <1>1
<1> QED
  <2> HIDE DEF h, iter
  <2> QED
    BY <1>2, <1>6, <1>7, <1>8 DEF RemoveRuns

Reductions(base, seq) == FoldLeft(KeepOrRemove, base, seq)

ReduceRuns(base, seq) ==
    \E h :
        /\ h[0] = base
        /\ \A k \in 1..Len(seq) : h[k] = KeepOrRemove(h[k - 1], seq[k])
        /\ Reductions(base, seq) = h[Len(seq)]

LEMMA ReduceTrace ==
    ASSUME NEW base, NEW seq, NEW R, seq \in Seq(R)
    PROVE  ReduceRuns(base, seq)
<1> DEFINE n == Len(seq)
           Step(it, s) == IF s = {} THEN base
                          ELSE KeepOrRemove(it[s \ {Max(s)}], seq[Max(s)])
           Iter(it, k) == it = [s \in SUBSET (1..k) |-> Step(it, s)]
           iter == CHOOSE it : Iter(it, n)
           C == {k \in 0..n : \E it : Iter(it, k)}
<1>1. n \in Nat /\ DOMAIN seq = 1..n
    OBVIOUS
<1>2. Reductions(base, seq) = iter[1..n]
    BY <1>1 DEF FoldLeft, MapThenFoldSet, Reductions
<1>3. ASSUME NEW k \in 0..n, \A j \in 0..(k - 1) : j \in C
      PROVE  k \in C
  <2>1. CASE k = 0
    <3> DEFINE it == [s \in SUBSET (1..k) |-> base]
    <3>1. 1..k = {}
      BY <2>1
    <3>2. Iter(it, k)
      BY <3>1
    <3> QED
      BY <3>2
  <2>2. CASE k # 0
    <3>1. k - 1 \in 0..(k - 1) /\ k \in 1..n
      BY <1>1, <2>2
    <3>2. PICK f : Iter(f, k - 1)
      BY <1>3, <3>1
    <3> DEFINE g == [s \in SUBSET (1..k) |-> IF k \in s THEN Step(f, s) ELSE f[s]]
    <3>3. ASSUME NEW s \in SUBSET (1..k)
          PROVE  g[s] = Step(g, s)
      <4>1. CASE k \in s
        <5>1. Max(s) = k /\ s \ {k} \in SUBSET (1..(k - 1)) /\ k \notin s \ {k}
          BY <3>1, <4>1, MaxLast
        <5>2. g[s \ {k}] = f[s \ {k}] /\ s # {}
          BY <4>1, <5>1
        <5>3. g[s] = Step(f, s)
          BY <4>1
        <5> QED
          BY <5>1, <5>2, <5>3
      <4>2. CASE k \notin s
        <5>1. s \in SUBSET (1..(k - 1))
          BY <3>1, <4>2, MaxLast
        <5>2. g[s] = f[s]
          BY <4>2
        <5>3. f[s] = Step(f, s)
          <6> HIDE DEF Step
          <6> QED
            BY <3>2, <5>1
        <5>4. ASSUME s # {}
              PROVE  k \notin s \ {Max(s)} /\ s \ {Max(s)} \in SUBSET (1..k)
          BY <4>2
        <5>5. s # {} => g[s \ {Max(s)}] = f[s \ {Max(s)}]
          BY <5>4
        <5> QED
          BY <5>2, <5>3, <5>5
      <4> QED
        BY <4>1, <4>2
    <3>4. Iter(g, k)
      <4>1. g = [s \in SUBSET (1..k) |-> g[s]]
        OBVIOUS
      <4> HIDE DEF g, Step
      <4> QED
        BY <3>3, <4>1
    <3> QED
      <4> HIDE DEF g, Iter
      <4> QED
        BY <3>4
  <2> QED
    BY <2>1, <2>2
<1>4. n \in C
  <2>1. \A k \in 0..n : k \in C
    <3> HIDE DEF n, C
    <3> QED
      BY <1>1, <1>3, UpwardInduction
  <2>2. n \in 0..n
    BY <1>1
  <2> QED
    <3> HIDE DEF n, C
    <3> QED
      BY <2>1, <2>2
<1>5. Iter(iter, n)
  <2> HIDE DEF Iter
  <2> QED
    BY <1>4
<1> DEFINE h == [k \in 0..n |-> iter[1..k]]
<1>6. h[0] = base
  <2>1. 1..0 = {} /\ 1..0 \in SUBSET (1..n) /\ 0 \in 0..n
    BY <1>1
  <2>2. iter[1..0] = Step(iter, 1..0)
    <3> HIDE DEF iter, Step
    <3> QED
      BY <1>5, <2>1
  <2> HIDE DEF iter
  <2> QED
    BY <2>1, <2>2
<1>7. ASSUME NEW k \in 1..n
      PROVE  h[k] = KeepOrRemove(h[k - 1], seq[k])
  <2>1. /\ Max(1..k) = k /\ (1..k) \ {k} = 1..(k - 1) /\ 1..k # {}
        /\ 1..k \in SUBSET (1..n) /\ k \in 0..n /\ k - 1 \in 0..n
    BY <1>1, <1>7, MaxPrefix
  <2>2. iter[1..k] = Step(iter, 1..k)
    <3> HIDE DEF iter, Step
    <3> QED
      BY <1>5, <2>1
  <2> HIDE DEF iter
  <2> QED
    BY <2>1, <2>2
<1>8. h[n] = iter[1..n]
  <2> HIDE DEF iter
  <2> QED
    BY <1>1
<1> QED
  <2> HIDE DEF h, iter
  <2> QED
    BY <1>2, <1>6, <1>7, <1>8 DEF ReduceRuns

ExplainRuns(base, seq, s0) ==
    \E h :
        /\ h[0] = base
        /\ \A k \in 1..Len(seq) : h[k] = Explain(s0, h[k - 1], seq[k])
        /\ ExplainAll(s0, base, seq) = h[Len(seq)]

LEMMA ExplainTrace ==
    ASSUME NEW base, NEW seq, NEW R, seq \in Seq(R), NEW s0
    PROVE  ExplainRuns(base, seq, s0)
<1> DEFINE n == Len(seq)
           Step(it, s) == IF s = {} THEN base
                          ELSE Explain(s0, it[s \ {Max(s)}], seq[Max(s)])
           Iter(it, k) == it = [s \in SUBSET (1..k) |-> Step(it, s)]
           iter == CHOOSE it : Iter(it, n)
           C == {k \in 0..n : \E it : Iter(it, k)}
<1>1. n \in Nat /\ DOMAIN seq = 1..n
    OBVIOUS
<1>2. ExplainAll(s0, base, seq) = iter[1..n]
    BY <1>1 DEF FoldLeft, MapThenFoldSet, ExplainAll
<1>3. ASSUME NEW k \in 0..n, \A j \in 0..(k - 1) : j \in C
      PROVE  k \in C
  <2>1. CASE k = 0
    <3> DEFINE it == [s \in SUBSET (1..k) |-> base]
    <3>1. 1..k = {}
      BY <2>1
    <3>2. Iter(it, k)
      BY <3>1
    <3> QED
      BY <3>2
  <2>2. CASE k # 0
    <3>1. k - 1 \in 0..(k - 1) /\ k \in 1..n
      BY <1>1, <2>2
    <3>2. PICK f : Iter(f, k - 1)
      BY <1>3, <3>1
    <3> DEFINE g == [s \in SUBSET (1..k) |-> IF k \in s THEN Step(f, s) ELSE f[s]]
    <3>3. ASSUME NEW s \in SUBSET (1..k)
          PROVE  g[s] = Step(g, s)
      <4>1. CASE k \in s
        <5>1. Max(s) = k /\ s \ {k} \in SUBSET (1..(k - 1)) /\ k \notin s \ {k}
          BY <3>1, <4>1, MaxLast
        <5>2. g[s \ {k}] = f[s \ {k}] /\ s # {}
          BY <4>1, <5>1
        <5>3. g[s] = Step(f, s)
          BY <4>1
        <5> QED
          BY <5>1, <5>2, <5>3
      <4>2. CASE k \notin s
        <5>1. s \in SUBSET (1..(k - 1))
          BY <3>1, <4>2, MaxLast
        <5>2. g[s] = f[s]
          BY <4>2
        <5>3. f[s] = Step(f, s)
          <6> HIDE DEF Step
          <6> QED
            BY <3>2, <5>1
        <5>4. ASSUME s # {}
              PROVE  k \notin s \ {Max(s)} /\ s \ {Max(s)} \in SUBSET (1..k)
          BY <4>2
        <5>5. s # {} => g[s \ {Max(s)}] = f[s \ {Max(s)}]
          BY <5>4
        <5> QED
          BY <5>2, <5>3, <5>5
      <4> QED
        BY <4>1, <4>2
    <3>4. Iter(g, k)
      <4>1. g = [s \in SUBSET (1..k) |-> g[s]]
        OBVIOUS
      <4> HIDE DEF g, Step
      <4> QED
        BY <3>3, <4>1
    <3> QED
      <4> HIDE DEF g, Iter
      <4> QED
        BY <3>4
  <2> QED
    BY <2>1, <2>2
<1>4. n \in C
  <2>1. \A k \in 0..n : k \in C
    <3> HIDE DEF n, C
    <3> QED
      BY <1>1, <1>3, UpwardInduction
  <2>2. n \in 0..n
    BY <1>1
  <2> QED
    <3> HIDE DEF n, C
    <3> QED
      BY <2>1, <2>2
<1>5. Iter(iter, n)
  <2> HIDE DEF Iter
  <2> QED
    BY <1>4
<1> DEFINE h == [k \in 0..n |-> iter[1..k]]
<1>6. h[0] = base
  <2>1. 1..0 = {} /\ 1..0 \in SUBSET (1..n) /\ 0 \in 0..n
    BY <1>1
  <2>2. iter[1..0] = Step(iter, 1..0)
    <3> HIDE DEF iter, Step
    <3> QED
      BY <1>5, <2>1
  <2> HIDE DEF iter
  <2> QED
    BY <2>1, <2>2
<1>7. ASSUME NEW k \in 1..n
      PROVE  h[k] = Explain(s0, h[k - 1], seq[k])
  <2>1. /\ Max(1..k) = k /\ (1..k) \ {k} = 1..(k - 1) /\ 1..k # {}
        /\ 1..k \in SUBSET (1..n) /\ k \in 0..n /\ k - 1 \in 0..n
    BY <1>1, <1>7, MaxPrefix
  <2>2. iter[1..k] = Step(iter, 1..k)
    <3> HIDE DEF iter, Step
    <3> QED
      BY <1>5, <2>1
  <2> HIDE DEF iter
  <2> QED
    BY <2>1, <2>2
<1>8. h[n] = iter[1..n]
  <2> HIDE DEF iter
  <2> QED
    BY <1>1
<1> QED
  <2> HIDE DEF h, iter
  <2> QED
    BY <1>2, <1>6, <1>7, <1>8 DEF ExplainRuns

-----------------------------------------------------------------------------
(***************************************************************************)
(* The parts of a solver, and what putting a literal on the trail, going   *)
(* back to a level and beginning a level keep.                             *)
(***************************************************************************)

LEMMA LitFacts ==
    /\ \A l \in Lits : /\ Neg(l) \in Lits /\ Neg(Neg(l)) = l /\ Neg(l) # l
                       /\ Var(l) \in Vars /\ Var(Neg(l)) = Var(l)
    /\ \A l, m \in Lits : Var(l) = Var(m) <=> (l = m \/ l = Neg(m))
    /\ \A v \in Vars : v \in Lits /\ Neg(v) \in Lits /\ Var(v) = v
    BY BoundsAssumption DEF Lits, Neg, Var, Vars


\* The fields of a solver have their types.
LEMMA SolverTypes ==
    ASSUME NEW s \in Solvers
    PROVE  /\ s.ok \in BOOLEAN /\ s.nVars \in 0..MaxVars
           /\ s.ca \in Seq(Clauses)
           /\ s.watches \in [Lits -> Seq(Watchers)]
           /\ s.watchesBin \in [Lits -> Seq(Watchers)]
           /\ s.trail \in Seq(Entries) /\ s.trail_lim \in Seq(Nat)
           /\ s.qhead \in Nat /\ s.order_heap \in SUBSET Vars
           /\ s.simpDB_assigns \in Int /\ s.coLBDBound \in Nat
           /\ DecisionLevel(s) \in Nat /\ DOMAIN s.trail_lim = 1..DecisionLevel(s)
           /\ Len(s.trail) \in Nat /\ DOMAIN s.trail = 1..Len(s.trail)
           /\ \A i \in DOMAIN s.trail :
                  /\ s.trail[i] \in Entries /\ s.trail[i].lit \in Lits
                  /\ s.trail[i].level \in Nat /\ s.trail[i].reason \in Nat
           /\ \A d \in DOMAIN s.trail_lim : s.trail_lim[d] \in Nat
           /\ Len(s.ca) \in Nat /\ DOMAIN s.ca = 1..Len(s.ca)
           /\ \A cr \in DOMAIN s.ca :
                  /\ s.ca[cr] \in Clauses /\ s.ca[cr].lits \in Seq(Lits)
                  /\ Len(s.ca[cr].lits) \in Nat
                  /\ DOMAIN s.ca[cr].lits = 1..Len(s.ca[cr].lits)
                  /\ \A i \in DOMAIN s.ca[cr].lits : s.ca[cr].lits[i] \in Lits
<1>1. /\ s.ok \in BOOLEAN /\ s.nVars \in 0..MaxVars
      /\ s.ca \in Seq(Clauses)
      /\ s.watches \in [Lits -> Seq(Watchers)]
      /\ s.watchesBin \in [Lits -> Seq(Watchers)]
      /\ s.trail \in Seq(Entries) /\ s.trail_lim \in Seq(Nat)
      /\ s.qhead \in Nat /\ s.order_heap \in SUBSET Vars
      /\ s.simpDB_assigns \in Int /\ s.coLBDBound \in Nat
    BY DEF Solvers
<1>2. /\ DecisionLevel(s) \in Nat /\ DOMAIN s.trail_lim = 1..DecisionLevel(s)
      /\ \A d \in DOMAIN s.trail_lim : s.trail_lim[d] \in Nat
    BY <1>1 DEF DecisionLevel
<1>3. /\ Len(s.trail) \in Nat /\ DOMAIN s.trail = 1..Len(s.trail)
      /\ \A i \in DOMAIN s.trail : s.trail[i] \in Entries
    BY <1>1
<1>4. \A i \in DOMAIN s.trail :
          /\ s.trail[i].lit \in Lits
          /\ s.trail[i].level \in Nat /\ s.trail[i].reason \in Nat
    BY <1>3 DEF Entries
<1>5. /\ Len(s.ca) \in Nat /\ DOMAIN s.ca = 1..Len(s.ca)
      /\ \A cr \in DOMAIN s.ca : s.ca[cr] \in Clauses
    BY <1>1
<1>6. ASSUME NEW cr \in DOMAIN s.ca
      PROVE  /\ s.ca[cr].lits \in Seq(Lits)
             /\ Len(s.ca[cr].lits) \in Nat
             /\ DOMAIN s.ca[cr].lits = 1..Len(s.ca[cr].lits)
             /\ \A i \in DOMAIN s.ca[cr].lits : s.ca[cr].lits[i] \in Lits
  <2>1. s.ca[cr].lits \in Seq(Lits)
    BY <1>5 DEF Clauses
  <2> QED
    BY <2>1
<1> QED
    BY <1>1, <1>2, <1>3, <1>4, <1>5, <1>6

LEMMA VarsAreLits ==
    ASSUME NEW s \in Solvers
    PROVE  /\ s.nVars \in Nat
           /\ \A v \in 1..s.nVars : v \in Vars /\ v \in Lits /\ Neg(v) \in Lits /\ Var(v) = v
           /\ \A l \in Lits : Var(l) <= s.nVars => Var(l) \in 1..s.nVars
<1>1. s.nVars \in 0..MaxVars /\ MaxVars \in Nat
    BY SolverTypes, BoundsAssumption
<1>2. s.nVars \in Nat /\ \A v \in 1..s.nVars : v \in Vars
    BY <1>1 DEF Vars
<1>3. \A l \in Lits : Var(l) \in Vars
    BY LitFacts
<1> QED
    BY <1>1, <1>2, <1>3, LitFacts DEF Vars

\* A literal of the trail is found where it is.
LEMMA OnTrail ==
    ASSUME NEW s \in Solvers, TrailOK(s), NEW i \in DOMAIN s.trail, NEW l \in Lits,
           l = s.trail[i].lit \/ Neg(l) = s.trail[i].lit
    PROVE  Position(s, l) = i /\ LevelOf(s, l) = s.trail[i].level
<1>1. Var(s.trail[i].lit) = Var(l)
    BY LitFacts
<1>2. \A j \in DOMAIN s.trail : Var(s.trail[j].lit) = Var(l) => j = i
    BY <1>1 DEF TrailOK
<1>3. Position(s, l) = i
    BY <1>1, <1>2 DEF Position
<1> QED
    BY <1>3 DEF LevelOf

LEMMA Values ==
    ASSUME NEW s \in Solvers, TrailOK(s), NEW l \in Lits
    PROVE  /\ ~(IsTrue(s, l) /\ IsFalse(s, l))
           /\ IsUndef(s, l) => \A i \in DOMAIN s.trail : Var(s.trail[i].lit) # Var(l)
           /\ (\A i \in DOMAIN s.trail : Var(s.trail[i].lit) # Var(l)) => IsUndef(s, l)
<1>1. \A i \in DOMAIN s.trail : s.trail[i].lit \in Lits
    BY SolverTypes
<1>2. ASSUME NEW i \in DOMAIN s.trail, NEW j \in DOMAIN s.trail,
             s.trail[i].lit = l, s.trail[j].lit = Neg(l)
      PROVE  FALSE
  <2>1. i = j
    BY <1>2, LitFacts DEF TrailOK
  <2> QED
    BY <1>2, <2>1, LitFacts
<1> QED
    BY <1>1, <1>2, LitFacts DEF IsTrue, IsFalse, IsUndef

\* Levels do not fall along the trail; the last began at LastLim.
LEMMA Levels ==
    ASSUME NEW s \in Solvers, TrailOK(s)
    PROVE  /\ LastLim(s) \in Nat /\ LastLim(s) <= s.qhead /\ s.qhead <= Len(s.trail)
           /\ \A i, j \in DOMAIN s.trail : i <= j => s.trail[i].level <= s.trail[j].level
           /\ \A i \in DOMAIN s.trail :
                  /\ s.trail[i].level <= DecisionLevel(s)
                  /\ s.trail[i].level = DecisionLevel(s) <=> LastLim(s) < i
                  /\ s.trail[i].level > 0 => s.trail_lim[s.trail[i].level] < i
<1> DEFINE D == DecisionLevel(s)
<1>1. /\ D \in Nat /\ DOMAIN s.trail_lim = 1..D
      /\ \A d \in 1..D : s.trail_lim[d] \in Nat
      /\ \A i \in DOMAIN s.trail : i \in Nat /\ s.trail[i].level \in Nat
      /\ s.qhead \in Nat /\ Len(s.trail) \in Nat
      /\ DOMAIN s.trail = 1..Len(s.trail)
    BY SolverTypes
<1>2. /\ \A i \in DOMAIN s.trail :
             /\ s.trail[i].level <= D
             /\ \A d \in 1..D : d <= s.trail[i].level <=> s.trail_lim[d] < i
      /\ \A d \in 1..D : s.trail_lim[d] <= s.qhead
      /\ s.qhead <= Len(s.trail)
    BY <1>1 DEF TrailOK
<1> HIDE DEF D
<1>3. LastLim(s) \in Nat /\ LastLim(s) <= s.qhead
    BY <1>1, <1>2 DEF LastLim, D
<1>4. ASSUME NEW i \in DOMAIN s.trail, NEW j \in DOMAIN s.trail, i <= j
      PROVE  s.trail[i].level <= s.trail[j].level
  <2>1. CASE s.trail[i].level = 0
    BY <1>1, <2>1
  <2>2. CASE s.trail[i].level # 0
    <3>1. s.trail[i].level \in 1..D
      BY <1>1, <1>2, <2>2
    <3>2. s.trail_lim[s.trail[i].level] < i
      BY <1>1, <1>2, <3>1
    <3>3. s.trail_lim[s.trail[i].level] < j
      BY <1>1, <1>4, <3>1, <3>2
    <3> QED
      BY <1>2, <3>1, <3>3
  <2> QED
    BY <2>1, <2>2
<1>5. ASSUME NEW i \in DOMAIN s.trail
      PROVE  /\ s.trail[i].level = D <=> LastLim(s) < i
             /\ s.trail[i].level > 0 => s.trail_lim[s.trail[i].level] < i
  <2>1. CASE D = 0
    BY <1>1, <1>2, <2>1 DEF LastLim, D
  <2>2. CASE D # 0
    <3>1. D \in 1..D /\ LastLim(s) = s.trail_lim[D]
      BY <1>1, <2>2 DEF LastLim, D
    <3>2. s.trail[i].level > 0 => s.trail[i].level \in 1..D
      BY <1>1, <1>2
    <3> QED
      BY <1>1, <1>2, <3>1, <3>2
  <2> QED
    BY <2>1, <2>2
<1> QED
    BY <1>1, <1>2, <1>3, <1>4, <1>5 DEF D

LEMMA EnqueueFields ==
    ASSUME NEW s \in Solvers, NEW l \in Lits, NEW from \in Nat
    PROVE  LET t == uncheckedEnqueue(s, l, from)
               n == Len(s.trail)
           IN  /\ t \in Solvers
               /\ t.trail \in Seq(Entries) /\ Len(t.trail) = n + 1
               /\ DOMAIN t.trail = 1..(n + 1)
               /\ \A i \in 1..n : t.trail[i] = s.trail[i]
               /\ t.trail[n + 1] = [lit |-> l, level |-> DecisionLevel(s), reason |-> from]
               /\ t.ca = s.ca /\ t.watches = s.watches
               /\ t.trail_lim = s.trail_lim /\ t.qhead = s.qhead
               /\ t.nVars = s.nVars /\ t.ok = s.ok /\ t.watchesBin = s.watchesBin
               /\ t.order_heap = s.order_heap /\ t.simpDB_assigns = s.simpDB_assigns
               /\ t.coLBDBound = s.coLBDBound /\ DecisionLevel(t) = DecisionLevel(s)
<1> DEFINE e == [lit |-> l, level |-> DecisionLevel(s), reason |-> from]
           x == Append(s.trail, e)
           t == [s EXCEPT !.trail = x]
<1>1. s.trail \in Seq(Entries) /\ Len(s.trail_lim) \in Nat
  BY DEF Solvers
<1>2. e \in Entries
  BY <1>1 DEF Entries, DecisionLevel
<1>3. /\ x \in Seq(Entries) /\ Len(x) = Len(s.trail) + 1
      /\ DOMAIN x = 1..(Len(s.trail) + 1)
      /\ \A i \in 1..Len(s.trail) : x[i] = s.trail[i]
      /\ x[Len(s.trail) + 1] = e
  <2> HIDE DEF e
  <2> QED
    BY <1>1, <1>2
<1>4. /\ t \in Solvers
      /\ t.trail = x
               /\ t.ca = s.ca /\ t.watches = s.watches
               /\ t.trail_lim = s.trail_lim /\ t.qhead = s.qhead
               /\ t.nVars = s.nVars /\ t.ok = s.ok /\ t.watchesBin = s.watchesBin
               /\ t.order_heap = s.order_heap /\ t.simpDB_assigns = s.simpDB_assigns
               /\ t.coLBDBound = s.coLBDBound /\ DecisionLevel(t) = DecisionLevel(s)
  <2> HIDE DEF x
  <2> QED
    BY <1>3 DEF Solvers, DecisionLevel
<1>5. uncheckedEnqueue(s, l, from) = t
    BY DEF uncheckedEnqueue
<1> QED
  <2> HIDE DEF t, x
  <2> QED
    BY <1>3, <1>4, <1>5

\* A literal without a value joins the trail: what was false stays false, and
\* the trail stays cut into levels.
LEMMA EnqueueKeeps ==
    ASSUME NEW s, Consistent(s), NEW l \in Lits, Var(l) <= s.nVars, IsUndef(s, l),
           NEW from \in Nat,
           DecisionLevel(s) > 0 => (from = CRef_Undef <=> Len(s.trail) = LastLim(s)),
           from # CRef_Undef /\ DecisionLevel(s) > 0 =>
               LET c == s.ca[from].lits
               IN  /\ from \in AttachedIn(s)
                   /\ l = c[1] \/ (Len(c) = 2 /\ l = c[2])
                   /\ \A m \in ToSet(c) \ {l} : IsFalse(s, m)
    PROVE  LET t == uncheckedEnqueue(s, l, from)
           IN  /\ Consistent(t)
               /\ \A m \in Lits : IsTrue(t, m) <=> IsTrue(s, m) \/ m = l
               /\ \A n \in 0..Len(s.trail) : Visited(s, n) => Visited(t, n)
               /\ LastLim(t) = LastLim(s)
<1> DEFINE t == uncheckedEnqueue(s, l, from)
           n == Len(s.trail)
           D == DecisionLevel(s)
<1>1. s \in Solvers /\ TrailOK(s) /\ DecisionsFirst(s) /\ HeapOK(s) /\ ClausesOK(s)
      /\ ReasonsOK(s)
    BY DEF Consistent
<1>2. /\ t \in Solvers
      /\ t.trail \in Seq(Entries) /\ Len(t.trail) = n + 1
      /\ DOMAIN t.trail = 1..(n + 1)
      /\ \A i \in 1..n : t.trail[i] = s.trail[i]
      /\ t.trail[n + 1] = [lit |-> l, level |-> D, reason |-> from]
      /\ t.ca = s.ca /\ t.watches = s.watches /\ t.watchesBin = s.watchesBin
      /\ t.trail_lim = s.trail_lim /\ t.qhead = s.qhead
      /\ t.nVars = s.nVars /\ t.order_heap = s.order_heap
      /\ DecisionLevel(t) = D
    BY <1>1, EnqueueFields
<1>3. /\ n \in Nat /\ DOMAIN s.trail = 1..n
      /\ D \in Nat /\ DOMAIN s.trail_lim = 1..D
      /\ \A d \in 1..D : s.trail_lim[d] \in Nat
      /\ s.qhead \in Nat
      /\ \A i \in 1..n : s.trail[i].lit \in Lits /\ s.trail[i].level \in Nat
    BY <1>1, SolverTypes
<1>4. /\ t.trail[n + 1].lit = l /\ t.trail[n + 1].level = D
      /\ t.trail[n + 1].reason = from
    BY <1>2
<1>5. LastLim(t) = LastLim(s)
    BY <1>2 DEF LastLim
<1>6. /\ LastLim(s) \in Nat /\ LastLim(s) <= s.qhead /\ s.qhead <= n
      /\ \A i \in 1..n : s.trail[i].level <= D
    BY <1>1, <1>3, Levels
<1>7. \A i \in 1..n : Var(s.trail[i].lit) # Var(l)
    BY <1>1, <1>3, Values
<1> HIDE DEF t, n, D
<1>8. TrailOK(t)
  <2>1. ASSUME NEW i \in 1..(n + 1), NEW j \in 1..(n + 1),
               Var(t.trail[i].lit) = Var(t.trail[j].lit)
        PROVE  i = j
    <3>1. CASE i \in 1..n /\ j \in 1..n
      BY <1>1, <1>2, <1>3, <2>1, <3>1 DEF TrailOK
    <3>2. CASE i = n + 1 /\ j = n + 1
      BY <3>2
    <3>3. CASE i \in 1..n /\ j = n + 1
      BY <1>2, <1>4, <1>7, <2>1, <3>3
    <3>4. CASE i = n + 1 /\ j \in 1..n
      BY <1>2, <1>4, <1>7, <2>1, <3>4
    <3> QED
      BY <1>3, <3>1, <3>2, <3>3, <3>4
  <2>2. ASSUME NEW i \in 1..(n + 1)
        PROVE  /\ Var(t.trail[i].lit) <= t.nVars
               /\ t.trail[i].level <= D
               /\ \A d \in 1..D : d <= t.trail[i].level <=> s.trail_lim[d] < i
    <3>1. CASE i \in 1..n
      BY <1>1, <1>2, <1>3, <3>1 DEF TrailOK, D
    <3>2. CASE i = n + 1
      <4>1. \A d \in 1..D : s.trail_lim[d] < n + 1
        BY <1>1, <1>3, <1>6 DEF TrailOK
      <4> QED
        BY <1>2, <1>3, <1>4, <3>2, <4>1
    <3> QED
      BY <1>3, <3>1, <3>2
  <2>3. t.qhead <= Len(t.trail)
    BY <1>2, <1>3, <1>6
  <2> QED
    BY <1>1, <1>2, <1>3, <2>1, <2>2, <2>3 DEF TrailOK
<1>9. DecisionsFirst(t)
  <2>1. ASSUME NEW i \in 1..(n + 1), t.trail[i].level > 0
        PROVE  t.trail[i].reason = CRef_Undef <=> i = t.trail_lim[t.trail[i].level] + 1
    <3>1. CASE i \in 1..n
      BY <1>1, <1>2, <1>3, <2>1, <3>1 DEF DecisionsFirst
    <3>2. CASE i = n + 1
      <4>1. D > 0 /\ LastLim(s) = s.trail_lim[D]
        BY <1>3, <1>4, <2>1, <3>2 DEF LastLim, D
      <4> QED
        BY SMTT(30), <1>2, <1>3, <1>4, <1>6, <3>2, <4>1 DEF D, n
    <3> QED
      BY <1>3, <3>1, <3>2
  <2> QED
    BY <1>2, <2>1 DEF DecisionsFirst
<1>10. \A m \in Lits : IsTrue(t, m) <=> IsTrue(s, m) \/ m = l
  <2>1. n + 1 \in 1..(n + 1) /\ \A i \in 1..n : i \in 1..(n + 1)
    BY <1>3
  <2>2. \A i \in 1..(n + 1) : i \in 1..n \/ i = n + 1
    BY <1>3
  <2> QED
    BY <1>2, <1>3, <1>4, <2>1, <2>2 DEF IsTrue
<1>11. HeapOK(t)
  <2>1. \A v \in 1..s.nVars : v \in Lits
    BY <1>1, VarsAreLits
  <2> QED
    BY <1>1, <1>2, <1>10, <2>1, LitFacts DEF HeapOK, IsUndef, IsFalse
<1>12. ClausesOK(t)
    BY <1>1, <1>2 DEF ClausesOK, AttachedIn
<1>13. ReasonsOK(t)
  <2>1. ASSUME NEW i \in 1..(n + 1), t.trail[i].reason # CRef_Undef, t.trail[i].level > 0
        PROVE  ReasonOK(t, i)
    <3>1. CASE i \in 1..n
      <4>1. ReasonOK(s, i) /\ t.trail[i] = s.trail[i]
        BY <1>1, <1>2, <1>3, <2>1, <3>1 DEF ReasonsOK
      <4>2. \A j \in 1..(i - 1) : t.trail[j] = s.trail[j]
        BY <1>2, <1>3, <3>1
      <4> QED
        BY <1>2, <4>1, <4>2 DEF ReasonOK, AttachedIn
    <3>2. CASE i = n + 1
      <4>1. from # CRef_Undef /\ D > 0
        BY <1>4, <2>1, <3>2
      <4>2. /\ from \in AttachedIn(s)
            /\ l = s.ca[from].lits[1] \/ (Len(s.ca[from].lits) = 2 /\ l = s.ca[from].lits[2])
            /\ \A m \in ToSet(s.ca[from].lits) \ {l} : IsFalse(s, m)
        BY <4>1 DEF D
      <4>3. \A m \in ToSet(s.ca[from].lits) \ {l} :
                \E j \in 1..(i - 1) : t.trail[j].lit = Neg(m)
        <5>1. i - 1 = n
          BY <1>3, <3>2
        <5> QED
          BY <1>2, <1>3, <4>2, <5>1 DEF IsFalse, IsTrue
      <4> QED
        BY <1>2, <1>4, <3>2, <4>2, <4>3 DEF ReasonOK, AttachedIn
    <3> QED
      BY <1>3, <3>1, <3>2
  <2> QED
    BY <1>2, <2>1 DEF ReasonsOK
<1>14. ASSUME NEW k \in 0..n, Visited(s, k)
       PROVE  Visited(t, k)
  <2>1. ASSUME NEW i \in 1..n, NEW w, Blocked(s, i, w)
        PROVE  Blocked(t, i, w)
    <3>1. PICK j \in 1..n : s.trail[j].lit = w.blocker /\ s.trail[j].level <= s.trail[i].level
      BY <1>3, <2>1 DEF Blocked
    <3>2. j \in 1..(n + 1)
      BY <1>3
    <3> QED
      BY <1>2, <3>1, <3>2 DEF Blocked
  <2>2. ASSUME NEW i \in 1..(n + 1), i <= k
        PROVE  i \in 1..n
    BY <1>3, <2>2
  <2> QED
    BY <1>2, <1>3, <1>14, <2>1, <2>2 DEF Visited
<1> QED
    BY <1>2, <1>5, <1>8, <1>9, <1>10, <1>11, <1>12, <1>13, <1>14 DEF Consistent, t, n

LEMMA CancelFields ==
    ASSUME NEW s \in Solvers, NEW level \in Nat, level < DecisionLevel(s),
           s.trail_lim[level + 1] <= Len(s.trail)
    PROVE  LET t == cancelUntil(s, level)
               n == s.trail_lim[level + 1]
           IN  /\ t \in Solvers /\ n \in Nat
               /\ Len(t.trail) = n /\ DOMAIN t.trail = 1..n
               /\ \A i \in 1..n : t.trail[i] = s.trail[i]
               /\ DecisionLevel(t) = level /\ DOMAIN t.trail_lim = 1..level
               /\ \A d \in 1..level : t.trail_lim[d] = s.trail_lim[d]
               /\ t.qhead = n /\ t.nVars = s.nVars /\ t.ok = s.ok
               /\ t.ca = s.ca /\ t.watches = s.watches /\ t.watchesBin = s.watchesBin
               /\ t.order_heap = s.order_heap
                                 \cup {Var(s.trail[i].lit) : i \in n + 1 .. Len(s.trail)}
               /\ t.simpDB_assigns = s.simpDB_assigns /\ t.coLBDBound = s.coLBDBound
<1> DEFINE n == s.trail_lim[level + 1]
           x == SubSeq(s.trail, 1, n)
           y == SubSeq(s.trail_lim, 1, level)
           z == s.order_heap \cup {Var(s.trail[i].lit) : i \in n + 1 .. Len(s.trail)}
           t == [s EXCEPT !.trail = x, !.trail_lim = y, !.qhead = n, !.order_heap = z]
<1>1. /\ s.trail \in Seq(Entries) /\ s.trail_lim \in Seq(Nat)
      /\ Len(s.trail) \in Nat /\ DecisionLevel(s) \in Nat
      /\ DecisionLevel(s) = Len(s.trail_lim)
      /\ s.order_heap \in SUBSET Vars
    BY SolverTypes DEF DecisionLevel
<1>2. n \in Nat
    BY <1>1
<1>3. /\ x \in Seq(Entries) /\ Len(x) = n /\ DOMAIN x = 1..n
      /\ \A i \in 1..n : x[i] = s.trail[i]
  <2> HIDE DEF n
  <2> QED
    BY <1>1, <1>2 DEF n
<1>4. /\ y \in Seq(Nat) /\ Len(y) = level /\ DOMAIN y = 1..level
      /\ \A d \in 1..level : y[d] = s.trail_lim[d]
    BY SMTT(30), <1>1
<1>5. z \in SUBSET Vars
  <2>1. \A i \in n + 1 .. Len(s.trail) : i \in DOMAIN s.trail
    <3> HIDE DEF n
    <3> QED
      BY <1>1, <1>2
  <2> QED
    BY <1>1, <2>1, SolverTypes, LitFacts
<1>6. cancelUntil(s, level) = t
  <2>1. ~(DecisionLevel(s) <= level)
    BY <1>1
  <2> QED
    BY <2>1 DEF cancelUntil
<1>7. /\ t \in Solvers
      /\ t.trail = x /\ t.trail_lim = y /\ t.qhead = n /\ t.order_heap = z
      /\ t.nVars = s.nVars /\ t.ok = s.ok
      /\ t.ca = s.ca /\ t.watches = s.watches /\ t.watchesBin = s.watchesBin
      /\ t.simpDB_assigns = s.simpDB_assigns /\ t.coLBDBound = s.coLBDBound
  <2> HIDE DEF x, y, z, n
  <2> QED
    BY <1>2, <1>3, <1>4, <1>5 DEF Solvers
<1> QED
  <2> HIDE DEF t, x, y
  <2> QED
    BY <1>2, <1>3, <1>4, <1>6, <1>7 DEF DecisionLevel

\* Backtracking leaves the levels up to the given one as they were.
LEMMA CancelKeeps ==
    ASSUME NEW s, Consistent(s), NEW level \in Nat, level < DecisionLevel(s)
    PROVE  LET t == cancelUntil(s, level)
               n == s.trail_lim[level + 1]
           IN  /\ Consistent(t)
               /\ n \in Nat /\ n <= Len(s.trail) /\ t.qhead = n /\ Len(t.trail) = n
               /\ DecisionLevel(t) = level
               /\ \A i \in DOMAIN s.trail : s.trail[i].level <= level <=> i <= n
               /\ \A i \in 1..n : t.trail[i] = s.trail[i]
               /\ t.nVars = s.nVars /\ t.ok = s.ok
               /\ t.ca = s.ca /\ t.watches = s.watches /\ t.watchesBin = s.watchesBin
               /\ Fixed(t) = Fixed(s)
               /\ \A k \in Nat : Visited(s, k) /\ n <= k => Visited(t, n)
               /\ \A lits : AssumptionsFirst(s, lits) => AssumptionsFirst(t, lits)
<1> DEFINE t == cancelUntil(s, level)
           n == s.trail_lim[level + 1]
           D == DecisionLevel(s)
<1>1. s \in Solvers /\ TrailOK(s) /\ DecisionsFirst(s) /\ HeapOK(s) /\ ClausesOK(s)
      /\ ReasonsOK(s)
    BY DEF Consistent
<1>2. /\ Len(s.trail) \in Nat /\ DOMAIN s.trail = 1..Len(s.trail)
      /\ D \in Nat /\ DOMAIN s.trail_lim = 1..D
      /\ \A d \in 1..D : s.trail_lim[d] \in Nat
      /\ s.qhead \in Nat
      /\ \A i \in DOMAIN s.trail : s.trail[i].lit \in Lits /\ s.trail[i].level \in Nat
    BY <1>1, SolverTypes
<1>3. level + 1 \in 1..D /\ \A d \in 1..level : d \in 1..D
    BY <1>2
<1>4. n <= s.qhead /\ s.qhead <= Len(s.trail) /\ n \in Nat
    BY <1>1, <1>2, <1>3 DEF TrailOK
<1>5. n <= Len(s.trail)
    BY <1>2, <1>4
<1>6. /\ t \in Solvers /\ n \in Nat
      /\ Len(t.trail) = n /\ DOMAIN t.trail = 1..n
      /\ \A i \in 1..n : t.trail[i] = s.trail[i]
      /\ DecisionLevel(t) = level /\ DOMAIN t.trail_lim = 1..level
      /\ \A d \in 1..level : t.trail_lim[d] = s.trail_lim[d]
      /\ t.qhead = n /\ t.nVars = s.nVars /\ t.ok = s.ok
      /\ t.ca = s.ca /\ t.watches = s.watches /\ t.watchesBin = s.watchesBin
      /\ t.order_heap = s.order_heap
                        \cup {Var(s.trail[i].lit) : i \in n + 1 .. Len(s.trail)}
    BY <1>1, <1>5, CancelFields
<1> HIDE DEF t, n, D
<1>7. ASSUME NEW i \in DOMAIN s.trail
      PROVE  s.trail[i].level <= level <=> i <= n
  <2>1. level + 1 <= s.trail[i].level <=> s.trail_lim[level + 1] < i
    BY <1>1, <1>2, <1>3 DEF TrailOK
  <2>2. i \in Nat /\ s.trail[i].level \in Nat /\ n \in Nat /\ n = s.trail_lim[level + 1]
    BY <1>2, <1>6 DEF n
  <2> QED
    BY <2>1, <2>2
<1>8. \A i \in 1..n : i \in DOMAIN s.trail /\ s.trail[i].level <= level
    BY <1>2, <1>5, <1>6, <1>7
<1>9. TrailOK(t)
  <2>1. \A i, j \in 1..n : Var(t.trail[i].lit) = Var(t.trail[j].lit) => i = j
    BY <1>1, <1>6, <1>8 DEF TrailOK
  <2>2. \A i \in 1..n : Var(t.trail[i].lit) <= t.nVars
    BY <1>1, <1>6, <1>8 DEF TrailOK
  <2>3. \A d \in 1..level : t.trail_lim[d] <= n
    <3>1. \A d \in 1..level : d \in 1..D /\ d <= level + 1
      BY <1>3
    <3>2. \A d \in 1..level : s.trail_lim[d] <= s.trail_lim[level + 1]
      BY <1>1, <1>2, <1>3, <3>1 DEF TrailOK
    <3> QED
      BY <1>6, <3>2 DEF n
  <2>4. \A d, e \in 1..level : d <= e => t.trail_lim[d] <= t.trail_lim[e]
    BY <1>1, <1>2, <1>3, <1>6 DEF TrailOK
  <2>5. ASSUME NEW i \in 1..n
        PROVE  /\ t.trail[i].level <= level
               /\ \A d \in 1..level : d <= t.trail[i].level <=> t.trail_lim[d] < i
    BY <1>1, <1>2, <1>3, <1>6, <1>8 DEF TrailOK
  <2> QED
    BY <1>6, <2>1, <2>2, <2>3, <2>4, <2>5 DEF TrailOK
<1>10. DecisionsFirst(t)
  <2>1. ASSUME NEW i \in 1..n, t.trail[i].level > 0
        PROVE  t.trail[i].reason = CRef_Undef <=> i = t.trail_lim[t.trail[i].level] + 1
    <3>1. t.trail[i] = s.trail[i] /\ s.trail[i].level \in 1..level
      BY <1>2, <1>6, <1>8, <2>1
    <3> QED
      BY <1>1, <1>6, <1>8, <2>1, <3>1 DEF DecisionsFirst
  <2> QED
    BY <1>6, <2>1 DEF DecisionsFirst
<1>11. HeapOK(t)
  <2>1. ASSUME NEW v \in 1..s.nVars, IsUndef(t, v), v \notin s.order_heap
        PROVE  v \in t.order_heap
    <3>1. v \in Lits /\ Neg(v) \in Lits /\ Var(v) = v
      BY <1>1, VarsAreLits
    <3>2. ~IsUndef(s, v)
      BY <1>1, <2>1 DEF HeapOK
    <3>3. PICK i \in DOMAIN s.trail : Var(s.trail[i].lit) = v
      BY <1>1, <3>1, <3>2, Values
    <3>4. i \notin 1..n
      BY <1>6, <1>9, <2>1, <3>1, <3>3, Values
    <3>5. i \in n + 1 .. Len(s.trail)
      BY <1>2, <1>6, <3>4
    <3> QED
      BY <1>6, <3>3, <3>5
  <2>2. t.order_heap \subseteq 1..t.nVars
    <3>1. s.order_heap \subseteq 1..s.nVars
      BY <1>1 DEF HeapOK
    <3>2. \A i \in DOMAIN s.trail : Var(s.trail[i].lit) \in 1..s.nVars
      BY <1>1, SolverTypes, VarsAreLits DEF TrailOK
    <3>3. \A i \in n + 1 .. Len(s.trail) : i \in DOMAIN s.trail
      <4>1. PICK m \in Nat : m = Len(s.trail) /\ DOMAIN s.trail = 1..m
        BY <1>1, SolverTypes
      <4>2. n \in Nat
        BY <1>6
      <4> QED
        BY <4>1, <4>2
    <3> QED
      BY <1>6, <3>1, <3>2, <3>3
  <2> QED
    BY <1>6, <2>1, <2>2 DEF HeapOK
<1>12. ClausesOK(t)
    BY <1>1, <1>6 DEF ClausesOK, AttachedIn
<1>13. ReasonsOK(t)
  <2>1. ASSUME NEW i \in 1..n, t.trail[i].reason # CRef_Undef, t.trail[i].level > 0
        PROVE  ReasonOK(t, i)
    <3>1. ReasonOK(s, i) /\ t.trail[i] = s.trail[i]
      BY <1>1, <1>6, <1>8, <2>1 DEF ReasonsOK
    <3>2. \A j \in 1..(i - 1) : t.trail[j] = s.trail[j]
      BY <1>6
    <3> QED
      BY ZenonT(30), <1>6, <3>1, <3>2 DEF ReasonOK, AttachedIn
  <2> QED
    BY <1>6, <2>1 DEF ReasonsOK
<1>14. Fixed(t) = Fixed(s)
  <2>1. \A i \in DOMAIN s.trail : s.trail[i].level = 0 => i \in 1..n
    BY <1>2, <1>6, <1>7
  <2> QED
    BY <1>6, <1>8, <2>1 DEF Fixed
<1>15. ASSUME NEW k \in Nat, Visited(s, k), n <= k
       PROVE  Visited(t, n)
  <2>1. ASSUME NEW i \in 1..n, NEW w, Blocked(s, i, w)
        PROVE  Blocked(t, i, w)
    <3>1. PICK j \in DOMAIN s.trail :
              s.trail[j].lit = w.blocker /\ s.trail[j].level <= s.trail[i].level
      BY <2>1 DEF Blocked
    <3>2. s.trail[j].level <= level
      BY <1>2, <1>8, <3>1
    <3>3. j \in 1..n
      BY <1>2, <1>6, <1>7, <3>2
    <3> QED
      BY <1>6, <3>1, <3>3 DEF Blocked
  <2>2. \A i \in 1..n : i <= k
    BY <1>6, <1>15
  <2> QED
    BY <1>6, <1>8, <1>15, <2>1, <2>2 DEF Visited
<1>16. ASSUME NEW lits, AssumptionsFirst(s, lits)
       PROVE  AssumptionsFirst(t, lits)
  <2>1. ASSUME NEW d \in 1..level, d <= Len(lits)
        PROVE  \E i \in 1..n : t.trail[i].lit = lits[d] /\ t.trail[i].level <= d
    <3>1. PICK i \in DOMAIN s.trail : s.trail[i].lit = lits[d] /\ s.trail[i].level <= d
      BY <1>2, <1>3, <1>16, <2>1 DEF AssumptionsFirst
    <3>2. s.trail[i].level <= level
      BY <1>2, <3>1
    <3>3. i \in 1..n
      BY <1>2, <1>6, <1>7, <3>2
    <3> QED
      BY <1>6, <3>1, <3>3
  <2> QED
    BY ZenonT(30), <1>6, <1>8, <1>16, <2>1 DEF AssumptionsFirst
<1> QED
    BY <1>5, <1>6, <1>7, <1>9, <1>10, <1>11, <1>12, <1>13, <1>14, <1>15, <1>16
       DEF Consistent, t, n

\* Levels may begin when the queue is empty, and more than one at a time.
LEMMA LevelsBegin ==
    ASSUME NEW s, Consistent(s), s.qhead = Len(s.trail),
           NEW m \in Nat, NEW lims \in Seq(Nat), Len(lims) = DecisionLevel(s) + m,
           \A d \in 1..DecisionLevel(s) : lims[d] = s.trail_lim[d],
           \A d \in DecisionLevel(s) + 1 .. Len(lims) : lims[d] = Len(s.trail),
           NEW t \in Solvers, t.trail_lim = lims, t.trail = s.trail,
           t.qhead = s.qhead, t.nVars = s.nVars, t.ca = s.ca,
           t.order_heap = s.order_heap
    PROVE  /\ Consistent(t)
           /\ DecisionLevel(t) = Len(lims)
           /\ m > 0 => LastLim(t) = Len(t.trail)
<1> DEFINE D == DecisionLevel(s)
           n == Len(s.trail)
<1>1. s \in Solvers /\ TrailOK(s) /\ DecisionsFirst(s) /\ HeapOK(s) /\ ClausesOK(s)
      /\ ReasonsOK(s)
    BY DEF Consistent
<1>2. /\ n \in Nat /\ DOMAIN s.trail = 1..n
      /\ D \in Nat /\ DOMAIN s.trail_lim = 1..D
      /\ \A d \in 1..D : s.trail_lim[d] \in Nat
      /\ \A i \in DOMAIN s.trail : s.trail[i].level \in Nat
    BY <1>1, SolverTypes
<1>4. DecisionLevel(t) = D + m /\ DOMAIN lims = 1..(D + m) /\ Len(lims) = D + m
    BY <1>2 DEF DecisionLevel
<1>5. /\ \A d \in 1..D : d \in 1..(D + m) /\ lims[d] = s.trail_lim[d] /\ lims[d] <= n
      /\ \A d \in 1..(D + m) : d \in 1..D \/ (d > D /\ lims[d] = n)
  <2>1. \A d \in 1..D : s.trail_lim[d] <= n
    BY <1>1, <1>2 DEF TrailOK
  <2>2. \A d \in 1..D : d \in 1..(D + m)
    BY <1>2
  <2>3. \A d \in 1..(D + m) : d \in 1..D \/ d \in D + 1 .. D + m
    BY <1>2
  <2>4. \A d \in D + 1 .. D + m : d > D /\ lims[d] = n
    BY <1>2, <1>4
  <2> QED
    BY <2>1, <2>2, <2>3, <2>4
<1> HIDE DEF D, n
<1>6. TrailOK(t)
  <2>1. \A d \in 1..(D + m) : lims[d] <= n
    BY <1>2, <1>5
  <2>2. ASSUME NEW d \in 1..(D + m), NEW e \in 1..(D + m), d <= e
        PROVE  lims[d] <= lims[e]
    <3>1. CASE e \in 1..D
      <4>1. d \in 1..D
        BY <1>2, <2>2, <3>1
      <4> QED
        BY <1>1, <1>2, <1>5, <2>2, <3>1, <4>1 DEF TrailOK
    <3>2. CASE e \notin 1..D
      BY <1>5, <2>1, <3>2
    <3> QED
      BY <3>1, <3>2
  <2>3. ASSUME NEW i \in 1..n
        PROVE  /\ s.trail[i].level <= D + m
               /\ \A d \in 1..(D + m) : d <= s.trail[i].level <=> lims[d] < i
    <3>1. s.trail[i].level <= D /\ s.trail[i].level \in Nat
      BY <1>1, <1>2 DEF TrailOK, D
    <3>2. ASSUME NEW d \in 1..(D + m)
          PROVE  d <= s.trail[i].level <=> lims[d] < i
      <4>1. CASE d \in 1..D
        BY <1>1, <1>2, <1>5, <4>1 DEF TrailOK
      <4>2. CASE d > D /\ lims[d] = n
        BY <1>2, <3>1, <4>2
      <4> QED
        BY <1>5, <4>1, <4>2
    <3> QED
      BY <1>2, <3>1, <3>2
  <2>4. /\ \A i, j \in 1..n : Var(s.trail[i].lit) = Var(s.trail[j].lit) => i = j
        /\ \A i \in 1..n : Var(s.trail[i].lit) <= s.nVars
        /\ s.qhead = n
    BY <1>1, <1>2 DEF TrailOK, n
  <2>5. /\ DOMAIN t.trail = 1..n /\ Len(t.trail) = n /\ DOMAIN t.trail_lim = 1..(D + m)
        /\ n <= n
    BY <1>2, <1>4 DEF n
  <2>6. \A d \in 1..(D + m) : t.trail_lim[d] <= t.qhead
    BY <2>1, <2>4
  <2>7. \A d, e \in 1..(D + m) : d <= e => t.trail_lim[d] <= t.trail_lim[e]
    BY <2>2
  <2> QED
    BY <1>4, <2>3, <2>4, <2>5, <2>6, <2>7 DEF TrailOK
<1>7. DecisionsFirst(t)
  <2>1. \A i \in 1..n : s.trail[i].level > 0 => s.trail[i].level \in 1..D
    BY SMTT(30), <1>1, <1>2 DEF TrailOK, D
  <2>2. \A i \in 1..n : s.trail[i].level > 0 =>
            lims[s.trail[i].level] = s.trail_lim[s.trail[i].level]
    BY <1>5, <2>1
  <2>3. \A i \in 1..n : s.trail[i].level > 0 =>
            (s.trail[i].reason = CRef_Undef <=> i = s.trail_lim[s.trail[i].level] + 1)
    BY <1>1, <1>2 DEF DecisionsFirst
  <2>4. ASSUME NEW i \in 1..n, t.trail[i].level > 0
        PROVE  t.trail[i].reason = CRef_Undef <=> i = t.trail_lim[t.trail[i].level] + 1
    <3>1. t.trail[i] = s.trail[i] /\ t.trail_lim = lims
      OBVIOUS
    <3>2. s.trail[i].level > 0
      BY <2>4, <3>1
    <3>3. lims[s.trail[i].level] = s.trail_lim[s.trail[i].level]
      BY <2>2, <3>2
    <3>4. s.trail[i].reason = CRef_Undef <=> i = s.trail_lim[s.trail[i].level] + 1
      BY <2>3, <3>2
    <3> QED
      BY <3>1, <3>3, <3>4
  <2> QED
    BY <1>2, <2>4 DEF DecisionsFirst
<1>8. HeapOK(t) /\ ClausesOK(t) /\ ReasonsOK(t)
    BY SMTT(30), <1>1 DEF HeapOK, ClausesOK, ReasonsOK, ReasonOK, AttachedIn, IsUndef,
                      IsFalse, IsTrue
<1>9. m > 0 => LastLim(t) = Len(t.trail)
  <2>1. m > 0 => D + m \in 1..(D + m) /\ D + m \notin 1..D /\ D + m # 0
    BY <1>2
  <2> QED
    BY <1>4, <1>5, <2>1 DEF LastLim, n
<1> QED
    BY <1>4, <1>6, <1>7, <1>8, <1>9 DEF Consistent

\* What depends on the literals and levels of the trail alone.
LEMMA SameTrail ==
    ASSUME NEW s, NEW t, t.trail = s.trail
    PROVE  /\ Fixed(t) = Fixed(s)
           /\ t.watches = s.watches /\ t.watchesBin = s.watchesBin =>
                  \A n : Visited(s, n) => Visited(t, n)
           /\ \A l : /\ IsTrue(t, l) <=> IsTrue(s, l)
                     /\ IsFalse(t, l) <=> IsFalse(s, l)
                     /\ IsUndef(t, l) <=> IsUndef(s, l)
                     /\ LevelOf(t, l) = LevelOf(s, l) /\ Position(t, l) = Position(s, l)
    BY DEF Fixed, Visited, Blocked, IsTrue, IsFalse, IsUndef, LevelOf, Position

\* What depends on the clauses and their watchers alone.
LEMMA SameClauses ==
    ASSUME NEW s, NEW t, t.ca = s.ca, t.watches = s.watches, t.watchesBin = s.watchesBin
    PROVE  /\ AttachedIn(t) = AttachedIn(s)
           /\ WatchersOK(s) => WatchersOK(t)
           /\ WatchedOK(s) => WatchedOK(t)
<1>1. AttachedIn(t) = AttachedIn(s)
    BY DEF AttachedIn
<1>2. \A p, w : /\ Watches(t, p, w) <=> Watches(s, p, w)
                /\ WatchesBinary(t, p, w) <=> WatchesBinary(s, p, w)
    BY <1>1 DEF Watches, WatchesBinary
<1>3. WatchersOK(s) => WatchersOK(t)
    BY <1>2 DEF WatchersOK
<1>4. WatchedOK(s) => WatchedOK(t)
    BY <1>1 DEF WatchedOK
<1> QED
    BY <1>1, <1>3, <1>4

\* What the clauses mean depends on them and on the literals of level 0.
LEMMA SameMeaning ==
    ASSUME NEW s, NEW t, t.ca = s.ca, t.nVars = s.nVars, Fixed(t) = Fixed(s), NEW F
    PROVE  /\ Sound(s, F) => Sound(t, F)
           /\ Complete(s, F) => Complete(t, F)
    BY DEF Sound, Complete, Satisfies, AttachedIn, ListOf

\* An assumption, or a literal branched on, begins a level.
LEMMA DecisionKeeps ==
    ASSUME NEW s, Consistent(s), s.qhead = Len(s.trail),
           NEW l \in Lits, Var(l) <= s.nVars, IsUndef(s, l)
    PROVE  LET t == uncheckedEnqueue(newDecisionLevel(s), l, CRef_Undef)
           IN  /\ Consistent(t)
               /\ t.qhead = s.qhead /\ t.nVars = s.nVars /\ t.ok = s.ok
               /\ t.ca = s.ca /\ t.watches = s.watches /\ t.watchesBin = s.watchesBin
               /\ t.order_heap = s.order_heap
               /\ DecisionLevel(t) = DecisionLevel(s) + 1
               /\ Len(t.trail) = Len(s.trail) + 1
               /\ \A i \in DOMAIN s.trail : t.trail[i] = s.trail[i]
               /\ t.trail[Len(s.trail) + 1] =
                      [lit |-> l, level |-> DecisionLevel(s) + 1, reason |-> CRef_Undef]
               /\ Fixed(t) = Fixed(s)
               /\ \A n \in 0..Len(s.trail) : Visited(s, n) => Visited(t, n)
<1> DEFINE lims == Append(s.trail_lim, Len(s.trail))
           u == newDecisionLevel(s)
           t == uncheckedEnqueue(u, l, CRef_Undef)
           D == DecisionLevel(s)
           n == Len(s.trail)
<1>1. s \in Solvers /\ TrailOK(s)
    BY DEF Consistent
<1>2. /\ n \in Nat /\ DOMAIN s.trail = 1..n /\ D \in Nat /\ s.trail_lim \in Seq(Nat)
      /\ D = Len(s.trail_lim)
      /\ \A i \in 1..n : s.trail[i].level \in Nat
    BY <1>1, SolverTypes DEF DecisionLevel
<1>3. /\ lims \in Seq(Nat) /\ Len(lims) = D + 1
      /\ \A d \in 1..D : lims[d] = s.trail_lim[d]
      /\ \A d \in D + 1 .. Len(lims) : lims[d] = n
  <2> HIDE DEF n
  <2> QED
    BY <1>2 DEF n
<1>4. u = [s EXCEPT !.trail_lim = lims]
    BY DEF newDecisionLevel
<1>5. /\ Consistent(u) /\ DecisionLevel(u) = D + 1 /\ u.trail = s.trail
      /\ LastLim(u) = n
      /\ u.qhead = s.qhead /\ u.nVars = s.nVars /\ u.ok = s.ok
      /\ u.ca = s.ca /\ u.watches = s.watches /\ u.watchesBin = s.watchesBin
      /\ u.order_heap = s.order_heap
  <2> HIDE DEF u, lims
  <2>1. /\ u \in Solvers /\ u.trail_lim = lims /\ u.trail = s.trail
        /\ u.qhead = s.qhead /\ u.nVars = s.nVars /\ u.ok = s.ok
        /\ u.ca = s.ca /\ u.watches = s.watches /\ u.watchesBin = s.watchesBin
        /\ u.order_heap = s.order_heap
    BY <1>1, <1>3, <1>4 DEF Solvers
  <2> QED
    BY <1>3, <2>1, LevelsBegin
<1> HIDE DEF u, D, n
<1>6. IsUndef(u, l) /\ u \in Solvers /\ CRef_Undef \in Nat
    BY <1>5, SameTrail DEF Consistent, CRef_Undef
<1>7. /\ Consistent(t)
      /\ \A k \in 0..n : Visited(u, k) => Visited(t, k)
  <2>1. DecisionLevel(u) > 0 => (CRef_Undef = CRef_Undef <=> Len(u.trail) = LastLim(u))
    BY <1>5 DEF n
  <2> QED
    BY <1>5, <1>6, <2>1, EnqueueKeeps DEF n
<1>8. /\ Len(t.trail) = n + 1 /\ DOMAIN t.trail = 1..(n + 1)
      /\ \A i \in 1..n : t.trail[i] = s.trail[i]
      /\ t.trail[n + 1] = [lit |-> l, level |-> D + 1, reason |-> CRef_Undef]
      /\ t.ca = s.ca /\ t.watches = s.watches /\ t.watchesBin = s.watchesBin
      /\ t.qhead = s.qhead /\ t.nVars = s.nVars /\ t.order_heap = s.order_heap
      /\ t.ok = s.ok
      /\ DecisionLevel(t) = D + 1
    BY <1>5, <1>6, EnqueueFields DEF n
<1>9. Fixed(t) = Fixed(s)
  <2>1. t.trail[n + 1].level # 0
    BY <1>2, <1>8
  <2>2. \A i \in 1..(n + 1) : i \in 1..n \/ i = n + 1
    BY <1>2
  <2> QED
    BY SMTT(30), <1>2, <1>8, <2>1, <2>2 DEF Fixed
<1>10. \A k \in 0..n : Visited(s, k) => Visited(t, k)
    BY <1>5, <1>7, SameTrail
<1> QED
    BY <1>2, <1>7, <1>8, <1>9, <1>10 DEF t, u, D, n

-----------------------------------------------------------------------------
(***************************************************************************)
(* A clause comes into being and is watched.                               *)
(***************************************************************************)

\* Two literals of a clause change places.
LEMMA SwapFacts ==
    ASSUME NEW c \in Seq(Lits), NEW a \in 1..Len(c), NEW b \in 1..Len(c)
    PROVE  LET d == Swap(c, a, b)
           IN  /\ d \in Seq(Lits) /\ Len(d) = Len(c) /\ DOMAIN d = 1..Len(c)
               /\ ToSet(d) = ToSet(c)
               /\ d[a] = c[b] /\ d[b] = c[a]
               /\ \A i \in 1..Len(c) : i # a /\ i # b => d[i] = c[i]
               /\ Distinct(c) => Distinct(d)
<1> DEFINE d == Swap(c, a, b)
<1>1. DOMAIN c = 1..Len(c) /\ Len(c) \in Nat /\ \A i \in 1..Len(c) : c[i] \in Lits
    OBVIOUS
<1>2. d = [i \in 1..Len(c) |-> IF i = b THEN c[a] ELSE IF i = a THEN c[b] ELSE c[i]]
    BY <1>1 DEF Swap
<1> HIDE DEF d
<1>3. /\ d[a] = c[b] /\ d[b] = c[a]
      /\ \A i \in 1..Len(c) : i # a /\ i # b => d[i] = c[i]
      /\ DOMAIN d = 1..Len(c)
    BY <1>2
<1>4. d \in Seq(Lits) /\ Len(d) = Len(c)
    BY <1>1, <1>2
<1>5. ToSet(d) = ToSet(c)
  <2>1. \A i \in 1..Len(c) : \E j \in 1..Len(c) : d[i] = c[j]
    BY <1>3
  <2>2. \A i \in 1..Len(c) : \E j \in 1..Len(c) : c[i] = d[j]
    BY <1>3
  <2>3. ToSet(d) = {d[i] : i \in 1..Len(c)} /\ ToSet(c) = {c[i] : i \in 1..Len(c)}
    BY <1>1, <1>3 DEF ToSet
  <2>4. \A x : x \in ToSet(d) => x \in ToSet(c)
    BY <2>1, <2>3
  <2>5. \A x : x \in ToSet(c) => x \in ToSet(d)
    BY <2>2, <2>3
  <2> QED
    BY <2>4, <2>5
<1>6. Distinct(c) => Distinct(d)
    BY <1>1, <1>3 DEF Distinct
<1> QED
    BY <1>3, <1>4, <1>5, <1>6 DEF d

LEMMA AppendTwo ==
    ASSUME NEW f \in [Lits -> Seq(Watchers)], NEW a \in Lits, NEW b \in Lits, a # b,
           NEW v \in Watchers, NEW w \in Watchers
    PROVE  LET g == [q \in Lits |-> IF q = b THEN Append(f[b], w)
                                    ELSE IF q = a THEN Append(f[a], v) ELSE f[q]]
           IN  /\ g \in [Lits -> Seq(Watchers)]
               /\ g[a] = Append(f[a], v) /\ g[b] = Append(f[b], w)
               /\ \A q \in Lits : q # a /\ q # b => g[q] = f[q]
<1>1. Append(f[a], v) \in Seq(Watchers) /\ Append(f[b], w) \in Seq(Watchers)
    OBVIOUS
<1> QED
    BY <1>1

LEMMA NewClauseFields ==
    ASSUME NEW s \in Solvers, NEW lits \in Seq(Lits), Len(lits) >= 2, Distinct(lits),
           NEW list \in Lists, NEW lbd \in Nat
    PROVE  LET t == NewClause(s, lits, list, lbd)
               n == Len(s.ca) + 1
           IN  /\ t \in Solvers
               /\ t.trail = s.trail /\ t.trail_lim = s.trail_lim /\ t.qhead = s.qhead
               /\ t.nVars = s.nVars /\ t.ok = s.ok /\ t.order_heap = s.order_heap
               /\ t.simpDB_assigns = s.simpDB_assigns /\ t.coLBDBound = s.coLBDBound
               /\ t.ca \in Seq(Clauses) /\ Len(t.ca) = n /\ DOMAIN t.ca = 1..n
               /\ \A i \in 1..Len(s.ca) : t.ca[i] = s.ca[i]
               /\ t.ca[n].lits = lits /\ t.ca[n].list = list
               /\ t.ca[n].learnt = (list = "learnts")
               /\ Len(lits) = 2 =>
                      /\ t.watches = s.watches
                      /\ TwoAdded(s.watchesBin, t.watchesBin, lits[1], lits[2], n)
               /\ Len(lits) # 2 =>
                      /\ t.watchesBin = s.watchesBin
                      /\ TwoAdded(s.watches, t.watches, lits[1], lits[2], n)
<1> DEFINE n == Len(s.ca) + 1
           e == [lits |-> lits, list |-> list, learnt |-> list = "learnts",
                 lbd |-> lbd, canBeDel |-> TRUE]
           x == Append(s.ca, e)
           u == [s EXCEPT !.ca = x]
           a == Neg(lits[1])
           b == Neg(lits[2])
           v == Watcher(n, lits[2])
           w == Watcher(n, lits[1])
           G(f) == [q \in Lits |-> IF q = b THEN Append(f[b], w)
                                   ELSE IF q = a THEN Append(f[a], v) ELSE f[q]]
           t == NewClause(s, lits, list, lbd)
<1>1. /\ lits[1] \in Lits /\ lits[2] \in Lits /\ lits[1] # lits[2] /\ n \in Nat
      /\ 1 \in DOMAIN lits /\ 2 \in DOMAIN lits
    BY SolverTypes DEF Distinct
<1>2. a \in Lits /\ b \in Lits /\ a # b
    BY <1>1, LitFacts
<1>3. v \in Watchers /\ w \in Watchers
    BY <1>1 DEF Watcher, Watchers
<1>4. e \in Clauses /\ e.lits = lits /\ e.list = list /\ e.learnt = (list = "learnts")
    BY DEF Clauses
<1>5. /\ x \in Seq(Clauses) /\ Len(x) = n /\ DOMAIN x = 1..n
      /\ \A i \in 1..Len(s.ca) : x[i] = s.ca[i]
      /\ x[n] = e
  <2> HIDE DEF e
  <2> QED
    BY <1>4, SolverTypes
<1>6. /\ u \in Solvers /\ u.ca = x /\ u.watches = s.watches
      /\ u.watchesBin = s.watchesBin
               /\ u.trail = s.trail /\ u.trail_lim = s.trail_lim /\ u.qhead = s.qhead
               /\ u.nVars = s.nVars /\ u.ok = s.ok /\ u.order_heap = s.order_heap
               /\ u.simpDB_assigns = s.simpDB_assigns /\ u.coLBDBound = s.coLBDBound
  <2> HIDE DEF x
  <2> QED
    BY <1>5 DEF Solvers
<1>7. t = attachClause(u, n)
    BY DEF NewClause
<1>8. u.ca[n].lits = lits
    BY <1>4, <1>5, <1>6
<1> HIDE DEF u, x, e, t
<1>9. CASE Len(lits) = 2
  <2> DEFINE g == G(s.watchesBin)
  <2>1. t = [u EXCEPT !.watchesBin[Neg(lits[1])] = Append(@, Watcher(n, lits[2])),
                      !.watchesBin[Neg(lits[2])] = Append(@, Watcher(n, lits[1]))]
    BY <1>7, <1>8, <1>9 DEF attachClause
  <2>2. t = [u EXCEPT !.watchesBin = g]
    <3>1. u.watchesBin \in [Lits -> Seq(Watchers)] /\ u.watchesBin = s.watchesBin
      BY <1>6, SolverTypes
    <3> QED
      BY <1>2, <2>1, <3>1
  <2> HIDE DEF a, b, v, w
  <2>3. /\ g \in [Lits -> Seq(Watchers)]
        /\ g[a] = Append(s.watchesBin[a], v) /\ g[b] = Append(s.watchesBin[b], w)
        /\ \A q \in Lits : q # a /\ q # b => g[q] = s.watchesBin[q]
    BY <1>2, <1>3, SolverTypes, AppendTwo
  <2>4. /\ t \in Solvers /\ t.ca = x /\ t.watches = s.watches
        /\ t.watchesBin = g
               /\ t.trail = s.trail /\ t.trail_lim = s.trail_lim /\ t.qhead = s.qhead
               /\ t.nVars = s.nVars /\ t.ok = s.ok /\ t.order_heap = s.order_heap
               /\ t.simpDB_assigns = s.simpDB_assigns /\ t.coLBDBound = s.coLBDBound
    <3> HIDE DEF g
    <3> QED
      BY <1>6, <2>2, <2>3 DEF Solvers
  <2> HIDE DEF g
  <2>5. /\ t.ca[n].lits = lits /\ t.ca[n].list = list /\ t.ca[n].learnt = (list = "learnts")
        /\ \A i \in 1..Len(s.ca) : t.ca[i] = s.ca[i]
    BY <1>4, <1>5, <2>4
  <2> QED
    BY <1>5, <1>9, <2>3, <2>4, <2>5 DEF t, a, b, v, w, TwoAdded
<1>10. CASE Len(lits) # 2
  <2> DEFINE g == G(s.watches)
  <2>1. t = [u EXCEPT !.watches[Neg(lits[1])] = Append(@, Watcher(n, lits[2])),
                      !.watches[Neg(lits[2])] = Append(@, Watcher(n, lits[1]))]
    BY <1>7, <1>8, <1>10 DEF attachClause
  <2>2. t = [u EXCEPT !.watches = g]
    <3>1. u.watches \in [Lits -> Seq(Watchers)] /\ u.watches = s.watches
      BY <1>6, SolverTypes
    <3> QED
      BY <1>2, <2>1, <3>1
  <2> HIDE DEF a, b, v, w
  <2>3. /\ g \in [Lits -> Seq(Watchers)]
        /\ g[a] = Append(s.watches[a], v) /\ g[b] = Append(s.watches[b], w)
        /\ \A q \in Lits : q # a /\ q # b => g[q] = s.watches[q]
    BY <1>2, <1>3, SolverTypes, AppendTwo
  <2>4. /\ t \in Solvers /\ t.ca = x /\ t.watchesBin = s.watchesBin
        /\ t.watches = g
               /\ t.trail = s.trail /\ t.trail_lim = s.trail_lim /\ t.qhead = s.qhead
               /\ t.nVars = s.nVars /\ t.ok = s.ok /\ t.order_heap = s.order_heap
               /\ t.simpDB_assigns = s.simpDB_assigns /\ t.coLBDBound = s.coLBDBound
    <3> HIDE DEF g
    <3> QED
      BY <1>6, <2>2, <2>3 DEF Solvers
  <2> HIDE DEF g
  <2>5. /\ t.ca[n].lits = lits /\ t.ca[n].list = list /\ t.ca[n].learnt = (list = "learnts")
        /\ \A i \in 1..Len(s.ca) : t.ca[i] = s.ca[i]
    BY <1>4, <1>5, <2>4
  <2> QED
    BY <1>5, <1>10, <2>3, <2>4, <2>5 DEF t, a, b, v, w, TwoAdded
<1> QED
    BY <1>9, <1>10

\* The literals of clauses are moved, or what else is noted of them changes.
LEMMA Rewritten ==
    ASSUME NEW s, Consistent(s), NEW t \in Solvers,
           t.trail = s.trail, t.trail_lim = s.trail_lim, t.qhead = s.qhead,
           t.nVars = s.nVars, t.order_heap = s.order_heap,
           DOMAIN t.ca = DOMAIN s.ca,
           \A cr \in DOMAIN s.ca : t.ca[cr].list = "freed" <=> s.ca[cr].list = "freed",
           \A cr \in AttachedIn(s) :
               LET c == s.ca[cr].lits
                   d == t.ca[cr].lits
               IN  /\ Len(d) = Len(c) /\ ToSet(d) = ToSet(c) /\ Distinct(d)
                   /\ t.ca[cr].learnt => t.ca[cr].list # "clauses"
                   /\ Len(c) > 2 => d[1] = c[1] \/ ~IsTrue(s, c[1])
    PROVE  /\ Consistent(t)
           /\ AttachedIn(t) = AttachedIn(s) /\ DecisionLevel(t) = DecisionLevel(s)
           /\ LastLim(t) = LastLim(s)
           /\ Fixed(t) = Fixed(s)
           /\ \A F : Sound(s, F) => Sound(t, F)
           /\ ListOf(s, "clauses") \subseteq ListOf(t, "clauses") =>
                  \A F : Complete(s, F) => Complete(t, F)
<1>1. s \in Solvers /\ TrailOK(s) /\ DecisionsFirst(s) /\ HeapOK(s) /\ ClausesOK(s)
      /\ ReasonsOK(s)
    BY DEF Consistent
<1>2. AttachedIn(t) = AttachedIn(s) /\ AttachedIn(s) \subseteq DOMAIN s.ca
    BY DEF AttachedIn
<1>3. DecisionLevel(t) = DecisionLevel(s) /\ LastLim(t) = LastLim(s)
    BY DEF DecisionLevel, LastLim
<1>4. TrailOK(t) /\ DecisionsFirst(t)
    BY <1>1, <1>3 DEF TrailOK, DecisionsFirst
<1>5. HeapOK(t) /\ Fixed(t) = Fixed(s)
    BY <1>1, SameTrail DEF HeapOK
<1>6. ASSUME NEW cr \in AttachedIn(s)
      PROVE  LET d == t.ca[cr].lits
             IN  /\ Len(d) >= 2 /\ Distinct(d)
                 /\ \A i \in DOMAIN d : Var(d[i]) <= t.nVars
                 /\ t.ca[cr].learnt => t.ca[cr].list # "clauses"
  <2>1. \A i \in DOMAIN t.ca[cr].lits : t.ca[cr].lits[i] \in ToSet(s.ca[cr].lits)
    BY DEF ToSet
  <2>2. \A l \in ToSet(s.ca[cr].lits) : Var(l) <= s.nVars
    BY <1>1 DEF ClausesOK, ToSet
  <2> QED
    BY <1>1, <2>1, <2>2 DEF ClausesOK
<1>7. ClausesOK(t)
    BY <1>2, <1>6 DEF ClausesOK
<1>8. ASSUME NEW i \in DOMAIN t.trail, t.trail[i].reason # CRef_Undef, t.trail[i].level > 0
      PROVE  ReasonOK(t, i)
  <2> DEFINE cr == s.trail[i].reason
             c == s.ca[cr].lits
             d == t.ca[cr].lits
             l == s.trail[i].lit
  <2>1. /\ cr \in AttachedIn(s) /\ (l = c[1] \/ (Len(c) = 2 /\ l = c[2]))
        /\ \A m \in ToSet(c) \ {l} : \E j \in 1 .. i - 1 : s.trail[j].lit = Neg(m)
    BY <1>1, <1>8 DEF ReasonsOK, ReasonOK
  <2>2. /\ c \in Seq(Lits) /\ Len(c) \in Nat /\ DOMAIN c = 1..Len(c)
        /\ d \in Seq(Lits) /\ DOMAIN d = 1..Len(c) /\ Len(d) = Len(c) /\ ToSet(d) = ToSet(c)
        /\ Len(c) >= 2
        /\ Len(c) > 2 => d[1] = c[1] \/ ~IsTrue(s, c[1])
    BY <1>1, <1>2, <2>1, SolverTypes DEF ClausesOK
  <2>3. IsTrue(s, l)
    BY DEF IsTrue
  <2> HIDE DEF cr, c, d, l
  <2>4. l = d[1] \/ (Len(d) = 2 /\ l = d[2])
    <3>1. CASE Len(c) = 2
      <4>1. l \in ToSet(d)
        <5>1. 1 \in DOMAIN c /\ 2 \in DOMAIN c
          BY <2>2, <3>1
        <5>2. l \in ToSet(c)
          BY <2>1, <5>1 DEF ToSet
        <5> QED
          BY <2>2, <5>2
      <4>2. PICK k \in 1..2 : l = d[k]
        <5>1. PICK k \in DOMAIN d : l = d[k]
          BY <4>1 DEF ToSet
        <5> QED
          BY <2>2, <3>1, <5>1
      <4> QED
        BY <2>2, <3>1, <4>2
    <3>2. CASE Len(c) # 2
      <4>1. Len(c) > 2
        BY <2>2, <3>2
      <4>2. l = c[1]
        BY <2>1, <3>2
      <4>3. IsTrue(s, c[1])
        BY <2>3, <4>2
      <4> QED
        BY <2>2, <4>1, <4>2, <4>3
    <3> QED
      BY <3>1, <3>2
  <2> QED
    BY <1>2, <2>1, <2>2, <2>4 DEF ReasonOK, cr, c, d, l
<1>9. ReasonsOK(t)
    BY <1>8 DEF ReasonsOK
<1>10. ASSUME NEW F, Sound(s, F)
       PROVE  Sound(t, F)
  <2>1. \A A : Satisfies(A, s, AttachedIn(s)) => Satisfies(A, t, AttachedIn(t))
    BY <1>2, <1>5 DEF Satisfies
  <2> QED
    BY <1>10, <2>1 DEF Sound
<1>11. ASSUME ListOf(s, "clauses") \subseteq ListOf(t, "clauses"), NEW F, Complete(s, F)
       PROVE  Complete(t, F)
  <2>1. ListOf(s, "clauses") \subseteq AttachedIn(s)
    BY DEF ListOf, AttachedIn
  <2>2. \A A : Satisfies(A, t, ListOf(t, "clauses")) => Satisfies(A, s, ListOf(s, "clauses"))
    BY <1>5, <1>11, <2>1 DEF Satisfies
  <2> QED
    BY <1>11, <2>2 DEF Complete
<1> QED
    BY <1>2, <1>3, <1>4, <1>5, <1>7, <1>9, <1>10, <1>11 DEF Consistent

\* Whoever watches a clause goes on watching it when the two literals in front
\* stay there, in whichever order.
LEMMA FrontsKept ==
    ASSUME NEW s \in Solvers, NEW t \in Solvers, t.watches = s.watches,
           t.watchesBin = s.watchesBin, AttachedIn(t) = AttachedIn(s),
           \A cr \in AttachedIn(s) :
               LET c == s.ca[cr].lits
                   d == t.ca[cr].lits
               IN  /\ Len(c) >= 2 /\ Len(d) = Len(c) /\ ToSet(d) = ToSet(c)
                   /\ (d[1] = c[1] /\ d[2] = c[2]) \/ (d[1] = c[2] /\ d[2] = c[1])
    PROVE  /\ \A p \in Lits : \A w :
                  /\ Watches(s, p, w) => Watches(t, p, w)
                  /\ WatchesBinary(s, p, w) => WatchesBinary(t, p, w)
           /\ \A p, rest : WatchedBut(s, p, rest) => WatchedBut(t, p, rest)
           /\ WatchersOK(s) => WatchersOK(t)
           /\ WatchedOK(s) => WatchedOK(t)
<1>1. ASSUME NEW p \in Lits, NEW w, Watches(s, p, w)
      PROVE  Watches(t, p, w)
  <2>1. /\ w.cref \in AttachedIn(s) /\ Len(s.ca[w.cref].lits) > 2
        /\ s.ca[w.cref].lits[1] = Neg(p) \/ s.ca[w.cref].lits[2] = Neg(p)
        /\ w.blocker \in ToSet(s.ca[w.cref].lits) /\ w.blocker # Neg(p)
    BY <1>1 DEF Watches
  <2>2. t.ca[w.cref].lits[1] = Neg(p) \/ t.ca[w.cref].lits[2] = Neg(p)
    BY <2>1
  <2> QED
    BY <2>1, <2>2 DEF Watches
<1>2. ASSUME NEW p \in Lits, NEW w, WatchesBinary(s, p, w)
      PROVE  WatchesBinary(t, p, w)
  <2> DEFINE c == s.ca[w.cref].lits
             d == t.ca[w.cref].lits
  <2>1. /\ w.cref \in AttachedIn(s)
        /\ c = <<Neg(p), w.blocker>> \/ c = <<w.blocker, Neg(p)>>
    BY <1>2 DEF WatchesBinary
  <2>2. w.cref \in DOMAIN t.ca
    BY <2>1 DEF AttachedIn
  <2>3. d \in Seq(Lits) /\ Len(d) = Len(c)
    BY <2>1, <2>2, SolverTypes
  <2>4. Len(c) = 2
    BY <2>1
  <2>5. d = <<d[1], d[2]>>
    BY <2>3, <2>4
  <2>6. (d[1] = c[1] /\ d[2] = c[2]) \/ (d[1] = c[2] /\ d[2] = c[1])
    BY <2>1
  <2>7. d = <<Neg(p), w.blocker>> \/ d = <<w.blocker, Neg(p)>>
    <3>1. CASE c = <<Neg(p), w.blocker>>
      <4>1. c[1] = Neg(p) /\ c[2] = w.blocker
        BY <3>1
      <4> QED
        BY <2>5, <2>6, <4>1
    <3>2. CASE c = <<w.blocker, Neg(p)>>
      <4>1. c[2] = Neg(p) /\ c[1] = w.blocker
        BY <3>2
      <4> QED
        BY <2>5, <2>6, <4>1
    <3> QED
      BY <2>1, <3>1, <3>2
  <2> QED
    BY <2>1, <2>7 DEF WatchesBinary
<1>3. ASSUME NEW cr \in AttachedIn(s), NEW k \in 1..2
      PROVE  \E j \in 1..2 : t.ca[cr].lits[k] = s.ca[cr].lits[j]
    OBVIOUS
<1>4. ASSUME NEW p, NEW rest, WatchedBut(s, p, rest)
      PROVE  WatchedBut(t, p, rest)
  <2>1. ASSUME NEW cr \in AttachedIn(t), NEW k \in 1..2
        PROVE  LET d == t.ca[cr].lits
               IN  /\ Len(d) = 2 => Listed(t.watchesBin[Neg(d[k])], cr)
                   /\ Len(d) > 2 => \/ Listed(t.watches[Neg(d[k])], cr)
                                    \/ d[k] = Neg(p) /\ cr \in rest
    <3>1. PICK j \in 1..2 : t.ca[cr].lits[k] = s.ca[cr].lits[j]
      BY <1>3
    <3> QED
      BY <1>4, <3>1 DEF WatchedBut
  <2> QED
    BY <2>1 DEF WatchedBut
<1>5. WatchedOK(s) => WatchedOK(t)
  <2>1. ASSUME WatchedOK(s), NEW cr \in AttachedIn(t), NEW k \in 1..2
        PROVE  LET d == t.ca[cr].lits
               IN  /\ Len(d) = 2 => Listed(t.watchesBin[Neg(d[k])], cr)
                   /\ Len(d) > 2 => Listed(t.watches[Neg(d[k])], cr)
    <3>1. PICK j \in 1..2 : t.ca[cr].lits[k] = s.ca[cr].lits[j]
      BY <1>3
    <3> QED
      BY <2>1, <3>1 DEF WatchedOK
  <2> QED
    BY <2>1 DEF WatchedOK
<1>6. WatchersOK(s) => WatchersOK(t)
    BY <1>1, <1>2 DEF WatchersOK
<1> QED
    BY <1>1, <1>2, <1>4, <1>5, <1>6

\* A clause that joins the solver is watched at its first two literals.
LEMMA AttachKeeps ==
    ASSUME NEW s, Consistent(s), WatchersOK(s), WatchedOK(s),
           NEW lits, Proper(s, lits), NEW list \in Lists, list # "freed", NEW lbd \in Nat
    PROVE  LET t == NewClause(s, lits, list, lbd)
               n == Len(s.ca) + 1
           IN  /\ Consistent(t) /\ WatchersOK(t) /\ WatchedOK(t)
               /\ t.trail = s.trail /\ t.trail_lim = s.trail_lim /\ t.qhead = s.qhead
               /\ t.nVars = s.nVars /\ t.ok = s.ok /\ DecisionLevel(t) = DecisionLevel(s)
               /\ AttachedIn(t) = AttachedIn(s) \cup {n} /\ n \notin AttachedIn(s)
               /\ Len(t.ca) = n /\ t.ca[n].lits = lits /\ t.ca[n].list = list
               /\ \A cr \in DOMAIN s.ca : t.ca[cr] = s.ca[cr]
               /\ WatchersAdded(s.watches, t.watches, lits[1], lits[2])
               /\ WatchersAdded(s.watchesBin, t.watchesBin, lits[1], lits[2])
<1> DEFINE t == NewClause(s, lits, list, lbd)
           n == Len(s.ca) + 1
           a == Neg(lits[1])
           b == Neg(lits[2])
           v == Watcher(n, lits[2])
           w == Watcher(n, lits[1])
<1>1. s \in Solvers /\ TrailOK(s) /\ DecisionsFirst(s) /\ HeapOK(s) /\ ClausesOK(s)
      /\ ReasonsOK(s)
    BY DEF Consistent
<1>24. /\ lits \in Seq(Lits) /\ Len(lits) \in Nat /\ Len(lits) >= 2 /\ Distinct(lits)
       /\ DOMAIN lits = 1..Len(lits)
       /\ \A i \in DOMAIN lits : Var(lits[i]) <= s.nVars
    BY DEF Proper
<1>2. /\ t \in Solvers
      /\ t.trail = s.trail /\ t.trail_lim = s.trail_lim /\ t.qhead = s.qhead
      /\ t.nVars = s.nVars /\ t.ok = s.ok /\ t.order_heap = s.order_heap
      /\ t.ca \in Seq(Clauses) /\ Len(t.ca) = n /\ DOMAIN t.ca = 1..n
      /\ \A i \in 1..Len(s.ca) : t.ca[i] = s.ca[i]
      /\ t.ca[n].lits = lits /\ t.ca[n].list = list
      /\ t.ca[n].learnt = (list = "learnts")
      /\ Len(lits) = 2 => t.watches = s.watches /\ TwoAdded(s.watchesBin, t.watchesBin, lits[1], lits[2], n)
      /\ Len(lits) # 2 => t.watchesBin = s.watchesBin /\ TwoAdded(s.watches, t.watches, lits[1], lits[2], n)
  <2>1. s \in Solvers /\ lits \in Seq(Lits) /\ Len(lits) >= 2 /\ Distinct(lits)
    BY <1>1, <1>24
  <2> QED
    BY <2>1, NewClauseFields
<1>3. /\ Len(s.ca) \in Nat /\ DOMAIN s.ca = 1..Len(s.ca) /\ n \in Nat /\ n \notin 1..Len(s.ca)
      /\ \A i \in 1..Len(s.ca) : i \in 1..n /\ i # n
      /\ \A i \in 1..n : i \in 1..Len(s.ca) \/ i = n
      /\ n \in 1..n
    BY <1>1, SolverTypes
<1>4. /\ lits[1] \in Lits /\ lits[2] \in Lits /\ lits[1] # lits[2]
      /\ 1 \in DOMAIN lits /\ 2 \in DOMAIN lits /\ Len(lits) \in Nat
    BY <1>24 DEF Distinct
<1>5. a \in Lits /\ b \in Lits /\ a # b /\ Neg(a) = lits[1] /\ Neg(b) = lits[2]
    BY <1>4, LitFacts
<1>6. /\ v.cref = n /\ v.blocker = lits[2] /\ w.cref = n /\ w.blocker = lits[1]
    BY DEF Watcher
<1>7. /\ s.watches \in [Lits -> Seq(Watchers)] /\ s.watchesBin \in [Lits -> Seq(Watchers)]
    BY <1>1, SolverTypes
<1> HIDE DEF t, n, a, b, v, w
<1>8. AttachedIn(t) = AttachedIn(s) \cup {n} /\ n \notin AttachedIn(s)
      /\ AttachedIn(s) \subseteq 1..Len(s.ca)
  <2>1. \A cr \in 1..Len(s.ca) : cr \in AttachedIn(t) <=> cr \in AttachedIn(s)
    BY <1>2, <1>3 DEF AttachedIn
  <2>2. n \in AttachedIn(t)
    BY <1>2, <1>3 DEF AttachedIn
  <2>3. AttachedIn(t) \subseteq 1..n /\ AttachedIn(s) \subseteq 1..Len(s.ca)
    BY <1>2, <1>3 DEF AttachedIn
  <2> QED
    BY <1>3, <2>1, <2>2, <2>3
<1>9. \A cr \in AttachedIn(s) : t.ca[cr] = s.ca[cr]
    BY <1>2, <1>8
<1>10. /\ DecisionLevel(t) = DecisionLevel(s) /\ TrailOK(t) /\ DecisionsFirst(t)
    BY <1>1, <1>2 DEF DecisionLevel, TrailOK, DecisionsFirst
<1>11. HeapOK(t)
    BY <1>1, <1>2, SameTrail DEF HeapOK
<1>12. ClausesOK(t)
    BY <1>1, <1>2, <1>8, <1>9, <1>24 DEF ClausesOK
<1>13. ReasonsOK(t)
  <2>1. ASSUME NEW i \in DOMAIN t.trail, t.trail[i].reason # CRef_Undef,
               t.trail[i].level > 0
        PROVE  ReasonOK(t, i)
    <3>1. ReasonOK(s, i)
      BY <1>1, <1>2, <2>1 DEF ReasonsOK
    <3>2. t.ca[s.trail[i].reason] = s.ca[s.trail[i].reason]
      BY <1>9, <3>1 DEF ReasonOK
    <3>3. /\ s.trail[i].reason \in AttachedIn(t) /\ t.trail[i] = s.trail[i]
          /\ \A j : t.trail[j] = s.trail[j]
      BY <1>2, <1>8, <3>1 DEF ReasonOK
    <3> QED
      BY <3>1, <3>2, <3>3 DEF ReasonOK
  <2> QED
    BY <2>1 DEF ReasonsOK
<1>21. /\ Len(lits) = 2 => t.watches = s.watches /\ TwoAdded(s.watchesBin, t.watchesBin, lits[1], lits[2], n)
       /\ Len(lits) # 2 => t.watchesBin = s.watchesBin /\ TwoAdded(s.watches, t.watches, lits[1], lits[2], n)
       /\ Len(lits) # 2 <=> Len(lits) > 2
  <2>1. Len(lits) # 2 <=> Len(lits) > 2
    BY <1>24
  <2>2. Len(lits) = 2 => t.watches = s.watches
    BY <1>2
  <2>3. Len(lits) = 2 => TwoAdded(s.watchesBin, t.watchesBin, lits[1], lits[2], n)
    BY <1>2
  <2>4. Len(lits) # 2 => t.watchesBin = s.watchesBin /\ TwoAdded(s.watches, t.watches, lits[1], lits[2], n)
    BY <1>2
  <2> QED
    BY <2>1, <2>2, <2>3, <2>4
\* What becomes of one list of watchers.
<1>14. ASSUME NEW f \in [Lits -> Seq(Watchers)], NEW g, TwoAdded(f, g, lits[1], lits[2], n)
       PROVE  /\ WatchersAdded(f, g, lits[1], lits[2])
              /\ \A q \in Lits : \A cr : Listed(f[q], cr) => Listed(g[q], cr)
              /\ Listed(g[a], n) /\ Listed(g[b], n)
              /\ \A q \in Lits : \A i \in DOMAIN g[q] :
                     \/ i \in DOMAIN f[q] /\ g[q][i] = f[q][i]
                     \/ i = Len(f[q]) + 1 /\ q = a /\ g[q][i] = v
                     \/ i = Len(f[q]) + 1 /\ q = b /\ g[q][i] = w
  <2>0. /\ g[a] = Append(f[a], v) /\ g[b] = Append(f[b], w)
        /\ \A q \in Lits : q # a /\ q # b => g[q] = f[q]
    BY <1>14 DEF TwoAdded, a, b, v, w
  <2>1. ASSUME NEW q \in Lits, NEW x \in {v, w}, g[q] = Append(f[q], x)
        PROVE  /\ DOMAIN g[q] = 1..(Len(f[q]) + 1) /\ Len(f[q]) \in Nat
               /\ DOMAIN f[q] = 1..Len(f[q])
               /\ g[q][Len(f[q]) + 1] = x
               /\ \A i \in 1..Len(f[q]) : g[q][i] = f[q][i]
    <3>1. f[q] \in Seq(Watchers)
      OBVIOUS
    <3> QED
      BY <2>1, <3>1
  <2>2. \A q \in Lits : \A i \in DOMAIN g[q] :
            \/ i \in DOMAIN f[q] /\ g[q][i] = f[q][i]
            \/ i = Len(f[q]) + 1 /\ q = a /\ g[q][i] = v
            \/ i = Len(f[q]) + 1 /\ q = b /\ g[q][i] = w
    <3>1. ASSUME NEW q \in Lits, NEW i \in DOMAIN g[q], NEW x \in {v, w},
                 g[q] = Append(f[q], x)
          PROVE  \/ i \in DOMAIN f[q] /\ g[q][i] = f[q][i]
                 \/ i = Len(f[q]) + 1 /\ g[q][i] = x
      BY <2>1, <3>1
    <3>2. ASSUME NEW q \in Lits, NEW i \in DOMAIN g[q]
          PROVE  \/ i \in DOMAIN f[q] /\ g[q][i] = f[q][i]
                 \/ i = Len(f[q]) + 1 /\ q = a /\ g[q][i] = v
                 \/ i = Len(f[q]) + 1 /\ q = b /\ g[q][i] = w
      <4>1. CASE q = a
        <5>1. g[q] = Append(f[q], v)
          BY <2>0, <4>1
        <5> QED
          BY <3>1, <4>1, <5>1
      <4>2. CASE q = b
        <5>1. g[q] = Append(f[q], w)
          BY <2>0, <4>2
        <5> QED
          BY <3>1, <4>2, <5>1
      <4>3. CASE q # a /\ q # b
        BY <2>0, <4>3
      <4> QED
        BY <4>1, <4>2, <4>3
    <3> QED
      BY <3>2
  <2>3. ASSUME NEW q \in Lits, NEW cr, Listed(f[q], cr)
        PROVE  Listed(g[q], cr)
    <3>1. PICK i \in DOMAIN f[q] : f[q][i].cref = cr
      BY <2>3 DEF Listed
    <3>2. ASSUME NEW x \in {v, w}, g[q] = Append(f[q], x)
          PROVE  i \in DOMAIN g[q] /\ g[q][i] = f[q][i]
      BY <2>1, <3>1, <3>2
    <3>3. i \in DOMAIN g[q] /\ g[q][i] = f[q][i]
      BY <2>0, <3>1, <3>2
    <3> QED
      BY <3>1, <3>3 DEF Listed
  <2>4. Listed(g[a], n) /\ Listed(g[b], n)
    <3>1. Len(f[a]) + 1 \in DOMAIN g[a] /\ g[a][Len(f[a]) + 1] = v
      BY <1>5, <2>0, <2>1
    <3>2. Len(f[b]) + 1 \in DOMAIN g[b] /\ g[b][Len(f[b]) + 1] = w
      BY <1>5, <2>0, <2>1
    <3> QED
      BY <1>6, <3>1, <3>2 DEF Listed
  <2>5. WatchersAdded(f, g, lits[1], lits[2])
    BY <1>6, <2>2 DEF WatchersAdded, a, b
  <2> QED
    BY <2>2, <2>3, <2>4, <2>5
<1>15. /\ \A f : WatchersAdded(f, f, lits[1], lits[2])
       /\ WatchersAdded(s.watches, t.watches, lits[1], lits[2])
       /\ WatchersAdded(s.watchesBin, t.watchesBin, lits[1], lits[2])
  <2>1. \A f : WatchersAdded(f, f, lits[1], lits[2])
    BY DEF WatchersAdded
  <2> QED
    BY <1>2, <1>7, <1>14, <2>1
<1>16. \A q \in Lits : \A cr :
           /\ Listed(s.watches[q], cr) => Listed(t.watches[q], cr)
           /\ Listed(s.watchesBin[q], cr) => Listed(t.watchesBin[q], cr)
  <2> QED
    BY <1>2, <1>7, <1>14
<1>17. WatchedOK(t)
  <2>1. ASSUME NEW cr \in AttachedIn(s), NEW k \in 1..2
        PROVE  LET c == t.ca[cr].lits
               IN  /\ Len(c) = 2 => Listed(t.watchesBin[Neg(c[k])], cr)
                   /\ Len(c) > 2 => Listed(t.watches[Neg(c[k])], cr)
    <3>1. Neg(s.ca[cr].lits[k]) \in Lits
      <4>1. s.ca[cr].lits \in Seq(Lits) /\ Len(s.ca[cr].lits) >= 2
        BY <1>1, <1>8, SolverTypes DEF ClausesOK, AttachedIn
      <4> QED
        BY <4>1, LitFacts
    <3> QED
      BY <1>9, <1>16, <3>1 DEF WatchedOK
  <2>2. ASSUME NEW k \in 1..2
        PROVE  /\ Len(lits) = 2 => Listed(t.watchesBin[Neg(lits[k])], n)
               /\ Len(lits) > 2 => Listed(t.watches[Neg(lits[k])], n)
    <3>1. Neg(lits[k]) = a \/ Neg(lits[k]) = b
      BY DEF a, b
    <3> QED
      BY <1>7, <1>14, <1>21, <3>1
  <2> QED
    BY <1>2, <1>8, <2>1, <2>2 DEF WatchedOK
<1>18. \A p \in Lits : \A x :
           /\ Watches(s, p, x) => Watches(t, p, x)
           /\ WatchesBinary(s, p, x) => WatchesBinary(t, p, x)
    BY <1>8, <1>9 DEF Watches, WatchesBinary
<1>22. ASSUME Len(lits) # 2, NEW q \in Lits, NEW i \in DOMAIN t.watches[q]
       PROVE  \/ i \in DOMAIN s.watches[q] /\ t.watches[q][i] = s.watches[q][i]
              \/ i = Len(s.watches[q]) + 1 /\ q = a /\ t.watches[q][i] = v
              \/ i = Len(s.watches[q]) + 1 /\ q = b /\ t.watches[q][i] = w
  <2>1. TwoAdded(s.watches, t.watches, lits[1], lits[2], n)
    BY <1>21, <1>22
  <2>2. s.watches \in [Lits -> Seq(Watchers)]
    BY <1>7
  <2> QED
    BY <1>14, <1>22, <2>1, <2>2
<1>23. ASSUME Len(lits) = 2, NEW q \in Lits, NEW i \in DOMAIN t.watchesBin[q]
       PROVE  \/ i \in DOMAIN s.watchesBin[q] /\ t.watchesBin[q][i] = s.watchesBin[q][i]
              \/ i = Len(s.watchesBin[q]) + 1 /\ q = a /\ t.watchesBin[q][i] = v
              \/ i = Len(s.watchesBin[q]) + 1 /\ q = b /\ t.watchesBin[q][i] = w
  <2>1. TwoAdded(s.watchesBin, t.watchesBin, lits[1], lits[2], n)
    BY <1>21, <1>23
  <2>2. s.watchesBin \in [Lits -> Seq(Watchers)]
    BY <1>7
  <2> QED
    BY <1>14, <1>23, <2>1, <2>2
<1>19. WatchersOK(t)
  <2>1. ASSUME NEW p \in Lits, NEW i \in DOMAIN t.watches[p]
        PROVE  Watches(t, p, t.watches[p][i])
    <3>1. CASE i \in DOMAIN s.watches[p] /\ t.watches[p][i] = s.watches[p][i]
      BY <1>18, <3>1 DEF WatchersOK
    <3>2. CASE Len(lits) # 2 /\ ((p = a /\ t.watches[p][i] = v) \/ (p = b /\ t.watches[p][i] = w))
      <4>1. Len(lits) > 2
        BY <1>21, <3>2
      <4>2. lits[1] \in ToSet(lits) /\ lits[2] \in ToSet(lits)
        BY <1>4 DEF ToSet
      <4> QED
        BY SMTT(30), <1>2, <1>4, <1>5, <1>6, <1>8, <3>2, <4>1, <4>2 DEF Watches
    <3>3. Len(lits) # 2 =>
              \/ i \in DOMAIN s.watches[p] /\ t.watches[p][i] = s.watches[p][i]
              \/ p = a /\ t.watches[p][i] = v
              \/ p = b /\ t.watches[p][i] = w
      BY <1>22
    <3>4. CASE Len(lits) = 2
      <4>1. t.watches = s.watches
        BY <1>21, <3>4
      <4> QED
        BY <3>1, <4>1
    <3> QED
      BY <3>1, <3>2, <3>3, <3>4
  <2>2. ASSUME NEW p \in Lits, NEW i \in DOMAIN t.watchesBin[p]
        PROVE  WatchesBinary(t, p, t.watchesBin[p][i])
    <3>1. CASE i \in DOMAIN s.watchesBin[p] /\ t.watchesBin[p][i] = s.watchesBin[p][i]
      BY <1>18, <3>1 DEF WatchersOK
    <3>2. CASE Len(lits) = 2
               /\ ((p = a /\ t.watchesBin[p][i] = v) \/ (p = b /\ t.watchesBin[p][i] = w))
      <4>1. lits = <<lits[1], lits[2]>>
        BY <1>24, <3>2
      <4> QED
        BY <1>2, <1>4, <1>5, <1>6, <1>8, <3>2, <4>1 DEF WatchesBinary
    <3>3. Len(lits) = 2 =>
              \/ i \in DOMAIN s.watchesBin[p] /\ t.watchesBin[p][i] = s.watchesBin[p][i]
              \/ p = a /\ t.watchesBin[p][i] = v
              \/ p = b /\ t.watchesBin[p][i] = w
      BY <1>23
    <3>4. CASE Len(lits) # 2
      <4>1. t.watchesBin = s.watchesBin
        BY <1>21, <3>4
      <4> QED
        BY <3>1, <4>1
    <3> QED
      BY <3>1, <3>2, <3>3, <3>4
  <2>3. ASSUME NEW p \in Lits, NEW i \in DOMAIN t.watches[p], NEW j \in DOMAIN t.watches[p],
               t.watches[p][i].cref = t.watches[p][j].cref
        PROVE  i = j
    <3> DEFINE Old(k) == k \in DOMAIN s.watches[p] /\ t.watches[p][k] = s.watches[p][k]
               New(k) == k = Len(s.watches[p]) + 1 /\ t.watches[p][k].cref = n
    <3>1. \A k \in DOMAIN t.watches[p] : Old(k) \/ New(k)
      <4>1. CASE Len(lits) = 2
        BY <1>21, <4>1
      <4>2. ASSUME Len(lits) # 2, NEW k \in DOMAIN t.watches[p]
            PROVE  \/ k \in DOMAIN s.watches[p] /\ t.watches[p][k] = s.watches[p][k]
                   \/ k = Len(s.watches[p]) + 1 /\ t.watches[p][k] \in {v, w}
        BY <1>22, <4>2
      <4>3. v.cref = n /\ w.cref = n
        BY <1>6
      <4> QED
        BY <4>1, <4>2, <4>3
    <3>2. (Old(i) \/ New(i)) /\ (Old(j) \/ New(j))
      BY <3>1
    <3>3. \A k \in DOMAIN s.watches[p] : s.watches[p][k].cref # n
      BY SMTT(30), <1>8 DEF WatchersOK, Watches
    <3>4. CASE Old(i) /\ Old(j)
      BY <2>3, <3>4 DEF WatchersOK
    <3>5. CASE New(i) /\ New(j)
      BY <3>5
    <3> QED
      BY <2>3, <3>2, <3>3, <3>4, <3>5
  <2> QED
    BY <2>1, <2>2, <2>3 DEF WatchersOK
<1>20. \A cr \in DOMAIN s.ca : t.ca[cr] = s.ca[cr]
    BY <1>2, <1>3
<1> QED
    BY <1>2, <1>8, <1>10, <1>11, <1>12, <1>13, <1>15, <1>17, <1>19, <1>20
       DEF Consistent, t, n

-----------------------------------------------------------------------------
(***************************************************************************)
(* propagate: first the clauses of two literals.                           *)
(***************************************************************************)

\* An assignment makes one of each two opposite literals true.
LEMMA AssignmentFacts ==
    ASSUME NEW n \in 0..MaxVars, NEW A \in Oracle!Assignments(n)
    PROVE  /\ A \subseteq Lits /\ \A l \in A : Var(l) <= n
           /\ \A l \in Lits : Var(l) <= n => (l \in A <=> Neg(l) \notin A)
<1>1. PICK f \in [1..n -> BOOLEAN] : A = {IF f[v] THEN v ELSE -v : v \in 1..n}
    BY DEF Oracle!Assignments
<1>2. n \in Nat /\ MaxVars \in Nat /\ n <= MaxVars
    BY BoundsAssumption
<1>3. \A v \in 1..n : v \in Lits /\ -v \in Lits /\ Var(v) = v /\ Var(-v) = v /\ v # -v
                      /\ v \in Nat /\ v > 0
    BY <1>2 DEF Lits, Var
<1>4. A \subseteq Lits /\ \A l \in A : Var(l) <= n
    BY <1>1, <1>3
<1>5. ASSUME NEW v \in 1..n
      PROVE  (v \in A <=> f[v]) /\ (-v \in A <=> ~f[v])
  <2>1. \A u \in 1..n : (v # -u) /\ (-v = -u => u = v) /\ (-v # u)
    BY <1>2
  <2>2. f[v] \in BOOLEAN
    OBVIOUS
  <2>3. ASSUME f[v]
        PROVE  v \in A
    BY <1>1, <2>3
  <2>4. ASSUME ~f[v]
        PROVE  -v \in A
    BY <1>1, <2>4
  <2>5. ASSUME v \in A
        PROVE  f[v]
    <3>1. PICK u \in 1..n : v = IF f[u] THEN u ELSE -u
      BY <1>1, <2>5
    <3> QED
      BY <2>1, <3>1
  <2>6. ASSUME -v \in A
        PROVE  ~f[v]
    <3>1. PICK u \in 1..n : -v = IF f[u] THEN u ELSE -u
      BY <1>1, <2>6
    <3> QED
      BY <2>1, <3>1
  <2> QED
    BY <2>2, <2>3, <2>4, <2>5, <2>6
<1>6. ASSUME NEW l \in Lits, Var(l) <= n
      PROVE  l \in A <=> Neg(l) \notin A
  <2>1. l \in 1..n \/ (-l \in 1..n /\ -(-l) = l)
    BY <1>2, <1>6 DEF Lits, Var
  <2> QED
    BY <1>5, <2>1 DEF Neg
<1> QED
    BY <1>4, <1>6

\* What propagation may do to a solver.
After(s, t) ==
    /\ t.nVars = s.nVars /\ t.trail_lim = s.trail_lim /\ t.ok = s.ok
    /\ Len(s.trail) <= Len(t.trail)
    /\ \A i \in DOMAIN s.trail : t.trail[i] = s.trail[i]
    /\ DOMAIN t.ca = DOMAIN s.ca /\ AttachedIn(t) = AttachedIn(s)
    /\ \A lits : AssumptionsFirst(s, lits) => AssumptionsFirst(t, lits)
    /\ \A F : Sound(s, F) => Sound(t, F)
    /\ \A F : Complete(s, F) => Complete(t, F)

LEMMA AfterFacts ==
    ASSUME NEW s \in Solvers, NEW t \in Solvers, After(s, t)
    PROVE  /\ DecisionLevel(t) = DecisionLevel(s) /\ LastLim(t) = LastLim(s)
           /\ \A i \in DOMAIN s.trail : i \in DOMAIN t.trail
           /\ \A l : /\ IsTrue(s, l) => IsTrue(t, l)
                     /\ IsFalse(s, l) => IsFalse(t, l)
<1>1. t.trail_lim = s.trail_lim /\ \A i \in DOMAIN s.trail : t.trail[i] = s.trail[i]
    BY DEF After
<1>2. DecisionLevel(t) = DecisionLevel(s) /\ LastLim(t) = LastLim(s)
    BY <1>1 DEF DecisionLevel, LastLim
<1>3. /\ Len(s.trail) <= Len(t.trail) /\ Len(s.trail) \in Nat /\ Len(t.trail) \in Nat
      /\ DOMAIN s.trail = 1..Len(s.trail) /\ DOMAIN t.trail = 1..Len(t.trail)
    BY SolverTypes DEF After
<1>4. \A i \in DOMAIN s.trail : i \in DOMAIN t.trail
    BY <1>3
<1> QED
    BY <1>1, <1>2, <1>4 DEF IsTrue, IsFalse

LEMMA AfterTrans ==
    ASSUME NEW s \in Solvers, NEW t \in Solvers, NEW u \in Solvers, After(s, t), After(t, u)
    PROVE  After(s, u)
<1>1. \A i \in DOMAIN s.trail : i \in DOMAIN t.trail
    BY AfterFacts
<1>2. Len(s.trail) \in Nat /\ Len(t.trail) \in Nat /\ Len(u.trail) \in Nat
    BY SolverTypes
<1>3. Len(s.trail) <= Len(u.trail)
    BY <1>2 DEF After
<1> QED
    BY <1>1, <1>3 DEF After

\* A literal that its clause implies joins the trail.
LEMMA ImpliedKeeps ==
    ASSUME NEW s, Consistent(s), NEW l \in Lits, NEW from, Implied(s, l, from)
    PROVE  LET t == uncheckedEnqueue(s, l, from)
           IN  /\ Consistent(t) /\ After(s, t)
               /\ t.ca = s.ca /\ t.watches = s.watches /\ t.watchesBin = s.watchesBin
               /\ t.qhead = s.qhead /\ t.simpDB_assigns = s.simpDB_assigns
               /\ Len(t.trail) = Len(s.trail) + 1
               /\ t.trail[Len(s.trail) + 1] =
                      [lit |-> l, level |-> DecisionLevel(s), reason |-> from]
               /\ \A m \in Lits : IsTrue(t, m) <=> IsTrue(s, m) \/ m = l
               /\ \A n \in 0..Len(s.trail) : Visited(s, n) => Visited(t, n)
<1> DEFINE t == uncheckedEnqueue(s, l, from)
           n == Len(s.trail)
           D == DecisionLevel(s)
           c == s.ca[from].lits
<1>1. s \in Solvers /\ TrailOK(s) /\ ClausesOK(s)
    BY DEF Consistent
<1>13. /\ IsUndef(s, l) /\ from \in AttachedIn(s)
       /\ l = s.ca[from].lits[1] \/ (Len(s.ca[from].lits) = 2 /\ l = s.ca[from].lits[2])
       /\ \A m \in ToSet(s.ca[from].lits) \ {l} : IsFalse(s, m)
       /\ DecisionLevel(s) > 0 => LastLim(s) < Len(s.trail)
    BY DEF Implied
<1>2. /\ n \in Nat /\ DOMAIN s.trail = 1..n /\ D \in Nat
      /\ from \in DOMAIN s.ca /\ c \in Seq(Lits) /\ from \in Nat /\ from # CRef_Undef
      /\ DOMAIN c = 1..Len(c) /\ Len(c) >= 2 /\ s.nVars \in 0..MaxVars
      /\ \A i \in DOMAIN s.trail : s.trail[i].lit \in Lits
    BY <1>1, <1>13, SolverTypes DEF AttachedIn, CRef_Undef, ClausesOK
<1>3. l \in ToSet(c) /\ Var(l) <= s.nVars
  <2>1. \E k \in DOMAIN c : l = c[k]
    <3>1. 1 \in DOMAIN c /\ 2 \in DOMAIN c
      BY <1>2
    <3> QED
      BY <1>13, <3>1
  <2> QED
    BY <1>1, <1>13, <2>1 DEF ClausesOK, ToSet
<1>4. /\ Consistent(t)
      /\ \A m \in Lits : IsTrue(t, m) <=> IsTrue(s, m) \/ m = l
      /\ \A k \in 0..n : Visited(s, k) => Visited(t, k)
      /\ LastLim(t) = LastLim(s)
  <2>1. LastLim(s) \in Nat
    BY <1>1, Levels
  <2>2. D > 0 => (from = CRef_Undef <=> n = LastLim(s))
    BY <1>2, <1>13, <2>1
  <2> HIDE DEF t, n, D
  <2> QED
    BY <1>2, <1>3, <1>13, <2>2, EnqueueKeeps DEF t, n, D
<1>5. /\ t \in Solvers
      /\ Len(t.trail) = n + 1 /\ DOMAIN t.trail = 1..(n + 1)
      /\ \A i \in 1..n : t.trail[i] = s.trail[i]
      /\ t.trail[n + 1] = [lit |-> l, level |-> D, reason |-> from]
      /\ t.ca = s.ca /\ t.watches = s.watches /\ t.watchesBin = s.watchesBin
      /\ t.trail_lim = s.trail_lim /\ t.qhead = s.qhead /\ t.ok = s.ok
      /\ t.nVars = s.nVars /\ t.simpDB_assigns = s.simpDB_assigns
    BY <1>1, <1>2, EnqueueFields
<1>6. /\ t.trail[n + 1].lit = l /\ t.trail[n + 1].level = D
      /\ t.trail[n + 1].reason = from
      /\ \A i \in 1..(n + 1) : i \in 1..n \/ i = n + 1
      /\ n + 1 \in 1..(n + 1) /\ \A i \in 1..n : i \in 1..(n + 1)
    BY <1>2, <1>5
<1> HIDE DEF t, n, D, c
<1>7. AttachedIn(t) = AttachedIn(s) /\ ListOf(t, "clauses") = ListOf(s, "clauses")
    BY <1>5 DEF AttachedIn, ListOf
<1>8. /\ \A m \in Fixed(s) : m \in Fixed(t)
      /\ \A m \in Fixed(t) : m \in Fixed(s) \/ (D = 0 /\ m = l)
  <2>1. /\ Fixed(s) = {s.trail[i].lit : i \in {j \in 1..n : s.trail[j].level = 0}}
        /\ Fixed(t) = {t.trail[i].lit : i \in {j \in 1..(n + 1) : t.trail[j].level = 0}}
    BY <1>2, <1>5 DEF Fixed
  <2> QED
    BY <1>5, <1>6, <2>1
<1>9. ASSUME NEW F, Sound(s, F)
      PROVE  Sound(t, F)
  <2>1. ASSUME NEW A \in Oracle!ModelsOf(s.nVars, F)
        PROVE  Satisfies(A, t, AttachedIn(t))
    <3>1. /\ \A cr \in AttachedIn(s) : ToSet(s.ca[cr].lits) \cap A # {}
          /\ Fixed(s) \subseteq A
      BY <1>9, <2>1 DEF Sound, Satisfies
    <3>2. ASSUME D = 0
          PROVE  l \in A
      <4>1. PICK m \in ToSet(c) : m \in A
        BY <1>13, <3>1 DEF c
      <4>2. CASE m = l
        BY <4>1, <4>2
      <4>3. CASE m # l
        <5>1. IsFalse(s, m)
          BY <1>13, <4>1, <4>3 DEF c
        <5>2. PICK i \in 1..n : s.trail[i].lit = Neg(m)
          BY <1>2, <5>1 DEF IsFalse, IsTrue
        <5>3. s.trail[i].level = 0
          <6>1. s.trail[i].level <= D /\ s.trail[i].level \in Nat
            BY <1>1, <1>2, <5>2, SolverTypes DEF TrailOK, D
          <6> QED
            BY <3>2, <6>1
        <5>4. Neg(m) \in A
          BY <1>2, <3>1, <5>2, <5>3 DEF Fixed
        <5>5. A \in Oracle!Assignments(s.nVars)
          BY <2>1 DEF Oracle!ModelsOf
        <5> QED
          BY <1>2, <4>1, <5>4, <5>5, AssignmentFacts
      <4> QED
        BY <4>2, <4>3
    <3> QED
      BY <1>5, <1>7, <1>8, <3>1, <3>2 DEF Satisfies
  <2> QED
    BY <1>5, <2>1 DEF Sound
<1>10. ASSUME NEW F, Complete(s, F)
       PROVE  Complete(t, F)
  <2>1. \A A : Satisfies(A, t, ListOf(t, "clauses")) => Satisfies(A, s, ListOf(s, "clauses"))
    BY <1>5, <1>7, <1>8 DEF Satisfies
  <2> QED
    BY <1>5, <1>10, <2>1 DEF Complete
<1>11. ASSUME NEW lits, AssumptionsFirst(s, lits)
       PROVE  AssumptionsFirst(t, lits)
  <2>1. \A i \in 1..(n + 1) : t.trail[i].reason = CRef_Undef => i \in 1..n
    BY <1>2, <1>6
  <2> QED
    BY ZenonT(30), <1>2, <1>5, <1>6, <1>11, <2>1 DEF AssumptionsFirst
<1>12. After(s, t)
    BY <1>2, <1>5, <1>7, <1>9, <1>10, <1>11 DEF After, n
<1> QED
    BY <1>4, <1>5, <1>12 DEF t, n, D

LEMMA StepInduction ==
    ASSUME NEW n \in Nat, NEW C, 0 \in C, \A k \in 1..n : k - 1 \in C => k \in C
    PROVE  \A k \in 0..n : k \in C
<1>1. ASSUME NEW m \in 0..n, \A k \in 0..(m - 1) : k \in C
      PROVE  m \in C
  <2>1. CASE m = 0
    BY <2>1
  <2>2. CASE m # 0
    <3>1. m \in 1..n /\ m - 1 \in 0..(m - 1)
      BY <2>2
    <3> QED
      BY <1>1, <3>1
  <2> QED
    BY <2>1, <2>2
<1> QED
  BY <1>1, UpwardInduction

\* Literals of the trail are taken from the queue.
LEMMA QueueMoves ==
    ASSUME NEW s, Consistent(s), NEW q \in Nat, s.qhead <= q, q <= Len(s.trail)
    PROVE  LET t == [s EXCEPT !.qhead = q]
           IN  /\ Consistent(t) /\ After(s, t)
               /\ t.ca = s.ca /\ t.watches = s.watches /\ t.watchesBin = s.watchesBin
               /\ t.qhead = q /\ t.trail = s.trail /\ t.trail_lim = s.trail_lim
               /\ t.nVars = s.nVars /\ t.ok = s.ok
               /\ \A n \in Nat : Visited(s, n) => Visited(t, n)
<1> DEFINE t == [s EXCEPT !.qhead = q]
<1>1. s \in Solvers /\ TrailOK(s) /\ DecisionsFirst(s) /\ HeapOK(s) /\ ClausesOK(s)
      /\ ReasonsOK(s)
    BY DEF Consistent
<1>2. /\ t \in Solvers
      /\ t.ca = s.ca /\ t.watches = s.watches /\ t.watchesBin = s.watchesBin
      /\ t.qhead = q /\ t.trail = s.trail /\ t.trail_lim = s.trail_lim
      /\ t.nVars = s.nVars /\ t.order_heap = s.order_heap /\ t.ok = s.ok
    BY <1>1 DEF Solvers
<1> HIDE DEF t
<1>3. TrailOK(t)
  <2>1. \A d \in DOMAIN s.trail_lim : s.trail_lim[d] <= q
    <3>1. \A d \in DOMAIN s.trail_lim : s.trail_lim[d] \in Nat /\ s.trail_lim[d] <= s.qhead
      BY <1>1, SolverTypes DEF TrailOK
    <3>2. s.qhead \in Nat
      BY <1>1, SolverTypes
    <3> QED
      BY <3>1, <3>2
  <2> QED
    BY <1>1, <1>2, <2>1 DEF TrailOK, DecisionLevel
<1>4. /\ AttachedIn(t) = AttachedIn(s) /\ ListOf(t, "clauses") = ListOf(s, "clauses")
      /\ Fixed(t) = Fixed(s)
    BY <1>2 DEF AttachedIn, ListOf, Fixed
<1>5. DecisionsFirst(t) /\ HeapOK(t) /\ ClausesOK(t) /\ ReasonsOK(t)
  <2>1. HeapOK(t)
    BY <1>1, <1>2, SameTrail DEF HeapOK
  <2> QED
    BY SMTT(30), <1>1, <1>2, <1>4, <2>1 DEF DecisionsFirst, ClausesOK, ReasonsOK, ReasonOK
<1>6. After(s, t)
  <2>1. \A lits : AssumptionsFirst(s, lits) => AssumptionsFirst(t, lits)
    BY <1>2 DEF AssumptionsFirst
  <2>2. Len(s.trail) \in Nat
    BY <1>1, SolverTypes
  <2> QED
    BY <1>2, <1>4, <2>1, <2>2, SameMeaning DEF After
<1>7. \A n \in Nat : Visited(s, n) => Visited(t, n)
    BY <1>2, SameTrail
<1> QED
    BY <1>2, <1>3, <1>5, <1>6, <1>7 DEF Consistent, t

Results == [s : Solvers, confl : Nat]

\* A clause of two literals the first of which has become false.
LEMMA BinaryStep ==
    ASSUME NEW r \in Results, Consistent(r.s), r.confl = CRef_Undef,
           NEW p \in Lits, IsTrue(r.s, p), LevelOf(r.s, Neg(p)) = DecisionLevel(r.s),
           LastLim(r.s) < Len(r.s.trail),
           NEW w \in Watchers, WatchesBinary(r.s, p, w)
    PROVE  LET q == PropagateBinary(r, w)
           IN  /\ q \in Results /\ Consistent(q.s) /\ After(r.s, q.s)
               /\ q.s.ca = r.s.ca /\ q.s.watches = r.s.watches
               /\ q.s.watchesBin = r.s.watchesBin /\ q.s.qhead = r.s.qhead
               /\ \A n \in 0..Len(r.s.trail) : Visited(r.s, n) => Visited(q.s, n)
               /\ q.confl # CRef_Undef => Conflicting(q.s, q.confl)
               /\ q.confl = CRef_Undef => IsTrue(q.s, w.blocker)
<1> DEFINE s == r.s
           q == PropagateBinary(r, w)
           c == s.ca[w.cref].lits
<1>1. /\ s \in Solvers /\ TrailOK(s) /\ w.blocker \in Lits /\ w.cref \in Nat
      /\ r = [s |-> s, confl |-> CRef_Undef] /\ CRef_Undef = 0
    BY DEF Consistent, Watchers, Results, CRef_Undef
<1>2. /\ w.cref \in AttachedIn(s) /\ w.cref # 0
      /\ c = <<Neg(p), w.blocker>> \/ c = <<w.blocker, Neg(p)>>
  <2>1. \A cr \in AttachedIn(s) : cr \in 1..Len(s.ca) /\ Len(s.ca) \in Nat
    BY <1>1, SolverTypes DEF AttachedIn
  <2> QED
    BY <2>1 DEF WatchesBinary
<1>3. ToSet(c) = {Neg(p), w.blocker} /\ Len(c) = 2 /\ (w.blocker = c[1] \/ w.blocker = c[2])
  <2>1. \A x, y : ToSet(<<x, y>>) = {x, y}
    BY DEF ToSet
  <2>2. CASE c = <<Neg(p), w.blocker>>
    BY <2>1, <2>2
  <2>3. CASE c = <<w.blocker, Neg(p)>>
    BY <2>1, <2>3
  <2> QED
    BY <1>2, <2>2, <2>3
<1>4. IsFalse(s, Neg(p))
    BY LitFacts DEF IsFalse
<1> HIDE DEF s, c
<1>5. CASE IsTrue(s, w.blocker)
  <2>1. q = r
    BY <1>5 DEF PropagateBinary, s
  <2>2. After(s, s)
    BY <1>1, SolverTypes DEF After
  <2> QED
    BY <1>1, <1>5, <2>1, <2>2 DEF s, Results
<1>6. CASE ~IsTrue(s, w.blocker) /\ IsFalse(s, w.blocker)
  <2>1. q = [s |-> s, confl |-> w.cref]
    BY <1>1, <1>6 DEF PropagateBinary, s, CRef_Undef
  <2>2. After(s, s)
    BY <1>1, SolverTypes DEF After
  <2>3. Conflicting(s, w.cref)
    <3>1. LevelOf(s, Neg(p)) = DecisionLevel(s)
      BY DEF s
    <3> QED
      BY <1>2, <1>3, <1>4, <1>6, <3>1 DEF Conflicting, c
  <2>4. q.s = s /\ q.confl = w.cref /\ q \in Results /\ Consistent(s)
    BY <1>1, <2>1 DEF Results, s
  <2> HIDE DEF q
  <2> QED
    BY <1>1, <1>2, <2>2, <2>3, <2>4 DEF s, q
<1>7. CASE ~IsTrue(s, w.blocker) /\ ~IsFalse(s, w.blocker)
  <2> DEFINE t == uncheckedEnqueue(s, w.blocker, w.cref)
  <2>1. q = [s |-> t, confl |-> CRef_Undef]
    BY <1>1, <1>7 DEF PropagateBinary, s, CRef_Undef
  <2>2. /\ Consistent(t) /\ After(s, t)
        /\ t.ca = s.ca /\ t.watches = s.watches /\ t.watchesBin = s.watchesBin
        /\ t.qhead = s.qhead
        /\ \A m \in Lits : IsTrue(t, m) <=> IsTrue(s, m) \/ m = w.blocker
        /\ \A n \in 0..Len(s.trail) : Visited(s, n) => Visited(t, n)
    <3>1. Implied(s, w.blocker, w.cref)
      BY <1>2, <1>3, <1>4, <1>7 DEF Implied, IsUndef, c, s
    <3>2. Consistent(s)
      BY DEF s
    <3>3. PICK l \in Lits, from \in {w.cref} : l = w.blocker /\ from = w.cref
      BY <1>1
    <3>4. Implied(s, l, from) /\ t = uncheckedEnqueue(s, l, from)
      BY <3>1, <3>3
    <3> HIDE DEF t
    <3>5. Consistent(t) /\ After(s, t)
      BY ONLY <3>2, <3>4, ImpliedKeeps
    <3>8. /\ t.ca = s.ca /\ t.watches = s.watches /\ t.watchesBin = s.watchesBin
          /\ t.qhead = s.qhead
      BY <1>1, EnqueueFields DEF t
    <3>6. \A m \in Lits : IsTrue(t, m) <=> IsTrue(s, m) \/ m = l
      BY <3>2, <3>4, ImpliedKeeps
    <3>7. \A n \in 0..Len(s.trail) : Visited(s, n) => Visited(t, n)
      BY <3>2, <3>4, ImpliedKeeps
    <3> QED
      BY <3>3, <3>5, <3>6, <3>7, <3>8
  <2>3. q.s = t /\ q.confl = CRef_Undef /\ q \in Results
    <3>1. t \in Solvers
      BY <2>2 DEF Consistent
    <3> HIDE DEF t
    <3> QED
      BY <1>1, <2>1, <3>1 DEF Results
  <2> HIDE DEF q, t
  <2> QED
    BY <1>1, <2>2, <2>3 DEF s, q
<1> QED
    BY <1>5, <1>6, <1>7

\* What the first k clauses of two literals that p has made shorter lead to.
BinaryReached(u, p, k, r) ==
    /\ r \in Results /\ Consistent(r.s) /\ After(u, r.s)
    /\ r.s.ca = u.ca /\ r.s.watches = u.watches /\ r.s.watchesBin = u.watchesBin
    /\ r.s.qhead = u.qhead
    /\ \A n \in 0..Len(u.trail) : Visited(u, n) => Visited(r.s, n)
    /\ r.confl # CRef_Undef => Conflicting(r.s, r.confl)
    /\ r.confl = CRef_Undef =>
           \A j \in 1..k : IsTrue(r.s, u.watchesBin[p][j].blocker)

LEMMA BinaryPhase ==
    ASSUME NEW u, Consistent(u), WatchersOK(u), LastLim(u) < u.qhead,
           NEW p, p = u.trail[u.qhead].lit
    PROVE  BinaryReached(u, p, Len(u.watchesBin[p]),
               FoldLeft(PropagateBinary, [s |-> u, confl |-> CRef_Undef], u.watchesBin[p]))
<1> DEFINE ws == u.watchesBin[p]
           m == Len(ws)
           base == [s |-> u, confl |-> CRef_Undef]
<1>1. /\ u \in Solvers /\ TrailOK(u) /\ LastLim(u) \in Nat
      /\ u.qhead \in DOMAIN u.trail /\ p \in Lits /\ CRef_Undef = 0
      /\ u.trail[u.qhead].level = DecisionLevel(u)
  <2>1. u \in Solvers /\ TrailOK(u)
    BY DEF Consistent
  <2>2. u.qhead \in Nat /\ LastLim(u) \in Nat /\ u.qhead <= Len(u.trail)
    BY <2>1, SolverTypes, Levels
  <2>3. u.qhead \in DOMAIN u.trail
    BY <2>1, <2>2, SolverTypes
  <2> QED
    BY <2>1, <2>2, <2>3, SolverTypes, Levels DEF CRef_Undef
<1>2. /\ ws \in Seq(Watchers) /\ m \in Nat /\ DOMAIN ws = 1..m
      /\ \A k \in 1..m : ws[k] \in Watchers /\ WatchesBinary(u, p, ws[k])
  <2>1. ws \in Seq(Watchers)
    BY <1>1, SolverTypes
  <2> QED
    BY <1>1, <2>1 DEF WatchersOK
<1> HIDE DEF ws, m, base
<1>3. PICK h : /\ h[0] = base
               /\ \A k \in 1..m : h[k] = PropagateBinary(h[k - 1], ws[k])
               /\ PropagateBinaries(base, ws) = h[m]
  <2>1. ws \in Seq(Watchers)
    BY <1>2
  <2>2. BinaryRuns(base, ws)
    BY ONLY <2>1, BinaryTrace
  <2> QED
    BY <2>2 DEF m, BinaryRuns
<1> DEFINE C == {k \in 0..m : BinaryReached(u, p, k, h[k])}
<1>4. 0 \in C
  <2>1. After(u, u)
    BY <1>1, SolverTypes DEF After
  <2>2. base \in Results /\ base.s = u /\ base.confl = CRef_Undef
    BY <1>1 DEF base, Results
  <2> QED
    BY <1>2, <1>3, <2>1, <2>2 DEF BinaryReached
<1>5. ASSUME NEW k \in 1..m, k - 1 \in C
      PROVE  k \in C
  <2> DEFINE r == h[k - 1]
             q == h[k]
  <2>1. BinaryReached(u, p, k - 1, r)
    BY <1>5
  <2>2. /\ r \in Results /\ Consistent(r.s) /\ After(u, r.s) /\ r.s \in Solvers
        /\ r.s.ca = u.ca /\ r.s.watches = u.watches /\ r.s.watchesBin = u.watchesBin
        /\ r.s.qhead = u.qhead
        /\ \A n \in 0..Len(u.trail) : Visited(u, n) => Visited(r.s, n)
    BY <2>1 DEF BinaryReached, Consistent
  <2>3. q = PropagateBinary(r, ws[k])
    BY <1>3
  <2> HIDE DEF r, q
  <2>4. CASE r.confl # CRef_Undef
    <3>1. q = r
      BY <2>3, <2>4 DEF PropagateBinary
    <3>2. BinaryReached(u, p, k, q)
      BY <2>1, <2>4, <3>1 DEF BinaryReached
    <3> QED
      BY <3>2 DEF q
  <2>5. CASE r.confl = CRef_Undef
    <3>1. /\ DecisionLevel(r.s) = DecisionLevel(u) /\ LastLim(r.s) = LastLim(u)
          /\ \A i \in DOMAIN u.trail : i \in DOMAIN r.s.trail /\ r.s.trail[i] = u.trail[i]
          /\ Len(u.trail) <= Len(r.s.trail)
      BY <1>1, <2>2, AfterFacts DEF After
    <3>2. TrailOK(r.s) /\ ClausesOK(r.s)
      BY <2>2 DEF Consistent
    <3>3. IsTrue(r.s, p)
      BY <1>1, <3>1 DEF IsTrue
    <3>4. LevelOf(r.s, Neg(p)) = DecisionLevel(r.s)
      <4>1. Neg(p) \in Lits /\ Neg(Neg(p)) = p
        BY <1>1, LitFacts
      <4>2. u.qhead \in DOMAIN r.s.trail /\ Neg(Neg(p)) = r.s.trail[u.qhead].lit
        BY <1>1, <3>1, <4>1
      <4>3. LevelOf(r.s, Neg(p)) = r.s.trail[u.qhead].level
        BY <2>2, <3>2, <4>1, <4>2, OnTrail
      <4> QED
        BY <1>1, <3>1, <4>3
    <3>5. LastLim(r.s) < Len(r.s.trail)
      <4>1. /\ Len(u.trail) \in Nat /\ Len(r.s.trail) \in Nat
            /\ u.qhead \in 1..Len(u.trail)
        BY <1>1, <2>2, SolverTypes
      <4> QED
        BY <1>1, <3>1, <4>1
    <3>6. WatchesBinary(r.s, p, ws[k])
      BY <1>2, <2>2 DEF WatchesBinary, AttachedIn
    <3>7. PICK w \in Watchers : w = ws[k]
      BY <1>2
    <3>8. q = PropagateBinary(r, w) /\ WatchesBinary(r.s, p, w)
      BY <2>3, <3>6, <3>7
    <3>9. /\ q \in Results /\ Consistent(q.s) /\ After(r.s, q.s)
          /\ q.s.ca = r.s.ca /\ q.s.watches = r.s.watches
          /\ q.s.watchesBin = r.s.watchesBin /\ q.s.qhead = r.s.qhead
          /\ q.confl # CRef_Undef => Conflicting(q.s, q.confl)
          /\ q.confl = CRef_Undef => IsTrue(q.s, w.blocker)
      BY ONLY <1>1, <2>2, <2>5, <3>3, <3>4, <3>5, <3>8, BinaryStep
    <3>10. \A n \in 0..Len(r.s.trail) : Visited(r.s, n) => Visited(q.s, n)
      BY ONLY <1>1, <2>2, <2>5, <3>3, <3>4, <3>5, <3>8, BinaryStep
    <3>11. q.s \in Solvers
      BY <3>9 DEF Consistent
    <3>12. After(u, q.s)
      BY <1>1, <2>2, <3>9, <3>11, AfterTrans
    <3>13. \A n \in 0..Len(u.trail) : Visited(u, n) => Visited(q.s, n)
      <4>1. \A n \in 0..Len(u.trail) : n \in 0..Len(r.s.trail)
        <5>1. Len(u.trail) \in Nat /\ Len(r.s.trail) \in Nat
          BY <1>1, <2>2, SolverTypes
        <5> QED
          BY <3>1, <5>1
      <4> QED
        BY <2>2, <3>10, <4>1
    <3>14. q.confl = CRef_Undef => \A j \in 1..k : IsTrue(q.s, u.watchesBin[p][j].blocker)
      <4>1. \A j \in 1..(k - 1) : IsTrue(r.s, ws[j].blocker)
        BY <2>1, <2>5 DEF BinaryReached, ws
      <4>2. \A j \in 1..(k - 1) : IsTrue(q.s, ws[j].blocker)
        BY <2>2, <3>9, <3>11, <4>1, AfterFacts
      <4>3. \A j \in 1..k : j \in 1..(k - 1) \/ j = k
        BY <1>2
      <4> QED
        BY <3>7, <3>9, <4>2, <4>3 DEF ws
    <3>15. BinaryReached(u, p, k, q)
      BY <2>2, <3>9, <3>12, <3>13, <3>14 DEF BinaryReached
    <3> QED
      BY <3>15 DEF q
  <2> QED
    BY <2>4, <2>5
<1>6. m \in C
  <2> HIDE DEF C
  <2>1. \A k \in 0..m : k \in C
    BY <1>2, <1>4, <1>5, StepInduction
  <2> QED
    BY <1>2, <2>1
<1>7. FoldLeft(PropagateBinary, base, ws) = h[m]
    BY <1>3 DEF PropagateBinaries
<1> QED
  BY <1>6, <1>7 DEF ws, base, m

-----------------------------------------------------------------------------
(***************************************************************************)
(* propagate: then the longer ones, which may watch another literal than   *)
(* before or turn out to be unit or conflicting.                           *)
(***************************************************************************)

\* The literals of clause cr are put in the order d.
Recast(s, t, cr, d) ==
    /\ cr \in AttachedIn(s) /\ d \in Seq(Lits)
    /\ Len(s.ca[cr].lits) > 2 /\ Len(d) = Len(s.ca[cr].lits)
    /\ ToSet(d) = ToSet(s.ca[cr].lits) /\ Distinct(d)
    /\ d[1] = s.ca[cr].lits[1] \/ ~IsTrue(s, s.ca[cr].lits[1])
    /\ t \in Solvers /\ t.ca = [s.ca EXCEPT ![cr].lits = d]
    /\ t.trail = s.trail /\ t.trail_lim = s.trail_lim /\ t.qhead = s.qhead
    /\ t.nVars = s.nVars /\ t.order_heap = s.order_heap /\ t.ok = s.ok

LEMMA Reordered ==
    ASSUME NEW s, Consistent(s), NEW t, NEW cr, NEW d, Recast(s, t, cr, d)
    PROVE  /\ Consistent(t) /\ After(s, t)
           /\ AttachedIn(t) = AttachedIn(s) /\ t.ca[cr].lits = d
           /\ \A o \in AttachedIn(s) : o # cr => t.ca[o] = s.ca[o]
           /\ DOMAIN t.ca = DOMAIN s.ca
           /\ \A o \in AttachedIn(s) : Len(t.ca[o].lits) = Len(s.ca[o].lits)
<1>0. /\ cr \in AttachedIn(s) /\ d \in Seq(Lits)
      /\ Len(s.ca[cr].lits) > 2 /\ Len(d) = Len(s.ca[cr].lits)
      /\ ToSet(d) = ToSet(s.ca[cr].lits) /\ Distinct(d)
      /\ d[1] = s.ca[cr].lits[1] \/ ~IsTrue(s, s.ca[cr].lits[1])
      /\ t \in Solvers /\ t.ca = [s.ca EXCEPT ![cr].lits = d]
      /\ t.trail = s.trail /\ t.trail_lim = s.trail_lim /\ t.qhead = s.qhead
      /\ t.nVars = s.nVars /\ t.order_heap = s.order_heap /\ t.ok = s.ok
    BY DEF Recast
<1>1. s \in Solvers /\ ClausesOK(s) /\ cr \in DOMAIN s.ca
    BY <1>0 DEF Consistent, AttachedIn
<1>2. s.ca[cr] \in Clauses
    BY <1>1, SolverTypes
<1>3. /\ t.ca[cr].lits = d /\ t.ca[cr].list = s.ca[cr].list
      /\ t.ca[cr].learnt = s.ca[cr].learnt
    BY <1>0, <1>1, <1>2 DEF Clauses
<1>4. DOMAIN t.ca = DOMAIN s.ca /\ \A o \in DOMAIN s.ca : o # cr => t.ca[o] = s.ca[o]
    BY <1>0, <1>1
<1>5. \A o \in DOMAIN s.ca : t.ca[o].list = s.ca[o].list
    BY <1>3, <1>4
<1>6. ASSUME NEW o \in AttachedIn(s)
      PROVE  LET c == s.ca[o].lits
                 e == t.ca[o].lits
             IN  /\ Len(e) = Len(c) /\ ToSet(e) = ToSet(c) /\ Distinct(e)
                 /\ t.ca[o].learnt => t.ca[o].list # "clauses"
                 /\ Len(c) > 2 => e[1] = c[1] \/ ~IsTrue(s, c[1])
  <2>1. CASE o = cr
    BY <1>0, <1>1, <1>3, <2>1 DEF ClausesOK
  <2>2. CASE o # cr
    <3>1. t.ca[o] = s.ca[o]
      BY <1>4, <2>2 DEF AttachedIn
    <3> QED
      BY <1>1, <3>1 DEF ClausesOK
  <2> QED
    BY <2>1, <2>2
<1>7. /\ Consistent(t) /\ AttachedIn(t) = AttachedIn(s)
      /\ Fixed(t) = Fixed(s)
      /\ \A F : Sound(s, F) => Sound(t, F)
      /\ ListOf(s, "clauses") \subseteq ListOf(t, "clauses") =>
             \A F : Complete(s, F) => Complete(t, F)
    BY <1>0, <1>4, <1>5, <1>6, Rewritten
<1>8. ListOf(s, "clauses") \subseteq ListOf(t, "clauses")
    BY <1>4, <1>5 DEF ListOf
<1>9. \A lits : AssumptionsFirst(s, lits) => AssumptionsFirst(t, lits)
    BY <1>0 DEF AssumptionsFirst
<1>10. Len(s.trail) \in Nat
    BY <1>1, SolverTypes
<1>11. After(s, t)
    BY <1>0, <1>4, <1>7, <1>8, <1>9, <1>10 DEF After
<1>12. \A o \in AttachedIn(s) : o # cr => t.ca[o] = s.ca[o]
    BY <1>4 DEF AttachedIn
<1> QED
    BY <1>3, <1>4, <1>6, <1>7, <1>11, <1>12

\* The watchers of a list name different clauses.
ListOfWatchers(W) ==
    /\ W \in Seq(Watchers)
    /\ \A i, j \in DOMAIN W : W[i].cref = W[j].cref => i = j

Rest(W, k) == {W[i].cref : i \in k + 1 .. Len(W)}

\* The watchers W of p are being visited, and k have been.
Mid(s, p, W, k) ==
    /\ Consistent(s) /\ WatchersOK(s)
    /\ \A i \in k + 1 .. Len(W) : Watches(s, p, W[i])
    /\ \A j \in DOMAIN s.watches[p] : s.watches[p][j].cref \in {W[i].cref : i \in 1..k}
    /\ WatchedBut(s, p, Rest(W, k))

LEMMA MidSame ==
    ASSUME NEW s, NEW p, NEW W, NEW k, Mid(s, p, W, k), NEW t, Consistent(t),
           t.ca = s.ca, t.watches = s.watches, t.watchesBin = s.watchesBin
    PROVE  Mid(t, p, W, k)
<1>1. AttachedIn(t) = AttachedIn(s) /\ WatchersOK(t)
    BY SameClauses DEF Mid
<1>2. \A q, w : Watches(s, q, w) => Watches(t, q, w)
    BY <1>1 DEF Watches
<1>3. \A rest : WatchedBut(s, p, rest) => WatchedBut(t, p, rest)
    BY <1>1 DEF WatchedBut
<1> QED
    BY <1>1, <1>2, <1>3 DEF Mid

\* Watchers visited before stay over when only other lists change.
LEMMA VisitedBelow ==
    ASSUME NEW s, NEW t, t.trail = s.trail, t.watchesBin = s.watchesBin, NEW n,
           \A i \in DOMAIN s.trail : i <= n =>
               t.watches[s.trail[i].lit] = s.watches[s.trail[i].lit],
           Visited(s, n)
    PROVE  Visited(t, n)
<1>1. ASSUME NEW i \in DOMAIN t.trail, i <= n
      PROVE  LET p == t.trail[i].lit
             IN  /\ \A k \in DOMAIN t.watches[p] : Blocked(t, i, t.watches[p][k])
                 /\ \A k \in DOMAIN t.watchesBin[p] : Blocked(t, i, t.watchesBin[p][k])
  <2>1. \A w : Blocked(s, i, w) => Blocked(t, i, w)
    BY DEF Blocked
  <2>2. t.watches[t.trail[i].lit] = s.watches[t.trail[i].lit]
    BY <1>1
  <2> QED
    BY <1>1, <2>1, <2>2 DEF Visited
<1> QED
    BY <1>1 DEF Visited

\* A watcher that is kept goes back to the end of its list.
LEMMA KeepKeeps ==
    ASSUME NEW s, NEW p \in Lits, NEW W, ListOfWatchers(W), NEW k \in 1..Len(W),
           Mid(s, p, W, k - 1), NEW v \in Watchers, v.cref = W[k].cref, Watches(s, p, v)
    PROVE  LET t == KeepWatcher(s, p, v)
           IN  /\ Mid(t, p, W, k) /\ After(s, t)
               /\ t.ca = s.ca /\ t.watchesBin = s.watchesBin /\ t.trail = s.trail
               /\ t.trail_lim = s.trail_lim /\ t.qhead = s.qhead
               /\ t.watches[p] = Append(s.watches[p], v)
               /\ \A q \in Lits : q # p => t.watches[q] = s.watches[q]
<1> DEFINE t == KeepWatcher(s, p, v)
           m == Len(s.watches[p])
<1>1. /\ Consistent(s) /\ WatchersOK(s) /\ s \in Solvers
      /\ \A i \in (k - 1) + 1 .. Len(W) : Watches(s, p, W[i])
      /\ \A j \in DOMAIN s.watches[p] : \E i \in 1..(k - 1) : s.watches[p][j].cref = W[i].cref
      /\ WatchedBut(s, p, Rest(W, k - 1))
    BY DEF Mid, Consistent
<1>2. /\ s.watches \in [Lits -> Seq(Watchers)] /\ s.watches[p] \in Seq(Watchers)
      /\ m \in Nat /\ DOMAIN s.watches[p] = 1..m
      /\ Append(s.watches[p], v) \in Seq(Watchers)
    BY <1>1, SolverTypes
<1>3. /\ t = [s EXCEPT !.watches = [s.watches EXCEPT ![p] = Append(s.watches[p], v)]]
      /\ [s.watches EXCEPT ![p] = Append(s.watches[p], v)] \in [Lits -> Seq(Watchers)]
    BY <1>1, <1>2 DEF KeepWatcher, Solvers
<1>4. /\ t \in Solvers
      /\ t.watches = [s.watches EXCEPT ![p] = Append(s.watches[p], v)]
      /\ t.ca = s.ca /\ t.watchesBin = s.watchesBin /\ t.trail = s.trail
      /\ t.trail_lim = s.trail_lim /\ t.qhead = s.qhead
      /\ t.nVars = s.nVars /\ t.ok = s.ok /\ t.order_heap = s.order_heap
  <2> HIDE DEF t
  <2> QED
    BY <1>1, <1>3 DEF Solvers
<1>5. /\ t.watches[p] = Append(s.watches[p], v)
      /\ \A q \in Lits : q # p => t.watches[q] = s.watches[q]
    BY <1>2, <1>4
<1> HIDE DEF t
<1>6. /\ DOMAIN t.watches[p] = 1..(m + 1)
      /\ \A j \in 1..m : t.watches[p][j] = s.watches[p][j] /\ t.watches[p][j] \in Watchers
      /\ t.watches[p][m + 1] = v
      /\ \A j \in 1..(m + 1) : j \in 1..m \/ j = m + 1
    BY <1>2, <1>5
<1> HIDE DEF m
<1>7. /\ AttachedIn(t) = AttachedIn(s) /\ ListOf(t, "clauses") = ListOf(s, "clauses")
      /\ Fixed(t) = Fixed(s)
      /\ \A q, w : Watches(s, q, w) => Watches(t, q, w)
      /\ \A q, w : WatchesBinary(s, q, w) => WatchesBinary(t, q, w)
    BY SMTT(30), <1>4 DEF AttachedIn, ListOf, Fixed, Watches, WatchesBinary
<1>8. Consistent(t)
  <2>1. HeapOK(t)
    BY <1>1, <1>4, SameTrail DEF HeapOK, Consistent
  <2>2. TrailOK(t) /\ DecisionsFirst(t)
    BY <1>1, <1>4 DEF Consistent, TrailOK, DecisionLevel, DecisionsFirst
  <2>3. ClausesOK(t)
    BY <1>1, <1>4, <1>7 DEF Consistent, ClausesOK
  <2>4. ReasonsOK(t)
    BY SMTT(30), <1>1, <1>4, <1>7 DEF Consistent, ReasonsOK, ReasonOK
  <2> QED
    BY <1>4, <2>1, <2>2, <2>3, <2>4 DEF Consistent
<1>9. After(s, t)
  <2>1. \A lits : AssumptionsFirst(s, lits) => AssumptionsFirst(t, lits)
    BY <1>4 DEF AssumptionsFirst
  <2>2. Len(s.trail) \in Nat
    BY <1>1, SolverTypes
  <2> QED
    BY <1>4, <1>7, <2>1, <2>2, SameMeaning DEF After
<1>10. \A j \in 1..m : t.watches[p][j].cref # v.cref
  <2>1. ASSUME NEW j \in 1..m, t.watches[p][j].cref = v.cref
        PROVE  FALSE
    <3>1. PICK i \in 1..(k - 1) : s.watches[p][j].cref = W[i].cref
      BY <1>1, <1>2
    <3>2. W[i].cref = W[k].cref
      BY <1>6, <2>1, <3>1
    <3>3. i \in DOMAIN W /\ k \in DOMAIN W /\ i # k
      BY <3>1 DEF ListOfWatchers
    <3> QED
      BY <3>2, <3>3 DEF ListOfWatchers
  <2> QED
    BY <2>1
<1>11. WatchersOK(t)
  <2>1. ASSUME NEW q \in Lits
        PROVE  /\ \A i \in DOMAIN t.watches[q] : Watches(t, q, t.watches[q][i])
               /\ \A i \in DOMAIN t.watchesBin[q] : WatchesBinary(t, q, t.watchesBin[q][i])
               /\ \A i, j \in DOMAIN t.watches[q] :
                      t.watches[q][i].cref = t.watches[q][j].cref => i = j
    <3>1. \A i \in DOMAIN t.watchesBin[q] : WatchesBinary(t, q, t.watchesBin[q][i])
      BY <1>1, <1>4, <1>7 DEF WatchersOK
    <3>2. CASE q # p
      BY <1>1, <1>5, <1>7, <3>1, <3>2 DEF WatchersOK
    <3>3. CASE q = p
      <4>1. \A i \in 1..(m + 1) : Watches(t, p, t.watches[p][i])
        BY <1>1, <1>2, <1>6, <1>7 DEF WatchersOK
      <4>2. \A i, j \in 1..m : t.watches[p][i].cref = t.watches[p][j].cref => i = j
        <5>1. \A i, j \in 1..m : s.watches[p][i].cref = s.watches[p][j].cref => i = j
          BY <1>1, <1>2 DEF WatchersOK
        <5> QED
          BY <1>6, <5>1
      <4>3. \A i, j \in 1..(m + 1) : t.watches[p][i].cref = t.watches[p][j].cref => i = j
        BY <1>6, <1>10, <4>2
      <4> QED
        BY <1>6, <3>1, <3>3, <4>1, <4>3
    <3> QED
      BY <3>2, <3>3
  <2> QED
    BY <2>1 DEF WatchersOK
<1>12. \A i \in k + 1 .. Len(W) : Watches(t, p, W[i])
    BY <1>1, <1>7
<1>13. \A j \in DOMAIN t.watches[p] : t.watches[p][j].cref \in {W[i].cref : i \in 1..k}
  <2>1. k \in 1..k /\ \A i \in 1..(k - 1) : i \in 1..k
    OBVIOUS
  <2>2. ASSUME NEW j \in 1..(m + 1)
        PROVE  \E i \in 1..k : t.watches[p][j].cref = W[i].cref
    <3>1. CASE j = m + 1
      BY <1>6, <2>1, <3>1
    <3>2. CASE j \in 1..m
      BY <1>1, <1>2, <1>6, <2>1, <3>2
    <3> QED
      BY <1>6, <3>1, <3>2
  <2> QED
    BY <1>6, <2>2
<1>14. WatchedBut(t, p, Rest(W, k))
  <2>1. \A q \in Lits : \A cr : Listed(s.watches[q], cr) => Listed(t.watches[q], cr)
    <3>1. \A cr : Listed(s.watches[p], cr) => Listed(t.watches[p], cr)
      <4>1. \A j \in 1..m : j \in 1..(m + 1)
        BY <1>2 DEF m
      <4> QED
        BY <1>2, <1>6, <4>1 DEF Listed
    <3> QED
      BY <1>5, <3>1
  <2>2. Listed(t.watches[p], v.cref)
    <3>1. m + 1 \in 1..(m + 1)
      BY <1>2 DEF m
    <3> QED
      BY <1>6, <3>1 DEF Listed
  <2>3. \A cr \in Rest(W, k - 1) : cr \in Rest(W, k) \/ cr = v.cref
    <3>1. \A i \in (k - 1) + 1 .. Len(W) : i \in k + 1 .. Len(W) \/ i = k
      OBVIOUS
    <3> QED
      BY <3>1 DEF Rest
  <2>4. ASSUME NEW cr \in AttachedIn(t), NEW j \in 1..2
        PROVE  LET d == t.ca[cr].lits
               IN  /\ Len(d) = 2 => Listed(t.watchesBin[Neg(d[j])], cr)
                   /\ Len(d) > 2 => \/ Listed(t.watches[Neg(d[j])], cr)
                                    \/ d[j] = Neg(p) /\ cr \in Rest(W, k)
    <3> DEFINE d == t.ca[cr].lits
    <3>1. d = s.ca[cr].lits /\ cr \in AttachedIn(s) /\ d[j] \in Lits /\ Neg(d[j]) \in Lits
      <4>1. d = s.ca[cr].lits /\ cr \in AttachedIn(s)
        BY <1>4, <1>7
      <4>2. Len(d) >= 2
        BY <1>1, <4>1 DEF Consistent, ClausesOK
      <4>3. j \in DOMAIN d /\ cr \in DOMAIN s.ca
        BY <1>1, <4>1, <4>2, SolverTypes DEF AttachedIn
      <4> QED
        BY <1>1, <4>1, <4>3, SolverTypes, LitFacts
    <3> HIDE DEF d
    <3>2. Len(d) = 2 => Listed(t.watchesBin[Neg(d[j])], cr)
      BY <1>1, <1>4, <3>1 DEF WatchedBut
    <3>3. ASSUME Len(d) > 2
          PROVE  Listed(t.watches[Neg(d[j])], cr) \/ (d[j] = Neg(p) /\ cr \in Rest(W, k))
      <4>1. Listed(s.watches[Neg(d[j])], cr) \/ (d[j] = Neg(p) /\ cr \in Rest(W, k - 1))
        BY <1>1, <3>1, <3>3 DEF WatchedBut
      <4>2. CASE Listed(s.watches[Neg(d[j])], cr)
        BY <2>1, <3>1, <4>2
      <4>3. CASE d[j] = Neg(p) /\ cr \in Rest(W, k - 1)
        <5>1. Neg(d[j]) = p
          BY <4>3, LitFacts
        <5> QED
          BY <2>2, <2>3, <4>3, <5>1
      <4> QED
        BY <4>1, <4>2, <4>3
    <3> QED
      BY <3>2, <3>3 DEF d
  <2> QED
    BY <2>4 DEF WatchedBut
<1>15. Mid(t, p, W, k)
    BY <1>8, <1>11, <1>12, <1>13, <1>14 DEF Mid
<1> QED
    BY <1>4, <1>5, <1>9, <1>15 DEF t

LEMMA FalseSecondFacts ==
    ASSUME NEW c \in Seq(Lits), Len(c) > 2, Distinct(c), NEW f \in Lits,
           \E k \in 1..2 : c[k] = f
    PROVE  LET d == FalseSecond(c, f)
           IN  /\ d \in Seq(Lits) /\ Len(d) = Len(c) /\ DOMAIN d = 1..Len(c)
               /\ ToSet(d) = ToSet(c) /\ Distinct(d)
               /\ d[2] = f /\ d[1] # f /\ (d[1] = c[1] \/ c[1] = f)
               /\ (d[1] = c[1] /\ d[2] = c[2]) \/ (d[1] = c[2] /\ d[2] = c[1])
<1>1. /\ Len(c) \in Nat /\ DOMAIN c = 1..Len(c) /\ 1 \in 1..Len(c) /\ 2 \in 1..Len(c)
      /\ \A k \in 1..2 : k = 1 \/ k = 2
    OBVIOUS
<1>2. c[1] # c[2]
    BY <1>1 DEF Distinct
<1>3. CASE c[1] = f
  <2> DEFINE d == Swap(c, 1, 2)
  <2>1. FalseSecond(c, f) = d
    BY <1>3 DEF FalseSecond
  <2>2. /\ d \in Seq(Lits) /\ Len(d) = Len(c) /\ DOMAIN d = 1..Len(c)
        /\ ToSet(d) = ToSet(c) /\ d[1] = c[2] /\ d[2] = c[1] /\ Distinct(d)
    <3>1. PICK a \in 1..Len(c), b \in 1..Len(c) : a = 1 /\ b = 2
      BY <1>1
    <3>2. d = Swap(c, a, b)
      BY <3>1
    <3> HIDE DEF d
    <3>3. /\ d \in Seq(Lits) /\ Len(d) = Len(c) /\ DOMAIN d = 1..Len(c)
          /\ ToSet(d) = ToSet(c) /\ d[a] = c[b] /\ d[b] = c[a] /\ Distinct(d)
      BY <3>2, SwapFacts
    <3> QED
      BY <3>1, <3>3
  <2> HIDE DEF d
  <2> QED
    BY <1>2, <1>3, <2>1, <2>2
<1>4. CASE c[1] # f
    BY <1>1, <1>2, <1>4 DEF FalseSecond
<1> QED
    BY <1>3, <1>4

\* The watchers of true literals are as they were.
SameForTrue(s, t, p) ==
    /\ After(s, t)
    /\ t.watchesBin = s.watchesBin /\ t.trail = s.trail
    /\ t.trail_lim = s.trail_lim /\ t.qhead = s.qhead
    /\ t.watches[p] = s.watches[p]
    /\ \A q \in Lits : IsTrue(s, q) => t.watches[q] = s.watches[q]

\* A clause whose second literal has become false watches another one.
LEMMA WatchMoves ==
    ASSUME NEW s, NEW p \in Lits, NEW W, ListOfWatchers(W), NEW k \in 1..Len(W),
           Mid(s, p, W, k - 1), NEW cr, cr = W[k].cref, NEW c, c = s.ca[cr].lits,
           c[2] = Neg(p), IsFalse(s, Neg(p)),
           NEW new \in 3..Len(c), ~IsFalse(s, c[new])
    PROVE  LET t == [s EXCEPT !.ca[cr].lits = Swap(c, 2, new),
                              !.watches[Neg(c[new])] = Append(@, Watcher(cr, c[1]))]
           IN  Mid(t, p, W, k) /\ SameForTrue(s, t, p)
<1> DEFINE d == Swap(c, 2, new)
           n == Neg(c[new])
           v == Watcher(cr, c[1])
           m == Len(s.watches[n])
           t == [s EXCEPT !.ca[cr].lits = d, !.watches[n] = Append(@, v)]
<1>1. /\ Consistent(s) /\ WatchersOK(s) /\ s \in Solvers /\ ClausesOK(s) /\ TrailOK(s)
      /\ \A i \in (k - 1) + 1 .. Len(W) : Watches(s, p, W[i])
      /\ \A j \in DOMAIN s.watches[p] : s.watches[p][j].cref \in {W[i].cref : i \in 1..(k - 1)}
      /\ WatchedBut(s, p, Rest(W, k - 1))
    BY DEF Mid, Consistent
<1>2. /\ cr \in AttachedIn(s) /\ cr \in DOMAIN s.ca /\ cr \in Nat
      /\ c \in Seq(Lits) /\ Len(c) > 2 /\ Distinct(c)
      /\ DOMAIN c = 1..Len(c) /\ Len(c) \in Nat
      /\ 1 \in DOMAIN c /\ 2 \in DOMAIN c /\ new \in DOMAIN c
      /\ c[1] \in Lits /\ c[2] \in Lits /\ c[new] \in Lits
  <2>1. k \in (k - 1) + 1 .. Len(W)
    OBVIOUS
  <2>2. Watches(s, p, W[k])
    BY <1>1, <2>1
  <2>3. cr \in AttachedIn(s) /\ cr \in DOMAIN s.ca /\ Len(c) > 2
    BY <2>2 DEF Watches, AttachedIn
  <2>4. c \in Seq(Lits) /\ Distinct(c) /\ cr \in Nat
    BY <1>1, <2>3, SolverTypes DEF ClausesOK
  <2>5. DOMAIN c = 1..Len(c) /\ Len(c) \in Nat
    BY ONLY <2>4
  <2>6. 1 \in DOMAIN c /\ 2 \in DOMAIN c /\ new \in DOMAIN c
    BY ONLY <2>3, <2>5, new \in 3..Len(c)
  <2>7. c[1] \in Lits /\ c[2] \in Lits /\ c[new] \in Lits
    BY ONLY <2>4, <2>6
  <2> QED
    BY ONLY <2>3, <2>4, <2>5, <2>6, <2>7
<1>3. c[1] # c[2] /\ c[1] # c[new] /\ c[2] # c[new]
  <2>1. \A i, j \in DOMAIN c : Var(c[i]) = Var(c[j]) => i = j
    BY <1>2 DEF Distinct
  <2>2. 1 # new /\ 2 # new
    OBVIOUS
  <2> QED
    BY ONLY <1>2, <2>1, <2>2
<1>4. n \in Lits /\ Neg(n) = c[new] /\ Neg(c[1]) \in Lits /\ v \in Watchers
      /\ v.cref = cr /\ v.blocker = c[1]
    BY <1>2, LitFacts DEF Watcher, Watchers
<1>5. /\ d \in Seq(Lits) /\ Len(d) = Len(c) /\ ToSet(d) = ToSet(c) /\ Distinct(d)
      /\ d[1] = c[1] /\ d[2] = c[new]
  <2>1. PICK a \in 1..Len(c) : a = 2
    BY <1>2
  <2>2. PICK b \in 1..Len(c) : b = new
    BY <1>2
  <2>3. d = Swap(c, a, b) /\ 1 # a /\ 1 # b /\ 1 \in 1..Len(c)
    BY <1>2, <2>1, <2>2
  <2> HIDE DEF d
  <2>4. c \in Seq(Lits) /\ Distinct(c)
    BY <1>2
  <2>5. /\ d \in Seq(Lits) /\ Len(d) = Len(c) /\ ToSet(d) = ToSet(c) /\ Distinct(d)
        /\ d[a] = c[b]
    BY ONLY <2>3, <2>4, SwapFacts
  <2>6. d[1] = c[1]
    BY ONLY <2>3, <2>4, SwapFacts
  <2> QED
    BY <2>1, <2>2, <2>5, <2>6
<1> HIDE DEF d, v, n
<1>6. /\ s.watches \in [Lits -> Seq(Watchers)] /\ s.watches[n] \in Seq(Watchers)
      /\ m \in Nat /\ DOMAIN s.watches[n] = 1..m
      /\ Append(s.watches[n], v) \in Seq(Watchers)
      /\ s.ca \in Seq(Clauses) /\ s.ca[cr] \in Clauses
  <2>1. /\ s.watches \in [Lits -> Seq(Watchers)] /\ s.ca \in Seq(Clauses)
        /\ s.ca[cr] \in Clauses
    BY <1>1, <1>2, SolverTypes
  <2>2. s.watches[n] \in Seq(Watchers) /\ v \in Watchers
    BY <1>4, <2>1
  <2> QED
    BY <2>1, <2>2
<1>7. /\ [s.watches EXCEPT ![n] = Append(s.watches[n], v)] \in [Lits -> Seq(Watchers)]
      /\ [s.ca EXCEPT ![cr].lits = d] \in Seq(Clauses)
  <2> DEFINE e == [s.ca[cr] EXCEPT !.lits = d]
  <2>1. e \in Clauses
    BY <1>5, <1>6 DEF Clauses
  <2> HIDE DEF e
  <2>2. [s.ca EXCEPT ![cr] = e] \in Seq(Clauses)
    <3>1. PICK C : C = Clauses
      OBVIOUS
    <3>2. s.ca \in Seq(C)
      BY ONLY <1>6, <3>1
    <3>3. e \in C
      BY ONLY <2>1, <3>1
    <3>4. cr \in 1..Len(s.ca)
      BY SMTT(30), <1>2, <1>6
    <3>5. [s.ca EXCEPT ![cr] = e] \in Seq(C)
      BY ONLY <3>2, <3>3, <3>4, ExceptSeq
    <3> QED
      BY ONLY <3>1, <3>5
  <2> QED
    BY <1>4, <1>6, <2>2 DEF e
<1>8. /\ t \in Solvers
      /\ t.watches = [s.watches EXCEPT ![n] = Append(s.watches[n], v)]
      /\ t.ca = [s.ca EXCEPT ![cr].lits = d]
      /\ t.watchesBin = s.watchesBin /\ t.trail = s.trail
      /\ t.trail_lim = s.trail_lim /\ t.qhead = s.qhead
      /\ t.nVars = s.nVars /\ t.ok = s.ok /\ t.order_heap = s.order_heap
  <2> DEFINE f == [s.watches EXCEPT ![n] = Append(s.watches[n], v)]
             a == [s.ca EXCEPT ![cr].lits = d]
  <2>1. t = [s EXCEPT !.ca = a, !.watches = f]
    BY <1>1 DEF Solvers
  <2>2. f \in [Lits -> Seq(Watchers)] /\ a \in Seq(Clauses)
    BY <1>7
  <2> HIDE DEF t, f, a
  <2>3. /\ t \in Solvers /\ t.watches = f /\ t.ca = a
        /\ t.watchesBin = s.watchesBin /\ t.trail = s.trail
        /\ t.trail_lim = s.trail_lim /\ t.qhead = s.qhead
        /\ t.nVars = s.nVars /\ t.ok = s.ok /\ t.order_heap = s.order_heap
    BY <1>1, <2>1, <2>2 DEF Solvers
  <2> QED
    BY <2>3 DEF f, a
<1> HIDE DEF t
<1>9. /\ t.watches[n] = Append(s.watches[n], v)
      /\ \A q \in Lits : q # n => t.watches[q] = s.watches[q]
    BY <1>4, <1>6, <1>8
<1>10. /\ DOMAIN t.watches[n] = 1..(m + 1)
       /\ \A j \in 1..m : t.watches[n][j] = s.watches[n][j]
       /\ t.watches[n][m + 1] = v
       /\ \A j \in 1..(m + 1) : j \in 1..m \/ j = m + 1
       /\ m + 1 \in 1..(m + 1) /\ \A j \in 1..m : j \in 1..(m + 1)
  <2>1. PICK ws \in Seq(Watchers) : ws = s.watches[n]
    BY <1>6
  <2>2. PICK z \in Nat : z = m
    BY <1>6
  <2>3. v \in Watchers /\ Len(ws) = z /\ t.watches[n] = Append(ws, v)
    BY <1>4, <1>9, <2>1, <2>2
  <2>4. /\ DOMAIN Append(ws, v) = 1..(z + 1) /\ Append(ws, v)[z + 1] = v
        /\ \A j \in 1..z : Append(ws, v)[j] = ws[j]
    BY ONLY <2>3, ws \in Seq(Watchers), z \in Nat
  <2>5. /\ \A j \in 1..(z + 1) : j \in 1..z \/ j = z + 1
        /\ z + 1 \in 1..(z + 1) /\ \A j \in 1..z : j \in 1..(z + 1)
    BY ONLY z \in Nat
  <2> QED
    BY ONLY <2>1, <2>2, <2>3, <2>4, <2>5
<1> HIDE DEF m
<1>11. /\ Consistent(t) /\ After(s, t)
       /\ AttachedIn(t) = AttachedIn(s) /\ t.ca[cr].lits = d
       /\ \A o \in AttachedIn(s) : o # cr => t.ca[o] = s.ca[o]
       /\ \A o \in AttachedIn(s) : Len(t.ca[o].lits) = Len(s.ca[o].lits)
  <2>1. /\ Len(s.ca[cr].lits) > 2 /\ Len(d) = Len(s.ca[cr].lits)
        /\ ToSet(d) = ToSet(s.ca[cr].lits)
        /\ d[1] = s.ca[cr].lits[1]
    BY <1>2, <1>5
  <2>2. Recast(s, t, cr, d)
    BY <1>2, <1>5, <1>8, <2>1 DEF Recast
  <2> QED
    BY <1>1, <2>2, Reordered
<1>12. ~IsTrue(s, n) /\ n # p
  <2>1. ~IsTrue(s, n)
    BY DEF IsFalse, n
  <2>2. n # p
    BY <1>2, <1>3, <1>4, LitFacts
  <2> QED
    BY <2>1, <2>2
<1>13. \A q, w : w.cref # cr =>
           /\ Watches(s, q, w) => Watches(t, q, w)
           /\ WatchesBinary(s, q, w) => WatchesBinary(t, q, w)
    BY <1>11 DEF Watches, WatchesBinary
<1>14. \A j \in DOMAIN s.watches[n] : s.watches[n][j].cref # cr
  <2>1. ASSUME NEW j \in DOMAIN s.watches[n], s.watches[n][j].cref = cr
        PROVE  FALSE
    <3>1. Watches(s, n, s.watches[n][j])
      BY <1>1, <1>4 DEF WatchersOK
    <3>2. \E i \in 1..2 : c[i] = Neg(n)
      BY <2>1, <3>1 DEF Watches
    <3>3. \A i \in 1..2 : i = 1 \/ i = 2
      OBVIOUS
    <3> QED
      BY <1>3, <1>4, <3>2, <3>3
  <2> QED
    BY <2>1
<1>15. \A i, j \in 1..Len(W) : W[i].cref = W[j].cref => i = j
    BY DEF ListOfWatchers
<1>16. WatchersOK(t)
  <2>1. ASSUME NEW q \in Lits, NEW j \in DOMAIN s.watches[q]
        PROVE  Watches(t, q, s.watches[q][j])
    <3> DEFINE w == s.watches[q][j]
    <3>1. Watches(s, q, w)
      BY <1>1 DEF WatchersOK
    <3> SUFFICES Watches(t, q, w)
      OBVIOUS
    <3> HIDE DEF w
    <3>2. CASE w.cref # cr
      BY <1>13, <3>1, <3>2
    <3>3. CASE w.cref = cr
      <4>1. /\ \E i \in 1..2 : c[i] = Neg(q)
            /\ w.blocker \in ToSet(c) /\ w.blocker # Neg(q)
        BY <3>1, <3>3 DEF Watches
      <4>2. q # p
        <5>1. ASSUME q = p
              PROVE  FALSE
          <6>1. PICK i \in 1..(k - 1) : w.cref = W[i].cref
            BY <1>1, <5>1 DEF w
          <6>2. i \in 1..Len(W) /\ i # k
            BY <6>1
          <6> QED
            BY <1>15, <3>3, <6>1, <6>2
        <5> QED
          BY <5>1
      <4>3. Neg(q) # c[2]
        BY <4>2, LitFacts
      <4>4. d[1] = Neg(q)
        <5>1. \A i \in 1..2 : i = 1 \/ i = 2
          OBVIOUS
        <5> QED
          BY <1>5, <4>1, <4>3, <5>1
      <4>5. 1 \in 1..2 /\ Len(d) > 2
        BY SMTT(30), <1>2, <1>5
      <4> QED
        BY <1>2, <1>5, <1>11, <3>3, <4>1, <4>4, <4>5 DEF Watches
    <3> QED
      BY <3>2, <3>3
  <2>2. Watches(t, n, v)
    <3>1. 2 \in 1..2 /\ Len(d) > 2
      BY SMTT(30), <1>2, <1>5
    <3>2. c[1] \in ToSet(c)
      BY <1>2 DEF ToSet
    <3>3. d[2] = Neg(n)
      BY <1>4, <1>5
    <3> QED
      BY <1>2, <1>3, <1>4, <1>5, <1>11, <3>1, <3>2, <3>3 DEF Watches
  <2>3. ASSUME NEW q \in Lits
        PROVE  /\ \A i \in DOMAIN t.watches[q] : Watches(t, q, t.watches[q][i])
               /\ \A i \in DOMAIN t.watchesBin[q] : WatchesBinary(t, q, t.watchesBin[q][i])
               /\ \A i, j \in DOMAIN t.watches[q] :
                      t.watches[q][i].cref = t.watches[q][j].cref => i = j
    <3>1. \A i \in DOMAIN t.watchesBin[q] : WatchesBinary(t, q, t.watchesBin[q][i])
      <4>1. ASSUME NEW i \in DOMAIN s.watchesBin[q]
            PROVE  WatchesBinary(t, q, s.watchesBin[q][i])
        <5>1. WatchesBinary(s, q, s.watchesBin[q][i])
          BY <1>1 DEF WatchersOK
        <5>2. s.watchesBin[q][i].cref # cr
          <6>1. ASSUME s.watchesBin[q][i].cref = cr
                PROVE  FALSE
            <7>1. c \in {<<Neg(q), s.watchesBin[q][i].blocker>>,
                         <<s.watchesBin[q][i].blocker, Neg(q)>>}
              BY <5>1, <6>1 DEF WatchesBinary
            <7>2. \A x, y : Len(<<x, y>>) = 2
              OBVIOUS
            <7>3. Len(c) = 2
              BY <7>1, <7>2
            <7> QED
              BY <1>2, <7>3
          <6> QED
            BY <6>1
        <5> QED
          BY <1>13, <5>1, <5>2
      <4> QED
        BY <1>8, <4>1
    <3>2. CASE q # n
      <4>1. t.watches[q] = s.watches[q]
        BY <1>9, <3>2
      <4> QED
        BY <1>1, <2>1, <3>1, <4>1 DEF WatchersOK
    <3>3. CASE q = n
      <4>1. \A i \in 1..(m + 1) : Watches(t, n, t.watches[n][i])
        BY <1>4, <1>6, <1>10, <2>1, <2>2
      <4>2. \A i, j \in 1..m : s.watches[n][i].cref = s.watches[n][j].cref => i = j
        BY <1>1, <1>4, <1>6 DEF WatchersOK
      <4>3. \A i, j \in 1..(m + 1) : t.watches[n][i].cref = t.watches[n][j].cref => i = j
        <5>1. t.watches[n][m + 1].cref = cr
          BY <1>4, <1>10
        <5>2. \A i \in 1..m : t.watches[n][i].cref # cr
          BY <1>6, <1>10, <1>14
        <5>3. \A i, j \in 1..m : t.watches[n][i].cref = t.watches[n][j].cref => i = j
          BY <1>10, <4>2
        <5> QED
          BY <1>10, <5>1, <5>2, <5>3
      <4> QED
        BY <1>10, <3>1, <3>3, <4>1, <4>3
    <3> QED
      BY <3>2, <3>3
  <2> QED
    BY <2>3 DEF WatchersOK
<1>17. \A i \in k + 1 .. Len(W) : Watches(t, p, W[i])
  <2>1. ASSUME NEW i \in k + 1 .. Len(W)
        PROVE  Watches(t, p, W[i])
    <3>1. i \in (k - 1) + 1 .. Len(W) /\ i \in 1..Len(W) /\ i # k
      OBVIOUS
    <3>2. W[i].cref # cr
      BY <1>15, <3>1
    <3> QED
      BY <1>1, <1>13, <3>1, <3>2
  <2> QED
    BY <2>1
<1>18. t.watches[p] = s.watches[p]
    BY <1>9, <1>12
<1>19. \A j \in DOMAIN t.watches[p] : t.watches[p][j].cref \in {W[i].cref : i \in 1..k}
  <2>1. \A i \in 1..(k - 1) : i \in 1..k
    OBVIOUS
  <2> QED
    BY <1>1, <1>18, <2>1
<1>20. WatchedBut(t, p, Rest(W, k))
  <2>1. \A q \in Lits : \A o : Listed(s.watches[q], o) => Listed(t.watches[q], o)
    <3>1. \A o : Listed(s.watches[n], o) => Listed(t.watches[n], o)
      BY <1>6, <1>10 DEF Listed
    <3> QED
      BY <1>9, <3>1
  <2>2. Listed(t.watches[n], cr)
    BY <1>4, <1>10 DEF Listed
  <2>3. \A o \in Rest(W, k - 1) : o \in Rest(W, k) \/ o = cr
    <3>1. \A i \in (k - 1) + 1 .. Len(W) : i \in k + 1 .. Len(W) \/ i = k
      OBVIOUS
    <3> QED
      BY <3>1 DEF Rest
  <2>4. ASSUME NEW o \in AttachedIn(t), NEW j \in 1..2
        PROVE  LET e == t.ca[o].lits
               IN  /\ Len(e) = 2 => Listed(t.watchesBin[Neg(e[j])], o)
                   /\ Len(e) > 2 => \/ Listed(t.watches[Neg(e[j])], o)
                                    \/ e[j] = Neg(p) /\ o \in Rest(W, k)
    <3>0. o \in AttachedIn(s)
      BY <1>11
    <3>1. CASE o # cr
      <4> DEFINE e == t.ca[o].lits
      <4>1. e = s.ca[o].lits
        BY <1>11, <3>0, <3>1
      <4>2. e[j] \in Lits /\ Neg(e[j]) \in Lits
        <5>1. Len(e) >= 2
          BY <1>1, <3>0, <4>1 DEF ClausesOK
        <5>2. j \in DOMAIN e /\ o \in DOMAIN s.ca
          BY <1>1, <3>0, <4>1, <5>1, SolverTypes DEF AttachedIn
        <5> QED
          BY <1>1, <4>1, <5>2, SolverTypes, LitFacts
      <4> HIDE DEF e
      <4>3. Len(e) = 2 => Listed(t.watchesBin[Neg(e[j])], o)
        BY <1>1, <1>8, <3>0, <4>1 DEF WatchedBut
      <4>4. ASSUME Len(e) > 2
            PROVE  Listed(t.watches[Neg(e[j])], o) \/ (e[j] = Neg(p) /\ o \in Rest(W, k))
        <5>1. Listed(s.watches[Neg(e[j])], o) \/ (e[j] = Neg(p) /\ o \in Rest(W, k - 1))
          BY <1>1, <3>0, <4>1, <4>4 DEF WatchedBut
        <5> QED
          BY <2>1, <2>3, <3>1, <4>2, <5>1
      <4> QED
        BY <4>3, <4>4 DEF e
    <3>2. CASE o = cr
      <4>1. t.ca[o].lits = d /\ Len(d) > 2
        BY <1>2, <1>5, <1>11, <3>2
      <4>2. Listed(t.watches[Neg(d[1])], cr)
        <5>1. 1 \in 1..2
          OBVIOUS
        <5>2. Listed(s.watches[Neg(c[1])], cr) \/ c[1] = Neg(p)
          BY <1>1, <1>2, <3>0, <5>1 DEF WatchedBut
        <5> QED
          BY <1>3, <1>4, <1>5, <2>1, <5>2
      <4>3. Listed(t.watches[Neg(d[2])], cr)
        BY <1>5, <2>2 DEF n
      <4>4. j = 1 \/ j = 2
        OBVIOUS
      <4>5. Listed(t.watches[Neg(d[j])], cr)
        BY <4>2, <4>3, <4>4
      <4>6. Len(d) # 2
        <5>1. Len(c) \in Nat /\ Len(c) > 2 /\ Len(d) = Len(c)
          BY <1>2, <1>5
        <5>2. \A a \in Nat : a > 2 => a # 2
          OBVIOUS
        <5> QED
          BY ONLY <5>1, <5>2
      <4> QED
        BY <3>2, <4>1, <4>5, <4>6
    <3> QED
      BY <3>1, <3>2
  <2> QED
    BY <2>4 DEF WatchedBut
<1>21. Mid(t, p, W, k)
    BY <1>11, <1>16, <1>17, <1>19, <1>20 DEF Mid
<1>22. \A q \in Lits : IsTrue(s, q) => t.watches[q] = s.watches[q]
    BY <1>9, <1>12
<1>23. /\ Mid(t, p, W, k) /\ After(s, t)
       /\ t.watchesBin = s.watchesBin /\ t.trail = s.trail
       /\ t.trail_lim = s.trail_lim /\ t.qhead = s.qhead
       /\ t.watches[p] = s.watches[p]
    BY <1>8, <1>11, <1>18, <1>21
<1> QED
    BY <1>22, <1>23 DEF SameForTrue, t, d, n, v

\* Entry i of the trail is the literal p whose watchers are visited.
Here(s, p, i) ==
    /\ i \in DOMAIN s.trail /\ s.trail[i].lit = p
    /\ s.trail[i].level = DecisionLevel(s)
    /\ Visited(s, i - 1)

Kept(s, p) == \A j \in DOMAIN s.watches[p] : IsTrue(s, s.watches[p][j].blocker)

LEMMA HereAfter ==
    ASSUME NEW s \in Solvers, NEW t \in Solvers, After(s, t), NEW p, NEW i, Here(s, p, i),
           Visited(t, i - 1)
    PROVE  Here(t, p, i)
BY AfterFacts DEF Here, After

LEMMA AppendKept ==
    ASSUME NEW s, NEW t, NEW p, s.watches[p] \in Seq(Watchers), NEW v \in Watchers,
           t.watches[p] = Append(s.watches[p], v), Kept(s, p),
           \A l : IsTrue(s, l) => IsTrue(t, l), IsTrue(t, v.blocker)
    PROVE  Kept(t, p)
<1> DEFINE m == Len(s.watches[p])
<1>1. /\ m \in Nat /\ DOMAIN t.watches[p] = 1..(m + 1) /\ DOMAIN s.watches[p] = 1..m
      /\ \A j \in 1..m : t.watches[p][j] = s.watches[p][j]
      /\ t.watches[p][m + 1] = v
      /\ \A j \in 1..(m + 1) : j \in 1..m \/ j = m + 1
    OBVIOUS
<1> HIDE DEF m
<1> QED
    BY <1>1 DEF Kept

LEMMA RecastType ==
    ASSUME NEW s \in Solvers, NEW cr \in DOMAIN s.ca, NEW d \in Seq(Lits)
    PROVE  /\ [s.ca EXCEPT ![cr].lits = d] \in Seq(Clauses)
           /\ [s EXCEPT !.ca[cr].lits = d] = [s EXCEPT !.ca = [s.ca EXCEPT ![cr].lits = d]]
<1> DEFINE e == [s.ca[cr] EXCEPT !.lits = d]
<1>1. s.ca \in Seq(Clauses) /\ s.ca[cr] \in Clauses /\ cr \in 1..Len(s.ca)
    BY SolverTypes
<1>2. e \in Clauses
    BY <1>1 DEF Clauses
<1> HIDE DEF e
<1>3. [s.ca EXCEPT ![cr] = e] \in Seq(Clauses)
    BY <1>1, <1>2, ExceptSeq
<1> QED
    BY <1>3 DEF e, Solvers

\* Clause cr is rewritten as d.
Written(s, cr, d) == [s EXCEPT !.ca[cr].lits = d]

\* Clause cr of s is d in t, with the literal that p makes false second.
Turned(s, t, p, cr, d) ==
    /\ After(s, t)
    /\ t.ca[cr].lits = d /\ t.watches = s.watches /\ t.watchesBin = s.watchesBin
    /\ t.trail = s.trail /\ t.trail_lim = s.trail_lim /\ t.qhead = s.qhead
    /\ cr \in AttachedIn(t) /\ d \in Seq(Lits) /\ Len(d) > 2 /\ Distinct(d)
    /\ DOMAIN d = 1..Len(d) /\ d[2] = Neg(p) /\ d[1] # Neg(p)

\* The false literal of a visited clause goes to the second place.
LEMMA SwappedKeeps ==
    ASSUME NEW s, NEW p \in Lits, NEW W, ListOfWatchers(W), NEW k \in 1..Len(W),
           Mid(s, p, W, k - 1), NEW cr, cr = W[k].cref, IsTrue(s, p),
           NEW d, d = FalseSecond(s.ca[cr].lits, Neg(p)),
           NEW t, t = Written(s, cr, d)
    PROVE  Mid(t, p, W, k - 1) /\ Turned(s, t, p, cr, d)
<1> DEFINE c == s.ca[cr].lits
<1>1. /\ Consistent(s) /\ WatchersOK(s) /\ s \in Solvers /\ ClausesOK(s) /\ TrailOK(s)
      /\ \A i \in (k - 1) + 1 .. Len(W) : Watches(s, p, W[i])
      /\ WatchedBut(s, p, Rest(W, k - 1))
    BY DEF Mid, Consistent
<1>2. /\ cr \in AttachedIn(s) /\ cr \in DOMAIN s.ca /\ Len(c) > 2
      /\ \E i \in 1..2 : c[i] = Neg(p)
      /\ c \in Seq(Lits) /\ Distinct(c)
  <2>1. k \in (k - 1) + 1 .. Len(W)
    OBVIOUS
  <2>2. Watches(s, p, W[k])
    BY <1>1, <2>1
  <2>3. cr \in AttachedIn(s) /\ cr \in DOMAIN s.ca /\ Len(c) > 2
        /\ \E i \in 1..2 : c[i] = Neg(p)
    BY <2>2 DEF Watches, AttachedIn
  <2>4. c \in Seq(Lits) /\ Distinct(c)
    BY <1>1, <2>3, SolverTypes DEF ClausesOK
  <2> QED
    BY <2>3, <2>4
<1>3. Neg(p) \in Lits /\ ~IsTrue(s, Neg(p))
    BY <1>1, LitFacts, Values DEF IsFalse
<1>4. /\ d \in Seq(Lits) /\ Len(d) = Len(c) /\ DOMAIN d = 1..Len(c)
      /\ ToSet(d) = ToSet(c) /\ Distinct(d)
      /\ d[2] = Neg(p) /\ d[1] # Neg(p) /\ (d[1] = c[1] \/ c[1] = Neg(p))
      /\ (d[1] = c[1] /\ d[2] = c[2]) \/ (d[1] = c[2] /\ d[2] = c[1])
  <2>1. d = FalseSecond(c, Neg(p))
    OBVIOUS
  <2> HIDE DEF c
  <2> QED
    BY <1>2, <1>3, <2>1, FalseSecondFacts
<1>5. /\ t \in Solvers
      /\ t.ca = [s.ca EXCEPT ![cr].lits = d]
      /\ t.watches = s.watches /\ t.watchesBin = s.watchesBin /\ t.trail = s.trail
      /\ t.trail_lim = s.trail_lim /\ t.qhead = s.qhead
      /\ t.nVars = s.nVars /\ t.ok = s.ok /\ t.order_heap = s.order_heap
  <2> DEFINE a == [s.ca EXCEPT ![cr].lits = d]
  <2>1. a \in Seq(Clauses) /\ t = [s EXCEPT !.ca = a]
    BY <1>1, <1>2, <1>4, RecastType DEF Written
  <2> HIDE DEF a
  <2>2. /\ t \in Solvers /\ t.ca = a
        /\ t.watches = s.watches /\ t.watchesBin = s.watchesBin /\ t.trail = s.trail
        /\ t.trail_lim = s.trail_lim /\ t.qhead = s.qhead
        /\ t.nVars = s.nVars /\ t.ok = s.ok /\ t.order_heap = s.order_heap
    BY <1>1, <2>1 DEF Solvers
  <2> QED
    BY <2>2 DEF a
<1>6. Recast(s, t, cr, d)
    BY <1>2, <1>3, <1>4, <1>5 DEF Recast
<1>7. /\ Consistent(t) /\ After(s, t)
      /\ AttachedIn(t) = AttachedIn(s) /\ t.ca[cr].lits = d
      /\ \A o \in AttachedIn(s) : o # cr => t.ca[o] = s.ca[o]
    BY ONLY <1>1, <1>6, Reordered
<1>8. \A o \in AttachedIn(s) :
          LET e == s.ca[o].lits
              f == t.ca[o].lits
          IN  /\ Len(e) >= 2 /\ Len(f) = Len(e) /\ ToSet(f) = ToSet(e)
              /\ (f[1] = e[1] /\ f[2] = e[2]) \/ (f[1] = e[2] /\ f[2] = e[1])
  <2>1. ASSUME NEW o \in AttachedIn(s)
        PROVE  LET e == s.ca[o].lits
                   f == t.ca[o].lits
               IN  /\ Len(e) >= 2 /\ Len(f) = Len(e) /\ ToSet(f) = ToSet(e)
                   /\ (f[1] = e[1] /\ f[2] = e[2]) \/ (f[1] = e[2] /\ f[2] = e[1])
    <3>1. Len(s.ca[o].lits) >= 2
      BY <1>1 DEF ClausesOK
    <3>2. CASE o = cr
      BY <1>4, <1>7, <3>1, <3>2
    <3>3. CASE o # cr
      BY <1>7, <3>1, <3>3
    <3> QED
      BY <3>2, <3>3
  <2> QED
    BY <2>1
<1>9. /\ \A w : Watches(s, p, w) => Watches(t, p, w)
      /\ WatchedBut(s, p, Rest(W, k - 1)) => WatchedBut(t, p, Rest(W, k - 1))
      /\ WatchersOK(t)
    BY ONLY <1>1, <1>5, <1>7, <1>8, FrontsKept
<1>10. Mid(t, p, W, k - 1)
    BY <1>1, <1>5, <1>7, <1>9 DEF Mid
<1> QED
    BY <1>2, <1>4, <1>5, <1>7, <1>10 DEF Turned

\* What visiting one more watcher of p, in state s, leads to.
Stepped(s, p, i, W, k, q) ==
    /\ q \in Results /\ Mid(q.s, p, W, k) /\ After(s, q.s)
    /\ q.s.watchesBin = s.watchesBin /\ Here(q.s, p, i)
    /\ q.confl # CRef_Undef => Conflicting(q.s, q.confl)
    /\ q.confl = CRef_Undef => q.s.qhead = s.qhead /\ Kept(q.s, p)

\* The watcher v of p, which entry i put on the trail, is kept.
KeptOne(s, t, p, v, i) ==
    /\ After(s, t) /\ Here(t, p, i) /\ t \in Solvers
    /\ t.ca = s.ca /\ t.watchesBin = s.watchesBin /\ t.trail = s.trail
    /\ t.trail_lim = s.trail_lim /\ t.qhead = s.qhead
    /\ t.watches[p] = Append(s.watches[p], v)

LEMMA KeepHere ==
    ASSUME NEW s, NEW p \in Lits, NEW W, ListOfWatchers(W), NEW k \in 1..Len(W),
           Mid(s, p, W, k - 1), NEW v \in Watchers, v.cref = W[k].cref, Watches(s, p, v),
           NEW i, Here(s, p, i)
    PROVE  LET t == KeepWatcher(s, p, v)
           IN  Mid(t, p, W, k) /\ KeptOne(s, t, p, v, i)
<1> DEFINE t == KeepWatcher(s, p, v)
<1> HIDE DEF t
<1>1. /\ Mid(t, p, W, k) /\ After(s, t)
      /\ t.ca = s.ca /\ t.watchesBin = s.watchesBin /\ t.trail = s.trail
      /\ t.trail_lim = s.trail_lim /\ t.qhead = s.qhead
      /\ t.watches[p] = Append(s.watches[p], v)
      /\ \A l \in Lits : l # p => t.watches[l] = s.watches[l]
    BY KeepKeeps DEF t
<1>2. t \in Solvers /\ s \in Solvers /\ TrailOK(s)
    BY <1>1 DEF Mid, Consistent
<1>3. /\ i \in DOMAIN s.trail /\ s.trail[i].lit = p /\ Visited(s, i - 1) /\ i \in Nat
      /\ \A j \in DOMAIN s.trail : j \in Nat /\ s.trail[j].lit \in Lits
    BY <1>2, SolverTypes DEF Here
<1>4. \A j \in DOMAIN s.trail : j <= i - 1 =>
          t.watches[s.trail[j].lit] = s.watches[s.trail[j].lit]
  <2>1. ASSUME NEW j \in DOMAIN s.trail, j <= i - 1
        PROVE  s.trail[j].lit # p
    <3>1. j # i
      BY <1>3, <2>1
    <3> QED
      BY <1>2, <1>3, <3>1 DEF TrailOK
  <2> QED
    BY <1>1, <1>3, <2>1
<1>5. Visited(t, i - 1)
  <2>1. PICK n : n = i - 1
    OBVIOUS
  <2>2. Visited(s, n) /\ \A j \in DOMAIN s.trail : j <= n =>
            t.watches[s.trail[j].lit] = s.watches[s.trail[j].lit]
    BY <1>3, <1>4, <2>1
  <2>3. Visited(t, n)
    BY ONLY <1>1, <2>2, VisitedBelow
  <2> QED
    BY <2>1, <2>3
<1>6. Here(t, p, i)
    BY <1>1, <1>2, <1>5, HereAfter
<1> QED
    BY <1>1, <1>2, <1>6 DEF t, KeptOne

LEMMA VisitStep ==
    ASSUME NEW r \in Results, r.confl = CRef_Undef,
           NEW p \in Lits, NEW W, ListOfWatchers(W), NEW k \in 1..Len(W),
           Mid(r.s, p, W, k - 1), NEW i, Here(r.s, p, i), Kept(r.s, p)
    PROVE  Stepped(r.s, p, i, W, k, VisitWatcher(p, r, W[k]))
<1> DEFINE w == W[k]
           q == VisitWatcher(p, r, w)
<1>0. PICK s \in Solvers : s = r.s
    BY DEF Results
<1>1. /\ r = [s |-> s, confl |-> CRef_Undef] /\ CRef_Undef = 0
      /\ Consistent(s) /\ TrailOK(s) /\ Mid(s, p, W, k - 1) /\ WatchersOK(s)
      /\ Here(s, p, i) /\ Kept(s, p)
    BY <1>0 DEF Results, CRef_Undef, Mid, Consistent
<1>2. /\ w \in Watchers /\ w.cref \in Nat /\ w.blocker \in Lits
      /\ Watches(s, p, w)
  <2>1. k \in (k - 1) + 1 .. Len(W) /\ W \in Seq(Watchers)
    BY DEF ListOfWatchers
  <2>2. w \in Watchers
    BY <2>1
  <2> QED
    BY <1>1, <2>1, <2>2 DEF Mid, Watchers
<1>3. /\ i \in DOMAIN s.trail /\ s.trail[i].lit = p /\ i \in Nat /\ i <= Len(s.trail)
      /\ s.trail[i].level = DecisionLevel(s) /\ Visited(s, i - 1)
      /\ IsTrue(s, p) /\ Len(s.trail) \in Nat
      /\ DecisionLevel(s) > 0 => LastLim(s) < Len(s.trail)
  <2>1. /\ i \in DOMAIN s.trail /\ s.trail[i].lit = p
        /\ s.trail[i].level = DecisionLevel(s) /\ Visited(s, i - 1)
    BY <1>1 DEF Here
  <2>2. i \in 1..Len(s.trail) /\ Len(s.trail) \in Nat
    BY <2>1, SolverTypes
  <2>3. LastLim(s) < i /\ LastLim(s) \in Nat
    BY <1>1, <2>1, Levels
  <2>4. IsTrue(s, p)
    BY <2>1 DEF IsTrue
  <2> QED
    BY <2>1, <2>2, <2>3, <2>4
<1>4. s.watches \in [Lits -> Seq(Watchers)] /\ s.watches[p] \in Seq(Watchers)
    BY SolverTypes
<1> HIDE DEF w
<1>5. \A x, y : /\ [s |-> x, confl |-> y].s = x /\ [s |-> x, confl |-> y].confl = y
                /\ x \in Solvers /\ y \in Nat => [s |-> x, confl |-> y] \in Results
    BY DEF Results
<1>6. CASE IsTrue(s, w.blocker)
  <2> DEFINE t == KeepWatcher(s, p, w)
  <2>1. q = [s |-> t, confl |-> CRef_Undef]
    BY <1>1, <1>6 DEF VisitWatcher
  <2> HIDE DEF q
  <2>2. w.cref = W[k].cref
    BY DEF w
  <2> HIDE DEF t
  <2>3. /\ Mid(t, p, W, k) /\ After(s, t) /\ Here(t, p, i) /\ t \in Solvers
        /\ t.watchesBin = s.watchesBin /\ t.trail = s.trail
        /\ t.trail_lim = s.trail_lim /\ t.qhead = s.qhead
        /\ t.watches[p] = Append(s.watches[p], w)
    <3>1. Mid(t, p, W, k) /\ KeptOne(s, t, p, w, i)
      BY <1>1, <1>2, <2>2, KeepHere DEF t
    <3> QED
      BY <3>1 DEF KeptOne
  <2>4. \A l : IsTrue(s, l) => IsTrue(t, l)
    BY <2>3 DEF IsTrue
  <2>5. Kept(t, p)
    BY <1>1, <1>2, <1>4, <1>6, <2>3, <2>4, AppendKept
  <2>6. q.s = t /\ q.confl = CRef_Undef /\ q \in Results
    BY <1>1, <1>5, <2>1, <2>3
  <2>7. Stepped(s, p, i, W, k, q)
    BY <2>3, <2>5, <2>6 DEF Stepped
  <2> QED
    BY <1>0, <2>7 DEF q, w
<1>7. CASE ~IsTrue(s, w.blocker)
  <2> DEFINE cr == w.cref
             d == FalseSecond(s.ca[cr].lits, Neg(p))
             sw == Written(s, cr, d)
             v == Watcher(cr, d[1])
             kept == KeepWatcher(sw, p, v)
             Open == {j \in 3..Len(d) : ~IsFalse(s, d[j])}
             new == SelectInSubSeq(d, 3, Len(d), LAMBDA l : ~IsFalse(s, l))
             moved == [sw EXCEPT !.ca[cr].lits = Swap(d, 2, new),
                                 !.watches[Neg(d[new])] = Append(@, v)]
             stopped == [kept EXCEPT !.qhead = Len(s.trail)]
             more == uncheckedEnqueue(kept, d[1], cr)
  <2>1. q = IF IsTrue(s, d[1]) THEN [r EXCEPT !.s = kept]
            ELSE IF new # 0 THEN [r EXCEPT !.s = moved]
            ELSE IF IsFalse(s, d[1]) THEN [s |-> stopped, confl |-> cr]
            ELSE [r EXCEPT !.s = more]
    BY <1>0, <1>7 DEF VisitWatcher, Written
  <2>2. new = IF Open # {} THEN Min(Open) ELSE 0
    BY DEF SelectInSubSeq
  <2> HIDE DEF q, new, stopped, more, kept, moved, v, Open
  <2>3. \A x : [r EXCEPT !.s = x] = [s |-> x, confl |-> CRef_Undef]
    BY <1>1
  <2>4. cr = W[k].cref /\ cr \in Nat
    BY <1>2 DEF w
  <2> HIDE DEF cr, d, sw
  <2>5. /\ Mid(sw, p, W, k - 1) /\ After(s, sw)
        /\ sw.ca[cr].lits = d /\ sw.watches = s.watches /\ sw.watchesBin = s.watchesBin
        /\ sw.trail = s.trail /\ sw.trail_lim = s.trail_lim /\ sw.qhead = s.qhead
        /\ cr \in AttachedIn(sw) /\ d \in Seq(Lits) /\ Len(d) > 2 /\ Distinct(d)
        /\ DOMAIN d = 1..Len(d) /\ d[2] = Neg(p) /\ d[1] # Neg(p)
    <3>1. d = FalseSecond(s.ca[cr].lits, Neg(p)) /\ sw = Written(s, cr, d)
      BY DEF d, sw
    <3>2. Mid(sw, p, W, k - 1) /\ Turned(s, sw, p, cr, d)
      BY <1>1, <1>3, <2>4, <3>1, SwappedKeeps
    <3> QED
      BY <3>2 DEF Turned
  <2>6. sw \in Solvers
    BY <2>5 DEF Mid, Consistent
  <2>7. Len(d) \in Nat /\ d[1] \in Lits /\ 1 \in DOMAIN d /\ 2 \in DOMAIN d /\ cr # 0
    <3>1. cr \in 1..Len(sw.ca) /\ Len(sw.ca) \in Nat
      BY <2>5, <2>6, SolverTypes DEF AttachedIn
    <3> QED
      BY <2>5, <3>1
  <2>8. Here(sw, p, i)
    <3>1. Visited(sw, i - 1)
      BY <1>3, <2>5, SameTrail
    <3> QED
      BY <1>1, <2>5, <2>6, <3>1, HereAfter
  <2>9. v \in Watchers /\ v.cref = W[k].cref /\ v.blocker = d[1] /\ v.cref = cr
    BY <2>4, <2>7 DEF v, Watcher, Watchers
  <2>10. Watches(sw, p, v)
    <3>1. 2 \in 1..2 /\ d[1] \in ToSet(d)
      BY <2>7 DEF ToSet
    <3> QED
      BY <2>5, <2>9, <3>1 DEF Watches
  <2>11. /\ Mid(kept, p, W, k) /\ After(sw, kept) /\ Here(kept, p, i) /\ kept \in Solvers
         /\ kept.ca = sw.ca /\ kept.watchesBin = s.watchesBin /\ kept.trail = s.trail
         /\ kept.trail_lim = s.trail_lim /\ kept.qhead = s.qhead
         /\ kept.watches[p] = Append(s.watches[p], v)
    <3>1. kept = KeepWatcher(sw, p, v)
      BY DEF kept
    <3>2. Mid(sw, p, W, k - 1) /\ v \in Watchers /\ v.cref = W[k].cref
      BY <2>5, <2>9
    <3>3. Mid(kept, p, W, k) /\ KeptOne(sw, kept, p, v, i)
      BY <2>8, <2>10, <3>1, <3>2, KeepHere
    <3> QED
      BY <2>5, <3>3 DEF KeptOne
  <2>12. /\ After(s, kept)
         /\ \A l : /\ IsTrue(kept, l) <=> IsTrue(s, l)
                   /\ IsTrue(sw, l) <=> IsTrue(s, l)
                   /\ IsFalse(kept, l) <=> IsFalse(s, l)
                   /\ IsFalse(sw, l) <=> IsFalse(s, l)
    BY <2>5, <2>6, <2>11, AfterTrans, SameTrail
  <2>13. Stepped(s, p, i, W, k, q)
    <3>1. CASE IsTrue(s, d[1])
      <4>1. q.s = kept /\ q.confl = CRef_Undef /\ q \in Results
        BY <1>1, <1>5, <2>1, <2>3, <2>11, <3>1
      <4>2. IsTrue(kept, v.blocker) /\ \A l : IsTrue(s, l) => IsTrue(kept, l)
        BY <2>9, <2>12, <3>1
      <4>3. Kept(kept, p)
        BY <1>1, <1>4, <2>9, <2>11, <4>2, AppendKept
      <4> QED
        BY <2>11, <2>12, <4>1, <4>3 DEF Stepped
    <3>2. CASE ~IsTrue(s, d[1]) /\ new # 0
      <4>1. q = [s |-> moved, confl |-> CRef_Undef]
        BY <2>1, <2>3, <3>2
      <4>2. new \in 3..Len(d) /\ ~IsFalse(s, d[new])
        <5>1. Open \in SUBSET Nat /\ Open # {} /\ new = Min(Open)
          BY <2>2, <3>2 DEF Open
        <5>2. new \in Open
          BY <5>1, LeastOf
        <5> QED
          BY <5>2 DEF Open
      <4>3. Mid(moved, p, W, k) /\ SameForTrue(sw, moved, p)
        <5>1. PICK n \in 3..Len(d) : n = new
          BY <4>2
        <5>2. ~IsFalse(sw, d[n]) /\ IsFalse(sw, Neg(p))
          <6>1. IsFalse(s, Neg(p))
            BY <1>3, LitFacts DEF IsFalse
          <6> QED
            BY <2>12, <4>2, <5>1, <6>1
        <5>3. moved = [sw EXCEPT !.ca[cr].lits = Swap(d, 2, n),
                                 !.watches[Neg(d[n])] = Append(@, Watcher(cr, d[1]))]
          BY <5>1 DEF moved, v
        <5>4. d = sw.ca[cr].lits /\ d[2] = Neg(p) /\ Mid(sw, p, W, k - 1)
          BY <2>5
        <5> QED
          BY <2>4, <5>2, <5>3, <5>4, WatchMoves
      <4>4. /\ After(sw, moved) /\ moved.watchesBin = s.watchesBin
            /\ moved.trail = sw.trail /\ moved.trail_lim = s.trail_lim
            /\ moved.qhead = s.qhead /\ moved.watches[p] = s.watches[p]
            /\ \A l \in Lits : IsTrue(sw, l) => moved.watches[l] = sw.watches[l]
        BY <2>5, <4>3 DEF SameForTrue
      <4>5. moved \in Solvers
        BY <4>3 DEF Mid, Consistent
      <4>6. After(s, moved)
        BY <2>5, <2>6, <4>4, <4>5, AfterTrans
      <4>7. Visited(moved, i - 1)
        <5>1. PICK n : n = i - 1
          OBVIOUS
        <5>2. Visited(sw, n)
          BY <2>8, <5>1 DEF Here
        <5>3. \A j \in DOMAIN sw.trail :
                  moved.watches[sw.trail[j].lit] = sw.watches[sw.trail[j].lit]
          <6>1. \A j \in DOMAIN sw.trail :
                    sw.trail[j].lit \in Lits /\ IsTrue(sw, sw.trail[j].lit)
            BY <2>6, SolverTypes DEF IsTrue
          <6> QED
            BY <4>4, <6>1
        <5>4. Visited(moved, n)
          BY <2>5, <4>4, <5>2, <5>3, VisitedBelow
        <5> QED
          BY <5>1, <5>4
      <4>8. Here(moved, p, i)
        BY <2>6, <2>8, <4>4, <4>5, <4>7, HereAfter
      <4>9. Kept(moved, p)
        <5>1. \A l : IsTrue(s, l) => IsTrue(moved, l)
          BY <2>5, <4>4 DEF IsTrue
        <5> QED
          BY <1>1, <4>4, <5>1 DEF Kept
      <4>10. q.s = moved /\ q.confl = CRef_Undef /\ q \in Results
        BY <1>1, <1>5, <4>1, <4>5
      <4> QED
        BY <4>3, <4>4, <4>6, <4>8, <4>9, <4>10 DEF Stepped
    <3>3. ASSUME new = 0
          PROVE  \A l \in ToSet(d) \ {d[1]} : IsFalse(s, l)
      <4>1. Open = {}
        <5>1. ASSUME Open # {}
              PROVE  FALSE
          <6>1. Open \in SUBSET Nat /\ new = Min(Open)
            BY <2>2, <5>1 DEF Open
          <6>2. new \in Open
            BY <5>1, <6>1, LeastOf
          <6> QED
            BY <3>3, <6>2 DEF Open
        <5> QED
          BY <5>1
      <4>2. IsFalse(s, d[2])
        BY <1>3, <2>5, LitFacts DEF IsFalse
      <4>3. \A j \in DOMAIN d : j = 1 \/ j = 2 \/ j \in 3..Len(d)
        BY <2>5, <2>7
      <4> QED
        BY <4>1, <4>2, <4>3 DEF Open, ToSet
    <3>4. AttachedIn(kept) = AttachedIn(sw) /\ kept.ca[cr].lits = d
      BY <2>5, <2>11 DEF AttachedIn
    <3>5. Consistent(kept)
      BY <2>11 DEF Mid
    <3>6. CASE ~IsTrue(s, d[1]) /\ new = 0 /\ IsFalse(s, d[1])
      <4>1. q = [s |-> stopped, confl |-> cr]
        BY <2>1, <3>6
      <4>2. /\ Consistent(stopped) /\ After(kept, stopped)
            /\ stopped.ca = kept.ca /\ stopped.watches = kept.watches
            /\ stopped.watchesBin = kept.watchesBin
            /\ stopped.trail = kept.trail
            /\ \A n \in Nat : Visited(kept, n) => Visited(stopped, n)
        <5>1. PICK n \in Nat : n = Len(s.trail)
          BY <1>3
        <5>2. kept.qhead <= n /\ n <= Len(kept.trail)
          BY <1>1, <1>3, <2>11, <5>1 DEF TrailOK
        <5>3. stopped = [kept EXCEPT !.qhead = n]
          BY <5>1 DEF stopped
        <5>4. /\ Consistent(stopped) /\ After(kept, stopped)
              /\ stopped.ca = kept.ca /\ stopped.watches = kept.watches
              /\ stopped.watchesBin = kept.watchesBin
          BY ONLY <3>5, <5>2, <5>3, QueueMoves, n \in Nat
        <5>5. stopped.trail = kept.trail
          BY ONLY <3>5, <5>2, <5>3, QueueMoves, n \in Nat
        <5>6. \A m \in Nat : Visited(kept, m) => Visited(stopped, m)
          BY ONLY <3>5, <5>2, <5>3, QueueMoves, n \in Nat
        <5> QED
          BY <5>4, <5>5, <5>6
      <4>3. stopped \in Solvers /\ Mid(stopped, p, W, k)
        BY <2>11, <4>2, MidSame DEF Consistent
      <4>4. After(s, stopped)
        BY <2>11, <2>12, <4>2, <4>3, AfterTrans
      <4>5. Here(stopped, p, i)
        <5>1. i - 1 \in Nat
          BY <1>3, SolverTypes
        <5>2. Visited(stopped, i - 1)
          BY <2>11, <4>2, <5>1 DEF Here
        <5> QED
          BY <2>11, <4>2, <4>3, <5>2, HereAfter
      <4>6. Conflicting(stopped, cr)
        <5>1. cr \in AttachedIn(stopped) /\ stopped.ca[cr].lits = d
          BY <2>5, <3>4, <4>2 DEF After
        <5>2. \A l \in ToSet(d) : IsFalse(stopped, l)
          BY <2>11, <3>3, <3>6, <4>2 DEF IsFalse, IsTrue
        <5>3. LevelOf(stopped, Neg(p)) = DecisionLevel(stopped)
          <6>1. i \in DOMAIN stopped.trail /\ stopped.trail[i].lit = p
                /\ stopped.trail[i].level = DecisionLevel(stopped)
            BY <4>5 DEF Here
          <6>2. Neg(p) \in Lits /\ Neg(Neg(p)) = p /\ TrailOK(stopped)
            BY <4>2, LitFacts DEF Consistent
          <6> QED
            BY <4>3, <6>1, <6>2, OnTrail
        <5>4. Neg(p) \in ToSet(d)
          BY <2>5, <2>7 DEF ToSet
        <5> QED
          BY <5>1, <5>2, <5>3, <5>4 DEF Conflicting
      <4>7. q.s = stopped /\ q.confl = cr /\ q \in Results
        BY <1>5, <2>4, <4>1, <4>3
      <4> QED
        BY <1>1, <2>7, <2>11, <4>2, <4>3, <4>4, <4>5, <4>6, <4>7 DEF Stepped
    <3>7. CASE ~IsTrue(s, d[1]) /\ new = 0 /\ ~IsFalse(s, d[1])
      <4>1. q = [s |-> more, confl |-> CRef_Undef]
        BY <2>1, <2>3, <3>7
      <4>2. Implied(kept, d[1], cr)
        <5>1. IsUndef(kept, d[1]) /\ cr \in AttachedIn(kept)
          BY <2>5, <2>12, <3>4, <3>7 DEF IsUndef
        <5>2. \A m \in ToSet(d) \ {d[1]} : IsFalse(kept, m)
          BY <2>12, <3>3, <3>7
        <5>3. DecisionLevel(kept) > 0 => LastLim(kept) < Len(kept.trail)
          BY <1>3, <2>11 DEF DecisionLevel, LastLim
        <5> QED
          BY <3>4, <5>1, <5>2, <5>3 DEF Implied
      <4>3. /\ Consistent(more) /\ After(kept, more)
            /\ more.ca = kept.ca /\ more.watches = kept.watches
            /\ more.watchesBin = kept.watchesBin /\ more.qhead = kept.qhead
            /\ \A m \in Lits : IsTrue(more, m) <=> IsTrue(kept, m) \/ m = d[1]
            /\ \A n \in 0..Len(kept.trail) : Visited(kept, n) => Visited(more, n)
        <5>1. PICK l \in Lits, from \in {cr} : l = d[1] /\ from = cr
          BY <2>7
        <5>2. Implied(kept, l, from) /\ more = uncheckedEnqueue(kept, l, from)
          BY <4>2, <5>1 DEF more
        <5>3. Consistent(more) /\ After(kept, more)
          BY ONLY <3>5, <5>2, ImpliedKeeps, l \in Lits
        <5>4. /\ more.ca = kept.ca /\ more.watches = kept.watches
              /\ more.watchesBin = kept.watchesBin /\ more.qhead = kept.qhead
          <6>1. from \in Nat
            BY <2>4, <5>1
          <6> QED
            BY ONLY ZenonT(30), <2>11, <5>2, <6>1, EnqueueFields, l \in Lits
        <5>5. \A m \in Lits : IsTrue(more, m) <=> IsTrue(kept, m) \/ m = l
          BY ONLY <3>5, <5>2, ImpliedKeeps, l \in Lits
        <5>6. \A n \in 0..Len(kept.trail) : Visited(kept, n) => Visited(more, n)
          BY ONLY <3>5, <5>2, ImpliedKeeps, l \in Lits
        <5> QED
          BY <5>1, <5>3, <5>4, <5>5, <5>6
      <4>4. more \in Solvers /\ Mid(more, p, W, k)
        BY <2>11, <4>3, MidSame DEF Consistent
      <4>5. After(s, more)
        BY <2>11, <2>12, <4>3, <4>4, AfterTrans
      <4>6. Here(more, p, i)
        <5>1. i - 1 \in 0..Len(kept.trail)
          BY SMTT(30), <1>3, <2>11, SolverTypes
        <5>2. Visited(more, i - 1)
          BY <2>11, <4>3, <5>1 DEF Here
        <5>3. /\ kept \in Solvers /\ more \in Solvers /\ After(kept, more)
              /\ Here(kept, p, i)
          BY <2>11, <4>3, <4>4
        <5> QED
          BY ONLY <5>2, <5>3, HereAfter
      <4>7. Kept(more, p)
        <5>1. \A l : IsTrue(s, l) => IsTrue(more, l)
          BY <4>4, <4>5, AfterFacts
        <5>2. IsTrue(more, v.blocker)
          BY <2>7, <2>9, <4>3
        <5>3. more.watches[p] = Append(s.watches[p], v)
          BY <2>11, <4>3
        <5> QED
          BY <1>1, <1>4, <2>9, <5>1, <5>2, <5>3, AppendKept
      <4>8. q.s = more /\ q.confl = CRef_Undef /\ q \in Results
        BY <1>1, <1>5, <4>1, <4>4
      <4> QED
        BY <2>11, <4>3, <4>4, <4>5, <4>6, <4>7, <4>8 DEF Stepped
    <3> QED
      BY <3>1, <3>2, <3>6, <3>7
  <2> QED
    BY <1>0, <2>13 DEF q, w
<1> QED
    BY <1>6, <1>7

\* The list of p is emptied before its watchers are visited.
LEMMA Emptied ==
    ASSUME NEW u, Consistent(u), WatchersOK(u), WatchedOK(u), NEW p \in Lits,
           NEW i, Here(u, p, i), NEW W, W = u.watches[p]
    PROVE  /\ ListOfWatchers(W)
           /\ Stepped(u, p, i, W, 0, [s |-> [u EXCEPT !.watches[p] = <<>>],
                                      confl |-> CRef_Undef])
<1> DEFINE b == [u EXCEPT !.watches[p] = <<>>]
           q == [s |-> b, confl |-> CRef_Undef]
<1>1. u \in Solvers /\ TrailOK(u) /\ ClausesOK(u) /\ CRef_Undef = 0
    BY DEF Consistent, CRef_Undef
<1>2. /\ u.watches \in [Lits -> Seq(Watchers)] /\ W \in Seq(Watchers)
      /\ Len(W) \in Nat /\ DOMAIN W = 1..Len(W)
      /\ [u.watches EXCEPT ![p] = <<>>] \in [Lits -> Seq(Watchers)]
    BY <1>1, SolverTypes
<1>3. /\ b \in Solvers
      /\ b.watches = [u.watches EXCEPT ![p] = <<>>]
      /\ b.ca = u.ca /\ b.watchesBin = u.watchesBin /\ b.trail = u.trail
      /\ b.trail_lim = u.trail_lim /\ b.qhead = u.qhead
      /\ b.nVars = u.nVars /\ b.ok = u.ok /\ b.order_heap = u.order_heap
  <2> DEFINE f == [u.watches EXCEPT ![p] = <<>>]
  <2>1. b = [u EXCEPT !.watches = f] /\ f \in [Lits -> Seq(Watchers)]
    BY <1>1, <1>2 DEF Solvers
  <2> HIDE DEF b, f
  <2>2. /\ b \in Solvers /\ b.watches = f
        /\ b.ca = u.ca /\ b.watchesBin = u.watchesBin /\ b.trail = u.trail
        /\ b.trail_lim = u.trail_lim /\ b.qhead = u.qhead
        /\ b.nVars = u.nVars /\ b.ok = u.ok /\ b.order_heap = u.order_heap
    BY <1>1, <2>1 DEF Solvers
  <2> QED
    BY <2>2 DEF f
<1>4. b.watches[p] = <<>> /\ \A l \in Lits : l # p => b.watches[l] = u.watches[l]
    BY <1>2, <1>3
<1> HIDE DEF b
<1>5. DOMAIN b.watches[p] = {}
    BY <1>4
<1>6. /\ AttachedIn(b) = AttachedIn(u) /\ ListOf(b, "clauses") = ListOf(u, "clauses")
      /\ Fixed(b) = Fixed(u)
      /\ \A l, w : Watches(u, l, w) => Watches(b, l, w)
      /\ \A l, w : WatchesBinary(u, l, w) => WatchesBinary(b, l, w)
    BY <1>3 DEF AttachedIn, ListOf, Fixed, Watches, WatchesBinary
<1>7. Consistent(b)
  <2>1. HeapOK(b)
    BY <1>1, <1>3, SameTrail DEF HeapOK, Consistent
  <2> QED
    BY SMTT(30), <1>1, <1>3, <1>6, <2>1
    DEF Consistent, TrailOK, DecisionLevel, DecisionsFirst, ClausesOK, ReasonsOK, ReasonOK
<1>8. After(u, b)
  <2>1. \A lits : AssumptionsFirst(u, lits) => AssumptionsFirst(b, lits)
    BY <1>3 DEF AssumptionsFirst
  <2>2. Len(u.trail) \in Nat
    BY <1>1, SolverTypes
  <2> QED
    BY <1>3, <1>6, <2>1, <2>2, SameMeaning DEF After
<1>9. ListOfWatchers(W)
    BY <1>2 DEF ListOfWatchers, WatchersOK
<1>10. WatchersOK(b)
  <2>1. ASSUME NEW l \in Lits
        PROVE  /\ \A j \in DOMAIN b.watches[l] : Watches(b, l, b.watches[l][j])
               /\ \A j \in DOMAIN b.watchesBin[l] : WatchesBinary(b, l, b.watchesBin[l][j])
               /\ \A j, m \in DOMAIN b.watches[l] :
                      b.watches[l][j].cref = b.watches[l][m].cref => j = m
    <3>1. \A j \in DOMAIN b.watchesBin[l] : WatchesBinary(b, l, b.watchesBin[l][j])
      BY <1>3, <1>6 DEF WatchersOK
    <3>2. CASE l = p
      BY <1>5, <3>1, <3>2
    <3>3. CASE l # p
      BY <1>4, <1>6, <3>1, <3>3 DEF WatchersOK
    <3> QED
      BY <3>2, <3>3
  <2> QED
    BY <2>1 DEF WatchersOK
<1>11. WatchedBut(b, p, Rest(W, 0))
  <2>1. ASSUME NEW cr \in AttachedIn(b), NEW j \in 1..2
        PROVE  LET c == b.ca[cr].lits
               IN  /\ Len(c) = 2 => Listed(b.watchesBin[Neg(c[j])], cr)
                   /\ Len(c) > 2 => \/ Listed(b.watches[Neg(c[j])], cr)
                                    \/ c[j] = Neg(p) /\ cr \in Rest(W, 0)
    <3> DEFINE c == b.ca[cr].lits
    <3>1. c = u.ca[cr].lits /\ cr \in AttachedIn(u)
      BY <1>3, <1>6
    <3>2. c[j] \in Lits /\ Neg(c[j]) \in Lits /\ Neg(Neg(c[j])) = c[j]
      <4>1. Len(c) >= 2
        BY <1>1, <3>1 DEF ClausesOK
      <4>2. j \in DOMAIN c /\ cr \in DOMAIN u.ca
        BY <1>1, <3>1, <4>1, SolverTypes DEF AttachedIn
      <4> QED
        BY <1>1, <3>1, <4>2, SolverTypes, LitFacts
    <3> HIDE DEF c
    <3>3. /\ Len(c) = 2 => Listed(u.watchesBin[Neg(c[j])], cr)
          /\ Len(c) > 2 => Listed(u.watches[Neg(c[j])], cr)
      BY <3>1 DEF WatchedOK
    <3>4. ASSUME Len(c) > 2
          PROVE  Listed(b.watches[Neg(c[j])], cr) \/ (c[j] = Neg(p) /\ cr \in Rest(W, 0))
      <4>1. CASE Neg(c[j]) # p
        BY <1>4, <3>2, <3>3, <3>4, <4>1
      <4>2. CASE Neg(c[j]) = p
        <5>1. PICK m \in 1..Len(W) : W[m].cref = cr
          BY <1>2, <3>3, <3>4, <4>2 DEF Listed
        <5>2. m \in 0 + 1 .. Len(W)
          OBVIOUS
        <5>3. cr \in Rest(W, 0)
          BY <5>1, <5>2 DEF Rest
        <5> QED
          BY <3>2, <4>2, <5>3
      <4> QED
        BY <4>1, <4>2
    <3> QED
      BY <1>3, <3>3, <3>4 DEF c
  <2> QED
    BY <2>1 DEF WatchedBut
<1>12. \A j \in 0 + 1 .. Len(W) : Watches(b, p, W[j])
    BY <1>2, <1>6 DEF WatchersOK
<1>13. Mid(b, p, W, 0)
    BY <1>5, <1>7, <1>10, <1>11, <1>12 DEF Mid
<1>14. Here(b, p, i)
  <2>1. PICK n : n = i - 1
    OBVIOUS
  <2>2. \A j \in DOMAIN u.trail : j <= n =>
            b.watches[u.trail[j].lit] = u.watches[u.trail[j].lit]
    <3>1. ASSUME NEW j \in DOMAIN u.trail, j <= n
          PROVE  u.trail[j].lit # p /\ u.trail[j].lit \in Lits
      <4>1. i \in Nat /\ j \in Nat /\ i \in DOMAIN u.trail /\ u.trail[i].lit = p
        BY <1>1, SolverTypes DEF Here
      <4>2. j # i
        BY <2>1, <3>1, <4>1
      <4> QED
        BY <1>1, <4>1, <4>2, SolverTypes DEF TrailOK
    <3> QED
      BY <1>4, <3>1
  <2>3. Visited(u, n)
    BY <2>1 DEF Here
  <2>4. Visited(b, n)
    BY <1>3, <2>2, <2>3, VisitedBelow
  <2> QED
    BY <1>1, <1>3, <1>8, <2>1, <2>4, HereAfter
<1>15. Kept(b, p)
    BY <1>5 DEF Kept
<1>16. q.s = b /\ q.confl = CRef_Undef /\ q \in Results
    BY <1>1, <1>3 DEF Results
<1>17. Stepped(u, p, i, W, 0, q)
    BY <1>3, <1>8, <1>13, <1>14, <1>15, <1>16 DEF Stepped
<1> QED
    BY <1>9, <1>17 DEF b

LEMMA WatchStep ==
    ASSUME NEW u \in Solvers, NEW p \in Lits, NEW W, ListOfWatchers(W), NEW k \in 1..Len(W),
           NEW i, NEW r, Stepped(u, p, i, W, k - 1, r)
    PROVE  Stepped(u, p, i, W, k, PropagateWatcher(p, r, W[k]))
<1> DEFINE q == PropagateWatcher(p, r, W[k])
<1>1. /\ r \in Results /\ Mid(r.s, p, W, k - 1) /\ After(u, r.s)
      /\ r.s.watchesBin = u.watchesBin /\ Here(r.s, p, i)
      /\ r.confl # CRef_Undef => Conflicting(r.s, r.confl)
      /\ r.confl = CRef_Undef => r.s.qhead = u.qhead /\ Kept(r.s, p)
    BY DEF Stepped
<1>2. r.s \in Solvers /\ r.confl \in Nat /\ r = [s |-> r.s, confl |-> r.confl]
    BY <1>1 DEF Results
<1>3. CASE r.confl = CRef_Undef
  <2>1. q = VisitWatcher(p, r, W[k])
    BY <1>3 DEF PropagateWatcher
  <2>2. Stepped(r.s, p, i, W, k, q)
    BY <1>1, <1>3, <2>1, VisitStep
  <2> HIDE DEF q
  <2>3. q.s \in Solvers /\ After(r.s, q.s)
    BY <2>2 DEF Stepped, Mid, Consistent
  <2>4. After(u, q.s)
    BY <1>1, <1>2, <2>3, AfterTrans
  <2>5. Stepped(u, p, i, W, k, q)
    BY <1>1, <1>3, <2>2, <2>4 DEF Stepped
  <2> QED
    BY <2>5 DEF q
<1>4. CASE r.confl # CRef_Undef
  <2> DEFINE t == KeepWatcher(r.s, p, W[k])
  <2>1. q = [s |-> t, confl |-> r.confl]
    BY <1>2, <1>4 DEF PropagateWatcher
  <2> HIDE DEF q, t
  <2>2. W[k] \in Watchers /\ Watches(r.s, p, W[k])
    <3>1. k \in (k - 1) + 1 .. Len(W) /\ W \in Seq(Watchers)
      BY DEF ListOfWatchers
    <3> QED
      BY <1>1, <3>1 DEF Mid
  <2>3. PICK v \in Watchers : v = W[k]
    BY <2>2
  <2>4. t = KeepWatcher(r.s, p, v) /\ v.cref = W[k].cref /\ Watches(r.s, p, v)
    BY <2>2, <2>3 DEF t
  <2>5. Mid(t, p, W, k) /\ KeptOne(r.s, t, p, v, i)
    BY <1>1, <2>4, KeepHere
  <2>6. /\ After(r.s, t) /\ Here(t, p, i) /\ t \in Solvers
        /\ t.ca = r.s.ca /\ t.watchesBin = r.s.watchesBin /\ t.trail = r.s.trail
        /\ t.trail_lim = r.s.trail_lim
    BY <2>5 DEF KeptOne
  <2>7. After(u, t)
    BY <1>1, <1>2, <2>6, AfterTrans
  <2>8. Conflicting(t, r.confl)
    <3>1. AttachedIn(t) = AttachedIn(r.s) /\ DecisionLevel(t) = DecisionLevel(r.s)
      BY <2>6 DEF AttachedIn, DecisionLevel
    <3>2. \A l : /\ IsFalse(t, l) <=> IsFalse(r.s, l)
                 /\ LevelOf(t, l) = LevelOf(r.s, l)
      BY <2>6, SameTrail
    <3> QED
      BY <1>1, <1>4, <2>6, <3>1, <3>2 DEF Conflicting
  <2>9. q.s = t /\ q.confl = r.confl /\ q \in Results
    BY <1>2, <2>1, <2>6 DEF Results
  <2>10. Stepped(u, p, i, W, k, q)
    BY <1>1, <1>4, <2>5, <2>6, <2>7, <2>8, <2>9 DEF Stepped
  <2> QED
    BY <2>10 DEF q
<1> QED
    BY <1>3, <1>4

LEMMA WatchPhase ==
    ASSUME NEW u, Consistent(u), WatchersOK(u), WatchedOK(u), NEW p \in Lits,
           NEW i, Here(u, p, i), NEW W, W = u.watches[p]
    PROVE  Stepped(u, p, i, W, Len(W),
               PropagateWatchers(p, [s |-> [u EXCEPT !.watches[p] = <<>>],
                                     confl |-> CRef_Undef], W))
<1> DEFINE m == Len(W)
           base == [s |-> [u EXCEPT !.watches[p] = <<>>], confl |-> CRef_Undef]
<1>1. ListOfWatchers(W) /\ Stepped(u, p, i, W, 0, base)
    BY Emptied
<1>2. W \in Seq(Watchers) /\ m \in Nat /\ u \in Solvers
    BY <1>1 DEF ListOfWatchers, Consistent
<1> HIDE DEF base, m
<1>3. PICK h : /\ h[0] = base
               /\ \A k \in 1..m : h[k] = PropagateWatcher(p, h[k - 1], W[k])
               /\ PropagateWatchers(p, base, W) = h[m]
  <2>1. W \in Seq(Watchers)
    BY <1>2
  <2>2. WatcherRuns(p, base, W)
    BY ONLY <2>1, WatcherTrace
  <2> QED
    BY <2>2 DEF m, WatcherRuns
<1> DEFINE C == {k \in 0..m : Stepped(u, p, i, W, k, h[k])}
<1>4. 0 \in C
    BY <1>1, <1>2, <1>3
<1>5. ASSUME NEW k \in 1..m, k - 1 \in C
      PROVE  k \in C
  <2>1. Stepped(u, p, i, W, k - 1, h[k - 1]) /\ k \in 1..Len(W)
    BY <1>5 DEF m
  <2>2. Stepped(u, p, i, W, k, PropagateWatcher(p, h[k - 1], W[k]))
    BY <1>1, <1>2, <2>1, WatchStep
  <2> QED
    BY <1>3, <2>2
<1>6. m \in C
  <2> HIDE DEF C
  <2>1. \A k \in 0..m : k \in C
    BY <1>2, <1>4, <1>5, StepInduction
  <2> QED
    BY <1>2, <2>1
<1> QED
    BY <1>3, <1>6 DEF base, m
LEMMA VisitedLess ==
    ASSUME NEW s \in Solvers, NEW n \in Nat, NEW m \in Nat, m <= n, Visited(s, n)
    PROVE  Visited(s, m)
<1>1. \A i \in DOMAIN s.trail : i \in Nat /\ (i <= m => i <= n)
  <2>1. \A i \in DOMAIN s.trail : i \in Nat
    BY SolverTypes
  <2> QED
    BY <2>1
<1> QED
    BY <1>1 DEF Visited

\* Propagation of one literal.
PropagatedOne(s, r) ==
    /\ r \in Results /\ Consistent(r.s) /\ WatchersOK(r.s) /\ WatchedOK(r.s)
    /\ After(s, r.s)
    /\ r.confl # CRef_Undef => Conflicting(r.s, r.confl) /\ Visited(r.s, LastLim(r.s))
    /\ r.confl = CRef_Undef => Visited(r.s, r.s.qhead)

LEMMA PropagateKeeps ==
    ASSUME NEW s, Consistent(s), WatchersOK(s), WatchedOK(s),
           s.qhead < Len(s.trail), Visited(s, s.qhead)
    PROVE  PropagatedOne(s, PropagateLit(s))
<1> DEFINE i == s.qhead + 1
           p == s.trail[i].lit
           u == [s EXCEPT !.qhead = i]
           binary == FoldLeft(PropagateBinary, [s |-> u, confl |-> CRef_Undef],
                              s.watchesBin[p])
           W == s.watches[p]
           r == PropagateLit(s)
<1>1. /\ s \in Solvers /\ TrailOK(s) /\ s.qhead \in Nat /\ Len(s.trail) \in Nat
      /\ i \in Nat /\ i \in DOMAIN s.trail /\ i <= Len(s.trail) /\ s.qhead <= i
      /\ p \in Lits /\ CRef_Undef = 0
  <2>1. s \in Solvers /\ TrailOK(s)
    BY DEF Consistent
  <2>2. s.qhead \in Nat /\ Len(s.trail) \in Nat /\ DOMAIN s.trail = 1..Len(s.trail)
    BY <2>1, SolverTypes
  <2>3. i \in Nat /\ i \in DOMAIN s.trail /\ i <= Len(s.trail) /\ s.qhead <= i
    BY <2>2
  <2> QED
    BY <2>1, <2>2, <2>3, SolverTypes DEF CRef_Undef
<1>2. /\ Consistent(u) /\ After(s, u)
      /\ u.ca = s.ca /\ u.watches = s.watches /\ u.watchesBin = s.watchesBin
      /\ u.qhead = i /\ u.trail = s.trail /\ u.trail_lim = s.trail_lim
      /\ \A n \in Nat : Visited(s, n) => Visited(u, n)
  <2> HIDE DEF i
  <2>1. PICK q \in Nat : q = i
    BY <1>1
  <2>2. u = [s EXCEPT !.qhead = q] /\ s.qhead <= q /\ q <= Len(s.trail)
    BY <1>1, <2>1
  <2> HIDE DEF u
  <2>3. Consistent(u) /\ After(s, u)
    BY ONLY <2>2, QueueMoves, q \in Nat, Consistent(s)
  <2>4. u.ca = s.ca /\ u.watches = s.watches /\ u.watchesBin = s.watchesBin
    BY ONLY <2>2, QueueMoves, q \in Nat, Consistent(s)
  <2>5. u.qhead = q /\ u.trail = s.trail /\ u.trail_lim = s.trail_lim
    BY ONLY <2>2, QueueMoves, q \in Nat, Consistent(s)
  <2>6. \A n \in Nat : Visited(s, n) => Visited(u, n)
    BY ONLY <2>2, QueueMoves, q \in Nat, Consistent(s)
  <2> QED
    BY <2>1, <2>3, <2>4, <2>5, <2>6
<1>3. r = IF binary.confl # CRef_Undef THEN binary
          ELSE PropagateWatchers(p, [binary EXCEPT !.s.watches[p] = <<>>], W)
  <2>1. u = [s EXCEPT !.qhead = @ + 1]
    OBVIOUS
  <2> HIDE DEF u
  <2> QED
    BY <2>1 DEF PropagateLit
<1> HIDE DEF r, u
<1>4. BinaryReached(u, p, Len(s.watchesBin[p]), binary)
  <2>1. WatchersOK(u)
    BY <1>2, SameClauses
  <2>2. LastLim(u) < u.qhead
    <3>1. LastLim(s) \in Nat /\ LastLim(s) <= s.qhead
      BY <1>1, Levels
    <3>2. LastLim(u) = LastLim(s)
      BY <1>2 DEF LastLim, DecisionLevel
    <3> QED
      BY <1>1, <1>2, <3>1, <3>2
  <2>3. p = u.trail[u.qhead].lit
    BY <1>2
  <2> HIDE DEF p, i
  <2> QED
    BY <1>2, <2>1, <2>2, <2>3, BinaryPhase
<1> HIDE DEF binary
<1>5. PICK b \in Solvers : b = binary.s
    BY <1>4 DEF BinaryReached, Results
<1>6. /\ binary \in Results /\ Consistent(b) /\ After(u, b)
      /\ b.ca = s.ca /\ b.watches = s.watches /\ b.watchesBin = s.watchesBin
      /\ b.qhead = i
      /\ \A n \in 0..Len(s.trail) : Visited(s, n) => Visited(b, n)
      /\ binary.confl # CRef_Undef => Conflicting(b, binary.confl)
      /\ binary.confl = CRef_Undef =>
             \A j \in DOMAIN s.watchesBin[p] : IsTrue(b, s.watchesBin[p][j].blocker)
  <2>1. DOMAIN s.watchesBin[p] = 1..Len(s.watchesBin[p])
    <3>1. s.watchesBin[p] \in Seq(Watchers)
      BY <1>1, SolverTypes
    <3> QED
      BY <3>1
  <2>2. \A n \in 0..Len(s.trail) : n \in Nat
    OBVIOUS
  <2> HIDE DEF p, i
  <2> QED
    BY <1>2, <1>4, <1>5, <2>1, <2>2 DEF BinaryReached
<1>7. u \in Solvers /\ After(s, b)
    BY <1>1, <1>2, <1>6, AfterTrans DEF Consistent
<1>8. WatchersOK(b) /\ WatchedOK(b)
    BY <1>6, SameClauses
<1>9. /\ i \in DOMAIN b.trail /\ b.trail[i].lit = p /\ DecisionLevel(b) = DecisionLevel(s)
      /\ b.trail[i].level = DecisionLevel(b) /\ LastLim(b) = LastLim(s)
      /\ Visited(b, s.qhead)
  <2>1. i \in DOMAIN b.trail /\ b.trail[i] = s.trail[i]
        /\ DecisionLevel(b) = DecisionLevel(s) /\ LastLim(b) = LastLim(s)
    BY <1>1, <1>7, AfterFacts DEF After
  <2>2. s.trail[i].level = DecisionLevel(s)
    <3>1. LastLim(s) \in Nat /\ LastLim(s) <= s.qhead
      BY <1>1, Levels
    <3>2. LastLim(s) < i
      BY <1>1, <3>1
    <3> HIDE DEF i
    <3> QED
      BY <1>1, <3>2, Levels
  <2>3. s.qhead \in 0..Len(s.trail)
    BY <1>1
  <2> QED
    BY <1>6, <2>1, <2>2, <2>3
<1>10. Here(b, p, i)
  <2>1. i - 1 = s.qhead
    BY <1>1
  <2> HIDE DEF i, p
  <2> QED
    BY <1>9, <2>1 DEF Here
<1>11. CASE binary.confl # CRef_Undef
  <2>1. r = binary
    BY <1>3, <1>11
  <2>2. Visited(b, LastLim(b))
    BY <1>1, <1>9, Levels, VisitedLess
  <2> QED
    BY <1>5, <1>6, <1>7, <1>8, <1>11, <2>1, <2>2 DEF PropagatedOne, r
<1>12. CASE binary.confl = CRef_Undef
  <2> DEFINE m == Len(W)
  <2>1. r = PropagateWatchers(p, [s |-> [b EXCEPT !.watches[p] = <<>>],
                                  confl |-> CRef_Undef], W)
    <3>1. binary = [s |-> b, confl |-> CRef_Undef]
      BY <1>5, <1>6, <1>12 DEF Results
    <3>2. [binary EXCEPT !.s.watches[p] = <<>>]
              = [s |-> [b EXCEPT !.watches[p] = <<>>], confl |-> CRef_Undef]
      BY <3>1
    <3> QED
      BY <1>3, <1>12, <3>2
  <2>2. Stepped(b, p, i, W, m, r)
    <3>1. W = b.watches[p]
      BY <1>6
    <3> HIDE DEF p, i, W
    <3> QED
      BY <1>1, <1>6, <1>8, <1>10, <2>1, <3>1, WatchPhase
  <2> HIDE DEF p, i, W
  <2>3. /\ r \in Results /\ Mid(r.s, p, W, m) /\ After(b, r.s)
        /\ r.s.watchesBin = s.watchesBin /\ Here(r.s, p, i)
        /\ r.confl # CRef_Undef => Conflicting(r.s, r.confl)
        /\ r.confl = CRef_Undef => r.s.qhead = i /\ Kept(r.s, p)
    BY <1>6, <2>2 DEF Stepped
  <2>4. PICK t \in Solvers : t = r.s
    BY <2>3 DEF Results
  <2>5. /\ Consistent(t) /\ WatchersOK(t) /\ WatchedBut(t, p, Rest(W, m)) /\ TrailOK(t)
    BY <2>3, <2>4 DEF Mid, Consistent
  <2>6. WatchedOK(t)
    <3>1. W \in Seq(Watchers)
      BY <1>1, SolverTypes DEF W
    <3>2. Rest(W, m) = {}
      BY <3>1 DEF Rest
    <3> QED
      BY <2>5, <3>2 DEF WatchedBut, WatchedOK
  <2>7. After(s, t)
    BY <1>1, <1>7, <2>3, <2>4, AfterTrans
  <2>8. /\ i \in DOMAIN t.trail /\ t.trail[i].lit = p
        /\ t.trail[i].level = DecisionLevel(t) /\ Visited(t, i - 1)
    BY <2>3, <2>4 DEF Here
  <2>9. Visited(t, LastLim(t))
    <3>1. LastLim(t) < i /\ LastLim(t) \in Nat
      BY <2>5, <2>8, Levels
    <3>2. i - 1 \in Nat /\ LastLim(t) <= i - 1
      BY <1>1, <3>1
    <3> QED
      BY <2>8, <3>1, <3>2, VisitedLess
  <2>10. ASSUME r.confl = CRef_Undef
         PROVE  Visited(t, t.qhead)
    <3>1. \A l : IsTrue(t, l) => \A w : w.blocker = l => Blocked(t, i, w)
      <4>1. ASSUME NEW l, IsTrue(t, l), NEW w, w.blocker = l
            PROVE  Blocked(t, i, w)
        <5>1. PICK j \in DOMAIN t.trail : t.trail[j].lit = l
          BY <4>1 DEF IsTrue
        <5>2. t.trail[j].level <= t.trail[i].level
          BY <2>5, <2>8, Levels
        <5> QED
          BY <4>1, <5>1, <5>2 DEF Blocked
      <4> QED
        BY <4>1
    <3>2. \A k \in DOMAIN t.watches[p] : Blocked(t, i, t.watches[p][k])
      BY <2>3, <2>4, <2>10, <3>1 DEF Kept
    <3>3. \A k \in DOMAIN t.watchesBin[p] : Blocked(t, i, t.watchesBin[p][k])
      <4>1. \A l : IsTrue(b, l) => IsTrue(t, l)
        BY <2>3, <2>4, AfterFacts
      <4> QED
        BY <1>6, <1>12, <2>3, <2>4, <3>1, <4>1
    <3>4. \A j \in DOMAIN t.trail : j <= i => j <= i - 1 \/ j = i
      <4>1. \A j \in DOMAIN t.trail : j \in Nat
        BY SolverTypes
      <4> QED
        BY <1>1, <4>1
    <3>5. t.qhead = i
      BY <2>3, <2>4, <2>10
    <3> QED
      BY <2>8, <3>2, <3>3, <3>4, <3>5 DEF Visited
  <2>11. PropagatedOne(s, r)
    BY <2>3, <2>4, <2>5, <2>6, <2>7, <2>9, <2>10 DEF PropagatedOne
  <2> QED
    BY <2>11 DEF r
<1> QED
    BY <1>11, <1>12

-----------------------------------------------------------------------------
(***************************************************************************)
(* analyze: reading a clause computes its LBD anew and reorders it if it   *)
(* has two literals.                                                       *)
(***************************************************************************)

\* Only the order of literals and the marks of learnt clauses have changed.
Reshaped(s, t) ==
    /\ Consistent(t) /\ After(s, t)
    /\ t.trail = s.trail /\ t.trail_lim = s.trail_lim /\ t.qhead = s.qhead
    /\ t.watches = s.watches /\ t.watchesBin = s.watchesBin
    /\ WatchersOK(s) => WatchersOK(t)
    /\ WatchedOK(s) => WatchedOK(t)

LEMMA ReshapedTrans ==
    ASSUME NEW s \in Solvers, NEW t, NEW u, Reshaped(s, t), Reshaped(t, u)
    PROVE  Reshaped(s, u)
<1>1. t \in Solvers /\ u \in Solvers
    BY DEF Reshaped, Consistent
<1>2. After(s, u)
    BY <1>1, AfterTrans DEF Reshaped
<1> QED
    BY <1>2 DEF Reshaped

LEMMA ReshapedSelf ==
    ASSUME NEW s, Consistent(s)
    PROVE  Reshaped(s, s)
<1>1. Len(s.trail) \in Nat
    BY SolverTypes DEF Consistent
<1>2. After(s, s)
    BY <1>1 DEF After
<1> QED
    BY <1>2 DEF Reshaped

\* What a function takes its values from is no smaller than its range.
LEMMA FiniteRange ==
    ASSUME NEW I, IsFiniteSet(I), NEW f, DOMAIN f = I, NEW J, J = {f[x] : x \in I},
           f = [x \in I |-> f[x]]
    PROVE  IsFiniteSet(J) /\ Cardinality(J) <= Cardinality(I)
<1>1. f \in [I -> J]
    OBVIOUS
<1>2. \A y \in J : \E x \in I : f[x] = y
    OBVIOUS
<1>3. f \in Surjection(I, J)
    BY <1>1, <1>2 DEF Surjection
<1> QED
    BY <1>3, FS_Surjection

LEMMA LBDType ==
    ASSUME NEW s, NEW c \in Seq(Lits)
    PROVE  computeLBD(s, c) \in Nat
<1>1. IsFiniteSet(DOMAIN c)
  <2>1. DOMAIN c = 1..Len(c) /\ Len(c) \in Nat
    OBVIOUS
  <2> QED
    BY <2>1, FS_Interval
<1> DEFINE f == [i \in DOMAIN c |-> LevelOf(s, c[i])]
           J == {LevelOf(s, l) : l \in ToSet(c)}
<1>2. J = {f[i] : i \in DOMAIN c} /\ DOMAIN f = DOMAIN c /\ f = [i \in DOMAIN c |-> f[i]]
    BY DEF ToSet
<1> HIDE DEF f, J
<1>3. IsFiniteSet(J)
    BY <1>1, <1>2, FiniteRange
<1> QED
    BY <1>3, FS_CardinalityType DEF computeLBD, J

LEMMA ImprovedFacts ==
    ASSUME NEW s, NEW c \in Clauses, c.list # "freed", c.learnt => c.list # "clauses"
    PROVE  LET d == Improved(s, c)
           IN  /\ d \in Clauses /\ d.lits = c.lits /\ d.list # "freed"
               /\ d.learnt => d.list # "clauses"
               /\ c.list = "clauses" => d.list = "clauses"
<1>1. computeLBD(s, c.lits) \in Nat
    BY LBDType DEF Clauses
<1>2. CASE Improved(s, c) = c
    BY <1>2
<1>3. CASE Improved(s, c) # c
  <2> DEFINE n == computeLBD(s, c.lits)
             d == Improved(s, c)
  <2>1. /\ c.learnt
        /\ \/ d = [c EXCEPT !.canBeDel = FALSE, !.learnt = FALSE, !.list = "permanentLearnts"]
           \/ d = [c EXCEPT !.canBeDel = FALSE, !.lbd = n]
    BY <1>3 DEF Improved
  <2> HIDE DEF n, d
  <2>2. n \in Nat
    BY <1>1 DEF n
  <2>3. CASE d = [c EXCEPT !.canBeDel = FALSE, !.learnt = FALSE, !.list = "permanentLearnts"]
    <3>1. d \in Clauses /\ d.lits = c.lits /\ d.list = "permanentLearnts" /\ ~d.learnt
      BY <2>3 DEF Clauses, Lists
    <3>2. c.list # "clauses"
      BY <2>1
    <3> QED
      BY <3>1, <3>2 DEF d
  <2>4. CASE d = [c EXCEPT !.canBeDel = FALSE, !.lbd = n]
    <3>1. d \in Clauses /\ d.lits = c.lits /\ d.list = c.list /\ d.learnt = c.learnt
      BY <2>2, <2>4 DEF Clauses
    <3> QED
      BY <3>1 DEF d
  <2> QED
    BY <2>1, <2>3, <2>4
<1> QED
    BY <1>2, <1>3

\* A clause the analysis reads, with the literals in the order c.
ReadAs(s, cr, c) ==
    [s EXCEPT !.ca[cr] = Improved(s, [@ EXCEPT !.lits = c])]

LEMMA ReadingKeeps ==
    ASSUME NEW s, Consistent(s), NEW cr \in AttachedIn(s), NEW c \in Seq(Lits),
           c = s.ca[cr].lits \/ (Len(s.ca[cr].lits) = 2 /\ c = Swap(s.ca[cr].lits, 1, 2))
    PROVE  Reshaped(s, ReadAs(s, cr, c))
<1> DEFINE t == ReadAs(s, cr, c)
           b == s.ca[cr]
           d == Improved(s, [b EXCEPT !.lits = c])
<1>1. /\ s \in Solvers /\ ClausesOK(s) /\ cr \in DOMAIN s.ca /\ b \in Clauses
      /\ s.ca \in Seq(Clauses) /\ cr \in 1..Len(s.ca) /\ DOMAIN s.ca = 1..Len(s.ca)
      /\ b.list # "freed" /\ b.lits \in Seq(Lits)
      /\ Len(b.lits) >= 2 /\ Distinct(b.lits) /\ (b.learnt => b.list # "clauses")
  <2>1. s \in Solvers /\ ClausesOK(s) /\ cr \in DOMAIN s.ca /\ b.list # "freed"
    BY DEF Consistent, AttachedIn
  <2>2. /\ b \in Clauses /\ s.ca \in Seq(Clauses) /\ DOMAIN s.ca = 1..Len(s.ca)
        /\ b.lits \in Seq(Lits)
    BY <2>1, SolverTypes
  <2>3. Len(b.lits) >= 2 /\ Distinct(b.lits) /\ (b.learnt => b.list # "clauses")
    BY <2>1 DEF ClausesOK
  <2> QED
    BY <2>1, <2>2, <2>3
<1>0. b = s.ca[cr] /\ (c = b.lits \/ (Len(b.lits) = 2 /\ c = Swap(b.lits, 1, 2)))
    OBVIOUS
<1> HIDE DEF b
<1>2. /\ Len(c) = Len(b.lits) /\ ToSet(c) = ToSet(b.lits) /\ Distinct(c)
      /\ (c[1] = b.lits[1] /\ c[2] = b.lits[2]) \/ (c[1] = b.lits[2] /\ c[2] = b.lits[1])
      /\ Len(b.lits) > 2 => c[1] = b.lits[1]
  <2>1. CASE c = b.lits
    <3>1. Distinct(c)
      BY <1>1, <2>1
    <3> QED
      BY <2>1, <3>1
  <2>2. CASE Len(b.lits) = 2 /\ c = Swap(b.lits, 1, 2)
    <3>1. PICK l \in Seq(Lits) : l = b.lits
      BY <1>1
    <3>5. Len(l) = 2 /\ 1 \in 1..Len(l) /\ 2 \in 1..Len(l)
      <4>1. Len(l) = 2
        BY <2>2, <3>1
      <4> QED
        BY <4>1
    <3>2. PICK i \in 1..Len(l), j \in 1..Len(l) : i = 1 /\ j = 2
      BY <3>5
    <3>3. c = Swap(l, i, j) /\ Distinct(l)
      <4>1. c = Swap(l, 1, 2) /\ Distinct(l)
        BY <1>1, <2>2, <3>1
      <4> QED
        BY <3>2, <4>1
    <3>4. Len(c) = Len(l) /\ ToSet(c) = ToSet(l) /\ Distinct(c) /\ c[i] = l[j] /\ c[j] = l[i]
      BY ONLY <3>3, SwapFacts, l \in Seq(Lits), i \in 1..Len(l), j \in 1..Len(l)
    <3>6. c[1] = l[2] /\ c[2] = l[1]
      BY <3>2, <3>4
    <3>7. Len(c) = Len(b.lits) /\ ToSet(c) = ToSet(b.lits) /\ Distinct(c)
      BY <3>1, <3>4
    <3> QED
      BY <2>2, <3>1, <3>6, <3>7
  <2> QED
    BY <1>0, <2>1, <2>2
<1>3. /\ d \in Clauses /\ d.lits = c /\ d.list # "freed"
      /\ d.learnt => d.list # "clauses"
      /\ b.list = "clauses" => d.list = "clauses"
  <2> DEFINE e == [b EXCEPT !.lits = c]
  <2>1. e \in Clauses /\ e.list = b.list /\ e.learnt = b.learnt /\ e.lits = c
    BY <1>1 DEF Clauses
  <2>2. e.list # "freed" /\ (e.learnt => e.list # "clauses")
    <3> HIDE DEF e
    <3> QED
      BY <1>1, <2>1
  <2> HIDE DEF e
  <2>3. /\ Improved(s, e) \in Clauses /\ Improved(s, e).lits = e.lits
        /\ Improved(s, e).list # "freed"
        /\ Improved(s, e).learnt => Improved(s, e).list # "clauses"
        /\ e.list = "clauses" => Improved(s, e).list = "clauses"
    BY <2>1, <2>2, ImprovedFacts
  <2> QED
    BY <2>1, <2>3 DEF e
<1>4. /\ t \in Solvers
      /\ t.ca = [s.ca EXCEPT ![cr] = d]
      /\ t.watches = s.watches /\ t.watchesBin = s.watchesBin /\ t.trail = s.trail
      /\ t.trail_lim = s.trail_lim /\ t.qhead = s.qhead
      /\ t.nVars = s.nVars /\ t.ok = s.ok /\ t.order_heap = s.order_heap
  <2> HIDE DEF d
  <2> DEFINE a == [s.ca EXCEPT ![cr] = d]
  <2>1. a \in Seq(Clauses)
    BY <1>1, <1>3, ExceptSeq
  <2>2. t = [s EXCEPT !.ca = a]
    BY <1>1 DEF Solvers, ReadAs, d, b
  <2> HIDE DEF a, t
  <2>3. /\ t \in Solvers /\ t.ca = a
        /\ t.watches = s.watches /\ t.watchesBin = s.watchesBin /\ t.trail = s.trail
        /\ t.trail_lim = s.trail_lim /\ t.qhead = s.qhead
        /\ t.nVars = s.nVars /\ t.ok = s.ok /\ t.order_heap = s.order_heap
    BY <1>1, <2>1, <2>2 DEF Solvers
  <2> QED
    BY <2>3 DEF a
<1> HIDE DEF t, d
<1>5. /\ DOMAIN t.ca = DOMAIN s.ca /\ t.ca[cr] = d
      /\ \A o \in DOMAIN s.ca : o # cr => t.ca[o] = s.ca[o]
    BY <1>1, <1>4
<1>6. \A o \in DOMAIN s.ca : t.ca[o].list = "freed" <=> s.ca[o].list = "freed"
    BY <1>0, <1>1, <1>3, <1>5
<1>7. ASSUME NEW o \in AttachedIn(s)
      PROVE  LET e == s.ca[o].lits
                 f == t.ca[o].lits
             IN  /\ Len(e) >= 2 /\ Len(f) = Len(e) /\ ToSet(f) = ToSet(e) /\ Distinct(f)
                 /\ (f[1] = e[1] /\ f[2] = e[2]) \/ (f[1] = e[2] /\ f[2] = e[1])
                 /\ Len(e) > 2 => f[1] = e[1]
                 /\ t.ca[o].learnt => t.ca[o].list # "clauses"
  <2>1. CASE o = cr
    <3>1. s.ca[o] = b /\ t.ca[o] = d
      BY <1>0, <1>5, <2>1
    <3>2. /\ Len(b.lits) >= 2 /\ Len(d.lits) = Len(b.lits) /\ ToSet(d.lits) = ToSet(b.lits)
          /\ Distinct(d.lits)
          /\ (d.lits[1] = b.lits[1] /\ d.lits[2] = b.lits[2])
             \/ (d.lits[1] = b.lits[2] /\ d.lits[2] = b.lits[1])
          /\ Len(b.lits) > 2 => d.lits[1] = b.lits[1]
          /\ d.learnt => d.list # "clauses"
      BY <1>1, <1>2, <1>3
    <3> QED
      BY <3>1, <3>2
  <2>2. CASE o # cr
    <3>1. t.ca[o] = s.ca[o]
      BY <1>5, <2>2 DEF AttachedIn
    <3>2. Len(s.ca[o].lits) >= 2 /\ Distinct(s.ca[o].lits)
          /\ (s.ca[o].learnt => s.ca[o].list # "clauses")
      BY <1>1 DEF ClausesOK
    <3> QED
      BY <3>1, <3>2
  <2> QED
    BY <2>1, <2>2
<1>8. ListOf(s, "clauses") \subseteq ListOf(t, "clauses")
    BY <1>0, <1>3, <1>5 DEF ListOf
<1>9. /\ Consistent(t) /\ AttachedIn(t) = AttachedIn(s)
      /\ Fixed(t) = Fixed(s)
      /\ \A F : Sound(s, F) => Sound(t, F)
      /\ ListOf(s, "clauses") \subseteq ListOf(t, "clauses") =>
             \A F : Complete(s, F) => Complete(t, F)
    BY ZenonT(30), <1>4, <1>5, <1>6, <1>7, Rewritten
<1>10. (WatchersOK(s) => WatchersOK(t)) /\ (WatchedOK(s) => WatchedOK(t))
    BY <1>1, <1>4, <1>7, <1>9, FrontsKept
<1>11. After(s, t)
  <2>1. \A lits : AssumptionsFirst(s, lits) => AssumptionsFirst(t, lits)
    BY <1>4 DEF AssumptionsFirst
  <2>2. Len(s.trail) \in Nat
    BY <1>1, SolverTypes
  <2> QED
    BY <1>4, <1>5, <1>8, <1>9, <2>1, <2>2 DEF After
<1>12. Reshaped(s, t)
    BY <1>4, <1>9, <1>10, <1>11 DEF Reshaped
<1> QED
    BY <1>12 DEF t

-----------------------------------------------------------------------------
(***************************************************************************)
(* analyze: the clause learnt is resolved from the conflict and the        *)
(* reasons of the present level, up to the first literal on which the      *)
(* level depends (the first unique implication point).                     *)
(***************************************************************************)

\* The clause as the analysis reads it: all of it, or without the literal it
\* implies, which then comes first.
ReadFrom(s, cr, from) ==
    IF from = 1 THEN s.ca[cr].lits ELSE ImpliedFirst(s, s.ca[cr].lits)

ReadFacts(s, cr, c) ==
    LET l == s.ca[cr].lits
    IN  /\ c \in Seq(Lits) /\ Len(c) = Len(l) /\ Len(c) >= 2 /\ DOMAIN c = 1..Len(c)
        /\ Distinct(c) /\ ToSet(c) = ToSet(l)
        /\ c = l \/ (Len(l) = 2 /\ c = Swap(l, 1, 2))

LEMMA Reading ==
    ASSUME NEW s, Consistent(s), NEW cr \in AttachedIn(s), NEW from
    PROVE  /\ ReadFacts(s, cr, ReadFrom(s, cr, from))
           /\ Reshaped(s, ReadAs(s, cr, ReadFrom(s, cr, from)))
<1> DEFINE c == ReadFrom(s, cr, from)
<1>1. PICK l : l = s.ca[cr].lits
    OBVIOUS
<1>2. l \in Seq(Lits) /\ Len(l) >= 2 /\ Len(l) \in Nat /\ DOMAIN l = 1..Len(l) /\ Distinct(l)
  <2>1. s \in Solvers /\ ClausesOK(s) /\ cr \in DOMAIN s.ca
    BY DEF Consistent, AttachedIn
  <2>2. s.ca[cr].lits \in Seq(Lits)
    BY <2>1, SolverTypes
  <2>3. Len(s.ca[cr].lits) >= 2 /\ Distinct(s.ca[cr].lits)
    BY <2>1 DEF ClausesOK
  <2> QED
    BY <1>1, <2>2, <2>3
<1>3. c = l \/ (Len(l) = 2 /\ c = Swap(l, 1, 2))
    BY <1>1 DEF ReadFrom, ImpliedFirst
<1> HIDE DEF c
<1>4. c \in Seq(Lits) /\ Len(c) = Len(l) /\ Distinct(c) /\ ToSet(c) = ToSet(l)
  <2>1. CASE c = l
    BY <1>2, <2>1
  <2>2. CASE Len(l) = 2 /\ c = Swap(l, 1, 2)
    <3>1. 1 \in 1..Len(l) /\ 2 \in 1..Len(l)
      BY <2>2
    <3>2. PICK i \in 1..Len(l), j \in 1..Len(l) : i = 1 /\ j = 2
      BY <3>1
    <3>3. c = Swap(l, i, j) /\ Distinct(l)
      BY <1>2, <2>2, <3>2
    <3>4. l \in Seq(Lits)
      BY <1>2
    <3> QED
      BY ONLY <3>3, <3>4, SwapFacts, i \in 1..Len(l), j \in 1..Len(l)
  <2> QED
    BY <1>3, <2>1, <2>2
<1>5. ReadFacts(s, cr, c)
    BY <1>1, <1>2, <1>3, <1>4 DEF ReadFacts
<1>6. c = s.ca[cr].lits \/ (Len(s.ca[cr].lits) = 2 /\ c = Swap(s.ca[cr].lits, 1, 2))
    BY <1>1, <1>3
<1>7. Reshaped(s, ReadAs(s, cr, c))
    BY <1>4, <1>6, ReadingKeeps
<1> QED
    BY <1>5, <1>7 DEF c

Analyses == [s : Solvers, seen : SUBSET Vars, pathC : Nat, learnt : Seq(Lits),
             uip : Lits \cup {0}]

\* The places of d where the resolvent gets a literal, and those of the
\* literals it gets that are of one of the levels.
NewPlaces(a, d) == {i \in DOMAIN d : Var(d[i]) \notin a.seen /\ LevelOf(a.s, d[i]) > 0}
CurrentIn(s, new) == {k \in DOMAIN new : LevelOf(s, new[k]) = DecisionLevel(s)}
LowIn(s, new) == {k \in DOMAIN new : LevelOf(s, new[k]) < DecisionLevel(s)}

\* What is left of a clause from a place on.
From(c, from) == SubSeq(c, from, Len(c))

Resolvent(a, cr, c, new) ==
    [s |-> ReadAs(a.s, cr, c),
     seen |-> a.seen \cup {Var(q) : q \in ToSet(new)},
     pathC |-> a.pathC + Len(At(new, CurrentIn(a.s, new))),
     learnt |-> a.learnt \o At(new, LowIn(a.s, new)),
     uip |-> a.uip]

LEMMA ResolveFields ==
    ASSUME NEW a \in Analyses, NEW cr, NEW from, NEW c, c = ReadFrom(a.s, cr, from),
           NEW new, new = At(From(c, from), NewPlaces(a, From(c, from)))
    PROVE  Resolve(a, cr, from) = Resolvent(a, cr, c, new)
<1>1. c = (IF from = 1 THEN a.s.ca[cr].lits ELSE ImpliedFirst(a.s, a.s.ca[cr].lits))
    BY DEF ReadFrom
<1>2. Where(SubSeq(c, from, Len(c)),
            LAMBDA q : Var(q) \notin a.seen /\ LevelOf(a.s, q) > 0) = new
    BY DEF Where, NewPlaces, From
<1>3. Where(new, LAMBDA q : LevelOf(a.s, q) = DecisionLevel(a.s)) = At(new, CurrentIn(a.s, new))
    BY DEF Where, CurrentIn
<1>4. Where(new, LAMBDA q : LevelOf(a.s, q) < DecisionLevel(a.s)) = At(new, LowIn(a.s, new))
    BY DEF Where, LowIn
<1>5. Resolve(a, cr, from) =
          [a EXCEPT
            !.s.ca[cr] = Improved(a.s, [@ EXCEPT !.lits = c]),
            !.seen = @ \cup {Var(q) : q \in ToSet(new)},
            !.pathC = @ + Len(At(new, CurrentIn(a.s, new))),
            !.learnt = @ \o At(new, LowIn(a.s, new))]
    BY <1>1, <1>2, <1>3, <1>4 DEF Resolve
<1>6. ReadAs(a.s, cr, c) = [a.s EXCEPT !.ca[cr] = Improved(a.s, [@ EXCEPT !.lits = c])]
    BY DEF ReadAs
<1> QED
    BY <1>5, <1>6 DEF Analyses, Resolvent

\* The literals p are those of seq at the places T.
PartOf(seq, T, p) ==
    /\ p \in Seq(Lits) /\ Len(p) = Cardinality(T) /\ Len(p) \in Nat
    /\ DOMAIN p = 1..Len(p) /\ Distinct(p)
    /\ \A k \in DOMAIN p : \E i \in T : p[k] = seq[i]
    /\ \A i \in T : \E k \in DOMAIN p : p[k] = seq[i]

LEMMA PartFacts ==
    ASSUME NEW seq \in Seq(Lits), Distinct(seq), NEW T \in SUBSET DOMAIN seq,
           NEW p, p = At(seq, T)
    PROVE  PartOf(seq, T, p)
<1> DEFINE n == Cardinality(T)
<1>1. /\ p \in Seq(Lits) /\ Len(p) = n /\ n \in Nat /\ DOMAIN p = 1..n
      /\ \A k \in 1..n : Nth(T, k) \in T /\ p[k] = seq[Nth(T, k)]
      /\ \A i \in T : \E k \in 1..n : p[k] = seq[i]
      /\ \A k, l \in 1..n : k < l => Nth(T, k) < Nth(T, l)
    BY AtPlaces
<1> HIDE DEF n
<1>2. Distinct(p)
  <2> SUFFICES ASSUME NEW k \in 1..n, NEW l \in 1..n, k < l, Var(p[k]) = Var(p[l])
               PROVE  FALSE
    BY <1>1 DEF Distinct
  <2>1. PICK i \in T, j \in T : i = Nth(T, k) /\ j = Nth(T, l) /\ i < j
    BY <1>1
  <2>2. p[k] = seq[i] /\ p[l] = seq[j]
    BY <1>1, <2>1
  <2>3. i = j
    BY <2>2 DEF Distinct
  <2>4. i \in Nat /\ j \in Nat
    OBVIOUS
  <2> QED
    BY <2>1, <2>3, <2>4
<1> QED
    BY <1>1, <1>2 DEF n, PartOf

\* What the resolvent gets from d.
LEMMA NewLiterals ==
    ASSUME NEW a, NEW d \in Seq(Lits), Distinct(d), NEW new, new = At(d, NewPlaces(a, d))
    PROVE  /\ new \in Seq(Lits) /\ Len(new) \in Nat /\ DOMAIN new = 1..Len(new)
           /\ Distinct(new)
           /\ \A k \in DOMAIN new : /\ Var(new[k]) \notin a.seen /\ LevelOf(a.s, new[k]) > 0
                                    /\ \E i \in DOMAIN d : new[k] = d[i]
           /\ \A i \in DOMAIN d : \/ Var(d[i]) \in a.seen
                                  \/ ~(LevelOf(a.s, d[i]) > 0)
                                  \/ \E k \in DOMAIN new : new[k] = d[i]
<1>1. NewPlaces(a, d) \in SUBSET DOMAIN d
    BY DEF NewPlaces
<1>2. /\ new \in Seq(Lits) /\ Len(new) \in Nat /\ DOMAIN new = 1..Len(new)
      /\ Distinct(new)
      /\ \A k \in DOMAIN new : \E i \in NewPlaces(a, d) : new[k] = d[i]
      /\ \A i \in NewPlaces(a, d) : \E k \in DOMAIN new : new[k] = d[i]
    BY <1>1, PartFacts DEF PartOf
<1> QED
    BY <1>2 DEF NewPlaces

\* Where the literals of the present level that an analysis has seen are.
OnLevel(s, seen) ==
    {i \in DOMAIN s.trail :
        s.trail[i].level = DecisionLevel(s) /\ Var(s.trail[i].lit) \in seen}

\* The analysis a of a conflict of s has collected the literals that are to be
\* learnt, and counted those of the present level.
Gathered(s, a) ==
    /\ a \in Analyses /\ Reshaped(s, a.s)
    /\ \A v \in a.seen : \E i \in DOMAIN s.trail :
           Var(s.trail[i].lit) = v /\ s.trail[i].level > 0
    /\ a.pathC = Cardinality(OnLevel(s, a.seen))
    /\ Distinct(a.learnt)
    /\ \A k \in DOMAIN a.learnt : \E i \in DOMAIN s.trail :
           /\ s.trail[i].lit = Neg(a.learnt[k])
           /\ s.trail[i].level \in 1 .. DecisionLevel(s) - 1
           /\ Var(a.learnt[k]) \in a.seen
    /\ \A i \in DOMAIN s.trail :
           s.trail[i].level < DecisionLevel(s) /\ Var(s.trail[i].lit) \in a.seen =>
               \E k \in DOMAIN a.learnt : a.learnt[k] = Neg(s.trail[i].lit)

\* A clause read from the given place on is false.
FalseFrom(s, c, from) == \A i \in from .. Len(c) : IsFalse(s, c[i])

\* The variables of those of its literals that are not of level 0.
VarsFrom(s, c, from) == {Var(q) : q \in {c[i] : i \in {j \in from .. Len(c) : LevelOf(s, c[j]) > 0}}}

\* What is false is on the trail.
LEMMA FalseOnTrail ==
    ASSUME NEW s \in Solvers, TrailOK(s), NEW l \in Lits, IsFalse(s, l)
    PROVE  \E i \in DOMAIN s.trail :
               /\ s.trail[i].lit = Neg(l) /\ Var(s.trail[i].lit) = Var(l)
               /\ Position(s, l) = i /\ LevelOf(s, l) = s.trail[i].level
               /\ s.trail[i].level \in 0..DecisionLevel(s)
<1>1. PICK i \in DOMAIN s.trail : s.trail[i].lit = Neg(l)
    BY DEF IsFalse, IsTrue
<1>2. Position(s, l) = i /\ LevelOf(s, l) = s.trail[i].level
    BY <1>1, OnTrail
<1>3. Var(s.trail[i].lit) = Var(l)
    BY <1>1, LitFacts
<1>4. s.trail[i].level \in Nat /\ s.trail[i].level <= DecisionLevel(s) /\ DecisionLevel(s) \in Nat
    BY SolverTypes DEF TrailOK
<1> QED
    BY <1>1, <1>2, <1>3, <1>4

LEMMA SubFrom ==
    ASSUME NEW c \in Seq(Lits), Distinct(c), NEW from \in 1..2, Len(c) >= 2
    PROVE  LET d == From(c, from)
           IN  /\ d \in Seq(Lits) /\ Distinct(d)
               /\ \A k \in DOMAIN d : \E i \in from .. Len(c) : d[k] = c[i] /\ i \in DOMAIN c
               /\ \A i \in from .. Len(c) : \E k \in DOMAIN d : d[k] = c[i]
<1> DEFINE d == From(c, from)
           n == Len(c)
<1>1. /\ d \in Seq(Lits) /\ Len(d) = n - from + 1 /\ DOMAIN d = 1..(n - from + 1)
      /\ n \in Nat /\ DOMAIN c = 1..n /\ from \in Nat
      /\ \A k \in 1..(n - from + 1) : d[k] = c[from + k - 1]
    BY DEF From
<1> HIDE DEF d, n
<1>2. ASSUME NEW k \in DOMAIN d
      PROVE  \E i \in from .. n : d[k] = c[i] /\ i \in DOMAIN c
  <2>1. from + k - 1 \in from..n /\ from + k - 1 \in 1..n
    BY <1>1
  <2> QED
    BY <1>1, <2>1
<1>3. ASSUME NEW i \in from .. n
      PROVE  \E k \in DOMAIN d : d[k] = c[i]
  <2>1. PICK k \in 1..(n - from + 1) : k = i - from + 1
    BY <1>1
  <2>2. from + k - 1 = i
    BY <1>1, <2>1
  <2> QED
    BY <1>1, <2>2
<1>4. Distinct(d)
  <2> SUFFICES ASSUME NEW k \in DOMAIN d, NEW l \in DOMAIN d, Var(d[k]) = Var(d[l])
               PROVE  k = l
    BY DEF Distinct
  <2>1. PICK i \in 1..n, j \in 1..n : i = from + k - 1 /\ j = from + l - 1
    BY <1>1
  <2>2. d[k] = c[i] /\ d[l] = c[j]
    BY <1>1, <2>1
  <2>3. i = j
    BY <1>1, <2>2 DEF Distinct
  <2> QED
    BY <1>1, <2>1, <2>3
<1> QED
    BY <1>1, <1>2, <1>3, <1>4 DEF d, n

\* Numbers of places: two sets of places that have nothing in common.
LEMMA CountMore ==
    ASSUME NEW n \in Nat, NEW A \in SUBSET (1..n), NEW C, IsFiniteSet(C),
           NEW f \in [C -> (1..n)], \A k, l \in C : f[k] = f[l] => k = l,
           \A k \in C : f[k] \notin A, NEW B, B = A \cup {f[k] : k \in C}
    PROVE  Cardinality(B) = Cardinality(A) + Cardinality(C)
<1> DEFINE E == {f[k] : k \in C}
<1>1. IsFiniteSet(1..n)
    BY FS_Interval
<1>2. E \in SUBSET (1..n)
    OBVIOUS
<1>3. IsFiniteSet(A) /\ IsFiniteSet(E)
    BY <1>1, <1>2, FS_Subset
<1>4. f \in Bijection(C, E)
  <2>1. f \in [C -> E]
    OBVIOUS
  <2>2. \A k, l \in C : f[k] = f[l] => k = l
    OBVIOUS
  <2>3. \A y \in E : \E k \in C : f[k] = y
    OBVIOUS
  <2> HIDE DEF E
  <2> QED
    BY <2>1, <2>2, <2>3 DEF Bijection, Injection, Surjection, IsInjective
<1>5. Cardinality(E) = Cardinality(C)
  <2>1. ExistsBijection(C, E)
    BY <1>4 DEF ExistsBijection
  <2> HIDE DEF E
  <2> QED
    BY <2>1, FS_Bijection
<1>6. A \cap E = {}
    OBVIOUS
<1>7. Cardinality(A \cup E) = Cardinality(A) + Cardinality(E) - Cardinality(A \cap E)
  <2> HIDE DEF E
  <2> QED
    BY <1>3, FS_Union
<1>8. Cardinality(A \cap E) = 0 /\ Cardinality(A) \in Nat /\ Cardinality(E) \in Nat
  <2> HIDE DEF E
  <2> QED
    BY <1>3, <1>6, FS_EmptySet, FS_CardinalityType
<1> QED
  <2>1. B = A \cup E
    OBVIOUS
  <2> HIDE DEF E
  <2>2. Cardinality(B) = Cardinality(A) + Cardinality(E)
    BY ONLY <1>7, <1>8, <2>1
  <2> QED
    BY ONLY <1>5, <2>2

\* Where a literal that the resolvent gets is.
NewAt(s, new, k, i) ==
    /\ i \in DOMAIN s.trail
    /\ s.trail[i].lit = Neg(new[k]) /\ Var(s.trail[i].lit) = Var(new[k])
    /\ LevelOf(s, new[k]) = s.trail[i].level
    /\ s.trail[i].level \in 1..DecisionLevel(s)

\* The state b of the analysis after a, when the literals new have joined.
Joined(s, a, b, new) ==
    /\ b.uip = a.uip
    /\ b.seen = a.seen \cup {Var(q) : q \in ToSet(new)}
    /\ b.pathC = a.pathC + Len(At(new, CurrentIn(s, new)))
    /\ b.learnt = a.learnt \o At(new, LowIn(s, new))

New(s, a, new) ==
    /\ new \in Seq(Lits) /\ Len(new) \in Nat /\ DOMAIN new = 1..Len(new) /\ Distinct(new)
    /\ \A k \in DOMAIN new : Var(new[k]) \notin a.seen /\ NewAt(s, new, k, Position(s, new[k]))

LEMMA JoinCounts ==
    ASSUME NEW s, Consistent(s), NEW a, Gathered(s, a), NEW b, NEW new, New(s, a, new),
           Joined(s, a, b, new)
    PROVE  b.pathC = Cardinality(OnLevel(s, b.seen)) /\ b.pathC \in Nat
<1> DEFINE C == CurrentIn(s, new)
           A == OnLevel(s, a.seen)
           B == OnLevel(s, b.seen)
           n == Len(s.trail)
           f == [k \in C |-> Position(s, new[k])]
<1>1. /\ s \in Solvers /\ TrailOK(s) /\ n \in Nat /\ DOMAIN s.trail = 1..n
      /\ a.pathC \in Nat /\ a.pathC = Cardinality(A)
      /\ new \in Seq(Lits) /\ Len(new) \in Nat /\ DOMAIN new = 1..Len(new) /\ Distinct(new)
      /\ C \in SUBSET DOMAIN new
    BY SolverTypes DEF Consistent, Gathered, Analyses, New, CurrentIn
<1>2. ASSUME NEW k \in C
      PROVE  NewAt(s, new, k, f[k]) /\ Var(new[k]) \notin a.seen
    BY <1>1 DEF New
<1>3. f \in [C -> (1..n)]
    BY <1>1, <1>2 DEF NewAt
<1>4. \A k, l \in C : f[k] = f[l] => k = l
  <2> SUFFICES ASSUME NEW k \in C, NEW l \in C, f[k] = f[l]
               PROVE  k = l
    OBVIOUS
  <2>1. Var(new[k]) = Var(new[l])
    BY <1>2 DEF NewAt
  <2> QED
    BY <1>1, <2>1 DEF Distinct
<1>5. \A k \in C : f[k] \notin A
    BY <1>2 DEF NewAt, OnLevel
<1>6. IsFiniteSet(C)
  <2>1. IsFiniteSet(1..Len(new))
    BY <1>1, FS_Interval
  <2> HIDE DEF C
  <2> QED
    BY <1>1, <2>1, FS_Subset
<1>7. B = A \cup {f[k] : k \in C}
  <2>1. ASSUME NEW i \in B, i \notin A
        PROVE  \E k \in C : i = f[k]
    <3>1. i \in DOMAIN s.trail /\ s.trail[i].level = DecisionLevel(s)
          /\ Var(s.trail[i].lit) \in {Var(q) : q \in ToSet(new)}
      BY <2>1 DEF OnLevel, Joined
    <3>2. PICK k \in DOMAIN new : Var(s.trail[i].lit) = Var(new[k])
      BY <3>1 DEF ToSet
    <3>3. NewAt(s, new, k, Position(s, new[k]))
      BY <3>2 DEF New
    <3>4. Position(s, new[k]) = i
      BY <1>1, <3>1, <3>2, <3>3 DEF NewAt, TrailOK
    <3>5. k \in C
      BY <3>1, <3>3, <3>4 DEF NewAt, CurrentIn
    <3> QED
      BY <3>4, <3>5
  <2>2. ASSUME NEW i \in A
        PROVE  i \in B
    BY DEF OnLevel, Joined
  <2>3. ASSUME NEW k \in C
        PROVE  f[k] \in B
    <3>1. LevelOf(s, new[k]) = DecisionLevel(s) /\ new[k] \in ToSet(new)
      BY <1>1 DEF CurrentIn, ToSet
    <3> QED
      BY <1>2, <3>1 DEF NewAt, OnLevel, Joined
  <2> HIDE DEF A, B, C, f
  <2> QED
    BY <2>1, <2>2, <2>3
<1>8. Len(At(new, C)) = Cardinality(C) /\ Cardinality(C) \in Nat
  <2> HIDE DEF C
  <2> QED
    BY <1>1, PartFacts DEF PartOf
<1>9. A \in SUBSET (1..n)
    BY <1>1 DEF OnLevel
<1>10. Cardinality(B) = Cardinality(A) + Cardinality(C)
  <2> HIDE DEF A, B, C, f, n
  <2> QED
    BY <1>1, <1>3, <1>4, <1>5, <1>6, <1>7, <1>9, CountMore
<1>11. b.pathC = a.pathC + Len(At(new, C))
    BY DEF Joined
<1> HIDE DEF A, B, C, f, n
<1>12. b.pathC = Cardinality(B) /\ b.pathC \in Nat
    BY <1>1, <1>8, <1>10, <1>11
<1> QED
    BY <1>12 DEF B

LEMMA Concat ==
    ASSUME NEW c \in Seq(Lits), NEW d \in Seq(Lits)
    PROVE  /\ c \o d \in Seq(Lits) /\ Len(c \o d) = Len(c) + Len(d)
           /\ DOMAIN (c \o d) = 1 .. Len(c) + Len(d)
           /\ Len(c) \in Nat /\ Len(d) \in Nat
           /\ \A k \in DOMAIN (c \o d) :
                  \/ k \in DOMAIN c /\ (c \o d)[k] = c[k]
                  \/ k - Len(c) \in DOMAIN d /\ (c \o d)[k] = d[k - Len(c)]
           /\ \A k \in DOMAIN c : k \in DOMAIN (c \o d) /\ (c \o d)[k] = c[k]
           /\ \A k \in DOMAIN d : Len(c) + k \in DOMAIN (c \o d) /\ (c \o d)[Len(c) + k] = d[k]
    OBVIOUS

\* What is learnt so far, after more literals have joined.
LEMMA JoinLearns ==
    ASSUME NEW s, Consistent(s), NEW a, Gathered(s, a), NEW b, NEW new, New(s, a, new),
           Joined(s, a, b, new)
    PROVE  /\ b.learnt \in Seq(Lits) /\ Distinct(b.learnt)
           /\ \A k \in DOMAIN b.learnt : \E i \in DOMAIN s.trail :
                  /\ s.trail[i].lit = Neg(b.learnt[k])
                  /\ s.trail[i].level \in 1 .. DecisionLevel(s) - 1
                  /\ Var(b.learnt[k]) \in b.seen
           /\ \A i \in DOMAIN s.trail :
                  s.trail[i].level < DecisionLevel(s) /\ Var(s.trail[i].lit) \in b.seen =>
                      \E k \in DOMAIN b.learnt : b.learnt[k] = Neg(s.trail[i].lit)
<1> DEFINE L == LowIn(s, new)
           low == At(new, L)
           c == a.learnt
<1>1. /\ s \in Solvers /\ TrailOK(s) /\ DecisionLevel(s) \in Nat
      /\ c \in Seq(Lits) /\ Distinct(c)
      /\ new \in Seq(Lits) /\ Len(new) \in Nat /\ DOMAIN new = 1..Len(new) /\ Distinct(new)
      /\ L \in SUBSET DOMAIN new
    BY SolverTypes DEF Consistent, Gathered, Analyses, New, LowIn
<1>2. /\ low \in Seq(Lits) /\ Distinct(low)
      /\ \A k \in DOMAIN low : \E i \in L : low[k] = new[i]
      /\ \A i \in L : \E k \in DOMAIN low : low[k] = new[i]
  <2> HIDE DEF L
  <2> QED
    BY <1>1, PartFacts DEF PartOf
<1>3. b.learnt = c \o low
    BY DEF Joined
<1>4. /\ \A k \in DOMAIN c : Var(c[k]) \in a.seen
      /\ \A k \in DOMAIN low : Var(low[k]) \notin a.seen
    BY <1>2 DEF New, Gathered, LowIn
<1>5. a.seen \subseteq b.seen /\ \A k \in DOMAIN new : Var(new[k]) \in b.seen
    BY <1>1 DEF Joined, ToSet
<1>6. ASSUME NEW k \in DOMAIN new
      PROVE  NewAt(s, new, k, Position(s, new[k])) /\ new[k] \in Lits
    BY <1>1 DEF New
<1> DEFINE j == c \o low
<1> HIDE DEF low
<1>7. /\ j \in Seq(Lits) /\ Len(c) \in Nat /\ Len(low) \in Nat /\ DOMAIN j = 1 .. Len(c) + Len(low)
      /\ \A k \in DOMAIN j : \/ k \in DOMAIN c /\ j[k] = c[k]
                             \/ k - Len(c) \in DOMAIN low /\ j[k] = low[k - Len(c)]
      /\ \A k \in DOMAIN c : k \in DOMAIN j /\ j[k] = c[k]
      /\ \A k \in DOMAIN low : Len(c) + k \in DOMAIN j /\ j[Len(c) + k] = low[k]
  <2> HIDE DEF c
  <2> QED
    BY <1>1, <1>2, Concat
<1> HIDE DEF j, c, L
<1>8. Distinct(j)
  <2> SUFFICES ASSUME NEW k \in DOMAIN j, NEW l \in DOMAIN j, Var(j[k]) = Var(j[l])
               PROVE  k = l
    BY DEF Distinct
  <2>1. CASE k \in DOMAIN c /\ j[k] = c[k] /\ l \in DOMAIN c /\ j[l] = c[l]
    BY <1>1, <2>1 DEF Distinct
  <2>2. CASE /\ k - Len(c) \in DOMAIN low /\ j[k] = low[k - Len(c)]
             /\ l - Len(c) \in DOMAIN low /\ j[l] = low[l - Len(c)]
    <3>1. k - Len(c) = l - Len(c)
      BY <1>2, <2>2 DEF Distinct
    <3> QED
      BY <1>7, <3>1
  <2> QED
    BY ZenonT(30), <1>4, <1>7, <2>1, <2>2
<1>9. ASSUME NEW k \in DOMAIN j
      PROVE  \E i \in DOMAIN s.trail :
                  /\ s.trail[i].lit = Neg(j[k])
                  /\ s.trail[i].level \in 1 .. DecisionLevel(s) - 1
                  /\ Var(j[k]) \in b.seen
  <2>1. CASE k \in DOMAIN c /\ j[k] = c[k]
    BY <1>5, <2>1 DEF Gathered, c
  <2>2. CASE k - Len(c) \in DOMAIN low /\ j[k] = low[k - Len(c)]
    <3>1. PICK m \in L : j[k] = new[m]
      BY <1>2, <2>2
    <3>2. m \in DOMAIN new /\ LevelOf(s, new[m]) < DecisionLevel(s)
      BY <3>1 DEF L, LowIn
    <3>3. NewAt(s, new, m, Position(s, new[m]))
      BY <1>6, <3>2
    <3>4. LevelOf(s, new[m]) \in 1 .. DecisionLevel(s) - 1
      BY <1>1, <3>2, <3>3 DEF NewAt
    <3> QED
      BY <1>5, <3>1, <3>2, <3>3, <3>4 DEF NewAt
  <2> QED
    BY <1>7, <2>1, <2>2
<1>10. ASSUME NEW i \in DOMAIN s.trail, s.trail[i].level < DecisionLevel(s),
              Var(s.trail[i].lit) \in b.seen
       PROVE  \E k \in DOMAIN j : j[k] = Neg(s.trail[i].lit)
  <2>1. CASE Var(s.trail[i].lit) \in a.seen
    <3>1. PICK k \in DOMAIN c : c[k] = Neg(s.trail[i].lit)
      BY <1>10, <2>1 DEF Gathered, c
    <3> QED
      BY <1>7, <3>1
  <2>2. CASE Var(s.trail[i].lit) \notin a.seen
    <3>1. PICK m \in DOMAIN new : Var(s.trail[i].lit) = Var(new[m])
      BY <1>10, <2>2 DEF Joined, ToSet
    <3>2. NewAt(s, new, m, Position(s, new[m])) /\ new[m] \in Lits
      BY <1>6
    <3>3. Position(s, new[m]) = i
      BY <1>1, <3>1, <3>2 DEF NewAt, TrailOK
    <3>4. m \in L
      BY <1>10, <3>2, <3>3 DEF NewAt, L, LowIn
    <3>5. PICK k \in DOMAIN low : low[k] = new[m]
      BY <1>2, <3>4
    <3>6. Neg(s.trail[i].lit) = new[m]
      BY <3>2, <3>3, LitFacts DEF NewAt
    <3> QED
      BY <1>7, <3>5, <3>6
  <2> QED
    BY <2>1, <2>2
<1>11. b.learnt = j
    BY <1>3 DEF j, c
<1> QED
    BY <1>7, <1>8, <1>9, <1>10, <1>11

\* What reading one more clause adds to the analysis.
LEMMA ResolveKeeps ==
    ASSUME NEW s, Consistent(s), NEW a, Gathered(s, a), NEW cr \in AttachedIn(a.s),
           NEW from \in 1..2, NEW c, c = ReadFrom(a.s, cr, from), FalseFrom(s, c, from),
           NEW b, b = Resolve(a, cr, from)
    PROVE  /\ Gathered(s, b) /\ b.uip = a.uip
           /\ b.seen = a.seen \cup VarsFrom(s, c, from)
<1> DEFINE d == From(c, from)
           new == At(d, NewPlaces(a, d))
           t == ReadAs(a.s, cr, c)
<1>1. /\ s \in Solvers /\ TrailOK(s) /\ a \in Analyses /\ Consistent(a.s)
      /\ a.s.trail = s.trail /\ a.s.trail_lim = s.trail_lim /\ Reshaped(s, a.s)
      /\ a.seen \in SUBSET Vars /\ a.uip \in Lits \cup {0}
    BY DEF Consistent, Gathered, Reshaped, Analyses
<1>2. c \in Seq(Lits) /\ Len(c) >= 2 /\ Distinct(c) /\ DOMAIN c = 1..Len(c) /\ Len(c) \in Nat
    BY <1>1, Reading DEF ReadFacts
<1>3. Reshaped(s, t)
  <2>1. Reshaped(a.s, t)
    BY <1>1, Reading
  <2> HIDE DEF t
  <2> QED
    BY <1>1, <2>1, ReshapedTrans
<1>4. /\ d \in Seq(Lits) /\ Distinct(d)
      /\ \A k \in DOMAIN d : \E i \in from .. Len(c) : d[k] = c[i] /\ i \in DOMAIN c
      /\ \A i \in from .. Len(c) : \E k \in DOMAIN d : d[k] = c[i]
    BY <1>2, SubFrom
<1>5. /\ \A l : LevelOf(a.s, l) = LevelOf(s, l) /\ Position(a.s, l) = Position(s, l)
      /\ DecisionLevel(a.s) = DecisionLevel(s)
    BY <1>1, SameTrail DEF DecisionLevel
<1> HIDE DEF d
<1>0. new = At(d, NewPlaces(a, d))
    OBVIOUS
<1> HIDE DEF new
<1>6. /\ new \in Seq(Lits) /\ Len(new) \in Nat /\ DOMAIN new = 1..Len(new)
      /\ Distinct(new)
      /\ \A k \in DOMAIN new : /\ Var(new[k]) \notin a.seen /\ LevelOf(s, new[k]) > 0
                               /\ \E i \in DOMAIN d : new[k] = d[i]
      /\ \A i \in DOMAIN d : \/ Var(d[i]) \in a.seen
                             \/ ~(LevelOf(s, d[i]) > 0)
                             \/ \E k \in DOMAIN new : new[k] = d[i]
  <2>1. /\ new \in Seq(Lits) /\ Len(new) \in Nat /\ DOMAIN new = 1..Len(new)
        /\ Distinct(new)
        /\ \A k \in DOMAIN new : /\ Var(new[k]) \notin a.seen /\ LevelOf(a.s, new[k]) > 0
                                 /\ \E i \in DOMAIN d : new[k] = d[i]
        /\ \A i \in DOMAIN d : \/ Var(d[i]) \in a.seen
                               \/ ~(LevelOf(a.s, d[i]) > 0)
                               \/ \E k \in DOMAIN new : new[k] = d[i]
    BY <1>0, <1>4, NewLiterals
  <2> QED
    BY <1>5, <2>1
<1>7. b = [s |-> t,
           seen |-> a.seen \cup {Var(q) : q \in ToSet(new)},
           pathC |-> a.pathC + Len(At(new, CurrentIn(a.s, new))),
           learnt |-> a.learnt \o At(new, LowIn(a.s, new)),
           uip |-> a.uip]
  <2>1. new = At(From(c, from), NewPlaces(a, From(c, from)))
    BY <1>0 DEF d
  <2>2. Resolve(a, cr, from) = Resolvent(a, cr, c, new)
    BY <1>1, <2>1, ResolveFields
  <2> QED
    BY <2>2 DEF Resolvent
<1> HIDE DEF t
<1>8. CurrentIn(a.s, new) = CurrentIn(s, new) /\ LowIn(a.s, new) = LowIn(s, new)
    BY <1>5 DEF CurrentIn, LowIn
<1>9. Joined(s, a, b, new)
    BY <1>7, <1>8 DEF Joined
<1>10. New(s, a, new)
  <2> SUFFICES ASSUME NEW k \in DOMAIN new
               PROVE  NewAt(s, new, k, Position(s, new[k]))
    BY <1>6 DEF New
  <2>1. PICK i \in from .. Len(c) : new[k] = c[i] /\ i \in DOMAIN c
    BY <1>4, <1>6
  <2>2. new[k] \in Lits /\ IsFalse(s, new[k]) /\ LevelOf(s, new[k]) > 0
    BY <1>2, <1>6, <2>1 DEF FalseFrom
  <2>3. PICK p \in DOMAIN s.trail :
            /\ s.trail[p].lit = Neg(new[k]) /\ Var(s.trail[p].lit) = Var(new[k])
            /\ Position(s, new[k]) = p /\ LevelOf(s, new[k]) = s.trail[p].level
            /\ s.trail[p].level \in 0..DecisionLevel(s)
    BY <1>1, <2>2, FalseOnTrail
  <2> QED
    BY <2>2, <2>3 DEF NewAt
<1>11. b.pathC = Cardinality(OnLevel(s, b.seen)) /\ b.pathC \in Nat
    BY <1>9, <1>10, JoinCounts
<1>12. /\ b.learnt \in Seq(Lits) /\ Distinct(b.learnt)
       /\ \A k \in DOMAIN b.learnt : \E i \in DOMAIN s.trail :
              /\ s.trail[i].lit = Neg(b.learnt[k])
              /\ s.trail[i].level \in 1 .. DecisionLevel(s) - 1
              /\ Var(b.learnt[k]) \in b.seen
       /\ \A i \in DOMAIN s.trail :
              s.trail[i].level < DecisionLevel(s) /\ Var(s.trail[i].lit) \in b.seen =>
                  \E k \in DOMAIN b.learnt : b.learnt[k] = Neg(s.trail[i].lit)
    BY <1>9, <1>10, JoinLearns
<1>13. b.seen \in SUBSET Vars
  <2>1. \A k \in DOMAIN new : Var(new[k]) \in Vars
    BY <1>6, LitFacts
  <2> QED
    BY <1>1, <1>6, <1>9, <2>1 DEF Joined, ToSet
<1>14. ASSUME NEW v \in b.seen
       PROVE  \E i \in DOMAIN s.trail : Var(s.trail[i].lit) = v /\ s.trail[i].level > 0
  <2>1. CASE v \in a.seen
    BY <2>1 DEF Gathered
  <2>2. CASE v \notin a.seen
    <3>1. PICK k \in DOMAIN new : v = Var(new[k])
      BY <1>9, <2>2 DEF Joined, ToSet
    <3>2. NewAt(s, new, k, Position(s, new[k]))
      BY <1>10 DEF New
    <3> QED
      BY <3>1, <3>2 DEF NewAt
  <2> QED
    BY <2>1, <2>2
<1>15. b \in Analyses
  <2>1. t \in Solvers
    BY <1>3 DEF Reshaped, Consistent
  <2>2. /\ b.s = t /\ b.uip = a.uip
        /\ b = [s |-> b.s, seen |-> b.seen, pathC |-> b.pathC, learnt |-> b.learnt,
                uip |-> b.uip]
    BY <1>7
  <2> QED
    BY <1>1, <1>11, <1>12, <1>13, <2>1, <2>2 DEF Analyses
<1>16. b.s = t
    BY <1>7
<1>17. Gathered(s, b)
    BY <1>3, <1>11, <1>12, <1>14, <1>15, <1>16 DEF Gathered
<1>18. ASSUME NEW v
       PROVE  v \in b.seen <=> v \in a.seen \cup VarsFrom(s, c, from)
  <2>1. ASSUME v \in b.seen, v \notin a.seen
        PROVE  v \in VarsFrom(s, c, from)
    <3>1. PICK k \in DOMAIN new : v = Var(new[k])
      BY <1>9, <2>1 DEF Joined, ToSet
    <3>2. PICK i \in from .. Len(c) : new[k] = c[i]
      BY <1>4, <1>6
    <3> QED
      BY <1>6, <3>1, <3>2 DEF VarsFrom
  <2>2. ASSUME v \in VarsFrom(s, c, from), v \notin a.seen
        PROVE  v \in b.seen
    <3>1. PICK i \in from .. Len(c) : v = Var(c[i]) /\ LevelOf(s, c[i]) > 0
      BY <2>2 DEF VarsFrom
    <3>2. PICK m \in DOMAIN d : d[m] = c[i]
      BY <1>4
    <3>3. PICK k \in DOMAIN new : new[k] = c[i]
      BY <1>6, <2>2, <3>1, <3>2
    <3> QED
      BY <1>9, <3>1, <3>3 DEF Joined, ToSet
  <2>3. v \in a.seen => v \in b.seen
    BY <1>9 DEF Joined
  <2> QED
    BY <2>1, <2>2, <2>3
<1> QED
    BY <1>9, <1>17, <1>18 DEF Joined

\* The reason c of entry i of the trail, with the literal it implies in front.
FromReason(s, i, c) ==
    /\ s.trail[i].reason \in AttachedIn(s)
    /\ c \in Seq(Lits) /\ Len(c) \in Nat /\ Len(c) >= 2 /\ DOMAIN c = 1..Len(c)
    /\ c[1] = s.trail[i].lit
    /\ \A k \in 2..Len(c) :
           c[k] \in Lits /\ \E m \in 1 .. i - 1 : s.trail[m].lit = Neg(c[k])

\* A reason is read with the literal it implies in front.
LEMMA ReasonRead ==
    ASSUME NEW s, Consistent(s), NEW i \in DOMAIN s.trail, s.trail[i].level > 0,
           s.trail[i].reason # CRef_Undef,
           NEW c, c = ReadFrom(s, s.trail[i].reason, 2)
    PROVE  FromReason(s, i, c)
<1> DEFINE cr == s.trail[i].reason
           e == s.trail[i]
           l == s.ca[cr].lits
<1>1. s \in Solvers /\ TrailOK(s) /\ ReasonsOK(s)
    BY DEF Consistent
<1>2. /\ cr \in AttachedIn(s)
      /\ e.lit = l[1] \/ (Len(l) = 2 /\ e.lit = l[2])
      /\ \A m \in ToSet(l) \ {e.lit} : \E j \in 1 .. i - 1 : s.trail[j].lit = Neg(m)
    BY <1>1 DEF ReasonsOK, ReasonOK
<1>0. /\ e = s.trail[i] /\ l = s.ca[cr].lits /\ c = ReadFrom(s, cr, 2) /\ e.level > 0
      /\ cr = e.reason
    OBVIOUS
<1> HIDE DEF l, e, cr
<1>3. /\ c \in Seq(Lits) /\ Len(c) = Len(l) /\ Len(c) >= 2 /\ DOMAIN c = 1..Len(c)
      /\ Distinct(c) /\ ToSet(c) = ToSet(l)
      /\ c = l \/ (Len(l) = 2 /\ c = Swap(l, 1, 2))
  <2>1. ReadFacts(s, cr, c)
    BY <1>0, <1>2, Reading
  <2> QED
    BY <1>0, <2>1 DEF ReadFacts
<1>4. /\ Len(c) \in Nat /\ e.lit \in Lits
      /\ \A k \in 1..Len(c) : c[k] \in Lits
  <2>1. Len(c) \in Nat /\ \A k \in 1..Len(c) : c[k] \in Lits
    BY ONLY <1>3
  <2>2. s.trail[i].lit \in Lits
    BY <1>1, SolverTypes
  <2> QED
    BY <1>0, <2>1, <2>2
<1>5. l \in Seq(Lits) /\ Len(l) >= 2 /\ Len(l) \in Nat /\ l[1] \in Lits /\ l[2] \in Lits /\ l[1] # l[2] /\ DOMAIN l = 1..Len(l)
  <2>1. cr \in DOMAIN s.ca /\ Len(l) >= 2 /\ Distinct(l)
    BY <1>0, <1>2 DEF AttachedIn, Consistent, ClausesOK
  <2>2. l \in Seq(Lits) /\ DOMAIN l = 1..Len(l) /\ Len(l) \in Nat
        /\ \A k \in DOMAIN l : l[k] \in Lits
    BY <1>0, <1>1, <2>1, SolverTypes
  <2>3. 1 \in DOMAIN l /\ 2 \in DOMAIN l
    BY <2>1, <2>2
  <2>4. l[1] # l[2]
    BY <2>1, <2>3 DEF Distinct
  <2> QED
    BY <2>1, <2>2, <2>3, <2>4
<1>6. IsTrue(s, e.lit) /\ ~IsFalse(s, e.lit)
  <2>1. IsTrue(s, e.lit)
    BY <1>0 DEF IsTrue
  <2> QED
    BY <1>1, <1>4, <2>1, Values
<1> DEFINE sw == Swap(l, 1, 2)
<1>7. Len(l) = 2 => sw[1] = l[2] /\ sw[2] = l[1]
    BY <1>5 DEF Swap
<1>8. c = IF Len(l) = 2 /\ IsFalse(s, l[1]) THEN sw ELSE l
    BY <1>0 DEF ReadFrom, ImpliedFirst
<1>9. Len(l) = 2 /\ e.lit = l[2] => IsFalse(s, l[1])
  <2> SUFFICES ASSUME Len(l) = 2, e.lit = l[2]
               PROVE  IsFalse(s, l[1])
    OBVIOUS
  <2>1. l[1] \in ToSet(l) \ {e.lit}
    BY <1>5 DEF ToSet
  <2>2. PICK j \in 1 .. i - 1 : s.trail[j].lit = Neg(l[1])
    BY <1>2, <2>1
  <2>3. j \in DOMAIN s.trail
    BY <1>1, SolverTypes
  <2> QED
    BY <2>2, <2>3 DEF IsFalse, IsTrue
<1> HIDE DEF sw
<1>10. c[1] = e.lit
    BY <1>2, <1>6, <1>7, <1>8, <1>9
<1>11. ASSUME NEW k \in 2..Len(c)
       PROVE  c[k] \in Lits /\ \E m \in 1 .. i - 1 : s.trail[m].lit = Neg(c[k])
  <2>1. k \in DOMAIN c /\ 1 \in DOMAIN c /\ k # 1
    BY <1>3, <1>4
  <2>2. c[k] # c[1]
    BY <1>3, <2>1 DEF Distinct
  <2>3. c[k] \in ToSet(c)
    BY <2>1 DEF ToSet
  <2> QED
    BY <1>2, <1>3, <1>4, <1>10, <2>1, <2>2, <2>3
<1> QED
    BY <1>0, <1>2, <1>3, <1>4, <1>10, <1>11 DEF FromReason

\* A model of the formula makes false one of the literals of the trail that the
\* analysis has seen.
Refuted(s, seen, A) ==
    \E i \in DOMAIN s.trail : Var(s.trail[i].lit) \in seen /\ Neg(s.trail[i].lit) \in A

Entails(s, seen) ==
    \A F : Sound(s, F) => \A A \in Oracle!ModelsOf(s.nVars, F) : Refuted(s, seen, A)

\* A model satisfies the clause that is read, but for its implied literal.
LEMMA ClauseHolds ==
    ASSUME NEW s, Consistent(s), NEW a, Gathered(s, a), NEW cr \in AttachedIn(a.s),
           NEW from \in 1..2, NEW c, c = ReadFrom(a.s, cr, from), FalseFrom(s, c, from),
           NEW F, Sound(s, F), NEW A \in Oracle!ModelsOf(s.nVars, F)
    PROVE  Refuted(s, VarsFrom(s, c, from), A) \/ (from = 2 /\ c[1] \in A)
<1>1. /\ s \in Solvers /\ TrailOK(s) /\ Consistent(a.s) /\ a.s.nVars = s.nVars
      /\ Sound(a.s, F) /\ s.nVars \in 0..MaxVars
    BY SolverTypes DEF Consistent, Gathered, Reshaped, After
<1>2. /\ c \in Seq(Lits) /\ DOMAIN c = 1..Len(c) /\ Len(c) \in Nat
      /\ ToSet(c) = ToSet(a.s.ca[cr].lits)
    BY <1>1, Reading DEF ReadFacts
<1>3. ToSet(a.s.ca[cr].lits) \cap A # {} /\ Fixed(s) \subseteq A
  <2>1. Satisfies(A, a.s, AttachedIn(a.s)) /\ Satisfies(A, s, AttachedIn(s))
    BY <1>1 DEF Sound
  <2> QED
    BY <2>1 DEF Satisfies
<1>4. PICK i \in 1..Len(c) : c[i] \in A
    BY <1>2, <1>3 DEF ToSet
<1>5. CASE i < from
  <2>1. from = 2 /\ i = 1
    BY <1>5
  <2> QED
    BY <1>4, <2>1
<1>6. CASE ~(i < from)
  <2>1. i \in from .. Len(c) /\ c[i] \in Lits /\ IsFalse(s, c[i])
    BY <1>2, <1>6 DEF FalseFrom
  <2>2. PICK p \in DOMAIN s.trail :
            /\ s.trail[p].lit = Neg(c[i]) /\ Var(s.trail[p].lit) = Var(c[i])
            /\ Position(s, c[i]) = p /\ LevelOf(s, c[i]) = s.trail[p].level
            /\ s.trail[p].level \in 0..DecisionLevel(s)
    BY <1>1, <2>1, FalseOnTrail
  <2>3. A \in Oracle!Assignments(s.nVars)
    BY DEF Oracle!ModelsOf
  <2>4. Var(c[i]) <= s.nVars
    BY <1>1, <2>2 DEF TrailOK
  <2>5. Neg(c[i]) \notin A
    BY <1>1, <1>4, <2>1, <2>3, <2>4, AssignmentFacts
  <2>6. s.trail[p].level # 0
    BY <1>3, <2>2, <2>5 DEF Fixed
  <2>7. LevelOf(s, c[i]) > 0
    BY <1>1, <2>2, <2>6
  <2>8. Var(s.trail[p].lit) \in VarsFrom(s, c, from)
    BY <2>1, <2>2, <2>7 DEF VarsFrom
  <2>9. Neg(s.trail[p].lit) = c[i]
    BY <2>1, <2>2, LitFacts
  <2> QED
    BY <1>4, <2>8, <2>9 DEF Refuted
<1> QED
    BY <1>5, <1>6

\* The analysis after k entries of the trail, from the last to the first.
Traced(s, k, a) ==
    /\ Gathered(s, a) /\ Entails(s, a.seen)
    /\ a.uip = 0 => /\ OnLevel(s, a.seen) # {}
                    /\ \A i \in OnLevel(s, a.seen) : i <= Len(s.trail) - k
    /\ a.uip # 0 => \E i \in DOMAIN s.trail :
                        s.trail[i].lit = a.uip /\ OnLevel(s, a.seen) = {i}

LEMMA TraceBegins ==
    ASSUME NEW s, Consistent(s), NEW cr, Conflicting(s, cr), DecisionLevel(s) > 0,
           NEW a, a = [s |-> s, seen |-> {}, pathC |-> 0, learnt |-> <<>>, uip |-> 0]
    PROVE  Traced(s, 0, Resolve(a, cr, 1))
<1> DEFINE c == ReadFrom(s, cr, 1)
           b == Resolve(a, cr, 1)
<1>1. /\ s \in Solvers /\ TrailOK(s) /\ cr \in AttachedIn(s) /\ c = s.ca[cr].lits
      /\ Len(s.trail) \in Nat /\ DOMAIN s.trail = 1..Len(s.trail)
    BY SolverTypes DEF Consistent, Conflicting, ReadFrom
<1>2. /\ a.s = s /\ a.seen = {} /\ a.pathC = 0 /\ a.learnt = <<>> /\ a.uip = 0
      /\ a \in Analyses
  <2>1. <<>> \in Seq(Lits) /\ {} \in SUBSET Vars /\ 0 \in Nat /\ 0 \in Lits \cup {0}
    OBVIOUS
  <2> QED
    BY <1>1, <2>1 DEF Analyses
<1>3. Gathered(s, a)
  <2>1. OnLevel(s, {}) = {}
    BY DEF OnLevel
  <2>2. Cardinality({}) = 0
    BY FS_EmptySet
  <2>3. Reshaped(s, s)
    BY ReshapedSelf
  <2>4. DOMAIN <<>> = {} /\ Distinct(<<>>)
    BY DEF Distinct
  <2> QED
    BY <1>2, <2>1, <2>2, <2>3, <2>4 DEF Gathered
<1>4. /\ c \in Seq(Lits) /\ DOMAIN c = 1..Len(c) /\ Len(c) \in Nat
      /\ ToSet(c) = ToSet(s.ca[cr].lits)
  <2>1. ReadFacts(s, cr, c)
    BY <1>1, Reading
  <2> HIDE DEF c
  <2> QED
    BY <2>1 DEF ReadFacts
<1> HIDE DEF c
<1>5. FalseFrom(s, c, 1)
  <2> SUFFICES ASSUME NEW i \in 1..Len(c)
               PROVE  IsFalse(s, c[i])
    BY DEF FalseFrom
  <2>1. c[i] \in ToSet(c)
    BY <1>4 DEF ToSet
  <2> QED
    BY <1>4, <2>1 DEF Conflicting
<1>6. /\ Gathered(s, b) /\ b.uip = 0
      /\ b.seen = VarsFrom(s, c, 1)
  <2>1. c = ReadFrom(a.s, cr, 1) /\ cr \in AttachedIn(a.s) /\ 1 \in 1..2
    BY <1>1, <1>2 DEF c
  <2>2. PICK f \in 1..2 : f = 1
    BY <2>1
  <2>3. c = ReadFrom(a.s, cr, f) /\ FalseFrom(s, c, f) /\ b = Resolve(a, cr, f)
    BY <1>5, <2>1, <2>2
  <2> HIDE DEF b
  <2>4. Gathered(s, b) /\ b.uip = a.uip /\ b.seen = a.seen \cup VarsFrom(s, c, f)
    BY ONLY <1>3, <2>1, <2>3, ResolveKeeps, Consistent(s), f \in 1..2
  <2> QED
    BY <1>2, <2>2, <2>4
<1> HIDE DEF b
<1>7. Entails(s, b.seen)
  <2> SUFFICES ASSUME NEW F, Sound(s, F), NEW A \in Oracle!ModelsOf(s.nVars, F)
               PROVE  Refuted(s, b.seen, A)
    BY DEF Entails
  <2>1. c = ReadFrom(a.s, cr, 1) /\ cr \in AttachedIn(a.s)
    BY <1>1, <1>2 DEF c
  <2>2. PICK f \in 1..2 : f = 1
    OBVIOUS
  <2>3. c = ReadFrom(a.s, cr, f) /\ FalseFrom(s, c, f)
    BY <1>5, <2>1, <2>2
  <2>4. Refuted(s, VarsFrom(s, c, f), A) \/ (f = 2 /\ c[1] \in A)
    BY <1>3, <2>1, <2>3, ClauseHolds
  <2> QED
    BY <1>6, <2>2, <2>4
<1>8. OnLevel(s, b.seen) # {}
  <2>1. PICK l \in ToSet(s.ca[cr].lits) : LevelOf(s, l) = DecisionLevel(s)
    BY DEF Conflicting
  <2>2. PICK i \in 1..Len(c) : l = c[i]
    BY <1>4 DEF ToSet
  <2>3. l \in Lits /\ IsFalse(s, l)
    BY <1>4, <1>5, <2>2 DEF FalseFrom
  <2>4. PICK p \in DOMAIN s.trail :
            /\ s.trail[p].lit = Neg(l) /\ Var(s.trail[p].lit) = Var(l)
            /\ Position(s, l) = p /\ LevelOf(s, l) = s.trail[p].level
            /\ s.trail[p].level \in 0..DecisionLevel(s)
    BY <1>1, <2>3, FalseOnTrail
  <2>5. i \in 1 .. Len(c) /\ LevelOf(s, c[i]) > 0
    BY <2>1, <2>2
  <2>6. Var(l) \in b.seen
    BY <1>6, <2>2, <2>5 DEF VarsFrom
  <2>7. p \in OnLevel(s, b.seen)
    BY <2>1, <2>4, <2>6 DEF OnLevel
  <2> QED
    BY <2>7
<1>9. \A i \in OnLevel(s, b.seen) : i <= Len(s.trail) - 0
    BY <1>1 DEF OnLevel
<1> QED
    BY <1>6, <1>7, <1>8, <1>9 DEF Traced, b

\* One more entry of the trail.
LEMMA TraceStep ==
    ASSUME NEW s, Consistent(s), DecisionLevel(s) > 0, NEW k \in 1..Len(s.trail), NEW a,
           Traced(s, k - 1, a), NEW j, j = Len(s.trail) - k + 1, NEW e, e = s.trail[j]
    PROVE  Traced(s, k, ResolveOn(a, e))
<1> DEFINE b == ResolveOn(a, e)
           n == Len(s.trail)
           on == OnLevel(s, a.seen)
<1>1. /\ s \in Solvers /\ TrailOK(s) /\ DecisionsFirst(s)
      /\ n \in Nat /\ DOMAIN s.trail = 1..n /\ j \in 1..n /\ k \in Nat
      /\ Gathered(s, a) /\ Entails(s, a.seen) /\ a \in Analyses
      /\ DecisionLevel(s) \in Nat
    BY SolverTypes DEF Consistent, Traced, Gathered
<1>2. /\ a.pathC = Cardinality(on) /\ a.pathC \in Nat /\ a.seen \in SUBSET Vars
      /\ Reshaped(s, a.s) /\ a.s.trail = s.trail /\ Consistent(a.s)
      /\ AttachedIn(a.s) = AttachedIn(s)
    BY <1>1 DEF Gathered, Analyses, Reshaped, After
<1>3. CASE a.uip # 0
  <2>1. b = a
    BY <1>3 DEF ResolveOn
  <2> QED
    BY <1>3, <2>1 DEF Traced
<1>4. CASE a.uip = 0 /\ Var(e.lit) \notin a.seen
  <2>1. b = a
    BY <1>4 DEF ResolveOn
  <2>2. \A i \in on : i <= n - (k - 1) /\ i # j
    BY <1>4 DEF Traced, OnLevel
  <2>3. \A i \in on : i <= n - k
    BY <1>1, <2>2 DEF OnLevel
  <2> QED
    BY <1>4, <2>1, <2>3 DEF Traced
<1>5. CASE a.uip = 0 /\ Var(e.lit) \in a.seen
  <2>1. on # {} /\ \A i \in on : i \in 1..n /\ i <= j
    BY <1>1, <1>5 DEF Traced, OnLevel
  <2>2. e.level = DecisionLevel(s)
    <3>1. PICK i \in on : TRUE
      BY <2>1
    <3>2. i \in 1..n /\ i <= j /\ s.trail[i].level = DecisionLevel(s)
      BY <2>1 DEF OnLevel
    <3>3. s.trail[i].level <= s.trail[j].level /\ s.trail[j].level <= DecisionLevel(s)
          /\ s.trail[j].level \in Nat
      BY <1>1, <3>2, Levels, SolverTypes
    <3> QED
      BY <1>1, <3>2, <3>3
  <2>3. j \in on
    BY <1>1, <1>5, <2>2 DEF OnLevel
  <2>4. IsFiniteSet(on)
    <3>1. IsFiniteSet(1..n)
      <4> HIDE DEF n
      <4> QED
        BY <1>1, FS_Interval
    <3>2. on \in SUBSET (1..n)
      BY <2>1
    <3> HIDE DEF on
    <3> QED
      BY <3>1, <3>2, FS_Subset
  <2>5. CASE a.pathC = 1
    <3>1. on = {j}
      <4> HIDE DEF on
      <4>1. PICK x : on = {x}
        BY <1>2, <2>4, <2>5, FS_Singleton
      <4> QED
        BY <2>3, <4>1
    <3>2. b = [a EXCEPT !.uip = e.lit]
      BY <1>5, <2>5 DEF ResolveOn
    <3>3. e.lit \in Lits /\ e.lit # 0
      BY <1>1, SolverTypes DEF Lits
    <3>4. /\ b \in Analyses /\ b.s = a.s /\ b.seen = a.seen /\ b.pathC = a.pathC
          /\ b.learnt = a.learnt /\ b.uip = e.lit
      BY <1>1, <3>2, <3>3 DEF Analyses
    <3> HIDE DEF b, on
    <3>5. Gathered(s, b)
      BY <1>1, <3>4 DEF Gathered
    <3>6. Entails(s, b.seen) /\ OnLevel(s, b.seen) = {j}
      BY <1>1, <3>1, <3>4 DEF on
    <3> QED
      BY <1>1, <3>3, <3>4, <3>5, <3>6 DEF Traced, b
  <2>6. CASE a.pathC # 1
    <3> DEFINE w == [a EXCEPT !.seen = @ \ {Var(e.lit)}, !.pathC = @ - 1]
               cr == e.reason
               c == ReadFrom(a.s, cr, 2)
               left == OnLevel(s, w.seen)
    <3>1. b = Resolve(w, cr, 2)
      BY <1>5, <2>6 DEF ResolveOn
    <3>2. Cardinality(on \ {j}) = a.pathC - 1 /\ a.pathC - 1 \in Nat /\ on \ {j} # {}
      <4>1. Cardinality(on \ {j}) = Cardinality(on) - 1 /\ Cardinality(on \ {j}) \in Nat
            /\ IsFiniteSet(on \ {j})
        <5> HIDE DEF on
        <5> QED
          BY <2>3, <2>4, FS_RemoveElement, FS_CardinalityType
      <4>2. Cardinality({}) = 0
        BY FS_EmptySet
      <4>3. Cardinality(on \ {j}) = a.pathC - 1 /\ a.pathC - 1 \in Nat
        BY <1>2, <4>1
      <4>4. a.pathC - 1 # 0
        BY <1>2, <2>6
      <4> HIDE DEF on
      <4> QED
        BY ONLY <4>2, <4>3, <4>4
    <3>3. /\ w \in Analyses /\ w.s = a.s /\ w.seen = a.seen \ {Var(e.lit)}
          /\ w.pathC = a.pathC - 1 /\ w.learnt = a.learnt /\ w.uip = 0
      BY <1>1, <1>2, <1>5, <3>2 DEF Analyses
    <3> HIDE DEF w, b
    <3>4. left = on \ {j}
      BY <1>1, <3>3 DEF OnLevel, TrailOK
    <3>5. Gathered(s, w)
      <4>1. \A v \in w.seen : \E i \in DOMAIN s.trail :
                Var(s.trail[i].lit) = v /\ s.trail[i].level > 0
        BY <1>1, <3>3 DEF Gathered
      <4>2. w.pathC = Cardinality(left)
        BY <3>2, <3>3, <3>4
      <4>3. ASSUME NEW m \in DOMAIN a.learnt
            PROVE  \E i \in DOMAIN s.trail :
                       /\ s.trail[i].lit = Neg(a.learnt[m])
                       /\ s.trail[i].level \in 1 .. DecisionLevel(s) - 1
                       /\ Var(a.learnt[m]) \in w.seen
        <5>1. PICK i \in DOMAIN s.trail :
                  /\ s.trail[i].lit = Neg(a.learnt[m])
                  /\ s.trail[i].level \in 1 .. DecisionLevel(s) - 1
                  /\ Var(a.learnt[m]) \in a.seen
          BY <1>1 DEF Gathered
        <5>2. a.learnt[m] \in Lits
          BY <1>1 DEF Analyses
        <5>3. Var(s.trail[i].lit) = Var(a.learnt[m])
          BY <5>1, <5>2, LitFacts
        <5>4. i # j
          BY <1>1, <2>2, <5>1
        <5>5. Var(a.learnt[m]) # Var(e.lit)
          BY <1>1, <5>1, <5>3, <5>4 DEF TrailOK
        <5> QED
          BY <3>3, <5>1, <5>5
      <4>4. \A i \in DOMAIN s.trail :
                s.trail[i].level < DecisionLevel(s) /\ Var(s.trail[i].lit) \in w.seen =>
                    \E m \in DOMAIN a.learnt : a.learnt[m] = Neg(s.trail[i].lit)
        BY <1>1, <3>3 DEF Gathered
      <4>5. Distinct(a.learnt)
        BY <1>1 DEF Gathered
      <4> QED
        BY <1>2, <3>3, <4>1, <4>2, <4>3, <4>4, <4>5 DEF Gathered
    <3>6. e.level > 0 /\ cr # CRef_Undef
      <4>1. PICK i \in on : i # j
        BY <3>2
      <4>2. i \in 1..n /\ i < j /\ s.trail[i].level = DecisionLevel(s)
        BY <2>1, <4>1 DEF OnLevel
      <4>3. s.trail_lim[DecisionLevel(s)] < i
        BY <1>1, <4>2, Levels
      <4>4. s.trail_lim[DecisionLevel(s)] \in Nat
        BY <1>1, SolverTypes
      <4>5. j # s.trail_lim[DecisionLevel(s)] + 1
        BY <1>1, <4>2, <4>3, <4>4
      <4> QED
        BY <1>1, <2>2, <4>5 DEF DecisionsFirst
    <3>7. /\ cr \in AttachedIn(a.s)
          /\ c \in Seq(Lits) /\ Len(c) \in Nat /\ Len(c) >= 2 /\ DOMAIN c = 1..Len(c)
          /\ c[1] = e.lit
          /\ \A m \in 2..Len(c) :
                 c[m] \in Lits /\ \E i \in 1 .. j - 1 : s.trail[i].lit = Neg(c[m])
      <4>1. j \in DOMAIN a.s.trail /\ e = a.s.trail[j]
        BY <1>1, <1>2
      <4> HIDE DEF c
      <4>2. FromReason(a.s, j, c)
        <5>1. c = ReadFrom(a.s, a.s.trail[j].reason, 2)
          BY <4>1 DEF c
        <5>2. a.s.trail[j].level > 0 /\ a.s.trail[j].reason # CRef_Undef
          BY <3>6, <4>1
        <5> QED
          BY ONLY <1>2, <4>1, <5>1, <5>2, ReasonRead
      <4> QED
        BY <1>2, <4>1, <4>2 DEF FromReason
    <3> HIDE DEF c, left, on
    <3>8. FalseFrom(s, c, 2)
      <4>1. ASSUME NEW m \in 2..Len(c)
            PROVE  IsFalse(s, c[m])
        <5>1. PICK i \in 1 .. j - 1 : s.trail[i].lit = Neg(c[m])
          BY <3>7
        <5>2. i \in DOMAIN s.trail
          BY <1>1, <5>1
        <5> QED
          BY ONLY <5>1, <5>2 DEF IsFalse, IsTrue
      <4> QED
        BY <4>1 DEF FalseFrom
    <3>9. PICK f \in 1..2 : f = 2
      OBVIOUS
    <3>10. /\ Gathered(s, b) /\ b.uip = 0
           /\ b.seen = w.seen \cup VarsFrom(s, c, 2)
      <4>1. /\ c = ReadFrom(w.s, cr, f) /\ FalseFrom(s, c, f) /\ b = Resolve(w, cr, f)
            /\ cr \in AttachedIn(w.s)
        BY <3>1, <3>3, <3>7, <3>8, <3>9 DEF c
      <4>2. Gathered(s, b) /\ b.uip = w.uip /\ b.seen = w.seen \cup VarsFrom(s, c, f)
        BY ONLY <3>5, <4>1, ResolveKeeps, Consistent(s), f \in 1..2
      <4> QED
        BY <3>3, <3>9, <4>2
    <3>11. ASSUME NEW v \in VarsFrom(s, c, 2)
           PROVE  \E i \in 1 .. j - 1 : i \in DOMAIN s.trail /\ Var(s.trail[i].lit) = v
      <4>1. PICK m \in 2..Len(c) : v = Var(c[m])
        BY DEF VarsFrom
      <4>2. PICK i \in 1 .. j - 1 : s.trail[i].lit = Neg(c[m])
        BY <3>7
      <4>3. Var(s.trail[i].lit) = v
        BY <3>7, <4>1, <4>2, LitFacts
      <4> QED
        BY SMTT(30), <1>1, <4>2, <4>3
    <3>12. ASSUME NEW i \in OnLevel(s, b.seen)
           PROVE  i <= n - k
      <4>1. i \in DOMAIN s.trail /\ Var(s.trail[i].lit) \in b.seen
            /\ s.trail[i].level = DecisionLevel(s)
        BY DEF OnLevel
      <4>2. CASE Var(s.trail[i].lit) \in w.seen
        <5>1. i \in on \ {j}
          BY <3>4, <4>1, <4>2 DEF OnLevel, left
        <5>2. i \in Nat /\ i <= j /\ i # j
          BY <2>1, <5>1
        <5> QED
          BY <1>1, <5>2
      <4>3. CASE Var(s.trail[i].lit) \in VarsFrom(s, c, 2)
        <5>1. PICK m \in 1 .. j - 1 : m \in DOMAIN s.trail
                                      /\ Var(s.trail[m].lit) = Var(s.trail[i].lit)
          BY <3>11, <4>3
        <5>2. i = m
          BY <1>1, <4>1, <5>1 DEF TrailOK
        <5> QED
          BY <1>1, <5>2
      <4> QED
        BY <3>10, <4>1, <4>2, <4>3
    <3>13. OnLevel(s, b.seen) # {}
      <4>1. PICK i \in left : TRUE
        BY <3>2, <3>4
      <4>2. i \in OnLevel(s, b.seen)
        BY <3>10, <4>1 DEF left, OnLevel
      <4> QED
        BY <4>2
    <3>14. Entails(s, b.seen)
      <4> SUFFICES ASSUME NEW F, Sound(s, F), NEW A \in Oracle!ModelsOf(s.nVars, F)
                   PROVE  Refuted(s, b.seen, A)
        BY DEF Entails
      <4>1. Refuted(s, VarsFrom(s, c, f), A) \/ (f = 2 /\ c[1] \in A)
        <5>1. c = ReadFrom(w.s, cr, f) /\ FalseFrom(s, c, f) /\ cr \in AttachedIn(w.s)
          BY <3>3, <3>7, <3>8, <3>9 DEF c
        <5> QED
          BY ONLY <3>5, <5>1, ClauseHolds, Consistent(s), f \in 1..2, Sound(s, F),
                  A \in Oracle!ModelsOf(s.nVars, F)
      <4>2. CASE Refuted(s, VarsFrom(s, c, f), A)
        BY <3>9, <3>10, <4>2 DEF Refuted
      <4>3. CASE e.lit \in A
        <5>1. PICK i \in DOMAIN s.trail :
                  Var(s.trail[i].lit) \in a.seen /\ Neg(s.trail[i].lit) \in A
          BY <1>1 DEF Entails, Refuted
        <5>2. i # j
          <6>1. A \in Oracle!Assignments(s.nVars) /\ s.nVars \in 0..MaxVars
            BY <1>1, SolverTypes DEF Oracle!ModelsOf
          <6>2. e.lit \in Lits /\ Var(e.lit) <= s.nVars
            BY <1>1, SolverTypes DEF TrailOK
          <6>3. Neg(e.lit) \notin A
            BY <4>3, <6>1, <6>2, AssignmentFacts
          <6> QED
            BY <5>1, <6>3
        <5>3. Var(s.trail[i].lit) \in w.seen
          BY <1>1, <3>3, <5>1, <5>2 DEF TrailOK
        <5> QED
          BY <3>10, <5>1, <5>3 DEF Refuted
      <4> QED
        BY <3>7, <4>1, <4>2, <4>3
    <3>15. Traced(s, k, b)
      BY <3>10, <3>12, <3>13, <3>14 DEF Traced
    <3> QED
      BY <3>15 DEF b
  <2> QED
    BY <2>5, <2>6
<1> QED
  BY <1>3, <1>4, <1>5

\* The analysis of a conflict ends with one literal of the present level.
LEMMA AnalysisEnds ==
    ASSUME NEW s, Consistent(s), NEW cr, Conflicting(s, cr), DecisionLevel(s) > 0,
           NEW base, base = [s |-> s, seen |-> {}, pathC |-> 0, learnt |-> <<>>, uip |-> 0],
           NEW a, a = FoldLeft(ResolveOn, Resolve(base, cr, 1), Reverse(s.trail))
    PROVE  Traced(s, Len(s.trail), a) /\ a.uip # 0
<1> DEFINE n == Len(s.trail)
           seq == Reverse(s.trail)
<1>1. s.trail \in Seq(Entries) /\ n \in Nat /\ s \in Solvers /\ DOMAIN s.trail = 1..n
    BY SolverTypes DEF Consistent
<1>2. /\ seq \in Seq(Entries) /\ Len(seq) = n
      /\ \A k \in 1..n : seq[k] = s.trail[n - k + 1]
  <2>1. seq = [i \in 1..n |-> s.trail[n - i + 1]]
    BY DEF Reverse
  <2>2. \A i \in 1..n : s.trail[n - i + 1] \in Entries
    BY <1>1, SolverTypes
  <2> HIDE DEF n, seq
  <2> QED
    BY <1>1, <2>1, <2>2
<1> HIDE DEF seq, n
<1>9. PICK first : first = Resolve(base, cr, 1)
    OBVIOUS
<1>3. PICK h :
          /\ h[0] = first
          /\ \A k \in 1..Len(seq) : h[k] = ResolveOn(h[k - 1], seq[k])
          /\ Resolutions(first, seq) = h[Len(seq)]
  <2>1. seq \in Seq(Entries)
    BY <1>2
  <2>2. ResolveRuns(first, seq)
    BY ONLY <2>1, ResolveTrace
  <2> QED
    BY ONLY <2>2 DEF ResolveRuns
<1> DEFINE C == {k \in 0..n : Traced(s, k, h[k])}
<1>4. 0 \in C
    BY <1>1, <1>3, <1>9, TraceBegins
<1>5. ASSUME NEW k \in 1..n, k - 1 \in C
      PROVE  k \in C
  <2>1. h[k] = ResolveOn(h[k - 1], s.trail[n - k + 1])
    BY <1>2, <1>3
  <2>2. Traced(s, k - 1, h[k - 1])
    BY <1>5
  <2>3. PICK j, e : j = n - k + 1 /\ e = s.trail[j]
    OBVIOUS
  <2>4. Traced(s, k, ResolveOn(h[k - 1], e))
    <3> HIDE DEF C
    <3>1. j = Len(s.trail) - k + 1 /\ k \in 1..Len(s.trail)
      BY <2>3 DEF n
    <3> QED
      BY ONLY <2>2, <2>3, <3>1, TraceStep, Consistent(s), DecisionLevel(s) > 0
  <2> QED
    BY <1>1, <2>1, <2>3, <2>4
<1>6. n \in C
  <2> HIDE DEF C
  <2>1. \A k \in 0..n : k \in C
    BY <1>1, <1>4, <1>5, StepInduction
  <2> QED
    BY <1>1, <2>1
<1>7. Traced(s, n, a)
  <2>1. a = Resolutions(Resolve(base, cr, 1), Reverse(s.trail))
    BY DEF Resolutions
  <2>2. a = Resolutions(first, seq)
    BY <1>9, <2>1 DEF seq
  <2>3. a = h[n]
    BY ONLY <1>2, <1>3, <2>2
  <2> QED
    BY <1>6, <2>3
<1>8. a.uip # 0
  <2> SUFFICES ASSUME a.uip = 0
               PROVE  FALSE
    OBVIOUS
  <2>1. PICK i \in OnLevel(s, a.seen) : i <= Len(s.trail) - n
    BY <1>7 DEF Traced
  <2>2. i \in 1..n
    BY <1>1 DEF OnLevel
  <2> QED
    BY <1>1, <2>1, <2>2 DEF n
<1> QED
    BY <1>7, <1>8 DEF n

(***************************************************************************)
(* What litRedundant finds: places whose reasons only have literals that    *)
(* the learnt clause has, that are such places too, or of level 0.          *)
(***************************************************************************)
Antecedents(s, i) == Tail(ImpliedFirst(s, s.ca[s.trail[i].reason].lits))
VarsOf(learnt) == {Var(q) : q \in ToSet(learnt)}
LevelsOf(s, learnt) == {LevelOf(s, q) : q \in ToSet(learnt)}

Follows(s, learnt, i, X) ==
    /\ s.trail[i].level > 0
    /\ s.trail[i].reason # CRef_Undef
    /\ \A q \in ToSet(Antecedents(s, i)) :
           \/ LevelOf(s, q) = 0
           \/ Var(q) \in VarsOf(learnt)
           \/ LevelOf(s, q) \in LevelsOf(s, learnt) /\ Position(s, q) \in X

Marks(s, learnt, red) ==
    red = [i \in DOMAIN s.trail |->
              /\ s.trail[i].level > 0
              /\ s.trail[i].reason # CRef_Undef
              /\ \A q \in ToSet(Antecedents(s, i)) :
                     \/ LevelOf(s, q) = 0
                     \/ Var(q) \in VarsOf(learnt)
                     \/ LevelOf(s, q) \in LevelsOf(s, learnt) /\ red[Position(s, q)]]

LEMMA AntecedentFacts ==
    ASSUME NEW s, Consistent(s), NEW i \in DOMAIN s.trail, s.trail[i].level > 0,
           s.trail[i].reason # CRef_Undef, NEW q \in ToSet(Antecedents(s, i))
    PROVE  /\ q \in Lits /\ Position(s, q) \in 1 .. i - 1 /\ Position(s, q) \in DOMAIN s.trail
           /\ s.trail[Position(s, q)].lit = Neg(q)
           /\ LevelOf(s, q) = s.trail[Position(s, q)].level
<1> DEFINE c == ReadFrom(s, s.trail[i].reason, 2)
<1>1. FromReason(s, i, c)
    BY ReasonRead
<1>2. Antecedents(s, i) = Tail(c)
    BY DEF Antecedents, ReadFrom
<1>3. s \in Solvers /\ TrailOK(s) /\ DOMAIN s.trail = 1..Len(s.trail) /\ Len(s.trail) \in Nat
    BY SolverTypes DEF Consistent
<1> HIDE DEF c
<1>4. PICK k \in 2..Len(c) : q = c[k]
  <2>1. c \in Seq(Lits) /\ Len(c) \in Nat /\ Len(c) >= 2
    BY <1>1 DEF FromReason
  <2>2. DOMAIN Tail(c) = 1..(Len(c) - 1) /\ \A k \in 1..(Len(c) - 1) : Tail(c)[k] = c[k + 1]
    BY <2>1
  <2>3. PICK k \in 1..(Len(c) - 1) : q = c[k + 1]
    BY <1>2, <2>2 DEF ToSet
  <2>4. k + 1 \in 2..Len(c)
    BY <2>1
  <2> QED
    BY <2>3, <2>4
<1>5. PICK m \in 1 .. i - 1 : s.trail[m].lit = Neg(c[k]) /\ c[k] \in Lits
    BY <1>1 DEF FromReason
<1>6. m \in DOMAIN s.trail /\ Neg(q) = s.trail[m].lit
    BY <1>3, <1>4, <1>5
<1>7. Position(s, q) = m /\ LevelOf(s, q) = s.trail[m].level
    BY <1>3, <1>4, <1>5, <1>6, OnTrail
<1> QED
    BY <1>4, <1>5, <1>6, <1>7

LEMMA RedundantFollows ==
    ASSUME NEW s, Consistent(s), NEW learnt, NEW R, R = Redundant(s, learnt)
    PROVE  R \subseteq DOMAIN s.trail /\ \A i \in R : Follows(s, learnt, i, R)
<1> DEFINE D == DOMAIN s.trail
           Closed(Y) == \A i \in Y : Follows(s, learnt, i, Y)
           X == UNION {Y \in SUBSET D : Closed(Y)}
           full == [i \in D |-> i \in X]
           red == CHOOSE r : Marks(s, learnt, r)
<1>1. ASSUME NEW i \in D
      PROVE  i \in X <=> Follows(s, learnt, i, X)
  <2>1. ASSUME i \in X
        PROVE  Follows(s, learnt, i, X)
    <3>1. PICK Y \in SUBSET D : i \in Y /\ Closed(Y)
      BY <2>1
    <3>2. Y \subseteq X /\ Follows(s, learnt, i, Y)
      BY <3>1
    <3> HIDE DEF X
    <3> QED
      BY <3>2 DEF Follows
  <2>2. ASSUME Follows(s, learnt, i, X)
        PROVE  i \in X
    <3> DEFINE Y == X \cup {i}
    <3>1. X \subseteq D
      OBVIOUS
    <3>2. Closed(X)
      <4> SUFFICES ASSUME NEW k \in X
                   PROVE  Follows(s, learnt, k, X)
        OBVIOUS
      <4>1. PICK Z \in SUBSET D : k \in Z /\ Closed(Z)
        OBVIOUS
      <4>2. Z \subseteq X /\ Follows(s, learnt, k, Z)
        BY <4>1
      <4> HIDE DEF X
      <4> QED
        BY <4>2 DEF Follows
    <3>3. Closed(Y)
      <4> HIDE DEF X
      <4> QED
        BY <2>2, <3>2 DEF Follows
    <3> QED
      BY <3>1, <3>3
  <2> QED
    BY <2>1, <2>2
<1>2. Marks(s, learnt, full)
  <2>1. ASSUME NEW i \in D
        PROVE  (i \in X) <=>
                   (/\ s.trail[i].level > 0
                    /\ s.trail[i].reason # CRef_Undef
                    /\ \A q \in ToSet(Antecedents(s, i)) :
                           \/ LevelOf(s, q) = 0
                           \/ Var(q) \in VarsOf(learnt)
                           \/ LevelOf(s, q) \in LevelsOf(s, learnt) /\ full[Position(s, q)])
    <3>1. CASE ~(s.trail[i].level > 0 /\ s.trail[i].reason # CRef_Undef)
      <4>1. i \notin X
        <5> HIDE DEF X
        <5> QED
          BY <1>1, <3>1 DEF Follows
      <4> HIDE DEF X
      <4> QED
        BY <3>1, <4>1
    <3>2. CASE s.trail[i].level > 0 /\ s.trail[i].reason # CRef_Undef
      <4>1. \A q \in ToSet(Antecedents(s, i)) : Position(s, q) \in D
        BY <3>2, AntecedentFacts
      <4> HIDE DEF X
      <4>2. \A q \in ToSet(Antecedents(s, i)) : full[Position(s, q)] <=> Position(s, q) \in X
        BY <4>1
      <4> HIDE DEF full
      <4> QED
        BY <1>1, <3>2, <4>2 DEF Follows
    <3> QED
      BY <3>1, <3>2
  <2> DEFINE E(i) == /\ s.trail[i].level > 0
                     /\ s.trail[i].reason # CRef_Undef
                     /\ \A q \in ToSet(Antecedents(s, i)) :
                            \/ LevelOf(s, q) = 0
                            \/ Var(q) \in VarsOf(learnt)
                            \/ LevelOf(s, q) \in LevelsOf(s, learnt) /\ full[Position(s, q)]
  <2>2. \A i \in D : i \in X <=> E(i)
    BY <2>1
  <2>3. \A i \in D : E(i) \in BOOLEAN
    OBVIOUS
  <2>4. \A i \in D : (i \in X) = E(i)
    <3> HIDE DEF X, E, D
    <3> QED
      BY <2>2, <2>3
  <2>5. [i \in D |-> i \in X] = [i \in D |-> E(i)]
    <3> HIDE DEF X, E, D
    <3> QED
      BY <2>4
  <2> QED
    BY <2>5 DEF Marks
<1>3. Marks(s, learnt, red)
  <2> HIDE DEF full
  <2> QED
    BY <1>2
<1>4. R = {i \in D : red[i]}
    BY DEF Redundant, Marks, Antecedents, VarsOf, LevelsOf
<1> HIDE DEF red
<1>5. ASSUME NEW i \in R
      PROVE  Follows(s, learnt, i, R)
  <2>1. i \in D /\ red[i]
    BY <1>4
  <2>2. /\ s.trail[i].level > 0
        /\ s.trail[i].reason # CRef_Undef
        /\ \A q \in ToSet(Antecedents(s, i)) :
               \/ LevelOf(s, q) = 0
               \/ Var(q) \in VarsOf(learnt)
               \/ LevelOf(s, q) \in LevelsOf(s, learnt) /\ red[Position(s, q)]
    BY <1>3, <2>1 DEF Marks
  <2>3. \A q \in ToSet(Antecedents(s, i)) : Position(s, q) \in D
    BY <2>1, <2>2, AntecedentFacts
  <2> QED
    BY <1>4, <2>2, <2>3 DEF Follows
<1> QED
    BY <1>4, <1>5

-----------------------------------------------------------------------------
(***************************************************************************)
(* analyze: literals that follow from the others are left out, and the     *)
(* one of the highest level comes second.                                  *)
(***************************************************************************)

\* Where a literal is false.
FalseAt(s, l, i) == i \in DOMAIN s.trail /\ s.trail[i].lit = Neg(l)

\* A model that makes no other literal of the learnt clause true makes true
\* what is found to be redundant.
LEMMA RedundantTrue ==
    ASSUME NEW s, Consistent(s), NEW learnt \in Seq(Lits),
           \A k \in DOMAIN learnt : \E i : FalseAt(s, learnt[k], i),
           NEW R, R = Redundant(s, learnt),
           NEW F, Sound(s, F), NEW A \in Oracle!ModelsOf(s.nVars, F),
           \A k \in DOMAIN learnt : Position(s, learnt[k]) \notin R => learnt[k] \notin A
    PROVE  \A k \in DOMAIN learnt : learnt[k] \notin A
<1>1. /\ s \in Solvers /\ TrailOK(s) /\ DOMAIN s.trail = 1..Len(s.trail)
      /\ Len(s.trail) \in Nat /\ s.nVars \in 0..MaxVars
    BY SolverTypes DEF Consistent
<1>2. /\ A \in Oracle!Assignments(s.nVars) /\ Satisfies(A, s, AttachedIn(s))
      /\ Fixed(s) \subseteq A
    BY DEF Oracle!ModelsOf, Sound, Satisfies
<1>3. ASSUME NEW l \in Lits, NEW i, FalseAt(s, l, i)
      PROVE  /\ Position(s, l) = i /\ (l \in A <=> s.trail[i].lit \notin A)
             /\ l = Neg(s.trail[i].lit)
  <2>1. i \in DOMAIN s.trail /\ Neg(l) = s.trail[i].lit
    BY <1>3 DEF FalseAt
  <2>2. Position(s, l) = i
    BY <1>1, <2>1, OnTrail
  <2>3. Var(l) = Var(s.trail[i].lit) /\ l = Neg(s.trail[i].lit)
    BY <2>1, LitFacts
  <2>4. Var(l) <= s.nVars
    BY <1>1, <2>1, <2>3 DEF TrailOK
  <2>5. l \in A <=> Neg(l) \notin A
    BY <1>1, <1>2, <2>4, AssignmentFacts
  <2> QED
    BY <2>1, <2>2, <2>3, <2>5
<1>4. R \subseteq DOMAIN s.trail /\ \A i \in R : Follows(s, learnt, i, R)
    BY RedundantFollows
<1> DEFINE n == Len(s.trail)
           C == {i \in 0..n : i \in R => s.trail[i].lit \in A}
<1>5. ASSUME NEW i \in 0..n, \A j \in 0..(i - 1) : j \in C
      PROVE  i \in C
  <2> SUFFICES ASSUME i \in R
               PROVE  s.trail[i].lit \in A
    OBVIOUS
  <2> DEFINE cr == s.trail[i].reason
             c == ReadFrom(s, cr, 2)
  <2>1. i \in DOMAIN s.trail /\ Follows(s, learnt, i, R)
    BY <1>4
  <2>2. s.trail[i].level > 0 /\ s.trail[i].reason # CRef_Undef
    BY <2>1 DEF Follows
  <2>3. FromReason(s, i, c)
    BY <2>1, <2>2, ReasonRead
  <2>4. ReadFacts(s, cr, c)
    BY <2>3, Reading DEF FromReason
  <2>5. Antecedents(s, i) = Tail(c)
    BY DEF Antecedents, ReadFrom
  <2> HIDE DEF c
  <2>6. PICK k \in 1..Len(c) : c[k] \in A
    <3>1. ToSet(s.ca[cr].lits) \cap A # {}
      BY <1>2, <2>3 DEF Satisfies, FromReason
    <3>2. ToSet(c) \cap A # {} /\ DOMAIN c = 1..Len(c)
      BY <2>4, <3>1 DEF ReadFacts
    <3> QED
      BY <3>2 DEF ToSet
  <2>7. CASE k = 1
    BY <2>3, <2>6, <2>7 DEF FromReason
  <2>8. CASE k # 1
    <3> DEFINE q == c[k]
               m == Position(s, q)
    <3>1. q \in ToSet(Antecedents(s, i))
      <4>1. c \in Seq(Lits) /\ Len(c) \in Nat /\ Len(c) >= 2
        BY <2>3 DEF FromReason
      <4>2. DOMAIN Tail(c) = 1..(Len(c) - 1) /\ Tail(c)[k - 1] = c[k]
            /\ k - 1 \in 1..(Len(c) - 1)
        BY <2>8, <4>1
      <4> QED
        BY <2>5, <4>2 DEF ToSet
    <3>2. /\ q \in Lits /\ m \in 1 .. i - 1 /\ m \in DOMAIN s.trail
          /\ s.trail[m].lit = Neg(q)
          /\ LevelOf(s, q) = s.trail[m].level
      BY <2>1, <2>2, <3>1, AntecedentFacts
    <3> HIDE DEF q, m
    <3>3. FalseAt(s, q, m) /\ q \in A
      BY <2>6, <3>2 DEF FalseAt, q
    <3>4. s.trail[m].lit \notin A
      BY <1>3, <3>2, <3>3
    <3>5. m \notin R
      <4>1. m \in 0..(i - 1)
        BY <3>2
      <4> QED
        BY <1>5, <3>4, <4>1
    <3>6. LevelOf(s, q) # 0
      BY <1>2, <3>2, <3>4 DEF Fixed
    <3>7. Var(q) \in VarsOf(learnt)
      BY <2>1, <3>1, <3>5, <3>6 DEF Follows, m
    <3>8. PICK x \in DOMAIN learnt : Var(q) = Var(learnt[x])
      BY <3>7 DEF VarsOf, ToSet
    <3>9. PICK j : FalseAt(s, learnt[x], j)
      BY <3>8
    <3>10. learnt[x] \in Lits /\ Var(s.trail[j].lit) = Var(learnt[x]) /\ j \in DOMAIN s.trail
      BY <3>8, <3>9, LitFacts DEF FalseAt
    <3>11. Var(s.trail[m].lit) = Var(q)
      BY <3>2, LitFacts
    <3>12. j = m
      BY <1>1, <3>2, <3>8, <3>10, <3>11 DEF TrailOK
    <3>13. learnt[x] = q /\ Position(s, learnt[x]) = m
      BY <1>3, <3>2, <3>3, <3>9, <3>10, <3>12
    <3> QED
      BY <3>3, <3>5, <3>8, <3>13
  <2> QED
    BY <2>7, <2>8
<1>6. \A i \in 0..n : i \in C
  <2> HIDE DEF C, n
  <2> QED
    BY <1>1, <1>5, UpwardInduction DEF n
<1> SUFFICES ASSUME NEW k \in DOMAIN learnt, Position(s, learnt[k]) \in R
             PROVE  learnt[k] \notin A
    OBVIOUS
<1>7. PICK i : FalseAt(s, learnt[k], i)
    OBVIOUS
<1>8. learnt[k] \in Lits /\ Position(s, learnt[k]) = i /\ i \in 0..n
    BY <1>1, <1>3, <1>7 DEF FalseAt
<1>9. s.trail[i].lit \in A
    BY <1>6, <1>8
<1> QED
    BY <1>3, <1>7, <1>8, <1>9

LEMMA HighestFacts ==
    ASSUME NEW s, NEW c \in Seq(Lits), Len(c) >= 2,
           \A k \in 2..Len(c) : LevelOf(s, c[k]) \in Nat
    PROVE  \E high \in 2..Len(c) :
               /\ HighestSecond(s, c) = Swap(c, 2, high)
               /\ \A k \in 2..Len(c) : LevelOf(s, c[k]) <= LevelOf(s, c[high])
<1> DEFINE I == 2..Len(c)
           w == [k \in I |-> 0 - LevelOf(s, c[k])]
           Tops == {i \in I : \A k \in I : LevelOf(s, c[i]) >= LevelOf(s, c[k])}
<1>1. Len(c) \in Nat /\ I # {} /\ IsFiniteSet(I)
  <2>1. Len(c) \in Nat /\ 2 \in I
    OBVIOUS
  <2>2. PICK n \in Nat : n = Len(c)
    BY <2>1
  <2>3. IsFiniteSet(2..n)
    BY FS_Interval
  <2> QED
    BY <2>1, <2>2, <2>3
<1>2. \A k \in I : w[k] \in Int
    OBVIOUS
<1>3. PICK x \in I : \A y \in I : w[x] <= w[y]
  <2> HIDE DEF w, I
  <2> QED
    BY <1>1, <1>2, LeastExists
<1>4. x \in Tops
    BY <1>3
<1>5. Tops \in SUBSET Nat /\ Tops # {}
  <2>1. Tops \subseteq I
    OBVIOUS
  <2>2. I \subseteq Nat
    OBVIOUS
  <2> HIDE DEF Tops, I
  <2> QED
    BY <1>4, <2>1, <2>2
<1> DEFINE high == Min(Tops)
<1>6. HighestSecond(s, c) = Swap(c, 2, high)
  <2>1. Len(c) # 1
    OBVIOUS
  <2>2. SelectInSubSeq(c, 2, Len(c), LAMBDA q : \A k \in 2..Len(c) : LevelOf(s, q) >= LevelOf(s, c[k]))
            = high
    BY <1>5 DEF SelectInSubSeq
  <2> QED
    BY <2>1, <2>2 DEF HighestSecond
<1>7. high \in Tops
  <2> HIDE DEF Tops
  <2> QED
    BY <1>5, LeastOf
<1> HIDE DEF high
<1>8. high \in I /\ \A k \in I : LevelOf(s, c[k]) <= LevelOf(s, c[high])
    BY <1>7
<1> QED
    BY <1>6, <1>8

\* The conflict clause c: one literal of the present level, the others of lower
\* ones, and nothing that the formula does not imply.
Learnt(s, c) ==
    /\ c \in Seq(Lits) /\ Len(c) >= 1 /\ Distinct(c)
    /\ \E i : FalseAt(s, c[1], i) /\ s.trail[i].level = DecisionLevel(s)
    /\ \A k \in 2..Len(c) : \E i : /\ FalseAt(s, c[k], i)
                                   /\ s.trail[i].level \in 1 .. DecisionLevel(s) - 1
    /\ \A F : Sound(s, F) => \A A \in Oracle!ModelsOf(s.nVars, F) : ToSet(c) \cap A # {}

LEMMA HighestKeeps ==
    ASSUME NEW s, Consistent(s), NEW c, Learnt(s, c), NEW d, d = HighestSecond(s, c)
    PROVE  /\ Learnt(s, d)
           /\ \A k \in 2..Len(d) : LevelOf(s, d[k]) <= LevelOf(s, d[2])
<1>1. c \in Seq(Lits) /\ Len(c) >= 1 /\ Len(c) \in Nat /\ Distinct(c) /\ DOMAIN c = 1..Len(c)
    BY DEF Learnt
<1>2. CASE Len(c) = 1
  <2>1. d = c
    BY <1>2 DEF HighestSecond
  <2>2. Len(d) = 1
    BY <1>2, <2>1
  <2>3. 2..Len(d) = {}
    BY <2>2
  <2> QED
    BY <2>1, <2>3
<1>3. CASE Len(c) >= 2
  <2>1. s \in Solvers /\ TrailOK(s)
    BY DEF Consistent
  <2>2. ASSUME NEW k \in 2..Len(c)
        PROVE  LevelOf(s, c[k]) \in Nat
    <3>1. PICK i : FalseAt(s, c[k], i)
      BY DEF Learnt
    <3>2. c[k] \in Lits
      BY <1>1
    <3>3. LevelOf(s, c[k]) = s.trail[i].level /\ i \in DOMAIN s.trail
      BY <2>1, <3>1, <3>2, OnTrail DEF FalseAt
    <3> QED
      BY <2>1, <3>3, SolverTypes
  <2>3. PICK high \in 2..Len(c) :
               /\ d = Swap(c, 2, high)
               /\ \A k \in 2..Len(c) : LevelOf(s, c[k]) <= LevelOf(s, c[high])
    BY <1>1, <1>3, <2>2, HighestFacts
  <2>4. PICK x \in 1..Len(c), y \in 1..Len(c) : x = 2 /\ y = high
    BY <1>1, <1>3
  <2>5. /\ d \in Seq(Lits) /\ Len(d) = Len(c) /\ DOMAIN d = 1..Len(c)
        /\ ToSet(d) = ToSet(c) /\ d[x] = c[y] /\ d[y] = c[x]
        /\ \A i \in 1..Len(c) : i # x /\ i # y => d[i] = c[i]
        /\ Distinct(d)
    <3>1. d = Swap(c, x, y)
      BY <2>3, <2>4
    <3>2. c \in Seq(Lits)
      BY <1>1
    <3>3. /\ d \in Seq(Lits) /\ Len(d) = Len(c) /\ DOMAIN d = 1..Len(c)
          /\ ToSet(d) = ToSet(c) /\ d[x] = c[y] /\ d[y] = c[x]
          /\ \A i \in 1..Len(c) : i # x /\ i # y => d[i] = c[i]
          /\ Distinct(c) => Distinct(d)
      BY ONLY <3>1, <3>2, SwapFacts, x \in 1..Len(c), y \in 1..Len(c)
    <3> QED
      BY <1>1, <3>3
  <2>6. \A k \in 2..Len(c) : \E m \in 2..Len(c) : d[k] = c[m]
    BY <1>1, <1>3, <2>4, <2>5
  <2>7. d[1] = c[1] /\ d[2] = c[high]
    BY <1>1, <1>3, <2>4, <2>5
  <2>8. Learnt(s, d)
    <3>1. \E i : FalseAt(s, d[1], i) /\ s.trail[i].level = DecisionLevel(s)
      BY <2>7 DEF Learnt
    <3>2. \A k \in 2..Len(d) : \E i : /\ FalseAt(s, d[k], i)
                                     /\ s.trail[i].level \in 1 .. DecisionLevel(s) - 1
      BY <2>5, <2>6 DEF Learnt
    <3>3. \A F : Sound(s, F) => \A A \in Oracle!ModelsOf(s.nVars, F) : ToSet(d) \cap A # {}
      BY <2>5 DEF Learnt
    <3> QED
      BY <1>1, <2>5, <3>1, <3>2, <3>3 DEF Learnt
  <2>9. \A k \in 2..Len(d) : LevelOf(s, d[k]) <= LevelOf(s, d[2])
    BY <2>3, <2>5, <2>6, <2>7
  <2> QED
    BY <2>8, <2>9
<1> QED
    BY <1>1, <1>2, <1>3

\* The literals of level 0 to DL - 1 that the analysis has found, without those
\* that are redundant, make a clause with the one of the present level.
LEMMA MinimalLearnt ==
    ASSUME NEW s, Consistent(s), DecisionLevel(s) > 0, NEW a, Traced(s, Len(s.trail), a),
           a.uip # 0, NEW R, R = Redundant(a.s, a.learnt),
           NEW m, m = At(a.learnt, {i \in DOMAIN a.learnt : Position(s, a.learnt[i]) \notin R}),
           NEW c, c = <<Neg(a.uip)>> \o m
    PROVE  Learnt(s, c)
<1> DEFINE l == a.learnt
           T == {i \in DOMAIN l : Position(s, l[i]) \notin R}
           n == Len(m)
<1>1. /\ s \in Solvers /\ TrailOK(s) /\ Gathered(s, a) /\ a \in Analyses /\ Entails(s, a.seen)
      /\ DecisionLevel(s) \in Nat /\ DOMAIN s.trail = 1..Len(s.trail) /\ Len(s.trail) \in Nat
      /\ s.nVars \in 0..MaxVars
    BY SolverTypes DEF Consistent, Traced, Gathered
<1>2. /\ l \in Seq(Lits) /\ Distinct(l) /\ a.uip \in Lits
      /\ Reshaped(s, a.s) /\ a.s.trail = s.trail /\ Consistent(a.s) /\ a.s.nVars = s.nVars
      /\ \A F : Sound(s, F) => Sound(a.s, F)
    BY <1>1 DEF Gathered, Analyses, Reshaped, After
<1>3. \A q : Position(a.s, q) = Position(s, q)
    BY <1>2, SameTrail
<1>4. /\ m \in Seq(Lits) /\ n \in Nat /\ DOMAIN m = 1..n /\ Distinct(m)
      /\ \A k \in DOMAIN m : \E i \in T : m[k] = l[i]
      /\ \A i \in T : \E k \in DOMAIN m : m[k] = l[i]
  <2>1. T \in SUBSET DOMAIN l /\ m = At(l, T)
    OBVIOUS
  <2> HIDE DEF T, l, n
  <2>2. PartOf(l, T, m)
    BY <1>2, <2>1, PartFacts
  <2> QED
    BY <2>2 DEF PartOf, n
<1>5. ASSUME NEW k \in DOMAIN l
      PROVE  \E i : /\ FalseAt(s, l[k], i) /\ s.trail[i].level \in 1 .. DecisionLevel(s) - 1
                    /\ l[k] \in Lits
    BY <1>1, <1>2 DEF Gathered, FalseAt
<1>6. PICK u \in DOMAIN s.trail : s.trail[u].lit = a.uip /\ OnLevel(s, a.seen) = {u}
    BY DEF Traced
<1>7. s.trail[u].level = DecisionLevel(s)
    BY <1>6 DEF OnLevel
<1>8. Neg(a.uip) \in Lits /\ FalseAt(s, Neg(a.uip), u) /\ Neg(Neg(a.uip)) = a.uip
      /\ Var(Neg(a.uip)) = Var(a.uip)
    BY <1>2, <1>6, LitFacts DEF FalseAt
<1>9. /\ c \in Seq(Lits) /\ Len(c) = n + 1 /\ DOMAIN c = 1..(n + 1) /\ c[1] = Neg(a.uip)
      /\ \A k \in 2..(n + 1) : c[k] = m[k - 1] /\ k - 1 \in DOMAIN m
      /\ \A k \in DOMAIN m : c[k + 1] = m[k] /\ k + 1 \in DOMAIN c
  <2>1. <<Neg(a.uip)>> \in Seq(Lits)
    BY <1>8
  <2>2. PICK x \in Lits : x = Neg(a.uip)
    BY <1>8
  <2>3. c = <<x>> \o m /\ m \in Seq(Lits) /\ Len(m) \in Nat /\ DOMAIN m = 1..Len(m)
    BY <1>4, <2>2
  <2>4. /\ c \in Seq(Lits) /\ Len(c) = Len(m) + 1 /\ DOMAIN c = 1..(Len(m) + 1) /\ c[1] = x
        /\ \A k \in 2..(Len(m) + 1) : c[k] = m[k - 1] /\ k - 1 \in DOMAIN m
        /\ \A k \in DOMAIN m : c[k + 1] = m[k] /\ k + 1 \in DOMAIN c
    BY ONLY <2>3, x \in Lits
  <2> QED
    BY <2>2, <2>4
<1> HIDE DEF n
<1>10. ASSUME NEW k \in 2..Len(c)
       PROVE  \E i : /\ FalseAt(s, c[k], i)
                     /\ s.trail[i].level \in 1 .. DecisionLevel(s) - 1
  <2>0. k \in 2..(n + 1)
    BY <1>9
  <2>2. T \subseteq DOMAIN l
    OBVIOUS
  <2> HIDE DEF T, l
  <2>3. c[k] = m[k - 1] /\ k - 1 \in DOMAIN m
    BY <1>9, <2>0
  <2>1. PICK i \in T : m[k - 1] = l[i]
    BY <1>4, <2>3
  <2>4. i \in DOMAIN l /\ c[k] = l[i]
    BY <2>1, <2>2, <2>3
  <2> QED
    BY <1>5, <2>4
<1>11. ASSUME NEW k \in DOMAIN c, NEW x \in DOMAIN c, Var(c[k]) = Var(c[x])
       PROVE  k = x
  <2>1. ASSUME NEW y \in 2..Len(c)
        PROVE  Var(c[y]) # Var(c[1])
    <3>1. PICK i : FalseAt(s, c[y], i) /\ s.trail[i].level \in 1 .. DecisionLevel(s) - 1
      BY <1>10
    <3>2. c[y] \in Lits
      BY <1>9
    <3>3. Var(s.trail[i].lit) = Var(c[y]) /\ i \in DOMAIN s.trail
      BY <3>1, <3>2, LitFacts DEF FalseAt
    <3>4. i # u
      BY <1>1, <1>7, <3>1
    <3> QED
      BY <1>1, <1>6, <1>8, <1>9, <3>3, <3>4 DEF TrailOK
  <2>2. CASE k = 1 \/ x = 1
    BY SMTT(30), <1>4, <1>9, <1>11, <2>1, <2>2
  <2>3. CASE k # 1 /\ x # 1
    <3>1. k \in 2..(n + 1) /\ x \in 2..(n + 1)
      BY <1>4, <1>9, <2>3
    <3>2. m[k - 1] = c[k] /\ m[x - 1] = c[x] /\ k - 1 \in DOMAIN m /\ x - 1 \in DOMAIN m
      BY <1>9, <3>1
    <3>4. Var(m[k - 1]) = Var(m[x - 1])
      BY <1>11, <3>2
    <3>5. PICK y \in DOMAIN m, z \in DOMAIN m : y = k - 1 /\ z = x - 1
      BY <3>2
    <3>6. y = z
      BY <1>4, <3>4, <3>5 DEF Distinct
    <3>3. k - 1 = x - 1
      BY <3>5, <3>6
    <3> QED
      BY <3>1, <3>3
  <2> QED
    BY <2>2, <2>3
<1>12. ASSUME NEW F, Sound(s, F), NEW A \in Oracle!ModelsOf(s.nVars, F)
       PROVE  ToSet(c) \cap A # {}
  <2> SUFFICES ASSUME \A k \in DOMAIN c : c[k] \notin A
               PROVE  FALSE
    BY DEF ToSet
  <2>1. \A k \in DOMAIN l : Position(a.s, l[k]) \notin R => l[k] \notin A
    <3> SUFFICES ASSUME NEW k \in DOMAIN l, Position(a.s, l[k]) \notin R
                 PROVE  l[k] \notin A
      OBVIOUS
    <3>1. k \in T
      BY <1>3
    <3> HIDE DEF T, l
    <3>2. PICK x \in DOMAIN m : m[x] = l[k]
      BY <1>4, <3>1
    <3>3. c[x + 1] = l[k] /\ x + 1 \in DOMAIN c
      BY <1>9, <3>2
    <3> QED
      BY <3>3
  <2>2. \A k \in DOMAIN l : \E i : FalseAt(a.s, l[k], i)
    BY <1>2, <1>5 DEF FalseAt
  <2>3. \A k \in DOMAIN l : l[k] \notin A
    <3>1. Consistent(a.s) /\ Sound(a.s, F) /\ A \in Oracle!ModelsOf(a.s.nVars, F)
      BY <1>2, <1>12
    <3>2. l \in Seq(Lits) /\ R = Redundant(a.s, l)
      BY <1>2
    <3> HIDE DEF l
    <3> QED
      BY ONLY <2>1, <2>2, <3>1, <3>2, RedundantTrue
  <2>4. PICK i \in DOMAIN s.trail : Var(s.trail[i].lit) \in a.seen /\ Neg(s.trail[i].lit) \in A
    BY <1>1, <1>12 DEF Entails, Refuted
  <2>5. s.trail[i].level \in Nat /\ s.trail[i].level <= DecisionLevel(s)
    BY <1>1, SolverTypes DEF TrailOK
  <2>6. CASE s.trail[i].level = DecisionLevel(s)
    <3>1. i = u
      BY <1>6, <2>4, <2>6 DEF OnLevel
    <3>2. Neg(s.trail[i].lit) = c[1] /\ 1 \in DOMAIN c
      BY <1>4, <1>6, <1>9, <3>1
    <3> QED
      BY <2>4, <3>2
  <2>7. CASE s.trail[i].level < DecisionLevel(s)
    <3>1. \E k \in DOMAIN l : l[k] = Neg(s.trail[i].lit)
      BY <1>1, <2>4, <2>7 DEF Gathered
    <3> QED
      BY <2>3, <2>4, <3>1
  <2> QED
    BY <1>1, <2>5, <2>6, <2>7
<1>13. Distinct(c)
    BY <1>11 DEF Distinct
<1>14. FalseAt(s, c[1], u)
    BY <1>8, <1>9
<1>15. Len(c) >= 1
    BY <1>4, <1>9
<1> QED
    BY <1>7, <1>9, <1>10, <1>12, <1>13, <1>14, <1>15 DEF Learnt

\* What the analysis of a conflict returns.
Analyzed(s, r) ==
    /\ Reshaped(s, r.s) /\ Learnt(s, r.learnt)
    /\ \A k \in 2..Len(r.learnt) : LevelOf(s, r.learnt[k]) <= LevelOf(s, r.learnt[2])

LEMMA AnalyzeKeeps ==
    ASSUME NEW s, Consistent(s), NEW cr, Conflicting(s, cr), DecisionLevel(s) > 0
    PROVE  Analyzed(s, analyze(s, cr))
<1> DEFINE base == [s |-> s, seen |-> {}, pathC |-> 0, learnt |-> <<>>, uip |-> 0]
           a == FoldLeft(ResolveOn, Resolve(base, cr, 1), Reverse(s.trail))
           R == Redundant(a.s, a.learnt)
           m == At(a.learnt, {i \in DOMAIN a.learnt : Position(s, a.learnt[i]) \notin R})
           c == <<Neg(a.uip)>> \o m
<1>1. analyze(s, cr) = [s |-> a.s, learnt |-> HighestSecond(s, c)]
    BY DEF analyze, Where
<1>2. Traced(s, Len(s.trail), a) /\ a.uip # 0
  <2> HIDE DEF base
  <2>1. PICK b : b = base
    OBVIOUS
  <2> QED
    BY <2>1, AnalysisEnds DEF base
<1> HIDE DEF a
<1>3. Learnt(s, c)
  <2> HIDE DEF R, m
  <2>1. R = Redundant(a.s, a.learnt)
    BY DEF R
  <2>2. m = At(a.learnt, {i \in DOMAIN a.learnt : Position(s, a.learnt[i]) \notin R})
    BY DEF m
  <2> HIDE DEF c
  <2>3. c = <<Neg(a.uip)>> \o m
    BY DEF c
  <2> QED
    BY <1>2, <2>1, <2>2, <2>3, MinimalLearnt
<1> HIDE DEF c
<1>4. PICK d : d = HighestSecond(s, c)
    OBVIOUS
<1>5. Learnt(s, d) /\ \A k \in 2..Len(d) : LevelOf(s, d[k]) <= LevelOf(s, d[2])
    BY <1>3, <1>4, HighestKeeps
<1>6. Reshaped(s, a.s)
    BY <1>2 DEF Traced, Gathered
<1> QED
    BY <1>1, <1>4, <1>5, <1>6 DEF Analyzed
=============================================================================
