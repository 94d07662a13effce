---------------------------- MODULE Glucose_proofs ----------------------------
(***************************************************************************)
(* The SAT solver, for every number of variables, every sequence of calls  *)
(* and every choice its heuristics make: the invariant that all its        *)
(* operations keep, what it says of the clauses and the trail, and that    *)
(* the solver implements SatOracle.                                        *)
(*                                                                         *)
(* The last section is about Answers: what the process prints is true      *)
(* whenever the signal arrives, for every set of assignments, every cost   *)
(* function and every number of variables.                                 *)
(***************************************************************************)
EXTENDS Glucose_lemmas, Answers

(***************************************************************************)
(* The clause learnt: the solver goes back to the level of its second      *)
(* literal and its first one is implied there.                             *)
(***************************************************************************)

\* The solver u has read the clauses of s, and gone back to a level.
LEMMA BackFacts ==
    ASSUME NEW s, Consistent(s), NEW u, Reshaped(s, u), NEW c, Learnt(s, c),
           NEW level \in Nat, level < DecisionLevel(s), NEW back, back = cancelUntil(u, level)
    PROVE  /\ Consistent(back) /\ DecisionLevel(back) = level
           /\ back.qhead = Len(back.trail) /\ back.nVars = s.nVars /\ back.ok = s.ok
           /\ WatchersOK(s) => WatchersOK(back)
           /\ WatchedOK(s) => WatchedOK(back)
           /\ Visited(s, LastLim(s)) => Visited(back, back.qhead)
           /\ \A lits : AssumptionsFirst(s, lits) => AssumptionsFirst(back, lits)
           /\ \A F : Sound(s, F) => Sound(back, F)
           /\ \A F : Complete(s, F) => Complete(back, F)
           /\ IsUndef(back, c[1]) /\ c[1] \in Lits /\ Var(c[1]) <= s.nVars
           /\ \A k \in 2..Len(c) : LevelOf(s, c[k]) <= level => IsFalse(back, c[k])
           /\ \A i \in DOMAIN back.trail : i \in DOMAIN s.trail /\ back.trail[i] = s.trail[i]
           /\ \A i \in DOMAIN s.trail : s.trail[i].level <= level => i \in DOMAIN back.trail
<1>1. /\ s \in Solvers /\ TrailOK(s) /\ Consistent(u) /\ u \in Solvers /\ TrailOK(u)
      /\ u.trail = s.trail /\ u.trail_lim = s.trail_lim /\ u.nVars = s.nVars
      /\ u.watches = s.watches /\ u.watchesBin = s.watchesBin /\ u.ok = s.ok
      /\ WatchersOK(s) => WatchersOK(u)
      /\ WatchedOK(s) => WatchedOK(u)
      /\ DecisionLevel(u) = DecisionLevel(s) /\ LastLim(u) = LastLim(s)
    BY DEF Consistent, Reshaped, After, DecisionLevel, LastLim
<1>2. /\ DecisionLevel(s) \in Nat /\ DOMAIN s.trail_lim = 1..DecisionLevel(s)
      /\ DOMAIN s.trail = 1..Len(s.trail) /\ Len(s.trail) \in Nat
      /\ s.nVars \in Nat /\ \A i \in DOMAIN s.trail : s.trail[i].lit \in Lits /\ s.trail[i].level \in Nat
    BY <1>1, SolverTypes, VarsAreLits
<1>3. PICK n : n = u.trail_lim[level + 1]
    OBVIOUS
<1>4. /\ Consistent(back)
      /\ n \in Nat /\ n <= Len(s.trail) /\ back.qhead = n /\ Len(back.trail) = n
      /\ DecisionLevel(back) = level
      /\ \A i \in DOMAIN s.trail : s.trail[i].level <= level <=> i <= n
      /\ \A i \in 1..n : back.trail[i] = s.trail[i]
      /\ back.nVars = s.nVars /\ back.ok = s.ok
      /\ back.ca = u.ca /\ back.watches = u.watches /\ back.watchesBin = u.watchesBin
      /\ Fixed(back) = Fixed(u)
      /\ \A k \in Nat : Visited(u, k) /\ n <= k => Visited(back, n)
      /\ \A lits : AssumptionsFirst(u, lits) => AssumptionsFirst(back, lits)
  <2>1. Consistent(u) /\ level < DecisionLevel(u)
    BY <1>1
  <2>2. /\ Consistent(back)
        /\ n \in Nat /\ n <= Len(u.trail) /\ back.qhead = n /\ Len(back.trail) = n
        /\ DecisionLevel(back) = level
        /\ \A i \in DOMAIN u.trail : u.trail[i].level <= level <=> i <= n
        /\ \A i \in 1..n : back.trail[i] = u.trail[i]
        /\ back.nVars = u.nVars /\ back.ok = u.ok
        /\ back.ca = u.ca /\ back.watches = u.watches /\ back.watchesBin = u.watchesBin
        /\ Fixed(back) = Fixed(u)
        /\ \A k \in Nat : Visited(u, k) /\ n <= k => Visited(back, n)
        /\ \A lits : AssumptionsFirst(u, lits) => AssumptionsFirst(back, lits)
    BY ONLY <2>1, <1>3, back = cancelUntil(u, level), level \in Nat, CancelKeeps
  <2> QED
    BY ONLY <1>1, <2>2
<1>5. DOMAIN back.trail = 1..n
    BY <1>4, SolverTypes DEF Consistent
<1>6. c[1] \in Lits
    BY DEF Learnt
<1>7. PICK i \in DOMAIN s.trail : s.trail[i].lit = Neg(c[1]) /\ s.trail[i].level = DecisionLevel(s)
    BY DEF Learnt, FalseAt
<1>8. Var(s.trail[i].lit) = Var(c[1]) /\ Var(c[1]) <= s.nVars
    BY <1>1, <1>6, <1>7, LitFacts DEF TrailOK
<1>9. IsUndef(back, c[1])
  <2>1. ASSUME NEW j \in DOMAIN back.trail, Var(back.trail[j].lit) = Var(c[1])
        PROVE  FALSE
    <3>1. j \in DOMAIN s.trail /\ back.trail[j] = s.trail[j] /\ j <= n
      BY <1>2, <1>4, <1>5
    <3>2. j = i
      BY <1>1, <1>8, <2>1, <3>1 DEF TrailOK
    <3>3. s.trail[j].level <= level
      BY <1>4, <3>1
    <3> QED
      BY <1>2, <1>7, <3>2, <3>3
  <2>2. back \in Solvers /\ TrailOK(back)
    BY <1>4 DEF Consistent
  <2> QED
    BY <1>6, <2>1, <2>2, Values
<1>10. ASSUME NEW k \in 2..Len(c), LevelOf(s, c[k]) <= level
       PROVE  IsFalse(back, c[k])
  <2>1. PICK j : FalseAt(s, c[k], j)
    BY DEF Learnt
  <2>2. c[k] \in Lits
    BY DEF Learnt
  <2>3. j \in DOMAIN s.trail /\ s.trail[j].lit = Neg(c[k]) /\ LevelOf(s, c[k]) = s.trail[j].level
    BY <1>1, <2>1, <2>2, OnTrail DEF FalseAt
  <2>4. j <= n /\ j \in 1..n
    BY <1>2, <1>4, <1>10, <2>3
  <2> QED
    BY <1>4, <1>5, <2>3, <2>4 DEF IsFalse, IsTrue
<1>11. Visited(s, LastLim(s)) => Visited(back, back.qhead)
  <2> SUFFICES ASSUME Visited(s, LastLim(s))
               PROVE  Visited(back, n)
    BY <1>4
  <2>1. Visited(u, LastLim(u))
    BY <1>1, SameTrail
  <2>2. LastLim(s) \in Nat /\ LastLim(s) = s.trail_lim[DecisionLevel(s)]
    BY <1>1, <1>2, Levels DEF LastLim
  <2>3. n <= LastLim(s)
    BY <1>1, <1>2, <1>3, <2>2 DEF TrailOK
  <2> QED
    BY <1>1, <1>4, <2>1, <2>2, <2>3
<1>12. \A lits : AssumptionsFirst(s, lits) => AssumptionsFirst(back, lits)
    BY <1>4 DEF Reshaped, After
<1>13. /\ \A F : Sound(s, F) => Sound(back, F)
       /\ \A F : Complete(s, F) => Complete(back, F)
    BY <1>1, <1>4, SameMeaning DEF Reshaped, After
<1>14. /\ WatchersOK(s) => WatchersOK(back)
       /\ WatchedOK(s) => WatchedOK(back)
    BY <1>1, <1>4, SameClauses
<1>15. /\ \A j \in DOMAIN back.trail : j \in DOMAIN s.trail /\ back.trail[j] = s.trail[j]
       /\ \A j \in DOMAIN s.trail : s.trail[j].level <= level => j \in DOMAIN back.trail
    BY <1>2, <1>4, <1>5
<1> QED
    BY <1>4, <1>6, <1>8, <1>9, <1>10, <1>11, <1>12, <1>13, <1>14, <1>15

\* From the trail of s to that of t: what is above a level goes, and one literal
\* joins that level.
Climbs(s, t) ==
    /\ DecisionLevel(t) < DecisionLevel(s)
    /\ \E n \in Nat :
           /\ DOMAIN t.trail = 1..(n + 1) /\ t.trail[n + 1].level = DecisionLevel(t)
           /\ \A i \in 1..n : i \in DOMAIN s.trail /\ t.trail[i].level = s.trail[i].level
           /\ \A i \in DOMAIN s.trail : s.trail[i].level <= DecisionLevel(t) => i \in 1..n

\* What a conflict leads to.
Learned(s, t) ==
    /\ Consistent(t) /\ WatchersOK(t) /\ WatchedOK(t)
    /\ t.nVars = s.nVars /\ t.ok = s.ok
    /\ Visited(t, t.qhead) /\ Climbs(s, t)
    /\ \A lits : AssumptionsFirst(s, lits) => AssumptionsFirst(t, lits)
    /\ \A F : Sound(s, F) => Sound(t, F)
    /\ \A F : Complete(s, F) => Complete(t, F)

\* A unit clause is enqueued on level 0.
LEMMA LearnUnit ==
    ASSUME NEW s, Consistent(s), WatchersOK(s), WatchedOK(s), DecisionLevel(s) > 0,
           Visited(s, LastLim(s)), NEW u, Reshaped(s, u), NEW c, Learnt(s, c), Len(c) = 1
    PROVE  Learned(s, uncheckedEnqueue(cancelUntil(u, 0), c[1], CRef_Undef))
<1> DEFINE back == cancelUntil(u, 0)
           t == uncheckedEnqueue(back, c[1], CRef_Undef)
<1>1. DecisionLevel(s) \in Nat
    BY SolverTypes DEF Consistent
<1>2. PICK zero \in Nat : zero = 0
    OBVIOUS
<1>3. PICK b : b = cancelUntil(u, zero)
    OBVIOUS
<1>4. t = uncheckedEnqueue(b, c[1], CRef_Undef)
    BY <1>2, <1>3
<1>5. /\ Consistent(b) /\ DecisionLevel(b) = zero
      /\ b.qhead = Len(b.trail) /\ b.nVars = s.nVars /\ b.ok = s.ok
      /\ WatchersOK(b) /\ WatchedOK(b) /\ Visited(b, b.qhead)
      /\ \A F : Sound(s, F) => Sound(b, F)
      /\ \A F : Complete(s, F) => Complete(b, F)
      /\ IsUndef(b, c[1]) /\ c[1] \in Lits /\ Var(c[1]) <= s.nVars
      /\ \A i \in DOMAIN b.trail : i \in DOMAIN s.trail /\ b.trail[i] = s.trail[i]
      /\ \A i \in DOMAIN s.trail : s.trail[i].level <= zero => i \in DOMAIN b.trail
    BY <1>1, <1>2, <1>3, BackFacts
<1> HIDE DEF t, back
<1>6. b \in Solvers /\ Len(b.trail) \in Nat /\ DecisionLevel(b) = 0 /\ CRef_Undef \in Nat
    BY <1>2, <1>5, SolverTypes DEF Consistent, CRef_Undef
<1>7. /\ Consistent(t) /\ Visited(t, b.qhead)
    BY <1>4, <1>5, <1>6, EnqueueKeeps DEF CRef_Undef
<1>8. PICK n : n = Len(b.trail)
    OBVIOUS
<1>9. /\ DOMAIN t.trail = 1..(n + 1)
      /\ \A i \in 1..n : t.trail[i] = b.trail[i]
      /\ t.trail[n + 1] = [lit |-> c[1], level |-> 0, reason |-> CRef_Undef]
      /\ t.ca = b.ca /\ t.watches = b.watches /\ t.watchesBin = b.watchesBin
      /\ t.qhead = b.qhead /\ t.nVars = b.nVars /\ t.ok = b.ok
      /\ DecisionLevel(t) = 0
    BY <1>4, <1>5, <1>6, <1>8, EnqueueFields
<1>10. WatchersOK(t) /\ WatchedOK(t) /\ AttachedIn(t) = AttachedIn(b)
    BY <1>5, <1>9, SameClauses
<1>11. DOMAIN b.trail = 1..n /\ n \in Nat
    BY <1>6, <1>8, SolverTypes
<1>12. Fixed(b) \subseteq Fixed(t) /\ Fixed(t) \subseteq Fixed(b) \cup {c[1]}
  <2>1. Fixed(b) \subseteq Fixed(t)
    <3> SUFFICES ASSUME NEW i \in DOMAIN b.trail, b.trail[i].level = 0
                 PROVE  b.trail[i].lit \in Fixed(t)
      BY DEF Fixed
    <3> QED
      BY <1>9, <1>11 DEF Fixed
  <2>2. Fixed(t) \subseteq Fixed(b) \cup {c[1]}
    <3> SUFFICES ASSUME NEW i \in DOMAIN t.trail, t.trail[i].level = 0
                 PROVE  t.trail[i].lit \in Fixed(b) \cup {c[1]}
      BY DEF Fixed
    <3>1. CASE i = n + 1
      BY <1>9, <3>1
    <3>2. CASE i \in 1..n
      BY <1>9, <1>11, <3>2 DEF Fixed
    <3> QED
      BY <1>9, <1>11, <3>1, <3>2
  <2> QED
    BY <2>1, <2>2
<1>13. ASSUME NEW F, Sound(s, F)
       PROVE  Sound(t, F)
  <2> SUFFICES ASSUME NEW A \in Oracle!ModelsOf(s.nVars, F)
               PROVE  Satisfies(A, t, AttachedIn(t))
    BY <1>5, <1>9 DEF Sound
  <2>1. Satisfies(A, b, AttachedIn(b))
    BY <1>5, <1>13 DEF Sound
  <2>2. c[1] \in A
    <3>1. ToSet(c) \cap A # {}
      BY <1>13 DEF Learnt
    <3>2. ToSet(c) = {c[1]}
      <4>1. DOMAIN c = 1..1 /\ 1..1 = {1}
        BY DEF Learnt
      <4> QED
        BY <4>1 DEF ToSet
    <3> QED
      BY <3>1, <3>2
  <2> QED
    BY <1>9, <1>10, <1>12, <2>1, <2>2 DEF Satisfies
<1>14. ASSUME NEW F, Complete(s, F)
       PROVE  Complete(t, F)
  <2>1. ListOf(t, "clauses") = ListOf(b, "clauses")
    BY <1>9 DEF ListOf
  <2>2. Complete(b, F)
    BY <1>5, <1>14
  <2> QED
    BY <1>9, <1>12, <2>1, <2>2 DEF Complete, Satisfies
<1>15. ASSUME NEW lits
       PROVE  AssumptionsFirst(t, lits)
  <2>1. t \in Solvers /\ TrailOK(t)
    BY <1>7 DEF Consistent
  <2>2. DOMAIN t.trail_lim = {} /\ \A i \in DOMAIN t.trail : t.trail[i].level = 0
    <3>1. /\ DOMAIN t.trail_lim = 1..0
          /\ \A i \in DOMAIN t.trail : t.trail[i].level \in Nat /\ t.trail[i].level <= 0
      BY <1>9, <2>1, SolverTypes DEF TrailOK
    <3> QED
      BY <3>1
  <2>3. \A i \in DOMAIN t.trail : t.trail[i].level \notin 1..Len(lits)
    BY <2>2
  <2> QED
    BY <2>2, <2>3 DEF AssumptionsFirst
<1>16. t.nVars = s.nVars /\ t.ok = s.ok /\ Visited(t, t.qhead)
    BY <1>5, <1>7, <1>9
<1>18. Climbs(s, t)
    BY <1>2, <1>5, <1>9, <1>11 DEF Climbs
<1>17. Learned(s, t)
    BY ONLY <1>7, <1>10, <1>13, <1>14, <1>15, <1>16, <1>18 DEF Learned
<1> QED
    BY <1>17 DEF t, back

\* The trail alone tells which levels the assumptions have.
LEMMA SameAssumptions ==
    ASSUME NEW s, NEW t, t.trail = s.trail, t.trail_lim = s.trail_lim
    PROVE  \A lits : AssumptionsFirst(s, lits) => AssumptionsFirst(t, lits)
BY DEF AssumptionsFirst

\* When a clause is watched at l and m, a literal l that joins the trail on the
\* level of the opposite of m blocks its watchers.
LEMMA WatchedJoins ==
    ASSUME NEW b, Consistent(b), NEW d, Consistent(d), NEW t, Consistent(t),
           Visited(b, Len(b.trail)), d.trail = b.trail,
           NEW l \in Lits, NEW m \in Lits, IsUndef(b, l), LevelOf(b, m) = DecisionLevel(b),
           WatchersAdded(b.watches, d.watches, l, m),
           WatchersAdded(b.watchesBin, d.watchesBin, l, m),
           Len(t.trail) = Len(b.trail) + 1,
           \A i \in DOMAIN b.trail : t.trail[i] = b.trail[i],
           t.trail[Len(b.trail) + 1].lit = l,
           t.trail[Len(b.trail) + 1].level = DecisionLevel(b),
           t.watches = d.watches, t.watchesBin = d.watchesBin
    PROVE  Visited(t, Len(b.trail))
<1> DEFINE n == Len(b.trail)
<1>1. /\ b \in Solvers /\ TrailOK(b) /\ t \in Solvers
      /\ n \in Nat /\ DOMAIN b.trail = 1..n /\ DOMAIN t.trail = 1..(n + 1)
      /\ \A i \in DOMAIN b.trail : b.trail[i].lit \in Lits /\ b.trail[i].level \in Nat
      /\ \A i \in DOMAIN b.trail : b.trail[i].level <= DecisionLevel(b)
      /\ DecisionLevel(b) \in Nat
    BY SolverTypes DEF Consistent, TrailOK
<1>2. /\ \A i \in DOMAIN b.trail : i \in DOMAIN t.trail /\ t.trail[i] = b.trail[i] /\ i <= n
      /\ n + 1 \in DOMAIN t.trail /\ \A i \in DOMAIN t.trail : i <= n => i \in DOMAIN b.trail
    BY <1>1
<1> HIDE DEF n
<1>3. ASSUME NEW i \in DOMAIN b.trail, NEW w, Blocked(b, i, w)
      PROVE  Blocked(t, i, w)
    BY <1>2, <1>3 DEF Blocked
<1>4. ASSUME NEW i \in DOMAIN b.trail, NEW w, w.blocker = l, b.trail[i].lit = Neg(m)
      PROVE  Blocked(t, i, w)
  <2>1. b.trail[i].level = DecisionLevel(b)
    BY <1>1, <1>4, OnTrail
  <2> QED
    BY <1>1, <1>2, <1>4, <2>1 DEF Blocked, n
<1>5. ASSUME NEW i \in DOMAIN b.trail
      PROVE  b.trail[i].lit # Neg(l)
    BY DEF IsUndef, IsFalse, IsTrue
<1>6. ASSUME NEW i \in DOMAIN t.trail, i <= n
      PROVE  /\ \A k \in DOMAIN t.watches[t.trail[i].lit] : Blocked(t, i, t.watches[t.trail[i].lit][k])
             /\ \A k \in DOMAIN t.watchesBin[t.trail[i].lit] : Blocked(t, i, t.watchesBin[t.trail[i].lit][k])
  <2>1. PICK p \in Lits : p = t.trail[i].lit /\ p = b.trail[i].lit /\ i \in DOMAIN b.trail
    BY <1>1, <1>2, <1>6
  <2>2. ASSUME NEW k \in DOMAIN d.watches[p]
        PROVE  Blocked(t, i, d.watches[p][k])
    <3>1. CASE k \in DOMAIN b.watches[p] /\ d.watches[p][k] = b.watches[p][k]
      <4>1. Blocked(b, i, b.watches[p][k])
        BY <1>2, <2>1, <3>1 DEF Visited, n
      <4> QED
        BY <1>3, <2>1, <3>1, <4>1
    <3>2. CASE p = Neg(m) /\ d.watches[p][k].blocker = l
      BY <1>4, <2>1, <3>2
    <3> QED
      BY <1>5, <2>1, <3>1, <3>2 DEF WatchersAdded
  <2>3. ASSUME NEW k \in DOMAIN d.watchesBin[p]
        PROVE  Blocked(t, i, d.watchesBin[p][k])
    <3>1. CASE k \in DOMAIN b.watchesBin[p] /\ d.watchesBin[p][k] = b.watchesBin[p][k]
      <4>1. Blocked(b, i, b.watchesBin[p][k])
        BY <1>2, <2>1, <3>1 DEF Visited, n
      <4> QED
        BY <1>3, <2>1, <3>1, <4>1
    <3>2. CASE p = Neg(m) /\ d.watchesBin[p][k].blocker = l
      BY <1>4, <2>1, <3>2
    <3> QED
      BY <1>5, <2>1, <3>1, <3>2 DEF WatchersAdded
  <2> QED
    BY <2>1, <2>2, <2>3
<1> QED
    BY <1>6 DEF Visited, n

\* The clause c has joined the learnt ones.
LearntJoins(b, t, c) ==
    /\ b \in Solvers /\ t.nVars = b.nVars /\ Fixed(t) = Fixed(b)
    /\ Len(t.ca) = Len(b.ca) + 1 /\ DOMAIN t.ca = 1..Len(t.ca)
    /\ t.ca[Len(t.ca)].lits = c /\ t.ca[Len(t.ca)].list # "clauses"
    /\ AttachedIn(t) = AttachedIn(b) \cup {Len(t.ca)}
    /\ \A cr \in DOMAIN b.ca : t.ca[cr] = b.ca[cr]

\* That keeps the meaning when the clause follows from the formula.
LEMMA NewMeans ==
    ASSUME NEW b, NEW t, NEW c, LearntJoins(b, t, c), NEW F
    PROVE  /\ Sound(b, F) /\ (\A A \in Oracle!ModelsOf(b.nVars, F) : ToSet(c) \cap A # {})
                  => Sound(t, F)
           /\ Complete(b, F) => Complete(t, F)
<1>1. Len(b.ca) \in Nat /\ DOMAIN b.ca = 1..Len(b.ca)
    BY SolverTypes DEF LearntJoins
<1>2. AttachedIn(b) \subseteq DOMAIN b.ca
    BY DEF AttachedIn
<1>3. ASSUME Sound(b, F), \A A \in Oracle!ModelsOf(b.nVars, F) : ToSet(c) \cap A # {}
      PROVE  Sound(t, F)
    BY <1>2, <1>3 DEF LearntJoins, Sound, Satisfies
<1>4. ListOf(b, "clauses") = ListOf(t, "clauses")
  <2>1. \A cr \in DOMAIN t.ca : cr # Len(t.ca) => cr \in DOMAIN b.ca
    BY <1>1 DEF LearntJoins
  <2>2. \A cr \in DOMAIN b.ca : cr \in DOMAIN t.ca
    BY <1>1 DEF LearntJoins
  <2> QED
    BY <2>1, <2>2 DEF LearntJoins, ListOf
<1>5. ASSUME Complete(b, F)
      PROVE  Complete(t, F)
  <2>1. \A cr \in ListOf(b, "clauses") : t.ca[cr] = b.ca[cr]
    BY DEF LearntJoins, ListOf
  <2> QED
    BY <1>4, <1>5, <2>1 DEF LearntJoins, Complete, Satisfies
<1> QED
    BY <1>3, <1>5

\* A longer one is attached and implies its first literal.
LEMMA LearnLonger ==
    ASSUME NEW s, Consistent(s), WatchersOK(s), WatchedOK(s), DecisionLevel(s) > 0,
           Visited(s, LastLim(s)), NEW u, Reshaped(s, u), NEW c, Learnt(s, c), Len(c) >= 2,
           \A k \in 2..Len(c) : LevelOf(s, c[k]) <= LevelOf(s, c[2]),
           NEW level, level = LevelOf(s, c[2]),
           NEW b, b = cancelUntil(u, level),
           NEW list \in {"learnts", "permanentLearnts"}, NEW lbd \in Nat,
           NEW d, d = NewClause(b, c, list, lbd)
    PROVE  Learned(s, uncheckedEnqueue(d, c[1], Len(d.ca)))
<1> DEFINE t == uncheckedEnqueue(d, c[1], Len(d.ca))
<1>1. /\ DecisionLevel(s) \in Nat /\ s \in Solvers /\ TrailOK(s)
      /\ c \in Seq(Lits) /\ Len(c) \in Nat /\ DOMAIN c = 1..Len(c) /\ Distinct(c)
      /\ \A i \in DOMAIN s.trail : s.trail[i].level \in Nat /\ s.trail[i].lit \in Lits
    BY SolverTypes DEF Consistent, Learnt
<1>2. ASSUME NEW k \in 2..Len(c)
      PROVE  \E i \in DOMAIN s.trail :
                 /\ LevelOf(s, c[k]) = s.trail[i].level /\ s.trail[i].lit = Neg(c[k])
                 /\ s.trail[i].level \in 1 .. DecisionLevel(s) - 1
                 /\ Position(s, c[k]) = i
                 /\ Var(c[k]) <= s.nVars
  <2>1. PICK i : FalseAt(s, c[k], i) /\ s.trail[i].level \in 1 .. DecisionLevel(s) - 1
    BY DEF Learnt
  <2>2. c[k] \in Lits
    BY <1>1
  <2>3. LevelOf(s, c[k]) = s.trail[i].level /\ Position(s, c[k]) = i
    BY <1>1, <2>1, <2>2, OnTrail DEF FalseAt
  <2>4. Var(c[k]) = Var(s.trail[i].lit)
    BY <1>1, <2>1, <2>2, LitFacts DEF FalseAt
  <2> QED
    BY <1>1, <2>1, <2>3, <2>4 DEF FalseAt, TrailOK
<1>3. 2 \in 2..Len(c)
    BY <1>1
<1>4. PICK x \in DOMAIN s.trail :
          /\ level = s.trail[x].level /\ s.trail[x].lit = Neg(c[2])
          /\ level \in 1 .. DecisionLevel(s) - 1 /\ Position(s, c[2]) = x
    BY <1>2, <1>3
<1>5. level \in Nat /\ level < DecisionLevel(s) /\ level > 0
    BY <1>1, <1>4
<1>6. /\ Consistent(b) /\ DecisionLevel(b) = level
      /\ b.qhead = Len(b.trail) /\ b.nVars = s.nVars /\ b.ok = s.ok
      /\ WatchersOK(b) /\ WatchedOK(b) /\ Visited(b, b.qhead)
      /\ \A F : Sound(s, F) => Sound(b, F)
      /\ \A F : Complete(s, F) => Complete(b, F)
      /\ \A lits : AssumptionsFirst(s, lits) => AssumptionsFirst(b, lits)
      /\ IsUndef(b, c[1]) /\ c[1] \in Lits /\ Var(c[1]) <= s.nVars
      /\ \A k \in 2..Len(c) : LevelOf(s, c[k]) <= level => IsFalse(b, c[k])
      /\ \A i \in DOMAIN b.trail : i \in DOMAIN s.trail /\ b.trail[i] = s.trail[i]
      /\ \A i \in DOMAIN s.trail : s.trail[i].level <= level => i \in DOMAIN b.trail
    BY ONLY <1>5, Consistent(s), Reshaped(s, u), Learnt(s, c), b = cancelUntil(u, level),
            WatchersOK(s), WatchedOK(s), Visited(s, LastLim(s)), BackFacts
<1>7. /\ b \in Solvers /\ TrailOK(b) /\ Len(b.trail) \in Nat /\ DOMAIN b.trail = 1..Len(b.trail)
      /\ Len(b.ca) \in Nat
    BY <1>6, SolverTypes DEF Consistent
<1>8. Proper(b, c)
  <2>1. ASSUME NEW k \in DOMAIN c
        PROVE  Var(c[k]) <= b.nVars
    <3>1. CASE k = 1
      BY <1>6, <3>1
    <3>2. CASE k # 1
      <4>1. k \in 2..Len(c)
        BY <1>1, <3>2
      <4> QED
        BY <1>2, <1>6, <4>1
    <3> QED
      BY <3>1, <3>2
  <2> QED
    BY <1>1, <2>1 DEF Proper
<1>9. PICK n : n = Len(b.ca) + 1
    OBVIOUS
<1>10. /\ Consistent(d) /\ WatchersOK(d) /\ WatchedOK(d)
       /\ d.trail = b.trail /\ d.trail_lim = b.trail_lim /\ d.qhead = b.qhead
       /\ d.nVars = b.nVars /\ d.ok = b.ok /\ DecisionLevel(d) = DecisionLevel(b)
       /\ AttachedIn(d) = AttachedIn(b) \cup {n} /\ n \notin AttachedIn(b)
       /\ Len(d.ca) = n /\ d.ca[n].lits = c /\ d.ca[n].list = list
       /\ \A cr \in DOMAIN b.ca : d.ca[cr] = b.ca[cr]
       /\ WatchersAdded(b.watches, d.watches, c[1], c[2])
       /\ WatchersAdded(b.watchesBin, d.watchesBin, c[1], c[2])
  <2>1. list \in Lists /\ list # "freed"
    BY DEF Lists
  <2> QED
    BY ONLY <2>1, <1>6, <1>8, <1>9, lbd \in Nat, d = NewClause(b, c, list, lbd), AttachKeeps
<1>11. Implied(d, c[1], n)
  <2>1. IsUndef(d, c[1])
    BY <1>6, <1>10, SameTrail
  <2>2. ASSUME NEW m \in ToSet(c), m # c[1]
        PROVE  IsFalse(d, m)
    <3>1. PICK k \in DOMAIN c : m = c[k]
      BY DEF ToSet
    <3>2. k \in 2..Len(c)
      BY <1>1, <2>2, <3>1
    <3>3. IsFalse(b, c[k])
      BY <1>6, <3>2
    <3> QED
      BY <1>10, <3>1, <3>3, SameTrail
  <2>3. LastLim(d) < Len(d.trail)
    <3>1. x \in DOMAIN b.trail /\ b.trail[x].level = DecisionLevel(b)
      BY SMTT(30), <1>4, <1>5, <1>6
    <3>2. LastLim(b) \in Nat /\ LastLim(b) < x
      BY <1>7, <3>1, Levels
    <3>3. LastLim(d) = LastLim(b)
      BY <1>10 DEF LastLim, DecisionLevel
    <3> QED
      BY <1>7, <1>10, <3>1, <3>2, <3>3
  <2> QED
    BY <1>10, <2>1, <2>2, <2>3 DEF Implied
<1>12. /\ Consistent(t) /\ After(d, t)
       /\ t.ca = d.ca /\ t.watches = d.watches /\ t.watchesBin = d.watchesBin
       /\ t.qhead = d.qhead /\ Len(t.trail) = Len(d.trail) + 1
       /\ t.trail[Len(d.trail) + 1] = [lit |-> c[1], level |-> DecisionLevel(d), reason |-> n]
  <2>1. PICK l \in Lits : l = c[1]
    BY <1>6
  <2>2. t = uncheckedEnqueue(d, l, n) /\ Implied(d, l, n) /\ Consistent(d)
    BY <1>10, <1>11, <2>1
  <2> HIDE DEF t
  <2>3. /\ Consistent(t) /\ After(d, t)
        /\ t.ca = d.ca /\ t.watches = d.watches /\ t.watchesBin = d.watchesBin
        /\ t.qhead = d.qhead /\ Len(t.trail) = Len(d.trail) + 1
        /\ t.trail[Len(d.trail) + 1] = [lit |-> l, level |-> DecisionLevel(d), reason |-> n]
    BY ONLY <2>2, l \in Lits, ImpliedKeeps
  <2> QED
    BY <2>1, <2>3
<1> HIDE DEF t
<1>13. WatchersOK(t) /\ WatchedOK(t)
    BY <1>10, <1>12, SameClauses
<1>14. LevelOf(b, c[2]) = DecisionLevel(b) /\ c[2] \in Lits
  <2>1. x \in DOMAIN b.trail /\ b.trail[x] = s.trail[x] /\ c[2] \in Lits
    BY SMTT(30), <1>1, <1>3, <1>4, <1>5, <1>6
  <2> QED
    BY SMTT(30), <1>4, <1>6, <1>7, <2>1, OnTrail
<1>15. Visited(t, t.qhead)
  <2>1. /\ Visited(b, Len(b.trail)) /\ d.trail = b.trail
        /\ Len(t.trail) = Len(b.trail) + 1
        /\ \A i \in DOMAIN b.trail : t.trail[i] = b.trail[i]
        /\ t.trail[Len(b.trail) + 1].lit = c[1]
        /\ t.trail[Len(b.trail) + 1].level = DecisionLevel(b)
        /\ t.watches = d.watches /\ t.watchesBin = d.watchesBin
        /\ t.qhead = Len(b.trail)
    BY <1>6, <1>10, <1>12 DEF After
  <2>2. PICK l \in Lits, m \in Lits : l = c[1] /\ m = c[2]
    BY <1>6, <1>14
  <2>3. /\ Consistent(b) /\ Consistent(d) /\ Consistent(t)
        /\ IsUndef(b, l) /\ LevelOf(b, m) = DecisionLevel(b)
        /\ WatchersAdded(b.watches, d.watches, l, m)
        /\ WatchersAdded(b.watchesBin, d.watchesBin, l, m)
        /\ t.trail[Len(b.trail) + 1].lit = l
    BY <1>6, <1>10, <1>12, <1>14, <2>1, <2>2
  <2> QED
    BY ONLY <2>1, <2>3, l \in Lits, m \in Lits, WatchedJoins
<1>16. /\ \A F : Sound(s, F) => Sound(d, F)
       /\ \A F : Complete(s, F) => Complete(d, F)
  <2>1. Fixed(d) = Fixed(b)
    BY <1>10, SameTrail
  <2>2. DOMAIN d.ca = 1..Len(d.ca) /\ d.nVars = b.nVars
    BY <1>10, SolverTypes DEF Consistent
  <2>3. /\ d.ca[Len(d.ca)].lits = c /\ d.ca[Len(d.ca)].list # "clauses"
        /\ Len(d.ca) = Len(b.ca) + 1 /\ AttachedIn(d) = AttachedIn(b) \cup {Len(d.ca)}
        /\ \A cr \in DOMAIN b.ca : d.ca[cr] = b.ca[cr]
    BY <1>9, <1>10
  <2>4. ASSUME NEW F
        PROVE  /\ Sound(b, F) /\ (\A A \in Oracle!ModelsOf(b.nVars, F) : ToSet(c) \cap A # {})
                      => Sound(d, F)
               /\ Complete(b, F) => Complete(d, F)
    <3>1. LearntJoins(b, d, c)
      BY <1>7, <2>1, <2>2, <2>3 DEF LearntJoins
    <3> QED
      BY ONLY <3>1, NewMeans
  <2>5. ASSUME NEW F, Sound(s, F)
        PROVE  Sound(d, F)
    BY <1>6, <2>4, <2>5 DEF Learnt
  <2>6. ASSUME NEW F, Complete(s, F)
        PROVE  Complete(d, F)
    BY <1>6, <2>4, <2>6
  <2> QED
    BY <2>5, <2>6
<1>17. \A lits : AssumptionsFirst(s, lits) => AssumptionsFirst(d, lits)
    BY <1>6, <1>10, SameAssumptions
<1>18. /\ t.nVars = s.nVars /\ t.ok = s.ok
       /\ \A lits : AssumptionsFirst(s, lits) => AssumptionsFirst(t, lits)
       /\ \A F : Sound(s, F) => Sound(t, F)
       /\ \A F : Complete(s, F) => Complete(t, F)
    BY <1>6, <1>10, <1>12, <1>16, <1>17 DEF After
<1>20. Climbs(s, t)
  <2>1. PICK m \in Nat : m = Len(b.trail)
    BY <1>7
  <2>2. /\ DOMAIN b.trail = 1..m
        /\ \A i \in DOMAIN b.trail : t.trail[i] = b.trail[i]
        /\ t.trail[m + 1].level = level /\ DecisionLevel(t) = level
    BY SMTT(30), <1>6, <1>7, <1>10, <1>12, <2>1 DEF After, DecisionLevel
  <2>3. DOMAIN t.trail = 1..(m + 1)
    BY <1>10, <1>12, <2>1, SolverTypes DEF Consistent
  <2>4. \A i \in 1..m : i \in DOMAIN s.trail /\ t.trail[i].level = s.trail[i].level
    BY <1>6, <2>2
  <2>5. \A i \in DOMAIN s.trail : s.trail[i].level <= level => i \in 1..m
    BY <1>6, <2>2
  <2> QED
    BY ONLY m \in Nat, <1>5, <2>2, <2>3, <2>4, <2>5 DEF Climbs
<1>19. Learned(s, t)
    BY ONLY <1>12, <1>13, <1>15, <1>18, <1>20 DEF Learned
<1> QED
    BY <1>19 DEF t

LEMMA LearnKeeps ==
    ASSUME NEW s, Consistent(s), WatchersOK(s), WatchedOK(s), DecisionLevel(s) > 0,
           Visited(s, LastLim(s)), NEW r, Analyzed(s, r)
    PROVE  Learned(s, Learn(r.s, r.learnt))
<1>1. PICK u, c : u = r.s /\ c = r.learnt
    OBVIOUS
<1>2. /\ Reshaped(s, u) /\ Learnt(s, c)
      /\ \A k \in 2..Len(c) : LevelOf(s, c[k]) <= LevelOf(s, c[2])
    BY <1>1 DEF Analyzed
<1>3. c \in Seq(Lits) /\ Len(c) \in Nat /\ Len(c) >= 1
    BY <1>2 DEF Learnt
<1>4. CASE Len(c) = 1
  <2>1. Learn(u, c) = uncheckedEnqueue(cancelUntil(u, 0), c[1], CRef_Undef)
    BY <1>4 DEF Learn
  <2>2. Learned(s, uncheckedEnqueue(cancelUntil(u, 0), c[1], CRef_Undef))
    BY <1>2, <1>4, LearnUnit
  <2> QED
    BY <1>1, <2>1, <2>2
<1>5. CASE Len(c) # 1
  <2>1. Len(c) >= 2
    <3>1. PICK n \in Nat : n = Len(c)
      BY <1>3
    <3>2. n >= 1 /\ n # 1
      BY <1>3, <1>5, <3>1
    <3> QED
      BY <3>1, <3>2
  <2>2. PICK nblevels \in Nat : nblevels = computeLBD(u, c)
    BY <1>3, LBDType
  <2>3. LevelOf(u, c[2]) = LevelOf(s, c[2])
    BY <1>2, SameTrail DEF Reshaped
  <2>4. PICK level : level = LevelOf(s, c[2])
    OBVIOUS
  <2>5. PICK b : b = cancelUntil(u, level)
    OBVIOUS
  <2>6. \E list \in {"learnts", "permanentLearnts"}, lbd \in Nat :
            Learn(u, c) = uncheckedEnqueue(NewClause(b, c, list, lbd), c[1],
                                           Len(NewClause(b, c, list, lbd).ca))
    <3>1. CASE u.coLBDBound > 0 /\ nblevels <= u.coLBDBound
      BY <1>5, <2>2, <2>3, <2>4, <2>5, <3>1 DEF Learn
    <3>2. CASE ~(u.coLBDBound > 0 /\ nblevels <= u.coLBDBound)
      BY <1>5, <2>2, <2>3, <2>4, <2>5, <3>2 DEF Learn
    <3> QED
      BY <3>1, <3>2
  <2>7. PICK list \in {"learnts", "permanentLearnts"}, lbd \in Nat :
            Learn(u, c) = uncheckedEnqueue(NewClause(b, c, list, lbd), c[1],
                                           Len(NewClause(b, c, list, lbd).ca))
    BY <2>6
  <2>8. PICK d : d = NewClause(b, c, list, lbd)
    OBVIOUS
  <2>9. Learned(s, uncheckedEnqueue(d, c[1], Len(d.ca)))
    BY ONLY <1>2, <2>1, <2>4, <2>5, <2>8, Consistent(s), WatchersOK(s), WatchedOK(s),
            DecisionLevel(s) > 0, Visited(s, LastLim(s)),
            list \in {"learnts", "permanentLearnts"}, lbd \in Nat, LearnLonger
  <2> QED
    BY <1>1, <2>7, <2>8, <2>9
<1> QED
    BY <1>4, <1>5

-----------------------------------------------------------------------------
(***************************************************************************)
(* Clauses that are taken away: no reason is, and no clause that is still  *)
(* needed to say what the formula says.                                    *)
(***************************************************************************)

\* A list of watchers without those of clause cr.
Filtered(ws, cr) == At(ws, {i \in DOMAIN ws : ws[i].cref # cr})

LEMMA FilteredFacts ==
    ASSUME NEW ws \in Seq(Watchers), NEW cr, NEW f, f = Filtered(ws, cr)
    PROVE  /\ f \in Seq(Watchers)
           /\ \A k \in DOMAIN f : f[k].cref # cr /\ \E i \in DOMAIN ws : f[k] = ws[i]
           /\ \A i \in DOMAIN ws : ws[i].cref # cr => \E k \in DOMAIN f : f[k] = ws[i]
           /\ (\A i, j \in DOMAIN ws : ws[i].cref = ws[j].cref => i = j) =>
                  \A k, m \in DOMAIN f : f[k].cref = f[m].cref => k = m
<1> DEFINE T == {i \in DOMAIN ws : ws[i].cref # cr}
           n == Cardinality(T)
<1>1. f = At(ws, T) /\ T \in SUBSET DOMAIN ws
    BY DEF Filtered
<1>2. \A i \in T : ws[i].cref # cr /\ i \in DOMAIN ws
    OBVIOUS
<1>3. \A i \in DOMAIN ws : ws[i].cref # cr => i \in T
    OBVIOUS
<1> HIDE DEF T
<1>4. /\ f \in Seq(Watchers) /\ n \in Nat /\ DOMAIN f = 1..n
      /\ \A k \in 1..n : Nth(T, k) \in T /\ f[k] = ws[Nth(T, k)]
      /\ \A i \in T : \E k \in 1..n : f[k] = ws[i]
      /\ \A k, l \in 1..n : k < l => Nth(T, k) < Nth(T, l)
  <2> HIDE DEF n
  <2>1. At(ws, T) \in Seq(Watchers) /\ n \in Nat /\ DOMAIN At(ws, T) = 1..n
    BY ONLY <1>1, ws \in Seq(Watchers), AtPlaces DEF n
  <2>2. \A k \in 1..n : Nth(T, k) \in T /\ At(ws, T)[k] = ws[Nth(T, k)]
    BY ONLY <1>1, ws \in Seq(Watchers), AtPlaces DEF n
  <2>3. \A i \in T : \E k \in 1..n : At(ws, T)[k] = ws[i]
    BY ONLY <1>1, ws \in Seq(Watchers), AtPlaces DEF n
  <2>4. \A k, l \in 1..n : k < l => Nth(T, k) < Nth(T, l)
    BY ONLY <1>1, ws \in Seq(Watchers), AtPlaces DEF n
  <2> QED
    BY ONLY <1>1, <2>1, <2>2, <2>3, <2>4
<1> HIDE DEF n
<1>5. ASSUME \A i, j \in DOMAIN ws : ws[i].cref = ws[j].cref => i = j,
             NEW k \in 1..n, NEW m \in 1..n, f[k].cref = f[m].cref
      PROVE  k = m
  <2>1. /\ Nth(T, k) \in T /\ f[k] = ws[Nth(T, k)]
        /\ Nth(T, m) \in T /\ f[m] = ws[Nth(T, m)]
    BY <1>4
  <2>2. PICK x \in DOMAIN ws, y \in DOMAIN ws : x = Nth(T, k) /\ y = Nth(T, m)
    BY <1>2, <2>1
  <2>3. x = y
    BY <1>5, <2>1, <2>2
  <2>4. x \in Nat
    BY <2>2
  <2>5. ~(Nth(T, k) < Nth(T, m)) /\ ~(Nth(T, m) < Nth(T, k))
    BY <2>2, <2>3, <2>4
  <2>6. ~(k < m) /\ ~(m < k)
    BY <1>4, <2>5
  <2> QED
    BY <1>4, <2>6
<1>6. ASSUME NEW k \in DOMAIN f
      PROVE  f[k].cref # cr /\ \E i \in DOMAIN ws : f[k] = ws[i]
  <2>1. PICK i \in T : f[k] = ws[i]
    BY <1>4
  <2> QED
    BY <1>2, <2>1
<1>7. \A i \in DOMAIN ws : ws[i].cref # cr => \E k \in DOMAIN f : f[k] = ws[i]
    BY <1>3, <1>4
<1> QED
    BY <1>4, <1>5, <1>6, <1>7

\* Two lists lose the watchers of clause cr.
Lost(f, g, a, b, cr) ==
    /\ g[a] = Filtered(f[a], cr) /\ g[b] = Filtered(f[b], cr)
    /\ \A q \in Lits : q # a /\ q # b => g[q] = f[q]

LosesTwo(f, a, b, cr) ==
    [q \in Lits |-> IF q = b THEN Filtered(f[b], cr)
                    ELSE IF q = a THEN Filtered(f[a], cr) ELSE f[q]]

LEMMA LoseTwo ==
    ASSUME NEW f \in [Lits -> Seq(Watchers)], NEW a \in Lits, NEW b \in Lits, a # b, NEW cr,
           NEW g, g = LosesTwo(f, a, b, cr)
    PROVE  g \in [Lits -> Seq(Watchers)] /\ Lost(f, g, a, b, cr)
<1>1. Filtered(f[a], cr) \in Seq(Watchers) /\ Filtered(f[b], cr) \in Seq(Watchers)
    BY FilteredFacts
<1> QED
    BY <1>1 DEF Lost, LosesTwo

\* The reason that removing clause cr takes from the trail.
Cleared(s, cr) ==
    [i \in DOMAIN s.trail |->
        IF locked(s, cr) /\ Var(s.trail[i].lit) = Var(s.ca[cr].lits[1])
        THEN [s.trail[i] EXCEPT !.reason = CRef_Undef]
        ELSE s.trail[i]]

LEMMA ClearedFacts ==
    ASSUME NEW s \in Solvers, NEW cr, NEW x, x = Cleared(s, cr)
    PROVE  /\ x \in Seq(Entries) /\ Len(x) = Len(s.trail) /\ DOMAIN x = DOMAIN s.trail
           /\ \A i \in DOMAIN s.trail : x[i].lit = s.trail[i].lit /\ x[i].level = s.trail[i].level
           /\ ~locked(s, cr) => x = s.trail
<1>1. /\ s.trail \in Seq(Entries) /\ DOMAIN s.trail = 1..Len(s.trail) /\ Len(s.trail) \in Nat
      /\ \A i \in DOMAIN s.trail : s.trail[i] \in Entries
    BY SolverTypes
<1>2. ASSUME NEW i \in DOMAIN s.trail
      PROVE  x[i] \in Entries /\ x[i].lit = s.trail[i].lit /\ x[i].level = s.trail[i].level
    BY <1>1 DEF Cleared, Entries, CRef_Undef
<1>3. DOMAIN x = DOMAIN s.trail /\ x = [i \in DOMAIN s.trail |-> x[i]]
    BY DEF Cleared
<1>4. x \in Seq(Entries) /\ Len(x) = Len(s.trail)
  <2>1. PICK n \in Nat : n = Len(s.trail)
    BY <1>1
  <2>2. x \in [1..n -> Entries]
    BY <1>1, <1>2, <1>3, <2>1
  <2> QED
    BY <2>1, <2>2
<1>5. ASSUME ~locked(s, cr)
      PROVE  x = s.trail
  <2>1. x = [i \in DOMAIN s.trail |-> s.trail[i]]
    BY <1>5 DEF Cleared
  <2> QED
    BY <1>1, <2>1
<1> QED
    BY <1>2, <1>3, <1>4, <1>5

\* What removing clause cr changes.
RemovedFields(s, t, cr) ==
    /\ t \in Solvers
    /\ t.trail = Cleared(s, cr) /\ t.trail_lim = s.trail_lim /\ t.qhead = s.qhead
    /\ t.nVars = s.nVars /\ t.ok = s.ok /\ t.order_heap = s.order_heap
    /\ t.simpDB_assigns = s.simpDB_assigns /\ t.coLBDBound = s.coLBDBound
    /\ t.ca = [s.ca EXCEPT ![cr].list = "freed"]
    /\ LET c == s.ca[cr].lits
       IN  /\ Len(c) = 2 => /\ t.watches = s.watches
                            /\ Lost(s.watchesBin, t.watchesBin, Neg(c[1]), Neg(c[2]), cr)
           /\ Len(c) # 2 => /\ t.watchesBin = s.watchesBin
                            /\ Lost(s.watches, t.watches, Neg(c[1]), Neg(c[2]), cr)

LEMMA RemoveFields ==
    ASSUME NEW s \in Solvers, NEW cr \in DOMAIN s.ca, Len(s.ca[cr].lits) >= 2,
           Distinct(s.ca[cr].lits), NEW t, t = removeClause(s, cr)
    PROVE  RemovedFields(s, t, cr)
<1> DEFINE c == s.ca[cr].lits
           a == Neg(c[1])
           b == Neg(c[2])
           d == detachClause(s, cr)
           x == Cleared(s, cr)
           y == [s.ca EXCEPT ![cr].list = "freed"]
<1>1. /\ c \in Seq(Lits) /\ c[1] \in Lits /\ c[2] \in Lits /\ 1 \in DOMAIN c /\ 2 \in DOMAIN c
      /\ Var(c[1]) # Var(c[2])
    BY SolverTypes DEF Distinct
<1>2. a \in Lits /\ b \in Lits /\ a # b
    BY <1>1, LitFacts
<1>3. /\ s.watches \in [Lits -> Seq(Watchers)] /\ s.watchesBin \in [Lits -> Seq(Watchers)]
    BY SolverTypes
<1>4. y \in Seq(Clauses)
  <2>1. s.ca \in Seq(Clauses) /\ s.ca[cr] \in Clauses
    BY SolverTypes
  <2>2. [s.ca[cr] EXCEPT !.list = "freed"] \in Clauses
    BY <2>1 DEF Clauses, Lists
  <2>3. PICK e \in Clauses : e = [s.ca[cr] EXCEPT !.list = "freed"]
    BY <2>2
  <2>4. y = [s.ca EXCEPT ![cr] = e]
    BY <2>1, <2>3
  <2> QED
    BY <2>1, <2>3, <2>4
<1>5. x \in Seq(Entries)
    BY ClearedFacts
<1>6. PICK w, v : /\ w \in [Lits -> Seq(Watchers)] /\ v \in [Lits -> Seq(Watchers)]
                  /\ d = [s EXCEPT !.watches = w, !.watchesBin = v]
                  /\ Len(c) = 2 => w = s.watches /\ Lost(s.watchesBin, v, a, b, cr)
                  /\ Len(c) # 2 => v = s.watchesBin /\ Lost(s.watches, w, a, b, cr)
  <2>1. CASE Len(c) = 2
    <3> DEFINE g == LosesTwo(s.watchesBin, a, b, cr)
    <3>1. d = [s EXCEPT !.watchesBin[a] = Filtered(@, cr), !.watchesBin[b] = Filtered(@, cr)]
      BY <2>1 DEF detachClause, Where, Filtered
    <3>2. d = [s EXCEPT !.watchesBin = g]
      BY <1>2, <1>3, <3>1 DEF LosesTwo
    <3>3. PICK h : h = g
      OBVIOUS
    <3>4. d = [s EXCEPT !.watches = s.watches, !.watchesBin = h]
      BY <3>2, <3>3 DEF Solvers
    <3> HIDE DEF a, b
    <3>6. h = LosesTwo(s.watchesBin, a, b, cr)
      BY <3>3
    <3>5. h \in [Lits -> Seq(Watchers)] /\ Lost(s.watchesBin, h, a, b, cr)
      BY ONLY <1>2, <1>3, <3>6, LoseTwo
    <3> QED
      BY <1>3, <2>1, <3>4, <3>5
  <2>2. CASE Len(c) # 2
    <3> DEFINE g == LosesTwo(s.watches, a, b, cr)
    <3>1. d = [s EXCEPT !.watches[a] = Filtered(@, cr), !.watches[b] = Filtered(@, cr)]
      BY <2>2 DEF detachClause, Where, Filtered
    <3>2. d = [s EXCEPT !.watches = g]
      BY <1>2, <1>3, <3>1 DEF LosesTwo
    <3>3. PICK h : h = g
      OBVIOUS
    <3>4. d = [s EXCEPT !.watches = h, !.watchesBin = s.watchesBin]
      BY <3>2, <3>3 DEF Solvers
    <3> HIDE DEF a, b
    <3>6. h = LosesTwo(s.watches, a, b, cr)
      BY <3>3
    <3>5. h \in [Lits -> Seq(Watchers)] /\ Lost(s.watches, h, a, b, cr)
      BY ONLY <1>2, <1>3, <3>6, LoseTwo
    <3> QED
      BY <1>3, <2>2, <3>4, <3>5
  <2> QED
    BY <2>1, <2>2
<1> DEFINE r == [d EXCEPT !.ca[cr].list = "freed", !.trail = x]
<1>7. t = r
    BY DEF removeClause, Cleared
<1> HIDE DEF d, x, a, b
<1>8. r = [s EXCEPT !.watches = w, !.watchesBin = v, !.ca = y, !.trail = x]
  <2>1. d.ca = s.ca /\ d \in Solvers
    BY <1>6 DEF Solvers
  <2>2. r = [d EXCEPT !.ca = y, !.trail = x]
    BY <2>1 DEF Solvers
  <2> HIDE DEF y, r
  <2> QED
    BY <1>6, <2>2 DEF Solvers
<1> HIDE DEF y, r
<1>9. /\ t \in Solvers
      /\ t.trail = x /\ t.trail_lim = s.trail_lim /\ t.qhead = s.qhead
      /\ t.nVars = s.nVars /\ t.ok = s.ok /\ t.order_heap = s.order_heap
      /\ t.simpDB_assigns = s.simpDB_assigns /\ t.coLBDBound = s.coLBDBound
      /\ t.ca = y /\ t.watches = w /\ t.watchesBin = v
    BY <1>4, <1>5, <1>6, <1>7, <1>8 DEF Solvers
<1> QED
    BY <1>6, <1>9 DEF RemovedFields, x, y, a, b

\* Clauses have gone, or have been moved; what there is means the same.
Slimmer(s, t) ==
    /\ Consistent(t) /\ WatchersOK(t) /\ WatchedOK(t)
    /\ t.nVars = s.nVars /\ t.ok = s.ok /\ t.trail_lim = s.trail_lim /\ t.qhead = s.qhead
    /\ DOMAIN t.trail = DOMAIN s.trail
    /\ \A i \in DOMAIN s.trail :
           t.trail[i].lit = s.trail[i].lit /\ t.trail[i].level = s.trail[i].level
    /\ \A n : Visited(s, n) => Visited(t, n)
    /\ \A lits : AssumptionsFirst(s, lits) => AssumptionsFirst(t, lits)
    /\ \A F : Sound(s, F) => Sound(t, F)
    /\ \A F : Complete(s, F) => Complete(t, F)

\* A clause that may be removed: no literal above level 0 has it as its reason,
\* and a clause of the formula is satisfied for good.
MayGo(s, cr) ==
    /\ cr \in AttachedIn(s)
    /\ DecisionLevel(s) = 0 \/ (Len(s.ca[cr].lits) > 2 /\ ~locked(s, cr))
    /\ s.ca[cr].list = "clauses" => \E l \in ToSet(s.ca[cr].lits) : l \in Fixed(s)

SameEntries(s, t) ==
    /\ DOMAIN t.trail = DOMAIN s.trail /\ Len(t.trail) = Len(s.trail)
    /\ \A i \in DOMAIN s.trail :
           t.trail[i].lit = s.trail[i].lit /\ t.trail[i].level = s.trail[i].level

\* What does not depend on reasons.
LEMMA EntriesSame ==
    ASSUME NEW s, NEW t, SameEntries(s, t), t.trail_lim = s.trail_lim, t.qhead = s.qhead,
           t.nVars = s.nVars, t.order_heap = s.order_heap
    PROVE  /\ \A l : /\ IsTrue(t, l) <=> IsTrue(s, l)
                     /\ IsFalse(t, l) <=> IsFalse(s, l)
                     /\ IsUndef(t, l) <=> IsUndef(s, l)
           /\ Fixed(t) = Fixed(s)
           /\ TrailOK(s) => TrailOK(t)
           /\ HeapOK(s) => HeapOK(t)
           /\ DecisionLevel(t) = DecisionLevel(s)
<1>1. \A l : IsTrue(t, l) <=> IsTrue(s, l)
    BY DEF SameEntries, IsTrue
<1>2. \A l : (IsFalse(t, l) <=> IsFalse(s, l)) /\ (IsUndef(t, l) <=> IsUndef(s, l))
    BY <1>1 DEF IsFalse, IsUndef
<1>3. Fixed(t) = Fixed(s)
    BY DEF SameEntries, Fixed
<1>4. DecisionLevel(t) = DecisionLevel(s)
    BY DEF DecisionLevel
<1>5. TrailOK(s) => TrailOK(t)
    BY <1>4 DEF SameEntries, TrailOK
<1>6. HeapOK(s) => HeapOK(t)
    BY <1>2 DEF HeapOK
<1> QED
    BY <1>1, <1>2, <1>3, <1>4, <1>5, <1>6

\* The watchers of a clause that is removed are those that are filtered out.
LEMMA WatchersGo ==
    ASSUME NEW s, Consistent(s), WatchersOK(s), WatchedOK(s), NEW cr \in AttachedIn(s),
           NEW t, RemovedFields(s, t, cr),
           AttachedIn(t) = AttachedIn(s) \ {cr},
           \A o \in DOMAIN s.ca : t.ca[o].lits = s.ca[o].lits
    PROVE  /\ WatchersOK(t) /\ WatchedOK(t)
           /\ \A q \in Lits : \A k \in DOMAIN t.watches[q] :
                  \E i \in DOMAIN s.watches[q] : t.watches[q][k] = s.watches[q][i]
           /\ \A q \in Lits : \A k \in DOMAIN t.watchesBin[q] :
                  \E i \in DOMAIN s.watchesBin[q] : t.watchesBin[q][k] = s.watchesBin[q][i]
<1> DEFINE c == s.ca[cr].lits
           a == Neg(c[1])
           b == Neg(c[2])
<1>1. /\ s \in Solvers /\ t \in Solvers /\ cr \in DOMAIN s.ca
      /\ s.watches \in [Lits -> Seq(Watchers)] /\ s.watchesBin \in [Lits -> Seq(Watchers)]
      /\ \A o \in AttachedIn(s) : o \in DOMAIN s.ca
    BY SolverTypes DEF Consistent, RemovedFields, AttachedIn
<1>2. /\ c \in Seq(Lits) /\ Len(c) >= 2 /\ c[1] \in Lits /\ c[2] \in Lits
      /\ a \in Lits /\ b \in Lits
  <2>1. c \in Seq(Lits) /\ Len(c) >= 2
    BY <1>1, SolverTypes DEF Consistent, ClausesOK
  <2>2. c[1] \in Lits /\ c[2] \in Lits
    BY <2>1
  <2> QED
    BY <2>1, <2>2, LitFacts
<1>3. ASSUME NEW q \in Lits
      PROVE  \/ t.watches[q] = s.watches[q] /\ (Len(c) # 2 => q # a /\ q # b)
             \/ t.watches[q] = Filtered(s.watches[q], cr)
  <2>1. CASE Len(c) = 2
    BY <2>1 DEF RemovedFields
  <2>2. CASE Len(c) # 2
    BY <2>2 DEF RemovedFields, Lost
  <2> QED
    BY <2>1, <2>2
<1>4. ASSUME NEW q \in Lits
      PROVE  \/ t.watchesBin[q] = s.watchesBin[q] /\ (Len(c) = 2 => q # a /\ q # b)
             \/ t.watchesBin[q] = Filtered(s.watchesBin[q], cr)
  <2>1. CASE Len(c) = 2
    BY <2>1 DEF RemovedFields, Lost
  <2>2. CASE Len(c) # 2
    BY <2>2 DEF RemovedFields
  <2> QED
    BY <2>1, <2>2
<1>5. ASSUME NEW q \in Lits, NEW i \in DOMAIN s.watches[q], s.watches[q][i].cref = cr
      PROVE  Len(c) # 2 /\ (q = a \/ q = b)
  <2>1. Watches(s, q, s.watches[q][i])
    BY DEF WatchersOK
  <2>2. Len(c) > 2 /\ \E k \in 1..2 : c[k] = Neg(q)
    BY <1>5, <2>1 DEF Watches
  <2>3. c[1] = Neg(q) \/ c[2] = Neg(q)
    BY <2>2
  <2>4. a = q \/ b = q
    BY <2>3, LitFacts
  <2>5. PICK n \in Nat : n = Len(c)
    BY <1>2
  <2>6. Len(c) # 2
    <3>1. n > 2
      BY <2>2, <2>5
    <3>2. n # 2
      BY <3>1
    <3> QED
      BY <2>5, <3>2
  <2> QED
    BY <2>4, <2>6
<1>6. ASSUME NEW q \in Lits, NEW i \in DOMAIN s.watchesBin[q], s.watchesBin[q][i].cref = cr
      PROVE  Len(c) = 2 /\ (q = a \/ q = b)
  <2>1. WatchesBinary(s, q, s.watchesBin[q][i])
    BY DEF WatchersOK
  <2>0. s.watchesBin[q] \in Seq(Watchers)
    BY <1>1
  <2>7. s.watchesBin[q][i] \in Watchers
    BY <2>0
  <2>2. PICK m \in Lits : m = s.watchesBin[q][i].blocker
    BY <2>7 DEF Watchers
  <2>5. PICK e, r : e = c /\ r = Neg(q)
    OBVIOUS
  <2>3. e = <<r, m>> \/ e = <<m, r>>
    BY <1>6, <2>1, <2>2, <2>5 DEF WatchesBinary
  <2>4. Len(e) = 2 /\ (e[1] = r \/ e[2] = r)
    BY ONLY <2>3
  <2>6. a = q \/ b = q
    BY <2>4, <2>5, LitFacts
  <2> QED
    BY <2>4, <2>5, <2>6
<1> HIDE DEF a, b, c
\* Each list has what it had, but for clause cr.
<1>7. ASSUME NEW q \in Lits
      PROVE  /\ \A k \in DOMAIN t.watches[q] :
                    /\ t.watches[q][k].cref # cr
                    /\ \E i \in DOMAIN s.watches[q] : t.watches[q][k] = s.watches[q][i]
             /\ \A i \in DOMAIN s.watches[q] : s.watches[q][i].cref # cr =>
                    \E k \in DOMAIN t.watches[q] : t.watches[q][k] = s.watches[q][i]
             /\ \A k, m \in DOMAIN t.watches[q] :
                    t.watches[q][k].cref = t.watches[q][m].cref => k = m
  <2>1. \A i, j \in DOMAIN s.watches[q] : s.watches[q][i].cref = s.watches[q][j].cref => i = j
    BY DEF WatchersOK
  <2>2. CASE t.watches[q] = s.watches[q] /\ (Len(c) # 2 => q # a /\ q # b)
    BY <1>5, <2>1, <2>2
  <2>3. CASE t.watches[q] = Filtered(s.watches[q], cr)
    <3>1. PICK ws \in Seq(Watchers), f \in {t.watches[q]} :
              ws = s.watches[q] /\ f = t.watches[q]
      BY <1>1
    <3>2. f = Filtered(ws, cr)
      BY <2>3, <3>1
    <3>3. /\ \A k \in DOMAIN f : f[k].cref # cr /\ \E i \in DOMAIN ws : f[k] = ws[i]
          /\ \A i \in DOMAIN ws : ws[i].cref # cr => \E k \in DOMAIN f : f[k] = ws[i]
          /\ (\A i, j \in DOMAIN ws : ws[i].cref = ws[j].cref => i = j) =>
                 \A k, m \in DOMAIN f : f[k].cref = f[m].cref => k = m
      BY ONLY <3>2, ws \in Seq(Watchers), FilteredFacts
    <3> QED
      BY ONLY <2>1, <3>1, <3>3
  <2> QED
    BY <1>3, <2>2, <2>3
<1>8. ASSUME NEW q \in Lits
      PROVE  /\ \A k \in DOMAIN t.watchesBin[q] :
                    /\ t.watchesBin[q][k].cref # cr
                    /\ \E i \in DOMAIN s.watchesBin[q] : t.watchesBin[q][k] = s.watchesBin[q][i]
             /\ \A i \in DOMAIN s.watchesBin[q] : s.watchesBin[q][i].cref # cr =>
                    \E k \in DOMAIN t.watchesBin[q] : t.watchesBin[q][k] = s.watchesBin[q][i]
  <2>2. CASE t.watchesBin[q] = s.watchesBin[q] /\ (Len(c) = 2 => q # a /\ q # b)
    BY <1>6, <2>2
  <2>3. CASE t.watchesBin[q] = Filtered(s.watchesBin[q], cr)
    <3>1. PICK ws \in Seq(Watchers), f \in {t.watchesBin[q]} :
              ws = s.watchesBin[q] /\ f = t.watchesBin[q]
      BY <1>1
    <3>2. f = Filtered(ws, cr)
      BY <2>3, <3>1
    <3> QED
      BY <3>1, <3>2, FilteredFacts
  <2> QED
    BY <1>4, <2>2, <2>3
<1>9. WatchersOK(t)
  <2>1. ASSUME NEW q \in Lits, NEW k \in DOMAIN t.watches[q]
        PROVE  Watches(t, q, t.watches[q][k])
    <3>1. PICK w : w = t.watches[q][k]
      OBVIOUS
    <3>2. w.cref # cr /\ Watches(s, q, w)
      BY <1>7, <3>1 DEF WatchersOK
    <3>3. Watches(t, q, w)
      BY <1>1, <3>2 DEF Watches
    <3> QED
      BY <3>1, <3>3
  <2>2. ASSUME NEW q \in Lits, NEW k \in DOMAIN t.watchesBin[q]
        PROVE  WatchesBinary(t, q, t.watchesBin[q][k])
    <3>1. PICK w : w = t.watchesBin[q][k]
      OBVIOUS
    <3>2. w.cref # cr /\ WatchesBinary(s, q, w)
      BY <1>8, <3>1 DEF WatchersOK
    <3>3. WatchesBinary(t, q, w)
      BY <1>1, <3>2 DEF WatchesBinary
    <3> QED
      BY <3>1, <3>3
  <2> QED
    BY <1>7, <2>1, <2>2 DEF WatchersOK
<1>10. WatchedOK(t)
  <2> SUFFICES ASSUME NEW o \in AttachedIn(t), NEW k \in 1..2, NEW d, d = t.ca[o].lits
               PROVE  /\ Len(d) = 2 => Listed(t.watchesBin[Neg(d[k])], o)
                      /\ Len(d) > 2 => Listed(t.watches[Neg(d[k])], o)
    BY DEF WatchedOK
  <2>1. o # cr /\ o \in AttachedIn(s) /\ d = s.ca[o].lits
    BY <1>1
  <2>2. Neg(d[k]) \in Lits
    <3>1. d \in Seq(Lits) /\ Len(d) >= 2
      BY <1>1, <2>1, SolverTypes DEF Consistent, ClausesOK
    <3>2. d[k] \in Lits
      BY <3>1
    <3> QED
      BY <3>2, LitFacts
  <2>3. PICK q \in Lits, n \in Nat : q = Neg(d[k]) /\ n = Len(d)
    <3>1. d \in Seq(Lits)
      BY <1>1, <2>1, SolverTypes DEF Consistent, ClausesOK
    <3> QED
      BY <2>2, <3>1
  <2>4. CASE Len(d) = 2
    <3>1. Listed(s.watchesBin[q], o)
      BY <2>1, <2>3, <2>4 DEF WatchedOK
    <3>2. PICK i \in DOMAIN s.watchesBin[q] : s.watchesBin[q][i].cref = o
      BY <3>1 DEF Listed
    <3>3. \E j \in DOMAIN t.watchesBin[q] : t.watchesBin[q][j].cref = o
      BY <1>8, <2>1, <3>2
    <3>4. Listed(t.watchesBin[q], o)
      BY <3>3 DEF Listed
    <3>5. ~(n > 2)
      BY <2>3, <2>4
    <3> QED
      BY <2>3, <3>4, <3>5
  <2>5. CASE Len(d) > 2
    <3>1. Listed(s.watches[q], o)
      BY <2>1, <2>3, <2>5 DEF WatchedOK
    <3>2. PICK i \in DOMAIN s.watches[q] : s.watches[q][i].cref = o
      BY <3>1 DEF Listed
    <3>3. \E j \in DOMAIN t.watches[q] : t.watches[q][j].cref = o
      BY <1>7, <2>1, <3>2
    <3>4. Listed(t.watches[q], o)
      BY <3>3 DEF Listed
    <3>6. n > 2
      BY <2>3, <2>5
    <3>5. n # 2
      BY <3>6
    <3> QED
      BY <2>3, <3>4, <3>5
  <2> QED
    BY <2>4, <2>5
<1> QED
    BY <1>7, <1>8, <1>9, <1>10

\* Clause cr has gone, the others are what they were.
Removed(s, t, cr) ==
    /\ Slimmer(s, t)
    /\ DOMAIN t.ca = DOMAIN s.ca /\ AttachedIn(t) = AttachedIn(s) \ {cr}
    /\ \A o \in DOMAIN s.ca : o # cr => t.ca[o] = s.ca[o]

LEMMA RemoveOne ==
    ASSUME NEW s, Consistent(s), WatchersOK(s), WatchedOK(s), NEW cr, MayGo(s, cr),
           NEW t, t = removeClause(s, cr)
    PROVE  Removed(s, t, cr)
<1> DEFINE c == s.ca[cr].lits
<1>1. /\ s \in Solvers /\ TrailOK(s) /\ cr \in AttachedIn(s) /\ cr \in DOMAIN s.ca
      /\ c \in Seq(Lits) /\ Len(c) >= 2 /\ Distinct(c)
      /\ DOMAIN s.trail = 1..Len(s.trail) /\ Len(s.trail) \in Nat
      /\ DecisionLevel(s) \in Nat /\ DOMAIN s.trail_lim = 1..DecisionLevel(s)
      /\ \A i \in DOMAIN s.trail : s.trail[i].level \in Nat /\ s.trail[i].lit \in Lits
  <2>1. s \in Solvers /\ TrailOK(s) /\ cr \in AttachedIn(s) /\ cr \in DOMAIN s.ca
    BY DEF MayGo, Consistent, AttachedIn
  <2> QED
    BY <2>1, SolverTypes DEF Consistent, ClausesOK
<1>2. RemovedFields(s, t, cr)
    BY <1>1, RemoveFields
<1>3. /\ t \in Solvers /\ t.trail = Cleared(s, cr) /\ t.trail_lim = s.trail_lim
      /\ t.qhead = s.qhead /\ t.nVars = s.nVars /\ t.ok = s.ok /\ t.order_heap = s.order_heap
      /\ t.ca = [s.ca EXCEPT ![cr].list = "freed"]
    BY <1>2 DEF RemovedFields
<1>4. SameEntries(s, t) /\ (~locked(s, cr) => t.trail = s.trail)
    BY <1>1, <1>3, ClearedFacts DEF SameEntries
<1>5. /\ \A l : /\ IsTrue(t, l) <=> IsTrue(s, l)
                /\ IsFalse(t, l) <=> IsFalse(s, l)
      /\ Fixed(t) = Fixed(s) /\ TrailOK(t) /\ HeapOK(t) /\ DecisionLevel(t) = DecisionLevel(s)
    BY <1>1, <1>3, <1>4, EntriesSame DEF Consistent
<1>6. /\ DOMAIN t.ca = DOMAIN s.ca /\ t.ca[cr].list = "freed" /\ t.ca[cr].lits = c
      /\ \A o \in DOMAIN s.ca : o # cr => t.ca[o] = s.ca[o]
  <2>1. s.ca[cr] \in Clauses
    BY <1>1, SolverTypes
  <2>2. [s.ca[cr] EXCEPT !.list = "freed"].list = "freed" /\ [s.ca[cr] EXCEPT !.list = "freed"].lits = c
    BY <2>1 DEF Clauses
  <2> QED
    BY <1>1, <1>3, <2>2
<1>7. AttachedIn(t) = AttachedIn(s) \ {cr} /\ \A o \in DOMAIN s.ca : t.ca[o].lits = s.ca[o].lits
    BY <1>6 DEF AttachedIn
<1>8. /\ WatchersOK(t) /\ WatchedOK(t)
      /\ \A q \in Lits : \A k \in DOMAIN t.watches[q] :
             \E i \in DOMAIN s.watches[q] : t.watches[q][k] = s.watches[q][i]
      /\ \A q \in Lits : \A k \in DOMAIN t.watchesBin[q] :
             \E i \in DOMAIN s.watchesBin[q] : t.watchesBin[q][k] = s.watchesBin[q][i]
    BY ONLY <1>1, <1>2, <1>7, Consistent(s), WatchersOK(s), WatchedOK(s), WatchersGo
<1>9. ClausesOK(t)
  <2> SUFFICES ASSUME NEW o \in AttachedIn(t)
               PROVE  /\ Len(t.ca[o].lits) >= 2 /\ Distinct(t.ca[o].lits)
                      /\ \A i \in DOMAIN t.ca[o].lits : Var(t.ca[o].lits[i]) <= t.nVars
                      /\ t.ca[o].learnt => t.ca[o].list # "clauses"
    BY DEF ClausesOK
  <2>1. o \in AttachedIn(s) /\ o \in DOMAIN s.ca /\ t.ca[o] = s.ca[o]
    BY <1>6, <1>7 DEF AttachedIn
  <2> QED
    BY <1>3, <2>1 DEF Consistent, ClausesOK
<1>10. ASSUME DecisionLevel(s) = 0
       PROVE  /\ DecisionsFirst(t) /\ ReasonsOK(t)
              /\ \A lits : AssumptionsFirst(s, lits) => AssumptionsFirst(t, lits)
  <2>1. \A i \in DOMAIN t.trail : ~(t.trail[i].level > 0)
    <3>1. \A i \in DOMAIN t.trail : t.trail[i].level \in Nat /\ t.trail[i].level <= 0
      BY <1>1, <1>4, <1>10 DEF SameEntries, TrailOK
    <3> QED
      BY <3>1
  <2>2. DecisionsFirst(t) /\ ReasonsOK(t)
    BY <2>1 DEF DecisionsFirst, ReasonsOK
  <2>3. ASSUME NEW lits
        PROVE  AssumptionsFirst(t, lits)
    <3>1. DOMAIN t.trail_lim = {}
      BY <1>1, <1>3, <1>10
    <3>2. \A i \in DOMAIN t.trail : t.trail[i].level \notin 1..Len(lits)
      BY <2>1
    <3> QED
      BY <3>1, <3>2 DEF AssumptionsFirst
  <2> QED
    BY <2>2, <2>3
<1>11. ASSUME DecisionLevel(s) # 0
       PROVE  /\ DecisionsFirst(t) /\ ReasonsOK(t)
              /\ \A lits : AssumptionsFirst(s, lits) => AssumptionsFirst(t, lits)
  <2>1. Len(c) > 2 /\ ~locked(s, cr) /\ t.trail = s.trail
    BY <1>4, <1>11 DEF MayGo
  <2>2. DecisionsFirst(t)
    BY <1>3, <2>1 DEF Consistent, DecisionsFirst
  <2>3. \A lits : AssumptionsFirst(s, lits) => AssumptionsFirst(t, lits)
    BY <1>3, <2>1, SameAssumptions
  <2>4. ASSUME NEW i \in DOMAIN s.trail, s.trail[i].reason # CRef_Undef, s.trail[i].level > 0
        PROVE  ReasonOK(t, i)
    <3>1. ReasonOK(s, i)
      BY <2>4 DEF Consistent, ReasonsOK
    <3>2. s.trail[i].reason # cr
      <4> SUFFICES ASSUME s.trail[i].reason = cr
                   PROVE  FALSE
        OBVIOUS
      <4>1. PICK n \in Nat : n = Len(c) /\ n > 2
        BY <1>1, <2>1
      <4>4. n > 2
        BY <4>1
      <4>2. n # 2
        BY <4>4
      <4>3. s.trail[i].lit = c[1]
        BY <3>1, <4>1, <4>2 DEF ReasonOK
      <4> QED
        BY <2>1, <4>3 DEF locked
    <3>3. s.trail[i].reason \in AttachedIn(t) /\ s.trail[i].reason \in DOMAIN s.ca
      BY <1>7, <3>1, <3>2 DEF ReasonOK, AttachedIn
    <3>4. t.ca[s.trail[i].reason] = s.ca[s.trail[i].reason]
      BY <1>6, <3>2, <3>3
    <3> QED
      BY <2>1, <3>1, <3>3, <3>4 DEF ReasonOK
  <2>5. ReasonsOK(t)
    BY <2>1, <2>4 DEF ReasonsOK
  <2> QED
    BY <2>2, <2>3, <2>5
<1>12. DecisionsFirst(t) /\ ReasonsOK(t) /\ \A lits : AssumptionsFirst(s, lits) => AssumptionsFirst(t, lits)
    BY <1>10, <1>11
<1>13. Consistent(t)
    BY <1>3, <1>5, <1>9, <1>12 DEF Consistent
<1>14. ASSUME NEW n, Visited(s, n)
       PROVE  Visited(t, n)
  <2>1. ASSUME NEW i \in DOMAIN s.trail, NEW w, Blocked(s, i, w)
        PROVE  Blocked(t, i, w)
    BY <1>4, <2>1 DEF Blocked, SameEntries
  <2>2. ASSUME NEW i \in DOMAIN s.trail, i <= n, NEW p \in Lits, p = s.trail[i].lit
        PROVE  /\ \A k \in DOMAIN t.watches[p] : Blocked(t, i, t.watches[p][k])
               /\ \A k \in DOMAIN t.watchesBin[p] : Blocked(t, i, t.watchesBin[p][k])
    <3>1. /\ \A k \in DOMAIN s.watches[p] : Blocked(s, i, s.watches[p][k])
          /\ \A k \in DOMAIN s.watchesBin[p] : Blocked(s, i, s.watchesBin[p][k])
      BY <1>14, <2>2 DEF Visited
    <3> QED
      BY <1>8, <2>1, <3>1
  <2>3. \A i \in DOMAIN t.trail : i \in DOMAIN s.trail /\ t.trail[i].lit = s.trail[i].lit /\ s.trail[i].lit \in Lits
    BY <1>1, <1>4 DEF SameEntries
  <2> QED
    BY <2>2, <2>3 DEF Visited
<1>15. ASSUME NEW F, Sound(s, F)
       PROVE  Sound(t, F)
  <2>1. \A o \in AttachedIn(t) : o \in AttachedIn(s) /\ t.ca[o].lits = s.ca[o].lits
    BY <1>7 DEF AttachedIn
  <2> QED
    BY <1>3, <1>5, <1>15, <2>1 DEF Sound, Satisfies
<1>16. ASSUME NEW F, Complete(s, F)
       PROVE  Complete(t, F)
  <2> SUFFICES ASSUME NEW A \in Oracle!Assignments(s.nVars),
                      Satisfies(A, t, ListOf(t, "clauses"))
               PROVE  Satisfies(A, s, ListOf(s, "clauses"))
    BY <1>3, <1>16 DEF Complete
  <2>1. Fixed(s) \subseteq A
    BY <1>5 DEF Satisfies
  <2>2. ASSUME NEW o \in ListOf(s, "clauses")
        PROVE  ToSet(s.ca[o].lits) \cap A # {}
    <3>1. CASE o = cr
      BY <2>1, <2>2, <3>1 DEF MayGo, ListOf
    <3>2. CASE o # cr
      <4>1. o \in ListOf(t, "clauses") /\ t.ca[o] = s.ca[o]
        BY <1>6, <3>2 DEF ListOf
      <4> QED
        BY <4>1 DEF Satisfies
    <3> QED
      BY <3>1, <3>2
  <2> QED
    BY <2>1, <2>2 DEF Satisfies
<1>17. Slimmer(s, t)
    BY ONLY <1>3, <1>4, <1>8, <1>12, <1>13, <1>14, <1>15, <1>16 DEF Slimmer, SameEntries
<1> QED
    BY <1>6, <1>7, <1>17 DEF Removed

LEMMA SlimmerTrans ==
    ASSUME NEW s, NEW t, NEW u, Slimmer(s, t), Slimmer(t, u)
    PROVE  Slimmer(s, u)
<1>1. \A i \in DOMAIN s.trail :
          u.trail[i].lit = s.trail[i].lit /\ u.trail[i].level = s.trail[i].level
    BY DEF Slimmer
<1> QED
    BY <1>1 DEF Slimmer

LEMMA SlimmerSelf ==
    ASSUME NEW s, Consistent(s), WatchersOK(s), WatchedOK(s)
    PROVE  Slimmer(s, s)
BY DEF Slimmer

\* The clauses crs of s that come before the k-th have gone.
Thinned(s, crs, k, t) ==
    /\ Slimmer(s, t) /\ DOMAIN t.ca = DOMAIN s.ca
    /\ \A o \in DOMAIN s.ca : (o \in crs /\ o <= k) \/ t.ca[o] = s.ca[o]

LEMMA SlimmerSame ==
    ASSUME NEW s, NEW t, Slimmer(s, t)
    PROVE  /\ DecisionLevel(t) = DecisionLevel(s) /\ Fixed(t) = Fixed(s)
           /\ Consistent(t) /\ WatchersOK(t) /\ WatchedOK(t)
<1>1. DecisionLevel(t) = DecisionLevel(s)
    BY DEF Slimmer, DecisionLevel
<1>2. Fixed(t) = Fixed(s)
    BY DEF Slimmer, Fixed
<1> QED
    BY <1>1, <1>2 DEF Slimmer

LEMMA RemoveAllKeeps ==
    ASSUME NEW s, Consistent(s), WatchersOK(s), WatchedOK(s), DecisionLevel(s) = 0,
           NEW crs, \A cr \in crs : MayGo(s, cr)
    PROVE  Slimmer(s, RemoveAll(s, crs))
<1> DEFINE refs == [cr \in DOMAIN s.ca |-> cr]
<1>1. s \in Solvers /\ DOMAIN s.ca = 1..Len(s.ca) /\ Len(s.ca) \in Nat
    BY SolverTypes DEF Consistent
<1>2. PICK n \in Nat : n = Len(s.ca) /\ DOMAIN s.ca = 1..n
    BY <1>1
<1>3. refs \in Seq(Nat) /\ Len(refs) = n /\ \A k \in 1..n : refs[k] = k
  <2>1. refs \in [1..n -> Nat]
    BY <1>2
  <2> QED
    BY <1>2, <2>1
<1>4. RemoveAll(s, crs) = RemoveEach(s, crs, refs)
    BY DEF RemoveAll
<1> HIDE DEF refs
<1>5. PICK h : /\ h[0] = s
               /\ \A k \in 1..n : h[k] = IF refs[k] \in crs THEN removeClause(h[k - 1], refs[k])
                                         ELSE h[k - 1]
               /\ RemoveEach(s, crs, refs) = h[n]
  <2>0. PICK R : R = Nat
    OBVIOUS
  <2>1. PICK seq \in Seq(R) : seq = refs
    BY <1>3, <2>0
  <2>3. RemoveRuns(s, seq, crs)
    BY ONLY seq \in Seq(R), RemoveTrace
  <2>2. PICK h : /\ h[0] = s
                 /\ \A k \in 1..Len(seq) :
                        h[k] = (IF seq[k] \in crs THEN removeClause(h[k - 1], seq[k])
                                ELSE h[k - 1])
                 /\ RemoveEach(s, crs, seq) = h[Len(seq)]
    BY ONLY <2>3 DEF RemoveRuns
  <2> QED
    BY <1>3, <2>1, <2>2
<1> DEFINE C == {k \in 0..n : Thinned(s, crs, k, h[k])}
<1>6. 0 \in C
  <2>1. Slimmer(s, s)
    BY SlimmerSelf
  <2> QED
    BY <1>5, <2>1 DEF Thinned
<1>7. ASSUME NEW k \in 1..n, k - 1 \in C
      PROVE  k \in C
  <2>1. PICK u : u = h[k - 1]
    OBVIOUS
  <2>2. Thinned(s, crs, k - 1, u)
    BY <1>7, <2>1
  <2>3. /\ Slimmer(s, u) /\ DOMAIN u.ca = DOMAIN s.ca
        /\ Consistent(u) /\ WatchersOK(u) /\ WatchedOK(u)
        /\ DecisionLevel(u) = 0 /\ Fixed(u) = Fixed(s)
    BY <2>2, SlimmerSame DEF Thinned
  <2>4. refs[k] = k /\ k \in DOMAIN s.ca /\ ~(k <= k - 1)
    BY <1>2, <1>3
  <2>5. u.ca[k] = s.ca[k]
    BY <2>2, <2>4 DEF Thinned
  <2>6. \A o \in DOMAIN s.ca : o <= k - 1 => o <= k
    BY <1>2
  <2>7. CASE k \in crs
    <3>1. h[k] = removeClause(u, k)
      BY <1>5, <2>1, <2>4, <2>7
    <3>2. MayGo(u, k)
      <4>1. MayGo(s, k)
        BY <2>7
      <4> QED
        BY <2>3, <2>5, <4>1 DEF MayGo, AttachedIn
    <3>3. Removed(u, h[k], k)
      BY ONLY <2>3, <3>1, <3>2, RemoveOne
    <3>4. Slimmer(s, h[k])
      BY <2>3, <3>3, SlimmerTrans DEF Removed
    <3>5. DOMAIN h[k].ca = DOMAIN s.ca
      BY <2>3, <3>3 DEF Removed
    <3>6. ASSUME NEW o \in DOMAIN s.ca
          PROVE  (o \in crs /\ o <= k) \/ h[k].ca[o] = s.ca[o]
      <4>1. CASE o = k
        BY <2>7, <4>1
      <4>2. CASE o # k
        <5>1. h[k].ca[o] = u.ca[o]
          BY <2>3, <3>3, <4>2 DEF Removed
        <5> QED
          BY <2>2, <2>6, <5>1 DEF Thinned
      <4> QED
        BY <4>1, <4>2
    <3> QED
      BY <3>4, <3>5, <3>6 DEF Thinned
  <2>8. CASE k \notin crs
    <3>1. h[k] = u
      BY <1>5, <2>1, <2>4, <2>8
    <3> QED
      BY <2>2, <2>6, <3>1 DEF Thinned
  <2> QED
    BY <2>7, <2>8
<1>8. n \in C
  <2> HIDE DEF C
  <2>1. \A k \in 0..n : k \in C
    BY <1>6, <1>7, StepInduction
  <2> QED
    BY <2>1
<1> QED
    BY <1>4, <1>5, <1>8 DEF Thinned

\* What is true on level 0 is so for good.
LEMMA SatisfiedGoes ==
    ASSUME NEW s, Consistent(s), WatchersOK(s), WatchedOK(s), DecisionLevel(s) = 0, NEW list,
           list # "freed"
    PROVE  Slimmer(s, removeSatisfied(s, list))
<1> DEFINE crs == {cr \in ListOf(s, list) :
                     \E l \in ToSet(s.ca[cr].lits) : IsTrue(s, l)}
<1>1. s \in Solvers /\ TrailOK(s)
    BY DEF Consistent
<1>2. \A i \in DOMAIN s.trail : s.trail[i].level = 0
  <2>1. \A i \in DOMAIN s.trail : s.trail[i].level \in Nat /\ s.trail[i].level <= 0
    BY <1>1, SolverTypes DEF TrailOK
  <2> QED
    BY <2>1
<1>3. ASSUME NEW cr \in crs
      PROVE  MayGo(s, cr)
  <2>1. cr \in AttachedIn(s)
    BY DEF ListOf, AttachedIn
  <2>2. \E l \in ToSet(s.ca[cr].lits) : l \in Fixed(s)
    BY <1>2 DEF IsTrue, Fixed
  <2> QED
    BY <2>1, <2>2 DEF MayGo
<1>4. removeSatisfied(s, list) = RemoveAll(s, crs)
    BY DEF removeSatisfied
<1> HIDE DEF crs
<1> QED
    BY <1>3, <1>4, RemoveAllKeeps

\* Only what is noted of clauses changes.
LEMMA Remarked ==
    ASSUME NEW s, Consistent(s), WatchersOK(s), WatchedOK(s), NEW t \in Solvers,
           t.trail = s.trail, t.trail_lim = s.trail_lim, t.qhead = s.qhead, t.nVars = s.nVars,
           t.order_heap = s.order_heap, t.ok = s.ok,
           t.watches = s.watches, t.watchesBin = s.watchesBin, DOMAIN t.ca = DOMAIN s.ca,
           \A o \in DOMAIN s.ca :
               /\ t.ca[o].lits = s.ca[o].lits
               /\ t.ca[o].list = "freed" <=> s.ca[o].list = "freed"
               /\ s.ca[o].list = "clauses" => t.ca[o].list = "clauses"
               /\ t.ca[o].learnt /\ o \in AttachedIn(s) => t.ca[o].list # "clauses"
    PROVE  Slimmer(s, t)
<1>0. s \in Solvers /\ TrailOK(s)
    BY DEF Consistent
<1>1. AttachedIn(t) = AttachedIn(s) /\ \A o \in AttachedIn(s) : o \in DOMAIN s.ca
    BY DEF AttachedIn
<1>2. \A o \in AttachedIn(s) : Len(s.ca[o].lits) >= 2 /\ Distinct(s.ca[o].lits)
    BY DEF Consistent, ClausesOK
<1>3. ListOf(s, "clauses") \subseteq ListOf(t, "clauses")
    BY DEF ListOf
<1>4. /\ Consistent(t)
      /\ \A F : Sound(s, F) => Sound(t, F)
      /\ \A F : Complete(s, F) => Complete(t, F)
  <2>1. /\ \A cr \in DOMAIN s.ca : t.ca[cr].list = "freed" <=> s.ca[cr].list = "freed"
        /\ \A cr \in AttachedIn(s) :
               LET c == s.ca[cr].lits
                   d == t.ca[cr].lits
               IN  /\ Len(d) = Len(c) /\ ToSet(d) = ToSet(c) /\ Distinct(d)
                   /\ t.ca[cr].learnt => t.ca[cr].list # "clauses"
                   /\ Len(c) > 2 => d[1] = c[1] \/ ~IsTrue(s, c[1])
    BY <1>1, <1>2
  <2> QED
    BY <1>3, <2>1, Rewritten
<1>5. WatchersOK(t) /\ WatchedOK(t)
  <2>1. \A cr \in AttachedIn(s) :
               LET c == s.ca[cr].lits
                   d == t.ca[cr].lits
               IN  /\ Len(c) >= 2 /\ Len(d) = Len(c) /\ ToSet(d) = ToSet(c)
                   /\ (d[1] = c[1] /\ d[2] = c[2]) \/ (d[1] = c[2] /\ d[2] = c[1])
    BY <1>1, <1>2
  <2> QED
    BY <1>0, <1>1, <2>1, FrontsKept
<1>6. \A n : Visited(s, n) => Visited(t, n)
    BY SameTrail
<1>7. \A lits : AssumptionsFirst(s, lits) => AssumptionsFirst(t, lits)
    BY SameAssumptions
<1> QED
    BY <1>4, <1>5, <1>6, <1>7 DEF Slimmer

\* The learnt clauses in some order.
Ordered(s, order, n) ==
    /\ n \in Nat /\ order \in Seq(Nat) /\ Len(order) = n
    /\ \A k \in 1..n : order[k] \in DOMAIN s.ca /\ s.ca[order[k]].list = "learnts"
    /\ \A k, m \in 1..n : order[k] = order[m] => k = m

\* The first k of them have been looked at.
Looked(s, order, n, k, r) ==
    /\ r \in [s : Solvers, i : Int, limit : Int]
    /\ Slimmer(s, r.s) /\ DOMAIN r.s.ca = DOMAIN s.ca
    /\ \A m \in 1..n : m <= k \/ r.s.ca[order[m]] = s.ca[order[m]]

\* Clause cr may go the next time.
Unprotected(s, cr) == [s EXCEPT !.ca[cr].canBeDel = TRUE]

LEMMA UnprotectedKeeps ==
    ASSUME NEW s, Consistent(s), WatchersOK(s), WatchedOK(s), NEW cr \in AttachedIn(s),
           NEW t, t = Unprotected(s, cr)
    PROVE  /\ Slimmer(s, t) /\ t \in Solvers /\ DOMAIN t.ca = DOMAIN s.ca
           /\ \A o \in DOMAIN s.ca : o # cr => t.ca[o] = s.ca[o]
<1> DEFINE e == [s.ca[cr] EXCEPT !.canBeDel = TRUE]
           y == [s.ca EXCEPT ![cr] = e]
<1>1. s \in Solvers /\ s.ca \in Seq(Clauses) /\ s.ca[cr] \in Clauses /\ cr \in DOMAIN s.ca
    BY SolverTypes DEF Consistent, AttachedIn
<1>2. /\ e \in Clauses /\ e.lits = s.ca[cr].lits /\ e.list = s.ca[cr].list
      /\ e.learnt = s.ca[cr].learnt
    BY <1>1 DEF Clauses
<1> HIDE DEF e
<1>3. /\ y \in Seq(Clauses) /\ DOMAIN y = DOMAIN s.ca /\ y[cr] = e
      /\ \A o \in DOMAIN s.ca : o # cr => y[o] = s.ca[o]
    BY <1>1, <1>2
<1>4. t = [s EXCEPT !.ca = y]
    BY <1>1 DEF Unprotected, Solvers, e
<1> HIDE DEF y
<1>5. /\ t \in Solvers /\ t.ca = y
      /\ t.trail = s.trail /\ t.trail_lim = s.trail_lim /\ t.qhead = s.qhead
      /\ t.nVars = s.nVars /\ t.order_heap = s.order_heap /\ t.ok = s.ok
      /\ t.watches = s.watches /\ t.watchesBin = s.watchesBin
    BY <1>1, <1>3, <1>4 DEF Solvers
<1>6. ASSUME NEW o \in DOMAIN s.ca
      PROVE  /\ t.ca[o].lits = s.ca[o].lits
             /\ t.ca[o].list = s.ca[o].list
             /\ t.ca[o].learnt = s.ca[o].learnt
    BY <1>2, <1>3, <1>5
<1>7. /\ DOMAIN t.ca = DOMAIN s.ca
      /\ \A o \in AttachedIn(s) : s.ca[o].learnt => s.ca[o].list # "clauses"
    BY <1>3, <1>5 DEF Consistent, ClausesOK
<1>8. Slimmer(s, t)
    BY <1>5, <1>6, <1>7, Remarked
<1> QED
    BY <1>3, <1>5, <1>8

LEMMA LookStep ==
    ASSUME NEW s, NEW order, NEW n, Ordered(s, order, n), NEW k \in 1..n,
           NEW r, Looked(s, order, n, k - 1, r)
    PROVE  Looked(s, order, n, k, KeepOrRemove(r, order[k]))
<1>1. /\ n \in Nat /\ r \in [s : Solvers, i : Int, limit : Int]
      /\ Slimmer(s, r.s) /\ DOMAIN r.s.ca = DOMAIN s.ca
      /\ \A m \in 1..n : m <= k - 1 \/ r.s.ca[order[m]] = s.ca[order[m]]
      /\ ~(k <= k - 1)
    BY DEF Ordered, Looked
<1>2. PICK u, cr : u = r.s /\ cr = order[k]
    OBVIOUS
<1>3. /\ Consistent(u) /\ WatchersOK(u) /\ WatchedOK(u) /\ cr \in DOMAIN u.ca
      /\ u.ca[cr].list = "learnts" /\ cr \in AttachedIn(u) /\ DOMAIN u.ca = DOMAIN s.ca
      /\ Slimmer(s, u) /\ u \in Solvers /\ u.ca[cr].list # "clauses"
  <2>1. u.ca[cr] = s.ca[cr] /\ cr \in DOMAIN u.ca
    BY <1>1, <1>2 DEF Ordered
  <2>2. u.ca[cr].list = "learnts"
    BY <1>2, <2>1 DEF Ordered
  <2> QED
    BY <1>1, <1>2, <2>1, <2>2, SlimmerSame DEF AttachedIn
<1>4. ASSUME NEW m \in 1..n, ~(m <= k)
      PROVE  u.ca[order[m]] = s.ca[order[m]] /\ order[m] # cr /\ order[m] \in DOMAIN u.ca
    BY <1>1, <1>2, <1>4 DEF Ordered
<1>5. ASSUME NEW t, t \in Solvers, Slimmer(u, t), DOMAIN t.ca = DOMAIN u.ca,
             \A o \in DOMAIN u.ca : o # cr => t.ca[o] = u.ca[o],
             NEW i \in Int, NEW limit \in Int
      PROVE  Looked(s, order, n, k, [s |-> t, i |-> i, limit |-> limit])
  <2>1. Slimmer(s, t)
    BY <1>3, <1>5, SlimmerTrans
  <2>2. \A m \in 1..n : m <= k \/ t.ca[order[m]] = s.ca[order[m]]
    BY <1>4, <1>5
  <2> QED
    BY <1>3, <1>5, <2>1, <2>2 DEF Looked
<1> DEFINE c == u.ca[cr]
           i == r.i + 1
           goes == c.lbd > 2 /\ Len(c.lits) > 2 /\ c.canBeDel /\ ~locked(u, cr) /\ i <= r.limit
<1>6. CASE goes
  <2>1. MayGo(u, cr)
    BY <1>3, <1>6 DEF MayGo
  <2>2. PICK t : t = removeClause(u, cr)
    OBVIOUS
  <2>3. Removed(u, t, cr)
    BY ONLY <1>3, <2>1, <2>2, RemoveOne
  <2>4. Slimmer(u, t) /\ t \in Solvers /\ DOMAIN t.ca = DOMAIN u.ca
        /\ \A o \in DOMAIN u.ca : o # cr => t.ca[o] = u.ca[o]
    BY <2>3 DEF Removed, Slimmer, Consistent
  <2>5. KeepOrRemove(r, cr) = [s |-> t, i |-> i, limit |-> r.limit]
    BY <1>1, <1>2, <1>6, <2>2 DEF KeepOrRemove
  <2>6. i \in Int /\ r.limit \in Int
    BY <1>1
  <2> HIDE DEF i
  <2> QED
    BY <1>2, <1>5, <2>4, <2>5, <2>6
<1>7. CASE ~goes
  <2>1. PICK t : t = Unprotected(u, cr)
    OBVIOUS
  <2>2. Slimmer(u, t) /\ t \in Solvers /\ DOMAIN t.ca = DOMAIN u.ca
        /\ \A o \in DOMAIN u.ca : o # cr => t.ca[o] = u.ca[o]
    BY ONLY <1>3, <2>1, UnprotectedKeeps
  <2>3. PICK limit : limit = IF c.canBeDel THEN r.limit ELSE r.limit + 1
    OBVIOUS
  <2>4. KeepOrRemove(r, cr) = [s |-> t, i |-> i, limit |-> limit]
    BY <1>1, <1>2, <1>7, <2>1, <2>3 DEF KeepOrRemove, Unprotected
  <2>5. i \in Int /\ limit \in Int
    BY <1>1, <2>3
  <2> HIDE DEF i
  <2> QED
    BY <1>2, <1>5, <2>2, <2>4, <2>5
<1> QED
    BY <1>6, <1>7

\* reduceDB takes nothing that is needed.
LEMMA ReduceKeeps ==
    ASSUME NEW s, Consistent(s), WatchersOK(s), WatchedOK(s),
           NEW order \in SetToSeqs(ListOf(s, "learnts"))
    PROVE  Slimmer(s, Reduced(s, order))
<1> DEFINE L == ListOf(s, "learnts")
           base == [s |-> s, i |-> 0, limit |-> Len(order) \div 2]
<1>1. s \in Solvers /\ DOMAIN s.ca = 1..Len(s.ca) /\ Len(s.ca) \in Nat
    BY SolverTypes DEF Consistent
<1>2. L \subseteq DOMAIN s.ca /\ IsFiniteSet(L) /\ L \subseteq Nat
  <2>1. L \subseteq DOMAIN s.ca
    BY DEF ListOf
  <2>2. PICK n \in Nat : n = Len(s.ca)
    BY <1>1
  <2>3. IsFiniteSet(1..n)
    BY FS_Interval
  <2> QED
    BY <1>1, <2>1, <2>2, <2>3, FS_Subset
<1>3. PICK n \in Nat : n = Cardinality(L)
    BY <1>2, FS_CardinalityType
<1>4. /\ order \in [1..n -> L]
      /\ \A i, j \in 1..n : i # j => order[i] # order[j]
    BY <1>3 DEF SetToSeqs
<1>5. Ordered(s, order, n)
  <2>1. order \in Seq(Nat) /\ Len(order) = n
    BY <1>2, <1>4
  <2> QED
    BY <1>2, <1>4, <2>1 DEF Ordered, ListOf
<1>6. PICK h : /\ h[0] = base
               /\ \A k \in 1..n : h[k] = KeepOrRemove(h[k - 1], order[k])
               /\ Reductions(base, order) = h[n]
  <2>1. order \in Seq(Nat) /\ Len(order) = n
    BY <1>5 DEF Ordered
  <2> HIDE DEF base
  <2>2. ReduceRuns(base, order)
    BY ONLY <2>1, ReduceTrace
  <2> QED
    BY ONLY <2>1, <2>2 DEF ReduceRuns
<1>7. Reduced(s, order) = h[n].s
    BY <1>6 DEF Reduced, Reductions
<1> DEFINE C == {k \in 0..n : Looked(s, order, n, k, h[k])}
<1>8. 0 \in C
  <2>1. Slimmer(s, s)
    BY SlimmerSelf
  <2>2. Len(order) \div 2 \in Int
    BY <1>5 DEF Ordered
  <2>3. base \in [s : Solvers, i : Int, limit : Int] /\ base.s = s
    BY <1>1, <2>2
  <2> QED
    BY <1>6, <2>1, <2>3 DEF Looked
<1>9. ASSUME NEW k \in 1..n, k - 1 \in C
      PROVE  k \in C
  <2>1. PICK r : r = h[k - 1]
    OBVIOUS
  <2>2. Looked(s, order, n, k - 1, r)
    BY <1>9, <2>1
  <2>3. Looked(s, order, n, k, KeepOrRemove(r, order[k]))
    BY ONLY <1>5, <2>2, k \in 1..n, LookStep
  <2> QED
    BY <1>6, <2>1, <2>3
<1>10. n \in C
  <2> HIDE DEF C
  <2>1. \A k \in 0..n : k \in C
    BY <1>8, <1>9, StepInduction
  <2> QED
    BY <2>1
<1> QED
    BY <1>7, <1>10 DEF Looked

-----------------------------------------------------------------------------
(***************************************************************************)
(* Garbage collection: clauses move, references follow.                    *)
(***************************************************************************)

\* Where clause cr goes, and what goes with it.
NewRef(s, cr) == IF cr \in Moved(s) THEN Rank(Moved(s), cr) ELSE cr
Relocated(s, ws) == [i \in DOMAIN ws |-> Watcher(NewRef(s, ws[i].cref), ws[i].blocker)]
CopyOf(c) == IF c.learnt THEN c ELSE [c EXCEPT !.lbd = 0, !.canBeDel = TRUE]
Copies(s) == [i \in 1..Cardinality(Moved(s)) |-> CopyOf(s.ca[Nth(Moved(s), i)])]
Readdressed(s) ==
    [i \in DOMAIN s.trail |-> [s.trail[i] EXCEPT !.reason = NewRef(s, @)]]

LEMMA MovedFacts ==
    ASSUME NEW s \in Solvers, NEW n, n = Cardinality(Moved(s))
    PROVE  /\ n \in Nat /\ AttachedIn(s) \subseteq Moved(s)
           /\ \A i \in 1..n : Nth(Moved(s), i) \in Moved(s) /\ NewRef(s, Nth(Moved(s), i)) = i
           /\ \A cr \in Moved(s) : /\ NewRef(s, cr) \in 1..n
                                   /\ Nth(Moved(s), NewRef(s, cr)) = cr
           /\ \A cr \in Nat : NewRef(s, cr) \in Nat /\ (NewRef(s, cr) = 0 <=> cr = 0)
<1> DEFINE T == Moved(s)
<1>1. T \subseteq DOMAIN s.ca /\ AttachedIn(s) \subseteq T
    BY DEF Moved, AttachedIn
<1>2. PICK m \in Nat : m = Len(s.ca) /\ DOMAIN s.ca = 1..m
    BY SolverTypes
<1>3. IsFiniteSet(1..m)
    BY FS_Interval
<1>4. T \in SUBSET Nat /\ IsFiniteSet(T)
    BY <1>1, <1>2, <1>3, FS_Subset
<1> HIDE DEF T
<1>5. /\ Cardinality(T) \in Nat
      /\ \A k \in 1..Cardinality(T) : Nth(T, k) \in T /\ Rank(T, Nth(T, k)) = k
      /\ \A i \in T : Rank(T, i) \in 1..Cardinality(T) /\ Nth(T, Rank(T, i)) = i
    BY <1>4, NthOfRank
<1>6. \A cr : NewRef(s, cr) = IF cr \in T THEN Rank(T, cr) ELSE cr
    BY DEF NewRef, T
<1>7. n = Cardinality(T) /\ T = Moved(s)
    BY DEF T
<1>8. \A cr \in T : cr # 0
    BY <1>1, <1>2
<1>9. \A i \in 1..n : Nth(T, i) \in T /\ NewRef(s, Nth(T, i)) = i
    BY <1>5, <1>6, <1>7
<1>10. \A cr \in T : NewRef(s, cr) \in 1..n /\ Nth(T, NewRef(s, cr)) = cr
    BY <1>5, <1>6, <1>7
<1>11. ASSUME NEW cr \in Nat
       PROVE  NewRef(s, cr) \in Nat /\ (NewRef(s, cr) = 0 <=> cr = 0)
  <2>1. CASE cr \in T
    <3>1. NewRef(s, cr) \in 1..n /\ n \in Nat
      BY <1>5, <1>7, <1>10, <2>1
    <3> QED
      BY <1>8, <2>1, <3>1
  <2>2. CASE cr \notin T
    BY <1>6, <2>2
  <2> QED
    BY <2>1, <2>2
<1> QED
    BY <1>1, <1>5, <1>7, <1>9, <1>10, <1>11

\* A list of watchers, moved.
LEMMA RelocatedFacts ==
    ASSUME NEW s \in Solvers, NEW ws \in Seq(Watchers), NEW m, m = Relocated(s, ws)
    PROVE  /\ m \in Seq(Watchers) /\ DOMAIN m = DOMAIN ws
           /\ \A i \in DOMAIN ws : /\ m[i] = Watcher(NewRef(s, ws[i].cref), ws[i].blocker)
                                   /\ m[i].cref = NewRef(s, ws[i].cref)
                                   /\ m[i].blocker = ws[i].blocker
                                   /\ ws[i] \in Watchers
<1>1. ASSUME NEW i \in DOMAIN ws
      PROVE  ws[i] \in Watchers /\ ws[i].cref \in Nat /\ ws[i].blocker \in Lits
  <2>1. ws[i] \in Watchers
    OBVIOUS
  <2> QED
    BY <2>1 DEF Watchers
<1>2. \A i \in DOMAIN ws : NewRef(s, ws[i].cref) \in Nat
    BY <1>1, MovedFacts
<1>3. ASSUME NEW i \in DOMAIN ws
      PROVE  /\ m[i] = Watcher(NewRef(s, ws[i].cref), ws[i].blocker)
             /\ m[i].cref = NewRef(s, ws[i].cref) /\ m[i].blocker = ws[i].blocker
             /\ m[i] \in Watchers
    BY <1>1, <1>2 DEF Relocated, Watcher, Watchers
<1>4. m \in Seq(Watchers) /\ DOMAIN m = DOMAIN ws
  <2>1. PICK n \in Nat : n = Len(ws) /\ DOMAIN ws = 1..n
    OBVIOUS
  <2>2. m = [i \in 1..n |-> m[i]] /\ DOMAIN m = 1..n
    BY <2>1 DEF Relocated
  <2>3. m \in [1..n -> Watchers]
    BY <1>3, <2>1, <2>2
  <2> QED
    BY <2>1, <2>3
<1> QED
    BY <1>1, <1>3, <1>4

\* What collecting garbage changes.
CollectedFields(s, t) ==
    /\ t \in Solvers
    /\ t.ca = Copies(s) /\ t.trail = Readdressed(s)
    /\ \A q \in Lits : t.watches[q] = Relocated(s, s.watches[q])
    /\ \A q \in Lits : t.watchesBin[q] = Relocated(s, s.watchesBin[q])
    /\ t.trail_lim = s.trail_lim /\ t.qhead = s.qhead
    /\ t.nVars = s.nVars /\ t.ok = s.ok /\ t.order_heap = s.order_heap
    /\ t.simpDB_assigns = s.simpDB_assigns /\ t.coLBDBound = s.coLBDBound

LEMMA CopiesType ==
    ASSUME NEW s \in Solvers, NEW y, y = Copies(s)
    PROVE  /\ y \in Seq(Clauses) /\ DOMAIN y = 1..Cardinality(Moved(s))
           /\ \A i \in 1..Cardinality(Moved(s)) :
                  LET c == s.ca[Nth(Moved(s), i)]
                  IN  y[i].lits = c.lits /\ y[i].list = c.list /\ y[i].learnt = c.learnt
<1>1. PICK n : n = Cardinality(Moved(s))
    OBVIOUS
<1>2. n \in Nat /\ \A i \in 1..n : Nth(Moved(s), i) \in Moved(s)
    BY <1>1, MovedFacts
<1>3. Moved(s) \subseteq DOMAIN s.ca
    BY DEF Moved
<1>4. ASSUME NEW c \in Clauses
      PROVE  /\ CopyOf(c) \in Clauses /\ CopyOf(c).lits = c.lits /\ CopyOf(c).list = c.list
             /\ CopyOf(c).learnt = c.learnt
    BY DEF CopyOf, Clauses
<1>5. ASSUME NEW i \in 1..n
      PROVE  LET c == s.ca[Nth(Moved(s), i)]
             IN  /\ y[i] \in Clauses
                 /\ y[i].lits = c.lits /\ y[i].list = c.list /\ y[i].learnt = c.learnt
  <2>1. s.ca[Nth(Moved(s), i)] \in Clauses
    BY <1>2, <1>3, SolverTypes
  <2>2. y[i] = CopyOf(s.ca[Nth(Moved(s), i)])
    BY <1>1 DEF Copies
  <2> QED
    BY <1>4, <2>1, <2>2
<1>6. DOMAIN y = 1..n /\ y = [i \in 1..n |-> y[i]]
    BY <1>1 DEF Copies
<1>7. y \in [1..n -> Clauses]
    BY <1>5, <1>6
<1>8. y \in Seq(Clauses)
    BY <1>2, <1>7
<1> QED
    BY <1>1, <1>5, <1>6, <1>8

LEMMA ReaddressedType ==
    ASSUME NEW s \in Solvers, NEW x, x = Readdressed(s)
    PROVE  /\ x \in Seq(Entries) /\ Len(x) = Len(s.trail) /\ DOMAIN x = DOMAIN s.trail
           /\ \A i \in DOMAIN s.trail :
                  /\ x[i].lit = s.trail[i].lit /\ x[i].level = s.trail[i].level
                  /\ x[i].reason = NewRef(s, s.trail[i].reason)
<1>1. PICK n \in Nat : n = Len(s.trail) /\ DOMAIN s.trail = 1..n
    BY SolverTypes
<1>2. ASSUME NEW i \in DOMAIN s.trail
      PROVE  /\ x[i] \in Entries /\ x[i].lit = s.trail[i].lit /\ x[i].level = s.trail[i].level
             /\ x[i].reason = NewRef(s, s.trail[i].reason)
  <2>1. s.trail[i] \in Entries /\ s.trail[i].reason \in Nat
    BY SolverTypes
  <2>2. NewRef(s, s.trail[i].reason) \in Nat
    BY <2>1, MovedFacts
  <2> QED
    BY <2>1, <2>2 DEF Readdressed, Entries
<1>3. DOMAIN x = 1..n /\ x = [i \in 1..n |-> x[i]]
    BY <1>1 DEF Readdressed
<1>4. x \in [1..n -> Entries]
    BY <1>1, <1>2, <1>3
<1>5. x \in Seq(Entries) /\ Len(x) = n
    BY <1>1, <1>4
<1> QED
    BY <1>1, <1>2, <1>3, <1>5

LEMMA CollectFields ==
    ASSUME NEW s \in Solvers, NEW t, t = garbageCollect(s)
    PROVE  CollectedFields(s, t)
<1> DEFINE y == Copies(s)
           x == Readdressed(s)
           f == [l \in Lits |-> Relocated(s, s.watches[l])]
           g == [l \in Lits |-> Relocated(s, s.watchesBin[l])]
<1>1. /\ s.watches \in [Lits -> Seq(Watchers)] /\ s.watchesBin \in [Lits -> Seq(Watchers)]
    BY SolverTypes
<1>2. f \in [Lits -> Seq(Watchers)] /\ g \in [Lits -> Seq(Watchers)]
  <2>1. \A l \in Lits : Relocated(s, s.watches[l]) \in Seq(Watchers)
                        /\ Relocated(s, s.watchesBin[l]) \in Seq(Watchers)
    BY <1>1, RelocatedFacts
  <2> QED
    BY <2>1
<1>3. y \in Seq(Clauses) /\ x \in Seq(Entries)
    BY CopiesType, ReaddressedType
<1>4. t = [s EXCEPT !.ca = y, !.watches = f, !.watchesBin = g, !.trail = x]
    BY DEF garbageCollect, Copies, Readdressed, Relocated, NewRef, CopyOf
<1>5. /\ \A q \in Lits : f[q] = Relocated(s, s.watches[q])
      /\ \A q \in Lits : g[q] = Relocated(s, s.watchesBin[q])
    OBVIOUS
<1> HIDE DEF f, g, x, y
<1>6. /\ t \in Solvers
      /\ t.ca = y /\ t.trail = x /\ t.watches = f /\ t.watchesBin = g
      /\ t.trail_lim = s.trail_lim /\ t.qhead = s.qhead
      /\ t.nVars = s.nVars /\ t.ok = s.ok /\ t.order_heap = s.order_heap
      /\ t.simpDB_assigns = s.simpDB_assigns /\ t.coLBDBound = s.coLBDBound
    BY <1>2, <1>3, <1>4 DEF Solvers
<1> QED
    BY <1>5, <1>6 DEF CollectedFields, x, y

\* After the garbage is collected, clause o is what clause From(o) was.
Origin(s, o) == Nth(Moved(s), o)

LEMMA OriginFacts ==
    ASSUME NEW s \in Solvers, NEW t, CollectedFields(s, t)
    PROVE  /\ \A o \in DOMAIN t.ca : /\ Origin(s, o) \in Moved(s) /\ NewRef(s, Origin(s, o)) = o
                                     /\ t.ca[o].lits = s.ca[Origin(s, o)].lits
                                     /\ t.ca[o].list = s.ca[Origin(s, o)].list
                                     /\ t.ca[o].learnt = s.ca[Origin(s, o)].learnt
           /\ \A cr \in Moved(s) : NewRef(s, cr) \in DOMAIN t.ca /\ Origin(s, NewRef(s, cr)) = cr
           /\ \A o \in AttachedIn(t) : Origin(s, o) \in AttachedIn(s)
           /\ \A cr \in AttachedIn(s) : cr \in Moved(s) /\ NewRef(s, cr) \in AttachedIn(t)
<1>1. PICK n : n = Cardinality(Moved(s))
    OBVIOUS
<1>2. /\ \A i \in 1..n : Nth(Moved(s), i) \in Moved(s) /\ NewRef(s, Nth(Moved(s), i)) = i
      /\ \A cr \in Moved(s) : /\ NewRef(s, cr) \in 1..n
                              /\ Nth(Moved(s), NewRef(s, cr)) = cr
      /\ AttachedIn(s) \subseteq Moved(s)
    BY <1>1, MovedFacts
<1>3. /\ DOMAIN t.ca = 1..n
      /\ \A i \in 1..n : /\ t.ca[i].lits = s.ca[Nth(Moved(s), i)].lits
                         /\ t.ca[i].list = s.ca[Nth(Moved(s), i)].list
                         /\ t.ca[i].learnt = s.ca[Nth(Moved(s), i)].learnt
  <2>1. PICK y : y = Copies(s) /\ t.ca = y
    BY DEF CollectedFields
  <2> QED
    BY <1>1, <2>1, CopiesType
<1>4. Moved(s) \subseteq DOMAIN s.ca
    BY DEF Moved
<1>5. \A o \in AttachedIn(t) : Origin(s, o) \in AttachedIn(s)
    BY <1>2, <1>3, <1>4 DEF AttachedIn, Origin
<1>6. ASSUME NEW cr \in AttachedIn(s)
      PROVE  cr \in Moved(s) /\ NewRef(s, cr) \in AttachedIn(t)
  <2>1. cr \in Moved(s) /\ NewRef(s, cr) \in 1..n /\ Nth(Moved(s), NewRef(s, cr)) = cr
    BY <1>2
  <2>2. t.ca[NewRef(s, cr)].list = s.ca[cr].list
    BY <1>3, <2>1
  <2> QED
    BY <1>3, <2>1, <2>2 DEF AttachedIn
<1> QED
    BY <1>2, <1>3, <1>5, <1>6 DEF Origin

\* Watchers move with their clauses.
LEMMA CollectWatchers ==
    ASSUME NEW s, Consistent(s), WatchersOK(s), WatchedOK(s), NEW t, CollectedFields(s, t)
    PROVE  /\ WatchersOK(t) /\ WatchedOK(t)
           /\ \A q \in Lits : /\ DOMAIN t.watches[q] = DOMAIN s.watches[q]
                              /\ DOMAIN t.watchesBin[q] = DOMAIN s.watchesBin[q]
                              /\ \A k \in DOMAIN s.watches[q] :
                                     t.watches[q][k].blocker = s.watches[q][k].blocker
                              /\ \A k \in DOMAIN s.watchesBin[q] :
                                     t.watchesBin[q][k].blocker = s.watchesBin[q][k].blocker
<1>1. /\ s \in Solvers
      /\ s.watches \in [Lits -> Seq(Watchers)] /\ s.watchesBin \in [Lits -> Seq(Watchers)]
    BY SolverTypes DEF Consistent
<1>2. ASSUME NEW q \in Lits
      PROVE  /\ DOMAIN t.watches[q] = DOMAIN s.watches[q]
             /\ \A k \in DOMAIN s.watches[q] :
                    /\ t.watches[q][k].cref = NewRef(s, s.watches[q][k].cref)
                    /\ t.watches[q][k].blocker = s.watches[q][k].blocker
  <2>1. PICK ws \in Seq(Watchers), m \in {t.watches[q]} :
            ws = s.watches[q] /\ m = t.watches[q] /\ m = Relocated(s, ws)
    BY <1>1 DEF CollectedFields
  <2> QED
    BY <1>1, <2>1, RelocatedFacts
<1>3. ASSUME NEW q \in Lits
      PROVE  /\ DOMAIN t.watchesBin[q] = DOMAIN s.watchesBin[q]
             /\ \A k \in DOMAIN s.watchesBin[q] :
                    /\ t.watchesBin[q][k].cref = NewRef(s, s.watchesBin[q][k].cref)
                    /\ t.watchesBin[q][k].blocker = s.watchesBin[q][k].blocker
  <2>1. PICK ws \in Seq(Watchers), m \in {t.watchesBin[q]} :
            ws = s.watchesBin[q] /\ m = t.watchesBin[q] /\ m = Relocated(s, ws)
    BY <1>1 DEF CollectedFields
  <2> QED
    BY <1>1, <2>1, RelocatedFacts
<1>4. ASSUME NEW cr \in AttachedIn(s)
      PROVE  /\ NewRef(s, cr) \in AttachedIn(t) /\ t.ca[NewRef(s, cr)].lits = s.ca[cr].lits
             /\ Origin(s, NewRef(s, cr)) = cr
    BY <1>1, OriginFacts
<1>5. ASSUME NEW q \in Lits, NEW k \in DOMAIN t.watches[q]
      PROVE  Watches(t, q, t.watches[q][k]) /\ s.watches[q][k].cref \in AttachedIn(s)
  <2>1. PICK v, w : v = s.watches[q][k] /\ w = t.watches[q][k]
    OBVIOUS
  <2>2. Watches(s, q, v) /\ w.cref = NewRef(s, v.cref) /\ w.blocker = v.blocker
    BY <1>2, <2>1 DEF WatchersOK
  <2>3. Watches(t, q, w) /\ v.cref \in AttachedIn(s)
    BY <1>4, <2>2 DEF Watches
  <2> QED
    BY <2>1, <2>3
<1>6. ASSUME NEW q \in Lits, NEW k \in DOMAIN t.watchesBin[q]
      PROVE  WatchesBinary(t, q, t.watchesBin[q][k])
  <2>1. PICK v, w : v = s.watchesBin[q][k] /\ w = t.watchesBin[q][k]
    OBVIOUS
  <2>2. WatchesBinary(s, q, v) /\ w.cref = NewRef(s, v.cref) /\ w.blocker = v.blocker
    BY <1>3, <2>1 DEF WatchersOK
  <2>3. WatchesBinary(t, q, w)
    BY <1>4, <2>2 DEF WatchesBinary
  <2> QED
    BY <2>1, <2>3
<1>7. ASSUME NEW q \in Lits, NEW k \in DOMAIN t.watches[q], NEW m \in DOMAIN t.watches[q],
             t.watches[q][k].cref = t.watches[q][m].cref
      PROVE  k = m
  <2>1. s.watches[q][k].cref = s.watches[q][m].cref
    BY <1>2, <1>4, <1>5, <1>7
  <2> QED
    BY <1>2, <2>1 DEF WatchersOK
<1>8. WatchersOK(t)
    BY <1>5, <1>6, <1>7 DEF WatchersOK
<1>9. WatchedOK(t)
  <2> SUFFICES ASSUME NEW o \in AttachedIn(t), NEW k \in 1..2, NEW d, d = t.ca[o].lits
               PROVE  /\ Len(d) = 2 => Listed(t.watchesBin[Neg(d[k])], o)
                      /\ Len(d) > 2 => Listed(t.watches[Neg(d[k])], o)
    BY DEF WatchedOK
  <2>1. PICK cr \in AttachedIn(s) : NewRef(s, cr) = o /\ d = s.ca[cr].lits
    BY <1>1, OriginFacts DEF AttachedIn
  <2>2. PICK q \in Lits : q = Neg(d[k])
    <3>1. d \in Seq(Lits) /\ Len(d) >= 2
      BY <1>1, <2>1, SolverTypes DEF Consistent, ClausesOK, AttachedIn
    <3>2. d[k] \in Lits
      BY <3>1
    <3> QED
      BY <3>2, LitFacts
  <2>3. ASSUME Len(d) = 2
        PROVE  Listed(t.watchesBin[q], o)
    <3>1. Listed(s.watchesBin[q], cr)
      BY <2>1, <2>2, <2>3 DEF WatchedOK
    <3> QED
      BY <1>3, <2>1, <3>1 DEF Listed
  <2>4. ASSUME Len(d) > 2
        PROVE  Listed(t.watches[q], o)
    <3>1. Listed(s.watches[q], cr)
      BY <2>1, <2>2, <2>4 DEF WatchedOK
    <3> QED
      BY <1>2, <2>1, <3>1 DEF Listed
  <2> QED
    BY <2>2, <2>3, <2>4
<1> QED
    BY <1>2, <1>3, <1>8, <1>9

\* Memory is compacted, and everything finds what it refers to.
LEMMA CollectKeeps ==
    ASSUME NEW s, Consistent(s), WatchersOK(s), WatchedOK(s), NEW t, t = garbageCollect(s)
    PROVE  Slimmer(s, t)
<1>1. /\ s \in Solvers /\ TrailOK(s) /\ HeapOK(s)
      /\ \A i \in DOMAIN s.trail : s.trail[i].reason \in Nat /\ s.trail[i].lit \in Lits
    BY SolverTypes DEF Consistent
<1>2. CollectedFields(s, t)
    BY <1>1, CollectFields
<1>3. /\ t \in Solvers /\ t.trail_lim = s.trail_lim /\ t.qhead = s.qhead
      /\ t.nVars = s.nVars /\ t.ok = s.ok /\ t.order_heap = s.order_heap
    BY <1>2 DEF CollectedFields
<1>4. /\ DOMAIN t.trail = DOMAIN s.trail /\ Len(t.trail) = Len(s.trail)
      /\ \A i \in DOMAIN s.trail :
             /\ t.trail[i].lit = s.trail[i].lit /\ t.trail[i].level = s.trail[i].level
             /\ t.trail[i].reason = NewRef(s, s.trail[i].reason)
  <2>1. PICK x : x = Readdressed(s) /\ t.trail = x
    BY <1>2 DEF CollectedFields
  <2> QED
    BY <1>1, <2>1, ReaddressedType
<1>5. /\ Fixed(t) = Fixed(s) /\ TrailOK(t) /\ HeapOK(t) /\ DecisionLevel(t) = DecisionLevel(s)
  <2>1. SameEntries(s, t)
    BY <1>4 DEF SameEntries
  <2> QED
    BY <1>1, <1>3, <2>1, EntriesSame
<1>6. \A i \in DOMAIN s.trail : t.trail[i].reason = CRef_Undef <=> s.trail[i].reason = CRef_Undef
    BY <1>1, <1>4, MovedFacts DEF CRef_Undef
<1>7. /\ \A o \in DOMAIN t.ca : /\ Origin(s, o) \in Moved(s) /\ NewRef(s, Origin(s, o)) = o
                                /\ t.ca[o].lits = s.ca[Origin(s, o)].lits
                                /\ t.ca[o].list = s.ca[Origin(s, o)].list
                                /\ t.ca[o].learnt = s.ca[Origin(s, o)].learnt
      /\ \A cr \in Moved(s) : NewRef(s, cr) \in DOMAIN t.ca /\ Origin(s, NewRef(s, cr)) = cr
      /\ \A o \in AttachedIn(t) : Origin(s, o) \in AttachedIn(s)
      /\ \A cr \in AttachedIn(s) : cr \in Moved(s) /\ NewRef(s, cr) \in AttachedIn(t)
    BY <1>1, <1>2, OriginFacts
<1>8. /\ \A o \in AttachedIn(t) : /\ Origin(s, o) \in AttachedIn(s) /\ o \in DOMAIN t.ca
                                  /\ t.ca[o].lits = s.ca[Origin(s, o)].lits
      /\ \A cr \in AttachedIn(s) : /\ NewRef(s, cr) \in AttachedIn(t)
                                   /\ t.ca[NewRef(s, cr)].lits = s.ca[cr].lits
                                   /\ t.ca[NewRef(s, cr)].list = s.ca[cr].list
    BY <1>7 DEF AttachedIn
<1>9. ClausesOK(t)
  <2> SUFFICES ASSUME NEW o \in AttachedIn(t)
               PROVE  /\ Len(t.ca[o].lits) >= 2 /\ Distinct(t.ca[o].lits)
                      /\ \A i \in DOMAIN t.ca[o].lits : Var(t.ca[o].lits[i]) <= t.nVars
                      /\ t.ca[o].learnt => t.ca[o].list # "clauses"
    BY DEF ClausesOK
  <2>1. PICK cr \in AttachedIn(s) : /\ t.ca[o].lits = s.ca[cr].lits
                                    /\ t.ca[o].list = s.ca[cr].list
                                    /\ t.ca[o].learnt = s.ca[cr].learnt
    BY <1>7 DEF AttachedIn
  <2> QED
    BY <1>3, <2>1 DEF Consistent, ClausesOK
<1>10. DecisionsFirst(t)
    BY <1>3, <1>4, <1>6 DEF Consistent, DecisionsFirst
<1>11. ReasonsOK(t)
  <2> SUFFICES ASSUME NEW i \in DOMAIN s.trail, t.trail[i].reason # CRef_Undef,
                      t.trail[i].level > 0
               PROVE  ReasonOK(t, i)
    BY <1>4 DEF ReasonsOK
  <2>1. ReasonOK(s, i)
    BY <1>4, <1>6 DEF Consistent, ReasonsOK
  <2>2. PICK cr \in AttachedIn(s) : cr = s.trail[i].reason
    BY <2>1 DEF ReasonOK
  <2>3. PICK o \in AttachedIn(t) : /\ o = NewRef(s, cr) /\ t.trail[i].reason = o
                                   /\ t.ca[o].lits = s.ca[cr].lits
    BY <1>4, <1>8, <2>2
  <2>4. PICK c : c = s.ca[cr].lits
    OBVIOUS
  <2>5. /\ s.trail[i].lit = c[1] \/ (Len(c) = 2 /\ s.trail[i].lit = c[2])
        /\ \A l \in ToSet(c) \ {s.trail[i].lit} : \E j \in 1 .. i - 1 : s.trail[j].lit = Neg(l)
    BY <2>1, <2>2, <2>4 DEF ReasonOK
  <2>6. \A l \in ToSet(c) \ {s.trail[i].lit} : \E j \in 1 .. i - 1 : t.trail[j].lit = Neg(l)
    <3>1. \A j \in 1 .. i - 1 : j \in DOMAIN s.trail
      BY <1>1, SolverTypes
    <3> QED
      BY <1>4, <2>5, <3>1
  <2> QED
    BY <1>4, <2>3, <2>4, <2>5, <2>6 DEF ReasonOK
<1>12. Consistent(t)
    BY <1>3, <1>5, <1>9, <1>10, <1>11 DEF Consistent
<1>13. /\ WatchersOK(t) /\ WatchedOK(t)
       /\ \A q \in Lits : /\ DOMAIN t.watches[q] = DOMAIN s.watches[q]
                          /\ DOMAIN t.watchesBin[q] = DOMAIN s.watchesBin[q]
                          /\ \A k \in DOMAIN s.watches[q] :
                                 t.watches[q][k].blocker = s.watches[q][k].blocker
                          /\ \A k \in DOMAIN s.watchesBin[q] :
                                 t.watchesBin[q][k].blocker = s.watchesBin[q][k].blocker
    BY ONLY <1>2, Consistent(s), WatchersOK(s), WatchedOK(s), CollectWatchers
<1>14. ASSUME NEW n, Visited(s, n)
       PROVE  Visited(t, n)
  <2>1. ASSUME NEW i \in DOMAIN s.trail, NEW v, NEW w, v.blocker = w.blocker, Blocked(s, i, v)
        PROVE  Blocked(t, i, w)
    BY <1>4, <2>1 DEF Blocked
  <2>2. ASSUME NEW i \in DOMAIN s.trail, i <= n, NEW p \in Lits, p = s.trail[i].lit
        PROVE  /\ \A k \in DOMAIN t.watches[p] : Blocked(t, i, t.watches[p][k])
               /\ \A k \in DOMAIN t.watchesBin[p] : Blocked(t, i, t.watchesBin[p][k])
    <3>1. /\ \A k \in DOMAIN s.watches[p] : Blocked(s, i, s.watches[p][k])
          /\ \A k \in DOMAIN s.watchesBin[p] : Blocked(s, i, s.watchesBin[p][k])
      BY <1>14, <2>2 DEF Visited
    <3> QED
      BY <1>13, <2>1, <3>1
  <2>3. \A i \in DOMAIN t.trail : i \in DOMAIN s.trail /\ t.trail[i].lit = s.trail[i].lit /\ s.trail[i].lit \in Lits
    BY <1>1, <1>4
  <2> QED
    BY <2>2, <2>3 DEF Visited
<1>15. ASSUME NEW lits, AssumptionsFirst(s, lits)
       PROVE  AssumptionsFirst(t, lits)
    BY <1>3, <1>4, <1>6, <1>15 DEF AssumptionsFirst
<1>16. ASSUME NEW F, Sound(s, F)
       PROVE  Sound(t, F)
    BY <1>3, <1>5, <1>8, <1>16 DEF Sound, Satisfies
<1>17. ASSUME NEW F, Complete(s, F)
       PROVE  Complete(t, F)
  <2> SUFFICES ASSUME NEW A \in Oracle!Assignments(s.nVars),
                      Satisfies(A, t, ListOf(t, "clauses"))
               PROVE  Satisfies(A, s, ListOf(s, "clauses"))
    BY <1>3, <1>17 DEF Complete
  <2>1. ASSUME NEW cr \in ListOf(s, "clauses")
        PROVE  ToSet(s.ca[cr].lits) \cap A # {}
    <3>1. cr \in AttachedIn(s) /\ s.ca[cr].list = "clauses"
      BY DEF ListOf, AttachedIn
    <3>2. PICK o \in AttachedIn(t) : t.ca[o].lits = s.ca[cr].lits /\ t.ca[o].list = "clauses"
      BY <1>8, <3>1
    <3>3. o \in ListOf(t, "clauses")
      BY <3>2 DEF ListOf, AttachedIn
    <3> QED
      BY <3>2, <3>3 DEF Satisfies
  <2> QED
    BY <1>5, <2>1 DEF Satisfies
<1> QED
    BY ONLY <1>3, <1>4, <1>12, <1>13, <1>14, <1>15, <1>16, <1>17 DEF Slimmer

LEMMA CollectedKeeps ==
    ASSUME NEW s, Consistent(s), WatchersOK(s), WatchedOK(s), NEW t \in Collected(s)
    PROVE  Slimmer(s, t)
<1>1. t = s \/ t = garbageCollect(s)
    BY DEF Collected
<1> QED
    BY <1>1, SlimmerSelf, CollectKeeps

\* simplify
LEMMA SimplifyKeeps ==
    ASSUME NEW s, Consistent(s), WatchersOK(s), WatchedOK(s), DecisionLevel(s) = 0,
           NEW t \in Simplified(s)
    PROVE  Slimmer(s, t)
<1>1. PICK a : a = removeSatisfied(s, "learnts")
    OBVIOUS
<1>2. /\ Slimmer(s, a) /\ Consistent(a) /\ WatchersOK(a) /\ WatchedOK(a)
      /\ DecisionLevel(a) = 0
    BY <1>1, SatisfiedGoes, SlimmerSame
<1>3. PICK b : b = removeSatisfied(a, "permanentLearnts")
    OBVIOUS
<1>4. /\ Slimmer(a, b) /\ Consistent(b) /\ WatchersOK(b) /\ WatchedOK(b)
      /\ DecisionLevel(b) = 0
    BY <1>2, <1>3, SatisfiedGoes, SlimmerSame
<1>5. PICK c : c = removeSatisfied(b, "clauses")
    OBVIOUS
<1>6. /\ Slimmer(b, c) /\ Consistent(c) /\ WatchersOK(c) /\ WatchedOK(c)
      /\ DecisionLevel(c) = 0
    BY <1>4, <1>5, SatisfiedGoes, SlimmerSame
<1> DEFINE free == {v \in 1..s.nVars : IsUndef(s, v)}
           n == Len(s.trail)
<1>7. PICK u \in Collected(c) : t = [u EXCEPT !.order_heap = free, !.simpDB_assigns = n]
    BY <1>1, <1>3, <1>5 DEF Simplified
<1>8. Slimmer(c, u)
    BY <1>6, CollectedKeeps
<1>9. Slimmer(s, u)
    BY <1>2, <1>4, <1>6, <1>8, SlimmerTrans
<1>10. /\ Consistent(u) /\ WatchersOK(u) /\ WatchedOK(u) /\ u \in Solvers
       /\ u.nVars = s.nVars
       /\ \A l : IsUndef(s, l) <=> IsUndef(u, l)
    BY <1>9 DEF Slimmer, Consistent, IsUndef, IsFalse, IsTrue
<1>11. free \in SUBSET Vars /\ n \in Int
  <2>1. s \in Solvers /\ s.nVars \in 0..MaxVars /\ n \in Nat
    BY SolverTypes DEF Consistent
  <2> QED
    BY <2>1, BoundsAssumption DEF Vars
<1>12. /\ \A v \in 1..u.nVars : IsUndef(u, v) => v \in free
       /\ free \subseteq 1..u.nVars
    BY <1>10
<1> HIDE DEF free, n
<1>13. /\ t \in Solvers /\ t.order_heap = free
       /\ t.trail = u.trail /\ t.trail_lim = u.trail_lim /\ t.qhead = u.qhead
       /\ t.nVars = u.nVars /\ t.ok = u.ok /\ t.ca = u.ca
       /\ t.watches = u.watches /\ t.watchesBin = u.watchesBin
    BY <1>7, <1>10, <1>11 DEF Solvers
<1>14. Consistent(t)
  <2>1. TrailOK(u) /\ DecisionsFirst(u) /\ ReasonsOK(u) /\ ClausesOK(u)
    BY <1>10 DEF Consistent
  <2>2. TrailOK(t) /\ DecisionsFirst(t)
    BY <1>13, <2>1 DEF TrailOK, DecisionsFirst, DecisionLevel
  <2>3. AttachedIn(t) = AttachedIn(u)
    BY <1>13 DEF AttachedIn
  <2>4. ClausesOK(t)
    BY <1>13, <2>1, <2>3 DEF ClausesOK
  <2>5. ReasonsOK(t)
    BY SMTT(30), <1>13, <2>1, <2>3 DEF ReasonsOK, ReasonOK
  <2>6. HeapOK(t)
    BY <1>12, <1>13, SameTrail DEF HeapOK
  <2> QED
    BY <1>13, <2>2, <2>4, <2>5, <2>6 DEF Consistent
<1>15. /\ WatchersOK(t) /\ WatchedOK(t)
       /\ \A k : Visited(u, k) => Visited(t, k)
       /\ \A lits : AssumptionsFirst(u, lits) => AssumptionsFirst(t, lits)
       /\ \A F : Sound(u, F) => Sound(t, F)
       /\ \A F : Complete(u, F) => Complete(t, F)
    BY <1>10, <1>13, SameClauses, SameTrail, SameAssumptions, SameMeaning
<1>16. Slimmer(u, t)
    BY <1>13, <1>14, <1>15 DEF Slimmer
<1> QED
    BY <1>9, <1>16, SlimmerTrans

-----------------------------------------------------------------------------
(***************************************************************************)
(* adaptSolver.                                                            *)
(***************************************************************************)

\* adaptSolver
KeptFor(bound, c) ==
    IF c.list = "learnts" /\ bound > 0 /\ c.lbd <= bound
    THEN [c EXCEPT !.list = "permanentLearnts"] ELSE c
Regraded(s, bound) ==
    [s EXCEPT !.coLBDBound = bound, !.ca = [cr \in DOMAIN @ |-> KeptFor(bound, @[cr])]]

LEMMA RegradedKeeps ==
    ASSUME NEW s, Consistent(s), WatchersOK(s), WatchedOK(s), NEW bound \in Nat,
           NEW t, t = Regraded(s, bound)
    PROVE  Slimmer(s, t)
<1> DEFINE y == [cr \in DOMAIN s.ca |-> KeptFor(bound, s.ca[cr])]
<1>1. s \in Solvers /\ s.ca \in Seq(Clauses)
    BY SolverTypes DEF Consistent
<1>2. ASSUME NEW c \in Clauses
      PROVE  /\ KeptFor(bound, c) \in Clauses /\ KeptFor(bound, c).lits = c.lits
             /\ KeptFor(bound, c).learnt = c.learnt
             /\ KeptFor(bound, c).list = "freed" <=> c.list = "freed"
             /\ c.list = "clauses" <=> KeptFor(bound, c).list = "clauses"
    BY DEF KeptFor, Clauses, Lists
<1>3. ASSUME NEW o \in DOMAIN s.ca
      PROVE  /\ y[o] \in Clauses /\ y[o].lits = s.ca[o].lits
             /\ y[o].learnt = s.ca[o].learnt
             /\ y[o].list = "freed" <=> s.ca[o].list = "freed"
             /\ s.ca[o].list = "clauses" <=> y[o].list = "clauses"
  <2>1. s.ca[o] \in Clauses
    BY <1>1
  <2> QED
    BY <1>2, <2>1
<1>4. y \in Seq(Clauses) /\ DOMAIN y = DOMAIN s.ca
  <2>1. PICK n \in Nat : n = Len(s.ca) /\ DOMAIN s.ca = 1..n
    BY <1>1
  <2>2. y = [i \in 1..n |-> y[i]] /\ DOMAIN y = 1..n
    BY <2>1
  <2>3. y \in [1..n -> Clauses]
    <3> HIDE DEF y
    <3> QED
      BY <1>3, <2>1, <2>2
  <2> HIDE DEF y
  <2> QED
    BY <2>1, <2>3
<1>5. t = [s EXCEPT !.coLBDBound = bound, !.ca = y]
    BY <1>1 DEF Regraded, Solvers
<1> HIDE DEF y
<1>6. /\ t \in Solvers /\ t.ca = y
      /\ t.trail = s.trail /\ t.trail_lim = s.trail_lim /\ t.qhead = s.qhead
      /\ t.nVars = s.nVars /\ t.order_heap = s.order_heap /\ t.ok = s.ok
      /\ t.watches = s.watches /\ t.watchesBin = s.watchesBin
    BY <1>1, <1>4, <1>5 DEF Solvers
<1>7. \A o \in AttachedIn(s) : s.ca[o].learnt => s.ca[o].list # "clauses"
    BY DEF Consistent, ClausesOK
<1> QED
    BY <1>3, <1>4, <1>6, <1>7, Remarked

LEMMA AdaptKeeps ==
    ASSUME NEW s, Consistent(s), WatchersOK(s), WatchedOK(s), DecisionLevel(s) = 0,
           NEW few \in BOOLEAN, NEW many \in BOOLEAN, NEW t \in Adapted(s, few, many)
    PROVE  Slimmer(s, t)
<1>1. PICK bound : bound = CASE many -> 3 [] few /\ ~many -> 4 [] OTHER -> s.coLBDBound
    OBVIOUS
<1>2. bound \in Nat
  <2>1. s.coLBDBound \in Nat
    BY SolverTypes DEF Consistent
  <2>2. CASE many
    BY <1>1, <2>2
  <2>3. CASE ~many /\ few
    BY <1>1, <2>3
  <2>4. CASE ~many /\ ~few
    BY <1>1, <2>1, <2>4
  <2> QED
    BY <2>2, <2>3, <2>4
<1>3. PICK u : u = Regraded(s, bound)
    OBVIOUS
<1>4. /\ Slimmer(s, u) /\ Consistent(u) /\ WatchersOK(u) /\ WatchedOK(u)
      /\ DecisionLevel(u) = 0
    BY <1>2, <1>3, RegradedKeeps, SlimmerSame
<1>5. \/ t = u
      \/ t \in Collected(RemoveAll(u, ListOf(u, "learnts")))
    BY <1>1, <1>3 DEF Adapted, Regraded, KeptFor
<1>6. CASE t = u
    BY <1>4, <1>6
<1>7. CASE t \in Collected(RemoveAll(u, ListOf(u, "learnts")))
  <2>1. PICK v, crs : crs = ListOf(u, "learnts") /\ v = RemoveAll(u, crs)
    OBVIOUS
  <2>2. \A cr \in crs : MayGo(u, cr)
    BY <1>4, <2>1 DEF MayGo, ListOf, AttachedIn
  <2>3. Slimmer(u, v)
    BY <1>4, <2>1, <2>2, RemoveAllKeeps
  <2>4. Slimmer(v, t)
    BY <1>7, <2>1, <2>3, CollectedKeeps DEF Slimmer
  <2> QED
    BY <1>4, <2>3, <2>4, SlimmerTrans
<1> QED
    BY <1>5, <1>6, <1>7

-----------------------------------------------------------------------------
(***************************************************************************)
(* The steps of Spec: calls, and what a step of a search may change.       *)
(***************************************************************************)

\* A call more creates a variable or does not.
LEMMA CreatedStep ==
    ASSUME NEW script, NEW k \in Nat
    PROVE  /\ Created(script, k) \in Nat
           /\ script[k + 1].op = "newVar" => Created(script, k + 1) = Created(script, k) + 1
           /\ script[k + 1].op # "newVar" => Created(script, k + 1) = Created(script, k)
<1> DEFINE I(n) == {i \in 1..n : script[i].op = "newVar"}
<1>1. Created(script, k) = Cardinality(I(k)) /\ Created(script, k + 1) = Cardinality(I(k + 1))
    BY DEF Created
<1>2. 1..(k + 1) = (1..k) \cup {k + 1} /\ k + 1 \notin 1..k
    OBVIOUS
<1>3. IsFiniteSet(I(k)) /\ k + 1 \notin I(k)
  <2>1. IsFiniteSet(1..k)
    BY FS_Interval
  <2>2. I(k) \in SUBSET (1..k) /\ k + 1 \notin I(k)
    BY <1>2
  <2> QED
    BY <2>1, <2>2, PartsOfFinite
<1>4. Cardinality(I(k)) \in Nat
    BY <1>3, FS_CardinalityType
<1>5. ASSUME script[k + 1].op = "newVar"
      PROVE  Cardinality(I(k + 1)) = Cardinality(I(k)) + 1
  <2>1. I(k + 1) = I(k) \cup {k + 1}
    BY <1>2, <1>5
  <2> QED
    BY <2>1, <1>3, FS_AddElement
<1>6. ASSUME script[k + 1].op # "newVar"
      PROVE  I(k + 1) = I(k)
    BY <1>2, <1>6
<1> QED
    BY <1>1, <1>4, <1>5, <1>6

LEMMA CreatedGrows ==
    ASSUME NEW script, NEW k \in Nat, NEW n \in Nat, k <= n
    PROVE  Created(script, k) <= Created(script, n)
<1> DEFINE I(m) == {i \in 1..m : script[i].op = "newVar"}
<1>1. Created(script, k) = Cardinality(I(k)) /\ Created(script, n) = Cardinality(I(n))
    BY DEF Created
<1>2. IsFiniteSet(I(n))
  <2>1. IsFiniteSet(1..n)
    BY FS_Interval
  <2>2. I(n) \in SUBSET (1..n)
    OBVIOUS
  <2> QED
    BY <2>1, <2>2, PartsOfFinite
<1>3. I(k) \in SUBSET I(n)
    OBVIOUS
<1> QED
    BY <1>1, <1>2, <1>3, PartsOfFinite

\* The call that is served, and what is left after it.
LEMMA ServeCall ==
    ASSUME NEW cs, NEW n, Remaining(cs, n), cs # <<>>
    PROVE  /\ Head(cs) \in Calls
           /\ Head(cs).op = "newVar" => n + 1 <= MaxVars /\ Remaining(Tail(cs), n + 1)
           /\ Head(cs).op # "newVar" =>
                  /\ Remaining(Tail(cs), n)
                  /\ Head(cs).lits \in Seq(Lits)
                  /\ \A l \in ToSet(Head(cs).lits) : Var(l) <= n
<1>1. PICK script \in Scripts : \E k \in 0..Len(script) :
          cs = SubSeq(script, k + 1, Len(script)) /\ n = Created(script, k)
    BY DEF Remaining
<1>2. WellFormed(script)
    BY ScriptsAssumption
<1>3. PICK R : R = Calls
    OBVIOUS
<1>4. script \in Seq(R) /\ Len(script) \in Nat
    BY <1>2, <1>3 DEF WellFormed
<1>5. PICK k \in 0..Len(script) : cs = SubSeq(script, k + 1, Len(script)) /\ n = Created(script, k)
    BY <1>1
<1>6. k \in Nat /\ k + 1 \in 1..Len(script)
    BY <1>4, <1>5
<1>7. Head(cs) = script[k + 1] /\ Tail(cs) = SubSeq(script, (k + 1) + 1, Len(script))
    BY <1>4, <1>5, <1>6
<1>8. script[k + 1] \in Calls
    BY <1>3, <1>4, <1>6
<1>9. /\ script[k + 1].op = "newVar" => Created(script, k + 1) = n + 1
      /\ script[k + 1].op # "newVar" => Created(script, k + 1) = n
    BY <1>5, <1>6, CreatedStep
<1>10. Created(script, k + 1) <= Created(script, Len(script)) /\ Created(script, Len(script)) <= MaxVars
    BY <1>2, <1>4, <1>6, CreatedGrows DEF WellFormed
<1>11. Remaining(Tail(cs), Created(script, k + 1))
  <2>1. PICK m : m = k + 1
    OBVIOUS
  <2>2. m \in 0..Len(script) /\ Tail(cs) = SubSeq(script, m + 1, Len(script))
    BY <1>4, <1>6, <1>7, <2>1
  <2>3. Remaining(Tail(cs), Created(script, m))
    BY ONLY script \in Scripts, <2>2 DEF Remaining
  <2> QED
    BY <2>1, <2>3
<1>12. script[k + 1].op # "newVar" => \A l \in ToSet(script[k + 1].lits) : Var(l) <= n
    BY <1>2, <1>4, <1>6, <1>9 DEF WellFormed
<1>13. script[k + 1].op # "newVar" => script[k + 1].lits \in Seq(Lits)
    BY <1>8 DEF Calls
<1>14. Created(script, k + 1) \in Nat /\ Created(script, Len(script)) \in Nat /\ MaxVars \in Nat
    BY <1>4, <1>6, CreatedStep, BoundsAssumption
<1> QED
    BY <1>7, <1>8, <1>9, <1>10, <1>11, <1>12, <1>13, <1>14

\* What every step of a search keeps.
Continues(s, t) ==
    /\ Consistent(t) /\ WatchersOK(t) /\ WatchedOK(t)
    /\ t.nVars = s.nVars /\ t.ok = s.ok
    /\ AssumptionsFirst(s, Call.lits) => AssumptionsFirst(t, Call.lits)
    /\ \A F : Sound(s, F) => Sound(t, F)
    /\ \A F : Complete(s, F) => Complete(t, F)

LEMMA ContinuesTrans ==
    ASSUME NEW s, NEW t, NEW u, Continues(s, t), Continues(t, u)
    PROVE  Continues(s, u)
    BY DEF Continues

LEMMA ContinuesSelf ==
    ASSUME NEW s, Consistent(s), WatchersOK(s), WatchedOK(s)
    PROVE  Continues(s, s)
    BY DEF Continues

LEMMA ContinuesLearned ==
    ASSUME NEW s, NEW t, Learned(s, t)
    PROVE  Continues(s, t) /\ Visited(t, t.qhead)
    BY DEF Continues, Learned

LEMMA ContinuesSlimmer ==
    ASSUME NEW s, NEW t, Slimmer(s, t)
    PROVE  /\ Continues(s, t) /\ DecisionLevel(t) = DecisionLevel(s)
           /\ t.qhead = s.qhead /\ DOMAIN t.trail = DOMAIN s.trail
           /\ \A n : Visited(s, n) => Visited(t, n)
    BY DEF Continues, Slimmer, DecisionLevel

\* Back to the given level, or there already.
LEMMA ContinuesCancelled ==
    ASSUME NEW s, Consistent(s), WatchersOK(s), WatchedOK(s),
           NEW t, t = cancelUntil(s, 0)
    PROVE  /\ Continues(s, t) /\ DecisionLevel(t) = 0 /\ Fixed(t) = Fixed(s)
           /\ t.qhead <= s.qhead
           /\ \A k \in Nat : Visited(s, k) /\ t.qhead <= k => Visited(t, t.qhead)
           /\ s.qhead = Len(s.trail) \/ DecisionLevel(s) > 0 => t.qhead = Len(t.trail)
           /\ DecisionLevel(s) > 0 => t.qhead <= LastLim(s)
<1>1. s \in Solvers /\ TrailOK(s)
    BY DEF Consistent
<1>2. DecisionLevel(s) \in Nat /\ s.qhead \in Nat /\ 0 \in Nat
    BY <1>1, SolverTypes
<1>3. CASE DecisionLevel(s) = 0
  <2>1. t = s
    BY <1>3 DEF cancelUntil
  <2>2. \A k \in Nat : Visited(s, k) /\ s.qhead <= k => Visited(s, s.qhead)
    BY <1>1, <1>2, VisitedLess
  <2> QED
    BY <1>2, <1>3, <2>1, <2>2, ContinuesSelf
<1>4. CASE DecisionLevel(s) > 0
  <2>1. PICK n : n = s.trail_lim[0 + 1]
    OBVIOUS
  <2>2. /\ Consistent(t)
        /\ n \in Nat /\ n <= Len(s.trail) /\ t.qhead = n /\ Len(t.trail) = n
        /\ DecisionLevel(t) = 0
        /\ t.nVars = s.nVars /\ t.ok = s.ok
        /\ t.ca = s.ca /\ t.watches = s.watches /\ t.watchesBin = s.watchesBin
        /\ Fixed(t) = Fixed(s)
        /\ \A k \in Nat : Visited(s, k) /\ n <= k => Visited(t, n)
        /\ \A lits : AssumptionsFirst(s, lits) => AssumptionsFirst(t, lits)
    BY <1>2, <1>4, <2>1, CancelKeeps
  <2>3. WatchersOK(t) /\ WatchedOK(t)
    BY ONLY <2>2, WatchersOK(s), WatchedOK(s), SameClauses
  <2>4. \A F : (Sound(s, F) => Sound(t, F)) /\ (Complete(s, F) => Complete(t, F))
    BY ONLY <2>2, SameMeaning
  <2>5. Continues(s, t)
    BY ONLY <2>2, <2>3, <2>4 DEF Continues
  <2>6. n <= s.qhead /\ n <= LastLim(s)
    <3>1. DOMAIN s.trail_lim = 1..DecisionLevel(s) /\ DecisionLevel(s) \in Nat
        BY <1>1, SolverTypes
    <3>2. 1 \in DOMAIN s.trail_lim /\ DecisionLevel(s) \in DOMAIN s.trail_lim
          /\ 1 <= DecisionLevel(s)
        BY <1>4, <3>1
    <3>3. s.trail_lim[1] <= s.qhead /\ s.trail_lim[1] <= s.trail_lim[DecisionLevel(s)]
        BY <1>1, <3>2 DEF TrailOK
    <3> QED
        BY <1>4, <2>1, <3>3 DEF LastLim
  <2> QED
    BY ONLY <2>2, <2>5, <2>6
<1> QED
    BY <1>2, <1>3, <1>4

LEMMA OkFields ==
    ASSUME NEW s, Consistent(s), NEW b \in BOOLEAN, NEW t, t = [s EXCEPT !.ok = b]
    PROVE  /\ t \in Solvers /\ t.ok = b /\ t.nVars = s.nVars
           /\ t.ca = s.ca /\ t.watches = s.watches /\ t.watchesBin = s.watchesBin
           /\ t.trail = s.trail /\ t.trail_lim = s.trail_lim /\ t.qhead = s.qhead
           /\ t.order_heap = s.order_heap
    BY DEF Consistent, Solvers

\* Whether the solver is ok changes nothing else.
LEMMA OkChanges ==
    ASSUME NEW s, Consistent(s), NEW b \in BOOLEAN, NEW t, t = [s EXCEPT !.ok = b]
    PROVE  /\ Consistent(t) /\ t.ok = b /\ t.nVars = s.nVars
           /\ t.qhead = s.qhead /\ t.trail = s.trail /\ DecisionLevel(t) = DecisionLevel(s)
           /\ WatchersOK(s) => WatchersOK(t)
           /\ WatchedOK(s) => WatchedOK(t)
           /\ \A n : Visited(s, n) => Visited(t, n)
           /\ \A lits : AssumptionsFirst(s, lits) => AssumptionsFirst(t, lits)
           /\ \A F : (Sound(s, F) => Sound(t, F)) /\ (Complete(s, F) => Complete(t, F))
<1>1. /\ t \in Solvers /\ t.ok = b /\ t.nVars = s.nVars
      /\ t.ca = s.ca /\ t.watches = s.watches /\ t.watchesBin = s.watchesBin
      /\ t.trail = s.trail /\ t.trail_lim = s.trail_lim /\ t.qhead = s.qhead
      /\ t.order_heap = s.order_heap
    BY OkFields
<1>2. Fixed(t) = Fixed(s) /\ \A n : Visited(s, n) => Visited(t, n)
    BY ONLY <1>1, SameTrail
<1>3. DecisionLevel(t) = DecisionLevel(s) /\ AttachedIn(t) = AttachedIn(s)
    BY ONLY <1>1 DEF DecisionLevel, AttachedIn
<1>4. TrailOK(s) => TrailOK(t)
    BY ONLY <1>1, <1>3 DEF TrailOK
<1>5. DecisionsFirst(s) => DecisionsFirst(t)
    BY ONLY <1>1 DEF DecisionsFirst
<1>6. HeapOK(s) => HeapOK(t)
    BY ONLY <1>1 DEF HeapOK, IsUndef, IsTrue, IsFalse
<1>7. ClausesOK(s) => ClausesOK(t)
    BY ONLY <1>1, <1>3 DEF ClausesOK
<1>8. ReasonsOK(s) => ReasonsOK(t)
    BY ONLY SMTT(30), <1>1, <1>3 DEF ReasonsOK, ReasonOK
<1>9. Consistent(t)
    BY <1>1, <1>4, <1>5, <1>6, <1>7, <1>8 DEF Consistent
<1>10. (WatchersOK(s) => WatchersOK(t)) /\ (WatchedOK(s) => WatchedOK(t))
    BY ONLY <1>1, SameClauses
<1>11. \A F : (Sound(s, F) => Sound(t, F)) /\ (Complete(s, F) => Complete(t, F))
    BY ONLY <1>1, <1>2, SameMeaning
<1>12. \A lits : AssumptionsFirst(s, lits) => AssumptionsFirst(t, lits)
    BY ONLY <1>1, SameAssumptions
<1> QED
    BY ONLY <1>1, <1>2, <1>3, <1>9, <1>10, <1>11, <1>12

\* A step of a search.
LEMMA Proceeds ==
    ASSUME IInv, S.ok, pc \notin {"idle", "adding"}, Continues(S, S'),
           pc' \notin {"idle", "adding"}, TypeOK', Queue',
           Visited(S', IF pc' = "conflict" THEN LastLim(S') ELSE S'.qhead),
           calls' = calls, formula' = formula
    PROVE  IInv' /\ S'.nVars = S.nVars
<1>1. /\ Consistent(S') /\ WatchersOK(S') /\ WatchedOK(S')
      /\ S'.nVars = S.nVars /\ S'.ok = S.ok
    BY DEF Continues
<1>2. CallsLeft'
    BY <1>1 DEF IInv, CallsLeft, Call
<1>3. Quiet'
    BY DEF Quiet
<1>4. Named'
    BY <1>1 DEF IInv, Named
<1>5. Meaning'
  <2>1. Sound(S, formula) /\ Complete(S, formula)
    BY DEF IInv, Meaning
  <2>2. Sound(S', formula) /\ Complete(S', formula)
    BY <2>1 DEF Continues
  <2> QED
    BY <1>1, <2>2 DEF Meaning
<1>6. Assumed'
  <2>1. AssumptionsFirst(S, Call.lits)
    BY DEF IInv, Assumed
  <2>2. AssumptionsFirst(S', Call.lits)
    BY <2>1 DEF Continues
  <2> QED
    BY <2>2 DEF Assumed, Call
<1> QED
    BY <1>1, <1>2, <1>3, <1>4, <1>5, <1>6 DEF IInv

\* A call of solveLimited returns.
LEMMA Returns ==
    ASSUME IInv, pc \notin {"idle", "adding"}, NEW s, Continues(S, s),
           NEW status, NEW out, Finish(s, status, out),
           S.ok /\ status = "l_False" /\ out = {} => Oracle!ModelsOf(S.nVars, formula) = {},
           S.ok /\ ~(status = "l_False" /\ out = {}) =>
               Visited(s, s.qhead) /\ s.qhead = Len(s.trail),
           fresh' \subseteq {"restart", "reduce"}, adaptIn' \in Nat, restarts' \in Nat,
           formula' = formula
    PROVE  IInv' /\ S'.nVars = S.nVars
<1>1. /\ Consistent(s) /\ WatchersOK(s) /\ WatchedOK(s)
      /\ s.nVars = S.nVars /\ s.ok = S.ok /\ S.ok \in BOOLEAN
  <2>1. S \in Solvers
    BY DEF IInv, Consistent
  <2> QED
    BY <2>1, SolverTypes DEF Continues
<1>2. PICK b \in BOOLEAN : b = (s.ok /\ ~(status = "l_False" /\ out = {}))
    OBVIOUS
<1>3. PICK u : u = [s EXCEPT !.ok = b]
    OBVIOUS
<1>4. S' = cancelUntil(u, 0) /\ calls' = Tail(calls) /\ pc' = "idle" /\ confl' = CRef_Undef
    BY <1>2, <1>3 DEF Finish
<1>5. /\ Consistent(u) /\ u.ok = b /\ u.nVars = s.nVars
      /\ u.qhead = s.qhead /\ u.trail = s.trail
      /\ WatchersOK(u) /\ WatchedOK(u)
      /\ \A n : Visited(s, n) => Visited(u, n)
      /\ \A F : (Sound(s, F) => Sound(u, F)) /\ (Complete(s, F) => Complete(u, F))
    BY ONLY <1>1, b \in BOOLEAN, <1>3, OkChanges
<1>6. /\ Continues(u, S') /\ DecisionLevel(S') = 0
      /\ S'.qhead <= u.qhead
      /\ \A k \in Nat : Visited(u, k) /\ S'.qhead <= k => Visited(S', S'.qhead)
      /\ u.qhead = Len(u.trail) \/ DecisionLevel(u) > 0 => S'.qhead = Len(S'.trail)
    BY ONLY <1>4, <1>5, ContinuesCancelled
<1>7. /\ Consistent(S') /\ WatchersOK(S') /\ WatchedOK(S')
      /\ S'.nVars = S.nVars /\ S'.ok = b
    BY <1>1, <1>5, <1>6 DEF Continues
<1>8. S.ok /\ b => /\ Visited(S', S'.qhead) /\ S'.qhead = Len(S'.trail)
  <2>1. u.qhead \in Nat
    BY <1>5, SolverTypes DEF Consistent
  <2> QED
    BY <1>1, <1>2, <1>5, <1>6, <2>1
<1>9. TypeOK'
    BY <1>4 DEF TypeOK, Places, CRef_Undef
<1>10. CallsLeft'
  <2>1. /\ Remaining(calls, S.nVars) /\ calls # <<>> /\ Head(calls).op = "solve"
    BY DEF IInv, CallsLeft, Call
  <2>2. Remaining(Tail(calls), S.nVars)
    BY <2>1, ServeCall
  <2> QED
    BY <1>4, <1>7, <2>2 DEF CallsLeft
<1>11. Queue'
    BY <1>1, <1>2, <1>4, <1>6, <1>7, <1>8 DEF Queue
<1>12. Quiet'
    BY <1>1, <1>2, <1>4, <1>7, <1>8 DEF Quiet
<1>13. Named'
    BY <1>7 DEF IInv, Named
<1>14. Meaning'
  <2>1. CASE b
    <3>1. S.ok /\ Sound(S, formula) /\ Complete(S, formula)
        BY <1>1, <1>2, <2>1 DEF IInv, Meaning
    <3>2. Sound(s, formula) /\ Complete(s, formula)
        BY <3>1 DEF Continues
    <3>3. Sound(S', formula) /\ Complete(S', formula)
        BY <1>5, <1>6, <3>2 DEF Continues
    <3> QED
        BY <1>7, <2>1, <3>3 DEF Meaning
  <2>2. CASE ~b
    <3>1. Oracle!ModelsOf(S.nVars, formula) = {}
        BY <1>1, <1>2, <2>2 DEF IInv, Meaning
    <3> QED
        BY <1>7, <2>2, <3>1 DEF Meaning
  <2> QED
    BY <2>1, <2>2
<1>15. Assumed'
    BY <1>4 DEF Assumed
<1> QED
    BY <1>7, <1>9, <1>10, <1>11, <1>12, <1>13, <1>14, <1>15 DEF IInv

\* A clause that is false without a decision leaves the formula no model.
LEMMA NoModels ==
    ASSUME NEW s, Consistent(s), DecisionLevel(s) = 0, NEW cr, Conflicting(s, cr),
           NEW F, Sound(s, F)
    PROVE  Oracle!ModelsOf(s.nVars, F) = {}
<1>1. SUFFICES ASSUME NEW A \in Oracle!ModelsOf(s.nVars, F)
               PROVE  FALSE
    OBVIOUS
<1>2. s \in Solvers /\ TrailOK(s)
    BY DEF Consistent
<1>3. cr \in AttachedIn(s) /\ \A l \in ToSet(s.ca[cr].lits) : IsFalse(s, l)
    BY DEF Conflicting
<1>4. Satisfies(A, s, AttachedIn(s))
    BY DEF Sound
<1>5. PICK l \in ToSet(s.ca[cr].lits) : l \in A
    BY <1>3, <1>4 DEF Satisfies
<1>6. PICK i \in DOMAIN s.trail : s.trail[i].lit = Neg(l)
    BY <1>3, <1>5 DEF IsFalse, IsTrue
<1>7. s.trail[i].level = 0
  <2>1. s.trail[i].level \in Nat /\ s.trail[i].level <= 0
    BY <1>2, <1>6, SolverTypes DEF TrailOK
  <2> QED
    BY <2>1
<1>8. Neg(l) \in A
    BY <1>4, <1>6, <1>7 DEF Satisfies, Fixed
<1>9. s.nVars \in 0..MaxVars /\ A \in Oracle!Assignments(s.nVars)
    BY <1>2, SolverTypes DEF Oracle!ModelsOf
<1>10. /\ A \subseteq Lits /\ \A m \in A : Var(m) <= s.nVars
       /\ \A m \in Lits : Var(m) <= s.nVars => (m \in A <=> Neg(m) \notin A)
    BY <1>9, AssignmentFacts
<1> QED
    BY <1>5, <1>8, <1>10

\* The queue stays empty while clauses go.
LEMMA SlimmerEmpty ==
    ASSUME NEW s, Consistent(s), NEW t, Slimmer(s, t), s.qhead = Len(s.trail),
           Visited(s, s.qhead)
    PROVE  /\ Continues(s, t) /\ t.qhead = Len(t.trail) /\ Visited(t, t.qhead)
           /\ DecisionLevel(t) = DecisionLevel(s)
<1>1. /\ Continues(s, t) /\ t.qhead = s.qhead /\ DOMAIN t.trail = DOMAIN s.trail
      /\ Visited(t, t.qhead) /\ DecisionLevel(t) = DecisionLevel(s)
    BY ContinuesSlimmer
<1>2. s \in Solvers /\ t \in Solvers
    BY <1>1 DEF Continues, Consistent
<1>3. PICK m, n \in Nat : m = Len(s.trail) /\ n = Len(t.trail)
    BY <1>2, SolverTypes
<1>4. 1..m = 1..n
    BY <1>1, <1>2, <1>3, SolverTypes
<1>5. m = n
    BY <1>4
<1> QED
    BY <1>1, <1>3, <1>5

\* The search goes on, or is over its budget.
LEMMA AgainKeeps ==
    ASSUME IInv, S.ok, pc \notin {"idle", "adding"}, NEW s, Continues(S, s),
           s.qhead = Len(s.trail), Visited(s, s.qhead), SearchAgain(s),
           fresh' \subseteq {"restart", "reduce"}, adaptIn' \in Nat, restarts' \in Nat,
           formula' = formula
    PROVE  IInv' /\ S'.nVars = S.nVars
<1>1. CASE Finish(s, "l_Undef", {})
    BY <1>1, Returns
<1>2. CASE S' = s /\ pc' = "propagate" /\ confl' = CRef_Undef /\ UNCHANGED <<calls, answer>>
  <2>1. TypeOK' /\ Queue'
    BY <1>2 DEF TypeOK, Places, Queue, CRef_Undef
  <2> QED
    BY <1>2, <2>1, Proceeds
<1> QED
    BY <1>1, <1>2 DEF SearchAgain

LEMMA TypesHold ==
    ASSUME IInv
    PROVE  /\ TypeOK /\ Consistent(S) /\ WatchersOK(S) /\ WatchedOK(S)
           /\ S \in Solvers /\ S.ok \in BOOLEAN /\ S.nVars \in 0..MaxVars
           /\ DecisionLevel(S) \in Nat /\ S.qhead \in Nat /\ Len(S.trail) \in Nat
           /\ LastLim(S) \in Nat /\ S.qhead <= Len(S.trail)
           /\ Continues(S, S)
           /\ pc \notin {"idle", "adding"} => calls # <<>> /\ Call.op = "solve"
<1>1. Consistent(S) /\ WatchersOK(S) /\ WatchedOK(S) /\ TypeOK /\ CallsLeft
    BY DEF IInv
<1>2. S \in Solvers /\ TrailOK(S)
    BY <1>1 DEF Consistent
<1> QED
    BY <1>1, <1>2, SolverTypes, Levels, ContinuesSelf DEF CallsLeft

LEMMA CountConflictTypes ==
    ASSUME TypeOK, CountConflict
    PROVE  fresh' \subseteq {"restart", "reduce"} /\ adaptIn' \in Nat
    BY DEF TypeOK, CountConflict

LEMMA SolveLimitedKeeps ==
    ASSUME IInv, solveLimited
    PROVE  IInv' /\ S'.nVars = S.nVars
<1>1. /\ pc = "idle" /\ pc' = "propagate" /\ calls # <<>> /\ Call.op = "solve"
      /\ UNCHANGED <<S, calls, confl, fresh, adaptIn, formula, answer>> /\ restarts' = 0
    BY DEF solveLimited, Serving
<1>2. TypeOK'
    BY <1>1 DEF IInv, TypeOK, Places
<1>3. CallsLeft'
    BY <1>1 DEF IInv, CallsLeft, Call
<1>4. Queue'
    BY <1>1 DEF IInv, Queue
<1>5. Quiet'
    BY <1>1 DEF IInv, Quiet
<1>6. Named' /\ Meaning'
    BY <1>1 DEF IInv, Named, Meaning
<1>7. Assumed'
  <2>1. DecisionLevel(S) = 0 /\ S \in Solvers /\ TrailOK(S)
    BY <1>1 DEF IInv, Queue, Consistent
  <2>2. DOMAIN S.trail_lim = {} /\ \A i \in DOMAIN S.trail : S.trail[i].level = 0
    BY <2>1, SolverTypes, Levels
  <2>3. \A lits : AssumptionsFirst(S, lits)
    BY <2>2 DEF AssumptionsFirst
  <2> QED
    BY <1>1, <2>3 DEF Assumed, Call
<1> QED
    BY <1>1, <1>2, <1>3, <1>4, <1>5, <1>6, <1>7 DEF IInv

LEMMA NotOkKeeps ==
    ASSUME IInv, NotOk
    PROVE  IInv' /\ S'.nVars = S.nVars
<1>1. /\ pc = "propagate" /\ ~S.ok /\ Finish(S, "l_False", {})
      /\ UNCHANGED <<fresh, adaptIn, restarts, formula>>
    BY DEF NotOk
<1>2. /\ fresh' \subseteq {"restart", "reduce"} /\ adaptIn' \in Nat /\ restarts' \in Nat
    BY <1>1, TypesHold DEF TypeOK
<1> QED
    BY <1>1, <1>2, TypesHold, Returns

LEMMA TopLevelConflictKeeps ==
    ASSUME IInv, TopLevelConflict
    PROVE  IInv' /\ S'.nVars = S.nVars
<1>1. /\ pc = "conflict" /\ DecisionLevel(S) = 0 /\ CountConflict /\ Finish(S, "l_False", {})
      /\ UNCHANGED <<restarts, formula>>
    BY DEF TopLevelConflict
<1>2. /\ fresh' \subseteq {"restart", "reduce"} /\ adaptIn' \in Nat /\ restarts' \in Nat
    BY <1>1, TypesHold, CountConflictTypes DEF TypeOK
<1>3. S.ok /\ Conflicting(S, confl) /\ Consistent(S)
    BY <1>1 DEF IInv, Queue
<1>4. Sound(S, formula)
    BY <1>3 DEF IInv, Meaning
<1>5. Oracle!ModelsOf(S.nVars, formula) = {}
    BY <1>1, <1>3, <1>4, NoModels
<1> QED
    BY <1>1, <1>2, <1>5, TypesHold, Returns

LEMMA AdaptStepKeeps ==
    ASSUME IInv, Adapt
    PROVE  IInv' /\ S'.nVars = S.nVars
<1>1. /\ pc = "conflict" /\ DecisionLevel(S) > 0 /\ CountConflict
      /\ UNCHANGED <<restarts, formula>>
    BY DEF Adapt
<1>2. /\ fresh' \subseteq {"restart", "reduce"} /\ adaptIn' \in Nat /\ restarts' \in Nat
    BY <1>1, TypesHold, CountConflictTypes DEF TypeOK
<1>3. S.ok /\ Visited(S, LastLim(S)) /\ Consistent(S) /\ WatchersOK(S) /\ WatchedOK(S)
    BY <1>1 DEF IInv, Queue, Quiet
<1>4. PICK b : b = cancelUntil(S, 0)
    OBVIOUS
<1>5. PICK few, many \in BOOLEAN : \E s \in Adapted(b, few, many) : SearchAgain(s)
    BY <1>4 DEF Adapt
<1>6. PICK s \in Adapted(b, few, many) : SearchAgain(s)
    BY <1>5
<1>7. /\ Continues(S, b) /\ DecisionLevel(b) = 0
      /\ \A k \in Nat : Visited(S, k) /\ b.qhead <= k => Visited(b, b.qhead)
      /\ b.qhead = Len(b.trail) /\ b.qhead <= LastLim(S)
    BY <1>1, <1>3, <1>4, ContinuesCancelled
<1>8. Visited(b, b.qhead)
    BY <1>3, <1>7, TypesHold
<1>9. Consistent(b) /\ WatchersOK(b) /\ WatchedOK(b)
    BY <1>7 DEF Continues
<1>10. Slimmer(b, s)
    BY <1>5, <1>6, <1>7, <1>9, AdaptKeeps
<1>11. Continues(b, s) /\ s.qhead = Len(s.trail) /\ Visited(s, s.qhead)
    BY <1>7, <1>8, <1>9, <1>10, SlimmerEmpty
<1>12. Continues(S, s)
    BY <1>7, <1>11, ContinuesTrans
<1> QED
    BY <1>1, <1>2, <1>3, <1>6, <1>11, <1>12, AgainKeeps

LEMMA AnalyzeStepKeeps ==
    ASSUME IInv, Analyze
    PROVE  IInv' /\ S'.nVars = S.nVars
<1>1. /\ pc = "conflict" /\ DecisionLevel(S) > 0 /\ CountConflict
      /\ pc' = "propagate" /\ confl' = CRef_Undef
      /\ UNCHANGED <<calls, restarts, formula, answer>>
    BY DEF Analyze
<1>2. PICK r : r = analyze(S, confl)
    OBVIOUS
<1>3. S' = Learn(r.s, r.learnt)
    BY <1>2 DEF Analyze
<1>4. S.ok /\ Conflicting(S, confl) /\ Visited(S, LastLim(S))
    BY <1>1 DEF IInv, Queue, Quiet
<1>5. Consistent(S) /\ WatchersOK(S) /\ WatchedOK(S)
    BY TypesHold
<1>6. Analyzed(S, r)
    BY <1>1, <1>2, <1>4, <1>5, AnalyzeKeeps
<1>7. Learned(S, S')
    BY <1>1, <1>3, <1>4, <1>5, <1>6, LearnKeeps
<1>8. Continues(S, S') /\ Visited(S', S'.qhead)
    BY <1>7, ContinuesLearned
<1>9. TypeOK'
    BY <1>1, TypesHold, CountConflictTypes DEF TypeOK, Places, CRef_Undef
<1>10. Queue'
    BY <1>1 DEF Queue
<1> QED
    BY <1>1, <1>4, <1>8, <1>9, <1>10, Proceeds

LEMMA RestartKeeps ==
    ASSUME IInv, Restart
    PROVE  IInv' /\ S'.nVars = S.nVars
<1>1. /\ pc = "restart" /\ fresh' = fresh \ {"restart"} /\ restarts' = restarts + 1
      /\ SearchAgain(cancelUntil(S, 0)) /\ UNCHANGED <<adaptIn, formula>>
    BY DEF Restart
<1>2. fresh' \subseteq {"restart", "reduce"} /\ adaptIn' \in Nat /\ restarts' \in Nat
    BY <1>1, TypesHold DEF TypeOK
<1>3. S.ok /\ S.qhead = Len(S.trail) /\ Visited(S, S.qhead)
    BY <1>1 DEF IInv, Queue, Quiet
<1>4. PICK b : b = cancelUntil(S, 0)
    OBVIOUS
<1>5. /\ Continues(S, b) /\ b.qhead = Len(b.trail) /\ Visited(b, b.qhead)
    BY <1>3, <1>4, TypesHold, ContinuesCancelled
<1> QED
    BY <1>1, <1>2, <1>3, <1>4, <1>5, AgainKeeps

\* A step that leaves the solver as it is, with an empty queue.
LEMMA Passes ==
    ASSUME IInv, pc \in {"restart", "simplify", "reduce", "decide"},
           pc' \in {"simplify", "reduce", "decide"}, Continues(S, S'),
           S'.qhead = Len(S'.trail), Visited(S', S'.qhead),
           pc' = "simplify" => DecisionLevel(S') = 0,
           fresh' \subseteq {"restart", "reduce"},
           UNCHANGED <<calls, confl, adaptIn, restarts, formula, answer>>
    PROVE  IInv' /\ S'.nVars = S.nVars
<1>1. S.ok
    BY DEF IInv, Queue
<1>2. TypeOK'
    BY TypesHold DEF TypeOK, Places
<1>3. Queue'
    BY <1>1 DEF Queue, Continues
<1> QED
    BY <1>1, <1>2, <1>3, Proceeds

LEMMA EmptyQueue ==
    ASSUME IInv, pc \in {"restart", "simplify", "reduce", "decide"}
    PROVE  /\ S.ok /\ S.qhead = Len(S.trail) /\ Visited(S, S.qhead)
           /\ pc \in {"reduce", "decide"} \/ pc = "restart" \/ DecisionLevel(S) = 0
    BY DEF IInv, Queue, Quiet

LEMMA NoRestartKeeps ==
    ASSUME IInv, NoRestart
    PROVE  IInv' /\ S'.nVars = S.nVars
<1>1. /\ pc = "restart" /\ pc' = IF DecisionLevel(S) = 0 THEN "simplify" ELSE "reduce"
      /\ UNCHANGED <<S, calls, confl, fresh, adaptIn, restarts, formula, answer>>
    BY DEF NoRestart
<1>2. fresh' \subseteq {"restart", "reduce"}
    BY <1>1, TypesHold DEF TypeOK
<1> QED
    BY <1>1, <1>2, TypesHold, EmptyQueue, Passes

LEMMA NoReduceKeeps ==
    ASSUME IInv, NoReduce
    PROVE  IInv' /\ S'.nVars = S.nVars
<1>1. /\ pc = "reduce" /\ pc' = "decide"
      /\ UNCHANGED <<S, calls, confl, fresh, adaptIn, restarts, formula, answer>>
    BY DEF NoReduce
<1>2. fresh' \subseteq {"restart", "reduce"}
    BY <1>1, TypesHold DEF TypeOK
<1> QED
    BY <1>1, <1>2, TypesHold, EmptyQueue, Passes

LEMMA SimplifyStepKeeps ==
    ASSUME IInv, Simplify
    PROVE  IInv' /\ S'.nVars = S.nVars
<1>1. /\ pc = "simplify" /\ pc' = "reduce" /\ (S' = S \/ S' \in Simplified(S))
      /\ UNCHANGED <<calls, confl, fresh, adaptIn, restarts, formula, answer>>
    BY DEF Simplify
<1>2. fresh' \subseteq {"restart", "reduce"}
    BY <1>1, TypesHold DEF TypeOK
<1>3. S.qhead = Len(S.trail) /\ Visited(S, S.qhead) /\ DecisionLevel(S) = 0
    BY <1>1, EmptyQueue
<1>4. Continues(S, S') /\ S'.qhead = Len(S'.trail) /\ Visited(S', S'.qhead)
  <2>1. CASE S' = S
    BY <1>3, <2>1, TypesHold
  <2>2. CASE S' \in Simplified(S)
    <3>1. Slimmer(S, S')
        BY <1>3, <2>2, TypesHold, SimplifyKeeps
    <3> QED
        BY <1>3, <3>1, TypesHold, SlimmerEmpty
  <2> QED
    BY <1>1, <2>1, <2>2
<1> QED
    BY <1>1, <1>2, <1>4, Passes

LEMMA ReduceDBKeeps ==
    ASSUME IInv, ReduceDB
    PROVE  IInv' /\ S'.nVars = S.nVars
<1>1. /\ pc = "reduce" /\ pc' = "decide" /\ fresh' = fresh \ {"reduce"}
      /\ UNCHANGED <<calls, confl, adaptIn, restarts, formula, answer>>
    BY DEF ReduceDB
<1>2. fresh' \subseteq {"restart", "reduce"}
    BY <1>1, TypesHold DEF TypeOK
<1>3. S.qhead = Len(S.trail) /\ Visited(S, S.qhead)
    BY <1>1, EmptyQueue
<1>4. PICK order \in SetToSeqs(ListOf(S, "learnts")) : S' \in Collected(Reduced(S, order))
    BY DEF ReduceDB
<1>5. PICK t : t = Reduced(S, order)
    OBVIOUS
<1>6. Slimmer(S, t)
    BY <1>4, <1>5, TypesHold, ReduceKeeps
<1>7. Continues(S, t) /\ t.qhead = Len(t.trail) /\ Visited(t, t.qhead)
    BY <1>3, <1>6, TypesHold, SlimmerEmpty
<1>8. Consistent(t) /\ WatchersOK(t) /\ WatchedOK(t)
    BY <1>7 DEF Continues
<1>9. Slimmer(t, S')
    BY <1>4, <1>5, <1>8, CollectedKeeps
<1>10. Continues(t, S') /\ S'.qhead = Len(S'.trail) /\ Visited(S', S'.qhead)
    BY <1>7, <1>8, <1>9, SlimmerEmpty
<1>11. Continues(S, S')
    BY <1>7, <1>10, ContinuesTrans
<1> QED
    BY <1>1, <1>2, <1>10, <1>11, Passes

\* A call other than solveLimited or newVar is over.
LEMMA CallEnds ==
    ASSUME IInv, calls # <<>>, Call.op # "newVar", calls' = Tail(calls), pc' = "idle", TypeOK',
           Consistent(S'), WatchersOK(S'), WatchedOK(S'), S'.nVars = S.nVars,
           DecisionLevel(S') = 0,
           S'.ok => S'.qhead = Len(S'.trail) /\ Visited(S', S'.qhead),
           Named', Meaning'
    PROVE  IInv' /\ S'.nVars = S.nVars
<1>1. CallsLeft'
  <2>1. Remaining(calls, S.nVars) /\ Head(calls).op # "newVar"
    BY DEF IInv, CallsLeft, Call
  <2>2. Remaining(Tail(calls), S.nVars)
    BY <2>1, ServeCall
  <2> QED
    BY <2>2 DEF CallsLeft
<1>2. Queue' /\ Quiet' /\ Assumed'
    BY DEF Queue, Quiet, Assumed
<1> QED
    BY <1>1, <1>2 DEF IInv

\* The unit clause that is added is still propagated.
LEMMA AddingGoes ==
    ASSUME IInv, calls # <<>>, Call.op = "addClause", calls' = calls, pc' = "adding", TypeOK',
           Consistent(S'), WatchersOK(S'), WatchedOK(S'), S'.nVars = S.nVars,
           DecisionLevel(S') = 0, S'.ok => Visited(S', S'.qhead),
           Named', Meaning'
    PROVE  IInv' /\ S'.nVars = S.nVars
<1>1. CallsLeft'
    BY DEF IInv, CallsLeft, Call
<1>2. Queue' /\ Quiet' /\ Assumed'
    BY DEF Queue, Quiet, Assumed
<1> QED
    BY <1>1, <1>2 DEF IInv

LEMMA OkSame ==
    ASSUME NEW s \in Solvers, NEW b, s.ok = b
    PROVE  [s EXCEPT !.ok = b] = s
    BY DEF Solvers

LEMMA PropagateStepKeeps ==
    ASSUME IInv, Propagate
    PROVE  IInv' /\ S'.nVars = S.nVars
<1>1. PICK r : r = PropagateLit(S)
    OBVIOUS
<1>2. PICK failed \in BOOLEAN : failed = (pc = "adding" /\ r.confl # CRef_Undef)
    OBVIOUS
<1>3. /\ pc \in {"propagate", "adding"} /\ S.ok /\ S.qhead < Len(S.trail)
      /\ S' = [r.s EXCEPT !.ok = ~failed]
      /\ confl' = (IF failed THEN CRef_Undef ELSE r.confl)
      /\ failed => pc' = "idle"
      /\ ~failed /\ r.confl # CRef_Undef => pc' = "conflict"
      /\ ~failed /\ r.confl = CRef_Undef => pc' = pc
      /\ calls' = (IF failed THEN Tail(calls) ELSE calls)
      /\ UNCHANGED <<fresh, adaptIn, restarts, formula, answer>>
    BY <1>1, <1>2 DEF Propagate
<1>4. Visited(S, S.qhead)
    BY <1>3 DEF IInv, Quiet
<1>5. PropagatedOne(S, r)
    BY <1>1, <1>3, <1>4, TypesHold, PropagateKeeps
<1>6. /\ r \in Results /\ Consistent(r.s) /\ WatchersOK(r.s) /\ WatchedOK(r.s)
      /\ After(S, r.s)
      /\ r.confl # CRef_Undef => Conflicting(r.s, r.confl) /\ Visited(r.s, LastLim(r.s))
      /\ r.confl = CRef_Undef => Visited(r.s, r.s.qhead)
    BY <1>5 DEF PropagatedOne
<1>7. r.s \in Solvers /\ r.confl \in Nat /\ r.s.nVars = S.nVars /\ r.s.ok = S.ok
      /\ DecisionLevel(r.s) = DecisionLevel(S)
    BY <1>6 DEF Results, After, DecisionLevel
<1>8. Continues(S, r.s)
    BY <1>6 DEF Continues, After
<1>9. TypeOK'
  <2>1. pc' \in Places
    BY <1>2, <1>3 DEF Places
  <2>2. confl' \in Nat
    BY <1>2, <1>3, <1>7 DEF CRef_Undef
  <2> QED
    BY <1>3, <2>1, <2>2, TypesHold DEF TypeOK
<1>10. Sound(S, formula) /\ Complete(S, formula) /\ Named
    BY <1>3 DEF IInv, Meaning
<1>11. Sound(r.s, formula) /\ Complete(r.s, formula)
    BY <1>8, <1>10 DEF Continues
<1>12. Named'
  <2>1. S'.nVars = S.nVars
    BY <1>3, <1>7 DEF Solvers
  <2> QED
    BY <1>3, <1>10, <2>1 DEF Named
<1>13. CASE pc = "propagate"
  <2>1. ~failed
    BY <1>2, <1>13
  <2>2. S' = r.s
    BY <1>3, <1>7, <2>1, OkSame
  <2>3. Queue'
    BY <1>2, <1>3, <1>6, <1>7, <1>13, <2>1, <2>2 DEF Queue
  <2>4. Visited(S', IF pc' = "conflict" THEN LastLim(S') ELSE S'.qhead)
    BY <1>3, <1>6, <1>13, <2>1, <2>2
  <2>5. calls' = calls /\ formula' = formula /\ pc' \notin {"idle", "adding"}
    BY <1>3, <1>13, <2>1
  <2> QED
    BY <1>3, <1>8, <1>9, <1>13, <2>2, <2>3, <2>4, <2>5, Proceeds
<1>14. CASE pc = "adding" /\ ~failed
  <2>1. S' = r.s /\ r.confl = CRef_Undef
    BY <1>2, <1>3, <1>7, <1>14, OkSame
  <2>2. Meaning'
    BY <1>3, <1>7, <1>11, <2>1 DEF Meaning
  <2>3. DecisionLevel(S) = 0 /\ calls # <<>> /\ Call.op = "addClause"
    BY <1>14 DEF IInv, Queue, CallsLeft
  <2> QED
    BY <1>3, <1>6, <1>7, <1>9, <1>12, <1>14, <2>1, <2>2, <2>3, AddingGoes
<1>15. CASE pc = "adding" /\ failed
  <2>0. PICK u, b, t : u = r.s /\ b = FALSE /\ t = S'
    OBVIOUS
  <2>3. t = [u EXCEPT !.ok = b] /\ Consistent(u) /\ b \in BOOLEAN
        /\ WatchersOK(u) /\ WatchedOK(u)
    BY <1>3, <1>6, <1>15, <2>0
  <2>4. /\ Consistent(t) /\ t.ok = b /\ t.nVars = u.nVars
        /\ DecisionLevel(t) = DecisionLevel(u)
        /\ WatchersOK(t) /\ WatchedOK(t)
    BY ONLY <2>3, OkChanges
  <2>1. /\ Consistent(S') /\ ~S'.ok /\ S'.nVars = r.s.nVars
        /\ DecisionLevel(S') = DecisionLevel(r.s)
        /\ WatchersOK(S') /\ WatchedOK(S')
    BY <2>0, <2>4
  <2>2. DecisionLevel(S) = 0 /\ calls # <<>> /\ Call.op = "addClause"
    BY <1>15 DEF IInv, Queue, CallsLeft
  <2>5. Oracle!ModelsOf(r.s.nVars, formula) = {}
    BY <1>2, <1>6, <1>7, <1>11, <1>15, <2>2, NoModels
  <2>6. Meaning'
    BY <1>3, <2>1, <2>5 DEF Meaning
  <2> QED
    BY <1>3, <1>7, <1>9, <1>12, <1>15, <2>1, <2>2, <2>6, CallEnds
<1> QED
    BY <1>3, <1>13, <1>14, <1>15

LEMMA PropagatedKeeps ==
    ASSUME IInv, Propagated
    PROVE  IInv' /\ S'.nVars = S.nVars
<1>1. /\ pc \in {"propagate", "adding"} /\ S.ok /\ S.qhead = Len(S.trail)
      /\ UNCHANGED <<S, confl, fresh, adaptIn, restarts, formula, answer>>
      /\ pc = "adding" => pc' = "idle" /\ calls' = Tail(calls)
      /\ pc # "adding" => pc' = "restart" /\ calls' = calls
    BY DEF Propagated
<1>2. TypeOK'
    BY <1>1, TypesHold DEF TypeOK, Places
<1>3. Visited(S, S.qhead)
    BY <1>1 DEF IInv, Quiet
<1>4. CASE pc = "propagate"
  <2>1. Queue'
    BY <1>1, <1>4 DEF Queue
  <2> QED
    BY <1>1, <1>2, <1>3, <1>4, <2>1, TypesHold, Proceeds
<1>5. CASE pc = "adding"
  <2>1. DecisionLevel(S) = 0 /\ calls # <<>> /\ Call.op = "addClause"
    BY <1>5 DEF IInv, Queue, CallsLeft
  <2>2. Named' /\ Meaning'
    BY <1>1 DEF IInv, Named, Meaning
  <2> QED
    BY <1>1, <1>2, <1>3, <1>5, <2>1, <2>2, TypesHold, CallEnds
<1> QED
    BY <1>1, <1>4, <1>5

-----------------------------------------------------------------------------
(***************************************************************************)
(* newVar and addClause_.                                                  *)
(***************************************************************************)

LEMMA LiteralsNamed ==
    ASSUME NEW n \in 0..MaxVars
    PROVE  Oracle!Literals(n) = {l \in Lits : Var(l) <= n}
    BY BoundsAssumption DEF Oracle!Literals, Lits, Var

\* What a variable more does to assignments: each extends one of those before.
LEMMA Restricted ==
    ASSUME NEW n \in Nat, n + 1 <= MaxVars, NEW A \in Oracle!Assignments(n + 1)
    PROVE  {l \in A : Var(l) <= n} \in Oracle!Assignments(n)
<1>1. PICK f \in [1..(n + 1) -> BOOLEAN] :
          A = {IF f[v] THEN v ELSE -v : v \in 1..(n + 1)}
    BY DEF Oracle!Assignments
<1>2. PICK g : g = [v \in 1..n |-> f[v]]
    OBVIOUS
<1>3. g \in [1..n -> BOOLEAN] /\ \A v \in 1..n : g[v] = f[v]
    BY <1>1, <1>2
<1>4. {l \in A : Var(l) <= n} = {IF g[v] THEN v ELSE -v : v \in 1..n}
  <2>1. ASSUME NEW l \in A, Var(l) <= n
        PROVE  l \in {IF g[v] THEN v ELSE -v : v \in 1..n}
    <3>1. PICK v \in 1..(n + 1) : l = IF f[v] THEN v ELSE -v
        BY <1>1
    <3>2. v \in 1..n
        BY <2>1, <3>1 DEF Var
    <3> QED
        BY <1>3, <3>1, <3>2
  <2>2. ASSUME NEW v \in 1..n
        PROVE  (IF g[v] THEN v ELSE -v) \in {l \in A : Var(l) <= n}
    <3>1. (IF f[v] THEN v ELSE -v) \in A
        BY <1>1
    <3>2. Var(IF f[v] THEN v ELSE -v) <= n
        BY <1>1 DEF Var
    <3> QED
        BY <1>3, <3>1, <3>2
  <2> QED
    BY <2>1, <2>2
<1> QED
    BY <1>3, <1>4 DEF Oracle!Assignments

\* A solver with one variable more.
WithVar(s) ==
    [s EXCEPT !.nVars = @ + 1, !.order_heap = @ \cup {s.nVars + 1}]

LEMMA WithVarFields ==
    ASSUME NEW s \in Solvers, s.nVars + 1 <= MaxVars, NEW t, t = WithVar(s)
    PROVE  /\ t \in Solvers /\ t.nVars = s.nVars + 1
           /\ t.order_heap = s.order_heap \cup {s.nVars + 1}
           /\ t.ok = s.ok /\ t.trail_lim = s.trail_lim /\ t.qhead = s.qhead
           /\ t.ca = s.ca /\ t.watches = s.watches /\ t.watchesBin = s.watchesBin
           /\ t.trail = s.trail
<1>1. s.nVars \in Nat /\ s.nVars + 1 \in 0..MaxVars /\ s.nVars + 1 \in Vars
    BY BoundsAssumption DEF Solvers, Vars
<1>2. t = [[s EXCEPT !.nVars = @ + 1] EXCEPT !.order_heap = s.order_heap \cup {s.nVars + 1}]
    BY DEF WithVar, Solvers
<1>3. PICK n \in 0..MaxVars : n = s.nVars + 1
    BY <1>1
<1>4. PICK h \in SUBSET Vars : h = s.order_heap \cup {s.nVars + 1}
    BY <1>1 DEF Solvers
<1>5. t = [s EXCEPT !.nVars = n, !.order_heap = h]
    BY <1>3, <1>4 DEF WithVar, Solvers
<1> QED
    BY <1>3, <1>4, <1>5 DEF Solvers

LEMMA WithVarKeeps ==
    ASSUME NEW s, Consistent(s), s.nVars + 1 <= MaxVars, NEW t, t = WithVar(s)
    PROVE  Consistent(t)
<1>1. s \in Solvers
    BY DEF Consistent
<1>2. /\ t \in Solvers /\ t.nVars = s.nVars + 1
      /\ t.order_heap = s.order_heap \cup {s.nVars + 1}
      /\ t.ok = s.ok /\ t.trail_lim = s.trail_lim /\ t.qhead = s.qhead
      /\ t.ca = s.ca /\ t.watches = s.watches /\ t.watchesBin = s.watchesBin
      /\ t.trail = s.trail
    BY <1>1, WithVarFields
<1>3. s.nVars \in Nat /\ \A i \in Nat : i <= s.nVars => i <= t.nVars
    BY <1>1, <1>2, VarsAreLits
<1>4. DecisionLevel(t) = DecisionLevel(s) /\ AttachedIn(t) = AttachedIn(s)
    BY <1>2 DEF DecisionLevel, AttachedIn
<1>5. TrailOK(t)
  <2>1. \A i \in DOMAIN s.trail : Var(s.trail[i].lit) \in Nat
    BY <1>1, SolverTypes, LitFacts DEF Vars
  <2>2. TrailOK(s)
    BY DEF Consistent
  <2> QED
    BY ONLY <1>2, <1>3, <1>4, <2>1, <2>2 DEF TrailOK
<1>6. DecisionsFirst(s) => DecisionsFirst(t)
    BY ONLY <1>2 DEF DecisionsFirst
<1>7. HeapOK(t)
  <2>1. HeapOK(s)
    BY DEF Consistent
  <2>2. \A l : IsUndef(t, l) <=> IsUndef(s, l)
    BY <1>2, SameTrail
  <2>3. \A v \in 1..t.nVars : v \in 1..s.nVars \/ v = s.nVars + 1
    BY <1>2, <1>3
  <2>4. 1..s.nVars \subseteq 1..t.nVars /\ s.nVars + 1 \in 1..t.nVars
    BY <1>2, <1>3
  <2> QED
    BY ONLY <1>2, <2>1, <2>2, <2>3, <2>4 DEF HeapOK
<1>8. ClausesOK(t)
  <2>1. ClausesOK(s)
    BY DEF Consistent
  <2>2. ASSUME NEW cr \in AttachedIn(s), NEW i \in DOMAIN s.ca[cr].lits
        PROVE  Var(s.ca[cr].lits[i]) \in Nat
    BY <1>1, SolverTypes, LitFacts DEF Vars, AttachedIn
  <2> QED
    BY ONLY <1>2, <1>3, <1>4, <2>1, <2>2 DEF ClausesOK
<1>9. ReasonsOK(s) => ReasonsOK(t)
    BY ONLY SMTT(30), <1>2, <1>4 DEF ReasonsOK, ReasonOK
<1> QED
    BY <1>2, <1>5, <1>6, <1>7, <1>8, <1>9 DEF Consistent

\* A formula that does not name the new variable.
LEMMA ModelsRestricted ==
    ASSUME NEW n \in Nat, n + 1 <= MaxVars, NEW F, \A ps \in F : ps \subseteq Oracle!Literals(n),
           NEW A \in Oracle!Assignments(n + 1), NEW B, B = {l \in A : Var(l) <= n}
    PROVE  /\ B \in Oracle!Assignments(n)
           /\ A \in Oracle!ModelsOf(n + 1, F) <=> B \in Oracle!ModelsOf(n, F)
<1>1. B \in Oracle!Assignments(n)
    BY Restricted
<1>2. n \in 0..MaxVars
    BY BoundsAssumption
<1>3. \A ps \in F : ps \cap A = ps \cap B
    BY <1>2, LiteralsNamed
<1> QED
    BY <1>1, <1>3 DEF Oracle!ModelsOf

\* The solver still has the meaning it had.
LEMMA WithVarMeans ==
    ASSUME NEW s, Consistent(s), s.nVars + 1 <= MaxVars, NEW t, t = WithVar(s),
           NEW F, \A ps \in F : ps \subseteq Oracle!Literals(s.nVars)
    PROVE  /\ Sound(s, F) => Sound(t, F)
           /\ Complete(s, F) => Complete(t, F)
           /\ Oracle!ModelsOf(s.nVars, F) = {} => Oracle!ModelsOf(t.nVars, F) = {}
<1>1. s \in Solvers /\ TrailOK(s) /\ ClausesOK(s)
    BY DEF Consistent
<1>2. /\ t.nVars = s.nVars + 1 /\ t.ca = s.ca /\ t.trail = s.trail
    BY <1>1, WithVarFields
<1>3. PICK n \in Nat : n = s.nVars
    BY <1>1, VarsAreLits
<1>4. /\ Fixed(t) = Fixed(s) /\ AttachedIn(t) = AttachedIn(s)
      /\ ListOf(t, "clauses") = ListOf(s, "clauses")
    BY <1>2 DEF Fixed, AttachedIn, ListOf
<1>5. \A l \in Fixed(s) : Var(l) <= n
    BY <1>1, <1>3 DEF TrailOK, Fixed
<1>6. \A cr \in AttachedIn(s) : \A l \in ToSet(s.ca[cr].lits) : Var(l) <= n
    BY <1>1, <1>3 DEF ClausesOK, ToSet
<1>7. ListOf(s, "clauses") \subseteq AttachedIn(s)
    BY DEF ListOf, AttachedIn
<1>8. ASSUME NEW A \in Oracle!Assignments(n + 1), NEW B, B = {l \in A : Var(l) <= n},
             NEW crs \in SUBSET AttachedIn(s)
      PROVE  Satisfies(A, t, crs) <=> Satisfies(B, s, crs)
  <2>1. B \subseteq A
    BY <1>8
  <2>2. ASSUME Satisfies(B, s, crs)
        PROVE  Satisfies(A, t, crs)
    BY <1>2, <1>4, <2>1, <2>2 DEF Satisfies
  <2>3. ASSUME Satisfies(A, t, crs)
        PROVE  Satisfies(B, s, crs)
    <3>1. \A cr \in crs : ToSet(s.ca[cr].lits) \cap A # {}
        BY <1>2, <2>3 DEF Satisfies
    <3>2. \A cr \in crs : ToSet(s.ca[cr].lits) \cap B # {}
        BY <1>6, <1>8, <3>1
    <3>3. Fixed(s) \subseteq B
        BY <1>4, <1>5, <1>8, <2>3 DEF Satisfies
    <3> QED
        BY <3>2, <3>3 DEF Satisfies
  <2> QED
    BY <2>2, <2>3
<1>9. \A ps \in F : ps \subseteq Oracle!Literals(n)
    BY <1>3
<1>10. n + 1 <= MaxVars
    BY <1>3
<1>11. ASSUME NEW A \in Oracle!ModelsOf(n + 1, F)
       PROVE  \E B \in Oracle!ModelsOf(n, F) :
                  \A crs \in SUBSET AttachedIn(s) : Satisfies(A, t, crs) <=> Satisfies(B, s, crs)
  <2>1. A \in Oracle!Assignments(n + 1)
    BY DEF Oracle!ModelsOf
  <2>2. PICK B : B = {l \in A : Var(l) <= n}
    OBVIOUS
  <2>3. B \in Oracle!ModelsOf(n, F)
    BY <1>9, <1>10, <2>1, <2>2, ModelsRestricted
  <2> QED
    BY <1>8, <2>1, <2>2, <2>3
<1>12. Sound(s, F) => Sound(t, F)
    BY <1>2, <1>3, <1>4, <1>11 DEF Sound
<1>13. ASSUME Complete(s, F), NEW A \in Oracle!Assignments(n + 1),
              Satisfies(A, t, ListOf(t, "clauses"))
       PROVE  A \in Oracle!ModelsOf(n + 1, F)
  <2>1. PICK B : B = {l \in A : Var(l) <= n}
    OBVIOUS
  <2>2. Satisfies(B, s, ListOf(s, "clauses"))
    BY <1>4, <1>7, <1>8, <1>13, <2>1
  <2>3. /\ B \in Oracle!Assignments(n)
        /\ A \in Oracle!ModelsOf(n + 1, F) <=> B \in Oracle!ModelsOf(n, F)
    BY <1>9, <1>10, <2>1, ModelsRestricted
  <2>4. B \in Oracle!ModelsOf(n, F)
    BY <1>3, <1>13, <2>2, <2>3 DEF Complete
  <2> QED
    BY <2>3, <2>4
<1>14. Complete(s, F) => Complete(t, F)
    BY <1>2, <1>3, <1>13 DEF Complete
<1> QED
    BY <1>2, <1>3, <1>11, <1>12, <1>14

LEMMA NewVarKeeps ==
    ASSUME IInv, newVar
    PROVE  IInv'
<1>1. /\ pc = "idle" /\ calls # <<>> /\ Head(calls).op = "newVar"
      /\ S' = WithVar(S) /\ calls' = Tail(calls)
      /\ UNCHANGED <<pc, confl, fresh, adaptIn, restarts, formula, answer>>
    BY DEF newVar, Serving, Call, WithVar
<1>2. S.nVars + 1 <= MaxVars /\ Remaining(Tail(calls), S.nVars + 1)
    BY <1>1, ServeCall DEF IInv, CallsLeft
<1>3. /\ Consistent(S) /\ S \in Solvers /\ S.nVars \in 0..MaxVars
    BY TypesHold
<1>4. Consistent(S')
    BY <1>1, <1>2, <1>3, WithVarKeeps
<1>5. /\ S'.nVars = S.nVars + 1 /\ S'.ok = S.ok /\ S'.trail_lim = S.trail_lim
      /\ S'.qhead = S.qhead /\ S'.ca = S.ca /\ S'.watches = S.watches
      /\ S'.watchesBin = S.watchesBin /\ S'.trail = S.trail
    BY <1>1, <1>2, <1>3, WithVarFields
<1>6. WatchersOK(S') /\ WatchedOK(S')
    BY <1>5, TypesHold, SameClauses
<1>7. \A n : Visited(S, n) => Visited(S', n)
    BY <1>5, SameTrail
<1>8. Quiet' /\ Queue' /\ TypeOK' /\ Assumed'
  <2>1. Quiet'
    BY <1>1, <1>5, <1>7 DEF IInv, Quiet
  <2>2. Queue'
    BY <1>1, <1>5 DEF IInv, Queue, DecisionLevel
  <2>3. TypeOK' /\ Assumed'
    BY <1>1 DEF IInv, TypeOK, Assumed
  <2> QED
    BY <2>1, <2>2, <2>3
<1>9. CallsLeft'
    BY <1>1, <1>2, <1>5 DEF CallsLeft
<1>10. \A ps \in formula : ps \subseteq Oracle!Literals(S.nVars)
    BY DEF IInv, Named
<1>11. Named'
  <2>1. S.nVars + 1 \in 0..MaxVars
    BY <1>2, <1>3, BoundsAssumption
  <2>2. \A l \in Lits : Var(l) \in Nat
    BY LitFacts DEF Vars
  <2>3. Oracle!Literals(S.nVars) \subseteq Oracle!Literals(S.nVars + 1)
    BY <1>3, <2>1, <2>2, LiteralsNamed
  <2> QED
    BY <1>1, <1>5, <1>10, <2>3 DEF Named
<1>12. /\ Sound(S, formula) => Sound(S', formula)
       /\ Complete(S, formula) => Complete(S', formula)
       /\ Oracle!ModelsOf(S.nVars, formula) = {} => Oracle!ModelsOf(S'.nVars, formula) = {}
    BY <1>1, <1>2, <1>3, <1>10, WithVarMeans
<1>13. Meaning'
    BY <1>1, <1>5, <1>12 DEF IInv, Meaning
<1> QED
    BY <1>4, <1>6, <1>8, <1>9, <1>11, <1>13 DEF IInv

\* A sequence of the elements of a set, each of them once.
LEMMA SeqOfSet ==
    ASSUME NEW U, IsFiniteSet(U), NEW seq \in SetToSeqs(U)
    PROVE  /\ seq \in Seq(U) /\ ToSet(seq) = U
           /\ \A i, j \in DOMAIN seq : seq[i] = seq[j] => i = j
<1>1. PICK n \in Nat : n = Cardinality(U)
    BY FS_CardinalityType
<1>2. seq \in [1..n -> U] /\ \A i, j \in 1..n : i # j => seq[i] # seq[j]
    BY <1>1 DEF SetToSeqs
<1>3. seq \in Injection(1..n, U)
    BY <1>2 DEF Injection, IsInjective
<1>4. IsFiniteSet(1..n) /\ Cardinality(1..n) = n
    BY FS_Interval
<1>5. seq \in Surjection(1..n, U)
    BY <1>1, <1>3, <1>4, FS_Injection
<1>6. \A u \in U : \E i \in 1..n : seq[i] = u
    BY <1>5 DEF Surjection
<1> QED
    BY <1>2, <1>6 DEF ToSet

\* What is left of a clause whose literals ps are named.
Left(s, ps, left) ==
    /\ ps \subseteq Lits /\ \A l \in ps : Var(l) <= s.nVars
    /\ left \in Seq(Lits)
    /\ ToSet(left) = {l \in ps : ~IsFalse(s, l)}
    /\ \A i, j \in DOMAIN left : left[i] = left[j] => i = j

\* At level 0, an assignment that has the literals of the trail satisfies what
\* is left of a clause exactly when it satisfies the clause.
LEMMA LeftMeans ==
    ASSUME NEW s, Consistent(s), DecisionLevel(s) = 0, NEW ps, NEW left, Left(s, ps, left),
           NEW A \in Oracle!Assignments(s.nVars), Fixed(s) \subseteq A
    PROVE  /\ ps \cap A # {} <=> ToSet(left) \cap A # {}
           /\ \A l \in ps : IsTrue(s, l) \/ Neg(l) \in ps => ps \cap A # {}
<1>1. s \in Solvers /\ TrailOK(s)
    BY DEF Consistent
<1>2. s.nVars \in 0..MaxVars
    BY <1>1, SolverTypes
<1>3. \A l \in Lits : Var(l) <= s.nVars => (l \in A <=> Neg(l) \notin A)
    BY <1>2, AssignmentFacts
<1>4. \A l : IsTrue(s, l) => l \in A
  <2>1. SUFFICES ASSUME NEW i \in DOMAIN s.trail
                 PROVE  s.trail[i].lit \in A
    BY DEF IsTrue
  <2>2. s.trail[i].level \in Nat /\ s.trail[i].level <= 0
    BY <1>1, SolverTypes DEF TrailOK
  <2>3. s.trail[i].level = 0
    BY <2>2
  <2> QED
    BY <2>3 DEF Fixed
<1>5. \A l \in ps : IsFalse(s, l) => l \notin A
    BY <1>3, <1>4 DEF IsFalse, Left
<1>6. ps \cap A # {} <=> ToSet(left) \cap A # {}
    BY <1>5 DEF Left
<1>7. ASSUME NEW l \in ps, IsTrue(s, l) \/ Neg(l) \in ps
      PROVE  ps \cap A # {}
    BY <1>3, <1>4, <1>7 DEF Left
<1> QED
    BY <1>6, <1>7

LEMMA ModelsAdd ==
    ASSUME NEW n, NEW F, NEW ps
    PROVE  \A A : A \in Oracle!ModelsOf(n, F \cup {ps}) <=>
                      A \in Oracle!ModelsOf(n, F) /\ ps \cap A # {}
    BY DEF Oracle!ModelsOf

\* The clause is satisfied already.
LEMMA AddSatisfied ==
    ASSUME NEW s, Consistent(s), DecisionLevel(s) = 0, NEW ps, NEW left, Left(s, ps, left),
           NEW l \in ps, IsTrue(s, l) \/ Neg(l) \in ps, NEW F, Sound(s, F), Complete(s, F)
    PROVE  Sound(s, F \cup {ps}) /\ Complete(s, F \cup {ps})
<1>1. Sound(s, F \cup {ps})
    BY ModelsAdd DEF Sound
<1>2. ASSUME NEW A \in Oracle!Assignments(s.nVars), Satisfies(A, s, ListOf(s, "clauses"))
      PROVE  A \in Oracle!ModelsOf(s.nVars, F \cup {ps})
  <2>1. A \in Oracle!ModelsOf(s.nVars, F) /\ Fixed(s) \subseteq A
    BY <1>2 DEF Complete, Satisfies
  <2>2. ps \cap A # {}
    BY <2>1, LeftMeans
  <2> QED
    BY <2>1, <2>2, ModelsAdd
<1> QED
    BY <1>1, <1>2 DEF Complete

\* Nothing is left of the clause.
LEMMA AddEmpty ==
    ASSUME NEW s, Consistent(s), DecisionLevel(s) = 0, NEW ps, NEW left, Left(s, ps, left),
           ToSet(left) = {}, NEW F, Sound(s, F)
    PROVE  Oracle!ModelsOf(s.nVars, F \cup {ps}) = {}
<1>1. SUFFICES ASSUME NEW A \in Oracle!ModelsOf(s.nVars, F), ps \cap A # {}
               PROVE  FALSE
    BY ModelsAdd
<1>2. A \in Oracle!Assignments(s.nVars) /\ Fixed(s) \subseteq A
    BY DEF Sound, Satisfies, Oracle!ModelsOf
<1> QED
    BY <1>1, <1>2, LeftMeans

\* The solver has what is left of the clause, and what it had.
Joins(s, t, left) ==
    /\ t.nVars = s.nVars
    /\ \A A : Satisfies(A, t, AttachedIn(t)) <=>
                  Satisfies(A, s, AttachedIn(s)) /\ ToSet(left) \cap A # {}
    /\ \A A : Satisfies(A, t, ListOf(t, "clauses")) <=>
                  Satisfies(A, s, ListOf(s, "clauses")) /\ ToSet(left) \cap A # {}

LEMMA AddLeft ==
    ASSUME NEW s, Consistent(s), DecisionLevel(s) = 0, NEW ps, NEW left, Left(s, ps, left),
           NEW t, Joins(s, t, left), NEW F, Sound(s, F), Complete(s, F)
    PROVE  Sound(t, F \cup {ps}) /\ Complete(t, F \cup {ps})
<1>1. ASSUME NEW A \in Oracle!ModelsOf(s.nVars, F \cup {ps})
      PROVE  Satisfies(A, t, AttachedIn(t))
  <2>1. A \in Oracle!ModelsOf(s.nVars, F) /\ ps \cap A # {}
    BY <1>1, ModelsAdd
  <2>2. A \in Oracle!Assignments(s.nVars) /\ Satisfies(A, s, AttachedIn(s))
    BY <2>1 DEF Sound, Oracle!ModelsOf
  <2>3. Fixed(s) \subseteq A
    BY <2>2 DEF Satisfies
  <2>4. ToSet(left) \cap A # {}
    BY <2>1, <2>2, <2>3, LeftMeans
  <2> QED
    BY <2>2, <2>4 DEF Joins
<1>2. ASSUME NEW A \in Oracle!Assignments(s.nVars), Satisfies(A, t, ListOf(t, "clauses"))
      PROVE  A \in Oracle!ModelsOf(s.nVars, F \cup {ps})
  <2>1. Satisfies(A, s, ListOf(s, "clauses")) /\ ToSet(left) \cap A # {}
    BY <1>2 DEF Joins
  <2>2. A \in Oracle!ModelsOf(s.nVars, F) /\ Fixed(s) \subseteq A
    BY <2>1 DEF Complete, Satisfies
  <2>3. ps \cap A # {}
    BY <2>1, <2>2, LeftMeans
  <2> QED
    BY <2>2, <2>3, ModelsAdd
<1> QED
    BY <1>1, <1>2 DEF Sound, Complete, Joins

\* One literal is left: it joins the trail.
LEMMA AddUnit ==
    ASSUME NEW s, Consistent(s), WatchersOK(s), WatchedOK(s), DecisionLevel(s) = 0,
           s.qhead = Len(s.trail), Visited(s, s.qhead),
           NEW left, left \in Seq(Lits), Len(left) = 1, Var(left[1]) <= s.nVars,
           IsUndef(s, left[1]),
           NEW t, t = uncheckedEnqueue(s, left[1], CRef_Undef)
    PROVE  /\ Consistent(t) /\ WatchersOK(t) /\ WatchedOK(t) /\ DecisionLevel(t) = 0
           /\ t.nVars = s.nVars /\ t.ok = s.ok /\ Visited(t, t.qhead)
           /\ Joins(s, t, left)
<1>1. s \in Solvers
    BY DEF Consistent
<1>2. PICK l \in Lits : l = left[1] /\ ToSet(left) = {l}
  <2>1. DOMAIN left = {1} /\ left[1] \in Lits
    OBVIOUS
  <2> QED
    BY <2>1 DEF ToSet
<1>3. PICK from \in Nat : from = CRef_Undef /\ t = uncheckedEnqueue(s, l, from)
    BY <1>2 DEF CRef_Undef
<1>4. PICK n \in Nat : n = Len(s.trail)
    BY <1>1, SolverTypes
<1>5. /\ Consistent(t) /\ \A k \in 0..n : Visited(s, k) => Visited(t, k)
    BY <1>2, <1>3, <1>4, EnqueueKeeps DEF CRef_Undef
<1>6. /\ Len(t.trail) = n + 1 /\ DOMAIN t.trail = 1..(n + 1)
      /\ \A i \in 1..n : t.trail[i] = s.trail[i]
      /\ t.trail[n + 1] = [lit |-> l, level |-> DecisionLevel(s), reason |-> from]
      /\ t.ca = s.ca /\ t.watches = s.watches /\ t.watchesBin = s.watchesBin
      /\ t.qhead = s.qhead /\ t.nVars = s.nVars /\ t.ok = s.ok
      /\ DecisionLevel(t) = DecisionLevel(s)
  <2>1. t = uncheckedEnqueue(s, l, from)
    BY <1>3
  <2>2. /\ Len(t.trail) = n + 1 /\ DOMAIN t.trail = 1..(n + 1)
        /\ \A i \in 1..n : t.trail[i] = s.trail[i]
        /\ t.trail[n + 1] = [lit |-> l, level |-> DecisionLevel(s), reason |-> from]
    BY ONLY SMTT(30), <1>1, <1>4, <2>1, l \in Lits, from \in Nat, EnqueueFields
  <2>3. /\ t.ca = s.ca /\ t.watches = s.watches /\ t.watchesBin = s.watchesBin
        /\ t.qhead = s.qhead /\ t.nVars = s.nVars /\ t.ok = s.ok
        /\ DecisionLevel(t) = DecisionLevel(s)
    BY ONLY <1>1, <2>1, l \in Lits, from \in Nat, EnqueueFields
  <2> QED
    BY ONLY <2>2, <2>3
<1>7. WatchersOK(t) /\ WatchedOK(t)
    BY <1>6, SameClauses
<1>8. Fixed(t) = Fixed(s) \cup {l}
  <2>1. DOMAIN s.trail = 1..n
    BY <1>1, <1>4, SolverTypes
  <2>2. t.trail[n + 1].lit = l /\ t.trail[n + 1].level = 0 /\ n + 1 \in DOMAIN t.trail
    BY <1>6
  <2>3. \A i \in DOMAIN t.trail : i \in DOMAIN s.trail \/ i = n + 1
    BY <1>6, <2>1
  <2>4. \A i \in DOMAIN s.trail : i \in DOMAIN t.trail /\ t.trail[i] = s.trail[i]
    BY <1>6, <2>1
  <2> QED
    BY ONLY <2>2, <2>3, <2>4 DEF Fixed
<1>9. Joins(s, t, left)
  <2>1. AttachedIn(t) = AttachedIn(s) /\ ListOf(t, "clauses") = ListOf(s, "clauses")
    BY <1>6 DEF AttachedIn, ListOf
  <2> QED
    BY <1>2, <1>6, <1>8, <2>1 DEF Joins, Satisfies
<1> QED
    BY <1>4, <1>5, <1>6, <1>7, <1>9

\* More literals are left: they make a clause.
LEMMA AddLonger ==
    ASSUME NEW s, Consistent(s), WatchersOK(s), WatchedOK(s), DecisionLevel(s) = 0,
           s.qhead = Len(s.trail), Visited(s, s.qhead),
           NEW left, Proper(s, left), \A i \in DOMAIN left : IsUndef(s, left[i]),
           NEW t, t = NewClause(s, left, "clauses", 0)
    PROVE  /\ Consistent(t) /\ WatchersOK(t) /\ WatchedOK(t) /\ DecisionLevel(t) = 0
           /\ t.nVars = s.nVars /\ t.ok = s.ok
           /\ t.qhead = Len(t.trail) /\ Visited(t, t.qhead)
           /\ Joins(s, t, left)
<1>1. s \in Solvers
    BY DEF Consistent
<1>2. PICK n : n = Len(s.ca) + 1
    OBVIOUS
<1>3. PICK list \in Lists, lbd \in Nat : list = "clauses" /\ lbd = 0
    BY DEF Lists
<1>4. list # "freed" /\ t = NewClause(s, left, list, lbd)
    BY <1>3
<1>5. /\ Consistent(t) /\ WatchersOK(t) /\ WatchedOK(t)
      /\ t.trail = s.trail /\ t.trail_lim = s.trail_lim /\ t.qhead = s.qhead
      /\ t.nVars = s.nVars /\ t.ok = s.ok /\ DecisionLevel(t) = DecisionLevel(s)
      /\ AttachedIn(t) = AttachedIn(s) \cup {n} /\ n \notin AttachedIn(s)
      /\ Len(t.ca) = n /\ t.ca[n].lits = left /\ t.ca[n].list = list
      /\ \A cr \in DOMAIN s.ca : t.ca[cr] = s.ca[cr]
      /\ WatchersAdded(s.watches, t.watches, left[1], left[2])
      /\ WatchersAdded(s.watchesBin, t.watchesBin, left[1], left[2])
    BY <1>2, <1>4, AttachKeeps
<1>6. left[1] \in Lits /\ left[2] \in Lits /\ IsUndef(s, left[1]) /\ IsUndef(s, left[2])
    BY DEF Proper
<1>7. Visited(t, t.qhead)
  <2>1. PICK q : q = s.qhead
    OBVIOUS
  <2>2. ASSUME NEW i \in DOMAIN s.trail, i <= q, NEW p, p = s.trail[i].lit
        PROVE  /\ \A k \in DOMAIN t.watches[p] : Blocked(t, i, t.watches[p][k])
               /\ \A k \in DOMAIN t.watchesBin[p] : Blocked(t, i, t.watchesBin[p][k])
    <3>1. IsTrue(s, p) /\ p \in Lits
        BY <1>1, <2>2, SolverTypes DEF IsTrue
    <3>2. p # Neg(left[1]) /\ p # Neg(left[2])
        BY <1>6, <3>1 DEF IsUndef, IsFalse
    <3>3. \A w : Blocked(s, i, w) => Blocked(t, i, w)
        BY <1>5 DEF Blocked
    <3>4. /\ \A k \in DOMAIN s.watches[p] : Blocked(s, i, s.watches[p][k])
          /\ \A k \in DOMAIN s.watchesBin[p] : Blocked(s, i, s.watchesBin[p][k])
        BY <2>1, <2>2 DEF Visited
    <3> QED
        BY ONLY <1>5, <3>1, <3>2, <3>3, <3>4 DEF WatchersAdded
  <2>5. t.trail = s.trail
    BY <1>5
  <2>3. \A i \in DOMAIN t.trail : i <= q =>
            LET p == t.trail[i].lit
            IN  /\ \A k \in DOMAIN t.watches[p] : Blocked(t, i, t.watches[p][k])
                /\ \A k \in DOMAIN t.watchesBin[p] : Blocked(t, i, t.watchesBin[p][k])
    BY ONLY <2>5, <2>2
  <2>4. Visited(t, q)
    BY <2>3 DEF Visited
  <2> QED
    BY <1>5, <2>1, <2>4
<1>8. Fixed(t) = Fixed(s)
    BY <1>5, SameTrail
<1>9. Joins(s, t, left)
  <2>1. DOMAIN t.ca = 1..n /\ DOMAIN s.ca = 1..Len(s.ca) /\ Len(s.ca) \in Nat
    BY <1>1, <1>5, SolverTypes DEF Consistent
  <2>2. DOMAIN t.ca = DOMAIN s.ca \cup {n}
    BY <1>2, <2>1
  <2>3. ListOf(t, "clauses") = ListOf(s, "clauses") \cup {n}
    BY <1>3, <1>5, <2>2 DEF ListOf
  <2>4. AttachedIn(s) \subseteq DOMAIN s.ca /\ ListOf(s, "clauses") \subseteq DOMAIN s.ca
    BY DEF AttachedIn, ListOf
  <2> QED
    BY ONLY <1>5, <1>8, <2>3, <2>4 DEF Joins, Satisfies
<1> QED
    BY <1>5, <1>7, <1>9

\* A literal of each variable at most is left of a clause that is not a tautology.
LEMMA LeftProper ==
    ASSUME NEW s, NEW ps, NEW left, Left(s, ps, left), s \in Solvers,
           \A l \in ps : ~IsTrue(s, l) /\ Neg(l) \notin ps
    PROVE  /\ \A i \in DOMAIN left : IsUndef(s, left[i]) /\ Var(left[i]) <= s.nVars
           /\ Len(left) >= 2 => Proper(s, left)
<1>1. left \in Seq(Lits) /\ \A i \in DOMAIN left : left[i] \in ps /\ ~IsFalse(s, left[i])
    BY DEF Left, ToSet
<1>2. \A i \in DOMAIN left : IsUndef(s, left[i]) /\ Var(left[i]) <= s.nVars
    BY <1>1 DEF Left, IsUndef
<1>3. Distinct(left)
  <2>1. SUFFICES ASSUME NEW i \in DOMAIN left, NEW j \in DOMAIN left,
                        Var(left[i]) = Var(left[j])
                 PROVE  i = j
    BY DEF Distinct
  <2>2. left[i] \in Lits /\ left[j] \in Lits
    BY <1>1
  <2>3. left[i] = left[j] \/ left[i] = Neg(left[j])
    BY <2>1, <2>2, LitFacts
  <2>4. left[i] # Neg(left[j])
    BY <1>1
  <2> QED
    BY <2>3, <2>4 DEF Left
<1> QED
    BY <1>1, <1>2, <1>3 DEF Proper

LEMMA AddClauseKeeps ==
    ASSUME IInv, addClause_
    PROVE  IInv' /\ S'.nVars = S.nVars
<1>1. PICK ps : ps = ToSet(Call.lits)
    OBVIOUS
<1>2. PICK dropped \in BOOLEAN :
          dropped = (~S.ok \/ \E l \in ps : IsTrue(S, l) \/ Neg(l) \in ps)
    OBVIOUS
<1>3. PICK left \in SetToSeqs({l \in ps : ~IsFalse(S, l)}) :
          /\ formula' = formula \cup {ps}
          /\ dropped => S' = S
          /\ ~dropped /\ left = <<>> => S' = [S EXCEPT !.ok = FALSE]
          /\ ~dropped /\ left # <<>> /\ Len(left) = 1 =>
                 S' = uncheckedEnqueue(S, left[1], CRef_Undef)
          /\ ~dropped /\ left # <<>> /\ Len(left) # 1 => S' = NewClause(S, left, "clauses", 0)
          /\ ~dropped /\ Len(left) = 1 => pc' = "adding" /\ calls' = calls
          /\ dropped \/ Len(left) # 1 => pc' = "idle" /\ calls' = Tail(calls)
  <2>1. PICK left \in SetToSeqs({l \in ps : ~IsFalse(S, l)}) :
          /\ formula' = formula \cup {ps}
          /\ S' = CASE dropped -> S
                    [] ~dropped /\ left = <<>> -> [S EXCEPT !.ok = FALSE]
                    [] ~dropped /\ Len(left) = 1 ->
                          uncheckedEnqueue(S, left[1], CRef_Undef)
                    [] OTHER -> NewClause(S, left, "clauses", 0)
          /\ IF ~dropped /\ Len(left) = 1
             THEN pc' = "adding" /\ calls' = calls
             ELSE pc' = "idle" /\ calls' = Tail(calls)
    BY <1>1, <1>2 DEF addClause_
  <2>2. PICK none \in BOOLEAN, one \in BOOLEAN :
            none = (left = <<>>) /\ one = (Len(left) = 1)
    OBVIOUS
  <2>7. PICK e, u, c :
            /\ e = [S EXCEPT !.ok = FALSE]
            /\ u = uncheckedEnqueue(S, left[1], CRef_Undef)
            /\ c = NewClause(S, left, "clauses", 0)
    OBVIOUS
  <2>3. S' = CASE dropped -> S [] ~dropped /\ none -> e [] ~dropped /\ one -> u
               [] OTHER -> c
    BY <2>1, <2>2, <2>7
  <2>6. left = <<>> => Len(left) # 1
    OBVIOUS
  <2>4. none => ~one
    BY ONLY <2>2, <2>6
  <2>5. /\ dropped => S' = S
        /\ ~dropped /\ none => S' = e
        /\ ~dropped /\ ~none /\ one => S' = u
        /\ ~dropped /\ ~none /\ ~one => S' = c
    BY ONLY <2>3, <2>4, dropped \in BOOLEAN, none \in BOOLEAN, one \in BOOLEAN
  <2> QED
    BY <2>1, <2>2, <2>5, <2>7
<1>4. /\ pc = "idle" /\ calls # <<>> /\ Call.op = "addClause"
      /\ UNCHANGED <<confl, fresh, adaptIn, restarts, answer>>
    BY DEF addClause_, Serving
<1>5. /\ Call.lits \in Seq(Lits) /\ \A l \in ToSet(Call.lits) : Var(l) <= S.nVars
    BY <1>4, ServeCall DEF IInv, CallsLeft, Call
<1>6. Left(S, ps, left)
  <2>1. PICK n \in Nat : DOMAIN Call.lits = 1..n
    BY <1>5
  <2>2. PICK U : U = {l \in ps : ~IsFalse(S, l)}
    OBVIOUS
  <2>3. IsFiniteSet(U) /\ U \subseteq Lits
    <3>1. Call.lits \in Surjection(1..n, ps)
        BY <1>1, <1>5, <2>1 DEF Surjection, ToSet
    <3>2. IsFiniteSet(1..n)
        BY FS_Interval
    <3>3. IsFiniteSet(ps)
        BY <3>1, <3>2, FS_Surjection
    <3>4. U \in SUBSET ps /\ ps \subseteq Lits
        BY <1>1, <1>5, <2>2 DEF ToSet
    <3> QED
        BY <3>3, <3>4, FS_Subset
  <2>4. /\ left \in Seq(U) /\ ToSet(left) = U
        /\ \A i, j \in DOMAIN left : left[i] = left[j] => i = j
    BY <1>3, <2>2, <2>3, SeqOfSet
  <2>5. left \in Seq(Lits)
    BY <2>3, <2>4
  <2>6. ps \subseteq Lits
    BY <1>1, <1>5 DEF ToSet
  <2> QED
    BY <1>1, <1>5, <2>2, <2>4, <2>5, <2>6 DEF Left
<1>7. /\ Consistent(S) /\ WatchersOK(S) /\ WatchedOK(S) /\ S \in Solvers
      /\ S.nVars \in 0..MaxVars
    BY TypesHold
<1>8. DecisionLevel(S) = 0 /\ (S.ok => S.qhead = Len(S.trail) /\ Visited(S, S.qhead))
    BY <1>4 DEF IInv, Queue, Quiet
<1>9. \A c \in formula' : c \subseteq Oracle!Literals(S.nVars)
  <2>1. ps \subseteq Oracle!Literals(S.nVars)
    BY <1>6, <1>7, LiteralsNamed DEF Left
  <2> QED
    BY <1>3, <2>1 DEF IInv, Named
<1>10. TypeOK'
  <2>1. pc' \in Places
    BY <1>3 DEF Places
  <2> QED
    BY <1>4, <2>1, TypesHold DEF TypeOK
<1>11. S.ok => Sound(S, formula) /\ Complete(S, formula)
    BY DEF IInv, Meaning
<1>12. CASE dropped
  <2>1. S' = S /\ pc' = "idle" /\ calls' = Tail(calls)
    BY <1>3, <1>12
  <2>2. Meaning'
    <3>1. CASE S.ok
      <4>1. PICK l \in ps : IsTrue(S, l) \/ Neg(l) \in ps
        BY <1>2, <1>12, <3>1
      <4>2. Sound(S, formula \cup {ps}) /\ Complete(S, formula \cup {ps})
        BY <1>6, <1>7, <1>8, <1>11, <3>1, <4>1, AddSatisfied
      <4> QED
        BY <1>3, <2>1, <3>1, <4>2 DEF Meaning
    <3>2. CASE ~S.ok
      <4>1. Oracle!ModelsOf(S.nVars, formula) = {}
        BY <3>2 DEF IInv, Meaning
      <4>2. Oracle!ModelsOf(S.nVars, formula \cup {ps}) = {}
        BY <4>1, ModelsAdd
      <4> QED
        BY <1>3, <2>1, <3>2, <4>2 DEF Meaning
    <3> QED
        BY <3>1, <3>2
  <2>3. Named'
    BY <1>9, <2>1 DEF Named
  <2> QED
    BY <1>4, <1>7, <1>8, <1>10, <2>1, <2>2, <2>3, CallEnds
<1>13. ~dropped => S.ok /\ \A l \in ps : ~IsTrue(S, l) /\ Neg(l) \notin ps
    BY <1>2
<1>14. CASE ~dropped /\ left = <<>>
  <2>0. PICK b, t : b = FALSE /\ t = S'
    OBVIOUS
  <2>9. Len(left) # 1
    BY <1>14
  <2>1. t = [S EXCEPT !.ok = b] /\ b \in BOOLEAN /\ pc' = "idle" /\ calls' = Tail(calls)
    BY <1>3, <1>14, <2>0, <2>9
  <2>2. /\ Consistent(t) /\ t.ok = b /\ t.nVars = S.nVars /\ DecisionLevel(t) = DecisionLevel(S)
        /\ WatchersOK(t) /\ WatchedOK(t)
    BY ONLY <1>7, <2>1, OkChanges
  <2>3. ToSet(left) = {}
    BY <1>14 DEF ToSet
  <2>4. Oracle!ModelsOf(S.nVars, formula \cup {ps}) = {}
    BY <1>6, <1>7, <1>8, <1>11, <1>13, <1>14, <2>3, AddEmpty
  <2>5. Named' /\ Meaning'
    BY <1>3, <1>9, <2>0, <2>2, <2>4 DEF Named, Meaning
  <2> QED
    BY <1>4, <1>8, <1>10, <2>0, <2>1, <2>2, <2>5, CallEnds
<1>15. CASE ~dropped /\ Len(left) = 1
  <2>1. /\ S' = uncheckedEnqueue(S, left[1], CRef_Undef)
        /\ pc' = "adding" /\ calls' = calls
    <3>1. left # <<>>
        BY <1>15
    <3> QED
        BY <1>3, <1>15, <3>1
  <2>2. IsUndef(S, left[1]) /\ Var(left[1]) <= S.nVars /\ left \in Seq(Lits)
    <3>1. left \in Seq(Lits)
        BY <1>6 DEF Left
    <3>2. 1 \in DOMAIN left
        BY <1>15, <3>1
    <3> QED
        BY <1>6, <1>7, <1>13, <1>15, <3>1, <3>2, LeftProper
  <2>3. /\ Consistent(S') /\ WatchersOK(S') /\ WatchedOK(S') /\ DecisionLevel(S') = 0
        /\ S'.nVars = S.nVars /\ S'.ok = S.ok /\ Visited(S', S'.qhead)
        /\ Joins(S, S', left)
    BY <1>7, <1>8, <1>13, <1>15, <2>1, <2>2, AddUnit
  <2>4. Sound(S', formula \cup {ps}) /\ Complete(S', formula \cup {ps})
    BY <1>6, <1>7, <1>8, <1>11, <1>13, <1>15, <2>3, AddLeft
  <2>5. Named' /\ Meaning'
    BY <1>3, <1>9, <1>13, <1>15, <2>3, <2>4 DEF Named, Meaning
  <2> QED
    BY <1>4, <1>10, <2>1, <2>3, <2>5, AddingGoes
<1>16. CASE ~dropped /\ left # <<>> /\ Len(left) # 1
  <2>1. /\ S' = NewClause(S, left, "clauses", 0)
        /\ pc' = "idle" /\ calls' = Tail(calls)
    BY <1>3, <1>16
  <2>2. Len(left) >= 2 /\ left \in Seq(Lits)
    <3>1. left \in Seq(Lits)
        BY <1>6 DEF Left
    <3>2. PICK n \in Nat : n = Len(left)
        BY <3>1
    <3>3. n # 0
        BY <1>16, <3>1, <3>2
    <3>4. n # 1
        BY <1>16, <3>2
    <3>5. n >= 2
        BY <3>3, <3>4
    <3> QED
        BY <3>1, <3>2, <3>5
  <2>3. Proper(S, left) /\ \A i \in DOMAIN left : IsUndef(S, left[i])
    BY <1>6, <1>7, <1>13, <1>16, <2>2, LeftProper
  <2>4. /\ Consistent(S') /\ WatchersOK(S') /\ WatchedOK(S') /\ DecisionLevel(S') = 0
        /\ S'.nVars = S.nVars /\ S'.ok = S.ok
        /\ S'.qhead = Len(S'.trail) /\ Visited(S', S'.qhead)
        /\ Joins(S, S', left)
    BY <1>7, <1>8, <1>13, <1>16, <2>1, <2>3, AddLonger
  <2>5. Sound(S', formula \cup {ps}) /\ Complete(S', formula \cup {ps})
    BY <1>6, <1>7, <1>8, <1>11, <1>13, <1>16, <2>4, AddLeft
  <2>6. Named' /\ Meaning'
    BY <1>3, <1>9, <1>13, <1>16, <2>4, <2>5 DEF Named, Meaning
  <2> QED
    BY <1>4, <1>10, <2>1, <2>4, <2>6, CallEnds
<1> QED
    BY <1>12, <1>14, <1>15, <1>16

-----------------------------------------------------------------------------
(***************************************************************************)
(* search: assumptions, decisions and the core of failed assumptions.      *)
(***************************************************************************)

\* The places of the literals, from place d + 1 on, that are not true.
NotTrue(s, lits, d) == {i \in d + 1 .. Len(lits) : ~IsTrue(s, lits[i])}

\* The last of the assumptions that hold from place d + 1 on, or d.
LEMMA LastTrue ==
    ASSUME NEW s, NEW lits \in Seq(Lits), NEW d \in Nat,
           NEW I, I = NotTrue(s, lits, d),
           NEW rest, rest = IF I # {} THEN Min(I) ELSE 0,
           NEW last, last = IF rest = 0 THEN Len(lits) ELSE rest - 1
    PROVE  /\ last \in Nat /\ last <= Len(lits)
           /\ \A e \in d + 1 .. last : IsTrue(s, lits[e])
<1>1. PICK n \in Nat : n = Len(lits)
    OBVIOUS
<1>2. I = {i \in d + 1 .. n : ~IsTrue(s, lits[i])}
    BY <1>1 DEF NotTrue
<1>3. last \in Nat /\ last <= n /\ \A e \in d + 1 .. last : e \notin I
  <2>1. CASE I = {}
    BY <1>1, <2>1
  <2>2. CASE I # {}
    <3>1. I \in SUBSET Nat
        BY <1>2
    <3>2. rest \in I /\ \A i \in I : rest <= i
        BY <2>2, <3>1, LeastOf
    <3>3. PICK r \in d + 1 .. n : r = rest
        BY <1>2, <3>2
    <3>4. r # 0 /\ r \in Nat
        BY <3>3
    <3>5. last = r - 1
        BY <3>3, <3>4
    <3>6. ASSUME NEW e \in d + 1 .. last, e \in I
          PROVE  FALSE
      <4>1. r <= e
        BY <3>2, <3>3, <3>6
      <4> QED
        BY <3>4, <3>5, <3>6, <4>1
    <3> QED
        BY <3>3, <3>4, <3>5, <3>6
  <2> QED
    BY <2>1, <2>2
<1>4. ASSUME NEW e \in d + 1 .. last
      PROVE  IsTrue(s, lits[e])
  <2>1. e \in d + 1 .. n
    BY <1>3
  <2> QED
    BY <1>2, <1>3, <2>1
<1> QED
    BY <1>1, <1>3, <1>4

\* Levels that are empty, for assumptions that hold already.
Dummies(s, t) ==
    /\ Continues(s, t)
    /\ t.trail = s.trail /\ t.qhead = s.qhead /\ t.order_heap = s.order_heap
    /\ t.ca = s.ca /\ t.simpDB_assigns = s.simpDB_assigns
    /\ DecisionLevel(s) <= DecisionLevel(t)
    /\ Visited(t, t.qhead)

Deeper(s, m) == [s EXCEPT !.trail_lim = @ \o [k \in 1..m |-> Len(s.trail)]]

LEMMA DummyFields ==
    ASSUME NEW s \in Solvers, NEW d, d = DecisionLevel(s), NEW m \in Nat,
           NEW t, t = Deeper(s, m)
    PROVE  /\ t \in Solvers /\ t.trail_lim \in Seq(Nat) /\ Len(t.trail_lim) = d + m
           /\ \A e \in 1..d : t.trail_lim[e] = s.trail_lim[e]
           /\ \A e \in d + 1 .. d + m : t.trail_lim[e] = Len(s.trail)
           /\ t.trail = s.trail /\ t.qhead = s.qhead /\ t.order_heap = s.order_heap
           /\ t.ca = s.ca /\ t.watches = s.watches /\ t.watchesBin = s.watchesBin
           /\ t.nVars = s.nVars /\ t.ok = s.ok /\ t.simpDB_assigns = s.simpDB_assigns
<1>1. s.trail_lim \in Seq(Nat) /\ d = Len(s.trail_lim) /\ d \in Nat /\ Len(s.trail) \in Nat
    BY SolverTypes DEF DecisionLevel
<1>2. PICK n \in Nat : n = Len(s.trail)
    BY <1>1
<1>3. PICK f : f = [k \in 1..m |-> n]
    OBVIOUS
<1>4. f \in Seq(Nat) /\ Len(f) = m /\ \A k \in 1..m : f[k] = n
  <2>1. f \in [1..m -> Nat]
    BY <1>3
  <2> QED
    BY <1>3, <2>1
<1>9. PICK c \in Seq(Nat) : c = s.trail_lim
    BY <1>1
<1>5. PICK g \in Seq(Nat) : g = c \o f
  <2>1. PICK R : R = Nat
    OBVIOUS
  <2>2. c \in Seq(R) /\ f \in Seq(R)
    BY <1>4, <1>9, <2>1
  <2>3. c \o f \in Seq(R)
    BY ONLY <2>2
  <2> QED
    BY <2>1, <2>3
<1>6. /\ Len(g) = d + m
      /\ \A e \in 1..d : g[e] = s.trail_lim[e]
      /\ \A e \in d + 1 .. d + m : g[e] = n
  <2>1. Len(c) = d /\ d \in Nat
    BY <1>1, <1>9
  <2>2. \A e \in 1..d : g[e] = c[e]
    BY <1>4, <1>5, <2>1
  <2>3. ASSUME NEW e \in d + 1 .. d + m
        PROVE  g[e] = n
    <3>1. e - d \in 1..m /\ g[e] = f[e - d]
        BY <1>4, <1>5, <2>1
    <3> QED
        BY <1>4, <3>1
  <2>5. PICK R : R = Nat
    OBVIOUS
  <2>6. c \in Seq(R) /\ f \in Seq(R)
    BY <1>4, <1>9, <2>5
  <2>4. Len(c \o f) = Len(c) + Len(f)
    BY ONLY <2>6
  <2> QED
    BY <1>4, <1>5, <1>9, <2>1, <2>2, <2>3, <2>4
<1>7. t = [s EXCEPT !.trail_lim = g]
    BY <1>2, <1>3, <1>5, <1>9 DEF Deeper
<1>8. /\ t \in Solvers /\ t.trail_lim = g
      /\ t.trail = s.trail /\ t.qhead = s.qhead /\ t.order_heap = s.order_heap
      /\ t.ca = s.ca /\ t.watches = s.watches /\ t.watchesBin = s.watchesBin
      /\ t.nVars = s.nVars /\ t.ok = s.ok /\ t.simpDB_assigns = s.simpDB_assigns
    BY <1>7 DEF Solvers
<1> QED
    BY <1>2, <1>6, <1>8

LEMMA DummyKeeps ==
    ASSUME NEW s, Consistent(s), WatchersOK(s), WatchedOK(s),
           s.qhead = Len(s.trail), Visited(s, s.qhead),
           NEW lits, lits = Call.lits, lits \in Seq(Lits), NEW t, t = DummyLevels(s)
    PROVE  Dummies(s, t)
<1>1. s \in Solvers /\ TrailOK(s)
    BY DEF Consistent
<1>2. PICK d \in Nat : d = DecisionLevel(s)
    BY <1>1, SolverTypes
<1>9. PICK I : I = NotTrue(s, lits, d)
    OBVIOUS
<1>3. PICK rest : rest = IF I # {} THEN Min(I) ELSE 0
    OBVIOUS
<1>4. PICK last : last = IF rest = 0 THEN Len(lits) ELSE rest - 1
    OBVIOUS
<1>5. /\ last \in Nat /\ last <= Len(lits)
      /\ \A e \in d + 1 .. last : IsTrue(s, lits[e])
    BY ONLY d \in Nat, lits \in Seq(Lits), <1>9, <1>3, <1>4, LastTrue
<1>6. t = IF last <= d THEN s
          ELSE [s EXCEPT !.trail_lim = @ \o [k \in 1 .. last - d |-> Len(s.trail)]]
    BY <1>2, <1>3, <1>4, <1>9 DEF DummyLevels, NotTrue, SelectInSubSeq
<1>7. CASE last <= d
  <2>1. t = s
    BY <1>6, <1>7
  <2> QED
    BY <1>2, <2>1, ContinuesSelf DEF Dummies
<1>8. CASE ~(last <= d)
  <2>1. PICK m \in Nat : m = last - d /\ m > 0
    BY <1>5, <1>8
  <2>2. t = Deeper(s, m)
    BY <1>6, <1>8, <2>1 DEF Deeper
  <2>3. /\ t \in Solvers /\ t.trail_lim \in Seq(Nat) /\ Len(t.trail_lim) = d + m
        /\ \A e \in 1..d : t.trail_lim[e] = s.trail_lim[e]
        /\ \A e \in d + 1 .. d + m : t.trail_lim[e] = Len(s.trail)
        /\ t.trail = s.trail /\ t.qhead = s.qhead /\ t.order_heap = s.order_heap
        /\ t.ca = s.ca /\ t.watches = s.watches /\ t.watchesBin = s.watchesBin
        /\ t.nVars = s.nVars /\ t.ok = s.ok /\ t.simpDB_assigns = s.simpDB_assigns
    BY ONLY <1>1, <1>2, m \in Nat, <2>2, DummyFields
  <2>4. PICK lims \in Seq(Nat) : lims = t.trail_lim
    BY <2>3
  <2>5. Consistent(t)
    BY <1>2, <2>3, <2>4, LevelsBegin
  <2>6. WatchersOK(t) /\ WatchedOK(t)
    BY ONLY <2>3, WatchersOK(s), WatchedOK(s), SameClauses
  <2>7. Fixed(t) = Fixed(s) /\ Visited(t, t.qhead)
    BY ONLY <2>3, Visited(s, s.qhead), SameTrail
  <2>8. \A F : (Sound(s, F) => Sound(t, F)) /\ (Complete(s, F) => Complete(t, F))
    BY ONLY <2>3, <2>7, SameMeaning
  <2>9. ASSUME AssumptionsFirst(s, lits)
        PROVE  AssumptionsFirst(t, lits)
    <3>1. DOMAIN t.trail_lim = 1..last /\ DOMAIN s.trail_lim = 1..d
      <4>1. d + m = last
        BY <1>5, <2>1
      <4>2. PICK c \in Seq(Nat) : c = t.trail_lim
        BY <2>3
      <4>3. Len(c) = last /\ DOMAIN c = 1..Len(c)
        BY <2>3, <4>1, <4>2
      <4> QED
        BY <1>1, <1>2, <4>2, <4>3, SolverTypes
    <3>2. ASSUME NEW e \in 1..last, e <= Len(lits)
          PROVE  \E i \in DOMAIN s.trail : s.trail[i].lit = lits[e] /\ s.trail[i].level <= e
      <4>1. CASE e <= d
        <5>1. e \in DOMAIN s.trail_lim
            BY <3>1, <3>2, <4>1
        <5> QED
            BY <2>9, <3>2, <5>1 DEF AssumptionsFirst
      <4>2. CASE e > d
        <5>1. IsTrue(s, lits[e])
            BY <1>5, <3>2, <4>2
        <5>2. PICK i \in DOMAIN s.trail : s.trail[i].lit = lits[e]
            BY <5>1 DEF IsTrue
        <5>3. s.trail[i].level \in Nat /\ s.trail[i].level <= d
            BY <1>1, <1>2, <5>2, SolverTypes DEF TrailOK
        <5> QED
            BY <4>2, <5>2, <5>3
      <4> QED
        BY <4>1, <4>2
    <3> QED
        BY <2>3, <2>9, <3>1, <3>2 DEF AssumptionsFirst
  <2>10. Continues(s, t)
    BY ONLY <2>3, <2>5, <2>6, <2>8, <2>9, lits = Call.lits DEF Continues
  <2> QED
    BY ONLY <1>2, <2>3, <2>7, <2>10, d \in Nat, m \in Nat DEF Dummies, DecisionLevel
<1> QED
    BY <1>7, <1>8

\* What analyzeFinal has found when it has gone through the trail down to place n.
Explained(s, p, n, a) ==
    /\ p \in a.out /\ Var(p) \in a.seen
    /\ \A o \in a.out :
           o = p \/ \E i \in DOMAIN s.trail :
                        /\ o = Neg(s.trail[i].lit) /\ s.trail[i].reason = CRef_Undef
                        /\ s.trail[i].level > 0
    /\ \A i \in DOMAIN s.trail :
           LET e == s.trail[i]
           IN  i > n /\ e.level > 0 /\ Var(e.lit) \in a.seen =>
                   /\ e.reason = CRef_Undef => Neg(e.lit) \in a.out
                   /\ e.reason # CRef_Undef =>
                          \A m \in ToSet(s.ca[e.reason].lits) \ {e.lit} :
                              LevelOf(s, m) > 0 => Var(m) \in a.seen

Explanations == [seen : SUBSET Vars, out : SUBSET Lits]

\* The literals of a reason that are looked at: all of them in a clause of two,
\* the second and later ones in another.
LookedAt(s, e) ==
    LET c == s.ca[e.reason].lits
        rest == SubSeq(c, IF Len(c) = 2 THEN 1 ELSE 2, Len(c))
    IN  {Var(q) : q \in {q \in ToSet(rest) : LevelOf(s, q) > 0}}

LEMMA LookedAtFacts ==
    ASSUME NEW s, Consistent(s), NEW i \in DOMAIN s.trail, NEW e, e = s.trail[i],
           e.level > 0, e.reason # CRef_Undef
    PROVE  /\ LookedAt(s, e) \in SUBSET Vars
           /\ \A m \in ToSet(s.ca[e.reason].lits) \ {e.lit} :
                  LevelOf(s, m) > 0 => Var(m) \in LookedAt(s, e)
           /\ \A j \in DOMAIN s.trail : j > i => Var(s.trail[j].lit) \notin LookedAt(s, e)
<1>1. s \in Solvers /\ TrailOK(s) /\ ReasonOK(s, i) /\ ClausesOK(s)
    BY DEF Consistent, ReasonsOK
<1>2. PICK c \in Seq(Lits) : c = s.ca[e.reason].lits
    BY <1>1, SolverTypes DEF ReasonOK, AttachedIn
<1>3. /\ Len(c) >= 2 /\ (e.lit = c[1] \/ (Len(c) = 2 /\ e.lit = c[2]))
      /\ \A l \in ToSet(c) \ {e.lit} : \E j \in 1 .. i - 1 : s.trail[j].lit = Neg(l)
    BY <1>1, <1>2 DEF ReasonOK, ClausesOK
<1>4. PICK n \in Nat : n = Len(c)
    BY <1>2
<1>5. PICK from \in 1..2 : from = IF n = 2 THEN 1 ELSE 2
    OBVIOUS
<1>6. PICK R : R = ToSet(SubSeq(c, from, n))
    OBVIOUS
<1>7. R = {c[k] : k \in from..n}
  <2>1. from \in Nat /\ from <= n /\ n <= Len(c)
    BY <1>3, <1>4
  <2>2. PICK d : d = SubSeq(c, from, n)
    OBVIOUS
  <2>3. Len(d) = n - from + 1 /\ DOMAIN d = 1 .. n - from + 1
        /\ \A k \in 1 .. n - from + 1 : d[k] = c[from + k - 1]
    <3>1. PICK L : L = Lits
        OBVIOUS
    <3>2. c \in Seq(L)
        BY <1>2, <3>1
    <3>3. CASE from = 1
        BY ONLY <3>2, <1>4, <2>1, <2>2, <3>3, n \in Nat
    <3>4. CASE from = 2
        BY ONLY <3>2, <1>4, <2>1, <2>2, <3>4, n \in Nat
    <3> QED
        BY <3>3, <3>4
  <2>4. ASSUME NEW k \in from..n
        PROVE  c[k] \in ToSet(d)
    <3>1. k - from + 1 \in 1 .. n - from + 1 /\ from + (k - from + 1) - 1 = k
        OBVIOUS
    <3> QED
        BY <2>3, <3>1 DEF ToSet
  <2>5. ASSUME NEW k \in 1 .. n - from + 1
        PROVE  d[k] \in {c[m] : m \in from..n}
    <3>1. from + k - 1 \in from..n
        OBVIOUS
    <3> QED
        BY <2>3, <3>1
  <2> QED
    BY <1>6, <2>2, <2>3, <2>4, <2>5 DEF ToSet
<1>8. R \subseteq ToSet(c) /\ ToSet(c) \subseteq Lits
    BY SMTT(30), <1>2, <1>4, <1>7 DEF ToSet
<1>9. LookedAt(s, e) = {Var(q) : q \in {q \in R : LevelOf(s, q) > 0}}
    BY <1>2, <1>4, <1>5, <1>6 DEF LookedAt
<1>10. ToSet(c) \ {e.lit} \subseteq R
  <2>1. SUFFICES ASSUME NEW k \in 1..n, c[k] # e.lit
                 PROVE  c[k] \in R
    BY SMTT(30), <1>2, <1>4 DEF ToSet
  <2>2. CASE n = 2
    BY <1>5, <1>7, <2>1, <2>2
  <2>3. CASE n # 2
    <3>1. e.lit = c[1] /\ from = 2
        BY <1>3, <1>4, <1>5, <2>3
    <3>2. k \in 2..n
        BY <2>1, <3>1
    <3> QED
        BY <1>7, <3>1, <3>2
  <2> QED
    BY <2>2, <2>3
<1>11. ASSUME NEW q \in R, NEW j \in DOMAIN s.trail, j > i
       PROVE  Var(s.trail[j].lit) # Var(q)
  <2>1. PICK k \in DOMAIN s.trail : k <= i /\ Var(s.trail[k].lit) = Var(q)
    <3>1. CASE q = e.lit
        BY <3>1, <1>1, SolverTypes
    <3>2. CASE q # e.lit
      <4>1. PICK k \in 1 .. i - 1 : s.trail[k].lit = Neg(q)
        BY <1>3, <1>8, <1>11, <3>2
      <4>2. k \in DOMAIN s.trail /\ k <= i
        BY <1>1, SolverTypes
      <4>3. Var(Neg(q)) = Var(q)
        BY <1>8, LitFacts
      <4> QED
        BY <4>1, <4>2, <4>3
    <3> QED
        BY <3>1, <3>2
  <2>2. k # j
    BY <1>1, <1>11, <2>1, SolverTypes
  <2> QED
    BY <1>1, <2>1, <2>2 DEF TrailOK
<1>12. LookedAt(s, e) \in SUBSET Vars
    BY <1>8, <1>9, LitFacts
<1>13. \A m \in ToSet(c) \ {e.lit} : LevelOf(s, m) > 0 => Var(m) \in LookedAt(s, e)
    BY <1>9, <1>10
<1>14. \A j \in DOMAIN s.trail : j > i => Var(s.trail[j].lit) \notin LookedAt(s, e)
    BY <1>9, <1>11
<1> QED
    BY <1>2, <1>12, <1>13, <1>14

LEMMA ExplainStep ==
    ASSUME NEW s, Consistent(s), NEW p, NEW i \in DOMAIN s.trail, NEW a \in Explanations,
           Explained(s, p, i, a), NEW b, b = Explain(s, a, s.trail[i])
    PROVE  b \in Explanations /\ Explained(s, p, i - 1, b)
<1>1. PICK e : e = s.trail[i]
    OBVIOUS
<1>2. s \in Solvers /\ TrailOK(s)
    BY DEF Consistent
<1>3. e.lit \in Lits /\ Neg(e.lit) \in Lits /\ e.level \in Nat /\ i \in Nat
    BY <1>1, <1>2, SolverTypes, LitFacts
<1>4. \A j \in DOMAIN s.trail : j > i - 1 => j = i \/ j > i
    BY <1>2, <1>3, SolverTypes
<1>5. CASE e.level = 0 \/ Var(e.lit) \notin a.seen
  <2>1. b = a
    BY <1>1, <1>5 DEF Explain
  <2> QED
    BY <1>1, <1>4, <1>5, <2>1 DEF Explained
<1>6. CASE e.level > 0 /\ Var(e.lit) \in a.seen /\ e.reason = CRef_Undef
  <2>1. b = [a EXCEPT !.out = @ \cup {Neg(e.lit)}]
    BY <1>1, <1>6 DEF Explain
  <2>2. b \in Explanations /\ b.out = a.out \cup {Neg(e.lit)} /\ b.seen = a.seen
    BY <1>3, <2>1 DEF Explanations
  <2> QED
    BY <1>1, <1>4, <1>6, <2>2 DEF Explained
<1>7. CASE e.level > 0 /\ Var(e.lit) \in a.seen /\ e.reason # CRef_Undef
  <2>1. PICK L : L = LookedAt(s, e)
    OBVIOUS
  <2>2. b = [a EXCEPT !.seen = @ \cup L]
    <3>1. ~(e.level = 0 \/ Var(e.lit) \notin a.seen) /\ e.reason # CRef_Undef
        BY <1>3, <1>7
    <3>2. b = Explain(s, a, e)
        BY <1>1
    <3>3. b = [a EXCEPT !.seen = @ \cup LookedAt(s, e)]
        BY ONLY <3>1, <3>2 DEF Explain, LookedAt
    <3> QED
        BY <2>1, <3>3
  <2>3. /\ L \in SUBSET Vars
        /\ \A m \in ToSet(s.ca[e.reason].lits) \ {e.lit} :
               LevelOf(s, m) > 0 => Var(m) \in L
        /\ \A j \in DOMAIN s.trail : j > i => Var(s.trail[j].lit) \notin L
    BY <1>1, <1>7, <2>1, LookedAtFacts
  <2>4. b \in Explanations /\ b.out = a.out /\ b.seen = a.seen \cup L
    BY <2>2, <2>3 DEF Explanations
  <2> QED
    BY <1>1, <1>4, <1>7, <2>3, <2>4 DEF Explained
<1> QED
    BY <1>3, <1>5, <1>6, <1>7

\* The conflict clause of a query that fails: negated assumptions, and p, of which
\* every model of the formula makes one true.
Final(s, p, out) ==
    /\ p \in out
    /\ \A o \in out :
           o = p \/ \E i \in DOMAIN s.trail :
                        /\ o = Neg(s.trail[i].lit) /\ s.trail[i].reason = CRef_Undef
                        /\ s.trail[i].level > 0
    /\ \A F : Sound(s, F) => \A A \in Oracle!ModelsOf(s.nVars, F) : out \cap A # {}

\* What has been explained is true in a model that makes no explanation true.
LEMMA ExplainedTrue ==
    ASSUME NEW s, Consistent(s), NEW p, NEW a, Explained(s, p, 0, a),
           NEW F, Sound(s, F), NEW A \in Oracle!ModelsOf(s.nVars, F), a.out \cap A = {}
    PROVE  \A i \in DOMAIN s.trail :
               s.trail[i].level = 0 \/ Var(s.trail[i].lit) \in a.seen => s.trail[i].lit \in A
<1>1. s \in Solvers /\ TrailOK(s) /\ s.nVars \in 0..MaxVars
    BY SolverTypes DEF Consistent
<1>2. A \in Oracle!Assignments(s.nVars) /\ Satisfies(A, s, AttachedIn(s))
    BY DEF Sound, Oracle!ModelsOf
<1>3. \A l \in Lits : Var(l) <= s.nVars => (l \in A <=> Neg(l) \notin A)
    BY <1>1, <1>2, AssignmentFacts
<1>4. PICK n \in Nat : n = Len(s.trail) /\ DOMAIN s.trail = 1..n
    BY <1>1, SolverTypes
<1> DEFINE Good(i) == s.trail[i].level = 0 \/ Var(s.trail[i].lit) \in a.seen
                          => s.trail[i].lit \in A
           C == {k \in 0..n : \A i \in 1..k : Good(i)}
<1>5. ASSUME NEW i \in 1..n, \A j \in 1 .. i - 1 : Good(j)
      PROVE  Good(i)
  <2>1. PICK e : e = s.trail[i]
    OBVIOUS
  <2>2. /\ e.lit \in Lits /\ Neg(e.lit) \in Lits /\ Var(e.lit) <= s.nVars
        /\ e.level \in Nat /\ e.reason \in Nat
    BY <1>1, <1>4, <2>1, SolverTypes, LitFacts DEF TrailOK
  <2>3. CASE e.level = 0
    BY <1>2, <1>4, <2>1, <2>3 DEF Satisfies, Fixed
  <2>4. CASE e.level > 0 /\ Var(e.lit) \notin a.seen
    BY <2>1, <2>4
  <2>5. CASE e.level > 0 /\ Var(e.lit) \in a.seen /\ e.reason = CRef_Undef
    <3>1. Neg(e.lit) \in a.out
        BY <1>4, <2>1, <2>5 DEF Explained
    <3> QED
        BY <1>3, <2>1, <2>2, <3>1
  <2>6. CASE e.level > 0 /\ Var(e.lit) \in a.seen /\ e.reason # CRef_Undef
    <3>1. ReasonOK(s, i)
        BY <1>4, <2>1, <2>6 DEF Consistent, ReasonsOK
    <3>2. PICK c \in Seq(Lits) : c = s.ca[e.reason].lits
        BY <1>1, <2>1, <3>1, SolverTypes DEF ReasonOK, AttachedIn
    <3>3. /\ e.reason \in AttachedIn(s)
          /\ \A l \in ToSet(c) \ {e.lit} : \E j \in 1 .. i - 1 : s.trail[j].lit = Neg(l)
        BY <2>1, <3>1, <3>2 DEF ReasonOK
    <3>4. PICK l \in ToSet(c) : l \in A
        BY <1>2, <3>2, <3>3 DEF Satisfies
    <3>5. l \in Lits
        BY <3>2, <3>4 DEF ToSet
    <3>6. CASE l = e.lit
        BY <2>1, <3>4, <3>6
    <3>7. CASE l # e.lit
      <4>1. PICK j \in 1 .. i - 1 : s.trail[j].lit = Neg(l)
        BY <3>3, <3>4, <3>7
      <4>2. j \in DOMAIN s.trail /\ j \in 1 .. i - 1
        BY <1>4, <4>1
      <4>3. s.trail[j].level \in Nat /\ Var(Neg(l)) = Var(l) /\ Neg(Neg(l)) = l
            /\ Var(Neg(l)) <= s.nVars /\ Neg(l) \in Lits
        BY <1>1, <3>5, <4>1, <4>2, SolverTypes, LitFacts DEF TrailOK
      <4>4. LevelOf(s, l) = s.trail[j].level
        BY <1>1, <3>5, <4>1, <4>2, OnTrail
      <4>5. s.trail[j].level > 0 => Var(l) \in a.seen
        BY <1>4, <2>1, <2>6, <3>2, <3>4, <3>7, <4>4 DEF Explained
      <4>6. s.trail[j].level = 0 \/ Var(s.trail[j].lit) \in a.seen
        BY <4>1, <4>3, <4>5
      <4>7. Neg(l) \in A
        BY <1>5, <4>1, <4>2, <4>6
      <4> QED
        BY <1>3, <3>4, <4>3, <4>7
    <3> QED
        BY <3>6, <3>7
  <2> QED
    BY <2>2, <2>3, <2>4, <2>5, <2>6
<1>6. 0 \in C
    BY <1>4
<1>7. ASSUME NEW k \in 1..n, k - 1 \in C
      PROVE  k \in C
  <2>1. \A i \in 1 .. k - 1 : Good(i)
    BY <1>7
  <2>2. Good(k)
    BY <1>5, <2>1
  <2>3. \A i \in 1..k : i \in 1 .. k - 1 \/ i = k
    OBVIOUS
  <2>4. \A i \in 1..k : Good(i)
    BY <2>1, <2>2, <2>3
  <2> QED
    BY <2>4
<1> HIDE DEF C
<1>8. n \in C
  <2>1. \A k \in 0..n : k \in C
    BY ONLY n \in Nat, <1>6, <1>7, StepInduction
  <2> QED
    BY <2>1
<1> QED
    BY <1>4, <1>8 DEF C

\* analyzeFinal.
LEMMA FinalKeeps ==
    ASSUME NEW s, Consistent(s), NEW p, p \in Lits, IsTrue(s, p),
           NEW out, out = analyzeFinal(s, p)
    PROVE  Final(s, p, out)
<1>1. s \in Solvers /\ TrailOK(s) /\ s.nVars \in 0..MaxVars
    BY SolverTypes DEF Consistent
<1>2. PICK i0 \in DOMAIN s.trail : s.trail[i0].lit = p
    BY DEF IsTrue
<1>3. CASE DecisionLevel(s) = 0
  <2>1. out = {p}
    BY <1>3 DEF analyzeFinal
  <2>2. s.trail[i0].level = 0
    <3>1. s.trail[i0].level \in Nat /\ s.trail[i0].level <= 0
        BY <1>1, <1>2, <1>3, SolverTypes DEF TrailOK
    <3> QED
        BY <3>1
  <2>3. p \in Fixed(s)
    BY <1>2, <2>2 DEF Fixed
  <2> QED
    BY <2>1, <2>3 DEF Final, Sound, Satisfies
<1>4. CASE DecisionLevel(s) # 0
  <2>1. PICK n \in Nat : n = Len(s.trail) /\ DOMAIN s.trail = 1..n
    BY <1>1, SolverTypes
  <2>2. PICK seq : seq = Reverse(s.trail)
    OBVIOUS
  <2>3. seq \in Seq(Entries) /\ Len(seq) = n /\ \A k \in 1..n : seq[k] = s.trail[n - k + 1]
    <3>1. \A k \in 1..n : n - k + 1 \in 1..n
        OBVIOUS
    <3>2. seq = [k \in 1..n |-> s.trail[n - k + 1]]
        BY <2>1, <2>2 DEF Reverse
    <3>3. seq \in [1..n -> Entries]
        BY <1>1, <2>1, <3>1, <3>2, SolverTypes
    <3> QED
        BY <3>2, <3>3
  <2>4. PICK base : base = [seen |-> {Var(p)}, out |-> {p}]
    OBVIOUS
  <2>5. out = ExplainAll(s, base, seq).out
    BY <1>4, <2>2, <2>4 DEF analyzeFinal
  <2>6. PICK h : /\ h[0] = base
                 /\ \A k \in 1..n : h[k] = Explain(s, h[k - 1], seq[k])
                 /\ ExplainAll(s, base, seq) = h[n]
    <3>1. PICK R : R = Entries
        OBVIOUS
    <3>2. seq \in Seq(R)
        BY <2>3, <3>1
    <3>3. ExplainRuns(base, seq, s)
        BY ONLY <3>2, ExplainTrace
    <3> QED
        BY ONLY <2>3, <3>3 DEF ExplainRuns
  <2> DEFINE C == {k \in 0..n : h[k] \in Explanations /\ Explained(s, p, n - k, h[k])}
  <2>7. 0 \in C
    <3>1. base \in Explanations
        BY <2>4, LitFacts DEF Explanations
    <3>2. base.out = {p} /\ base.seen = {Var(p)}
        BY <2>4
    <3>3. \A i \in DOMAIN s.trail : ~(i > n)
        BY <2>1
    <3>4. Explained(s, p, n, base)
        BY <3>2, <3>3 DEF Explained
    <3> QED
        BY <2>6, <3>1, <3>4
  <2>8. ASSUME NEW k \in 1..n, k - 1 \in C
        PROVE  k \in C
    <3>7. n - k + 1 \in 1..n
        BY ONLY n \in Nat, k \in 1..n
    <3>1. PICK i \in DOMAIN s.trail : i = n - k + 1
        BY ONLY <2>1, <3>7
    <3>2. n - (k - 1) = i /\ i - 1 = n - k /\ seq[k] = s.trail[i]
        BY <2>3, <3>1
    <3>3. PICK a, b : a = h[k - 1] /\ b = h[k]
        OBVIOUS
    <3>4. a \in Explanations /\ Explained(s, p, i, a) /\ b = Explain(s, a, s.trail[i])
        BY <2>6, <2>8, <3>2, <3>3
    <3>5. b \in Explanations /\ Explained(s, p, i - 1, b)
        BY ONLY Consistent(s), i \in DOMAIN s.trail, <3>4, ExplainStep
    <3> QED
        BY <3>2, <3>3, <3>5
  <2> HIDE DEF C
  <2>9. \A k \in 0..n : k \in C
    BY ONLY n \in Nat, <2>7, <2>8, StepInduction
  <2>10. PICK a : a = h[n]
    OBVIOUS
  <2>11. Explained(s, p, 0, a) /\ a \in Explanations /\ out = a.out
    <3>1. n \in C /\ n - n = 0
        BY <2>9
    <3> QED
        BY <2>5, <2>6, <2>10, <3>1 DEF C
  <2>12. ASSUME NEW F, Sound(s, F), NEW A \in Oracle!ModelsOf(s.nVars, F), out \cap A = {}
         PROVE  FALSE
    <3>1. p \in A
        BY <1>2, <2>11, <2>12, ExplainedTrue DEF Explained
    <3> QED
        BY <2>11, <2>12, <3>1 DEF Explained
  <2> QED
    BY <2>11, <2>12 DEF Explained, Final
<1> QED
    BY <1>3, <1>4

\* An assumption, or a literal branched on.
LEMMA DecisionFollows ==
    ASSUME NEW s, Consistent(s), WatchersOK(s), WatchedOK(s),
           s.qhead = Len(s.trail), Visited(s, s.qhead),
           NEW l \in Lits, Var(l) <= s.nVars, IsUndef(s, l),
           NEW lits, lits = Call.lits, lits \in Seq(Lits),
           DecisionLevel(s) + 1 <= Len(lits) => l = lits[DecisionLevel(s) + 1],
           NEW t, t = uncheckedEnqueue(newDecisionLevel(s), l, CRef_Undef)
    PROVE  /\ Continues(s, t) /\ Visited(t, t.qhead)
           /\ t.order_heap = s.order_heap
           /\ \A m \in Lits : IsUndef(t, m) => IsUndef(s, m) /\ m # l
<1>1. s \in Solvers /\ TrailOK(s)
    BY DEF Consistent
<1>2. PICK n \in Nat, d \in Nat :
          n = Len(s.trail) /\ DOMAIN s.trail = 1..n
          /\ d = DecisionLevel(s) /\ DOMAIN s.trail_lim = 1..d
    BY <1>1, SolverTypes
<1>3. /\ Consistent(t)
      /\ t.qhead = s.qhead /\ t.nVars = s.nVars /\ t.ok = s.ok
      /\ t.ca = s.ca /\ t.watches = s.watches /\ t.watchesBin = s.watchesBin
      /\ t.order_heap = s.order_heap
      /\ DecisionLevel(t) = d + 1
      /\ Len(t.trail) = n + 1
      /\ \A i \in 1..n : t.trail[i] = s.trail[i]
      /\ t.trail[n + 1] = [lit |-> l, level |-> d + 1, reason |-> CRef_Undef]
      /\ Fixed(t) = Fixed(s)
      /\ \A k \in 0..n : Visited(s, k) => Visited(t, k)
    BY <1>2, DecisionKeeps
<1>4. WatchersOK(t) /\ WatchedOK(t)
    BY ONLY <1>3, WatchersOK(s), WatchedOK(s), SameClauses
<1>5. \A F : (Sound(s, F) => Sound(t, F)) /\ (Complete(s, F) => Complete(t, F))
    BY ONLY <1>3, SameMeaning
<1>6. DOMAIN t.trail = 1..(n + 1) /\ DOMAIN t.trail_lim = 1..(d + 1)
    BY <1>3, SolverTypes DEF Consistent
<1>7. Visited(t, t.qhead)
    BY <1>2, <1>3
<1>8. t.trail[n + 1].lit = l /\ t.trail[n + 1].level = d + 1
    BY <1>3
<1>9. ASSUME AssumptionsFirst(s, lits)
      PROVE  AssumptionsFirst(t, lits)
  <2>1. ASSUME NEW e \in 1..(d + 1), e <= Len(lits)
        PROVE  \E i \in 1..(n + 1) : t.trail[i].lit = lits[e] /\ t.trail[i].level <= e
    <3>1. CASE e \in 1..d
      <4>1. PICK i \in 1..n : s.trail[i].lit = lits[e] /\ s.trail[i].level <= e
        BY <1>2, <1>9, <2>1, <3>1 DEF AssumptionsFirst
      <4> QED
        BY <1>3, <4>1
    <3>2. CASE e = d + 1
        BY <1>2, <1>8, <2>1, <3>2
    <3> QED
        BY <3>1, <3>2
  <2>2. ASSUME NEW i \in 1..(n + 1), t.trail[i].reason = CRef_Undef,
               t.trail[i].level \in 1..Len(lits)
        PROVE  t.trail[i].lit = lits[t.trail[i].level]
    <3>1. CASE i \in 1..n
      <4>1. t.trail[i] = s.trail[i] /\ i \in DOMAIN s.trail
        BY <1>2, <1>3, <3>1
      <4>2. s.trail[i].reason = CRef_Undef /\ s.trail[i].level \in 1..Len(lits)
        BY <2>2, <4>1
      <4>3. s.trail[i].lit = lits[s.trail[i].level]
        BY <1>9, <4>1, <4>2 DEF AssumptionsFirst
      <4> QED
        BY <4>1, <4>3
    <3>2. CASE i = n + 1
      <4>1. d + 1 <= Len(lits)
        BY <1>8, <2>2, <3>2
      <4> QED
        BY <1>2, <1>8, <3>2, <4>1
    <3> QED
        BY <3>1, <3>2
  <2> QED
    BY <1>6, <2>1, <2>2 DEF AssumptionsFirst
<1>10. Continues(s, t)
    BY ONLY <1>3, <1>4, <1>5, <1>9, lits = Call.lits DEF Continues
<1>11. ASSUME NEW m \in Lits, IsUndef(t, m)
       PROVE  IsUndef(s, m) /\ m # l
  <2>1. \A i \in 1..n : i \in DOMAIN t.trail
    BY <1>6
  <2>2. IsTrue(t, l)
    BY <1>6, <1>8 DEF IsTrue
  <2> QED
    BY <1>2, <1>3, <1>11, <2>1, <2>2 DEF IsUndef, IsTrue, IsFalse
<1> QED
    BY <1>3, <1>7, <1>10, <1>11

\* The heap may lose variables that have values.
WithHeap(s, heap) == [s EXCEPT !.order_heap = heap]

LEMMA WithHeapFields ==
    ASSUME NEW s \in Solvers, NEW heap \in SUBSET Vars, NEW t, t = WithHeap(s, heap)
    PROVE  /\ t \in Solvers /\ t.order_heap = heap
           /\ t.ok = s.ok /\ t.nVars = s.nVars /\ t.qhead = s.qhead
           /\ t.ca = s.ca /\ t.watches = s.watches /\ t.watchesBin = s.watchesBin
           /\ t.trail = s.trail /\ t.trail_lim = s.trail_lim
    BY DEF WithHeap, Solvers

LEMMA WithHeapKeeps ==
    ASSUME NEW s, Consistent(s), WatchersOK(s), WatchedOK(s),
           NEW heap \in SUBSET s.order_heap,
           \A v \in 1..s.nVars : IsUndef(s, v) => v \in heap,
           NEW t, t = WithHeap(s, heap)
    PROVE  /\ Continues(s, t) /\ t.qhead = s.qhead /\ t.trail = s.trail
           /\ \A n : Visited(s, n) => Visited(t, n)
<1>1. s \in Solvers /\ HeapOK(s)
    BY DEF Consistent
<1>2. heap \in SUBSET Vars
    BY <1>1, SolverTypes
<1>3. /\ t \in Solvers /\ t.order_heap = heap
      /\ t.ok = s.ok /\ t.nVars = s.nVars /\ t.qhead = s.qhead
      /\ t.ca = s.ca /\ t.watches = s.watches /\ t.watchesBin = s.watchesBin
      /\ t.trail = s.trail /\ t.trail_lim = s.trail_lim
    BY <1>1, <1>2, WithHeapFields
<1>4. Fixed(t) = Fixed(s) /\ \A n : Visited(s, n) => Visited(t, n)
    BY ONLY <1>3, SameTrail
<1>5. DecisionLevel(t) = DecisionLevel(s) /\ AttachedIn(t) = AttachedIn(s)
    BY ONLY <1>3 DEF DecisionLevel, AttachedIn
<1>6. TrailOK(s) => TrailOK(t)
    BY ONLY <1>3, <1>5 DEF TrailOK
<1>7. DecisionsFirst(s) => DecisionsFirst(t)
    BY ONLY <1>3 DEF DecisionsFirst
<1>8. HeapOK(t)
    BY <1>1, <1>3 DEF HeapOK, IsUndef, IsTrue, IsFalse
<1>9. ClausesOK(s) => ClausesOK(t)
    BY ONLY <1>3, <1>5 DEF ClausesOK
<1>10. ReasonsOK(s) => ReasonsOK(t)
    BY ONLY SMTT(30), <1>3, <1>5 DEF ReasonsOK, ReasonOK
<1>11. Consistent(t)
    BY <1>3, <1>6, <1>7, <1>8, <1>9, <1>10 DEF Consistent
<1>12. WatchersOK(t) /\ WatchedOK(t)
    BY ONLY <1>3, WatchersOK(s), WatchedOK(s), SameClauses
<1>13. \A F : (Sound(s, F) => Sound(t, F)) /\ (Complete(s, F) => Complete(t, F))
    BY ONLY <1>3, <1>4, SameMeaning
<1>14. \A lits : AssumptionsFirst(s, lits) => AssumptionsFirst(t, lits)
    BY ONLY <1>3, SameAssumptions
<1>15. Continues(s, t)
    BY ONLY <1>3, <1>11, <1>12, <1>13, <1>14 DEF Continues
<1> QED
    BY ONLY <1>3, <1>4, <1>15

\* The solver that decides, after levels for assumptions that hold.
Deciding(s, lits) ==
    /\ s = DummyLevels(S) /\ lits = Call.lits /\ lits \in Seq(Lits)
    /\ \A i \in DOMAIN lits : Var(lits[i]) <= S.nVars
    /\ Continues(S, s) /\ S.ok
    /\ Consistent(s) /\ WatchersOK(s) /\ WatchedOK(s)
    /\ s.qhead = Len(s.trail) /\ Visited(s, s.qhead)
    /\ s.nVars = S.nVars /\ s.ok = S.ok
    /\ s.trail = S.trail /\ DecisionLevel(S) <= DecisionLevel(s)
    /\ AssumptionsFirst(s, lits)
    /\ Sound(s, formula)

LEMMA DecidingFacts ==
    ASSUME IInv, pc = "decide"
    PROVE  \E s, lits : Deciding(s, lits)
<1>1. PICK s, lits : s = DummyLevels(S) /\ lits = Call.lits
    OBVIOUS
<1>2. calls # <<>> /\ Call.op = "solve" /\ Remaining(calls, S.nVars)
    BY DEF IInv, CallsLeft
<1>3. lits \in Seq(Lits) /\ \A l \in ToSet(lits) : Var(l) <= S.nVars
    BY <1>1, <1>2, ServeCall DEF Call
<1>4. S.ok /\ S.qhead = Len(S.trail) /\ Visited(S, S.qhead)
    BY EmptyQueue
<1>5. Dummies(S, s)
    BY <1>1, <1>3, <1>4, TypesHold, DummyKeeps
<1>6. /\ Continues(S, s) /\ s.qhead = Len(s.trail) /\ Visited(s, s.qhead)
      /\ s.trail = S.trail /\ DecisionLevel(S) <= DecisionLevel(s)
    BY <1>4, <1>5 DEF Dummies
<1>7. Sound(S, formula) /\ AssumptionsFirst(S, Call.lits)
    BY <1>4 DEF IInv, Meaning, Assumed
<1>8. \A i \in DOMAIN lits : Var(lits[i]) <= S.nVars
    BY <1>3 DEF ToSet
<1> QED
    BY <1>1, <1>3, <1>4, <1>6, <1>7, <1>8 DEF Deciding, Continues

LEMMA AssumeKeeps ==
    ASSUME IInv, Assume
    PROVE  IInv' /\ S'.nVars = S.nVars
<1>1. /\ pc = "decide" /\ pc' = "propagate"
      /\ UNCHANGED <<calls, confl, fresh, adaptIn, restarts, formula, answer>>
    BY DEF Assume
<1>2. PICK s, lits : Deciding(s, lits)
    BY <1>1, DecidingFacts
<1>3. PICK d \in Nat : d = DecisionLevel(s)
    BY <1>2, SolverTypes DEF Deciding, Consistent
<1>4. PICK l : l = lits[d + 1]
    OBVIOUS
<1>5. /\ d < Len(lits) /\ IsUndef(s, l)
      /\ S' = uncheckedEnqueue(newDecisionLevel(s), l, CRef_Undef)
    BY <1>2, <1>3, <1>4 DEF Assume, Deciding, AssumptionsLeft, NextAssumption
<1>6. l \in Lits /\ Var(l) <= s.nVars
  <2>1. d + 1 \in DOMAIN lits /\ lits \in Seq(Lits)
    BY <1>2, <1>3, <1>5 DEF Deciding
  <2> QED
    BY <1>2, <1>4, <2>1 DEF Deciding
<1>7. Continues(s, S') /\ Visited(S', S'.qhead)
    BY <1>2, <1>3, <1>4, <1>5, <1>6, DecisionFollows DEF Deciding
<1>8. Continues(S, S') /\ S.ok
    BY <1>2, <1>7, ContinuesTrans DEF Deciding
<1>9. TypeOK' /\ Queue'
    BY <1>1, TypesHold DEF TypeOK, Places, Queue
<1> QED
    BY <1>1, <1>7, <1>8, <1>9, Proceeds

LEMMA BranchKeeps ==
    ASSUME IInv, Branch
    PROVE  IInv' /\ S'.nVars = S.nVars
<1>1. /\ pc = "decide" /\ pc' = "propagate"
      /\ UNCHANGED <<calls, confl, fresh, adaptIn, restarts, formula, answer>>
    BY DEF Branch
<1>2. PICK s, lits : Deciding(s, lits)
    BY <1>1, DecidingFacts
<1>3. PICK d \in Nat : d = DecisionLevel(s)
    BY <1>2, SolverTypes DEF Deciding, Consistent
<1>4. PICK free : free = {v \in s.order_heap : IsUndef(s, v)}
    OBVIOUS
<1>5. ~(d < Len(lits))
    BY <1>2, <1>3 DEF Branch, Deciding, AssumptionsLeft
<1>20. \E v \in free : \E l \in {v, Neg(v)} :
           S' = uncheckedEnqueue(
                    newDecisionLevel([s EXCEPT !.order_heap = free \ {v}]), l, CRef_Undef)
  <2>1. s = DummyLevels(S)
    BY <1>2 DEF Deciding
  <2> QED
    BY ONLY Branch, <1>4, <2>1 DEF Branch
<1>21. PICK v \in free : \E l \in {v, Neg(v)} :
           S' = uncheckedEnqueue(
                    newDecisionLevel([s EXCEPT !.order_heap = free \ {v}]), l, CRef_Undef)
    BY <1>20
<1>6. PICK l \in {v, Neg(v)} :
          S' = uncheckedEnqueue(
                   newDecisionLevel([s EXCEPT !.order_heap = free \ {v}]), l, CRef_Undef)
    BY <1>21
<1>7. s \in Solvers /\ s.order_heap \subseteq 1..s.nVars
    BY <1>2 DEF Deciding, Consistent, HeapOK
<1>8. /\ v \in 1..s.nVars /\ v \in Lits /\ Neg(v) \in Lits /\ Var(v) = v
      /\ IsUndef(s, v) /\ v <= s.nVars
    BY <1>4, <1>6, <1>7, VarsAreLits
<1>9. l \in Lits /\ Var(l) <= s.nVars /\ IsUndef(s, l)
    BY <1>6, <1>8, LitFacts DEF IsUndef, IsFalse
<1>10. PICK heap : heap = free \ {v}
    OBVIOUS
<1>11. PICK t : t = uncheckedEnqueue(newDecisionLevel(s), l, CRef_Undef)
    OBVIOUS
<1>12. S' = WithHeap(t, heap)
  <2>1. S' = uncheckedEnqueue(newDecisionLevel([s EXCEPT !.order_heap = heap]), l, CRef_Undef)
    BY <1>6, <1>10
  <2> QED
    BY <1>7, <1>11, <2>1 DEF uncheckedEnqueue, newDecisionLevel, WithHeap, Solvers, DecisionLevel
<1>13. ~(d + 1 <= Len(lits))
  <2>1. Len(lits) \in Nat
    BY <1>2 DEF Deciding
  <2> QED
    BY <1>5, <2>1
<1>14. /\ Continues(s, t) /\ Visited(t, t.qhead)
       /\ t.order_heap = s.order_heap
       /\ \A m \in Lits : IsUndef(t, m) => IsUndef(s, m) /\ m # l
    BY <1>2, <1>3, <1>9, <1>11, <1>13, DecisionFollows DEF Deciding
<1>15. Consistent(t) /\ WatchersOK(t) /\ WatchedOK(t) /\ t.nVars = s.nVars
    BY <1>14 DEF Continues
<1>16. ASSUME NEW w \in 1..t.nVars, IsUndef(t, w)
       PROVE  w \in heap
  <2>1. w \in Lits /\ Neg(w) \in Lits
    BY <1>7, <1>15, VarsAreLits
  <2>2. IsUndef(s, w) /\ w # l
    BY <1>14, <1>16, <2>1
  <2>3. w # v
    <3>1. CASE l = v
        BY <2>2, <3>1
    <3>2. CASE l = Neg(v)
      <4>1. IsUndef(t, Neg(w))
        BY <1>16, <2>1, LitFacts DEF IsUndef, IsFalse
      <4> QED
        BY <1>14, <2>1, <3>2, <4>1
    <3> QED
        BY <1>6, <3>1, <3>2
  <2>4. w \in s.order_heap
    BY <1>2, <1>15, <2>2 DEF Deciding, Consistent, HeapOK
  <2> QED
    BY <1>4, <1>10, <2>2, <2>3, <2>4
<1>17. heap \in SUBSET t.order_heap
    BY <1>4, <1>10, <1>14
<1>18. /\ Continues(t, S') /\ S'.qhead = t.qhead
       /\ \A n : Visited(t, n) => Visited(S', n)
    BY ONLY <1>12, <1>15, <1>16, <1>17, WithHeapKeeps
<1>19. Continues(S, S') /\ S.ok /\ Visited(S', S'.qhead)
    BY <1>2, <1>14, <1>18, ContinuesTrans DEF Deciding
<1>22. TypeOK' /\ Queue'
    BY <1>1, TypesHold DEF TypeOK, Places, Queue
<1> QED
    BY <1>1, <1>19, <1>22, Proceeds

LEMMA AssumptionFailsKeeps ==
    ASSUME IInv, AssumptionFails
    PROVE  IInv' /\ S'.nVars = S.nVars
<1>1. /\ pc = "decide" /\ pc \notin {"idle", "adding"}
      /\ UNCHANGED <<fresh, adaptIn, restarts, formula>>
    BY DEF AssumptionFails
<1>2. PICK s, lits : Deciding(s, lits)
    BY <1>1, DecidingFacts
<1>3. PICK l, out : l = NextAssumption(s) /\ out = analyzeFinal(s, Neg(l))
    OBVIOUS
<1>4. /\ AssumptionsLeft(s) /\ IsFalse(s, l) /\ Finish(s, "l_False", out)
    BY <1>2, <1>3 DEF AssumptionFails, Deciding
<1>5. l \in Lits
  <2>1. DecisionLevel(s) \in Nat /\ DecisionLevel(s) < Len(lits) /\ lits \in Seq(Lits)
    BY <1>2, <1>4, SolverTypes DEF Deciding, Consistent, AssumptionsLeft
  <2>2. DecisionLevel(s) + 1 \in DOMAIN lits
    BY <2>1
  <2> QED
    BY <1>2, <1>3, <2>1, <2>2 DEF Deciding, NextAssumption
<1>6. Neg(l) \in Lits /\ IsTrue(s, Neg(l))
    BY <1>4, <1>5, LitFacts DEF IsFalse
<1>7. Final(s, Neg(l), out)
    BY <1>2, <1>3, <1>6, FinalKeeps DEF Deciding
<1>8. out # {}
    BY <1>7 DEF Final
<1>9. Continues(S, s) /\ Visited(s, s.qhead) /\ s.qhead = Len(s.trail)
    BY <1>2 DEF Deciding
<1>10. /\ fresh' \subseteq {"restart", "reduce"} /\ adaptIn' \in Nat /\ restarts' \in Nat
    BY <1>1, TypesHold DEF TypeOK
<1> QED
    BY <1>1, <1>4, <1>8, <1>9, <1>10, Returns

LEMMA ModelFoundKeeps ==
    ASSUME IInv, ModelFound
    PROVE  IInv' /\ S'.nVars = S.nVars
<1>1. /\ pc = "decide" /\ pc \notin {"idle", "adding"}
      /\ UNCHANGED <<fresh, adaptIn, restarts, formula>>
    BY DEF ModelFound
<1>2. PICK s, lits : Deciding(s, lits)
    BY <1>1, DecidingFacts
<1>3. PICK t : t = WithHeap(s, {})
    OBVIOUS
<1>4. /\ \A v \in s.order_heap : ~IsUndef(s, v)
      /\ Finish(t, "l_True", {})
    BY <1>2, <1>3 DEF ModelFound, Deciding, WithHeap
<1>5. /\ Consistent(s) /\ WatchersOK(s) /\ WatchedOK(s)
      /\ {} \in SUBSET s.order_heap
      /\ \A v \in 1..s.nVars : IsUndef(s, v) => v \in {}
    BY <1>2, <1>4 DEF Deciding, Consistent, HeapOK
<1>6. PICK heap : heap = {}
    OBVIOUS
<1>7. /\ Continues(s, t) /\ t.qhead = s.qhead /\ t.trail = s.trail
      /\ \A n : Visited(s, n) => Visited(t, n)
    BY ONLY <1>3, <1>5, <1>6, WithHeapKeeps
<1>8. Continues(S, t) /\ Visited(t, t.qhead) /\ t.qhead = Len(t.trail)
    BY <1>2, <1>7, ContinuesTrans DEF Deciding
<1>9. /\ fresh' \subseteq {"restart", "reduce"} /\ adaptIn' \in Nat /\ restarts' \in Nat
    BY <1>1, TypesHold DEF TypeOK
<1> QED
    BY <1>1, <1>4, <1>8, <1>9, Returns

-----------------------------------------------------------------------------
(***************************************************************************)
(* Every step keeps IInv.                                                  *)
(***************************************************************************)

\* The solver as it is made.
LEMMA NewSolver ==
    ASSUME Init
    PROVE  /\ S \in Solvers /\ S.ok /\ S.nVars = 0 /\ S.qhead = 0
           /\ S.ca = <<>> /\ S.trail = <<>> /\ S.trail_lim = <<>>
           /\ S.watches = NoClauses /\ S.watchesBin = NoClauses
           /\ S.order_heap = {}
<1>1. NoClauses \in [Lits -> Seq(Watchers)]
    BY DEF NoClauses
<1>2. S = [ok |-> TRUE, nVars |-> 0, ca |-> <<>>, watches |-> NoClauses,
            watchesBin |-> NoClauses, trail |-> <<>>, trail_lim |-> <<>>, qhead |-> 0,
            order_heap |-> {}, simpDB_assigns |-> -1, coLBDBound |-> 0]
    BY DEF Init
<1>3. 0 \in 0..MaxVars /\ {} \in SUBSET Vars /\ -1 \in Int
    BY BoundsAssumption
<1>4. <<>> \in Seq(Clauses) /\ <<>> \in Seq(Entries) /\ <<>> \in Seq(Nat)
    OBVIOUS
<1> QED
    BY <1>1, <1>2, <1>3, <1>4 DEF Solvers

LEMMA CreatedNone ==
    ASSUME NEW script
    PROVE  Created(script, 0) = 0
<1>1. {i \in 1..0 : script[i].op = "newVar"} = {}
    OBVIOUS
<1> QED
    BY <1>1, FS_EmptySet DEF Created

LEMMA InitHolds ==
    ASSUME Init
    PROVE  IInv
<1>1. /\ S \in Solvers /\ S.ok /\ S.nVars = 0 /\ S.qhead = 0
      /\ S.ca = <<>> /\ S.trail = <<>> /\ S.trail_lim = <<>>
      /\ S.watches = NoClauses /\ S.watchesBin = NoClauses
      /\ S.order_heap = {}
    BY NewSolver
<1>2. /\ DOMAIN S.ca = {} /\ DOMAIN S.trail = {} /\ DOMAIN S.trail_lim = {}
      /\ Len(S.trail) = 0 /\ DecisionLevel(S) = 0
    BY <1>1 DEF DecisionLevel
<1>3. AttachedIn(S) = {} /\ ListOf(S, "clauses") = {} /\ Fixed(S) = {}
    BY <1>2 DEF AttachedIn, ListOf, Fixed
<1>4. /\ calls \in Scripts /\ adaptIn \in AdaptAfter /\ pc = "idle" /\ confl = CRef_Undef
      /\ fresh = {} /\ restarts = 0 /\ formula = {}
    BY DEF Init
<1>5. TypeOK
    BY <1>4, BoundsAssumption DEF TypeOK, Places, CRef_Undef
<1>6. CallsLeft
  <2>1. WellFormed(calls)
    BY <1>4, ScriptsAssumption
  <2>2. calls \in Seq(Calls)
    BY <2>1 DEF WellFormed
  <2>3. PICK R : R = Calls
    OBVIOUS
  <2>4. calls \in Seq(R)
    BY <2>2, <2>3
  <2>5. calls = SubSeq(calls, 0 + 1, Len(calls)) /\ 0 \in 0..Len(calls)
    BY ONLY <2>4
  <2>6. Remaining(calls, S.nVars)
    BY <1>1, <1>4, <2>5, CreatedNone DEF Remaining
  <2> QED
    BY <1>4, <2>6 DEF CallsLeft
<1>7. Queue
    BY <1>1, <1>2, <1>4 DEF Queue
<1>8. TrailOK(S)
    BY <1>1, <1>2 DEF TrailOK
<1>9. DecisionsFirst(S) /\ ReasonsOK(S) /\ ClausesOK(S)
    BY <1>2, <1>3 DEF DecisionsFirst, ReasonsOK, ClausesOK
<1>10. HeapOK(S)
    BY <1>1 DEF HeapOK
<1>11. WatchersOK(S) /\ WatchedOK(S)
  <2>1. \A p \in Lits : DOMAIN S.watches[p] = {} /\ DOMAIN S.watchesBin[p] = {}
    BY <1>1 DEF NoClauses
  <2>2. WatchersOK(S)
    BY <2>1 DEF WatchersOK
  <2> QED
    BY <1>3, <2>2 DEF WatchedOK
<1>12. Quiet
    BY <1>2 DEF Quiet, Visited
<1>13. Named /\ Assumed
    BY <1>4 DEF Named, Assumed
<1>14. Meaning
  <2>1. Oracle!ModelsOf(S.nVars, formula) = Oracle!Assignments(S.nVars)
    BY <1>4 DEF Oracle!ModelsOf
  <2>2. Sound(S, formula)
    BY <1>3 DEF Sound, Satisfies
  <2>3. Complete(S, formula)
    BY <1>3, <2>1 DEF Complete
  <2> QED
    BY <1>1, <2>2, <2>3 DEF Meaning
<1> QED
    BY <1>1, <1>5, <1>6, <1>7, <1>8, <1>9, <1>10, <1>11, <1>12, <1>13, <1>14
    DEF IInv, Consistent

LEMMA StutterKeeps ==
    ASSUME IInv, UNCHANGED vars
    PROVE  IInv'
<1>1. /\ S' = S /\ calls' = calls /\ pc' = pc /\ confl' = confl /\ fresh' = fresh
      /\ adaptIn' = adaptIn /\ restarts' = restarts /\ formula' = formula
    BY DEF vars
<1>2. TypeOK' /\ CallsLeft' /\ Queue'
    BY <1>1 DEF IInv, TypeOK, CallsLeft, Call, Queue
<1>3. Consistent(S') /\ WatchersOK(S') /\ WatchedOK(S')
    BY <1>1 DEF IInv
<1>4. Quiet' /\ Named' /\ Meaning' /\ Assumed'
    BY <1>1 DEF IInv, Quiet, Named, Meaning, Assumed, Call
<1> QED
    BY <1>2, <1>3, <1>4 DEF IInv

LEMMA NextKeeps ==
    ASSUME IInv, [Next]_vars
    PROVE  IInv'
<1>1. CASE UNCHANGED vars
    BY <1>1, StutterKeeps
<1>2. CASE Next
  <2>1. ASSUME newVar PROVE IInv'
    BY <2>1, NewVarKeeps
  <2>2. ASSUME addClause_ PROVE IInv'
    BY <2>2, AddClauseKeeps
  <2>3. ASSUME solveLimited PROVE IInv'
    BY <2>3, SolveLimitedKeeps
  <2>4. ASSUME NotOk PROVE IInv'
    BY <2>4, NotOkKeeps
  <2>5. ASSUME Propagate PROVE IInv'
    BY <2>5, PropagateStepKeeps
  <2>6. ASSUME Propagated PROVE IInv'
    BY <2>6, PropagatedKeeps
  <2>7. ASSUME TopLevelConflict PROVE IInv'
    BY <2>7, TopLevelConflictKeeps
  <2>8. ASSUME Adapt PROVE IInv'
    BY <2>8, AdaptStepKeeps
  <2>9. ASSUME Analyze PROVE IInv'
    BY <2>9, AnalyzeStepKeeps
  <2>10. ASSUME Restart PROVE IInv'
    BY <2>10, RestartKeeps
  <2>11. ASSUME NoRestart PROVE IInv'
    BY <2>11, NoRestartKeeps
  <2>12. ASSUME Simplify PROVE IInv'
    BY <2>12, SimplifyStepKeeps
  <2>13. ASSUME ReduceDB PROVE IInv'
    BY <2>13, ReduceDBKeeps
  <2>14. ASSUME NoReduce PROVE IInv'
    BY <2>14, NoReduceKeeps
  <2>15. ASSUME Assume PROVE IInv'
    BY <2>15, AssumeKeeps
  <2>16. ASSUME AssumptionFails PROVE IInv'
    BY <2>16, AssumptionFailsKeeps
  <2>17. ASSUME Branch PROVE IInv'
    BY <2>17, BranchKeeps
  <2>18. ASSUME ModelFound PROVE IInv'
    BY <2>18, ModelFoundKeeps
  <2>19. ASSUME Done PROVE IInv'
    BY <2>19, StutterKeeps DEF Done
  <2> QED
    BY ONLY <1>2, <2>1, <2>2, <2>3, <2>4, <2>5, <2>6, <2>7, <2>8, <2>9, <2>10, <2>11,
            <2>12, <2>13, <2>14, <2>15, <2>16, <2>17, <2>18, <2>19 DEF Next
<1> QED
    BY <1>1, <1>2

\* At every moment the solver is consistent, watches the two front literals of
\* each clause and nothing else, has visited what its queue says, and means the
\* formula it was given.
THEOREM Invariance == Spec => []IInv
<1>1. Init => IInv
    BY InitHolds
<1>2. IInv /\ [Next]_vars => IInv'
    BY NextKeeps
<1> QED
    BY <1>1, <1>2, PTL DEF Spec

-----------------------------------------------------------------------------
(***************************************************************************)
(* What the invariant says of a solver that has nothing left to            *)
(* propagate.                                                              *)
(***************************************************************************)

\* With an empty queue a clause is true, or its two front literals are not false.
LEMMA FrontsFree ==
    ASSUME NEW s, Consistent(s), WatchersOK(s), WatchedOK(s),
           s.qhead = Len(s.trail), Visited(s, s.qhead),
           NEW cr \in AttachedIn(s), NEW c, c = s.ca[cr].lits
    PROVE  \/ \E l \in ToSet(c) : IsTrue(s, l)
           \/ /\ c[1] \in ToSet(c) /\ c[2] \in ToSet(c) /\ c[1] # c[2]
              /\ ~IsFalse(s, c[1]) /\ ~IsFalse(s, c[2])
<1>1. s \in Solvers /\ ClausesOK(s)
    BY DEF Consistent
<1>2. cr \in DOMAIN s.ca
    BY DEF AttachedIn
<1>3. PICK n \in Nat : n = Len(c)
    BY <1>1, <1>2, SolverTypes
<1>4. n >= 2 /\ DOMAIN c = 1..n /\ c \in Seq(Lits) /\ Distinct(c)
    BY <1>1, <1>2, <1>3, SolverTypes DEF ClausesOK
<1>5. /\ 1 \in DOMAIN c /\ 2 \in DOMAIN c /\ c[1] \in Lits /\ c[2] \in Lits
      /\ c[1] \in ToSet(c) /\ c[2] \in ToSet(c)
    BY <1>4 DEF ToSet
<1>6. c[1] # c[2]
    BY <1>4, <1>5 DEF Distinct
<1>7. ASSUME NEW k \in 1..2, IsFalse(s, c[k])
      PROVE  \E l \in ToSet(c) : IsTrue(s, l)
  <2>1. PICK p : p = Neg(c[k])
    OBVIOUS
  <2>2. c[k] \in Lits /\ p \in Lits
    BY <1>5, <2>1, LitFacts
  <2>3. PICK i \in DOMAIN s.trail : s.trail[i].lit = p
    BY <1>7, <2>1 DEF IsFalse, IsTrue
  <2>4. i <= s.qhead
    BY <1>1, <2>3, SolverTypes
  <2>5. CASE n = 2
    <3>1. Listed(s.watchesBin[p], cr)
        BY <1>3, <2>1, <2>5 DEF WatchedOK
    <3>2. PICK j \in DOMAIN s.watchesBin[p] : s.watchesBin[p][j].cref = cr
        BY <3>1 DEF Listed
    <3>3. PICK w : w = s.watchesBin[p][j]
        OBVIOUS
    <3>4. Blocked(s, i, w)
        BY <2>3, <2>4, <3>2, <3>3 DEF Visited
    <3>5. c = <<Neg(p), w.blocker>> \/ c = <<w.blocker, Neg(p)>>
        BY <2>2, <3>2, <3>3 DEF WatchersOK, WatchesBinary
    <3>6. w.blocker \in ToSet(c)
        BY <1>5, <3>5
    <3> QED
        BY <3>4, <3>6 DEF Blocked, IsTrue
  <2>6. CASE n > 2
    <3>1. Listed(s.watches[p], cr)
        BY <1>3, <2>1, <2>6 DEF WatchedOK
    <3>2. PICK j \in DOMAIN s.watches[p] : s.watches[p][j].cref = cr
        BY <3>1 DEF Listed
    <3>3. PICK w : w = s.watches[p][j]
        OBVIOUS
    <3>4. Blocked(s, i, w)
        BY <2>3, <2>4, <3>2, <3>3 DEF Visited
    <3>5. w.blocker \in ToSet(c)
        BY <2>2, <3>2, <3>3 DEF WatchersOK, Watches
    <3> QED
        BY <3>4, <3>5 DEF Blocked, IsTrue
  <2>7. n = 2 \/ n > 2
    BY <1>4
  <2> QED
    BY ONLY <2>5, <2>6, <2>7
<1> QED
    BY <1>5, <1>6, <1>7

LEMMA NothingMissed ==
    ASSUME IInv
    PROVE  NoMissedPropagation
<1>1. ASSUME pc \in {"restart", "simplify", "reduce", "decide"},
             NEW cr \in Attached, NEW c, c = S.ca[cr].lits
      PROVE  \/ \E l \in ToSet(c) : IsTrue(S, l)
             \/ Cardinality({l \in ToSet(c) : ~IsFalse(S, l)}) >= 2
  <2>1. Consistent(S) /\ WatchersOK(S) /\ WatchedOK(S)
    BY DEF IInv
  <2>2. S.qhead = Len(S.trail) /\ Visited(S, S.qhead)
    BY <1>1, EmptyQueue
  <2>3. cr \in AttachedIn(S)
    BY <1>1 DEF Attached, AttachedIn
  <2>4. CASE \E l \in ToSet(c) : IsTrue(S, l)
    BY <2>4
  <2>5. CASE /\ c[1] \in ToSet(c) /\ c[2] \in ToSet(c) /\ c[1] # c[2]
             /\ ~IsFalse(S, c[1]) /\ ~IsFalse(S, c[2])
    <3>1. PICK T : T = {l \in ToSet(c) : ~IsFalse(S, l)}
        OBVIOUS
    <3>2. IsFiniteSet(ToSet(c))
      <4>1. S \in Solvers /\ cr \in DOMAIN S.ca
        BY <2>1, <2>3 DEF Consistent, AttachedIn
      <4>2. PICK I, f : I = DOMAIN c /\ f = [x \in I |-> c[x]]
        OBVIOUS
      <4>3. I = 1..Len(c) /\ Len(c) \in Nat
        BY <1>1, <4>1, <4>2, SolverTypes
      <4>4. IsFiniteSet(I)
        BY <4>3, FS_Interval
      <4>5. PICK J : J = {f[x] : x \in I}
        OBVIOUS
      <4>6. DOMAIN f = I /\ f = [x \in I |-> f[x]]
        BY <4>2
      <4>7. IsFiniteSet(J)
        BY ONLY <4>4, <4>5, <4>6, FiniteRange
      <4> QED
        BY <4>2, <4>5, <4>7 DEF ToSet
    <3>3. {c[1], c[2]} \subseteq T /\ T \subseteq ToSet(c)
        BY <2>5, <3>1
    <3>4. IsFiniteSet(T)
        BY <3>2, <3>3, FS_Subset
    <3>5. Cardinality({c[1], c[2]}) <= Cardinality(T)
        BY <3>3, <3>4, FS_Subset
    <3>6. Cardinality({c[1], c[2]}) = 2
      <4>1. IsFiniteSet({c[1]}) /\ Cardinality({c[1]}) = 1
        BY FS_Singleton
      <4>2. Cardinality({c[1]} \cup {c[2]}) = 1 + 1
        BY <2>5, <4>1, FS_AddElement
      <4>3. {c[1], c[2]} = {c[1]} \cup {c[2]}
        OBVIOUS
      <4> QED
        BY <4>2, <4>3
    <3>7. Cardinality(T) \in Nat
        BY <3>4, FS_CardinalityType
    <3> QED
        BY <3>1, <3>5, <3>6, <3>7
  <2> QED
    BY <1>1, <2>1, <2>2, <2>3, <2>4, <2>5, FrontsFree
<1> QED
    BY <1>1 DEF NoMissedPropagation

LEMMA Justified ==
    ASSUME IInv
    PROVE  ReasonsJustify
<1>1. S \in Solvers /\ ReasonsOK(S)
    BY DEF IInv, Consistent
<1>2. ASSUME NEW i \in DOMAIN S.trail, S.trail[i].reason # CRef_Undef, S.trail[i].level > 0
      PROVE  ReasonOK(S, i)
    BY <1>1, <1>2 DEF ReasonsOK
<1>3. AttachedIn(S) = Attached
    BY DEF AttachedIn, Attached
<1> QED
    BY <1>2, <1>3 DEF ReasonOK, ReasonsJustify

\* Of a solver without decisions, everything on the trail is fixed.
LEMMA AllFixed ==
    ASSUME NEW s, Consistent(s), DecisionLevel(s) = 0
    PROVE  Fixed(s) = {s.trail[i].lit : i \in DOMAIN s.trail}
<1>1. s \in Solvers /\ TrailOK(s)
    BY DEF Consistent
<1>2. ASSUME NEW i \in DOMAIN s.trail
      PROVE  s.trail[i].level = 0
  <2>1. s.trail[i].level \in Nat /\ s.trail[i].level <= 0
    BY <1>1, <1>2, SolverTypes DEF TrailOK
  <2> QED
    BY <2>1
<1> QED
    BY <1>2 DEF Fixed

LEMMA FormulaHeld ==
    ASSUME IInv
    PROVE  HoldsTheFormula
<1>1. SUFFICES ASSUME pc = "idle", S.ok
               PROVE  Oracle!ModelsOf(S.nVars, formula) =
                      Oracle!ModelsOf(S.nVars,
                          {ToSet(S.ca[cr].lits) : cr \in Attached}
                          \cup {{S.trail[i].lit} : i \in DOMAIN S.trail})
    BY DEF HoldsTheFormula, IInv, Meaning
<1>2. Consistent(S) /\ DecisionLevel(S) = 0 /\ Sound(S, formula) /\ Complete(S, formula)
    BY <1>1 DEF IInv, Queue, Meaning
<1>3. PICK held : held = {ToSet(S.ca[cr].lits) : cr \in Attached}
                         \cup {{S.trail[i].lit} : i \in DOMAIN S.trail}
    OBVIOUS
<1>4. AttachedIn(S) = Attached /\ ListOf(S, "clauses") \subseteq Attached
    BY DEF AttachedIn, Attached, ListOf
<1>5. Fixed(S) = {S.trail[i].lit : i \in DOMAIN S.trail}
    BY <1>2, AllFixed
<1>6. ASSUME NEW A
      PROVE  (\A c \in held : c \cap A # {}) <=> Satisfies(A, S, Attached)
  <2>1. \A l : {l} \cap A # {} <=> l \in A
    OBVIOUS
  <2>2. Fixed(S) \subseteq A <=> \A i \in DOMAIN S.trail : {S.trail[i].lit} \cap A # {}
    BY <1>5, <2>1
  <2> QED
    BY <1>3, <2>2 DEF Satisfies
<1>7. ASSUME NEW A \in Oracle!ModelsOf(S.nVars, formula)
      PROVE  A \in Oracle!ModelsOf(S.nVars, held)
    BY <1>2, <1>4, <1>6 DEF Sound, Oracle!ModelsOf
<1>8. ASSUME NEW A \in Oracle!ModelsOf(S.nVars, held)
      PROVE  A \in Oracle!ModelsOf(S.nVars, formula)
  <2>1. A \in Oracle!Assignments(S.nVars) /\ Satisfies(A, S, Attached)
    BY <1>6 DEF Oracle!ModelsOf
  <2>2. Satisfies(A, S, ListOf(S, "clauses"))
    BY <1>4, <2>1 DEF Satisfies
  <2> QED
    BY <1>2, <2>1, <2>2 DEF Complete
<1> QED
    BY <1>3, <1>7, <1>8

\* Whenever propagation has emptied its queue, every clause of the solver is
\* true or has two literals that are not false: no conflict and no implication
\* was missed, after any number of swaps, backtracks and removals.
THEOREM NoMissedPropagationHolds == Spec => []NoMissedPropagation
<1>1. IInv => NoMissedPropagation
    BY NothingMissed
<1> QED
    BY <1>1, Invariance, PTL

\* The reason of a literal above level 0 is a clause the solver still has, with
\* that literal where analyze looks for it and the others false before it:
\* locked() keeps it from removal, garbageCollect and analyze from losing it.
THEOREM ReasonsJustifyHolds == Spec => []ReasonsJustify
<1>1. IInv => ReasonsJustify
    BY Justified
<1> QED
    BY <1>1, Invariance, PTL

\* Between calls the clauses and the literals of level 0 have the models of the
\* formula given: learning, reduceDB, simplify and adaptSolver keep it, and only
\* a formula without a model makes the solver not ok.
THEOREM HoldsTheFormulaHolds == Spec => []HoldsTheFormula
<1>1. IInv => HoldsTheFormula
    BY FormulaHeld
<1> QED
    BY <1>1, Invariance, PTL

-----------------------------------------------------------------------------
(***************************************************************************)
(* The solver implements SatOracle: the call it is serving is the query,   *)
(* and the clauses it was given are the formula.                           *)
(***************************************************************************)

\* The query the solver is answering.
Query ==
    IF pc \in {"idle", "adding"}
    THEN [assumptions |-> {}, budget |-> FALSE, asked |-> FALSE]
    ELSE [assumptions |-> ToSet(Head(calls).lits), budget |-> Head(calls).budget,
          asked |-> TRUE]

\* A step the searches do not see.
LEMMA Unseen ==
    ASSUME S'.nVars = S.nVars, formula' = formula, answer' = answer, Query' = Query
    PROVE  UNCHANGED Oracle!vars
    BY DEF Oracle!vars, Query

LEMMA SameQuery ==
    ASSUME \/ pc \in {"idle", "adding"} /\ pc' \in {"idle", "adding"}
           \/ pc \notin {"idle", "adding"} /\ pc' \notin {"idle", "adding"} /\ calls' = calls
    PROVE  Query' = Query
    BY DEF Query

\* newVar and addClause.
LEMMA CreatesVar ==
    ASSUME IInv, newVar
    PROVE  Oracle!NewVar
<1>1. /\ pc = "idle" /\ S' = WithVar(S)
      /\ UNCHANGED <<pc, formula, answer>>
    BY DEF newVar, Serving, WithVar
<1>2. S'.nVars = S.nVars + 1
    BY <1>1, TypesHold DEF WithVar, Solvers
<1> QED
    BY <1>1, <1>2 DEF Oracle!NewVar, Oracle!NoQuery

LEMMA AddsClause ==
    ASSUME IInv, IInv', S'.nVars = S.nVars, addClause_
    PROVE  Oracle!AddClause
<1>1. PICK c : formula' = formula \cup {c}
    BY DEF addClause_
<1>2. pc = "idle" /\ answer' = answer
    BY DEF addClause_, Serving
<1>3. pc' \in {"idle", "adding"}
    BY DEF addClause_
<1>4. c \in formula' /\ c \subseteq Oracle!Literals(S.nVars)
    BY <1>1 DEF IInv, Named
<1> QED
    BY <1>1, <1>2, <1>3, <1>4 DEF Oracle!AddClause, Oracle!NoQuery

LEMMA Asks ==
    ASSUME IInv, solveLimited
    PROVE  Oracle!Ask
<1>1. /\ pc = "idle" /\ pc' = "propagate" /\ calls # <<>> /\ Head(calls).op = "solve"
      /\ UNCHANGED <<S, calls, formula, answer>>
    BY DEF solveLimited, Serving, Call
<1>2. \A l \in ToSet(Head(calls).lits) : Var(l) <= S.nVars /\ l \in Lits
  <2>1. /\ Head(calls).lits \in Seq(Lits)
        /\ \A l \in ToSet(Head(calls).lits) : Var(l) <= S.nVars
    BY <1>1, ServeCall DEF IInv, CallsLeft
  <2> QED
    BY <2>1 DEF ToSet
<1>3. ToSet(Head(calls).lits) \subseteq Oracle!Literals(S.nVars)
    BY <1>2, TypesHold, LiteralsNamed
<1> QED
    BY <1>1, <1>3 DEF Oracle!Ask, Oracle!NoQuery

\* What a call of solveLimited returns.
LEMMA AnswerGiven ==
    ASSUME pc \notin {"idle", "adding"}, NEW s, NEW status, NEW out, Finish(s, status, out),
           S'.nVars = S.nVars, formula' = formula,
           NEW M, M = IF status = "l_True" THEN {s.trail[i].lit : i \in DOMAIN s.trail} ELSE {}
    PROVE  Oracle!Return(status, M, out) /\ answer' = [status |-> status, model |-> M, conflict |-> out]
<1>1. /\ pc' = "idle"
      /\ answer' = [status |-> status, conflict |-> out, model |-> M]
    BY DEF Finish
<1> QED
    BY <1>1 DEF Oracle!Return, Oracle!NoQuery

LEMMA AnswersNo ==
    ASSUME pc \notin {"idle", "adding"}, NEW s, NEW out, Finish(s, "l_False", out),
           S'.nVars = S.nVars, formula' = formula,
           out \subseteq {-l : l \in ToSet(Head(calls).lits)},
           Oracle!Implied(S.nVars, formula, out)
    PROVE  Oracle!AnswerCore
<1>1. PICK M, status : M = {} /\ status = "l_False"
    OBVIOUS
<1>2. /\ Oracle!Return(status, M, out)
      /\ answer' = [status |-> status, model |-> M, conflict |-> out]
  <2>1. M = IF status = "l_True" THEN {s.trail[i].lit : i \in DOMAIN s.trail} ELSE {}
    BY <1>1
  <2> QED
    BY <1>1, <2>1, AnswerGiven
<1>3. answer'.conflict = out
    BY <1>2
<1> QED
    BY <1>1, <1>2, <1>3 DEF Oracle!AnswerCore

LEMMA NoModelNo ==
    ASSUME NEW n, NEW F, Oracle!ModelsOf(n, F) = {}
    PROVE  Oracle!Implied(n, F, {})
    BY DEF Oracle!Implied

LEMMA AnswersUnknown ==
    ASSUME pc \notin {"idle", "adding"}, NEW s, Finish(s, "l_Undef", {}), Call.budget,
           S'.nVars = S.nVars, formula' = formula
    PROVE  Oracle!AnswerUnknown
<1>1. PICK M, status : M = {} /\ status = "l_Undef"
    OBVIOUS
<1>2. Oracle!Return(status, M, {})
  <2>1. M = IF status = "l_True" THEN {s.trail[i].lit : i \in DOMAIN s.trail} ELSE {}
    BY <1>1
  <2> QED
    BY <1>1, <2>1, AnswerGiven
<1> QED
    BY <1>1, <1>2 DEF Oracle!AnswerUnknown, Call

\* A is the assignment that the trail is.
Total(s, A) ==
    /\ A \in Oracle!Assignments(s.nVars)
    /\ \A l \in Lits : l \in A <=> IsTrue(s, l)
    /\ \A l \in Lits : Var(l) <= s.nVars => IsTrue(s, l) \/ IsFalse(s, l)

\* With every variable assigned, the trail is an assignment.
LEMMA TotalTrail ==
    ASSUME NEW s, Consistent(s), \A v \in 1..s.nVars : ~IsUndef(s, v),
           NEW A, A = {s.trail[i].lit : i \in DOMAIN s.trail}
    PROVE  Total(s, A)
<1>1. s \in Solvers /\ TrailOK(s)
    BY DEF Consistent
<1>2. \A l \in Lits : l \in A <=> IsTrue(s, l)
    BY DEF IsTrue
<1>3. /\ s.nVars \in Nat
      /\ \A v \in 1..s.nVars : v \in Lits /\ Neg(v) \in Lits /\ Var(v) = v /\ v \in Nat
      /\ \A l \in Lits : Var(l) <= s.nVars => Var(l) \in 1..s.nVars
  <2>1. /\ s.nVars \in Nat
        /\ \A v \in 1..s.nVars : v \in Vars /\ v \in Lits /\ Neg(v) \in Lits /\ Var(v) = v
        /\ \A l \in Lits : Var(l) <= s.nVars => Var(l) \in 1..s.nVars
    BY <1>1, VarsAreLits
  <2>2. \A v \in 1..s.nVars : v \in Nat
    OBVIOUS
  <2> QED
    BY ONLY <2>1, <2>2
<1>4. \A v \in 1..s.nVars : (IsTrue(s, v) \/ IsTrue(s, Neg(v)))
                            /\ ~(IsTrue(s, v) /\ IsTrue(s, Neg(v)))
    BY <1>1, <1>3, Values DEF IsUndef, IsFalse
<1>5. PICK f : f = [v \in 1..s.nVars |-> IsTrue(s, v)]
    OBVIOUS
<1>6. f \in [1..s.nVars -> BOOLEAN] /\ \A v \in 1..s.nVars : f[v] <=> IsTrue(s, v)
    BY <1>5 DEF IsTrue
<1>7. PICK B : B = {IF f[v] THEN v ELSE -v : v \in 1..s.nVars}
    OBVIOUS
<1>8. ASSUME NEW l \in B
      PROVE  l \in A
  <2>1. PICK v \in 1..s.nVars : l = IF f[v] THEN v ELSE -v
    BY <1>7, <1>8
  <2>2. -v = Neg(v)
    BY DEF Neg
  <2>3. (f[v] /\ l = v) \/ (~f[v] /\ l = Neg(v))
    BY <2>1, <2>2
  <2> QED
    BY <1>2, <1>3, <1>4, <1>6, <2>3
<1>9. ASSUME NEW l \in A
      PROVE  l \in B
  <2>1. PICK i \in DOMAIN s.trail : l = s.trail[i].lit
    BY <1>9
  <2>2. l \in Lits /\ Var(l) <= s.nVars
    BY <1>1, <2>1, SolverTypes DEF TrailOK
  <2>3. PICK v : v = Var(l)
    OBVIOUS
  <2>4. v \in 1..s.nVars /\ (l = v \/ l = Neg(v))
    <3>1. l = Var(l) \/ l = Neg(Var(l))
        BY <2>2, BoundsAssumption DEF Lits, Var, Neg
    <3> QED
        BY <1>3, <2>2, <2>3, <3>1
  <2>5. IsTrue(s, l)
    BY <1>2, <1>9, <2>2
  <2>6. -v = Neg(v)
    BY DEF Neg
  <2>7. (f[v] /\ l = v) \/ (~f[v] /\ l = -v)
    BY <1>4, <1>6, <2>4, <2>5, <2>6
  <2> QED
    BY <1>7, <2>4, <2>7
<1>10. A = B
    BY <1>8, <1>9
<1>11. A \in Oracle!Assignments(s.nVars)
    BY <1>6, <1>7, <1>10 DEF Oracle!Assignments
<1>12. ASSUME NEW l \in Lits, Var(l) <= s.nVars
       PROVE  IsTrue(s, l) \/ IsFalse(s, l)
  <2>1. PICK v : v = Var(l)
    OBVIOUS
  <2>2. v \in 1..s.nVars /\ (l = v \/ l = Neg(v)) /\ v \in Lits
    <3>1. l = Var(l) \/ l = Neg(Var(l))
        BY BoundsAssumption DEF Lits, Var, Neg
    <3> QED
        BY <1>3, <1>12, <2>1, <3>1
  <2> QED
    BY <1>4, <2>2, LitFacts DEF IsFalse
<1> QED
    BY <1>2, <1>11, <1>12 DEF Total

\* A total trail without a false clause is a model of the formula.
LEMMA TrailIsModel ==
    ASSUME NEW s, Consistent(s), WatchersOK(s), WatchedOK(s),
           s.qhead = Len(s.trail), Visited(s, s.qhead),
           \A v \in 1..s.nVars : ~IsUndef(s, v),
           NEW A, A = {s.trail[i].lit : i \in DOMAIN s.trail},
           NEW F, Complete(s, F)
    PROVE  A \in Oracle!ModelsOf(s.nVars, F)
<1>0. /\ Consistent(s) /\ \A v \in 1..s.nVars : ~IsUndef(s, v)
      /\ A = {s.trail[i].lit : i \in DOMAIN s.trail}
    OBVIOUS
<1>1. /\ A \in Oracle!Assignments(s.nVars)
      /\ \A l \in Lits : l \in A <=> IsTrue(s, l)
      /\ \A l \in Lits : Var(l) <= s.nVars => IsTrue(s, l) \/ IsFalse(s, l)
  <2>1. Total(s, A)
    BY ONLY <1>0, TotalTrail
  <2> QED
    BY ONLY <2>1 DEF Total
<1>2. Fixed(s) \subseteq A
    BY DEF Fixed
<1>3. ASSUME NEW cr \in ListOf(s, "clauses")
      PROVE  ToSet(s.ca[cr].lits) \cap A # {}
  <2>1. PICK c : c = s.ca[cr].lits
    OBVIOUS
  <2>2. cr \in AttachedIn(s)
    BY DEF ListOf, AttachedIn
  <2>3. \A l \in ToSet(c) : l \in Lits /\ Var(l) <= s.nVars
    <3>1. c \in Seq(Lits) /\ \A i \in DOMAIN c : Var(c[i]) <= s.nVars
        BY <2>1, <2>2, SolverTypes DEF Consistent, ClausesOK, AttachedIn
    <3> QED
        BY <3>1 DEF ToSet
  <2>4. \/ \E l \in ToSet(c) : IsTrue(s, l)
        \/ c[1] \in ToSet(c) /\ ~IsFalse(s, c[1])
    BY <2>1, <2>2, FrontsFree
  <2>5. \E l \in ToSet(c) : IsTrue(s, l)
    BY <1>1, <2>3, <2>4
  <2> QED
    BY <1>1, <2>1, <2>3, <2>5
<1> QED
    BY <1>1, <1>2, <1>3 DEF Complete, Satisfies

LEMMA FindsModel ==
    ASSUME IInv, S'.nVars = S.nVars, ModelFound
    PROVE  Oracle!AnswerModel
<1>1. pc = "decide" /\ pc \notin {"idle", "adding"} /\ formula' = formula
    BY DEF ModelFound
<1>2. PICK s, lits : Deciding(s, lits)
    BY <1>1, DecidingFacts
<1>3. PICK t : t = WithHeap(s, {})
    OBVIOUS
<1>4. /\ \A v \in s.order_heap : ~IsUndef(s, v)
      /\ Finish(t, "l_True", {}) /\ ~AssumptionsLeft(s)
    BY <1>2, <1>3 DEF ModelFound, Deciding, WithHeap
<1>5. s \in Solvers /\ t.trail = s.trail
    BY <1>2, <1>3 DEF Deciding, Consistent, WithHeap, Solvers
<1>6. PICK A : A = {s.trail[i].lit : i \in DOMAIN s.trail}
    OBVIOUS
<1>7. PICK status, out : status = "l_True" /\ out = {}
    OBVIOUS
<1>8. /\ Oracle!Return(status, A, out)
      /\ answer' = [status |-> status, model |-> A, conflict |-> out]
  <2>1. A = IF status = "l_True" THEN {t.trail[i].lit : i \in DOMAIN t.trail} ELSE {}
    BY <1>5, <1>6, <1>7
  <2>2. Finish(t, status, out)
    BY <1>4, <1>7
  <2> QED
    BY <1>1, <2>1, <2>2, AnswerGiven
<1>9. answer'.model = A
    BY <1>8
<1>10. Complete(S, formula)
    BY <1>2 DEF IInv, Meaning, Deciding
<1>11. A \in Oracle!ModelsOf(S.nVars, formula)
  <2>1. Complete(s, formula) /\ s.nVars = S.nVars
    BY <1>2, <1>10 DEF Deciding, Continues
  <2>2. \A v \in 1..s.nVars : ~IsUndef(s, v)
    BY <1>2, <1>4 DEF Deciding, Consistent, HeapOK
  <2>3. A \in Oracle!ModelsOf(s.nVars, formula)
    BY <1>2, <1>6, <2>1, <2>2, TrailIsModel DEF Deciding
  <2> QED
    BY <2>1, <2>3
<1>12. ToSet(Head(calls).lits) \subseteq A
  <2>1. lits = Head(calls).lits /\ lits \in Seq(Lits) /\ AssumptionsFirst(s, lits)
    BY <1>2 DEF Deciding, Call
  <2>2. ~(DecisionLevel(s) < Len(lits)) /\ DecisionLevel(s) \in Nat /\ Len(lits) \in Nat
        /\ DOMAIN s.trail_lim = 1..DecisionLevel(s) /\ DOMAIN lits = 1..Len(lits)
    BY <1>4, <1>5, <2>1, SolverTypes DEF AssumptionsLeft, Call
  <2>3. ASSUME NEW k \in DOMAIN lits
        PROVE  lits[k] \in A
    <3>1. k \in DOMAIN s.trail_lim /\ k <= Len(lits)
        BY <2>2
    <3> QED
        BY <1>6, <2>1, <3>1 DEF AssumptionsFirst
  <2> QED
    BY <2>1, <2>3 DEF ToSet
<1> QED
    BY <1>1, <1>7, <1>8, <1>9, <1>11, <1>12 DEF Oracle!AnswerModel

LEMMA FindsCore ==
    ASSUME IInv, S'.nVars = S.nVars, AssumptionFails
    PROVE  Oracle!AnswerCore
<1>1. pc = "decide" /\ pc \notin {"idle", "adding"} /\ formula' = formula
    BY DEF AssumptionFails
<1>2. PICK s, lits : Deciding(s, lits)
    BY <1>1, DecidingFacts
<1>3. PICK l, out : l = NextAssumption(s) /\ out = analyzeFinal(s, Neg(l))
    OBVIOUS
<1>4. /\ AssumptionsLeft(s) /\ IsFalse(s, l) /\ Finish(s, "l_False", out)
    BY <1>2, <1>3 DEF AssumptionFails, Deciding
<1>5. lits = Head(calls).lits /\ lits \in Seq(Lits) /\ AssumptionsFirst(s, lits)
    BY <1>2 DEF Deciding, Call
<1>6. PICK d, n \in Nat : d = DecisionLevel(s) /\ n = Len(lits) /\ d < n
    BY <1>2, <1>4, <1>5, SolverTypes DEF Deciding, Consistent, AssumptionsLeft, Call
<1>7. /\ DOMAIN lits = 1..n /\ \A k \in 1..n : lits[k] \in ToSet(lits) /\ lits[k] \in Lits
    BY <1>5, <1>6 DEF ToSet
<1>8. l = lits[d + 1] /\ d + 1 \in 1..n
    BY <1>3, <1>5, <1>6 DEF NextAssumption, Call
<1>9. Neg(l) \in Lits /\ IsTrue(s, Neg(l))
    BY <1>4, <1>7, <1>8, LitFacts DEF IsFalse
<1>10. Final(s, Neg(l), out)
    BY <1>2, <1>3, <1>9, FinalKeeps DEF Deciding
<1>11. out \subseteq {-m : m \in ToSet(Head(calls).lits)}
  <2>1. SUFFICES ASSUME NEW o \in out
                 PROVE  \E m \in ToSet(lits) : o = Neg(m)
    BY <1>5 DEF Neg
  <2>2. CASE o = Neg(l)
    BY <1>7, <1>8, <2>2
  <2>3. CASE \E i \in DOMAIN s.trail :
                 /\ o = Neg(s.trail[i].lit) /\ s.trail[i].reason = CRef_Undef
                 /\ s.trail[i].level > 0
    <3>1. PICK i \in DOMAIN s.trail :
              /\ o = Neg(s.trail[i].lit) /\ s.trail[i].reason = CRef_Undef
              /\ s.trail[i].level > 0
        BY <2>3
    <3>2. PICK v : v = s.trail[i].level
        OBVIOUS
    <3>3. v \in Nat /\ v <= d
        BY <1>2, <1>6, <3>2, SolverTypes DEF Deciding, Consistent, TrailOK
    <3>4. v \in 1..n
        BY <1>6, <3>1, <3>2, <3>3
    <3>5. s.trail[i].lit = lits[v]
        BY <1>5, <1>6, <3>1, <3>2, <3>4 DEF AssumptionsFirst
    <3> QED
        BY <1>7, <3>1, <3>4, <3>5
  <2> QED
    BY <1>10, <2>2, <2>3 DEF Final
<1>12. Oracle!Implied(S.nVars, formula, out)
    BY <1>2, <1>10 DEF Final, Deciding, Oracle!Implied
<1> QED
    BY <1>1, <1>4, <1>11, <1>12, AnswersNo

\* A solver that is not ok, or a conflict without a decision.
LEMMA SaysNo ==
    ASSUME IInv, S'.nVars = S.nVars, NotOk \/ TopLevelConflict
    PROVE  Oracle!AnswerCore
<1>1. /\ pc \in {"propagate", "conflict"} /\ Finish(S, "l_False", {}) /\ formula' = formula
      /\ ~S.ok \/ (pc = "conflict" /\ DecisionLevel(S) = 0)
    BY DEF NotOk, TopLevelConflict
<1>2. Oracle!ModelsOf(S.nVars, formula) = {}
  <2>1. CASE ~S.ok
    BY <2>1 DEF IInv, Meaning
  <2>2. CASE S.ok /\ pc = "conflict" /\ DecisionLevel(S) = 0
    BY <2>2, NoModels DEF IInv, Queue, Meaning
  <2> QED
    BY <1>1, <2>1, <2>2
<1>3. PICK out : out = {}
    OBVIOUS
<1>4. /\ out \subseteq {-l : l \in ToSet(Head(calls).lits)}
      /\ Oracle!Implied(S.nVars, formula, out)
      /\ Finish(S, "l_False", out)
    BY <1>1, <1>2, <1>3, NoModelNo
<1>5. pc \notin {"idle", "adding"}
    BY <1>1
<1> QED
    BY <1>1, <1>4, <1>5, AnswersNo

\* The budget is over, or the search goes on.
LEMMA GoesOn ==
    ASSUME pc \notin {"idle", "adding"}, NEW s, SearchAgain(s), S'.nVars = S.nVars,
           formula' = formula
    PROVE  Oracle!AnswerUnknown \/ UNCHANGED Oracle!vars
<1>1. CASE Call.budget /\ Finish(s, "l_Undef", {})
    BY <1>1, AnswersUnknown
<1>2. CASE pc' = "propagate" /\ UNCHANGED <<calls, answer>>
  <2>1. Query' = Query
    BY <1>2, SameQuery
  <2> QED
    BY <1>2, <2>1, Unseen
<1> QED
    BY <1>1, <1>2 DEF SearchAgain

LEMMA Restarts ==
    ASSUME IInv, S'.nVars = S.nVars, Adapt \/ Restart
    PROVE  Oracle!AnswerUnknown \/ UNCHANGED Oracle!vars
<1>1. /\ pc \in {"conflict", "restart"} /\ formula' = formula
      /\ \E s : SearchAgain(s)
    BY DEF Adapt, Restart
<1>2. PICK s : SearchAgain(s)
    BY <1>1
<1>3. pc \notin {"idle", "adding"}
    BY <1>1
<1> QED
    BY <1>1, <1>2, <1>3, GoesOn

\* The steps in between, which the searches do not see.
Internal ==
    \/ Propagate \/ Propagated \/ Analyze \/ NoRestart \/ Simplify \/ ReduceDB \/ NoReduce
    \/ Assume \/ Branch

LEMMA InternalUnseen ==
    ASSUME IInv, S'.nVars = S.nVars, Internal
    PROVE  UNCHANGED Oracle!vars
<1>1. formula' = formula /\ answer' = answer
    BY DEF Internal, Propagate, Propagated, Analyze, NoRestart, Simplify, ReduceDB, NoReduce,
       Assume, Branch
<1>2. Query' = Query
  <2>1. ASSUME Propagate
        PROVE  \/ pc \in {"idle", "adding"} /\ pc' \in {"idle", "adding"}
               \/ pc = "propagate" /\ pc' \in {"propagate", "conflict"} /\ calls' = calls
    <3>1. PICK r : r = PropagateLit(S)
        OBVIOUS
    <3>2. PICK failed \in BOOLEAN : failed = (pc = "adding" /\ r.confl # CRef_Undef)
        OBVIOUS
    <3>3. /\ pc \in {"propagate", "adding"}
          /\ failed => pc' = "idle"
          /\ ~failed /\ r.confl # CRef_Undef => pc' = "conflict"
          /\ ~failed /\ r.confl = CRef_Undef => pc' = pc
          /\ ~failed => calls' = calls
        BY <2>1, <3>1, <3>2 DEF Propagate
    <3> QED
        BY <3>2, <3>3
  <2>2. ASSUME Propagated
        PROVE  \/ pc \in {"idle", "adding"} /\ pc' \in {"idle", "adding"}
               \/ pc = "propagate" /\ pc' = "restart" /\ calls' = calls
    BY <2>2 DEF Propagated
  <2>3. ASSUME \/ Analyze \/ NoRestart \/ Simplify \/ ReduceDB \/ NoReduce \/ Assume \/ Branch
        PROVE  /\ pc \in {"conflict", "restart", "simplify", "reduce", "decide"}
               /\ pc' \in {"propagate", "simplify", "reduce", "decide"} /\ calls' = calls
    BY <2>3 DEF Analyze, NoRestart, Simplify, ReduceDB, NoReduce, Assume, Branch
  <2>4. CASE Propagate
    BY <2>1, <2>4, SameQuery
  <2>5. CASE Propagated
    BY <2>2, <2>5, SameQuery
  <2>6. CASE \/ Analyze \/ NoRestart \/ Simplify \/ ReduceDB \/ NoReduce \/ Assume \/ Branch
    BY <2>3, <2>6, SameQuery
  <2> QED
    BY <2>4, <2>5, <2>6 DEF Internal
<1> QED
    BY <1>1, <1>2, Unseen

LEMMA StepsRefine ==
    ASSUME IInv, [Next]_vars
    PROVE  Oracle!Next \/ UNCHANGED Oracle!vars
<1>1. IInv'
    BY NextKeeps
<1>2. CASE UNCHANGED vars
  <2>1. S' = S /\ pc' = pc /\ calls' = calls /\ formula' = formula /\ answer' = answer
    BY <1>2 DEF vars
  <2>2. Query' = Query /\ S'.nVars = S.nVars
    BY <2>1 DEF Query
  <2> QED
    BY <2>1, <2>2, Unseen
<1>3. CASE Done
    BY <1>2, <1>3 DEF Done
<1>4. CASE newVar
    BY <1>4, CreatesVar DEF Oracle!Next
<1>5. CASE addClause_
    BY <1>1, <1>5, AddClauseKeeps, AddsClause DEF Oracle!Next
<1>6. CASE solveLimited
    BY <1>6, Asks DEF Oracle!Next
<1>7. CASE NotOk \/ TopLevelConflict
    BY <1>7, NotOkKeeps, TopLevelConflictKeeps, SaysNo DEF Oracle!Next
<1>8. CASE Adapt \/ Restart
    BY <1>8, AdaptStepKeeps, RestartKeeps, Restarts DEF Oracle!Next
<1>9. CASE AssumptionFails
    BY <1>9, AssumptionFailsKeeps, FindsCore DEF Oracle!Next
<1>10. CASE ModelFound
    BY <1>10, ModelFoundKeeps, FindsModel DEF Oracle!Next
<1>11. CASE Internal
  <2>1. S'.nVars = S.nVars
    BY <1>11, PropagateStepKeeps, PropagatedKeeps, AnalyzeStepKeeps, NoRestartKeeps,
       SimplifyStepKeeps, ReduceDBKeeps, NoReduceKeeps, AssumeKeeps, BranchKeeps DEF Internal
  <2> QED
    BY <1>11, <2>1, InternalUnseen
<1> QED
    BY <1>2, <1>3, <1>4, <1>5, <1>6, <1>7, <1>8, <1>9, <1>10, <1>11 DEF Next, Internal

LEMMA InitRefines ==
    ASSUME Init
    PROVE  Oracle!Init
<1>1. S.nVars = 0
    BY NewSolver
<1>2. /\ pc = "idle" /\ formula = {}
      /\ answer = [status |-> "none", model |-> {}, conflict |-> {}]
    BY DEF Init
<1> QED
    BY <1>1, <1>2 DEF Oracle!Init, Oracle!NoQuery, Oracle!NoAnswer

\* Every answer of the solver is one the searches expect: a total model of the
\* formula that makes the assumptions true, a clause over the negated
\* assumptions that the formula implies, or, with a budget, nothing; and no step
\* in between shows.
THEOREM Implements == Spec => ImplementsSatOracle
<1>1. Init => Oracle!Init
    BY InitRefines
<1>2. IInv /\ [Next]_vars => [Oracle!Next]_(Oracle!vars)
    BY StepsRefine
<1> QED
    BY <1>1, <1>2, Invariance, PTL DEF Spec, ImplementsSatOracle, Oracle!Spec

-----------------------------------------------------------------------------
(***************************************************************************)
(* A search advances: see TrailAdvances.                                   *)
(***************************************************************************)

LEMMA CountedOn ==
    ASSUME NEW s \in Solvers, NEW d, NEW I, I = {i \in DOMAIN s.trail : s.trail[i].level = d}
    PROVE  IsFiniteSet(I) /\ LiteralsOn(s, d) = Cardinality(I) /\ LiteralsOn(s, d) \in Nat
<1>1. DOMAIN s.trail = 1..Len(s.trail) /\ Len(s.trail) \in Nat
    BY SolverTypes
<1>2. IsFiniteSet(DOMAIN s.trail)
    BY <1>1, FS_Interval
<1>3. IsFiniteSet(I)
    BY <1>2, FS_Subset
<1> QED
    BY <1>3, FS_CardinalityType DEF LiteralsOn

\* One literal joins a level.
LEMMA OneMore ==
    ASSUME NEW s \in Solvers, NEW t \in Solvers, NEW d, NEW i \in DOMAIN t.trail,
           t.trail[i].level = d,
           \A j \in DOMAIN s.trail : s.trail[j].level = d =>
               j # i /\ j \in DOMAIN t.trail /\ t.trail[j].level = d
    PROVE  LiteralsOn(t, d) > LiteralsOn(s, d)
<1>1. PICK I, J : /\ I = {j \in DOMAIN s.trail : s.trail[j].level = d}
                  /\ J = {j \in DOMAIN t.trail : t.trail[j].level = d}
    OBVIOUS
<1>2. /\ IsFiniteSet(I) /\ LiteralsOn(s, d) = Cardinality(I) /\ LiteralsOn(s, d) \in Nat
      /\ IsFiniteSet(J) /\ LiteralsOn(t, d) = Cardinality(J) /\ LiteralsOn(t, d) \in Nat
    BY <1>1, CountedOn
<1>3. I \cup {i} \subseteq J /\ i \notin I
    BY <1>1
<1>4. Cardinality(I \cup {i}) = Cardinality(I) + 1 /\ IsFiniteSet(I \cup {i})
    BY <1>2, <1>3, FS_AddElement
<1>5. Cardinality(I \cup {i}) <= Cardinality(J)
    BY <1>2, <1>3, FS_Subset
<1> QED
    BY <1>2, <1>4, <1>5

\* A level stays as it is.
LEMMA SameOn ==
    ASSUME NEW s, NEW t, NEW d,
           \A j : (j \in DOMAIN s.trail /\ s.trail[j].level = d) <=>
                  (j \in DOMAIN t.trail /\ t.trail[j].level = d)
    PROVE  LiteralsOn(t, d) = LiteralsOn(s, d)
<1>1. {j \in DOMAIN s.trail : s.trail[j].level = d} = {j \in DOMAIN t.trail : t.trail[j].level = d}
    OBVIOUS
<1> QED
    BY <1>1 DEF LiteralsOn

\* What a step of the search does to the trail.
Ahead(s, t) ==
    \/ \A d \in 0 .. DecisionLevel(s) : LiteralsOn(t, d) = LiteralsOn(s, d)
    \/ Greater(t, s)

LEMMA ClimbsAhead ==
    ASSUME NEW s, Consistent(s), NEW t, Consistent(t), Climbs(s, t)
    PROVE  Ahead(s, t)
<1>1. s \in Solvers /\ t \in Solvers
    BY DEF Consistent
<1>2. PICK d \in Nat : d = DecisionLevel(t)
    BY <1>1, SolverTypes
<1>3. PICK n \in Nat :
           /\ DOMAIN t.trail = 1..(n + 1) /\ t.trail[n + 1].level = d
           /\ \A i \in 1..n : i \in DOMAIN s.trail /\ t.trail[i].level = s.trail[i].level
           /\ \A i \in DOMAIN s.trail : s.trail[i].level <= d => i \in 1..n
    BY <1>2 DEF Climbs
<1>4. LiteralsOn(t, d) > LiteralsOn(s, d)
  <2>1. n + 1 \in DOMAIN t.trail
    BY <1>3
  <2>2. ASSUME NEW j \in DOMAIN s.trail, s.trail[j].level = d
        PROVE  j # n + 1 /\ j \in DOMAIN t.trail /\ t.trail[j].level = d
    BY <1>3, <2>2
  <2> QED
    BY <1>1, <1>3, <2>1, <2>2, OneMore
<1>5. ASSUME NEW k \in 0 .. d - 1
      PROVE  LiteralsOn(t, k) = LiteralsOn(s, k)
  <2>1. ASSUME NEW j
        PROVE  (j \in DOMAIN s.trail /\ s.trail[j].level = k) <=>
               (j \in DOMAIN t.trail /\ t.trail[j].level = k)
    <3>1. ASSUME j \in DOMAIN s.trail, s.trail[j].level = k
          PROVE  j \in DOMAIN t.trail /\ t.trail[j].level = k
      <4>1. s.trail[j].level <= d
        BY <1>5, <3>1
      <4>2. j \in 1..n
        BY <1>3, <3>1, <4>1
      <4> QED
        BY <1>3, <3>1, <4>2
    <3>2. ASSUME j \in DOMAIN t.trail, t.trail[j].level = k
          PROVE  j \in DOMAIN s.trail /\ s.trail[j].level = k
      <4>1. j # n + 1
        BY <1>3, <1>5, <3>2
      <4>2. j \in 1..n
        BY <1>3, <3>2, <4>1
      <4> QED
        BY <1>3, <3>2, <4>2
    <3> QED
        BY <3>1, <3>2
  <2> QED
    BY <2>1, SameOn
<1>6. d \in 0 .. DecisionLevel(t)
    BY <1>2
<1> QED
    BY <1>4, <1>5, <1>6 DEF Ahead, Greater

LEMMA AfterAhead ==
    ASSUME NEW s, Consistent(s), NEW t, Consistent(t), After(s, t)
    PROVE  Ahead(s, t)
<1>1. s \in Solvers /\ t \in Solvers /\ TrailOK(s) /\ TrailOK(t)
    BY DEF Consistent
<1>2. PICK d, m, n \in Nat : d = DecisionLevel(s) /\ m = Len(s.trail) /\ n = Len(t.trail)
    BY <1>1, SolverTypes
<1>3. /\ DOMAIN s.trail = 1..m /\ DOMAIN t.trail = 1..n /\ m <= n
      /\ \A i \in 1..m : t.trail[i] = s.trail[i]
      /\ DecisionLevel(t) = d /\ LastLim(t) = LastLim(s)
    BY ZenonT(30), <1>1, <1>2, SolverTypes, AfterFacts DEF After
<1>4. ASSUME NEW i \in DOMAIN t.trail, i \notin DOMAIN s.trail
      PROVE  t.trail[i].level = d
  <2>1. LastLim(s) \in Nat /\ LastLim(s) <= s.qhead /\ s.qhead <= m /\ s.qhead \in Nat
    BY <1>1, <1>2, Levels, SolverTypes
  <2>2. LastLim(t) < i
    BY <1>3, <1>4, <2>1
  <2> QED
    BY <1>1, <1>3, <2>2, Levels
<1>5. ASSUME NEW k, k # d \/ m = n
      PROVE  LiteralsOn(t, k) = LiteralsOn(s, k)
  <2>1. ASSUME NEW j
        PROVE  (j \in DOMAIN s.trail /\ s.trail[j].level = k) <=>
               (j \in DOMAIN t.trail /\ t.trail[j].level = k)
    BY <1>3, <1>4, <1>5
  <2> QED
    BY <2>1, SameOn
<1>6. CASE m = n
    BY <1>5, <1>6 DEF Ahead
<1>7. CASE m # n
  <2>1. n \in DOMAIN t.trail /\ n \notin DOMAIN s.trail
    BY <1>3, <1>7
  <2>2. t.trail[n].level = d
    BY <1>4, <2>1
  <2>3. \A j \in DOMAIN s.trail : s.trail[j].level = d =>
            j # n /\ j \in DOMAIN t.trail /\ t.trail[j].level = d
    BY <1>3, <2>1
  <2>4. LiteralsOn(t, d) > LiteralsOn(s, d)
    BY <1>1, <2>1, <2>2, <2>3, OneMore
  <2>5. \A k \in 0 .. d - 1 : LiteralsOn(t, k) = LiteralsOn(s, k)
    BY <1>5
  <2>6. d \in 0 .. DecisionLevel(t)
    BY <1>3
  <2> QED
    BY <2>4, <2>5, <2>6 DEF Ahead, Greater
<1> QED
    BY <1>6, <1>7

LEMMA SlimmerAhead ==
    ASSUME NEW s, NEW t, Slimmer(s, t)
    PROVE  \A d : LiteralsOn(t, d) = LiteralsOn(s, d)
    BY SameOn DEF Slimmer

\* A decision is on a level of its own.
LEMMA DecisionAhead ==
    ASSUME NEW s, Consistent(s), NEW t, NEW l, s.trail = t.trail,
           DecisionLevel(t) \in Nat, DecisionLevel(t) <= DecisionLevel(s),
           NEW u, u = uncheckedEnqueue(newDecisionLevel(s), l, CRef_Undef)
    PROVE  \A d \in 0 .. DecisionLevel(t) : LiteralsOn(u, d) = LiteralsOn(t, d)
<1>1. s \in Solvers
    BY DEF Consistent
<1>2. PICK e \in Nat : e = DecisionLevel(s)
    BY <1>1, SolverTypes
<1>3. PICK n \in Nat : n = Len(s.trail)
    BY <1>1, SolverTypes
<1>4. PICK x : x = [lit |-> l, level |-> e + 1, reason |-> CRef_Undef]
    OBVIOUS
<1>5. u.trail = Append(s.trail, x)
  <2>1. s.trail_lim \in Seq(Nat)
    BY <1>1, SolverTypes
  <2>2. PICK m : m = Len(s.trail)
    OBVIOUS
  <2>3. PICK R : R = Nat \cup {m}
    OBVIOUS
  <2>4. s.trail_lim \in Seq(R) /\ m \in R
    BY <2>1, <2>3
  <2>5. Len(Append(s.trail_lim, m)) = Len(s.trail_lim) + 1
    BY ONLY <2>4
  <2> QED
    BY <1>1, <1>2, <1>4, <2>2, <2>5 DEF uncheckedEnqueue, newDecisionLevel, DecisionLevel, Solvers
<1>6. /\ DOMAIN s.trail = 1..n /\ DOMAIN u.trail = 1..(n + 1)
      /\ \A i \in 1..n : u.trail[i] = s.trail[i]
      /\ u.trail[n + 1] = x
  <2>1. s.trail \in Seq(Entries)
    BY <1>1, SolverTypes
  <2>2. PICK R : R = Entries \cup {x}
    OBVIOUS
  <2>3. s.trail \in Seq(R) /\ x \in R
    BY <2>1, <2>2
  <2> QED
    BY ONLY <1>3, <1>5, <2>3, n \in Nat
<1>7. ASSUME NEW d \in 0 .. DecisionLevel(t)
      PROVE  LiteralsOn(u, d) = LiteralsOn(t, d)
  <2>1. x.level # d
    BY <1>2, <1>4, <1>7
  <2>2. ASSUME NEW j
        PROVE  (j \in DOMAIN t.trail /\ t.trail[j].level = d) <=>
               (j \in DOMAIN u.trail /\ u.trail[j].level = d)
    BY <1>6, <2>1
  <2> QED
    BY <2>2, SameOn
<1> QED
    BY <1>7

LEMMA StaysAhead ==
    ASSUME S' = S
    PROVE  Ahead(S, S')
    BY DEF Ahead

LEMMA PropagateAhead ==
    ASSUME IInv, Propagate, pc = "propagate"
    PROVE  Ahead(S, S')
<1>1. PICK r : r = PropagateLit(S)
    OBVIOUS
<1>2. /\ S.ok /\ S.qhead < Len(S.trail) /\ S' = [r.s EXCEPT !.ok = TRUE]
    BY <1>1 DEF Propagate
<1>3. Visited(S, S.qhead)
    BY <1>2 DEF IInv, Quiet
<1>4. PropagatedOne(S, r)
    BY <1>1, <1>2, <1>3, TypesHold, PropagateKeeps
<1>5. r.s \in Solvers /\ r.s.ok = S.ok /\ S.ok \in BOOLEAN /\ Consistent(r.s) /\ After(S, r.s)
    BY <1>4, TypesHold DEF PropagatedOne, After, Consistent
<1>6. PICK b : b = TRUE
    OBVIOUS
<1>7. r.s.ok = b
    BY <1>2, <1>5, <1>6
<1>8. S' = r.s
    BY <1>2, <1>5, <1>6, <1>7, OkSame
<1> QED
    BY <1>5, <1>8, TypesHold, AfterAhead

LEMMA AnalyzeAhead ==
    ASSUME IInv, Analyze
    PROVE  Ahead(S, S')
<1>1. pc = "conflict" /\ DecisionLevel(S) > 0
    BY DEF Analyze
<1>2. PICK r : r = analyze(S, confl)
    OBVIOUS
<1>3. S' = Learn(r.s, r.learnt)
    BY <1>2 DEF Analyze
<1>4. Conflicting(S, confl) /\ Visited(S, LastLim(S))
    BY <1>1 DEF IInv, Queue, Quiet
<1>5. Consistent(S) /\ WatchersOK(S) /\ WatchedOK(S)
    BY TypesHold
<1>6. Analyzed(S, r)
    BY <1>1, <1>2, <1>4, <1>5, AnalyzeKeeps
<1>7. Learned(S, S')
    BY <1>1, <1>3, <1>4, <1>5, <1>6, LearnKeeps
<1> QED
    BY <1>5, <1>7, ClimbsAhead DEF Learned

LEMMA SimplifyAhead ==
    ASSUME IInv, Simplify
    PROVE  Ahead(S, S')
<1>1. pc = "simplify" /\ (S' = S \/ S' \in Simplified(S))
    BY DEF Simplify
<1>2. DecisionLevel(S) = 0
    BY <1>1, EmptyQueue
<1>3. CASE S' \in Simplified(S)
  <2>1. Slimmer(S, S')
    BY <1>2, <1>3, TypesHold, SimplifyKeeps
  <2> QED
    BY <2>1, SlimmerAhead DEF Ahead
<1> QED
    BY <1>1, <1>3, StaysAhead

LEMMA ReduceAhead ==
    ASSUME IInv, ReduceDB
    PROVE  Ahead(S, S')
<1>1. PICK order \in SetToSeqs(ListOf(S, "learnts")) : S' \in Collected(Reduced(S, order))
    BY DEF ReduceDB
<1>2. PICK t : t = Reduced(S, order)
    OBVIOUS
<1>3. Slimmer(S, t)
    BY <1>1, <1>2, TypesHold, ReduceKeeps
<1>4. Consistent(t) /\ WatchersOK(t) /\ WatchedOK(t)
    BY <1>3 DEF Slimmer
<1>5. Slimmer(t, S')
    BY <1>1, <1>2, <1>4, CollectedKeeps
<1>6. \A d : LiteralsOn(S', d) = LiteralsOn(S, d)
    BY <1>3, <1>5, SlimmerAhead
<1> QED
    BY <1>6 DEF Ahead

LEMMA DecideAhead ==
    ASSUME IInv, Assume \/ Branch
    PROVE  Ahead(S, S')
<1>1. pc = "decide"
    BY DEF Assume, Branch
<1>2. PICK s, lits : Deciding(s, lits)
    BY <1>1, DecidingFacts
<1>3. /\ s = DummyLevels(S) /\ Consistent(s) /\ s.trail = S.trail
      /\ DecisionLevel(S) \in Nat /\ DecisionLevel(S) <= DecisionLevel(s)
    BY <1>2, TypesHold DEF Deciding
<1>4. \E l : S'.trail = uncheckedEnqueue(newDecisionLevel(s), l, CRef_Undef).trail
  <2>1. CASE Assume
    BY <1>3, <2>1 DEF Assume
  <2>2. CASE Branch
    <3>1. PICK free : free = {v \in s.order_heap : IsUndef(s, v)}
        OBVIOUS
    <3>2. \E v \in free : \E l \in {v, Neg(v)} :
              S' = uncheckedEnqueue(
                       newDecisionLevel([s EXCEPT !.order_heap = free \ {v}]), l, CRef_Undef)
        BY ONLY <1>3, <2>2, <3>1 DEF Branch
    <3>3. PICK heap, l :
              S' = uncheckedEnqueue(newDecisionLevel([s EXCEPT !.order_heap = heap]), l, CRef_Undef)
        BY <3>2
    <3>4. s \in Solvers
        BY <1>3 DEF Consistent
    <3>5. S'.trail = uncheckedEnqueue(newDecisionLevel(s), l, CRef_Undef).trail
        BY <3>3, <3>4 DEF uncheckedEnqueue, newDecisionLevel, Solvers, DecisionLevel
    <3> QED
        BY <3>5
  <2> QED
    BY <2>1, <2>2
<1>5. PICK l : S'.trail = uncheckedEnqueue(newDecisionLevel(s), l, CRef_Undef).trail
    BY <1>4
<1>6. PICK u : u = uncheckedEnqueue(newDecisionLevel(s), l, CRef_Undef)
    OBVIOUS
<1>7. \A d \in 0 .. DecisionLevel(S) : LiteralsOn(u, d) = LiteralsOn(S, d)
    BY <1>3, <1>6, DecisionAhead
<1>8. \A d : LiteralsOn(S', d) = LiteralsOn(u, d)
    BY <1>5, <1>6 DEF LiteralsOn
<1> QED
    BY <1>7, <1>8 DEF Ahead

LEMMA StepAhead ==
    ASSUME IInv, Next, Searching, Searching', restarts' = restarts,
           ~(pc = "conflict" /\ adaptIn = 1)
    PROVE  Ahead(S, S')
<1>1. pc \notin {"idle", "adding"} /\ pc' \notin {"idle", "adding"}
    BY DEF Searching
<1>2. /\ ~newVar /\ ~addClause_ /\ ~solveLimited /\ ~NotOk /\ ~TopLevelConflict
      /\ ~AssumptionFails /\ ~ModelFound
    BY <1>1 DEF newVar, addClause_, solveLimited, Serving, NotOk, TopLevelConflict,
       AssumptionFails, ModelFound, Finish
<1>3. ~Adapt
    BY DEF Adapt
<1>4. ~Restart
  <2>1. restarts \in Nat
    BY TypesHold DEF TypeOK
  <2> QED
    BY <2>1 DEF Restart
<1>5. CASE Propagate
  <2>1. pc = "propagate"
    BY <1>1, <1>5 DEF Propagate
  <2> QED
    BY <1>5, <2>1, PropagateAhead
<1>6. CASE Propagated \/ NoRestart \/ NoReduce \/ Done
  <2>1. S' = S
    BY <1>6 DEF Propagated, NoRestart, NoReduce, Done, vars
  <2> QED
    BY <2>1, StaysAhead
<1> QED
    BY <1>2, <1>3, <1>4, <1>5, <1>6, AnalyzeAhead, SimplifyAhead, ReduceAhead, DecideAhead
    DEF Next

\* Within a search every conflict leaves a trail that is greater, level by
\* level, than the one before, and no other step makes it smaller: backtracking
\* goes to the level where the clause learnt implies one literal more.
THEOREM TrailAdvancesHolds == Spec => TrailAdvances
<1>1. ASSUME IInv, [Next]_vars
      PROVE  [/\ Searching /\ Searching'
              /\ restarts' = restarts
              /\ ~(pc = "conflict" /\ adaptIn = 1)
              => \/ \A d \in 0 .. DecisionLevel(S) : LiteralsOn(S', d) = LiteralsOn(S, d)
                 \/ Greater(S', S)]_vars
    BY <1>1, StepAhead DEF Ahead
<1> QED
    BY <1>1, Invariance, PTL DEF Spec, TrailAdvances

-----------------------------------------------------------------------------
(***************************************************************************)
(* What the process prints. The signal handler may stop the process at     *)
(* any stage, so the invariant says for each stage what the handler would  *)
(* find: which model is saved and how much of it, what the "o" line        *)
(* announced and what was printed already.                                 *)
(***************************************************************************)

Statuses == {"_OPTIMUM_", "_UNSATISFIABLE_", "_SATISFIABLE_", "_UNKNOWN_"}

\* The statements left once the model is saved, and once ubCost is assigned.
PrintAndBound == <<"printBound", "ubCost">>
BoundOnly     == <<"ubCost">>
PrintOnly     == <<"printBound">>
SaveAndPrint  == <<"saveModel", "printBound">>
PrintAndSave  == <<"printBound", "saveModel">>
SaveOnly      == <<"saveModel">>

AfterSave  == {PrintAndBound, BoundOnly, PrintOnly}
AfterBound == {SaveAndPrint, PrintOnly, PrintAndSave, SaveOnly}
StillToDo  == {SaveFirst, BoundFirst, SaveLast} \cup AfterSave \cup AfterBound

ProcessTypeOK ==
    /\ feasible \in SUBSET Models
    /\ stage \in {"parse", "search", "take", "save", "printModel", "return",
                  "exited", "crashed"}
    /\ found \in {None} \cup feasible
    /\ model \in {None} \cup feasible
    /\ size \in Nat
    /\ ubCost \in Nat
    /\ boundLine \in {None} \cup Nat
    /\ statusLines \in Seq(Statuses)

(***************************************************************************)
(* Statements are left exactly while a model is taken, and saveModel runs   *)
(* when it is the next of them.                                             *)
(***************************************************************************)
Taking ==
    /\ stage \in {"take", "save"} => todo \in StillToDo /\ found # None
    /\ stage = "save" => todo \in {SaveFirst, SaveAndPrint, SaveOnly}
    /\ stage \in {"parse", "search", "printModel", "return"} => todo = <<>>

(***************************************************************************)
(* Outside of saveModel a model is saved in full or there is none.          *)
(***************************************************************************)
WholeModel ==
    /\ model = None => size = 0
    /\ model # None /\ stage \in {"search", "take", "printModel", "return"} =>
           size = nVars
    /\ stage = "save" => model = found /\ size <= nVars
    /\ stage = "take" /\ todo \in AfterSave => model = found
    /\ stage = "printModel" /\ feasible # {} => model # None
    /\ stage = "parse" => model = None

(***************************************************************************)
(* The "o" line last printed is dearer than neither the model that is being *)
(* taken nor the saved one, unless the latter is about to be replaced by    *)
(* SaveLast; and ubCost is what the saved model costs, or the one found.    *)
(***************************************************************************)
BoundAnnounced ==
    /\ stage \in {"parse", "search", "printModel", "return"} =>
           /\ boundLine # None => ubCost <= boundLine
           /\ model # None => ubCost = cost[model]
    /\ stage \in {"take", "save"} =>
           /\ cost[found] <= ubCost
           /\ boundLine # None => cost[found] <= boundLine
           /\ todo \in AfterBound => ubCost = cost[found]
    /\ /\ stage \in {"parse", "search", "take", "save", "printModel", "return"}
       /\ ~(stage = "take" /\ todo = SaveOnly)
       /\ boundLine # None
       => model # None /\ cost[model] <= boundLine

(***************************************************************************)
(* Nothing is printed before the search answers; then the status is true of *)
(* the saved model, and the model follows.                                  *)
(***************************************************************************)
Status(s) ==
    \/ /\ s = "_OPTIMUM_"
       /\ model # None
       /\ \A m \in feasible : cost[model] <= cost[m]
    \/ /\ s = "_UNSATISFIABLE_"
       /\ feasible = {}

Printed ==
    /\ stage \in {"parse", "search", "take", "save"} =>
           statusLines = <<>> /\ modelLine = None
    /\ stage \in {"printModel", "return"} =>
           Len(statusLines) = 1 /\ Status(statusLines[1])
    /\ stage = "printModel" => modelLine = None
    /\ stage = "return" =>
           modelLine = IF feasible = {} THEN None ELSE <<model, size>>

ProcessInv ==
    /\ ProcessTypeOK
    /\ Taking
    /\ WholeModel
    /\ BoundAnnounced
    /\ Printed
    /\ BoundKept
    /\ StatusTrue
-----------------------------------------------------------------------------
LEMMA CostType == \A m \in Models : cost[m] \in Nat /\ cost[m] <= sumWeights
    BY CostAssumption

\* The first status printed is the only one.
LEMMA FirstStatus ==
    ASSUME NEW lines \in Seq(Statuses), lines = <<>>, NEW s \in Statuses
    PROVE  /\ Append(lines, s) \in Seq(Statuses)
           /\ Len(Append(lines, s)) = 1
           /\ Append(lines, s)[1] = s
<1>1. Len(lines) = 0
    BY EmptySeq
<1>2. /\ Append(lines, s) \in Seq(Statuses)
      /\ Len(Append(lines, s)) = Len(lines) + 1
      /\ Append(lines, s)[Len(lines) + 1] = s
    BY AppendProperties
<1>3. Len(lines) + 1 = 1
    BY <1>1
<1> QED
    BY <1>2, <1>3

\* A sequence of one status has that one only; another one may be appended.
LEMMA OneStatus ==
    ASSUME NEW lines \in Seq(Statuses), Len(lines) = 1
    PROVE  /\ lines # <<>> /\ DOMAIN lines = {1}
           /\ \A s \in Statuses :
                 /\ Append(lines, s) \in Seq(Statuses)
                 /\ Append(lines, s) # <<>>
                 /\ DOMAIN Append(lines, s) = {1, 2}
                 /\ Append(lines, s)[1] = lines[1]
                 /\ Append(lines, s)[2] = s
<1>1. lines # <<>> /\ DOMAIN lines = {1}
  <2>1. DOMAIN lines = 1..1
    BY SMTT(30), LenProperties
  <2> QED
    BY <2>1, EmptySeq
<1>2. ASSUME NEW s \in Statuses
      PROVE  /\ Append(lines, s) \in Seq(Statuses)
             /\ Append(lines, s) # <<>>
             /\ DOMAIN Append(lines, s) = {1, 2}
             /\ Append(lines, s)[1] = lines[1]
             /\ Append(lines, s)[2] = s
  <2>1. /\ Append(lines, s) \in Seq(Statuses)
        /\ Append(lines, s) # <<>>
        /\ Len(Append(lines, s)) = 2
    <3>1. Len(Append(lines, s)) = Len(lines) + 1
      BY AppendProperties
    <3> QED
      BY <3>1, AppendProperties
  <2>2. DOMAIN Append(lines, s) = 1..2
    BY <2>1, LenProperties
  <2>3. Append(lines, s)[1] = lines[1]
    <3>1. 1 \in 1..Len(lines)
      OBVIOUS
    <3> QED
      BY <3>1, AppendProperties
  <2>4. Append(lines, s)[2] = s
    <3>1. Append(lines, s)[Len(lines) + 1] = s
      BY SMTT(30), AppendProperties
    <3> QED
      BY <3>1
  <2> QED
    BY <2>1, <2>2, <2>3, <2>4
<1> QED
    BY <1>1, <1>2

\* The statements that are left one by one: the next of them, and the others.
LEMMA NextStatement ==
    /\ Head(SaveFirst) = "saveModel" /\ Tail(SaveFirst) = PrintAndBound
    /\ Head(BoundFirst) = "ubCost" /\ Tail(BoundFirst) = SaveAndPrint
    /\ Head(SaveLast) = "ubCost" /\ Tail(SaveLast) = PrintAndSave
    /\ Head(PrintAndBound) = "printBound" /\ Tail(PrintAndBound) = BoundOnly
    /\ Head(SaveAndPrint) = "saveModel" /\ Tail(SaveAndPrint) = PrintOnly
    /\ Head(PrintAndSave) = "printBound" /\ Tail(PrintAndSave) = SaveOnly
    /\ Head(BoundOnly) = "ubCost" /\ Tail(BoundOnly) = <<>>
    /\ Head(PrintOnly) = "printBound" /\ Tail(PrintOnly) = <<>>
    /\ Head(SaveOnly) = "saveModel" /\ Tail(SaveOnly) = <<>>
    BY DEF SaveFirst, BoundFirst, SaveLast, PrintAndBound, SaveAndPrint, PrintAndSave,
           BoundOnly, PrintOnly, SaveOnly

\* No two of them are the same.
LEMMA StatementsDiffer ==
    /\ SaveFirst \notin AfterSave \cup AfterBound
    /\ BoundFirst \notin AfterSave \cup AfterBound
    /\ SaveLast \notin AfterSave \cup AfterBound
    /\ PrintAndBound \notin AfterBound /\ BoundOnly \notin AfterBound
    /\ SaveAndPrint \notin AfterSave /\ PrintAndSave \notin AfterSave
    /\ SaveOnly \notin AfterSave
    /\ SaveOnly \notin {SaveFirst, BoundFirst, SaveLast, SaveAndPrint, PrintAndSave}
    /\ <<>> \notin StillToDo
    BY DEF SaveFirst, BoundFirst, SaveLast, PrintAndBound, SaveAndPrint, PrintAndSave,
           BoundOnly, PrintOnly, SaveOnly, AfterSave, AfterBound, StillToDo

LEMMA ProcessInitInv == ProcessInit => ProcessInv
<1> SUFFICES ASSUME ProcessInit PROVE ProcessInv
    OBVIOUS
<1>1. ProcessTypeOK
    BY CostAssumption DEF ProcessInit, ProcessTypeOK
<1>2. Taking /\ WholeModel /\ BoundAnnounced /\ Printed
    BY DEF ProcessInit, Taking, WholeModel, BoundAnnounced, Printed
<1>3. BoundKept /\ StatusTrue
    BY DEF ProcessInit, BoundKept, StatusTrue
<1> QED
    BY <1>1, <1>2, <1>3 DEF ProcessInv

\* While the process runs, nothing is claimed of what it has printed.
LEMMA NotExited ==
    ASSUME stage' # "exited"
    PROVE  BoundKept' /\ StatusTrue'
    BY DEF BoundKept, StatusTrue

LEMMA StartSearchStep ==
    ASSUME ProcessInv, StartSearch
    PROVE  ProcessInv'
<1> USE DEF ProcessInv, StartSearch, output
<1>1. ProcessTypeOK' /\ Taking' /\ WholeModel' /\ BoundAnnounced' /\ Printed'
    BY DEF ProcessTypeOK, Taking, WholeModel, BoundAnnounced, Printed
<1> QED
    BY <1>1, NotExited

LEMMA FoundStep ==
    ASSUME ProcessInv, NEW m \in Models, Found(m)
    PROVE  ProcessInv'
<1> USE DEF ProcessInv, Found, output
<1>1. m # None /\ m \in feasible
    BY NoneAssumption
<1>2. todo' \in {SaveFirst, BoundFirst, SaveLast}
    OBVIOUS
<1>3. ProcessTypeOK' /\ Taking' /\ Printed'
    BY <1>1, <1>2 DEF ProcessTypeOK, Taking, Printed, StillToDo
<1>4. WholeModel'
    BY <1>2, StatementsDiffer DEF WholeModel
<1>5. BoundAnnounced'
  <2>1. cost[m] \in Nat /\ (model # None => cost[model] \in Nat)
    BY CostType DEF ProcessTypeOK
  <2> QED
    BY <1>1, <1>2, <2>1, StatementsDiffer
       DEF ProcessTypeOK, BoundAnnounced, IsSaved
<1> QED
    BY <1>3, <1>4, <1>5, NotExited

LEMMA ClearModelStep ==
    ASSUME ProcessInv, ClearModel
    PROVE  ProcessInv'
<1> USE DEF ProcessInv, ClearModel, output
<1>1. todo \in {SaveFirst, SaveAndPrint, SaveOnly} /\ found # None
    BY NextStatement DEF Taking, StillToDo, AfterSave, AfterBound
<1>2. ProcessTypeOK' /\ Taking' /\ WholeModel' /\ Printed'
    BY <1>1, VarAssumption DEF ProcessTypeOK, Taking, WholeModel, Printed
<1>3. BoundAnnounced'
    BY <1>1 DEF BoundAnnounced
<1> QED
    BY <1>2, <1>3, NotExited

LEMMA PushValueStep ==
    ASSUME ProcessInv, PushValue
    PROVE  ProcessInv'
<1> USE DEF ProcessInv, PushValue, output
<1>1. ProcessTypeOK' /\ Taking' /\ WholeModel' /\ BoundAnnounced' /\ Printed'
    BY VarAssumption
       DEF ProcessTypeOK, Taking, WholeModel, BoundAnnounced, Printed, AllPushed
<1> QED
    BY <1>1, NotExited

\* The model found is saved: it is printed and assigned, or the search goes on.
LEMMA SavedModelStep ==
    ASSUME ProcessInv, SavedModel
    PROVE  ProcessInv'
<1> USE DEF ProcessInv, SavedModel, StatementEnds, output, AllPushed
<1>1. \/ todo = SaveFirst /\ todo' = PrintAndBound /\ stage' = "take"
      \/ todo = SaveAndPrint /\ todo' = PrintOnly /\ stage' = "take"
      \/ todo = SaveOnly /\ todo' = <<>> /\ stage' = "search"
    BY NextStatement, StatementsDiffer DEF Taking, StillToDo, AfterSave, AfterBound
<1>2. found # None /\ found \in feasible /\ model = found /\ size = nVars
    BY DEF Taking, WholeModel, ProcessTypeOK
<1>3. ProcessTypeOK' /\ Taking' /\ WholeModel' /\ Printed'
    BY <1>1, <1>2
       DEF ProcessTypeOK, Taking, WholeModel, Printed, StillToDo, AfterSave, AfterBound
<1>4. BoundAnnounced'
  <2>1. /\ cost[found] <= ubCost
        /\ boundLine # None => cost[found] <= boundLine
        /\ todo \in AfterBound => ubCost = cost[found]
    BY DEF BoundAnnounced
  <2>2. todo # SaveFirst => todo \in AfterBound
    BY <1>1 DEF AfterBound
  <2>3. todo' \in AfterBound => todo # SaveFirst
    BY <1>1, StatementsDiffer DEF AfterBound
  <2>4. CASE stage' = "take"
    BY <1>2, <2>1, <2>2, <2>3, <2>4 DEF BoundAnnounced
  <2>5. CASE stage' = "search"
    <3>1. ubCost = cost[model]
      BY <1>1, <1>2, <2>1, <2>5 DEF AfterBound
    <3> QED
      BY <1>2, <2>1, <2>5, <3>1 DEF BoundAnnounced
  <2> QED
    BY <1>1, <2>4, <2>5
<1> QED
    BY <1>1, <1>3, <1>4, NotExited

LEMMA PrintBoundStep ==
    ASSUME ProcessInv, PrintBound
    PROVE  ProcessInv'
<1> USE DEF ProcessInv, PrintBound, StatementEnds
<1>1. \/ todo = PrintAndBound /\ todo' = BoundOnly /\ stage' = "take"
      \/ todo = PrintOnly /\ todo' = <<>> /\ stage' = "search"
      \/ todo = PrintAndSave /\ todo' = SaveOnly /\ stage' = "take"
    BY NextStatement, StatementsDiffer DEF Taking, StillToDo, AfterSave, AfterBound
<1>2. found # None /\ found \in feasible /\ cost[found] \in Nat
    BY CostType DEF Taking, ProcessTypeOK
<1>3. todo \in AfterSave => model = found
    BY DEF WholeModel
<1>4. ProcessTypeOK' /\ Taking' /\ Printed'
    BY <1>1, <1>2 DEF ProcessTypeOK, Taking, Printed, StillToDo, AfterSave, AfterBound
<1>5. WholeModel'
    BY <1>1, <1>3, StatementsDiffer DEF WholeModel, AfterSave
<1>6. BoundAnnounced'
  <2>1. cost[found] <= ubCost /\ (todo \in AfterBound => ubCost = cost[found])
    BY DEF BoundAnnounced
  <2>2. todo # PrintAndBound => todo \in AfterBound
    BY <1>1 DEF AfterBound
  <2>3. todo' # SaveOnly \/ stage' = "search" => model = found
    BY <1>1, <1>3, StatementsDiffer DEF AfterSave
  <2>4. todo' \in AfterBound => todo # PrintAndBound
    BY <1>1, StatementsDiffer DEF AfterBound
  <2>5. CASE stage' = "take"
    BY <1>2, <2>1, <2>2, <2>3, <2>4, <2>5 DEF BoundAnnounced
  <2>6. CASE stage' = "search"
    <3>1. model = found /\ ubCost = cost[found]
      BY <1>1, <1>3, <2>1, <2>6 DEF AfterSave, AfterBound
    <3> QED
      BY <1>2, <2>6, <3>1 DEF BoundAnnounced
  <2> QED
    BY <1>1, <2>5, <2>6
<1> QED
    BY <1>1, <1>4, <1>5, <1>6, NotExited

LEMMA UpdateBoundStep ==
    ASSUME ProcessInv, UpdateBound
    PROVE  ProcessInv'
<1> USE DEF ProcessInv, UpdateBound, StatementEnds, output
<1>1. \/ todo = BoundFirst /\ todo' = SaveAndPrint /\ stage' = "take"
      \/ todo = SaveLast /\ todo' = PrintAndSave /\ stage' = "take"
      \/ todo = BoundOnly /\ todo' = <<>> /\ stage' = "search"
    BY NextStatement, StatementsDiffer DEF Taking, StillToDo, AfterSave, AfterBound
<1>2. found # None /\ found \in feasible /\ cost[found] \in Nat
    BY CostType DEF Taking, ProcessTypeOK
<1>3. ProcessTypeOK' /\ Taking' /\ Printed'
    BY <1>1, <1>2 DEF ProcessTypeOK, Taking, Printed, StillToDo, AfterSave, AfterBound
<1>4. todo = BoundOnly => model = found
    BY DEF WholeModel, AfterSave
<1>5. WholeModel'
    BY <1>1, <1>4, StatementsDiffer DEF WholeModel
<1>6. BoundAnnounced'
  <2>1. boundLine # None =>
            /\ cost[found] <= boundLine
            /\ model # None /\ cost[model] <= boundLine
    BY <1>1, StatementsDiffer DEF BoundAnnounced, AfterBound
  <2> QED
    BY <1>1, <1>2, <1>4, <2>1 DEF BoundAnnounced
<1> QED
    BY <1>1, <1>3, <1>5, <1>6, NotExited

LEMMA PrintStatusStep ==
    ASSUME ProcessInv, PrintStatus
    PROVE  ProcessInv'
<1> USE DEF ProcessInv, PrintStatus
<1>1. PICK s \in {"_OPTIMUM_", "_UNSATISFIABLE_"} :
          /\ statusLines' = Append(statusLines, s)
          /\ s = "_OPTIMUM_" =>
                 model # None /\ \A m \in feasible : ubCost <= cost[m]
          /\ s = "_UNSATISFIABLE_" => feasible = {}
    OBVIOUS
<1>2. /\ statusLines' \in Seq(Statuses)
      /\ Len(statusLines') = 1 /\ statusLines'[1] = s
    BY <1>1, FirstStatus DEF Statuses, ProcessTypeOK, Printed
<1>3. Status(s)'
    BY <1>1 DEF Status, BoundAnnounced
<1>4. Printed'
    BY <1>2, <1>3 DEF Printed
<1>5. ProcessTypeOK'
    BY <1>2 DEF ProcessTypeOK
<1>6. Taking' /\ WholeModel' /\ BoundAnnounced'
    BY <1>1 DEF ProcessTypeOK, Taking, WholeModel, BoundAnnounced
<1> QED
    BY <1>4, <1>5, <1>6, NotExited

LEMMA PrintModelStep ==
    ASSUME ProcessInv, PrintModel
    PROVE  ProcessInv'
<1> USE DEF ProcessInv, PrintModel
<1>1. ProcessTypeOK' /\ Taking' /\ WholeModel' /\ BoundAnnounced'
    BY DEF ProcessTypeOK, Taking, WholeModel, BoundAnnounced
<1>2. Status(statusLines[1])'
    BY DEF Printed, Status
<1>3. Printed'
    BY <1>2 DEF Printed
<1> QED
    BY <1>1, <1>3, NotExited

\* The process that ends by itself has printed the status and the model.
LEMMA ExitStep ==
    ASSUME ProcessInv, Exit
    PROVE  ProcessInv'
<1> USE DEF ProcessInv, Exit, output
<1>1. ProcessTypeOK' /\ Taking' /\ WholeModel' /\ BoundAnnounced' /\ Printed'
    BY DEF ProcessTypeOK, Taking, WholeModel, BoundAnnounced, Printed
<1>2. BoundKept'
  <2>1. ASSUME boundLine # None
        PROVE  /\ modelLine = <<model, nVars>> /\ modelLine # None
               /\ cost[model] <= boundLine
    <3>1. model # None /\ model \in feasible /\ model \in Models
          /\ cost[model] <= boundLine
      BY <2>1 DEF BoundAnnounced, ProcessTypeOK
    <3> QED
      BY <3>1, NoneAssumption, VarAssumption DEF WholeModel, Printed
  <2> QED
    BY <2>1 DEF BoundKept
<1>3. StatusTrue'
  <2>1. statusLines # <<>> /\ DOMAIN statusLines = {1}
    BY OneStatus DEF ProcessTypeOK, Printed
  <2>2. TrueStatus(statusLines[1])
    <3>1. Status(statusLines[1])
      BY DEF Printed
    <3>2. model # None => /\ modelLine = <<model, nVars>>
                          /\ modelLine # None
      <4>1. model # None => model \in feasible /\ model \in Models
        BY DEF ProcessTypeOK
      <4> QED
        BY <4>1, NoneAssumption, VarAssumption DEF WholeModel, Printed
    <3>3. feasible = {} => modelLine = None
      BY DEF Printed
    <3> QED
      BY <3>1, <3>2, <3>3 DEF TrueStatus, Status
  <2> QED
    BY <2>1, <2>2 DEF StatusTrue, TrueStatus
<1> QED
    BY <1>1, <1>2, <1>3

(***************************************************************************)
(* The handler adds a status that is true of the saved model, and leaves    *)
(* true what was printed before: with an optimum the model is whole, and    *)
(* printed again; without a model there is none to print.                   *)
(***************************************************************************)
LEMMA SignalStep ==
    ASSUME ProcessInv, Signal
    PROVE  ProcessInv'
<1> USE DEF ProcessInv
<1>1. CASE stage = "parse"
  <2>1. ProcessTypeOK' /\ Taking' /\ WholeModel' /\ BoundAnnounced' /\ Printed'
    BY <1>1
       DEF Signal, output, ProcessTypeOK, Taking, WholeModel, BoundAnnounced, Printed
  <2> QED
    BY <1>1, <2>1, NotExited DEF Signal
<1>2. CASE stage # "parse"
  <2>1. PICK s \in Statuses :
            /\ s = IF HasModel THEN "_SATISFIABLE_" ELSE "_UNKNOWN_"
            /\ stage \in {"search", "take", "save", "printModel", "return"}
            /\ stage' = "exited" /\ interruptedAt' = stage
            /\ UNCHANGED <<feasible, found, todo, model, size, ubCost, boundLine>>
            /\ statusLines' = Append(statusLines, s)
            /\ modelLine' = IF HasModel THEN <<model, size>> ELSE modelLine
    BY <1>2 DEF Signal, ProcessTypeOK, Statuses
  <2>2. /\ HasModel => model \in feasible /\ model \in Models
        /\ ~HasModel => size = 0
    BY DEF HasModel, WholeModel, ProcessTypeOK
  <2>3. HasModel => modelLine' # None /\ modelLine'[1] = model /\ modelLine'[2] = size
    BY <2>1, <2>2, NoneAssumption DEF ProcessTypeOK
  <2>4. TrueStatus(s)'
    BY <2>1, <2>2, <2>3 DEF TrueStatus
  <2>5. ASSUME stage \in {"printModel", "return"}
        PROVE  statusLines' \in Seq(Statuses) /\ StatusTrue'
    <3>1. PICK f \in Statuses : f = statusLines[1]
      BY <2>5 DEF Printed, Status, Statuses
    <3>2. Status(f) /\ Len(statusLines) = 1
      BY <2>5, <3>1 DEF Printed
    <3>3. TrueStatus(f)'
      <4>1. CASE f = "_OPTIMUM_"
        <5>1. model # None /\ \A m \in feasible : cost[model] <= cost[m]
          BY <3>2, <4>1 DEF Status
        <5>2. HasModel /\ size = nVars
          BY <2>5, <5>1, VarAssumption DEF WholeModel, HasModel
        <5> QED
          BY <2>1, <2>3, <4>1, <5>1, <5>2 DEF TrueStatus
      <4>2. CASE f = "_UNSATISFIABLE_"
        <5>1. feasible = {} /\ ~HasModel /\ modelLine = None
          BY <2>2, <2>5, <3>2, <4>2 DEF Status, Printed
        <5> QED
          BY <2>1, <4>2, <5>1 DEF TrueStatus
      <4> QED
        BY <3>2, <4>1, <4>2 DEF Status
    <3>4. /\ statusLines' \in Seq(Statuses)
          /\ statusLines' # <<>> /\ DOMAIN statusLines' = {1, 2}
          /\ statusLines'[1] = f /\ statusLines'[2] = s
      BY <2>1, <3>1, <3>2, OneStatus DEF ProcessTypeOK
    <3>5. StatusTrue'
      BY <2>4, <3>3, <3>4 DEF StatusTrue, TrueStatus
    <3> QED
      BY <3>4, <3>5
  <2>6. ASSUME stage \in {"search", "take", "save"}
        PROVE  statusLines' \in Seq(Statuses) /\ StatusTrue'
    <3>1. /\ statusLines' \in Seq(Statuses)
          /\ Len(statusLines') = 1 /\ statusLines'[1] = s
      BY <2>1, <2>6, FirstStatus DEF ProcessTypeOK, Printed
    <3>2. statusLines' # <<>> /\ DOMAIN statusLines' = {1}
      BY <3>1, OneStatus
    <3>3. StatusTrue'
      BY <2>4, <3>1, <3>2 DEF StatusTrue, TrueStatus
    <3> QED
      BY <3>1, <3>3
  <2>7. BoundKept'
    <3>1. CASE stage = "take" /\ todo = SaveOnly
      BY <2>1, <3>1 DEF BoundKept, SaveOnly
    <3>2. CASE stage = "save" /\ size < nVars
      BY <2>1, <3>2 DEF BoundKept
    <3>3. CASE boundLine = None
      BY <2>1, <3>3 DEF BoundKept
    <3>4. CASE /\ ~(stage = "take" /\ todo = SaveOnly)
               /\ ~(stage = "save" /\ size < nVars)
               /\ boundLine # None
      <4>1. model # None /\ model \in Models /\ cost[model] <= boundLine
        BY <2>1, <3>4 DEF BoundAnnounced, ProcessTypeOK
      <4>2. size = nVars /\ HasModel
        BY <2>1, <3>4, <4>1, VarAssumption DEF WholeModel, ProcessTypeOK, HasModel
      <4> QED
        BY <2>1, <2>3, <4>1, <4>2 DEF BoundKept
    <3> QED
      BY <3>1, <3>2, <3>3, <3>4
  <2>8. ProcessTypeOK' /\ Taking' /\ WholeModel' /\ BoundAnnounced' /\ Printed'
    BY <2>1, <2>5, <2>6 DEF ProcessTypeOK, Taking, WholeModel, BoundAnnounced, Printed
  <2> QED
    BY <2>1, <2>5, <2>6, <2>7, <2>8
<1> QED
    BY <1>1, <1>2

\* Whichever two steps the signal arrives between, what is saved and what has been
\* printed are as the stage says.
THEOREM ProcessInvariance == ProcessSpec => []ProcessInv
<1>1. ProcessInv /\ [ProcessNext]_processVars => ProcessInv'
  <2> SUFFICES ASSUME ProcessInv, [ProcessNext]_processVars PROVE ProcessInv'
    OBVIOUS
  <2>1. ASSUME NEW m \in Models, Found(m) PROVE ProcessInv'
    BY <2>1, FoundStep
  <2>2. CASE StartSearch
    BY <2>2, StartSearchStep
  <2>3. CASE PushValue
    BY <2>3, PushValueStep
  <2>4. CASE PrintBound
    BY <2>4, PrintBoundStep
  <2>5. CASE UpdateBound
    BY <2>5, UpdateBoundStep
  <2>6. CASE PrintStatus
    BY <2>6, PrintStatusStep
  <2>7. CASE PrintModel
    BY <2>7, PrintModelStep
  <2>8. CASE Exit
    BY <2>8, ExitStep
  <2>9. CASE Signal
    BY <2>9, SignalStep
  <2>10. CASE ClearModel
    BY <2>10, ClearModelStep
  <2>11. CASE SavedModel
    BY <2>11, SavedModelStep
  <2>12. CASE UNCHANGED processVars
    BY <2>12
       DEF processVars, output, ProcessInv, ProcessTypeOK, Taking, WholeModel,
           BoundAnnounced, Printed, Status, BoundKept, StatusTrue, TrueStatus
  <2> QED
    BY <2>1, <2>2, <2>3, <2>4, <2>5, <2>6, <2>7, <2>8, <2>9, <2>10, <2>11, <2>12
       DEF ProcessNext
<1> QED
    BY ProcessInitInv, <1>1, PTL DEF ProcessSpec

(***************************************************************************)
(* The "o" line last printed is kept, in whichever of the three orders a    *)
(* search saves, prints and assigns: a process that ends prints a whole     *)
(* model that costs no more, unless the signal arrives within saveModel or  *)
(* between the "o" line of SaveLast and its saveModel.                      *)
(***************************************************************************)
THEOREM KeepsItsBound == ProcessSpec => []BoundKept
<1>1. ProcessInv => BoundKept
    BY DEF ProcessInv
<1> QED
    BY <1>1, ProcessInvariance, PTL

(***************************************************************************)
(* Every status line of a process that ends is true, also the second one    *)
(* that the signal handler adds.                                            *)
(***************************************************************************)
THEOREM SaysTheTruth == ProcessSpec => []StatusTrue
<1>1. ProcessInv => StatusTrue
    BY DEF ProcessInv
<1> QED
    BY <1>1, ProcessInvariance, PTL
=============================================================================
