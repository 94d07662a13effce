------------------------------ MODULE MC_Glucose ------------------------------
(***************************************************************************)
(* Calls that make the solver meet conflicts on several levels, learn       *)
(* clauses it may remove again, and answer under assumptions in between.    *)
(***************************************************************************)
EXTENDS Glucose

NewVars(n) == [i \in 1..n |-> [op |-> "newVar"]]
Add(cs) == [i \in DOMAIN cs |-> [op |-> "addClause", lits |-> cs[i]]]
Solve(lits, budget) == <<[op |-> "solve", lits |-> lits, budget |-> budget]>>

MCScripts == {
    \* A learnt clause of three levels; then a unit that satisfies clauses.
    NewVars(4) \o Add(<<<<-1, -2, -3, 4>>, <<-1, -2, -3, -4>>, <<2, 1>>>>)
        \o Solve(<<3>>, TRUE) \o Solve(<<1, 2, 3>>, FALSE) \o Add(<<<<-1>>>>)
        \o Solve(<<-2>>, FALSE),
    \* Binary implications; an assumption made twice, and one against another.
    NewVars(3) \o Add(<<<<-1, 2>>, <<2, -1, 2>>, <<3, -3>>, <<-2, 3>>, <<-3, -1, 2>>>>)
        \o Solve(<<1, 1, 3>>, TRUE) \o Solve(<<1, 2, -3>>, FALSE)
        \o NewVars(1) \o Add(<<<<1, 4>>, <<1, -4>>>>)
        \o Solve(<<2, -2>>, FALSE) \o Add(<<<<-2, -3>>, <<1>>>>) \o Solve(<<>>, FALSE),
    \* A conflict without a decision, after which the solver is not ok.
    NewVars(3) \o Add(<<<<1, 2, 3>>, <<1, -2>>, <<-1, 2>>, <<-1, -2>>, <<-3, 2, 1>>>>)
        \o Solve(<<3>>, FALSE) \o Solve(<<>>, FALSE) \o Add(<<<<2, 3>>>>),
    \* Two long learnt clauses, one of which may go; then all its literals are
    \* on one level.
    NewVars(5) \o Add(<<<<-1, -2, -3, -4, 5>>, <<-1, -2, -3, -4, -5>>,
                        <<1, 2, 3, 4>>, <<1, 2, 3, -4>>>>)
        \o Solve(<<-1, -2, -3>>, FALSE) \o Solve(<<1, 2, 3, 4>>, TRUE)
        \o Add(<<<<-1, 2>>, <<-1, 3>>, <<-1, 4>>>>) \o Solve(<<1, 5>>, FALSE)
        \o Solve(<<2, 3, 4>>, FALSE) \o Add(<<<<-2>>, <<1>>>>),
    \* Two literals of one level in what is learnt, neither implying the other.
    NewVars(5) \o Add(<<<<-1, 2>>, <<-1, 3>>, <<-4, -2, -3, 5>>, <<-4, -2, -3, -5>>>>)
        \o Solve(<<1, 4>>, FALSE) \o Solve(<<4>>, FALSE),
    \* The first implies the second.
    NewVars(5) \o Add(<<<<-1, 2>>, <<-2, 3>>, <<-4, -2, -3, 5>>, <<-4, -2, -3, -5>>>>)
        \o Solve(<<1, 4>>, FALSE) \o Solve(<<4, 2>>, FALSE),
    \* A conflict with a watcher left to visit.
    NewVars(5) \o Add(<<<<-1, 2, 3>>, <<-1, 2, -3>>, <<-1, 4, 5>>>>)
        \o Solve(<<-2, 1>>, FALSE) \o Solve(<<1, -5>>, FALSE)
    }
MCAdaptAfter == {0, 1, 3}
===============================================================================
