------------------------------ MODULE SatOracle ------------------------------
(***************************************************************************)
(* What the searches take for granted of the SAT solver they call: clauses *)
(* are only ever added, and a query under assumptions returns a model, a   *)
(* clause over the negated assumptions that the formula implies (empty     *)
(* when the formula itself has no model), or, with a conflict budget,      *)
(* nothing.  A query never changes the formula.                            *)
(***************************************************************************)
EXTENDS Integers, FiniteSets

VARIABLES
    nVars,      \* how many variables newVar has created
    formula,    \* the set of clauses added so far, each a set of literals
    query,      \* the query being answered, or NoQuery
    answer      \* what the last query returned

vars == <<nVars, formula, query, answer>>

\* A literal is a variable or minus a variable.
Literals(n) == (-n .. n) \ {0}

NoQuery == [assumptions |-> {}, budget |-> FALSE, asked |-> FALSE]

NoAnswer == [status |-> "none", model |-> {}, conflict |-> {}]

\* An assignment is the set of the literals it makes true.
Assignments(n) ==
    {{IF f[v] THEN v ELSE -v : v \in 1..n} : f \in [1..n -> BOOLEAN]}

ModelsOf(n, F) == {A \in Assignments(n) : \A c \in F : c \cap A # {}}

Implied(n, F, c) == \A A \in ModelsOf(n, F) : c \cap A # {}

Init ==
    /\ nVars = 0
    /\ formula = {}
    /\ query = NoQuery
    /\ answer = NoAnswer

NewVar ==
    /\ query = NoQuery
    /\ nVars' = nVars + 1
    /\ UNCHANGED <<formula, query, answer>>

AddClause ==
    /\ query = NoQuery
    /\ \E c \in formula' :
           c \subseteq Literals(nVars) /\ formula' = formula \cup {c}
    /\ UNCHANGED <<nVars, query, answer>>

Ask ==
    /\ query = NoQuery
    /\ query'.asked
    /\ query'.assumptions \subseteq Literals(nVars)
    /\ UNCHANGED <<nVars, formula, answer>>

Return(status, M, K) ==
    /\ query # NoQuery
    /\ query' = NoQuery
    /\ answer' = [status |-> status, model |-> M, conflict |-> K]
    /\ UNCHANGED <<nVars, formula>>

AnswerModel ==
    /\ Return("l_True", answer'.model, {})
    /\ query.assumptions \subseteq answer'.model
    /\ answer'.model \in ModelsOf(nVars, formula)

AnswerCore ==
    /\ Return("l_False", {}, answer'.conflict)
    /\ answer'.conflict \subseteq {-l : l \in query.assumptions}
    /\ Implied(nVars, formula, answer'.conflict)

AnswerUnknown == query.budget /\ Return("l_Undef", {}, {})

Next == NewVar \/ AddClause \/ Ask \/ AnswerModel \/ AnswerCore \/ AnswerUnknown

Spec == Init /\ [][Next]_vars
==============================================================================
