-------------------------- MODULE MC_Partitioning --------------------------
(***************************************************************************)
(* Formulas over three variables: hard clauses that assign variables, or    *)
(* that have no model, soft clauses that are resolved, clauses that resolve *)
(* with each other and clauses without a variable in common, soft clauses   *)
(* before and after the hard ones.  Two more with larger graphs, and files  *)
(* of the other formats: without weights, without a top weight, with a      *)
(* weight above it, with labels, with an objective and with or without hard *)
(* clauses.  Of INT64_MAX there are a file with a weight that is it, files  *)
(* with one that is larger or zero, and files with such a top weight only.  *)
(***************************************************************************)
EXTENDS Partitioning

Line(label, weight, lits) == [label |-> label, weight |-> weight, lits |-> lits]

Lines(weight, clauses) == [i \in DOMAIN clauses |-> Line(-1, weight, clauses[i])]

File(format, top, lines) ==
    [format |-> format, top |-> top, lines |-> lines, objective |-> <<>>]

MCHard == {<<>>, <<<<1, 2>>>>, <<<<-1>>, <<1, 2, 3>>>>, <<<<1>>, <<-1, 2>>, <<-2, 3>>>>,
           <<<<1>>, <<-1>>>>}

MCSoft == {<<<<-1>>, <<-2>>>>, <<<<-1, 3>>, <<2>>>>, <<<<-2, -3>>, <<-1, -2>>>>,
           <<<<1, 2, -3>>, <<3>>>>}

Small(h, s) ==
    File("wcnf", 4, <<Line(-1, 1, s[1])>> \o Lines(4, h) \o <<Line(-1, 2, s[2])>>)

Large ==
    {File("wcnf", 3, Lines(3, <<<<1, 2>>, <<2, 3>>, <<4, 5>>>>)
                     \o Lines(1, <<<<-1, -3>>, <<3, -4>>>>)),
     File("wcnf", 2, Lines(2, <<<<1, 2, 3>>, <<-1, 2>>, <<-3, -4>>, <<5, 4>>>>)
                     \o Lines(1, <<<<-2, 5>>>>))}

OtherFormats ==
    {File("cnf", UINT64_MAX, Lines(1, <<<<1, 2>>, <<-1>>, <<-2>>>>)),
     File("wcnf", UINT64_MAX, Lines(2, <<<<1>>, <<-1, 2>>>>) \o Lines(1, <<<<-2>>>>)),
     File("wcnf", 3, Lines(5, <<<<1, 2>>>>) \o Lines(2, <<<<-1>>, <<-2>>>>)),
     File("pwcnf", 4, <<Line(2, 4, <<1, 2>>), Line(3, 1, <<-1>>), Line(1, 2, <<-2>>)>>)}
    \cup {[format |-> "opb", top |-> UINT64_MAX, lines |-> Lines(1, hard),
           objective |-> <<<<-2, 1>>, <<3, 2>>, <<-1, 1>>>>] :
              hard \in {<<>>, <<<<1, 2>>>>, <<<<1, 2>>, <<-2>>>>}}

INT64_MAX == UINT64_MAX \div 2

AroundInt64 ==
    {File("wcnf", top, Lines(weight, <<<<1, 2>>>>) \o Lines(1, <<<<-1>>>>)) :
        top \in {INT64_MAX, UINT64_MAX}, weight \in {0, INT64_MAX, INT64_MAX + 1}}
    \cup {File("wcnf", top, Lines(1, <<<<1, 2>>, <<-1>>>>)) :
              top \in {0, INT64_MAX + 1}}

MCFiles == {Small(h, s) : h \in MCHard, s \in MCSoft} \cup Large
           \cup OtherFormats \cup AroundInt64
=============================================================================
