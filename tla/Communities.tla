----------------------------- MODULE Communities -----------------------------
(***************************************************************************)
(* Graph_Communities::findCommunities (graph/Graph_Communities.cc): the     *)
(* unfolding method.  iterate() moves the vertices of the working graph, in *)
(* a random order, to the neighbouring community where the modularity gains *)
(* most, and goes over them again as long as it improves;                   *)
(* nextIterationGraph() makes every community one vertex of the next        *)
(* working graph.                                                           *)
(*                                                                         *)
(* A graph is the matrix of its weights, 0 where there is no edge; the      *)
(* order in which edges are stored is left out, and with it how ties        *)
(* between neighbouring communities are decided.  Weights are integers,     *)
(* the modularity is multiplied by the square of the total weight, and so   *)
(* both are exact where the code computes in double.                        *)
(***************************************************************************)
EXTENDS Integers, FiniteSets, SequencesExt, FiniteSetsExt

VARIABLES
    original,           \* the graph given to findCommunities
    g,                  \* the working graph
    vertexCommunity,    \* of the original vertices
    vertexToComm, inside, total,    \* communities of the working graph
    nCommunities,
    level,
    random_order, next, better, cur_mod,    \* iterate()
    phase               \* "idle", "iterate", "moving", "found"

communityVars == <<original, g, vertexCommunity, vertexToComm, inside, total,
                   nCommunities, level, random_order, next, better, cur_mod, phase>>

\* A Graph, from its matrix: _edges and _weights, _totalWeights, _totalWeight.
GraphOf(matrix) ==
    LET degree == [u \in DOMAIN matrix |-> SumFunction(matrix[u])]
    IN  [weights |-> matrix, weightedDegree |-> degree,
         totalWeight |-> SumFunction(degree)]

Vertexes(h) == DOMAIN h.weights

\* The builders add every edge from both its vertices, with the same weight.
Undirected(h) ==
    LET V == 0..(Cardinality(Vertexes(h)) - 1)
    IN  /\ IsFiniteSet(Vertexes(h))
        /\ h.weights \in [V -> [V -> Nat]]
        /\ \A u, v \in V : h.weights[u][v] = h.weights[v][u]
        /\ h = GraphOf(h.weights)

\* 0.000001, of a modularity multiplied by totalWeight^2.
Precision == (g.totalWeight * g.totalWeight) \div 1000000

modularity ==
    SumFunction([c \in {d \in Vertexes(g) : total[d] > 0} |->
                    inside[c] * g.totalWeight - total[c] * total[c]])

None == [u \in {} |-> 0]

\* resetInternalData for the graph h.
ResetTo(h) ==
    /\ g' = h
    /\ vertexToComm' = [u \in Vertexes(g') |-> u]
    /\ inside' = [u \in Vertexes(g') |-> g'.weights[u][u]]
    /\ total' = g'.weightedDegree

CommunityInit ==
    /\ original = GraphOf(None) /\ g = GraphOf(None)
    /\ vertexCommunity = None
    /\ vertexToComm = None /\ inside = None /\ total = None
    /\ nCommunities = 0
    /\ level = 0
    /\ random_order = None /\ next = 0
    /\ better = FALSE
    /\ cur_mod = 0
    /\ phase = "idle"

\* Another process begins.
CommunityRestart ==
    /\ original' = GraphOf(None) /\ g' = GraphOf(None)
    /\ vertexCommunity' = None
    /\ vertexToComm' = None /\ inside' = None /\ total' = None
    /\ nCommunities' = 0
    /\ level' = 0
    /\ random_order' = None /\ next' = 0
    /\ better' = FALSE
    /\ cur_mod' = 0
    /\ phase' = "idle"

\* findCommunities(h), up to its loop.
FindCommunities(h) ==
    /\ phase = "idle"
    /\ original' = h
    /\ vertexCommunity' = [u \in Vertexes(h) |-> u]
    /\ ResetTo(h)
    /\ level' = 0
    /\ phase' = "iterate"
    /\ UNCHANGED <<nCommunities, random_order, next, better, cur_mod>>

\* iterate(), up to its loop.
Iterate ==
    /\ phase = "iterate"
    /\ random_order' \in Bijection(Vertexes(g), Vertexes(g))
    /\ next' = 0
    /\ better' = FALSE
    /\ cur_mod' = modularity
    /\ phase' = "moving"
    /\ UNCHANGED <<original, g, vertexCommunity, vertexToComm, inside, total,
                   nCommunities, level>>
-----------------------------------------------------------------------------
adjComm(u) ==
    {vertexToComm[u]} \cup
    {vertexToComm[v] : v \in {w \in Vertexes(g) : w # u /\ g.weights[u][w] > 0}}

adjWeight(u, c) ==
    SumFunction([v \in {w \in Vertexes(g) : w # u /\ vertexToComm[w] = c} |-> g.weights[u][v]])

\* Mutant: both directions of an edge are counted in the degree of a vertex.
variationBothWays(u, c) ==
    LET members == total[c] - (IF c = vertexToComm[u] THEN g.weightedDegree[u]
                               ELSE 0)
    IN  adjWeight(u, c) * g.totalWeight - 2 * members * g.weightedDegree[u]

\* What the modularity gains when u, removed from its community, enters c.
variation(u, c) ==
    LET members == total[c] - (IF c = vertexToComm[u] THEN g.weightedDegree[u]
                               ELSE 0)
    IN  adjWeight(u, c) * g.totalWeight - members * g.weightedDegree[u]

\* The community u stays in, or one of those where it gains most.
BestComms(u) ==
    LET comm == vertexToComm[u]
        top  == Max({variation(u, c) : c \in adjComm(u)})
    IN  IF top <= 0 \/ variation(u, comm) = top THEN {comm}
        ELSE {c \in adjComm(u) : variation(u, c) = top}

\* Mutant: an edge inside a community is counted in one direction only.
InsideOnce(u, c) == adjWeight(u, c) + g.weights[u][u]

\* What a community has inside because u is in it.
Inside(u, c) == 2 * adjWeight(u, c) + g.weights[u][u]

\* remove() and insert().
Move ==
    /\ phase = "moving" /\ next \in Vertexes(g)
    /\ LET u      == random_order[next]
           comm   == vertexToComm[u]
           degree == g.weightedDegree[u]
       IN  \E best_comm \in BestComms(u) :
              /\ total' = [[total EXCEPT ![comm] = @ - degree]
                               EXCEPT ![best_comm] = @ + degree]
              /\ inside' = [[inside EXCEPT ![comm] = @ - Inside(u, comm)]
                               EXCEPT ![best_comm] = @ + Inside(u, best_comm)]
              /\ vertexToComm' = [vertexToComm EXCEPT ![u] = best_comm]
              /\ better' = (better \/ best_comm # comm)
    /\ next' = next + 1
    /\ UNCHANGED <<original, g, vertexCommunity, nCommunities, level,
                   random_order, cur_mod, phase>>

\* Mutant: a round that changes nothing is repeated.
ImprovedOrEqual(new_mod) == new_mod - cur_mod >= Precision

Improved(new_mod) == new_mod - cur_mod > Precision

SweepAgain ==
    /\ phase = "moving" /\ next \notin Vertexes(g)
    /\ Improved(modularity)
    /\ cur_mod' = modularity
    /\ next' = 0
    /\ UNCHANGED <<original, g, vertexCommunity, vertexToComm, inside, total,
                   nCommunities, level, random_order, better, phase>>

Used == {vertexToComm[u] : u \in Vertexes(g)}

\* The place of a community among those that have a vertex.
renumber(c) == Cardinality({d \in Used : d < c})

\* nextIterationGraph()
NextGraph ==
    LET members(c) == {u \in Vertexes(g) : renumber(vertexToComm[u]) = c}
        new        == 0..(Cardinality(Used) - 1)
    IN  GraphOf([c \in new |-> [d \in new |->
            SumFunction([u \in members(c) |->
                SumFunctionOnSet(g.weights[u], members(d))])]])

\* There are two levels at least.
Improvement == better \/ level = 0

\* iterate() returns; the communities become vertices.
NextLevel ==
    /\ phase = "moving" /\ next \notin Vertexes(g)
    /\ ~Improved(modularity)
    /\ nCommunities' = Cardinality(Used)
    /\ vertexCommunity' = [u \in Vertexes(original) |->
                              renumber(vertexToComm[vertexCommunity[u]])]
    /\ \E h \in {NextGraph} : ResetTo(h)
    /\ level' = level + 1
    /\ phase' = IF Improvement THEN "iterate" ELSE "found"
    /\ UNCHANGED <<original, random_order, next, better, cur_mod>>

CommunitySteps == Iterate \/ Move \/ SweepAgain \/ NextLevel

(***************************************************************************)
(* What Partitioning makes the module do: it looks for the communities of   *)
(* one undirected graph per process.                                        *)
(***************************************************************************)
CommunityNext ==
    \/ Undirected(original') /\ FindCommunities(original')
    \/ CommunitySteps
    \/ CommunityRestart

CommunitySpec == CommunityInit /\ [][CommunityNext]_communityVars
-----------------------------------------------------------------------------
\* The community of an original vertex at this moment.
CurrentCommunity(u) == vertexToComm[vertexCommunity[u]]

Members(c) == {u \in Vertexes(original) : CurrentCommunity(u) = c}

\* What the edges from one set of original vertices to another weigh, and what
\* they would weigh by chance, both multiplied by the total weight.
Weighs(S, T) ==
    original.totalWeight
    * SumFunction([u \in S |-> SumFunctionOnSet(original.weights[u], T)])

Expected(S, T) ==
    SumFunctionOnSet(original.weightedDegree, S)
    * SumFunctionOnSet(original.weightedDegree, T)

(***************************************************************************)
(* The modularity that iterate() computes from inside and total, kept up to *)
(* date move by move and made anew at every level, is that of the division  *)
(* of the original graph: what the edges inside communities weigh, less     *)
(* what they would weigh by chance.  The graph is undirected.               *)
(***************************************************************************)
ModularityExact ==
    phase # "idle" =>
        /\ Undirected(original)
        /\ modularity = SumFunction([c \in Used |->
                         Weighs(Members(c), Members(c)) - Expected(Members(c), Members(c))])

(***************************************************************************)
(* In the end no two communities are better off as one: the loops stop only *)
(* when a level has moved nothing.                                          *)
(***************************************************************************)
MergingGainsNothing ==
    phase = "found" =>
        \A c, d \in 0..(nCommunities - 1) :
            c < d => Weighs(Members(c), Members(d)) <= Expected(Members(c), Members(d))
=============================================================================
