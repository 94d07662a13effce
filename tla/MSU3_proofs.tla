----------------------------- MODULE MSU3_proofs -----------------------------
(***************************************************************************)
(* The safety properties of MSU3 and of the enumeration it ends with, for   *)
(* every finite set of soft clauses and every family of problems.           *)
(*                                                                         *)
(* That the enumeration finds every optimal solution rests on the           *)
(* assumptions and the totalizer that the search leaves behind: a solution  *)
(* passes them exactly when it is optimal (QueryOptimal).  This follows     *)
(* from the lower bound, from the encoding being in step with it, and from  *)
(* the optimum having been reached.  IInv is the conjunction of these.      *)
(***************************************************************************)
EXTENDS MSU3, SetSums

TypeOK ==
    /\ solutions \in SUBSET ((SUBSET Soft) \X Nat)
    /\ allOpt \in BOOLEAN /\ allVars \in BOOLEAN
    /\ activeSoft \in SUBSET Soft
    /\ assumptions \in SUBSET Soft
    /\ hasEncoding \in BOOLEAN
    /\ nbSatisfiable \in Nat
    /\ lbCost \in Nat
    /\ ubCost \in Nat
    /\ answer \in {Running, "_OPTIMUM_", "_UNSATISFIABLE_"}
    /\ pc \in {"search", "enumerate", "returned"}

(***************************************************************************)
(* Where the process is: searching as long as it has not answered, and      *)
(* enumerating only after an optimum.                                       *)
(***************************************************************************)
Phases ==
    /\ pc = "search" <=> answer = Running
    /\ pc = "search" => blocked = {}
    /\ pc = "enumerate" => allOpt /\ answer = "_OPTIMUM_"
    /\ answer = "_OPTIMUM_" => nbSatisfiable > 0

(***************************************************************************)
(* Every solution falsifies at least lbCost of the relaxed soft clauses.    *)
(***************************************************************************)
LowerBound ==
    answer # "_UNSATISFIABLE_" =>
        \A m \in solutions : lbCost <= Cardinality(m[1] \cap activeSoft)

(***************************************************************************)
(* After the first model a soft clause is assumed or relaxed, and the       *)
(* totalizer counts the relaxed ones with right-hand side lbCost; there is  *)
(* none as long as all of them are in the bound.                            *)
(***************************************************************************)
EncodingInStep ==
    answer # "_UNSATISFIABLE_" =>
        /\ nbSatisfiable = 0 => assumptions = {} /\ activeSoft = {} /\ ~hasEncoding
        /\ nbSatisfiable > 0 => assumptions = Soft \ activeSoft
        /\ hasEncoding => encoded = activeSoft /\ rhs = lbCost
        /\ ~hasEncoding => lbCost = Cardinality(activeSoft)

(***************************************************************************)
(* The saved model is a solution and ubCost is its cost.                    *)
(***************************************************************************)
ModelSaved ==
    /\ nbSatisfiable = 0 => ubCost = Cardinality(Soft)
    /\ nbSatisfiable > 0 => model \in solutions /\ ubCost = Cost(model)

(***************************************************************************)
(* What the enumeration has found is optimal, and nothing but what it has   *)
(* found is blocked, as all of it will be before the next query.            *)
(***************************************************************************)
FoundAndBlocked ==
    answer = "_OPTIMUM_" =>
        /\ ubCost <= lbCost
        /\ lastModel \in found
        /\ found \subseteq Optima
        /\ IsFiniteSet(found) /\ found \subseteq blocked \cup Block(lastModel)
        /\ \A s \in blocked : \E m \in found : s \in Block(m)

IInv ==
    /\ TypeOK
    /\ Phases
    /\ LowerBound
    /\ EncodingInStep
    /\ ModelSaved
    /\ FoundAndBlocked
    /\ AnswerCorrect
    /\ AllOptimaFound
    /\ SolutionsCounted
-----------------------------------------------------------------------------
\* What a solution falsifies is a set of soft clauses, whose parts can be counted.
LEMMA SolutionSets ==
    ASSUME TypeOK, NEW m \in solutions, NEW A \in SUBSET Soft
    PROVE  /\ m[1] \in SUBSET Soft
           /\ IsFiniteSet(m[1]) /\ IsFiniteSet(A)
           /\ Cardinality(A) \in Nat
           /\ Cardinality(m[1]) \in Nat
           /\ Cardinality(m[1]) <= Cardinality(Soft)
           /\ Cardinality(m[1] \cap A) \in Nat
           /\ Cardinality(m[1] \cap A) <= Cardinality(m[1])
           /\ Cardinality(m[1] \cap A) <= Cardinality(A)
           /\ Cardinality(m[1]) <= Cardinality(m[1] \cap A) => m[1] \subseteq A
<1>1. m[1] \in SUBSET Soft
    BY DEF TypeOK
<1>2. IsFiniteSet(Soft) /\ IsFiniteSet(m[1]) /\ IsFiniteSet(A)
    BY <1>1, SoftAssumption, PartsOfFinite
<1>3. m[1] \cap A \in SUBSET m[1] /\ m[1] \cap A \in SUBSET A
    OBVIOUS
<1> QED
    BY <1>1, <1>2, <1>3, PartsOfFinite

(***************************************************************************)
(* Once a query has a solution, the solutions that pass the assumptions and *)
(* the totalizer are those that cost lbCost, and no solution costs less.    *)
(***************************************************************************)
LEMMA QueryOptimal ==
    ASSUME IInv, nbSatisfiable > 0, answer # "_UNSATISFIABLE_",
           NEW m \in solutions
    PROVE  /\ lbCost <= Cost(m)
           /\ m[1] \cap assumptions = {} /\ WithinBound(m) <=> Cost(m) <= lbCost
<1> USE DEF IInv
<1>1. activeSoft \in SUBSET Soft /\ lbCost \in Nat
    BY DEF TypeOK
<1>2. lbCost <= Cardinality(m[1] \cap activeSoft)
    BY DEF LowerBound
<1>3. lbCost <= Cost(m)
    BY <1>1, <1>2, SolutionSets DEF Cost
<1>4. m[1] \cap assumptions = {} <=> m[1] \subseteq activeSoft
    BY <1>1, SolutionSets DEF EncodingInStep
<1>5. ASSUME m[1] \subseteq activeSoft
      PROVE  WithinBound(m) <=> Cost(m) <= lbCost
  <2>1. m[1] \cap activeSoft = m[1]
    BY <1>5
  <2>2. CASE hasEncoding
    BY <2>1, <2>2 DEF EncodingInStep, WithinBound, Cost
  <2>3. CASE ~hasEncoding
    <3>1. Cost(m) <= lbCost
      BY <1>1, <2>1, <2>3, SolutionSets DEF EncodingInStep, Cost
    <3> QED
      BY <2>3, <3>1 DEF WithinBound
  <2> QED
    BY <2>2, <2>3 DEF TypeOK
<1>6. ASSUME Cost(m) <= lbCost
      PROVE  m[1] \subseteq activeSoft
    BY <1>1, <1>2, <1>6, SolutionSets DEF Cost
<1> QED
    BY <1>3, <1>4, <1>5, <1>6

\* A core raises the lower bound: the solutions that falsify no clause of it
\* were already beyond the bound.
LEMMA CoreRaisesBound ==
    ASSUME IInv, answer # "_UNSATISFIABLE_",
           NEW K \in SUBSET assumptions, nbSatisfiable > 0, IsCore(K),
           NEW m \in solutions
    PROVE  lbCost + 1 <= Cardinality(m[1] \cap (activeSoft \cup K))
<1> USE DEF IInv
<1>1. /\ activeSoft \in SUBSET Soft
      /\ K \in SUBSET Soft
      /\ activeSoft \cup K \in SUBSET Soft
      /\ activeSoft \cap K = {}
      /\ lbCost \in Nat
    BY DEF TypeOK, EncodingInStep
<1>2. /\ lbCost <= Cardinality(m[1] \cap activeSoft)
      /\ Cardinality(m[1] \cap activeSoft) \in Nat
      /\ Cardinality(m[1] \cap (activeSoft \cup K)) \in Nat
      /\ IsFiniteSet(activeSoft \cup K)
    BY <1>1, SolutionSets DEF LowerBound
<1>3. CASE m[1] \cap K # {}
  <2>1. Cardinality(m[1] \cap activeSoft) + 1
            <= Cardinality(m[1] \cap (activeSoft \cup K))
    BY <1>1, <1>2, <1>3, MeetsNewCore
  <2> QED
    BY <1>1, <1>2, <2>1
<1>4. CASE m[1] \cap K = {}
  <2>1. ~WithinBound(m)
    BY <1>4 DEF IsCore
  <2>2. lbCost + 1 <= Cardinality(m[1] \cap activeSoft)
    BY <1>1, <1>2, <2>1 DEF WithinBound, EncodingInStep
  <2>3. m[1] \cap (activeSoft \cup K) = m[1] \cap activeSoft
    BY <1>4
  <2> QED
    BY <2>2, <2>3
<1> QED
    BY <1>3, <1>4
-----------------------------------------------------------------------------
LEMMA InitIInv == Init => IInv
<1> SUFFICES ASSUME Init PROVE IInv
    OBVIOUS
<1>1. Cardinality({}) = 0 /\ Cardinality(Soft) \in Nat
    BY FS_EmptySet, SoftAssumption, PartsOfFinite
<1>2. TypeOK /\ Phases
    BY <1>1, ProblemAssumption DEF Init, TypeOK, Phases, Running
<1>3. LowerBound
  <2>1. ASSUME NEW m \in solutions
        PROVE  lbCost <= Cardinality(m[1] \cap activeSoft)
    BY <1>1 DEF Init
  <2> QED
    BY <2>1 DEF LowerBound
<1>4. EncodingInStep /\ ModelSaved
    BY <1>1 DEF Init, EncodingInStep, ModelSaved
<1>5. FoundAndBlocked /\ AnswerCorrect /\ AllOptimaFound /\ SolutionsCounted
    BY DEF Init, FoundAndBlocked, AnswerCorrect, AllOptimaFound, SolutionsCounted, Running
<1> QED
    BY <1>2, <1>3, <1>4, <1>5 DEF IInv

\* Saving a model of the problem saves its cost.
LEMMA SaveModelStep ==
    ASSUME IInv, NEW m \in solutions, SaveModel(m), UNCHANGED solutions
    PROVE  /\ model' \in solutions'
           /\ ubCost' \in Nat
           /\ ubCost' = Cost(model')
    BY SolutionSets DEF IInv, SaveModel, Cost

LEMMA FirstModelStep ==
    ASSUME IInv, NEW m \in solutions, FirstModel(m)
    PROVE  IInv'
<1> USE DEF IInv, FirstModel, problem, encoder, enumeration
<1>1. model' \in solutions' /\ ubCost' \in Nat /\ ubCost' = Cost(model')
    BY SaveModelStep
<1>2. answer = Running /\ pc = "search"
    BY DEF Phases
<1>3. TypeOK' /\ Phases'
    BY <1>1, <1>2 DEF TypeOK, Phases, Running
<1>4. LowerBound'
    BY DEF LowerBound
<1>5. EncodingInStep'
  <2>1. activeSoft = {} /\ ~hasEncoding /\ lbCost = Cardinality(activeSoft)
    BY <1>2 DEF EncodingInStep, Running
  <2> QED
    BY <2>1 DEF EncodingInStep
<1>6. ModelSaved'
    BY <1>1 DEF ModelSaved, Cost
<1>7. FoundAndBlocked' /\ AnswerCorrect' /\ AllOptimaFound' /\ SolutionsCounted'
    BY <1>2 DEF FoundAndBlocked, AnswerCorrect, AllOptimaFound, SolutionsCounted, Running
<1> QED
    BY <1>3, <1>4, <1>5, <1>6, <1>7

LEMMA OptimalModelStep ==
    ASSUME IInv, NEW m \in solutions, OptimalModel(m)
    PROVE  IInv'
<1> USE DEF IInv, OptimalModel, problem, encoder
<1>1. model' \in solutions' /\ ubCost' \in Nat /\ ubCost' = Cost(model')
    BY SaveModelStep
<1>2. answer = Running /\ blocked = {}
    BY DEF Phases
<1>3. TypeOK'
    BY <1>1 DEF TypeOK
<1>4. Phases'
    BY <1>2 DEF TypeOK, Phases, Running
<1>5. LowerBound' /\ EncodingInStep'
  <2>1. answer # "_UNSATISFIABLE_"
    BY <1>2 DEF Running
  <2> QED
    BY <2>1 DEF TypeOK, LowerBound, EncodingInStep
<1>6. ModelSaved'
    BY <1>1 DEF TypeOK, ModelSaved
<1>7. m \in Optima /\ Cost(m) <= lbCost
  <2>1. answer # "_UNSATISFIABLE_"
    BY <1>2 DEF Running
  <2>2. Cost(m) <= lbCost /\ \A s \in solutions : lbCost <= Cost(s)
    BY <2>1, QueryOptimal DEF SatisfiesQuery
  <2>3. /\ lbCost \in Nat
        /\ \A s \in solutions : Cost(s) \in Nat
    BY SolutionSets DEF TypeOK, Cost
  <2> QED
    BY <2>2, <2>3 DEF Optima
<1>8. Optima' = Optima
    BY DEF Optima
<1>9. FoundAndBlocked' /\ SolutionsCounted'
  <2>1. IsFiniteSet({m}) /\ Cardinality({m}) = 1
    BY FS_Singleton
  <2>2. m \in Block(m)' /\ lastModel' = m /\ found' = {m}
    BY DEF Block
  <2>3. SolutionsCounted'
    BY <1>2, <2>1 DEF SolutionsCounted, Phases
  <2> QED
    BY <1>2, <1>7, <1>8, <2>1, <2>2, <2>3 DEF FoundAndBlocked, SaveModel
<1>10. AnswerCorrect'
    BY <1>1, <1>7, <1>8 DEF AnswerCorrect, SaveModel
<1>11. AllOptimaFound'
    BY DEF AllOptimaFound
<1> QED
    BY <1>3, <1>4, <1>5, <1>6, <1>9, <1>10, <1>11

LEMMA UnsatisfiableStep ==
    ASSUME IInv, Unsatisfiable
    PROVE  IInv'
<1> USE DEF IInv, Unsatisfiable, problem, encoder, enumeration
<1>1. TypeOK' /\ Phases'
    BY DEF TypeOK, Phases, Running
<1>2. LowerBound' /\ EncodingInStep' /\ FoundAndBlocked' /\ AllOptimaFound' /\ SolutionsCounted'
    BY DEF LowerBound, EncodingInStep, FoundAndBlocked, AllOptimaFound, SolutionsCounted
<1>3. ModelSaved' /\ AnswerCorrect'
    BY DEF ModelSaved, AnswerCorrect, Cost
<1> QED
    BY <1>1, <1>2, <1>3

LEMMA CoreStep ==
    ASSUME IInv, NEW K \in SUBSET assumptions, Core(K)
    PROVE  IInv'
<1> USE DEF IInv, Core, problem, enumeration
<1>1. answer = Running /\ answer # "_UNSATISFIABLE_"
    BY DEF Phases, Running
<1>2. activeSoft' \in SUBSET Soft /\ Cardinality(activeSoft') \in Nat
  <2>1. activeSoft' \in SUBSET Soft
    BY DEF TypeOK
  <2> QED
    BY <2>1, SoftAssumption, PartsOfFinite
<1>3. TypeOK'
  <2>1. hasEncoding' \in BOOLEAN
    BY DEF TypeOK, UpdateEncoding, encoder
  <2>2. assumptions' \in SUBSET Soft /\ lbCost' \in Nat
    BY DEF TypeOK
  <2> QED
    BY <1>2, <2>1, <2>2 DEF TypeOK
<1>4. Phases' /\ ModelSaved'
    BY DEF Phases, ModelSaved, Cost
<1>5. LowerBound'
  <2>1. \A m \in solutions : lbCost' <= Cardinality(m[1] \cap activeSoft')
    BY <1>1, CoreRaisesBound
  <2> QED
    BY <2>1 DEF LowerBound
<1>6. EncodingInStep'
  <2>1. CASE ~hasEncoding /\ lbCost' # Cardinality(activeSoft')
    BY <1>1, <2>1 DEF EncodingInStep, UpdateEncoding
  <2>2. CASE ~hasEncoding /\ lbCost' = Cardinality(activeSoft')
    BY <1>1, <2>2 DEF EncodingInStep, UpdateEncoding, encoder
  <2>3. CASE hasEncoding
    BY <1>1, <2>3 DEF TypeOK, EncodingInStep, UpdateEncoding
  <2> QED
    BY <2>1, <2>2, <2>3
<1>7. FoundAndBlocked' /\ AnswerCorrect' /\ AllOptimaFound' /\ SolutionsCounted'
    BY <1>1 DEF FoundAndBlocked, AnswerCorrect, AllOptimaFound, SolutionsCounted, Running
<1> QED
    BY <1>3, <1>4, <1>5, <1>6, <1>7

\* While enumerating, a solution that is not blocked passes the query exactly
\* when it is optimal.
LEMMA EnumerationQuery ==
    ASSUME IInv, pc = "enumerate", NEW m \in solutions
    PROVE  m[1] \cap assumptions = {} /\ WithinBound(m) <=> m \in Optima
<1> USE DEF IInv
<1>1. /\ answer = "_OPTIMUM_" /\ nbSatisfiable > 0
      /\ lbCost \in Nat /\ ubCost \in Nat
    BY DEF Phases, TypeOK
<1>2. /\ model \in Optima /\ Cost(model) <= lbCost
      /\ model \in solutions /\ Cost(model) \in Nat
    BY <1>1 DEF FoundAndBlocked, AnswerCorrect, Optima
<1>3. \A s \in solutions : Cost(s) \in Nat /\ lbCost <= Cost(s)
    BY <1>1, QueryOptimal, SolutionSets DEF Cost
<1>4. m \in Optima <=> Cost(m) <= lbCost
    BY <1>1, <1>2, <1>3 DEF Optima
<1>5. m[1] \cap assumptions = {} /\ WithinBound(m) <=> Cost(m) <= lbCost
    BY <1>1, QueryOptimal
<1> QED
    BY <1>4, <1>5

\* What the next blocking clause excludes as well is known to be found.
LEMMA BlockedAreFound ==
    ASSUME IInv, pc = "enumerate", blocked' = blocked \cup Block(lastModel)
    PROVE  /\ blocked' \subseteq {s \in blocked' : \E m \in found : s \in Block(m)}
           /\ lastModel \in found
    BY DEF IInv, Phases, FoundAndBlocked

LEMMA NextSolutionStep ==
    ASSUME IInv, NEW m \in solutions, NextSolution(m)
    PROVE  IInv'
<1> USE DEF IInv, NextSolution, problem, encoder
<1>1. /\ answer = "_OPTIMUM_" /\ nbSatisfiable > 0
      /\ m[1] \cap assumptions = {} /\ WithinBound(m)
    BY DEF Phases, SatisfiesQuery
<1>2. m \in Optima
    BY <1>1, EnumerationQuery
<1>3. Optima' = Optima /\ \A s \in solutions : Block(s)' = Block(s)
    BY DEF Optima, Block
<1>4. FoundAndBlocked'
  <2>1. ubCost' <= lbCost' /\ lastModel' \in found'
    BY <1>1 DEF FoundAndBlocked
  <2>2. found' \subseteq Optima'
    BY <1>1, <1>2, <1>3 DEF FoundAndBlocked
  <2>3. ASSUME NEW s \in blocked'
        PROVE  \E k \in found' : s \in Block(k)'
    BY <1>3, BlockedAreFound DEF Block
  <2>4. found' \subseteq blocked' \cup Block(lastModel)'
    <3>1. found \subseteq blocked'
      BY <1>1 DEF FoundAndBlocked
    <3> QED
      BY <3>1 DEF Block
  <2>5. IsFiniteSet(found')
    BY <1>1, FS_AddElement DEF FoundAndBlocked
  <2> QED
    BY <2>1, <2>2, <2>3, <2>4, <2>5 DEF FoundAndBlocked
<1>5. TypeOK' /\ Phases' /\ ModelSaved'
    BY DEF TypeOK, Phases, ModelSaved, Cost, Running
<1>6. LowerBound' /\ EncodingInStep' /\ AllOptimaFound'
    BY DEF LowerBound, EncodingInStep, AllOptimaFound
<1>7. AnswerCorrect'
    BY <1>1, <1>3 DEF AnswerCorrect, Cost
<1>8. SolutionsCounted'
  <2>1. IsFiniteSet(found) /\ m \notin found
    BY <1>1 DEF FoundAndBlocked
  <2>2. Cardinality(found') = Cardinality(found) + 1 /\ Cardinality(found) \in Nat
    BY <2>1, FS_AddElement, FS_CardinalityType
  <2> QED
    BY <1>1, <2>2 DEF SolutionsCounted
<1> QED
    BY <1>4, <1>5, <1>6, <1>7, <1>8

LEMMA NoMoreSolutionsStep ==
    ASSUME IInv, NoMoreSolutions
    PROVE  IInv'
<1> USE DEF IInv, NoMoreSolutions, problem, encoder
<1>1. answer = "_OPTIMUM_" /\ nbSatisfiable > 0
    BY DEF Phases
<1>2. Optima' = Optima /\ \A s \in solutions : Block(s)' = Block(s)
    BY DEF Optima, Block
<1>3. TypeOK' /\ Phases' /\ ModelSaved'
    BY <1>1 DEF TypeOK, Phases, ModelSaved, Cost, Running
<1>4. LowerBound' /\ EncodingInStep'
    BY DEF LowerBound, EncodingInStep
<1>5. AnswerCorrect'
    BY <1>1, <1>2 DEF AnswerCorrect, Cost
<1>6. FoundAndBlocked'
  <2>1. ASSUME NEW s \in blocked'
        PROVE  \E k \in found' : s \in Block(k)'
    BY <1>2, BlockedAreFound DEF Block
  <2>2. IsFiniteSet(found') /\ found' \subseteq blocked'
    BY <1>1 DEF FoundAndBlocked
  <2> QED
    BY <1>1, <1>2, <2>1, <2>2 DEF FoundAndBlocked
<1>7. AllOptimaFound'
  <2>1. ASSUME NEW s \in Optima
        PROVE  \E m \in found : s \in Block(m)
    <3>1. s \in solutions
      BY DEF Optima
    <3>2. ~SatisfiesQuery(s) \/ s \in blocked'
      BY <3>1
    <3>3. s[1] \cap assumptions = {} /\ WithinBound(s)
      BY <2>1, <3>1, EnumerationQuery
    <3>4. s \in blocked'
      BY <3>1, <3>2, <3>3 DEF SatisfiesQuery
    <3> QED
      BY <3>4, BlockedAreFound
  <2>2. found \subseteq Optima
    BY <1>1 DEF FoundAndBlocked
  <2>3. allVars => found = Optima
    BY <2>1, <2>2 DEF Block
  <2>4. ~allVars => ProfilesOf(found) = ProfilesOf(Optima)
    BY <2>1, <2>2 DEF Block, ProfilesOf
  <2> QED
    BY <1>2, <2>3, <2>4 DEF AllOptimaFound
<1>8. SolutionsCounted'
  <2>1. Cardinality(found) \in Nat /\ allOpt
    BY <1>1, FS_CardinalityType DEF FoundAndBlocked, Phases
  <2> QED
    BY <1>1, <2>1 DEF SolutionsCounted
<1> QED
    BY <1>3, <1>4, <1>5, <1>6, <1>7, <1>8

\* Every step of the search and of the enumeration keeps the invariant.
THEOREM Invariance == Spec => []IInv
<1>1. IInv /\ [Next]_vars => IInv'
  <2> SUFFICES ASSUME IInv, [Next]_vars PROVE IInv'
    OBVIOUS
  <2>1. ASSUME NEW m \in solutions, FirstModel(m) PROVE IInv'
    BY <2>1, FirstModelStep
  <2>2. ASSUME NEW m \in solutions, OptimalModel(m) PROVE IInv'
    BY <2>2, OptimalModelStep
  <2>3. CASE Unsatisfiable
    BY <2>3, UnsatisfiableStep
  <2>4. ASSUME NEW K \in SUBSET assumptions, Core(K) PROVE IInv'
    BY <2>4, CoreStep
  <2>5. ASSUME NEW m \in solutions, NextSolution(m) PROVE IInv'
    BY <2>5, NextSolutionStep
  <2>6. CASE NoMoreSolutions
    BY <2>6, NoMoreSolutionsStep
  <2>7. CASE UNCHANGED vars
    BY <2>7 DEF vars, problem, encoder, enumeration, IInv, TypeOK, Phases,
                LowerBound, EncodingInStep, ModelSaved, FoundAndBlocked,
                AnswerCorrect, AllOptimaFound, SolutionsCounted, Optima, Cost, Block,
                ProfilesOf
  <2> QED
    BY <2>1, <2>2, <2>3, <2>4, <2>5, <2>6, <2>7 DEF Next
<1> QED
    BY InitIInv, <1>1, PTL DEF Spec

(***************************************************************************)
(* The optimum printed is one no solution beats, and "s UNSATISFIABLE" is   *)
(* printed only when there is none.                                         *)
(***************************************************************************)
THEOREM AnswersCorrectly == Spec => []AnswerCorrect
<1>1. IInv => AnswerCorrect
    BY DEF IInv
<1> QED
    BY <1>1, Invariance, PTL

(***************************************************************************)
(* enumerate_opt finds every optimal solution under -all-vars, and every    *)
(* optimal set of falsified soft clauses otherwise.  It finds none twice,   *)
(* and the count that a signal prints is the number found; the one printed  *)
(* at its end is one more.                                                  *)
(***************************************************************************)
THEOREM FindsAllOptima == Spec => []EachOptimumOnce
<1>1. IInv => EachOptimumOnce
    BY DEF IInv, EachOptimumOnce
<1> QED
    BY <1>1, Invariance, PTL
-----------------------------------------------------------------------------
(***************************************************************************)
(* MSU3 implements MaxSATSearch.                                            *)
(***************************************************************************)
LEMMA ProfilesAreSoft ==
    ASSUME TypeOK
    PROVE  /\ ProfilesOf(solutions) \in SUBSET SUBSET Soft
           /\ \A m \in solutions :
                 /\ m[1] \in ProfilesOf(solutions)
                 /\ [P \in SUBSET Soft |-> Cardinality(P)][m[1]] = Cost(m)
    BY DEF TypeOK, ProfilesOf, Cost

LEMMA InitImplements == Init => Promise!Init
<1> SUFFICES ASSUME Init PROVE Promise!Init
    OBVIOUS
<1>1. TypeOK
    BY InitIInv DEF IInv
<1> QED
    BY <1>1, ProfilesAreSoft DEF Init, Promise!Init, Running, Promise!Running

\* A model that is saved costs no more than the last; the second is optimal.
LEMMA ModelImplements ==
    ASSUME IInv, IInv', NEW m \in solutions, FirstModel(m) \/ OptimalModel(m)
    PROVE  Promise!Next
<1> USE DEF IInv
<1>1. /\ answer = Promise!Running
      /\ UNCHANGED <<solutions, lbCost>>
      /\ nbSatisfiable' # 0
      /\ model' = m /\ ubCost' = Cost(m)
    BY DEF FirstModel, OptimalModel, SaveModel, problem, Phases, TypeOK,
           Running, Promise!Running
<1>2. ProfilesOf(solutions)' = ProfilesOf(solutions)
    BY <1>1 DEF ProfilesOf
<1>3. Cost(m) <= ubCost
  <2>1. CASE nbSatisfiable = 0
    <3>1. m[1] \in SUBSET Soft
      BY DEF TypeOK
    <3>2. Cardinality(m[1]) <= Cardinality(Soft)
      BY <3>1, SoftAssumption, PartsOfFinite
    <3> QED
      BY <2>1, <3>2 DEF ModelSaved, Cost
  <2>2. CASE nbSatisfiable # 0
    <3>1. m \in Optima /\ model \in solutions /\ ubCost = Cost(model)
      BY <2>2, <1>1 DEF FirstModel, OptimalModel, problem, AnswerCorrect, Optima, Cost, ModelSaved, TypeOK
    <3> QED
      BY <3>1 DEF Optima
  <2> QED
    BY <2>1, <2>2
<1>4. Promise!SaveBetterModel(m[1])
    BY <1>1, <1>3, ProfilesAreSoft DEF Promise!SaveBetterModel
<1>5. CASE FirstModel(m)
    BY <1>1, <1>2, <1>4, <1>5, ProfilesAreSoft
       DEF FirstModel, Promise!FindModel, Promise!Next
<1>6. CASE OptimalModel(m)
  <2>1. m \in Optima
    BY <1>1, <1>6 DEF OptimalModel, AnswerCorrect, Optima, Cost
  <2>2. Promise!Optimal(m[1])'
    <3>1. ASSUME NEW Q \in ProfilesOf(solutions)
          PROVE  [P \in SUBSET Soft |-> Cardinality(P)][m[1]]
                     <= [P \in SUBSET Soft |-> Cardinality(P)][Q]
      BY <2>1, ProfilesAreSoft DEF ProfilesOf, Optima
    <3> QED
      BY <1>2, <3>1, ProfilesAreSoft DEF Promise!Optimal
  <2> QED
    BY <1>1, <1>2, <1>4, <1>6, <2>2, ProfilesAreSoft
       DEF OptimalModel, Promise!Optimal, Promise!AnswerOptimum, Promise!Next
<1> QED
    BY <1>5, <1>6

LEMMA CoreImplements ==
    ASSUME IInv, IInv', NEW K \in SUBSET assumptions, Core(K)
    PROVE  Promise!RaiseLowerBound
<1> USE DEF IInv, Core, problem
<1>1. /\ lbCost \in Nat /\ lbCost' = lbCost + 1
      /\ answer = Promise!Running /\ answer # "_UNSATISFIABLE_"
      /\ UNCHANGED <<solutions, nbSatisfiable, ubCost, model, answer>>
    BY DEF TypeOK, Phases, Running, Promise!Running
<1>2. ProfilesOf(solutions)' = ProfilesOf(solutions)
    BY <1>1 DEF ProfilesOf
<1>3. ASSUME NEW P \in ProfilesOf(solutions)
      PROVE  lbCost' <= [S \in SUBSET Soft |-> Cardinality(S)][P]
  <2>1. PICK m \in solutions : P = m[1]
    BY DEF ProfilesOf
  <2>2. lbCost' <= Cardinality(m[1] \cap activeSoft')
    BY <1>1 DEF LowerBound
  <2>3. /\ Cardinality(m[1] \cap activeSoft') \in Nat
        /\ Cardinality(m[1]) \in Nat
        /\ Cardinality(m[1] \cap activeSoft') <= Cardinality(m[1])
    BY SolutionSets DEF TypeOK
  <2> QED
    BY <1>1, <2>1, <2>2, <2>3, ProfilesAreSoft DEF Cost
<1> QED
  <2>1. \A P \in ProfilesOf(solutions) :
            lbCost' <= [S \in SUBSET Soft |-> Cardinality(S)][P]
    BY <1>3
  <2>2. lbCost' \in Nat /\ lbCost' > lbCost
    BY <1>1
  <2> HIDE DEF IInv, Core
  <2> QED
    BY <1>1, <1>2, <2>1, <2>2 DEF Promise!RaiseLowerBound

(***************************************************************************)
(* Every behaviour of the search is one that MaxSATSearch allows, and the   *)
(* enumeration after it leaves what was answered alone.                     *)
(***************************************************************************)
THEOREM Implementation == Spec => ImplementsMaxSATSearch
<1>1. IInv /\ IInv' /\ [Next]_vars => [Promise!Next]_(Promise!vars)
  <2> SUFFICES ASSUME IInv, IInv', [Next]_vars
               PROVE  [Promise!Next]_(Promise!vars)
    OBVIOUS
  <2>1. ASSUME NEW m \in solutions, FirstModel(m) \/ OptimalModel(m)
        PROVE  Promise!Next
    BY <2>1, ModelImplements
  <2>2. CASE Unsatisfiable
    <3>1. ProfilesOf(solutions) = {} /\ answer = Promise!Running /\ lbCost \in Nat
      BY <2>2 DEF Unsatisfiable, ProfilesOf, IInv, TypeOK, Phases, Running, Promise!Running
    <3> QED
      BY <2>2, <3>1
         DEF Unsatisfiable, problem, ProfilesOf, Promise!AnswerUnsatisfiable, Promise!Next
  <2>3. ASSUME NEW K \in SUBSET assumptions, Core(K)
        PROVE  Promise!Next
    BY <2>3, CoreImplements DEF Promise!Next
  <2>4. ASSUME NEW m \in solutions, NextSolution(m)
        PROVE  UNCHANGED Promise!vars
    BY <2>4 DEF NextSolution, problem, ProfilesOf, Promise!vars
  <2>5. CASE NoMoreSolutions
    BY <2>5 DEF NoMoreSolutions, problem, ProfilesOf, Promise!vars
  <2>6. CASE UNCHANGED vars
    BY <2>6 DEF vars, problem, ProfilesOf, Promise!vars
  <2> QED
    BY <2>1, <2>2, <2>3, <2>4, <2>5, <2>6 DEF Next
<1> QED
    BY InitImplements, Invariance, <1>1, PTL DEF Spec, Promise!Spec, ImplementsMaxSATSearch
=============================================================================
