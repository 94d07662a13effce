------------------------------- MODULE Answers -------------------------------
(***************************************************************************)
(* What the process prints (Main.cc, and saveModel, printBound, printAnswer *)
(* of MaxSAT.cc) when SIGTERM, or SIGXCPU under -cpu-lim, may arrive        *)
(* between any two steps of the search.                                     *)
(*                                                                         *)
(* The search is any search that keeps the promise of MaxSATSearch: it      *)
(* takes models that cost no more than the last, and answers when the saved *)
(* model is a best one or there is none.  A model is taken by three         *)
(* statements, the order of which depends on the search: saveModel,         *)
(* printBound and the assignment of ubCost.  saveModel clears the model,    *)
(* then pushes the value of one variable at a time.  The handler interrupts *)
(* the search, prints an answer and exits; SIGINT_exit itself is not        *)
(* interrupted.  The model is printed in full (-print-model).               *)
(***************************************************************************)
EXTENDS Naturals, Sequences

CONSTANTS
    Models,     \* the assignments
    cost,       \* cost[m]: what m costs
    sumWeights, \* getSumWeights(), the first ubCost
    nVars,      \* nInitialVars()
    None

ASSUME CostAssumption == sumWeights \in Nat /\ cost \in [Models -> 0..sumWeights]
ASSUME VarAssumption == nVars \in Nat \ {0}
ASSUME NoneAssumption == None \notin Models /\ None \notin Models \X Nat

VARIABLES
    feasible,       \* the assignments that satisfy the hard clauses
    stage,          \* where the process is
    found,          \* solver->model
    todo,           \* the statements left of those that take the model found
    model, size,    \* the model pushed last, and model.size()
    ubCost,
    boundLine,      \* the last "o" line
    statusLines,    \* the "s" lines, by status code
    modelLine,      \* the "v" line: a model and how many values of it
    interruptedAt   \* the stage the signal interrupted

output      == <<boundLine, statusLines, modelLine>>
processVars == <<feasible, stage, found, todo, model, size, ubCost, output, interruptedAt>>
-----------------------------------------------------------------------------
ProcessInit ==
    /\ feasible \in SUBSET Models
    /\ stage = "parse"             \* mxsolver is NULL
    /\ found = None /\ todo = <<>>
    /\ model = None /\ size = 0
    /\ ubCost = sumWeights
    /\ boundLine = None /\ statusLines = <<>> /\ modelLine = None
    /\ interruptedAt = None

StartSearch ==
    /\ stage = "parse"
    /\ stage' = "search"
    /\ UNCHANGED <<feasible, found, todo, model, size, ubCost, output, interruptedAt>>

\* MSU3, UpMSU3, OLL, UpOLL, WMSU3, UpWMSU3 and the partitions of UpWBO.
SaveFirst == <<"saveModel", "printBound", "ubCost">>

\* WBO, and UpWBO for the hard clauses alone.
BoundFirst == <<"ubCost", "saveModel", "printBound">>

\* WBO without strata, of the model that is its answer.
SaveLast == <<"ubCost", "printBound", "saveModel">>

IsSaved(m) == cost[m] <= ubCost

\* The solver returns a model that is to be saved.
Found(m) ==
    /\ stage = "search"
    /\ m \in feasible /\ IsSaved(m)
    /\ found' = m
    /\ \/ todo' \in {SaveFirst, BoundFirst}
       \/ /\ todo' = SaveLast
          /\ \A n \in feasible : cost[m] <= cost[n]
    /\ stage' = "take"
    /\ UNCHANGED <<feasible, model, size, ubCost, output, interruptedAt>>

\* The statement ends and the next one follows, or the search goes on.
StatementEnds ==
    /\ todo' = Tail(todo)
    /\ stage' = IF Tail(todo) = <<>> THEN "search" ELSE "take"

\* saveModel: model.clear()
ClearModel ==
    /\ stage = "take" /\ Head(todo) = "saveModel"
    /\ model' = found /\ size' = 0
    /\ stage' = "save"
    /\ UNCHANGED <<feasible, found, todo, ubCost, output, interruptedAt>>

\* Mutant: the last variable is left out.
AllButLastPushed == size + 1 = nVars

AllPushed == size = nVars

\* saveModel: model.push(currentModel[i])
PushValue ==
    /\ stage = "save" /\ ~AllPushed
    /\ size' = size + 1
    /\ UNCHANGED <<feasible, stage, found, todo, model, ubCost, output,
                   interruptedAt>>

SavedModel ==
    /\ stage = "save" /\ AllPushed
    /\ StatementEnds
    /\ UNCHANGED <<feasible, found, model, size, ubCost, output, interruptedAt>>

PrintBound ==
    /\ stage = "take" /\ Head(todo) = "printBound"
    /\ boundLine' = cost[found]
    /\ StatementEnds
    /\ UNCHANGED <<feasible, found, model, size, ubCost, statusLines, modelLine,
                   interruptedAt>>

UpdateBound ==
    /\ stage = "take" /\ Head(todo) = "ubCost"
    /\ ubCost' = cost[found]
    /\ StatementEnds
    /\ UNCHANGED <<feasible, found, model, size, output, interruptedAt>>

\* printAnswer(status) of the search prints the status first.
PrintStatus ==
    /\ stage = "search"
    /\ \/ /\ model # None
          /\ \A m \in feasible : ubCost <= cost[m]
          /\ statusLines' = Append(statusLines, "_OPTIMUM_")
       \/ /\ feasible = {}
          /\ statusLines' = Append(statusLines, "_UNSATISFIABLE_")
    /\ stage' = "printModel"
    /\ UNCHANGED <<feasible, found, todo, model, size, ubCost, boundLine, modelLine,
                   interruptedAt>>

PrintModel ==
    /\ stage = "printModel"
    /\ modelLine' = IF feasible = {} THEN None ELSE <<model, size>>
    /\ stage' = "return"
    /\ UNCHANGED <<feasible, found, todo, model, size, ubCost, boundLine, statusLines,
                   interruptedAt>>

Exit ==
    /\ stage = "return"
    /\ stage' = "exited"
    /\ UNCHANGED <<feasible, found, todo, model, size, ubCost, output, interruptedAt>>

\* Mutant: the answer is SATISFIABLE whether or not there is a model.
HasModelUnchecked == TRUE

HasModel == size > 0

(***************************************************************************)
(* SIGINT_exit: printAnswer(_UNKNOWN_), which is _SATISFIABLE_ when model   *)
(* has a value, and exit.  Before mxsolver is set it calls through NULL.    *)
(***************************************************************************)
Signal ==
    /\ stage \notin {"exited", "crashed"}
    /\ interruptedAt' = stage
    /\ \/ /\ stage = "parse"
          /\ stage' = "crashed"
          /\ UNCHANGED output
       \/ /\ stage # "parse" /\ HasModel
          /\ stage' = "exited"
          /\ statusLines' = Append(statusLines, "_SATISFIABLE_")
          /\ modelLine' = <<model, size>>
          /\ UNCHANGED boundLine
       \/ /\ stage # "parse" /\ ~HasModel
          /\ stage' = "exited"
          /\ statusLines' = Append(statusLines, "_UNKNOWN_")
          /\ UNCHANGED <<boundLine, modelLine>>
    /\ UNCHANGED <<feasible, found, todo, model, size, ubCost>>

ProcessNext ==
    \/ StartSearch
    \/ \E m \in Models : Found(m)
    \/ ClearModel
    \/ PushValue
    \/ SavedModel
    \/ PrintBound
    \/ UpdateBound
    \/ PrintStatus
    \/ PrintModel
    \/ Exit
    \/ Signal

ProcessSpec == ProcessInit /\ [][ProcessNext]_processVars
-----------------------------------------------------------------------------
(***************************************************************************)
(* Once an "o" line is out, a process that ends, interrupted or not, prints *)
(* a whole model that costs no more, in whichever order the search saves,   *)
(* prints and assigns.  There are two exceptions: the signal arrives in the *)
(* middle of saveModel, or when SaveLast has printed the "o" line of its    *)
(* model and has saveModel left to call.                                    *)
(***************************************************************************)
BoundKept ==
    stage = "exited" /\ boundLine # None =>
        \/ interruptedAt = "save" /\ size < nVars
        \/ interruptedAt = "take" /\ todo = <<"saveModel">>
        \/ /\ modelLine # None
           /\ modelLine[2] = nVars
           /\ cost[modelLine[1]] <= boundLine

(***************************************************************************)
(* A process that ends has printed a status line, and each one is true: an  *)
(* optimum comes with a whole model that no other beats, "s SATISFIABLE"    *)
(* with a model, "s UNSATISFIABLE" with none to be found.  This holds as    *)
(* well when the signal arrives between the two lines and adds a second     *)
(* status.                                                                  *)
(***************************************************************************)
TrueStatus(s) ==
    /\ s = "_OPTIMUM_" =>
           /\ modelLine # None /\ modelLine[2] = nVars
           /\ \A m \in feasible : cost[modelLine[1]] <= cost[m]
    /\ s = "_SATISFIABLE_" => modelLine # None /\ modelLine[1] \in feasible
    /\ s = "_UNSATISFIABLE_" => feasible = {} /\ modelLine = None

StatusTrue ==
    stage = "exited" =>
        /\ statusLines # <<>>
        /\ \A i \in DOMAIN statusLines : TrueStatus(statusLines[i])

(***************************************************************************)
(* "Prints the best satisfying model." (MaxSAT.cc, line 360)                *)
(***************************************************************************)
PrintsWholeModel == modelLine # None => modelLine[2] = nVars
=============================================================================
