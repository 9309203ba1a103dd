------------------------- MODULE ActionStateMachine -------------------------
(***************************************************************************)
(* The retry and dependency bookkeeping of one planner run                 *)
(* (state_machine.rs), as operators on s, which maps every action to its   *)
(* status and its attempts.                                                *)
(***************************************************************************)
EXTENDS Naturals, Sequences, FiniteSets

CONSTANTS Routes,        \* names of the configured actions, the controller included
          Controller,    \* routes.default_action
          MaxAttempts,   \* max_attempts of each route
          Dependencies,  \* depends_on of each route
          Repeatable,    \* the repeatable routes
          Instructions   \* what the instruction of a run can select

VARIABLE instruction   \* what this run's instruction has selected

(* The steps of the workflow whose patterns all occur in the instruction;  *)
(* <<>> when none does.                                                    *)
Steps == instruction.steps

(* ProjectConfig::validate.                                                *)
ASSUME RoutesAssumption ==
    /\ Controller \in Routes
    /\ MaxAttempts \in [Routes -> Nat \ {0}]
    /\ Dependencies \in [Routes -> SUBSET Routes]
    /\ \A a \in Routes : a \notin Dependencies[a]
    /\ Repeatable \subseteq Routes
    /\ \A i \in Instructions : i.steps \in Seq(Routes \ {Controller})

Actions == Routes \ {Controller}

ActionStatus == {"Pending", "Running", "Succeeded", "Failed"}

InWorkflow(a) == \E p \in DOMAIN Steps : Steps[p] = a

(* A workflow step also depends on the step before its first occurrence.   *)
DependsOn(a) ==
    Dependencies[a] \cup
        {b \in Routes : \E p \in DOMAIN Steps : /\ p > 1
                                                /\ Steps[p] = a
                                                /\ b = Steps[p - 1]
                                                /\ \A q \in 1..p - 1 : Steps[q] # a}

NewStates == [a \in Actions |-> [status |-> "Pending", attempts |-> 0]]

Succeeded(s) == {a \in Actions : s[a].status = "Succeeded"}

Unblocked(s, a) == DependsOn(a) \subseteq Succeeded(s)

Exhausted(s, a) == s[a].attempts >= MaxAttempts[a]

CanStartAction(s, a) ==
    /\ a \in Actions
    /\ Unblocked(s, a)
    /\ s[a].status # "Running"
    /\ s[a].status = "Succeeded" => a \in Repeatable
    /\ ~Exhausted(s, a)

StartAction(s, a) == [s EXCEPT ![a] = [status |-> "Running", attempts |-> @.attempts + 1]]

SucceedAction(s, a) == [s EXCEPT ![a].status = "Succeeded"]

FailAction(s, a) == [s EXCEPT ![a].status = "Failed"]

(* Mutant: repeatable actions stay eligible after they succeeded.          *)
EligibleAgain(s) ==
    {a \in Actions : /\ Steps # <<>> => InWorkflow(a)
                     /\ s[a].status # "Running"
                     /\ s[a].status = "Succeeded" => a \in Repeatable
                     /\ ~Exhausted(s, a)
                     /\ Unblocked(s, a)}

(* What the planner may choose from.                                       *)
EligibleActions(s) ==
    {a \in Actions : /\ Steps # <<>> => InWorkflow(a)
                     /\ s[a].status \in {"Pending", "Failed"}
                     /\ ~Exhausted(s, a)
                     /\ Unblocked(s, a)}

(* next_workflow_action: the first step that has not succeeded; an error   *)
(* when that step cannot run.                                              *)
WorkflowOpen(s) == \E p \in DOMAIN Steps : Steps[p] \notin Succeeded(s)

NextStep(s) ==
    Steps[CHOOSE p \in DOMAIN Steps : /\ Steps[p] \notin Succeeded(s)
                                      /\ \A q \in 1..p - 1 : Steps[q] \in Succeeded(s)]

CanTakeStep(s) ==
    /\ s[NextStep(s)].status # "Running"
    /\ ~Exhausted(s, NextStep(s))
    /\ Unblocked(s, NextStep(s))
=============================================================================
