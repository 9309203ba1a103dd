----------------------------- MODULE PlannerLoop -----------------------------
(***************************************************************************)
(* One run of the planner loop (engine.rs, Engine::run): choose a step     *)
(* from the workflow, the decision model or the planner; execute it within *)
(* the budgets; judge completion.  The planner, the decision model, the    *)
(* models and the MCP servers answer anything at all, or fail.  What their *)
(* calls leave in the journal (RunStore) is abstracted to the set of       *)
(* actions with an unresolved write.                                       *)
(***************************************************************************)
EXTENDS Completion

CONSTANTS Cloud,           \* routes that run in the cloud
          Decider,         \* a decision model is enabled
          MaxOptions,      \* decider.rs MAX_OPTIONS
          Polish,          \* presentation_pipeline["japanese_polishing"], or NoRoute
          NoRoute,
          Candidates,      \* number of model candidates of each model route
          WriteClass,      \* class of each MCP route: "read", "LocalWrite", "RemoteWrite"
          Calls,           \* fingerprints of MCP calls: server, tool and arguments
          CallsOf,         \* the fingerprints each MCP route can prepare
          PlannerRetries, MaxIterations, MaxModelCalls, MaxMcpCalls   \* loop_limits

ASSUME LoopAssumption ==
    /\ Cloud \subseteq Routes
    /\ \A i \in Instructions : i.optIn \in BOOLEAN
    /\ Decider \in BOOLEAN
    /\ Polish \in Routes \cup {NoRoute} /\ NoRoute \notin Routes
    /\ Candidates \in [ModelRoutes -> Nat \ {0}]
    /\ WriteClass \in [Routes \ ModelRoutes -> {"read", "LocalWrite", "RemoteWrite"}]
    /\ CallsOf \in [Routes \ ModelRoutes -> SUBSET Calls]
    /\ {MaxOptions, PlannerRetries, MaxIterations, MaxModelCalls, MaxMcpCalls} \subseteq Nat

VARIABLES at,           \* where the loop is
          states,       \* the ActionStateMachine
          structured,   \* latest typed adapter output of each action
          done,         \* successful_mcp_calls
          unresolved,   \* actions with a STARTED or UNCERTAIN write
          usage,        \* Budget.usage
          placed,       \* calls that really left the process
          outcome,      \* what run() returned
          saved,        \* phase in the last checkpoint
          answered      \* the result file is written

facts == <<structured, done, unresolved>>
report == <<outcome, saved, answered>>
vars == <<at, states, facts, usage, placed, report, instruction>>

(* The instruction contains the cloud opt-in marker.                       *)
CloudOptIn == instruction.optIn

Iterate == [place |-> "iterate"]
Ended == [place |-> "ended"]

Init ==
    /\ instruction \in Instructions
    /\ at = Iterate
    /\ states = NewStates
    /\ structured = [a \in Actions |-> NoValue]
    /\ done = {} /\ unresolved = {}
    /\ usage = [iterations |-> 0, model |-> 0, mcp |-> 0]
    /\ placed = [model |-> 0, mcp |-> 0]
    /\ outcome = "running" /\ saved = "none" /\ answered = FALSE

-----------------------------------------------------------------------------
(* An error leaves the loop: run_failed is audited and checkpointed, unless*)
(* the files cannot be written either.                                     *)
FailRun ==
    /\ at' = Ended
    /\ outcome' = "failed"
    /\ saved' \in {saved, "failed"}
    /\ UNCHANGED answered

(* An audit line, a checkpoint or the wall-time check can fail anywhere    *)
(* outside an executing action; so can ensure_controller.                  *)
StopRun ==
    /\ at.place \in {"iterate", "decide", "plan", "start", "judge"}
    /\ FailRun
    /\ UNCHANGED <<states, facts, usage, placed>>

(* Budget: count first, refuse when the count passes the limit.            *)
SpendUncounted(kind) == UNCHANGED usage   \* mutant: the limit is checked, the use not recorded

Spend(kind) == usage' = [usage EXCEPT ![kind] = @ + 1]

WithinBudgetInclusive(used, limit) == used <= limit   \* mutant: off by one

WithinBudget(used, limit) == used + 1 <= limit

(* A call leaves.  The count stops one past the limit (bound): there       *)
(* BudgetsHold is already false.                                           *)
CountCall(kind, limit) == placed' = [placed EXCEPT ![kind] = IF @ > limit THEN @ ELSE @ + 1]

-----------------------------------------------------------------------------
(* budget.iteration, the "planning" checkpoint and the workflow's turn.    *)
BeginIteration ==
    /\ at = Iterate
    /\ Spend("iterations")
    /\ IF ~WithinBudget(usage.iterations, MaxIterations) \/ (WorkflowOpen(states) /\ ~CanTakeStep(states))
       THEN FailRun
       ELSE /\ at' = IF WorkflowOpen(states)
                     THEN [place |-> "start", action |-> NextStep(states)]
                     ELSE [place |-> "decide"]
            /\ saved' = "planning"
            /\ UNCHANGED <<outcome, answered>>
    /\ UNCHANGED <<states, facts, placed>>

PlannerActions == {a \in EligibleActions(states) : CloudOptIn \/ a \notin Cloud}

Plan(offered) == at' = [place |-> "plan", offered |-> offered, attempt |-> 1]

(* consult_decider: an accepted answer narrows what the planner is offered *)
(* to one action or to completion; an unavailable or unsure one does not.  *)
DecideNext ==
    /\ at.place = "decide"
    /\ \/ Plan(PlannerActions)
       \/ /\ Decider
          /\ PlannerActions # {} /\ Cardinality(PlannerActions) + 1 <= MaxOptions
          /\ Plan({}) \/ \E a \in PlannerActions : Plan({a})
    /\ UNCHANGED <<states, facts, usage, placed, report>>

MayAskAgain(attempt) == attempt <= PlannerRetries

(* One planner call.  A failed call or a budget error fails the run; an    *)
(* invalid decision is asked for again, planner_retries times.  An action  *)
(* outside the offer is invalid; completion is accepted in every scope.    *)
AskPlanner ==
    /\ at.place = "plan"
    /\ Spend("model")
    /\ IF ~WithinBudget(usage.model, MaxModelCalls)
       THEN FailRun /\ UNCHANGED placed
       ELSE /\ CountCall("model", MaxModelCalls)
            /\ \/ FailRun
               \/ /\ at' = [at EXCEPT !.attempt = @ + 1]
                  /\ MayAskAgain(at.attempt)
                  /\ UNCHANGED report
               \/ /\ \E a \in at.offered : at' = [place |-> "start", action |-> a]
                  /\ UNCHANGED report
               \/ /\ at' = Iterate      \* an empty answer
                  /\ UNCHANGED report
               \/ /\ \E polish \in BOOLEAN : at' = [place |-> "judge", polish |-> polish]
                  /\ UNCHANGED report
    /\ UNCHANGED <<states, facts>>

-----------------------------------------------------------------------------
(* Execution of an action, for a step (verdict "none") or for the polishing*)
(* of an answer that was judged with this verdict.                         *)
Executing(a, verdict) ==
    [place |-> "execute", action |-> a, verdict |-> verdict, candidate |-> 1]

StartStep ==
    /\ at.place = "start"
    /\ IF CanStartAction(states, at.action)
       THEN /\ states' = StartAction(states, at.action)
            /\ \/ FailRun      \* the action_started line or the checkpoint
               \/ /\ at' = Executing(at.action, "none")
                  /\ saved' = "executing"
                  /\ UNCHANGED <<outcome, answered>>
       ELSE /\ at' = Iterate
            /\ UNCHANGED <<states, report>>
    /\ UNCHANGED <<facts, usage, placed>>

ActionSucceeds ==
    /\ states' = SucceedAction(states, at.action)
    /\ at' = IF at.verdict = "none" THEN Iterate ELSE [place |-> "finish", verdict |-> at.verdict]
    /\ UNCHANGED report

(* Mutant: a failed polishing does not fail the run.                       *)
ActionFailsQuietly ==
    /\ states' = FailAction(states, at.action)
    /\ at' = IF at.verdict = "none" THEN Iterate ELSE [place |-> "finish", verdict |-> at.verdict]
    /\ UNCHANGED report

ActionFails ==
    /\ states' = FailAction(states, at.action)
    /\ IF at.verdict = "none" THEN at' = Iterate /\ UNCHANGED report ELSE FailRun

(* One model candidate.  An unavailable profile or a failed call moves on  *)
(* to the next candidate; the budget's refusal fails the whole action.     *)

(* Mutant: the last failed candidate leaves the action Running.            *)
NextCandidateForgetful ==
    /\ at' = IF at.candidate < Candidates[at.action]
             THEN [at EXCEPT !.candidate = @ + 1]
             ELSE Iterate
    /\ UNCHANGED <<states, report>>

NextCandidate ==
    IF at.candidate < Candidates[at.action]
    THEN at' = [at EXCEPT !.candidate = @ + 1] /\ UNCHANGED <<states, report>>
    ELSE ActionFails

TryCandidate ==
    /\ at.place = "execute" /\ at.action \in ModelRoutes
    /\ \/ NextCandidate /\ UNCHANGED <<usage, placed>>
       \/ /\ (Spend("model") /\ ~WithinBudget(usage.model, MaxModelCalls)) \/ UNCHANGED usage
          /\ ActionFails
          /\ UNCHANGED placed
       \/ /\ WithinBudget(usage.model, MaxModelCalls)
          /\ Spend("model")
          /\ CountCall("model", MaxModelCalls)
          /\ ActionSucceeds \/ NextCandidate
    /\ UNCHANGED facts

(* An MCP call that already succeeded is not repeated: the action succeeds *)
(* without typed output.                                                   *)
SuppressCall(c) ==
    /\ at.place = "execute" /\ at.action \notin ModelRoutes
    /\ c \in CallsOf[at.action] \cap done
    /\ ActionSucceeds
    /\ UNCHANGED <<facts, usage, placed>>

(* Nothing leaves: the call cannot be prepared or authorized, the budget   *)
(* is spent, the approval is refused, or the journal refuses the write.    *)
CallRefused ==
    /\ at.place = "execute" /\ at.action \notin ModelRoutes
    /\ Spend("mcp") \/ UNCHANGED usage
    /\ ActionFails
    /\ UNCHANGED <<facts, placed>>

(* A call within the budget.  The typed output of a step is kept, that of  *)
(* polishing is not.  A failed remote write may have happened; so may a    *)
(* local one whose end could not be recorded.                              *)
PlaceCall(c) ==
    /\ at.place = "execute" /\ at.action \notin ModelRoutes
    /\ c \in CallsOf[at.action] \ done
    /\ WithinBudget(usage.mcp, MaxMcpCalls)
    /\ Spend("mcp")
    /\ CountCall("mcp", MaxMcpCalls)
    /\ \/ /\ ActionSucceeds
          /\ done' = done \cup {c}
          /\ \E output \in Values \cup {structured[at.action]} :
                structured' = [structured EXCEPT ![at.action] =
                                  IF at.verdict = "none" THEN output ELSE @]
          /\ UNCHANGED unresolved
       \/ /\ ActionFails
          /\ unresolved' \in
                CASE WriteClass[at.action] = "read" -> {unresolved}
                  [] WriteClass[at.action] = "LocalWrite" -> {unresolved, unresolved \cup {at.action}}
                  [] WriteClass[at.action] = "RemoteWrite" -> {unresolved \cup {at.action}}
          /\ UNCHANGED <<structured, done>>

-----------------------------------------------------------------------------
(* Decision::Complete: the planner's claim only requests the evaluation.   *)
Judge ==
    /\ at.place = "judge"
    /\ LET verdict == Evaluate(states, unresolved, structured)
           polishes == at.polish /\ Polish # NoRoute
       IN \/ /\ verdict = "Incomplete"
             /\ at' = Iterate
             /\ UNCHANGED <<states, report>>
          \/ /\ \/ verdict \in {"Blocked", "Failed"}
                \/ verdict # "Incomplete" /\ polishes /\ ~CanStartAction(states, Polish)
             /\ FailRun
             /\ UNCHANGED states
          \/ /\ verdict \in {"Complete", "RequiresReview"}
             /\ ~polishes
             /\ at' = [place |-> "finish", verdict |-> verdict]
             /\ UNCHANGED <<states, report>>
          \/ /\ verdict \in {"Complete", "RequiresReview"}
             /\ polishes /\ CanStartAction(states, Polish)
             /\ states' = StartAction(states, Polish)
             /\ at' = Executing(Polish, verdict)
             /\ UNCHANGED report
    /\ UNCHANGED <<facts, usage, placed>>

(* write_result, run_completed and the final checkpoint.  Any of them may  *)
(* fail, and then the run is reported as failed.                           *)
Finish ==
    /\ at.place = "finish"
    /\ at' = Ended
    /\ LET phase == IF at.verdict = "Complete" THEN "completed" ELSE "requires_review"
       IN \/ /\ outcome' = phase /\ saved' = phase /\ answered' = TRUE
          \/ /\ outcome' = "failed"
             /\ answered' \in BOOLEAN
             /\ saved' \in {saved, "failed"} \cup (IF answered' THEN {phase} ELSE {})
    /\ UNCHANGED <<states, facts, usage, placed>>

-----------------------------------------------------------------------------
Step ==
    \/ BeginIteration \/ DecideNext \/ AskPlanner \/ StartStep \/ TryCandidate
    \/ CallRefused \/ \E c \in Calls : SuppressCall(c) \/ PlaceCall(c)
    \/ Judge \/ Finish \/ StopRun

Next == Step /\ UNCHANGED instruction

Spec == Init /\ [][Next]_vars

(* Every await in the loop has a timeout (HTTP clients, MCP device,        *)
(* approval lifetime), so the single thread of the run keeps stepping.     *)
FairSpec == Spec /\ WF_vars(Next)
-----------------------------------------------------------------------------
(* Type invariant.                                                         *)
Verdicts == {"none", "Complete", "RequiresReview"}

(* A run reported or checkpointed as completed is one whose evidence still *)
(* stands after everything that followed the judgement: polishing may run  *)
(* another action, and may run one the policy depends on once more.        *)
EvidenceStands ==
    /\ unresolved = {}
    /\ Unmet(HardConditions, states, unresolved, structured) = {}

CompletionIsEarned ==
    /\ {outcome, saved} \cap {"completed", "requires_review"} # {} => EvidenceStands /\ answered
    /\ "completed" \in {outcome, saved} =>
          OnSoftFailure = "complete" \/ Unmet(Soft, states, unresolved, structured) = {}

(* An action that was ever started has all its dependencies succeeded for  *)
(* as long as the run is going on, retries and polishing included: nothing *)
(* an action was built on is silently taken back.                          *)
DependenciesStand ==
    outcome # "failed" =>
        \A a \in Actions :
            states[a].attempts > 0 =>
                \A b \in DependsOn(a) :
                    /\ b \in Actions
                    /\ \/ states[b].status = "Succeeded"
                       \/ at.place = "execute" /\ at.action = b /\ at.verdict # "none"

(* The state machine and the loop agree: the one Running action is the one *)
(* being executed, so no action is left Running by a run that goes on.     *)
OneActionRuns ==
    outcome # "failed" =>
        {a \in Actions : states[a].status = "Running"} =
            IF at.place = "execute" THEN {at.action} ELSE {}

(* Calls that really leave stay within the limits, although an action that *)
(* hits a limit only fails and the loop goes on counting.                  *)
BudgetsHold ==
    /\ placed.model <= MaxModelCalls
    /\ placed.mcp <= MaxMcpCalls
    /\ \A a \in Actions : states[a].attempts <= MaxAttempts[a]

(* The run ends, whatever the planner answers.                             *)
Termination == <>(at = Ended)
=============================================================================
