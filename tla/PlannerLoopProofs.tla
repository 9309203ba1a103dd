-------------------------- MODULE PlannerLoopProofs --------------------------
(***************************************************************************)
(* What the planner loop guarantees for every configuration of routes,     *)
(* dependencies, policies, workflows and limits, whatever the planner, the *)
(* decision model and the routes answer.                                   *)
(***************************************************************************)
EXTENDS PlannerLoop, NaturalsInduction, WellFoundedInduction, TLAPS

(* Calls are counted before they leave, and leave only within the limit.   *)
Counted ==
    /\ usage \in [iterations: Nat, model: Nat, mcp: Nat]
    /\ placed \in [model: Nat, mcp: Nat]
    /\ placed.model <= usage.model /\ placed.model <= MaxModelCalls
    /\ placed.mcp <= usage.mcp /\ placed.mcp <= MaxMcpCalls

PlaceType ==
    [place: {"iterate", "decide", "ended"}]
      \cup [place: {"plan"}, offered: SUBSET Actions, attempt: Nat]
      \cup [place: {"start"}, action: Actions]
      \cup [place: {"execute"}, action: Actions, verdict: Verdicts, candidate: Nat]
      \cup [place: {"judge"}, polish: BOOLEAN]
      \cup [place: {"finish"}, verdict: {"Complete", "RequiresReview"}]

Shape ==
    /\ instruction \in Instructions
    /\ at \in PlaceType
    /\ states \in [Actions -> [status: ActionStatus, attempts: Nat]]

(* Typed outputs are those of configured actions.                          *)
OutputsTyped == structured \in [Actions -> Values \cup {NoValue}]

AttemptsHold == \A a \in Actions : states[a].attempts <= MaxAttempts[a]

(* A verdict is on disk or returned only after the loop has ended.         *)
VerdictsComeLast ==
    /\ outcome = "running" <=> at # Ended
    /\ at # Ended => saved \notin {"completed", "requires_review"}

(* What the loop is about to start has not succeeded, although a           *)
(* repeatable action that has would be allowed to start.                   *)
Open(a) == states[a].status \in {"Pending", "Failed"}

ChosenAreOpen ==
    /\ at.place = "plan" => \A a \in at.offered : Open(a)
    /\ at.place = "start" => Open(at.action)

(* The evidence that a verdict rests on, for action states s.              *)
Evidence(s, verdict) ==
    /\ unresolved = {}
    /\ Unmet(HardConditions, s, unresolved, structured) = {}
    /\ verdict = "Complete" =>
          OnSoftFailure = "complete" \/ Unmet(Soft, s, unresolved, structured) = {}

(* A verdict still stands when it is written.  While an answer is polished *)
(* it stands but for the polishing action, which may be one that the       *)
(* policy asks for.                                                        *)
VerdictStands ==
    /\ at.place = "finish" => Evidence(states, at.verdict)
    /\ at.place = "execute" /\ at.verdict # "none" =>
          Evidence(SucceedAction(states, at.action), at.verdict)

LoopInv ==
    /\ Shape
    /\ AttemptsHold
    /\ VerdictsComeLast
    /\ ChosenAreOpen
    /\ OneActionRuns
    /\ DependenciesStand
    /\ VerdictStands
    /\ CompletionIsEarned


-----------------------------------------------------------------------------
(* The budget of the run.                                                  *)

(* Recording a use, with or without a call that leaves.                    *)
LEMMA SpendIsCounted ==
    ASSUME Counted, NEW kind \in {"iterations", "model", "mcp"},
           Spend(kind) \/ UNCHANGED usage, UNCHANGED placed
    PROVE  Counted'
  BY DEF Counted, Spend

LEMMA CallIsCounted ==
    ASSUME Counted,
           \/ /\ Spend("model") /\ WithinBudget(usage.model, MaxModelCalls)
              /\ CountCall("model", MaxModelCalls)
           \/ /\ Spend("mcp") /\ WithinBudget(usage.mcp, MaxMcpCalls)
              /\ CountCall("mcp", MaxMcpCalls)
    PROVE  Counted'
<1> MaxModelCalls \in Nat /\ MaxMcpCalls \in Nat
  BY LoopAssumption
<1> QED BY DEF Counted, Spend, WithinBudget, CountCall

LEMMA StepIsCounted == ASSUME Counted, [Next]_vars PROVE Counted'
<1>1. CASE UNCHANGED vars
  BY <1>1 DEF vars, Counted
<1>2. CASE BeginIteration
  BY <1>2, SpendIsCounted DEF BeginIteration
<1>3. CASE DecideNext \/ StartStep \/ Judge \/ Finish \/ StopRun
  BY <1>3, SpendIsCounted DEF DecideNext, StartStep, Judge, Finish, StopRun
<1>4. CASE AskPlanner
  <2>1. CASE ~WithinBudget(usage.model, MaxModelCalls)
    BY <1>4, <2>1, SpendIsCounted DEF AskPlanner
  <2>2. CASE WithinBudget(usage.model, MaxModelCalls)
    BY <1>4, <2>2, CallIsCounted DEF AskPlanner
  <2> QED BY <2>1, <2>2
<1>5. CASE TryCandidate
  BY <1>5, SpendIsCounted, CallIsCounted DEF TryCandidate
<1>6. CASE CallRefused
  BY <1>6, SpendIsCounted DEF CallRefused
<1>7. ASSUME NEW c \in Calls, SuppressCall(c) PROVE Counted'
  BY <1>7, SpendIsCounted DEF SuppressCall
<1>8. ASSUME NEW c \in Calls, PlaceCall(c) PROVE Counted'
  BY <1>8, CallIsCounted DEF PlaceCall
<1> QED BY <1>1, <1>2, <1>3, <1>4, <1>5, <1>6, <1>7, <1>8 DEF Next, Step

-----------------------------------------------------------------------------
(* The action states and the evidence.                                     *)
StateType == [Actions -> [status: ActionStatus, attempts: Nat]]

(* What the three transitions of the state machine do to each action.      *)
LEMMA StateUpdates ==
    ASSUME NEW s \in StateType, NEW a \in Actions
    PROVE  /\ StartAction(s, a) \in StateType
           /\ SucceedAction(s, a) \in StateType
           /\ FailAction(s, a) \in StateType
           /\ \A b \in Actions \ {a} : /\ StartAction(s, a)[b] = s[b]
                                       /\ SucceedAction(s, a)[b] = s[b]
                                       /\ FailAction(s, a)[b] = s[b]
           /\ StartAction(s, a)[a] = [status |-> "Running", attempts |-> s[a].attempts + 1]
           /\ SucceedAction(s, a)[a] = [status |-> "Succeeded", attempts |-> s[a].attempts]
           /\ FailAction(s, a)[a] = [status |-> "Failed", attempts |-> s[a].attempts]
  BY DEF StateType, ActionStatus, StartAction, SucceedAction, FailAction

(* More successes meet no fewer conditions.                                *)
LEMMA UnmetShrinks ==
    ASSUME NEW conditions, NEW s, NEW t, NEW u, NEW d, Succeeded(s) \subseteq Succeeded(t)
    PROVE  Unmet(conditions, t, u, d) \subseteq Unmet(conditions, s, u, d)
  BY DEF Unmet, Holds

LEMMA EvidenceGrows ==
    ASSUME NEW s, NEW t, NEW verdict, Succeeded(s) \subseteq Succeeded(t), Evidence(s, verdict)
    PROVE  Evidence(t, verdict)
<1>1. /\ Unmet(HardConditions, t, unresolved, structured)
            \subseteq Unmet(HardConditions, s, unresolved, structured)
      /\ Unmet(Soft, t, unresolved, structured) \subseteq Unmet(Soft, s, unresolved, structured)
  BY UnmetShrinks
<1> HIDE DEF Soft, HardConditions, OnSoftFailure
<1> QED BY <1>1 DEF Evidence

(* An evaluation that lets the loop finish has seen the evidence.          *)
LEMMA EvaluationSeesEvidence ==
    ASSUME instruction \in Instructions, NEW verdict \in {"Complete", "RequiresReview"},
           verdict = Evaluate(states, unresolved, structured)
    PROVE  Evidence(states, verdict)
<1>1. OnSoftFailure \in {"requires_review", "retry", "complete"}
  BY PolicyAssumption DEF OnSoftFailure
<1>2. SoftVerdict = "Complete" => OnSoftFailure = "complete"
  BY <1>1 DEF SoftVerdict
<1> HIDE DEF Soft, HardConditions, OnSoftFailure, SoftVerdict
<1> QED BY <1>2 DEF Evaluate, Evidence

(* The workflow proposes a step that has not succeeded.                    *)
LEMMA NextStepIsOpen ==
    ASSUME Shape, WorkflowOpen(states)
    PROVE  NextStep(states) \in Actions \ Succeeded(states)
<1> DEFINE P == {p \in DOMAIN Steps : Steps[p] \notin Succeeded(states)}
<1>1. Steps \in Seq(Routes \ {Controller})
  BY RoutesAssumption DEF Shape, Steps
<1>2. P \subseteq Nat /\ P # {} /\ DOMAIN Steps \subseteq Nat
  BY <1>1 DEF WorkflowOpen
<1>3. PICK p \in P : \A q \in P : <<q, p>> \notin OpToRel(<, Nat)
  BY <1>2, WFMin, NatLessThanWellFounded, Zenon
<1>4. \A q \in 1..p - 1 : Steps[q] \in Succeeded(states)
  <2> SUFFICES ASSUME NEW q \in 1..p - 1, Steps[q] \notin Succeeded(states) PROVE FALSE
    OBVIOUS
  <2>1. p \in Nat /\ q \in Nat /\ q < p
    BY <1>2
  <2>2. q \in P
    BY <1>1, <2>1
  <2>3. <<q, p>> \notin OpToRel(<, Nat)
    BY <1>3, <2>2
  <2> QED BY <2>1, <2>3, Zenon DEF OpToRel
<1>5. \E p1 \in DOMAIN Steps : /\ Steps[p1] \notin Succeeded(states)
                               /\ \A q \in 1..p1 - 1 : Steps[q] \in Succeeded(states)
  BY <1>4
<1>6. \A p1 \in DOMAIN Steps : Steps[p1] \in Actions
  BY <1>1 DEF Actions
<1> HIDE DEF P
<1> QED BY <1>5, <1>6 DEF NextStep

-----------------------------------------------------------------------------
(* The ways in which the loop moves on.                                    *)

LEMMA InitIsInOrder == ASSUME Init PROVE LoopInv
<1>1. /\ instruction \in Instructions
      /\ at = Iterate /\ at # Ended
      /\ states = [a \in Actions |-> [status |-> "Pending", attempts |-> 0]]
      /\ outcome = "running" /\ saved = "none"
  BY DEF Init, NewStates, Iterate, Ended
<1>2. Shape
  BY <1>1 DEF Shape, Iterate, PlaceType, StateType, ActionStatus
<1>3. AttemptsHold
  BY <1>1, RoutesAssumption DEF AttemptsHold, Actions
<1>4. OneActionRuns /\ DependenciesStand
  BY <1>1 DEF OneActionRuns, DependenciesStand, Iterate
<1>5. VerdictsComeLast /\ ChosenAreOpen /\ VerdictStands /\ CompletionIsEarned
  BY <1>1 DEF VerdictsComeLast, ChosenAreOpen, VerdictStands, CompletionIsEarned, Iterate
<1> QED BY <1>2, <1>3, <1>4, <1>5 DEF LoopInv

(* An error ends the run without a verdict.                                *)
LEMMA FailureIsInOrder ==
    ASSUME LoopInv, at # Ended, FailRun, UNCHANGED instruction,
           states' \in StateType, AttemptsHold'
    PROVE  LoopInv'
<1>1. /\ at' = Ended /\ outcome' = "failed"
      /\ saved' \notin {"completed", "requires_review"}
  BY DEF LoopInv, VerdictsComeLast, FailRun
<1>2. Shape'
  BY <1>1 DEF LoopInv, Shape, PlaceType, Ended, StateType
<1>3. VerdictsComeLast' /\ CompletionIsEarned'
  BY <1>1 DEF VerdictsComeLast, CompletionIsEarned
<1>4. OneActionRuns' /\ DependenciesStand'
  BY <1>1 DEF OneActionRuns, DependenciesStand
<1>5. ChosenAreOpen' /\ VerdictStands'
  BY <1>1 DEF ChosenAreOpen, VerdictStands, Ended
<1> QED BY <1>2, <1>3, <1>4, <1>5 DEF LoopInv

(* The loop goes from one place to the next and starts nothing.            *)
LEMMA MoveIsInOrder ==
    ASSUME LoopInv, at # Ended, at.place # "execute",
           UNCHANGED <<states, facts, outcome, answered, instruction>>,
           saved' \in {saved, "planning", "executing"},
           at' \in PlaceType, at'.place \in {"iterate", "decide", "plan", "start", "judge", "finish"},
           ChosenAreOpen', VerdictStands'
    PROVE  LoopInv'
<1>1. at' # Ended /\ at'.place # "execute"
  BY DEF Ended
<1>2. Shape' /\ AttemptsHold'
  BY DEF LoopInv, Shape, AttemptsHold
<1>3. VerdictsComeLast' /\ CompletionIsEarned'
  BY <1>1 DEF LoopInv, VerdictsComeLast, CompletionIsEarned
<1>4. OneActionRuns'
  BY <1>1 DEF LoopInv, OneActionRuns
<1>5. DependenciesStand'
  BY <1>1 DEF LoopInv, DependenciesStand, DependsOn, Steps
<1> QED BY <1>2, <1>3, <1>4, <1>5 DEF LoopInv

(* An action that may start does: an open one for a step, any one for the  *)
(* polishing of an answer whose evidence has been seen.                    *)
LEMMA StartIsInOrder ==
    ASSUME LoopInv, at # Ended, at.place # "execute",
           NEW a \in Actions, CanStartAction(states, a), NEW verdict \in Verdicts,
           verdict = "none" => Open(a),
           verdict # "none" => Evidence(states, verdict),
           states' = StartAction(states, a), at' = Executing(a, verdict),
           UNCHANGED <<facts, outcome, answered, instruction>>,
           saved' \in {saved, "executing"}
    PROVE  LoopInv'
<1>1. /\ at'.place = "execute" /\ at'.action = a /\ at'.verdict = verdict
      /\ at' # Ended /\ at' \in PlaceType
  BY DEF Executing, Ended, PlaceType
<1>2. /\ states \in StateType /\ states' \in StateType
      /\ \A b \in Actions \ {a} : states'[b] = states[b]
      /\ states'[a] = [status |-> "Running", attempts |-> states[a].attempts + 1]
      /\ states[a].status # "Running"
  <2>1. states \in StateType
    BY DEF LoopInv, Shape, StateType
  <2> QED BY <2>1, StateUpdates, Zenon DEF CanStartAction
<1>3. Shape'
  BY <1>1, <1>2 DEF LoopInv, Shape, StateType
<1>4. AttemptsHold'
  <2>1. states[a].attempts \in Nat /\ MaxAttempts[a] \in Nat
    BY <1>2, RoutesAssumption DEF StateType, Actions
  <2>2. states[a].attempts + 1 <= MaxAttempts[a]
    BY <2>1 DEF CanStartAction, Exhausted
  <2> QED BY <1>2, <2>2 DEF LoopInv, AttemptsHold
<1>5. VerdictsComeLast' /\ CompletionIsEarned' /\ outcome = "running"
  BY <1>1 DEF LoopInv, VerdictsComeLast, CompletionIsEarned
<1>6. ChosenAreOpen'
  BY <1>1 DEF ChosenAreOpen
<1>7. OneActionRuns'
  <2>1. \A b \in Actions : states[b].status # "Running"
    BY <1>5 DEF LoopInv, OneActionRuns
  <2> QED BY <1>1, <1>2, <2>1 DEF OneActionRuns
<1>8. DependenciesStand'
  <2> SUFFICES ASSUME NEW c \in Actions, states'[c].attempts > 0, NEW b \in DependsOn(c)
               PROVE  /\ b \in Actions
                      /\ \/ states'[b].status = "Succeeded"
                         \/ b = a /\ verdict # "none"
    BY <1>1 DEF DependenciesStand, DependsOn, Steps
  <2>1. b \in Actions /\ states[b].status = "Succeeded"
    <3>1. CASE c = a
      BY <3>1 DEF CanStartAction, Unblocked, Succeeded
    <3>2. CASE c # a
      BY <1>2, <1>5, <3>2 DEF LoopInv, DependenciesStand
    <3> QED BY <3>1, <3>2
  <2>2. CASE b = a
    BY <2>1, <2>2 DEF Open
  <2> QED BY <1>2, <2>1, <2>2
<1>9. VerdictStands'
  <2>1. SUFFICES ASSUME verdict # "none"
                 PROVE  Evidence(SucceedAction(states, a), verdict)'
    BY <1>1 DEF VerdictStands
  <2>2. Succeeded(states) \subseteq Succeeded(SucceedAction(states', a))
    <3>1. /\ SucceedAction(states', a)[a] = [status |-> "Succeeded", attempts |-> states'[a].attempts]
          /\ \A b \in Actions \ {a} : SucceedAction(states', a)[b] = states'[b]
      BY <1>2, StateUpdates, Zenon
    <3> QED BY <1>2, <3>1 DEF Succeeded
  <2>3. Evidence(SucceedAction(states', a), verdict)
    BY <2>1, <2>2, EvidenceGrows
  <2> QED BY <2>3 DEF Evidence, facts, HardConditions, Hard, Soft, OnSoftFailure, Unmet, Holds
<1> QED BY <1>3, <1>4, <1>5, <1>6, <1>7, <1>8, <1>9 DEF LoopInv

(* What is executed is the one Running action, and the run goes on.        *)
LEMMA ExecutionIsRunning ==
    ASSUME LoopInv, at.place = "execute"
    PROVE  /\ at.action \in Actions /\ at.verdict \in Verdicts /\ at.candidate \in Nat
           /\ at # Ended /\ outcome = "running"
           /\ {b \in Actions : states[b].status = "Running"} = {at.action}
<1>1. at # Ended
  BY DEF Ended
<1>2. at.action \in Actions /\ at.verdict \in Verdicts /\ at.candidate \in Nat
  BY DEF LoopInv, Shape, PlaceType
<1> QED BY <1>1, <1>2 DEF LoopInv, VerdictsComeLast, OneActionRuns

(* The action succeeds: a step is over, or the polished answer is written. *)
LEMMA SuccessIsInOrder ==
    ASSUME LoopInv, at.place = "execute", ActionSucceeds, UNCHANGED <<unresolved, instruction>>,
           at.verdict # "none" => UNCHANGED structured
    PROVE  LoopInv'
<1> DEFINE a == at.action
<1>0. /\ a \in Actions /\ at.verdict \in Verdicts
      /\ at # Ended /\ outcome = "running"
      /\ {b \in Actions : states[b].status = "Running"} = {a}
  BY ExecutionIsRunning
<1>1. /\ UNCHANGED <<outcome, saved, answered>> /\ at' # Ended
      /\ at' = IF at.verdict = "none" THEN Iterate ELSE [place |-> "finish", verdict |-> at.verdict]
  BY DEF ActionSucceeds, report, Iterate, Ended
<1>2. /\ states \in StateType /\ states' \in StateType
      /\ states' = SucceedAction(states, a)
      /\ \A b \in Actions \ {a} : states'[b] = states[b]
      /\ states'[a] = [status |-> "Succeeded", attempts |-> states[a].attempts]
  <2>1. states \in StateType /\ states' = SucceedAction(states, a)
    BY DEF LoopInv, Shape, StateType, ActionSucceeds
  <2> QED BY <1>0, <2>1, StateUpdates, Zenon
<1>3. Shape'
  <2>1. at' \in PlaceType
    BY <1>0, <1>1 DEF PlaceType, Verdicts, Iterate
  <2> QED BY <1>2, <2>1 DEF LoopInv, Shape, StateType
<1>4. AttemptsHold'
  BY <1>2 DEF LoopInv, AttemptsHold
<1>5. VerdictsComeLast' /\ CompletionIsEarned'
  BY <1>0, <1>1 DEF LoopInv, VerdictsComeLast, CompletionIsEarned
<1>6. ChosenAreOpen' /\ at'.place # "execute"
  BY <1>1 DEF ChosenAreOpen, Iterate
<1>7. OneActionRuns'
  BY <1>0, <1>2, <1>6 DEF OneActionRuns
<1>8. DependenciesStand'
  <2> SUFFICES ASSUME NEW c \in Actions, states'[c].attempts > 0, NEW b \in DependsOn(c)
               PROVE  b \in Actions /\ states'[b].status = "Succeeded"
    BY DEF DependenciesStand, DependsOn, Steps
  <2>1. states[c].attempts > 0
    BY <1>2
  <2>2. b \in Actions /\ (states[b].status = "Succeeded" \/ b = a)
    BY <1>0, <2>1 DEF LoopInv, DependenciesStand
  <2> QED BY <1>2, <2>2
<1>9. VerdictStands'
  <2>1. SUFFICES ASSUME at.verdict # "none"
                 PROVE  Evidence(states, at.verdict)'
    BY <1>1 DEF VerdictStands, Iterate
  <2>2. Evidence(states', at'.verdict) /\ UNCHANGED <<unresolved, structured, instruction>>
    BY <1>1, <1>2, <2>1 DEF LoopInv, VerdictStands
  <2> QED BY <2>2 DEF Evidence, HardConditions, Hard, Soft, OnSoftFailure, Unmet, Holds
<1> QED BY <1>3, <1>4, <1>5, <1>6, <1>7, <1>8, <1>9 DEF LoopInv

(* The action fails: a step may be tried again, a polishing ends the run.  *)
LEMMA FailedActionIsInOrder ==
    ASSUME LoopInv, at.place = "execute", ActionFails, UNCHANGED instruction
    PROVE  LoopInv'
<1> DEFINE a == at.action
<1>0. /\ a \in Actions /\ at.verdict \in Verdicts
      /\ at # Ended /\ outcome = "running"
      /\ {b \in Actions : states[b].status = "Running"} = {a}
  BY ExecutionIsRunning
<1>2. /\ states \in StateType /\ states' \in StateType
      /\ \A b \in Actions \ {a} : states'[b] = states[b]
      /\ states'[a] = [status |-> "Failed", attempts |-> states[a].attempts]
  <2>1. states \in StateType /\ states' = FailAction(states, a)
    BY DEF LoopInv, Shape, StateType, ActionFails
  <2> QED BY <1>0, <2>1, StateUpdates, Zenon
<1>3. AttemptsHold'
  BY <1>2 DEF LoopInv, AttemptsHold
<1>4. CASE at.verdict # "none"
  BY <1>0, <1>2, <1>3, <1>4, FailureIsInOrder DEF ActionFails
<1>5. CASE at.verdict = "none"
  <2>1. at' = Iterate /\ UNCHANGED <<outcome, saved, answered>>
    BY <1>5 DEF ActionFails, report
  <2>2. Shape'
    BY <1>2, <2>1 DEF LoopInv, Shape, StateType, PlaceType, Iterate
  <2>3. VerdictsComeLast' /\ CompletionIsEarned'
    BY <1>0, <2>1 DEF LoopInv, VerdictsComeLast, CompletionIsEarned, Iterate, Ended
  <2>4. ChosenAreOpen' /\ VerdictStands'
    BY <2>1 DEF ChosenAreOpen, VerdictStands, Iterate
  <2>5. OneActionRuns'
    BY <1>0, <1>2, <2>1 DEF OneActionRuns, Iterate
  <2>6. DependenciesStand'
    <3> SUFFICES ASSUME NEW c \in Actions, states'[c].attempts > 0, NEW b \in DependsOn(c)
                 PROVE  b \in Actions /\ states'[b].status = "Succeeded"
      BY DEF DependenciesStand, DependsOn, Steps
    <3>1. states[c].attempts > 0
      BY <1>2
    <3>2. b \in Actions /\ states[b].status = "Succeeded"
      BY <1>0, <1>5, <3>1 DEF LoopInv, DependenciesStand
    <3>3. b # a
      BY <1>0, <3>2
    <3> QED BY <1>2, <3>2, <3>3
  <2> QED BY <1>3, <2>2, <2>3, <2>4, <2>5, <2>6 DEF LoopInv
<1> QED BY <1>4, <1>5

(* Another model candidate is tried, or the last one has failed.           *)
LEMMA CandidatesAreInOrder ==
    ASSUME LoopInv, at.place = "execute", NextCandidate, UNCHANGED <<facts, instruction>>
    PROVE  LoopInv'
<1>0. /\ at.action \in Actions /\ at.verdict \in Verdicts /\ at.candidate \in Nat
      /\ at # Ended /\ outcome = "running"
  BY ExecutionIsRunning
<1>1. CASE at' = [at EXCEPT !.candidate = @ + 1] /\ UNCHANGED <<states, report>>
  <2>1. at \in [place: {"execute"}, action: Actions, verdict: Verdicts, candidate: Nat]
    BY DEF LoopInv, Shape, PlaceType
  <2>2. /\ at' \in [place: {"execute"}, action: Actions, verdict: Verdicts, candidate: Nat]
        /\ at'.action = at.action /\ at'.verdict = at.verdict /\ at'.place = "execute"
    BY <1>1, <2>1
  <2>3. at' # Ended /\ at' \in PlaceType
    BY <2>2 DEF Ended, PlaceType
  <2>4. UNCHANGED <<states, outcome, saved, answered, unresolved, structured, instruction>>
    BY <1>1 DEF report, facts
  <2>5. Shape' /\ AttemptsHold'
    BY <2>3, <2>4 DEF LoopInv, Shape, AttemptsHold
  <2>6. VerdictsComeLast' /\ CompletionIsEarned'
    BY <1>0, <2>3, <2>4 DEF LoopInv, VerdictsComeLast, CompletionIsEarned
  <2>7. ChosenAreOpen' /\ OneActionRuns'
    BY <2>2, <2>4 DEF LoopInv, ChosenAreOpen, OneActionRuns
  <2>8. DependenciesStand'
    BY <2>2, <2>4 DEF LoopInv, DependenciesStand, DependsOn, Steps
  <2>9. VerdictStands'
    BY <2>2, <2>4
       DEF LoopInv, VerdictStands, Evidence, SucceedAction,
           HardConditions, Hard, Soft, OnSoftFailure, Unmet, Holds
  <2> QED BY <2>5, <2>6, <2>7, <2>8, <2>9 DEF LoopInv
<1>2. CASE ActionFails
  BY <1>2, FailedActionIsInOrder
<1> QED BY <1>1, <1>2 DEF NextCandidate

-----------------------------------------------------------------------------
(* The steps of the loop.                                                  *)

LEMMA OutputsStayTyped == ASSUME OutputsTyped, [Next]_vars PROVE OutputsTyped'
<1>1. CASE UNCHANGED structured
  BY <1>1 DEF OutputsTyped
<1>2. ASSUME NEW c \in Calls, PlaceCall(c) PROVE OutputsTyped'
  <2>1. CASE UNCHANGED structured
    BY <2>1 DEF OutputsTyped
  <2>2. CASE \E output \in Values \cup {structured[at.action]} :
                structured' = [structured EXCEPT ![at.action] =
                                  IF at.verdict = "none" THEN output ELSE @]
    BY <2>2 DEF OutputsTyped
  <2> QED BY <1>2, <2>1, <2>2 DEF PlaceCall
<1>3. ASSUME NEW c \in Calls, SuppressCall(c) PROVE UNCHANGED structured
  BY <1>3 DEF SuppressCall, facts
<1>4. CASE \/ BeginIteration \/ DecideNext \/ AskPlanner \/ StartStep \/ TryCandidate
           \/ CallRefused \/ Judge \/ Finish \/ StopRun \/ UNCHANGED vars
  BY <1>1, <1>4
     DEF BeginIteration, DecideNext, AskPlanner, StartStep, TryCandidate, CallRefused,
         Judge, Finish, StopRun, vars, facts
<1> QED BY <1>1, <1>2, <1>3, <1>4 DEF Next, Step

(* The workflow's turn, or the planner's.                                  *)
LEMMA IterationIsInOrder ==
    ASSUME LoopInv, BeginIteration, UNCHANGED instruction PROVE LoopInv'
<1>0. /\ at # Ended /\ at.place = "iterate" /\ UNCHANGED <<states, facts>>
      /\ states \in StateType
  BY DEF BeginIteration, Iterate, Ended, LoopInv, Shape, StateType
<1>1. CASE FailRun
  BY <1>0, <1>1, FailureIsInOrder DEF LoopInv, AttemptsHold
<1>2. CASE /\ ~WorkflowOpen(states) \/ CanTakeStep(states)
           /\ at' = IF WorkflowOpen(states)
                    THEN [place |-> "start", action |-> NextStep(states)]
                    ELSE [place |-> "decide"]
           /\ saved' = "planning"
           /\ UNCHANGED <<outcome, answered>>
  <2>1. CASE WorkflowOpen(states)
    <3>1. NextStep(states) \in Actions \ Succeeded(states)
      BY <2>1, NextStepIsOpen DEF LoopInv
    <3>2. Open(NextStep(states))
      BY <1>0, <1>2, <2>1, <3>1 DEF CanTakeStep, Open, Succeeded, StateType, ActionStatus
    <3>3. /\ at' = [place |-> "start", action |-> NextStep(states)]
          /\ at' \in PlaceType
      BY <1>2, <2>1, <3>1 DEF PlaceType
    <3> HIDE DEF Open
    <3>4. ChosenAreOpen' /\ VerdictStands'
      BY <1>0, <3>2, <3>3 DEF ChosenAreOpen, VerdictStands, Open
    <3> QED BY <1>0, <1>2, <3>3, <3>4, MoveIsInOrder
  <2>2. CASE ~WorkflowOpen(states)
    <3>1. at' = [place |-> "decide"] /\ at' \in PlaceType
      BY <1>2, <2>2 DEF PlaceType
    <3>2. ChosenAreOpen' /\ VerdictStands'
      BY <3>1 DEF ChosenAreOpen, VerdictStands
    <3> QED BY <1>0, <1>2, <3>1, <3>2, MoveIsInOrder
  <2> QED BY <2>1, <2>2
<1> QED BY <1>1, <1>2 DEF BeginIteration

(* What may be offered is open.                                            *)
LEMMA DecisionIsInOrder ==
    ASSUME LoopInv, DecideNext, UNCHANGED instruction PROVE LoopInv'
<1>0. at # Ended /\ at.place = "decide" /\ UNCHANGED <<states, facts, report>>
  BY DEF DecideNext, Ended
<1>1. PICK offered \in SUBSET PlannerActions :
          at' = [place |-> "plan", offered |-> offered, attempt |-> 1]
  BY DEF DecideNext, Plan
<1>2. PlannerActions \subseteq {a \in Actions : Open(a)}
  BY DEF PlannerActions, EligibleActions, Open
<1>3. at' \in PlaceType
  BY <1>1, <1>2 DEF PlaceType
<1>4. ChosenAreOpen' /\ VerdictStands'
  BY <1>0, <1>1, <1>2 DEF ChosenAreOpen, VerdictStands, Open
<1> QED BY <1>0, <1>1, <1>3, <1>4, MoveIsInOrder DEF report

(* The planner picks from the offer, or claims completion, or errs.        *)
LEMMA AnswerIsInOrder ==
    ASSUME LoopInv, AskPlanner, UNCHANGED instruction PROVE LoopInv'
<1>0. /\ at # Ended /\ at.place = "plan" /\ UNCHANGED <<states, facts>>
      /\ at \in [place: {"plan"}, offered: SUBSET Actions, attempt: Nat]
      /\ \A a \in at.offered : Open(a)
      /\ states \in StateType /\ AttemptsHold
  BY DEF AskPlanner, Ended, LoopInv, Shape, PlaceType, ChosenAreOpen, StateType
<1>1. CASE FailRun
  BY <1>0, <1>1, FailureIsInOrder DEF AttemptsHold
<1>2. CASE at' = [at EXCEPT !.attempt = @ + 1] /\ UNCHANGED report
  <2>1. /\ at' \in [place: {"plan"}, offered: SUBSET Actions, attempt: Nat]
        /\ at'.offered = at.offered /\ at'.place = "plan"
    BY <1>0, <1>2
  <2>2. at' \in PlaceType
    BY <2>1 DEF PlaceType
  <2>3. ChosenAreOpen' /\ VerdictStands'
    BY <1>0, <2>1 DEF ChosenAreOpen, VerdictStands, Open
  <2> QED BY <1>0, <1>2, <2>1, <2>2, <2>3, MoveIsInOrder DEF report
<1>3. CASE UNCHANGED report /\ \E a \in at.offered : at' = [place |-> "start", action |-> a]
  <2>1. PICK a \in at.offered : at' = [place |-> "start", action |-> a]
    BY <1>3
  <2>2. at' \in PlaceType
    BY <1>0, <2>1 DEF PlaceType
  <2>3. ChosenAreOpen' /\ VerdictStands'
    BY <1>0, <2>1 DEF ChosenAreOpen, VerdictStands, Open
  <2> QED BY <1>0, <1>3, <2>1, <2>2, <2>3, MoveIsInOrder DEF report
<1>4. CASE /\ UNCHANGED report
           /\ at' = Iterate \/ \E polish \in BOOLEAN : at' = [place |-> "judge", polish |-> polish]
  <2>1. at' \in PlaceType /\ at'.place \in {"iterate", "judge"}
    BY <1>4 DEF PlaceType, Iterate
  <2>2. ChosenAreOpen' /\ VerdictStands'
    BY <2>1 DEF ChosenAreOpen, VerdictStands
  <2> QED BY <1>0, <1>4, <2>1, <2>2, MoveIsInOrder DEF report
<1> QED BY <1>1, <1>2, <1>3, <1>4 DEF AskPlanner

(* A chosen action starts if it still may.                                 *)
LEMMA StepStartIsInOrder ==
    ASSUME LoopInv, StartStep, UNCHANGED instruction PROVE LoopInv'
<1>0. /\ at # Ended /\ at.place = "start" /\ UNCHANGED facts
      /\ at.action \in Actions /\ Open(at.action) /\ states \in StateType /\ AttemptsHold
  BY DEF StartStep, Ended, LoopInv, Shape, PlaceType, ChosenAreOpen, StateType
<1>1. CASE at' = Iterate /\ UNCHANGED <<states, report>>
  <2>1. at' \in PlaceType /\ at'.place = "iterate"
    BY <1>1 DEF PlaceType, Iterate
  <2>2. ChosenAreOpen' /\ VerdictStands'
    BY <2>1 DEF ChosenAreOpen, VerdictStands
  <2> QED BY <1>0, <1>1, <2>1, <2>2, MoveIsInOrder DEF report
<1>2. CASE /\ CanStartAction(states, at.action)
           /\ states' = StartAction(states, at.action)
           /\ FailRun
  <2>1. /\ states' \in StateType
        /\ \A b \in Actions \ {at.action} : states'[b] = states[b]
        /\ states'[at.action] = [status |-> "Running", attempts |-> states[at.action].attempts + 1]
    BY <1>0, <1>2, StateUpdates, Zenon
  <2>2. states[at.action].attempts \in Nat /\ MaxAttempts[at.action] \in Nat
    BY <1>0, RoutesAssumption DEF StateType, Actions
  <2>3. AttemptsHold'
    BY <1>0, <1>2, <2>1, <2>2 DEF AttemptsHold, CanStartAction, Exhausted
  <2> QED BY <1>0, <1>2, <2>1, <2>3, FailureIsInOrder
<1>3. CASE /\ CanStartAction(states, at.action)
           /\ states' = StartAction(states, at.action)
           /\ at' = Executing(at.action, "none")
           /\ saved' = "executing"
           /\ UNCHANGED <<outcome, answered>>
  BY <1>0, <1>3, StartIsInOrder DEF Verdicts
<1> QED BY <1>1, <1>2, <1>3 DEF StartStep

(* A verdict is formed on the evidence; polishing starts on top of it.     *)
LEMMA JudgementIsInOrder ==
    ASSUME LoopInv, Judge, UNCHANGED instruction PROVE LoopInv'
<1> DEFINE verdict == Evaluate(states, unresolved, structured)
<1>0. /\ at # Ended /\ at.place = "judge" /\ UNCHANGED facts
      /\ states \in StateType /\ AttemptsHold /\ instruction \in Instructions
  BY DEF Judge, Ended, LoopInv, Shape, StateType
<1>1. CASE at' = Iterate /\ UNCHANGED <<states, report>>
  <2>1. at' \in PlaceType /\ at'.place = "iterate"
    BY <1>1 DEF PlaceType, Iterate
  <2>2. ChosenAreOpen' /\ VerdictStands'
    BY <2>1 DEF ChosenAreOpen, VerdictStands
  <2> QED BY <1>0, <1>1, <2>1, <2>2, MoveIsInOrder DEF report
<1>2. CASE FailRun /\ UNCHANGED states
  BY <1>0, <1>2, FailureIsInOrder DEF AttemptsHold
<1>3. verdict \in {"Complete", "RequiresReview"} => Evidence(states, verdict)
  BY <1>0, EvaluationSeesEvidence
<1>4. CASE /\ verdict \in {"Complete", "RequiresReview"}
           /\ at' = [place |-> "finish", verdict |-> verdict]
           /\ UNCHANGED <<states, report>>
  <2> HIDE DEF verdict
  <2>1. at' \in PlaceType /\ at'.place = "finish" /\ at'.verdict = verdict
    BY <1>4 DEF PlaceType
  <2>2. UNCHANGED <<unresolved, structured, instruction, states>>
    BY <1>0, <1>4 DEF facts
  <2>3. ChosenAreOpen' /\ VerdictStands'
    BY <1>3, <1>4, <2>1, <2>2
       DEF ChosenAreOpen, VerdictStands, Evidence, HardConditions, Hard, Soft, OnSoftFailure,
           Unmet, Holds
  <2> QED BY <1>0, <1>4, <2>1, <2>3, MoveIsInOrder DEF report
<1>5. CASE /\ verdict \in {"Complete", "RequiresReview"}
           /\ CanStartAction(states, Polish)
           /\ states' = StartAction(states, Polish)
           /\ at' = Executing(Polish, verdict)
           /\ UNCHANGED report
  <2> HIDE DEF verdict
  <2>1. Polish \in Actions /\ verdict \in Verdicts /\ verdict # "none"
    BY <1>5 DEF CanStartAction, Verdicts
  <2> QED BY <1>0, <1>3, <1>5, <2>1, StartIsInOrder DEF report
<1> QED BY <1>1, <1>2, <1>4, <1>5 DEF Judge

(* The verdict is written, or the run fails at the last moment.            *)
LEMMA FinishIsInOrder ==
    ASSUME LoopInv, Finish, UNCHANGED instruction PROVE LoopInv'
<1>0. /\ at.place = "finish" /\ at # Ended /\ at' = Ended
      /\ at.verdict \in {"Complete", "RequiresReview"}
      /\ Evidence(states, at.verdict)
      /\ saved \notin {"completed", "requires_review"}
      /\ UNCHANGED <<states, facts, instruction>>
  BY DEF Finish, Ended, LoopInv, Shape, PlaceType, VerdictStands, VerdictsComeLast
<1>1. Shape' /\ AttemptsHold'
  BY <1>0 DEF LoopInv, Shape, AttemptsHold, PlaceType, Ended
<1>2. PICK phase \in {"completed", "requires_review"} :
          /\ phase = "completed" => at.verdict = "Complete"
          /\ \/ outcome' = phase /\ saved' = phase /\ answered' = TRUE
             \/ /\ outcome' = "failed"
                /\ saved' \in {saved, "failed"} \cup (IF answered' THEN {phase} ELSE {})
  BY DEF Finish
<1>3. VerdictsComeLast' /\ ChosenAreOpen' /\ VerdictStands'
  BY <1>0, <1>2 DEF VerdictsComeLast, ChosenAreOpen, VerdictStands, Ended
<1>4. OneActionRuns'
  BY <1>0 DEF LoopInv, OneActionRuns, VerdictsComeLast, Ended
<1>5. DependenciesStand'
  BY <1>0 DEF LoopInv, DependenciesStand, VerdictsComeLast, DependsOn, Steps
<1>6. CompletionIsEarned'
  <2>1. /\ unresolved' = {}
        /\ Unmet(HardConditions, states, unresolved, structured)' = {}
        /\ at.verdict = "Complete" =>
              (OnSoftFailure = "complete" \/ Unmet(Soft, states, unresolved, structured) = {})'
    BY <1>0 DEF Evidence, facts, HardConditions, Hard, Soft, OnSoftFailure, Unmet, Holds
  <2>2. {outcome', saved'} \cap {"completed", "requires_review"} # {} => answered'
    BY <1>0, <1>2
  <2>3. "completed" \in {outcome', saved'} => at.verdict = "Complete"
    BY <1>0, <1>2
  <2> QED BY <2>1, <2>2, <2>3 DEF CompletionIsEarned, EvidenceStands
<1> QED BY <1>1, <1>3, <1>4, <1>5, <1>6 DEF LoopInv

(* Every step keeps the loop in order.                                     *)
LEMMA StepIsInOrder == ASSUME LoopInv, OutputsTyped, [Next]_vars PROVE LoopInv'
<1>1. CASE UNCHANGED vars
  <2>1. UNCHANGED <<at, states, structured, unresolved, outcome, saved, answered, instruction>>
    BY <1>1 DEF vars, facts, report
  <2>2. Shape' /\ AttemptsHold' /\ VerdictsComeLast'
    BY <2>1 DEF LoopInv, Shape, AttemptsHold, VerdictsComeLast
  <2>3. ChosenAreOpen' /\ OneActionRuns'
    BY <2>1 DEF LoopInv, ChosenAreOpen, Open, OneActionRuns
  <2>4. DependenciesStand'
    BY <2>1 DEF LoopInv, DependenciesStand, DependsOn, Steps
  <2>5. VerdictStands'
    BY <2>1
       DEF LoopInv, VerdictStands, Evidence, SucceedAction,
           HardConditions, Hard, Soft, OnSoftFailure, Unmet, Holds
  <2>6. CompletionIsEarned'
    BY <2>1
       DEF LoopInv, CompletionIsEarned, EvidenceStands,
           HardConditions, Hard, Soft, OnSoftFailure, Unmet, Holds
  <2> QED BY <2>2, <2>3, <2>4, <2>5, <2>6 DEF LoopInv
<1>2. CASE StopRun /\ UNCHANGED instruction
  BY <1>2, FailureIsInOrder DEF StopRun, Ended, LoopInv, Shape, StateType, AttemptsHold
<1>3. CASE TryCandidate /\ UNCHANGED instruction
  <2>1. /\ at.place = "execute" /\ UNCHANGED <<facts, instruction>>
        /\ NextCandidate \/ ActionFails \/ ActionSucceeds
    BY <1>3 DEF TryCandidate
  <2> QED BY <2>1, SuccessIsInOrder, FailedActionIsInOrder, CandidatesAreInOrder DEF facts
<1>4. CASE CallRefused /\ UNCHANGED instruction
  BY <1>4, FailedActionIsInOrder DEF CallRefused
<1>5. ASSUME NEW c \in Calls, SuppressCall(c), UNCHANGED instruction PROVE LoopInv'
  BY <1>5, SuccessIsInOrder DEF SuppressCall, facts
<1>6. ASSUME NEW c \in Calls, PlaceCall(c), UNCHANGED instruction PROVE LoopInv'
  <2>1. at.place = "execute"
    BY <1>6 DEF PlaceCall
  <2>2. CASE ActionFails
    BY <1>6, <2>1, <2>2, FailedActionIsInOrder
  <2>3. CASE /\ ActionSucceeds /\ UNCHANGED unresolved
             /\ \E output \in Values \cup {structured[at.action]} :
                   structured' = [structured EXCEPT ![at.action] =
                                     IF at.verdict = "none" THEN output ELSE @]
    <3>1. at.verdict # "none" => UNCHANGED structured
      BY <2>3 DEF OutputsTyped
    <3> QED BY <1>6, <2>1, <2>3, <3>1, SuccessIsInOrder
  <2> QED BY <1>6, <2>2, <2>3 DEF PlaceCall
<1> QED BY <1>1, <1>2, <1>3, <1>4, <1>5, <1>6, IterationIsInOrder, DecisionIsInOrder,
           AnswerIsInOrder, StepStartIsInOrder, JudgementIsInOrder, FinishIsInOrder DEF Next, Step

-----------------------------------------------------------------------------
(* The invariant of the loop, for any planner and any configuration.       *)
THEOREM LoopInvariant == Spec => [](LoopInv /\ OutputsTyped /\ Counted)
<1>1. Init => LoopInv /\ OutputsTyped /\ Counted
  <2> SUFFICES ASSUME Init PROVE LoopInv /\ OutputsTyped /\ Counted
    OBVIOUS
  <2>1. OutputsTyped
    BY DEF Init, OutputsTyped
  <2>2. Counted
    BY LoopAssumption DEF Init, Counted
  <2> QED BY <2>1, <2>2, InitIsInOrder
<1>2. LoopInv /\ OutputsTyped /\ Counted /\ [Next]_vars => (LoopInv /\ OutputsTyped /\ Counted)'
  BY StepIsInOrder, OutputsStayTyped, StepIsCounted
<1> QED BY <1>1, <1>2, PTL DEF Spec

(* A run is reported or checkpointed as completed only while every hard    *)
(* condition holds and no write is unresolved, with its answer written.    *)
THEOREM VerdictsAreEarned == Spec => []CompletionIsEarned
<1>1. LoopInv => CompletionIsEarned
  BY DEF LoopInv
<1> QED BY <1>1, LoopInvariant, PTL

(* No retry, repetition or polishing takes back what an action that was    *)
(* started has been built on.                                              *)
THEOREM DependenciesStandFirm == Spec => []DependenciesStand
<1>1. LoopInv => DependenciesStand
  BY DEF LoopInv
<1> QED BY <1>1, LoopInvariant, PTL

(* The one Running action is the one being executed.                       *)
THEOREM ActionsRunAlone == Spec => []OneActionRuns
<1>1. LoopInv => OneActionRuns
  BY DEF LoopInv
<1> QED BY <1>1, LoopInvariant, PTL

(* No more calls leave than the limits allow, and no action is tried more  *)
(* often than its route allows.                                            *)
THEOREM LimitsHold == Spec => []BudgetsHold
<1>1. LoopInv /\ Counted => BudgetsHold
  BY DEF LoopInv, AttemptsHold, Counted, BudgetsHold
<1> QED BY <1>1, LoopInvariant, PTL
=============================================================================
