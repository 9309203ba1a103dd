----------------------------- MODULE Completion -----------------------------
(***************************************************************************)
(* Evidence-based completion (completion.rs): the verdict on a run from    *)
(* the action states s, the unresolved writes and the typed adapter        *)
(* outputs.  The planner's claim only asks for the evaluation.             *)
(***************************************************************************)
EXTENDS ActionStateMachine

CONSTANTS ModelRoutes,    \* routes of kind "model"
          Values          \* values a structured condition can name

(* The policy of the selected workflow, or of the project: the declared    *)
(* hard conditions, the soft ones, and what an unmet soft one leads to.    *)
Hard == instruction.hard
Soft == instruction.soft
OnSoftFailure == instruction.onSoftFailure   \* "requires_review", "retry" or "complete"

NoValue == "no value"     \* structured holds nothing for the action

SucceededCondition(a) == [kind |-> "succeeded", action |-> a]
StructuredCondition(a, v) == [kind |-> "structured", action |-> a, expected |-> v]
EffectsResolved == [kind |-> "effects_resolved"]
PlannerClaim == [kind |-> "planner_claim"]

Conditions ==
    {EffectsResolved, PlannerClaim}
      \cup {SucceededCondition(a) : a \in Routes}
      \cup {StructuredCondition(a, v) : a \in Routes, v \in Values}

(* CompletionPolicy::validate: hard conditions are deterministic.          *)
ASSUME PolicyAssumption ==
    /\ \A i \in Instructions :
          /\ i.hard \subseteq Conditions \ ({PlannerClaim} \cup {SucceededCondition(a) : a \in ModelRoutes})
          /\ i.soft \subseteq Conditions
          /\ i.onSoftFailure \in {"requires_review", "retry", "complete"}
    /\ ModelRoutes \subseteq Routes
    /\ NoValue \notin Values

HardConditions == Hard \cup {EffectsResolved}

OfAction(c) == c.kind \in {"succeeded", "structured"}

Holds(c, s, unresolved, structured) ==
    \/ c.kind = "succeeded" /\ c.action \in Succeeded(s)
    \/ c.kind = "structured" /\ c.action \in Actions /\ structured[c.action] = c.expected
    \/ c.kind = "effects_resolved" /\ unresolved = {}
    \/ c.kind = "planner_claim"

Unmet(conditions, s, unresolved, structured) ==
    {c \in conditions : ~Holds(c, s, unresolved, structured)}

Unreachable(c, s) ==
    /\ OfAction(c)
    /\ c.action \in Actions
    /\ s[c.action].status = "Failed"
    /\ Exhausted(s, c.action)

SoftVerdict ==
    CASE OnSoftFailure = "requires_review" -> "RequiresReview"
      [] OnSoftFailure = "retry" -> "Incomplete"
      [] OnSoftFailure = "complete" -> "Complete"

Evaluate(s, unresolved, structured) ==
    LET unmetHard == Unmet(HardConditions, s, unresolved, structured)
        unmetSoft == Unmet(Soft, s, unresolved, structured)
    IN IF unresolved # {} THEN "Blocked"
       ELSE IF \E c \in unmetHard : Unreachable(c, s) THEN "Failed"
       ELSE IF unmetHard # {} THEN "Incomplete"
       ELSE IF unmetSoft = {} THEN "Complete"
       ELSE SoftVerdict
=============================================================================
