--------------------------- MODULE MCPlannerLoop ---------------------------
(***************************************************************************)
(* Small instances of PlannerLoop for TLC.  "plan" is the controller;      *)
(* "draft" and "polish" are model routes, "check" and "post" MCP routes.   *)
(***************************************************************************)
EXTENDS PlannerLoop

AllRoutes == {"plan", "draft", "check", "post", "polish"}
TheModelRoutes == {"plan", "draft", "polish"}

TwoEach == [r \in AllRoutes |-> 2]

(* check needs draft, post needs check.                                    *)
Chain == [r \in AllRoutes |-> CASE r = "check" -> {"draft"}
                                [] r = "post" -> {"check"}
                                [] OTHER -> {}]

TheCandidates == [r \in TheModelRoutes |-> IF r = "draft" THEN 2 ELSE 1]

LocalAndRemote == [r \in AllRoutes \ TheModelRoutes |-> IF r = "post" THEN "RemoteWrite" ELSE "LocalWrite"]

(* post can also prepare the very call of check.                           *)
PostRepeatsCheck ==
    [r \in AllRoutes \ TheModelRoutes |-> IF r = "post" THEN {"check", "post"} ELSE {"check"}]

(* What three instructions select: nothing but the project's own policy, a *)
(* workflow, and the policy again with the cloud opt-in.                   *)
Free == [steps |-> <<>>, optIn |-> FALSE, onSoftFailure |-> "retry",
         hard |-> {StructuredCondition("check", "good"), SucceededCondition("post")},
         soft |-> {SucceededCondition("draft"), StructuredCondition("post", "good")}]

Guided == [steps |-> <<"draft", "check", "post">>, optIn |-> FALSE, onSoftFailure |-> "complete",
           hard |-> {SucceededCondition("post")}, soft |-> {SucceededCondition("polish")}]

Reviewed == [Free EXCEPT !.optIn = TRUE, !.onSoftFailure = "requires_review",
                         !.soft = {SucceededCondition("polish")}]

TheInstructions == {Free, Guided, Reviewed}
=============================================================================
