------------------------------ MODULE Approval ------------------------------
(***************************************************************************)
(* Human approvals bound to one exact action (approval.rs).  ActionHash    *)
(* stands for the SHA-256 of the canonical action: equal exactly when the  *)
(* described actions are equal.                                            *)
(***************************************************************************)
EXTENDS Invocation

ActionHash(x, e) ==
    LET f == x.effects[e] IN
    <<e, f.generation, f.operation, f.action, f.capability, f.resource, f.class, f.payload>>

Dispatchable(f) ==
    \/ f.state = "NotStarted"
    \/ f.state = "Failed" /\ f.class # "Destructive"

Live(a, now) == a.state \in {"Pending", "Granted"} /\ now <= a.expires

HasGrantedApproval(x, e, now) ==
    \E a \in DOMAIN x.approvals : /\ x.approvals[a].effect = e
                                  /\ x.approvals[a].state = "Granted"
                                  /\ now <= x.approvals[a].expires

(* request_approval: parameters are the arguments shown to the human.      *)
CanRequestApproval(x, e, parameters, now) ==
    /\ e \in DOMAIN x.effects
    /\ x.effects[e].generation = x.generation
    /\ x.effects[e].approval
    /\ Dispatchable(x.effects[e])
    /\ parameters = x.effects[e].payload
    /\ \A a \in DOMAIN x.approvals : x.approvals[a].effect = e => ~Live(x.approvals[a], now)

RequestApproval(x, e, now, ttl) ==
    [x EXCEPT !.approvals = Append(@, [effect   |-> e,
                                       hash     |-> ActionHash(x, e),
                                       state    |-> "Pending",
                                       issued   |-> now,
                                       expires  |-> now + ttl,
                                       consumer |-> None])]

NewApproval(x) == Len(x.approvals) + 1

(* decide_approval: the answer echoes the hash of the action it was shown. *)
CanDecide(x, a, echo, now) ==
    /\ a \in DOMAIN x.approvals
    /\ x.approvals[a].state = "Pending"
    /\ now <= x.approvals[a].expires
    /\ x.approvals[a].hash = echo
    /\ x.approvals[a].effect \in DOMAIN x.effects
    /\ x.effects[x.approvals[a].effect].generation = x.generation
    /\ ActionHash(x, x.approvals[a].effect) = x.approvals[a].hash

Decide(x, a, granted) ==
    [x EXCEPT !.approvals[a].state = IF granted THEN "Granted" ELSE "Denied"]

(* Mutant: the lifetime is only checked when the human answers.            *)
UsableForever(x, e, now) ==
    {a \in DOMAIN x.approvals : /\ x.approvals[a].effect = e
                                /\ x.approvals[a].state = "Granted"
                                /\ x.approvals[a].hash = ActionHash(x, e)}

(* consume_approval picks a usable grant; it is spent in the transition    *)
(* that marks the Effect STARTED.                                          *)
Usable(x, e, now) ==
    {a \in DOMAIN x.approvals : /\ x.approvals[a].effect = e
                                /\ x.approvals[a].state = "Granted"
                                /\ now <= x.approvals[a].expires
                                /\ x.approvals[a].hash = ActionHash(x, e)}

ConsumeApproval(x, a, invocation) ==
    [x EXCEPT !.approvals[a].state = "Consumed",
              !.approvals[a].consumer = invocation]

-----------------------------------------------------------------------------
(* validate_approvals, for a maximal lifetime maxTtl (24 hours).           *)
ValidApprovals(x, maxTtl) ==
    /\ \A a \in DOMAIN x.approvals :
          LET p == x.approvals[a] IN
          /\ p.effect \in DOMAIN x.effects
          /\ x.effects[p.effect].approval
          /\ p.hash = ActionHash(x, p.effect)
          /\ p.expires > p.issued /\ p.expires <= p.issued + maxTtl
          /\ p.state = "Consumed" <=> p.consumer # None
          /\ p.consumer # None =>
                /\ p.consumer \in DOMAIN x.records
                /\ x.records[p.consumer].operation = x.effects[p.effect].operation
    /\ \A a, b \in DOMAIN x.approvals :
          x.approvals[a].consumer # None /\ x.approvals[a].consumer = x.approvals[b].consumer
             => a = b
    /\ \A e \in DOMAIN x.effects :
          x.effects[e].approval /\ x.effects[e].invocation # None =>
             \E a \in DOMAIN x.approvals : x.approvals[a].consumer = x.effects[e].invocation
=============================================================================
