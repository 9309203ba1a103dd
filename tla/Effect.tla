------------------------------- MODULE Effect -------------------------------
(***************************************************************************)
(* The write-effect journal (effect.rs): what was attempted outside the    *)
(* process, and what is known of it.                                       *)
(***************************************************************************)
EXTENDS Approval

CONSTANTS Requests,   \* the EffectRequests the routes and adapters can build
          MaxTtl      \* MAX_APPROVAL_TTL, in ticks

Classes == {"LocalWrite", "ExternalWrite", "Destructive"}

(* EffectRequest::new refuses reads; with_approval refuses an unapproved   *)
(* destructive write.                                                      *)
ASSUME RequestsAssumption ==
    \A r \in Requests : /\ r.operation \in Operations
                        /\ r.class \in Classes
                        /\ r.approval \in BOOLEAN
                        /\ r.class = "Destructive" => r.approval
ASSUME MaxTtlAssumption == MaxTtl \in Nat \ {0}

Unresolved == {"Started", "Uncertain"}

NewExecution ==
    [generation |-> 0, records |-> <<>>, events |-> EmptyDataflow.events,
     values |-> EmptyDataflow.values, consumed |-> EmptyDataflow.consumed,
     effects |-> <<>>, approvals |-> <<>>]

Slot(x, r) == {e \in DOMAIN x.effects : /\ x.effects[e].generation = x.generation
                                        /\ x.effects[e].operation = r.operation
                                        /\ x.effects[e].action = r.action}

Existing(x, r) == {e \in Slot(x, r) : /\ x.effects[e].resource = r.resource
                                      /\ x.effects[e].payload = r.payload}

SameGrant(f, r) == /\ f.class = r.class
                   /\ f.approval = r.approval
                   /\ f.capability = r.capability

(* reserve_effect, by outcome: a new instance, the stored one again, or    *)
(* the stored result.                                                      *)
CanReserve(x, r) ==
    /\ Existing(x, r) = {}
    /\ r.class # "LocalWrite" => \A e \in Slot(x, r) : x.effects[e].state \notin Unresolved

Reserve(x, r) ==
    [x EXCEPT !.effects = Append(@, [operation  |-> r.operation,
                                     action     |-> r.action,
                                     resource   |-> r.resource,
                                     payload    |-> r.payload,
                                     class      |-> r.class,
                                     approval   |-> r.approval,
                                     capability |-> r.capability,
                                     generation |-> x.generation,
                                     state      |-> "NotStarted",
                                     invocation |-> None])]

NewEffect(x) == Len(x.effects) + 1

CanRedispatch(x, r, e) ==
    e \in Existing(x, r) /\ SameGrant(x.effects[e], r) /\ Dispatchable(x.effects[e])

CanReuse(x, r, e) ==
    e \in Existing(x, r) /\ SameGrant(x.effects[e], r) /\ x.effects[e].state = "Confirmed"

(* start_effect_at for a pending invocation, spending approval a when the  *)
(* Effect requires one.                                                    *)
CanStart(x, e, invocation, a, now) ==
    /\ e \in DOMAIN x.effects
    /\ x.effects[e].generation = x.generation
    /\ Dispatchable(x.effects[e])
    /\ invocation \in DOMAIN x.records
    /\ x.records[invocation].operation = x.effects[e].operation
    /\ x.records[invocation].status = "Pending"
    /\ x.records[invocation].generation = x.effects[e].generation
    /\ IF x.effects[e].approval THEN a \in Usable(x, e, now) ELSE a = None

(* Mutant: the grant is used without being spent.                          *)
StartUnspent(x, e, invocation, a) ==
    [x EXCEPT !.effects[e].state = "Started",
              !.effects[e].invocation = invocation]

Start(x, e, invocation, a) ==
    [(IF x.effects[e].approval THEN ConsumeApproval(x, a, invocation) ELSE x)
        EXCEPT !.effects[e].state = "Started",
               !.effects[e].invocation = invocation]

(* finish_effect: an error of a remote write proves nothing about it.      *)
CanFinishEffect(x, e, invocation) ==
    /\ e \in DOMAIN x.effects
    /\ x.effects[e].generation = x.generation
    /\ x.effects[e].state = "Started"
    /\ x.effects[e].invocation = invocation
    /\ CanTerminate(x, invocation, x.generation)

FinishedAsReported(f, succeeded) ==   \* mutant: an error is taken for a failure
    IF succeeded THEN "Confirmed" ELSE "Failed"

FinishedState(f, succeeded) ==
    IF succeeded THEN "Confirmed"
    ELSE IF f.class = "LocalWrite" THEN "Failed" ELSE "Uncertain"

(* Mutant: an error ends the invocation and leaves the effect alone.       *)
FinishInvocationOnly(x, e, invocation, succeeded) ==
    IF succeeded
    THEN [FinishResult(x, invocation, TRUE) EXCEPT !.effects[e].state = "Confirmed"]
    ELSE FinishResult(x, invocation, FALSE)

FinishEffect(x, e, invocation, succeeded) ==
    [FinishResult(x, invocation, succeeded)
        EXCEPT !.effects[e].state = FinishedState(x.effects[e], succeeded)]

(* Mutant: an effect whose invocation has ended cannot be settled.         *)
CanReconcilePending(x, e) ==
    /\ e \in DOMAIN x.effects
    /\ x.effects[e].generation = x.generation
    /\ x.effects[e].state \in Unresolved
    /\ x.effects[e].invocation \in DOMAIN x.records
    /\ x.records[x.effects[e].invocation].status = "Pending"

(* reconcile_effect: evidence is "Confirmed", "NotFound" or                *)
(* "StillUncertain".  An invocation still pending ends with it.            *)
CanReconcile(x, e) ==
    /\ e \in DOMAIN x.effects
    /\ x.effects[e].generation = x.generation
    /\ x.effects[e].state \in Unresolved
    /\ x.effects[e].invocation # None

ReconciledState(evidence) ==
    CASE evidence = "Confirmed" -> "Confirmed"
      [] evidence = "NotFound" -> "Failed"
      [] evidence = "StillUncertain" -> "Uncertain"

Reconcile(x, e, evidence) ==
    LET i == x.effects[e].invocation
        pending == i \in DOMAIN x.records /\ x.records[i].status = "Pending"
    IN [(IF pending THEN FinishResult(x, i, evidence = "Confirmed") ELSE x)
           EXCEPT !.effects[e].state = ReconciledState(evidence)]

-----------------------------------------------------------------------------
(* validate_effects and the whole of restore().                            *)

DistinctInstances(x) ==
    \A d, e \in DOMAIN x.effects :
        LET f == x.effects[d]  g == x.effects[e] IN
        /\ f.generation = g.generation /\ f.operation = g.operation /\ f.action = g.action
        /\ f.resource = g.resource /\ f.payload = g.payload
        => d = e

ValidEffects(x) ==
    /\ DistinctInstances(x)
    /\ \A e \in DOMAIN x.effects :
          LET f == x.effects[e] IN
          /\ f.generation <= x.generation
          /\ f.invocation = None => f.state = "NotStarted"
          /\ f.invocation # None =>
                /\ f.invocation \in DOMAIN x.records
                /\ x.records[f.invocation].operation = f.operation
                /\ x.records[f.invocation].generation = f.generation
                /\ f.state = "Started" => x.records[f.invocation].status = "Pending"

Valid(x) ==
    /\ ValidRecords(x)
    /\ ValidDataflow(x)
    /\ ValidEffects(x)
    /\ ValidApprovals(x, MaxTtl)

(* Mutant: a write in flight at a crash is taken for one never sent.       *)
RestoredFresh(x) ==
    [x EXCEPT !.effects =
        [e \in DOMAIN x.effects |->
            IF x.effects[e].state = "Started"
            THEN [x.effects[e] EXCEPT !.state = "Failed"]
            ELSE x.effects[e]]]

(* A write in flight at a crash may have happened.                         *)
Restored(x) ==
    [x EXCEPT !.effects =
        [e \in DOMAIN x.effects |->
            IF x.effects[e].state = "Started"
            THEN [x.effects[e] EXCEPT !.state = "Uncertain"]
            ELSE x.effects[e]]]

-----------------------------------------------------------------------------
(* The shape of an execution state.                                        *)

Actions == {r.action : r \in Requests}
Resources == {r.resource : r \in Requests}
Contents == {r.payload : r \in Requests}
Capabilities == {r.capability : r \in Requests}

RecordType ==
    [operation: Operations, parent: Nat, cause: Nat, generation: Nat,
     attempt: Nat, status: {"Pending"} \cup Terminal]

EventType ==
    [kind: {"external"}, generation: Nat, cause: Nat, topic: Topics, payload: Payloads]
      \cup
    [kind: {"changed"}, generation: Nat, cause: Nat, name: Names, revision: Nat,
     payload: Payloads]
      \cup
    [kind: {"terminated"}, generation: Nat, cause: Nat, invocation: Nat, status: Terminal]

ValueType == [generation: Nat, revision: Nat, payload: Payloads \cup {NoPayload}]

EffectType ==
    [operation: Operations, action: Actions, resource: Resources, payload: Contents,
     class: Classes, approval: BOOLEAN, capability: Capabilities, generation: Nat,
     state: {"NotStarted", "Started", "Confirmed", "Failed", "Uncertain"}, invocation: Nat]

HashType ==
    Nat \X Nat \X Operations \X Actions \X Capabilities \X Resources \X Classes \X Contents

ApprovalType ==
    [effect: Nat, hash: HashType, state: {"Pending", "Granted", "Denied", "Consumed"},
     issued: Nat, expires: Nat, consumer: Nat]

ExecutionType ==
    [generation: Nat, records: Seq(RecordType), events: Seq(EventType),
     values: [Names -> ValueType], consumed: SUBSET Nat, effects: Seq(EffectType),
     approvals: Seq(ApprovalType)]

-----------------------------------------------------------------------------
(* What a later state y must keep of an earlier state x: confirmed effects,*)
(* failed destructive effects, ended invocations, spent or denied          *)
(* approvals and consumed events are settled for good.                     *)
KeepsEffects(x, y) ==
    \A e \in DOMAIN x.effects :
        LET f == x.effects[e] IN
        f.state = "Confirmed" \/ (f.state = "Failed" /\ f.class = "Destructive") =>
            e \in DOMAIN y.effects /\ y.effects[e] = f

KeepsRecords(x, y) ==
    \A i \in DOMAIN x.records :
        x.records[i].status # "Pending" => i \in DOMAIN y.records /\ y.records[i] = x.records[i]

KeepsApprovals(x, y) ==
    \A a \in DOMAIN x.approvals :
        x.approvals[a].state \in {"Consumed", "Denied"} =>
            a \in DOMAIN y.approvals /\ y.approvals[a] = x.approvals[a]

KeepsSettled(x, y) ==
    /\ KeepsEffects(x, y)
    /\ KeepsRecords(x, y)
    /\ KeepsApprovals(x, y)
    /\ x.consumed \subseteq y.consumed
=============================================================================
