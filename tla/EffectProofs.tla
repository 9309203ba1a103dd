---------------------------- MODULE EffectProofs ----------------------------
(***************************************************************************)
(* Lemmas about the operators on an execution state, for the proofs of     *)
(* Execution and of RunStore: each keeps a well-formed state well formed   *)
(* and what restore() checks, and only Consume touches the consumed        *)
(* events.                                                                 *)
(***************************************************************************)
EXTENDS Effect, WellFoundedInduction, NaturalsInduction, TLAPS

(* Attempts are numbered from 1 and never ahead of the creation order; the *)
(* type alone would not bound the search of NextAttempt.                   *)
AttemptsNumbered(x) == \A i \in DOMAIN x.records : x.records[i].attempt \in 1..i

WellFormed(x) == x \in ExecutionType /\ AttemptsNumbered(x)

-----------------------------------------------------------------------------
(* A bounded set of numbers has a least strict upper bound above 0: the    *)
(* number that begin_caused looks for exists.                              *)
LEMMA LeastUpperBound ==
    ASSUME NEW S \in SUBSET Nat, NEW bound \in Nat, \A s \in S : s <= bound
    PROVE  \E n \in 1..bound + 1 : /\ \A s \in S : s < n
                                   /\ n = 1 \/ \E s \in S : s + 1 = n
<1> DEFINE U == {n \in Nat : n >= 1 /\ \A s \in S : s < n}
<1>1. bound + 1 \in U
  OBVIOUS
<1>2. PICK n \in U : \A m \in U : <<m, n>> \notin OpToRel(<, Nat)
  BY <1>1, WFMin, NatLessThanWellFounded, Zenon
<1>3. \A m \in U : ~(m < n)
  BY <1>2, Zenon DEF OpToRel
<1>4. n <= bound + 1
  BY <1>1, <1>3
<1>5. n = 1 \/ \E s \in S : s + 1 = n
  <2>1. SUFFICES ASSUME n # 1 PROVE \E s \in S : s + 1 = n
    OBVIOUS
  <2>2. n - 1 \in Nat /\ n - 1 >= 1 /\ n - 1 < n
    BY <2>1
  <2>3. n - 1 \notin U
    BY <2>2, <1>3
  <2>4. PICK s \in S : ~(s < n - 1)
    BY <2>2, <2>3
  <2>5. s < n /\ s \in Nat
    OBVIOUS
  <2> QED BY <2>2, <2>4, <2>5
<1> QED BY <1>4, <1>5

(* The attempt number of a new invocation follows all those of its         *)
(* operation in the current generation.                                    *)
LEMMA NextAttemptFollows ==
    ASSUME NEW x, WellFormed(x), NEW operation
    PROVE  /\ NextAttempt(x, operation) \in 1..Len(x.records) + 1
           /\ \A i \in Attempts(x, operation) :
                 x.records[i].attempt < NextAttempt(x, operation)
<1> DEFINE S == {x.records[i].attempt : i \in Attempts(x, operation)}
           last == Len(x.records)
<1>1. /\ last \in Nat
      /\ DOMAIN x.records = 1..last
      /\ Attempts(x, operation) \subseteq 1..last
  BY DEF WellFormed, ExecutionType, Attempts
<1>2. \A i \in Attempts(x, operation) : x.records[i].attempt \in 1..i
  BY <1>1 DEF WellFormed, AttemptsNumbered
<1>3. S \in SUBSET Nat /\ \A s \in S : s <= last
  BY <1>1, <1>2
<1>4. PICK n \in 1..last + 1 : /\ \A s \in S : s < n
                               /\ n = 1 \/ \E s \in S : s + 1 = n
  BY <1>1, <1>3, LeastUpperBound
<1>5. /\ \A i \in Attempts(x, operation) : x.records[i].attempt < n
      /\ n = 1 \/ \E i \in Attempts(x, operation) : x.records[i].attempt + 1 = n
  BY <1>4
<1> QED BY <1>5 DEF NextAttempt

-----------------------------------------------------------------------------
(* Appending to a history and replacing one element of it.                 *)
LEMMA AppendKeeps ==
    ASSUME NEW S, NEW s \in Seq(S), NEW e \in S
    PROVE  /\ Append(s, e) \in Seq(S)
           /\ DOMAIN Append(s, e) = 1..Len(s) + 1
           /\ Append(s, e)[Len(s) + 1] = e
           /\ \A i \in DOMAIN s : Append(s, e)[i] = s[i]
  OBVIOUS

(* A fresh run has a well-formed state.                                    *)
LEMMA NewExecutionWellFormed == WellFormed(NewExecution) /\ NewExecution.consumed = {}
<1>1. NewExecution \in ExecutionType
  BY DEF NewExecution, ExecutionType, EmptyDataflow, Unset, ValueType
<1>2. NewExecution.records = <<>> /\ NewExecution.consumed = {}
  BY DEF NewExecution, EmptyDataflow
<1> QED BY <1>1, <1>2 DEF WellFormed, AttemptsNumbered

(* begin_caused appends one record of the next attempt.                    *)
LEMMA BeginKeeps ==
    ASSUME NEW x, WellFormed(x),
           NEW operation \in Operations, NEW parent \in Nat, NEW cause \in Nat
    PROVE  /\ WellFormed(Begin(x, operation, parent, cause))
           /\ Begin(x, operation, parent, cause).consumed = x.consumed
           /\ Begin(x, operation, parent, cause).effects = x.effects
           /\ Begin(x, operation, parent, cause).approvals = x.approvals
<1> DEFINE r == [operation |-> operation, parent |-> parent, cause |-> cause,
                 generation |-> x.generation, attempt |-> NextAttempt(x, operation),
                 status |-> "Pending"]
           y == Begin(x, operation, parent, cause)
<1>1. x \in ExecutionType
  BY DEF WellFormed
<1>2. NextAttempt(x, operation) \in 1..Len(x.records) + 1
  BY NextAttemptFollows
<1>3. r \in RecordType
  BY <1>1, <1>2 DEF RecordType, ExecutionType
<1>4. x.records \in Seq(RecordType)
  BY <1>1 DEF ExecutionType
<1>5. y = [x EXCEPT !.records = Append(x.records, r)]
  BY DEF Begin
<1>6. y.records = Append(x.records, r) /\ y \in ExecutionType
  <2>1. Append(x.records, r) \in Seq(RecordType)
    BY <1>3, <1>4
  <2> QED BY <1>1, <2>1, <1>5 DEF ExecutionType
<1>7. AttemptsNumbered(y)
  <2>1. \A i \in DOMAIN x.records : x.records[i].attempt \in 1..i
    BY DEF WellFormed, AttemptsNumbered
  <2>2. /\ DOMAIN Append(x.records, r) = 1..Len(x.records) + 1
        /\ Append(x.records, r)[Len(x.records) + 1] = r
        /\ \A i \in DOMAIN x.records : Append(x.records, r)[i] = x.records[i]
        /\ DOMAIN x.records = 1..Len(x.records) /\ Len(x.records) \in Nat
    BY <1>3, <1>4, AppendKeeps
  <2>3. r.attempt \in 1..Len(x.records) + 1
    BY <1>2
  <2> QED BY <1>6, <2>1, <2>2, <2>3 DEF AttemptsNumbered
<1> QED BY <1>1, <1>5, <1>6, <1>7 DEF WellFormed, ExecutionType

(* A step that leaves the records alone, or only changes statuses, keeps   *)
(* the attempts numbered.                                                  *)
LEMMA AttemptsUntouched ==
    ASSUME NEW x, NEW y, AttemptsNumbered(x),
           DOMAIN y.records = DOMAIN x.records,
           \A i \in DOMAIN x.records : y.records[i].attempt = x.records[i].attempt
    PROVE  AttemptsNumbered(y)
  BY DEF AttemptsNumbered

(* terminate sets one status and appends one event.                        *)
LEMMA TerminateKeeps ==
    ASSUME NEW x, WellFormed(x), NEW i \in DOMAIN x.records, NEW status \in Terminal
    PROVE  /\ WellFormed(Terminate(x, i, status))
           /\ Terminate(x, i, status).consumed = x.consumed
           /\ Terminate(x, i, status).effects = x.effects
           /\ Terminate(x, i, status).approvals = x.approvals
<1> DEFINE event == Terminated(x, i, status, x.records[i].cause)
           r == [x.records[i] EXCEPT !.status = status]
           y == Terminate(x, i, status)
<1>1. /\ x \in ExecutionType
      /\ x.records \in Seq(RecordType) /\ x.events \in Seq(EventType)
      /\ x.records[i] \in RecordType /\ i \in Nat
  BY DEF WellFormed, ExecutionType
<1>2. event \in EventType
  BY <1>1 DEF Terminated, EventType, RecordType, ExecutionType
<1>3. r \in RecordType /\ r.attempt = x.records[i].attempt
  BY <1>1 DEF RecordType, Terminal
<1>4. y = [x EXCEPT !.events = Append(x.events, event),
                    !.records = [x.records EXCEPT ![i] = r]]
  BY <1>1 DEF Terminate, Emit, ExecutionType
<1>5. /\ [x.records EXCEPT ![i] = r] \in Seq(RecordType)
      /\ Append(x.events, event) \in Seq(EventType)
  BY <1>1, <1>2, <1>3
<1>6. y \in ExecutionType /\ y.records = [x.records EXCEPT ![i] = r]
  BY <1>1, <1>4, <1>5 DEF ExecutionType
<1>7. AttemptsNumbered(y)
  BY <1>3, <1>6, AttemptsUntouched DEF WellFormed
<1> QED BY <1>1, <1>4, <1>6, <1>7 DEF WellFormed, ExecutionType

(* finish_result ends an invocation one way or the other.                  *)
LEMMA FinishResultKeeps ==
    ASSUME NEW x, WellFormed(x), NEW i \in DOMAIN x.records, NEW succeeded \in BOOLEAN
    PROVE  /\ WellFormed(FinishResult(x, i, succeeded))
           /\ FinishResult(x, i, succeeded).consumed = x.consumed
           /\ FinishResult(x, i, succeeded).effects = x.effects
           /\ FinishResult(x, i, succeeded).approvals = x.approvals
<1>1. (IF succeeded THEN "Completed" ELSE "Failed") \in Terminal
  BY DEF Terminal
<1> QED BY <1>1, TerminateKeeps DEF FinishResult

(* reserve_effect appends a fresh instance of the request.                 *)
LEMMA ReserveKeeps ==
    ASSUME NEW x, WellFormed(x), NEW r \in Requests
    PROVE  WellFormed(Reserve(x, r)) /\ Reserve(x, r).consumed = x.consumed
<1> DEFINE f == [operation |-> r.operation, action |-> r.action, resource |-> r.resource,
                 payload |-> r.payload, class |-> r.class, approval |-> r.approval,
                 capability |-> r.capability, generation |-> x.generation,
                 state |-> "NotStarted", invocation |-> None]
           y == Reserve(x, r)
<1>1. x \in ExecutionType
  BY DEF WellFormed
<1>2. f \in EffectType
  BY <1>1, RequestsAssumption
     DEF EffectType, ExecutionType, Actions, Resources, Contents, Capabilities, None
<1>3. Append(x.effects, f) \in Seq(EffectType)
  BY <1>1, <1>2 DEF ExecutionType
<1>4. y = [x EXCEPT !.effects = Append(x.effects, f)]
  BY DEF Reserve
<1>5. y \in ExecutionType /\ y.records = x.records /\ y.consumed = x.consumed
  BY <1>1, <1>3, <1>4 DEF ExecutionType
<1> QED BY <1>5, AttemptsUntouched DEF WellFormed

(* Setting the state and the invocation of one effect.                     *)
LEMMA EffectUpdateKeeps ==
    ASSUME NEW x, WellFormed(x), NEW e \in DOMAIN x.effects, NEW f \in EffectType
    PROVE  /\ WellFormed([x EXCEPT !.effects[e] = f])
           /\ [x EXCEPT !.effects[e] = f].consumed = x.consumed
<1> DEFINE y == [x EXCEPT !.effects[e] = f]
<1>1. x \in ExecutionType /\ x.effects \in Seq(EffectType)
  BY DEF WellFormed, ExecutionType
<1>2. [x.effects EXCEPT ![e] = f] \in Seq(EffectType)
  BY <1>1
<1>3. y = [x EXCEPT !.effects = [x.effects EXCEPT ![e] = f]]
  BY <1>1 DEF ExecutionType
<1>4. y \in ExecutionType /\ y.records = x.records /\ y.consumed = x.consumed
  BY <1>1, <1>2, <1>3 DEF ExecutionType
<1> QED BY <1>4, AttemptsUntouched DEF WellFormed

(* Setting one approval.                                                   *)
LEMMA ApprovalUpdateKeeps ==
    ASSUME NEW x, WellFormed(x), NEW a \in DOMAIN x.approvals, NEW p \in ApprovalType
    PROVE  /\ WellFormed([x EXCEPT !.approvals[a] = p])
           /\ [x EXCEPT !.approvals[a] = p].consumed = x.consumed
           /\ [x EXCEPT !.approvals[a] = p].effects = x.effects
<1> DEFINE y == [x EXCEPT !.approvals[a] = p]
<1>1. x \in ExecutionType /\ x.approvals \in Seq(ApprovalType)
  BY DEF WellFormed, ExecutionType
<1>2. [x.approvals EXCEPT ![a] = p] \in Seq(ApprovalType)
  BY <1>1
<1>3. y = [x EXCEPT !.approvals = [x.approvals EXCEPT ![a] = p]]
  BY <1>1 DEF ExecutionType
<1>4. /\ y \in ExecutionType
      /\ y.records = x.records /\ y.consumed = x.consumed /\ y.effects = x.effects
  BY <1>1, <1>2, <1>3 DEF ExecutionType
<1> QED BY <1>4, AttemptsUntouched DEF WellFormed

(* consume_approval spends one grant.                                      *)
LEMMA ConsumeApprovalKeeps ==
    ASSUME NEW x, WellFormed(x), NEW a \in DOMAIN x.approvals, NEW invocation \in Nat
    PROVE  /\ WellFormed(ConsumeApproval(x, a, invocation))
           /\ ConsumeApproval(x, a, invocation).consumed = x.consumed
           /\ ConsumeApproval(x, a, invocation).effects = x.effects
<1> DEFINE p == [x.approvals[a] EXCEPT !.state = "Consumed", !.consumer = invocation]
<1>1. x \in ExecutionType /\ x.approvals[a] \in ApprovalType
  BY DEF WellFormed, ExecutionType
<1>2. p \in ApprovalType
  BY <1>1 DEF ApprovalType
<1>3. ConsumeApproval(x, a, invocation) = [x EXCEPT !.approvals[a] = p]
  BY <1>1 DEF ConsumeApproval, ExecutionType, ApprovalType
<1> QED BY <1>2, <1>3, ApprovalUpdateKeeps

(* start_effect marks the effect STARTED and spends its grant.             *)
LEMMA StartKeeps ==
    ASSUME NEW x, WellFormed(x), NEW e \in DOMAIN x.effects, NEW invocation \in Nat, NEW a,
           x.effects[e].approval => a \in DOMAIN x.approvals
    PROVE  /\ WellFormed(Start(x, e, invocation, a))
           /\ Start(x, e, invocation, a).consumed = x.consumed
<1> DEFINE y == IF x.effects[e].approval THEN ConsumeApproval(x, a, invocation) ELSE x
           f == [y.effects[e] EXCEPT !.state = "Started", !.invocation = invocation]
<1>1. WellFormed(y) /\ y.consumed = x.consumed /\ y.effects = x.effects
  BY ConsumeApprovalKeeps
<1>2. y \in ExecutionType /\ e \in DOMAIN y.effects /\ y.effects[e] \in EffectType
  BY <1>1 DEF WellFormed, ExecutionType
<1>3. f \in EffectType
  BY <1>2 DEF EffectType
<1>4. Start(x, e, invocation, a) = [y EXCEPT !.effects[e] = f]
  BY <1>2 DEF Start, ExecutionType, EffectType
<1> QED BY <1>1, <1>2, <1>3, <1>4, EffectUpdateKeeps

(* finish_effect ends the invocation and the effect together.              *)
LEMMA FinishEffectKeeps ==
    ASSUME NEW x, WellFormed(x), NEW e \in DOMAIN x.effects,
           NEW invocation \in DOMAIN x.records, NEW succeeded \in BOOLEAN
    PROVE  /\ WellFormed(FinishEffect(x, e, invocation, succeeded))
           /\ FinishEffect(x, e, invocation, succeeded).consumed = x.consumed
<1> DEFINE y == FinishResult(x, invocation, succeeded)
           f == [y.effects[e] EXCEPT !.state = FinishedState(x.effects[e], succeeded)]
<1>1. WellFormed(y) /\ y.consumed = x.consumed /\ y.effects = x.effects
  BY FinishResultKeeps
<1>2. y \in ExecutionType /\ e \in DOMAIN y.effects /\ y.effects[e] \in EffectType
  BY <1>1 DEF WellFormed, ExecutionType
<1>3. f \in EffectType
  BY <1>2 DEF EffectType, FinishedState
<1>4. FinishEffect(x, e, invocation, succeeded) = [y EXCEPT !.effects[e] = f]
  BY <1>2 DEF FinishEffect, ExecutionType, EffectType
<1> QED BY <1>1, <1>2, <1>3, <1>4, EffectUpdateKeeps

(* reconcile_effect records the evidence, and ends a pending invocation.   *)
LEMMA ReconcileKeeps ==
    ASSUME NEW x, WellFormed(x), NEW e \in DOMAIN x.effects,
           NEW evidence \in {"Confirmed", "NotFound", "StillUncertain"}
    PROVE  /\ WellFormed(Reconcile(x, e, evidence))
           /\ Reconcile(x, e, evidence).consumed = x.consumed
<1> DEFINE i == x.effects[e].invocation
           pending == i \in DOMAIN x.records /\ x.records[i].status = "Pending"
           y == IF pending THEN FinishResult(x, i, evidence = "Confirmed") ELSE x
           f == [y.effects[e] EXCEPT !.state = ReconciledState(evidence)]
<1>1. WellFormed(y) /\ y.consumed = x.consumed /\ y.effects = x.effects
  BY FinishResultKeeps
<1>2. y \in ExecutionType /\ e \in DOMAIN y.effects /\ y.effects[e] \in EffectType
  BY <1>1 DEF WellFormed, ExecutionType
<1>3. f \in EffectType
  BY <1>2 DEF EffectType, ReconciledState
<1>4. Reconcile(x, e, evidence) = [y EXCEPT !.effects[e] = f]
  BY <1>2 DEF Reconcile, ExecutionType, EffectType
<1> HIDE DEF y, f
<1> QED BY <1>1, <1>2, <1>3, <1>4, EffectUpdateKeeps

(* request_approval appends a pending approval bound to the action hash.   *)
LEMMA RequestApprovalKeeps ==
    ASSUME NEW x, WellFormed(x), NEW e \in DOMAIN x.effects, NEW now \in Nat, NEW ttl \in Nat
    PROVE  /\ WellFormed(RequestApproval(x, e, now, ttl))
           /\ RequestApproval(x, e, now, ttl).consumed = x.consumed
<1> DEFINE p == [effect |-> e, hash |-> ActionHash(x, e), state |-> "Pending",
                 issued |-> now, expires |-> now + ttl, consumer |-> None]
           y == RequestApproval(x, e, now, ttl)
<1>1. x \in ExecutionType /\ x.effects[e] \in EffectType /\ e \in Nat
  BY DEF WellFormed, ExecutionType
<1>2. ActionHash(x, e) \in HashType
  BY <1>1 DEF ActionHash, HashType, EffectType
<1>3. p \in ApprovalType
  BY <1>1, <1>2 DEF ApprovalType, None
<1>4. Append(x.approvals, p) \in Seq(ApprovalType)
  BY <1>1, <1>3 DEF ExecutionType
<1>5. y = [x EXCEPT !.approvals = Append(x.approvals, p)]
  BY DEF RequestApproval
<1>6. y \in ExecutionType /\ y.records = x.records /\ y.consumed = x.consumed
  BY <1>1, <1>4, <1>5 DEF ExecutionType
<1> QED BY <1>6, AttemptsUntouched DEF WellFormed

(* decide_approval records the human's answer.                             *)
LEMMA DecideKeeps ==
    ASSUME NEW x, WellFormed(x), NEW a \in DOMAIN x.approvals, NEW granted \in BOOLEAN
    PROVE  WellFormed(Decide(x, a, granted)) /\ Decide(x, a, granted).consumed = x.consumed
<1> DEFINE p == [x.approvals[a] EXCEPT !.state = IF granted THEN "Granted" ELSE "Denied"]
<1>1. x \in ExecutionType /\ x.approvals[a] \in ApprovalType
  BY DEF WellFormed, ExecutionType
<1>2. p \in ApprovalType
  BY <1>1 DEF ApprovalType
<1>3. Decide(x, a, granted) = [x EXCEPT !.approvals[a] = p]
  BY <1>1 DEF Decide, ExecutionType, ApprovalType
<1> QED BY <1>2, <1>3, ApprovalUpdateKeeps

(* Appending an event leaves the rest of the state alone.                  *)
LEMMA EmitKeeps ==
    ASSUME NEW x, WellFormed(x), NEW event \in EventType
    PROVE  /\ WellFormed(Emit(x, event))
           /\ Emit(x, event).consumed = x.consumed
           /\ Emit(x, event).values = x.values
           /\ Emit(x, event).records = x.records
<1>1. x \in ExecutionType
  BY DEF WellFormed
<1>2. Append(x.events, event) \in Seq(EventType)
  BY <1>1 DEF ExecutionType
<1>3. /\ Emit(x, event) \in ExecutionType
      /\ Emit(x, event).consumed = x.consumed
      /\ Emit(x, event).values = x.values
      /\ Emit(x, event).records = x.records
  BY <1>1, <1>2 DEF Emit, ExecutionType
<1> QED BY <1>3, AttemptsUntouched DEF WellFormed

(* publish_event appends to the history.                                   *)
LEMMA PublishKeeps ==
    ASSUME NEW x, WellFormed(x), NEW topic \in Topics, NEW payload \in Payloads,
           NEW cause \in Nat
    PROVE  /\ WellFormed(Publish(x, topic, payload, cause))
           /\ Publish(x, topic, payload, cause).consumed = x.consumed
<1>1. External(x, topic, payload, cause) \in EventType
  BY DEF WellFormed, ExecutionType, External, EventType
<1> QED BY <1>1, EmitKeeps DEF Publish

(* assign_value appends a change and replaces the value, or does nothing.  *)
LEMMA AssignKeeps ==
    ASSUME NEW x, WellFormed(x), NEW name \in Names, NEW payload \in Payloads
    PROVE  WellFormed(Assign(x, name, payload)) /\ Assign(x, name, payload).consumed = x.consumed
<1>1. x \in ExecutionType /\ x.values[name] \in ValueType /\ x.generation \in Nat
  BY DEF WellFormed, ExecutionType
<1>2. NextRevision(x, name) \in Nat
  BY <1>1 DEF NextRevision, ValueType
<1> DEFINE event == Changed(x, name, NextRevision(x, name), payload)
           v == [generation |-> x.generation, revision |-> NextRevision(x, name),
                 payload |-> payload]
           y == Emit(x, event)
           z == [y EXCEPT !.values[name] = v]
<1>3. event \in EventType
  BY <1>1, <1>2 DEF Changed, EventType, None
<1>4. v \in ValueType
  BY <1>1, <1>2 DEF ValueType
<1>5. WellFormed(y) /\ y.consumed = x.consumed
  BY <1>3, EmitKeeps
<1>6. y \in ExecutionType
  BY <1>5 DEF WellFormed
<1>7. z \in ExecutionType /\ z.consumed = y.consumed /\ z.records = y.records
  <2> HIDE DEF y, v
  <2>1. [y.values EXCEPT ![name] = v] \in [Names -> ValueType]
    BY <1>4, <1>6 DEF ExecutionType
  <2>2. z = [y EXCEPT !.values = [y.values EXCEPT ![name] = v]]
    BY <1>6 DEF ExecutionType
  <2> QED BY <1>6, <2>1, <2>2 DEF ExecutionType
<1>8. WellFormed(z)
  <2> HIDE DEF y, z
  <2> QED BY <1>5, <1>7, AttemptsUntouched DEF WellFormed
<1>9. Assign(x, name, payload) = IF SameValue(x, name, payload) THEN x ELSE z
  BY DEF Assign
<1> HIDE DEF y, z
<1> QED BY <1>5, <1>7, <1>8, <1>9

(* consume_event adds one id to the consumed set.                          *)
LEMMA ConsumeKeeps ==
    ASSUME NEW x, WellFormed(x), NEW event \in DOMAIN x.events
    PROVE  /\ WellFormed(Consume(x, event))
           /\ Consume(x, event).consumed = x.consumed \cup {event}
<1>1. x \in ExecutionType /\ event \in Nat
  BY DEF WellFormed, ExecutionType
<1>2. /\ Consume(x, event) \in ExecutionType
      /\ Consume(x, event).consumed = x.consumed \cup {event}
      /\ Consume(x, event).records = x.records
  BY <1>1 DEF Consume, ExecutionType
<1> QED BY <1>2, AttemptsUntouched DEF WellFormed

(* restore() turns what was in flight into uncertain writes.               *)
LEMMA RestoredKeeps ==
    ASSUME NEW x, WellFormed(x)
    PROVE  WellFormed(Restored(x)) /\ Restored(x).consumed = x.consumed
<1> DEFINE g(e) == IF x.effects[e].state = "Started"
                   THEN [x.effects[e] EXCEPT !.state = "Uncertain"]
                   ELSE x.effects[e]
           fs == [e \in DOMAIN x.effects |-> g(e)]
<1>1. x \in ExecutionType /\ x.effects \in Seq(EffectType)
  BY DEF WellFormed, ExecutionType
<1>2. \A e \in DOMAIN x.effects : g(e) \in EffectType
  <2>1. SUFFICES ASSUME NEW e \in DOMAIN x.effects PROVE g(e) \in EffectType
    OBVIOUS
  <2>2. x.effects[e] \in EffectType
    BY <1>1
  <2> QED BY <2>2 DEF EffectType
<1>3. fs \in Seq(EffectType)
  <2> HIDE DEF g
  <2> QED BY <1>1, <1>2
<1>4. Restored(x) = [x EXCEPT !.effects = fs]
  BY Zenon DEF Restored
<1> HIDE DEF fs
<1>5. /\ Restored(x) \in ExecutionType
      /\ Restored(x).records = x.records /\ Restored(x).consumed = x.consumed
  BY <1>1, <1>3, <1>4 DEF ExecutionType
<1> QED BY <1>5, AttemptsUntouched DEF WellFormed

-----------------------------------------------------------------------------
(* What every operator leaves of the past: the settled facts, and whether  *)
(* an effect needs an approval.                                            *)
KeepsNeeds(x, y) ==
    \A e \in DOMAIN x.effects :
        e \in DOMAIN y.effects /\ y.effects[e].approval = x.effects[e].approval

Evolves(x, y) == KeepsSettled(x, y) /\ KeepsNeeds(x, y)

SettledEffect(f) == f.state = "Confirmed" \/ (f.state = "Failed" /\ f.class = "Destructive")

(* Nothing is lost by standing still.                                      *)
LEMMA EvolvesReflexive == ASSUME NEW x PROVE Evolves(x, x)
  BY DEF Evolves, KeepsSettled, KeepsEffects, KeepsRecords, KeepsApprovals, KeepsNeeds

(* What two steps keep one after the other they keep together.             *)
LEMMA EvolvesTransitive ==
    ASSUME NEW x, NEW y, NEW z, Evolves(x, y), Evolves(y, z)
    PROVE  Evolves(x, z)
<1> USE DEF Evolves, KeepsSettled
<1>1. KeepsEffects(x, z)
  BY DEF KeepsEffects
<1>2. KeepsRecords(x, z)
  BY DEF KeepsRecords
<1>3. KeepsApprovals(x, z)
  BY DEF KeepsApprovals
<1>4. KeepsNeeds(x, z)
  BY DEF KeepsNeeds
<1> QED BY <1>1, <1>2, <1>3, <1>4

(* A step that only moves records, or only events and values.              *)
LEMMA RecordsEvolve ==
    ASSUME NEW x, NEW y, KeepsRecords(x, y), x.consumed \subseteq y.consumed,
           y.effects = x.effects, y.approvals = x.approvals
    PROVE  Evolves(x, y)
  BY DEF Evolves, KeepsSettled, KeepsEffects, KeepsApprovals, KeepsNeeds

(* A step that replaces an effect which is not settled.                    *)
LEMMA EffectEvolves ==
    ASSUME NEW x, WellFormed(x), NEW e \in DOMAIN x.effects, NEW f,
           ~SettledEffect(x.effects[e]), f.approval = x.effects[e].approval
    PROVE  Evolves(x, [x EXCEPT !.effects[e] = f])
<1> DEFINE y == [x EXCEPT !.effects[e] = f]
<1>1. /\ y.effects = [x.effects EXCEPT ![e] = f]
      /\ y.records = x.records /\ y.approvals = x.approvals /\ y.consumed = x.consumed
  BY DEF WellFormed, ExecutionType
<1> HIDE DEF y
<1>2. /\ DOMAIN y.effects = DOMAIN x.effects
      /\ y.effects[e] = f
      /\ \A d \in DOMAIN x.effects : d # e => y.effects[d] = x.effects[d]
  BY <1>1
<1>3. KeepsEffects(x, y) /\ KeepsNeeds(x, y)
  BY <1>2 DEF KeepsEffects, KeepsNeeds, SettledEffect
<1>4. KeepsRecords(x, y) /\ KeepsApprovals(x, y)
  BY <1>1 DEF KeepsRecords, KeepsApprovals
<1> QED BY <1>1, <1>3, <1>4 DEF Evolves, KeepsSettled, y

(* A step that replaces an approval which is not settled.                  *)
LEMMA ApprovalEvolves ==
    ASSUME NEW x, WellFormed(x), NEW a \in DOMAIN x.approvals, NEW p,
           x.approvals[a].state \notin {"Consumed", "Denied"}
    PROVE  Evolves(x, [x EXCEPT !.approvals[a] = p])
<1> DEFINE y == [x EXCEPT !.approvals[a] = p]
<1>1. /\ y.approvals = [x.approvals EXCEPT ![a] = p]
      /\ y.records = x.records /\ y.effects = x.effects /\ y.consumed = x.consumed
  BY DEF WellFormed, ExecutionType
<1> HIDE DEF y
<1>2. KeepsApprovals(x, y)
  BY <1>1 DEF KeepsApprovals
<1>3. KeepsRecords(x, y) /\ KeepsEffects(x, y) /\ KeepsNeeds(x, y)
  BY <1>1 DEF KeepsRecords, KeepsEffects, KeepsNeeds
<1> QED BY <1>1, <1>2, <1>3 DEF Evolves, KeepsSettled, y

(* begin_caused only adds a record.                                        *)
LEMMA BeginEvolves ==
    ASSUME NEW x, WellFormed(x),
           NEW operation \in Operations, NEW parent \in Nat, NEW cause \in Nat
    PROVE  Evolves(x, Begin(x, operation, parent, cause))
<1> DEFINE y == Begin(x, operation, parent, cause)
<1>1. /\ y.consumed = x.consumed /\ y.effects = x.effects /\ y.approvals = x.approvals
      /\ y \in ExecutionType
  BY BeginKeeps DEF WellFormed
<1>2. PICK r : y.records = Append(x.records, r)
  BY DEF Begin, WellFormed, ExecutionType
<1>3. x.records \in Seq(RecordType) /\ y.records \in Seq(RecordType)
  BY <1>1 DEF WellFormed, ExecutionType
<1> HIDE DEF y
<1>4. \A i \in DOMAIN x.records : i \in DOMAIN y.records /\ y.records[i] = x.records[i]
  BY <1>2, <1>3
<1>5. KeepsRecords(x, y)
  BY <1>4 DEF KeepsRecords
<1> QED BY <1>1, <1>5, RecordsEvolve DEF y

(* terminate moves one pending record.                                     *)
LEMMA TerminateEvolves ==
    ASSUME NEW x, WellFormed(x), NEW i \in DOMAIN x.records, NEW status \in Terminal,
           x.records[i].status = "Pending"
    PROVE  Evolves(x, Terminate(x, i, status))
<1> DEFINE y == Terminate(x, i, status)
<1>1. y.consumed = x.consumed /\ y.effects = x.effects /\ y.approvals = x.approvals
  BY TerminateKeeps
<1>2. y.records = [x.records EXCEPT ![i] = [x.records[i] EXCEPT !.status = status]]
  BY DEF Terminate, Emit, WellFormed, ExecutionType
<1> HIDE DEF y
<1>3. KeepsRecords(x, y)
  BY <1>2 DEF KeepsRecords
<1> QED BY <1>1, <1>3, RecordsEvolve DEF y

(* finish_result ends a pending record, in either way.                     *)
LEMMA FinishResultEvolves ==
    ASSUME NEW x, WellFormed(x), NEW i \in DOMAIN x.records, NEW succeeded \in BOOLEAN,
           x.records[i].status = "Pending"
    PROVE  Evolves(x, FinishResult(x, i, succeeded))
<1>1. (IF succeeded THEN "Completed" ELSE "Failed") \in Terminal
  BY DEF Terminal
<1> QED BY <1>1, TerminateEvolves DEF FinishResult

(* reserve_effect only adds an effect.                                     *)
LEMMA ReserveEvolves ==
    ASSUME NEW x, WellFormed(x), NEW r \in Requests
    PROVE  Evolves(x, Reserve(x, r))
<1> DEFINE y == Reserve(x, r)
<1>1. /\ y.consumed = x.consumed /\ y.records = x.records /\ y.approvals = x.approvals
      /\ y \in ExecutionType
  BY ReserveKeeps DEF Reserve, WellFormed, ExecutionType
<1>2. PICK f : y.effects = Append(x.effects, f)
  BY DEF Reserve, WellFormed, ExecutionType
<1>3. x.effects \in Seq(EffectType) /\ y.effects \in Seq(EffectType)
  BY <1>1 DEF WellFormed, ExecutionType
<1> HIDE DEF y
<1>4. \A e \in DOMAIN x.effects : e \in DOMAIN y.effects /\ y.effects[e] = x.effects[e]
  BY <1>2, <1>3
<1>5. KeepsEffects(x, y) /\ KeepsNeeds(x, y)
  BY <1>4 DEF KeepsEffects, KeepsNeeds
<1>6. KeepsRecords(x, y) /\ KeepsApprovals(x, y)
  BY <1>1 DEF KeepsRecords, KeepsApprovals
<1> QED BY <1>1, <1>5, <1>6 DEF Evolves, KeepsSettled, y

(* request_approval only adds an approval.                                 *)
LEMMA RequestApprovalEvolves ==
    ASSUME NEW x, WellFormed(x), NEW e \in DOMAIN x.effects, NEW now \in Nat, NEW ttl \in Nat
    PROVE  Evolves(x, RequestApproval(x, e, now, ttl))
<1> DEFINE y == RequestApproval(x, e, now, ttl)
<1>1. /\ y.consumed = x.consumed /\ y.records = x.records /\ y.effects = x.effects
      /\ y \in ExecutionType
  BY RequestApprovalKeeps DEF RequestApproval, WellFormed, ExecutionType
<1>2. PICK p : y.approvals = Append(x.approvals, p)
  BY DEF RequestApproval, WellFormed, ExecutionType
<1>3. x.approvals \in Seq(ApprovalType) /\ y.approvals \in Seq(ApprovalType)
  BY <1>1 DEF WellFormed, ExecutionType
<1> HIDE DEF y
<1>4. \A a \in DOMAIN x.approvals : a \in DOMAIN y.approvals /\ y.approvals[a] = x.approvals[a]
  BY <1>2, <1>3
<1>5. KeepsApprovals(x, y)
  BY <1>4 DEF KeepsApprovals
<1>6. KeepsRecords(x, y) /\ KeepsEffects(x, y) /\ KeepsNeeds(x, y)
  BY <1>1 DEF KeepsRecords, KeepsEffects, KeepsNeeds
<1> QED BY <1>1, <1>5, <1>6 DEF Evolves, KeepsSettled, y

(* decide_approval answers a pending question only.                        *)
LEMMA DecideEvolves ==
    ASSUME NEW x, WellFormed(x), NEW a \in DOMAIN x.approvals, NEW granted \in BOOLEAN,
           x.approvals[a].state = "Pending"
    PROVE  Evolves(x, Decide(x, a, granted))
<1> DEFINE p == [x.approvals[a] EXCEPT !.state = IF granted THEN "Granted" ELSE "Denied"]
<1>1. Decide(x, a, granted) = [x EXCEPT !.approvals[a] = p]
  BY DEF Decide, WellFormed, ExecutionType, ApprovalType
<1> QED BY <1>1, ApprovalEvolves

(* consume_approval spends a grant that was not spent.                     *)
LEMMA ConsumeApprovalEvolves ==
    ASSUME NEW x, WellFormed(x), NEW a \in DOMAIN x.approvals, NEW invocation \in Nat,
           x.approvals[a].state = "Granted"
    PROVE  Evolves(x, ConsumeApproval(x, a, invocation))
<1> DEFINE p == [x.approvals[a] EXCEPT !.state = "Consumed", !.consumer = invocation]
<1>1. ConsumeApproval(x, a, invocation) = [x EXCEPT !.approvals[a] = p]
  BY DEF ConsumeApproval, WellFormed, ExecutionType, ApprovalType
<1> QED BY <1>1, ApprovalEvolves

(* Dispatchable effects are never settled ones.                            *)
LEMMA DispatchableIsOpen ==
    ASSUME NEW f, Dispatchable(f) PROVE ~SettledEffect(f)
  BY DEF Dispatchable, SettledEffect

(* Approval a of x was given for effect e and spent by the invocation.     *)
SpentFor(x, e, invocation, a) ==
    /\ a \in DOMAIN x.approvals
    /\ x.approvals[a].effect = e
    /\ x.approvals[a].state = "Consumed"
    /\ x.approvals[a].consumer = invocation

(* start_effect moves a dispatchable effect, and an effect that needs an   *)
(* approval leaves one behind that this very invocation has spent.         *)
LEMMA StartEvolves ==
    ASSUME NEW x, WellFormed(x), NEW e, NEW invocation \in Nat, NEW a, NEW now,
           CanStart(x, e, invocation, a, now)
    PROVE  /\ Evolves(x, Start(x, e, invocation, a))
           /\ e \in DOMAIN Start(x, e, invocation, a).effects
           /\ x.effects[e].approval => SpentFor(Start(x, e, invocation, a), e, invocation, a)
<1> DEFINE y == IF x.effects[e].approval THEN ConsumeApproval(x, a, invocation) ELSE x
           f == [y.effects[e] EXCEPT !.state = "Started", !.invocation = invocation]
           z == [y EXCEPT !.effects[e] = f]
<1>1. /\ e \in DOMAIN x.effects /\ ~SettledEffect(x.effects[e])
      /\ x.effects[e].approval => /\ a \in DOMAIN x.approvals
                                  /\ x.approvals[a].state = "Granted"
                                  /\ x.approvals[a].effect = e
  BY DispatchableIsOpen DEF CanStart, Usable
<1>2. WellFormed(y) /\ y.effects = x.effects
  BY <1>1, ConsumeApprovalKeeps
<1>3. Evolves(x, y)
  BY <1>1, ConsumeApprovalEvolves, EvolvesReflexive
<1>4. x.effects[e].approval =>
         /\ a \in DOMAIN y.approvals /\ y.approvals[a].effect = e
         /\ y.approvals[a].state = "Consumed" /\ y.approvals[a].consumer = invocation
  <2>1. SUFFICES ASSUME x.effects[e].approval
                 PROVE  /\ a \in DOMAIN y.approvals /\ y.approvals[a].effect = e
                        /\ y.approvals[a].state = "Consumed" /\ y.approvals[a].consumer = invocation
    OBVIOUS
  <2>4. y = ConsumeApproval(x, a, invocation)
    BY <2>1
  <2>5. a \in DOMAIN x.approvals /\ x.approvals[a].state = "Granted"
    BY <1>1, <2>1
  <2>6. /\ a \in DOMAIN ConsumeApproval(x, a, invocation).approvals
        /\ ConsumeApproval(x, a, invocation).approvals[a] =
              [x.approvals[a] EXCEPT !.state = "Consumed", !.consumer = invocation]
    BY <2>5 DEF ConsumeApproval, WellFormed, ExecutionType
  <2> HIDE DEF y
  <2>2. /\ a \in DOMAIN y.approvals
        /\ y.approvals[a] = [x.approvals[a] EXCEPT !.state = "Consumed", !.consumer = invocation]
    BY <2>4, <2>6
  <2>3. x.approvals[a] \in ApprovalType
    BY <1>1, <2>1 DEF WellFormed, ExecutionType
  <2> QED BY <1>1, <2>1, <2>2, <2>3 DEF ApprovalType
<1>5. Start(x, e, invocation, a) = z
  BY <1>1, <1>2 DEF Start, WellFormed, ExecutionType, EffectType
<1>6. f.approval = y.effects[e].approval
  BY <1>1, <1>2 DEF WellFormed, ExecutionType, EffectType
<1> HIDE DEF y, f
<1>7. Evolves(y, z)
  BY <1>1, <1>2, <1>6, EffectEvolves
<1>8. z.approvals = y.approvals /\ DOMAIN z.effects = DOMAIN x.effects
  BY <1>2 DEF WellFormed, ExecutionType
<1> HIDE DEF z
<1>9. x.effects[e].approval => SpentFor(z, e, invocation, a)
  BY <1>4, <1>8 DEF SpentFor
<1> QED BY <1>1, <1>3, <1>5, <1>7, <1>8, <1>9, EvolvesTransitive

(* finish_effect and reconcile_effect move an effect in flight.            *)
LEMMA FinishEffectEvolves ==
    ASSUME NEW x, WellFormed(x), NEW e, NEW invocation, NEW succeeded \in BOOLEAN,
           CanFinishEffect(x, e, invocation)
    PROVE  Evolves(x, FinishEffect(x, e, invocation, succeeded))
<1> DEFINE y == FinishResult(x, invocation, succeeded)
           f == [y.effects[e] EXCEPT !.state = FinishedState(x.effects[e], succeeded)]
<1>1. /\ e \in DOMAIN x.effects /\ ~SettledEffect(x.effects[e])
      /\ invocation \in DOMAIN x.records /\ x.records[invocation].status = "Pending"
  BY DEF CanFinishEffect, CanTerminate, SettledEffect
<1>2. WellFormed(y) /\ y.effects = x.effects
  BY <1>1, FinishResultKeeps
<1>3. Evolves(x, y)
  BY <1>1, FinishResultEvolves
<1>4. FinishEffect(x, e, invocation, succeeded) = [y EXCEPT !.effects[e] = f]
  BY <1>1, <1>2 DEF FinishEffect, WellFormed, ExecutionType, EffectType
<1>5. f.approval = y.effects[e].approval
  BY <1>1, <1>2 DEF WellFormed, ExecutionType, EffectType
<1> HIDE DEF y, f
<1>6. Evolves(y, [y EXCEPT !.effects[e] = f])
  BY <1>1, <1>2, <1>5, EffectEvolves
<1> QED BY <1>3, <1>4, <1>6, EvolvesTransitive

(* reconcile_effect settles an unresolved effect, and its pending record.  *)
LEMMA ReconcileEvolves ==
    ASSUME NEW x, WellFormed(x), NEW e, NEW evidence, CanReconcile(x, e)
    PROVE  Evolves(x, Reconcile(x, e, evidence))
<1> DEFINE i == x.effects[e].invocation
           pending == i \in DOMAIN x.records /\ x.records[i].status = "Pending"
           y == IF pending THEN FinishResult(x, i, evidence = "Confirmed") ELSE x
           f == [y.effects[e] EXCEPT !.state = ReconciledState(evidence)]
<1>1. e \in DOMAIN x.effects /\ ~SettledEffect(x.effects[e])
  BY DEF CanReconcile, SettledEffect, Unresolved
<1>2. WellFormed(y) /\ y.effects = x.effects
  BY FinishResultKeeps
<1>3. Evolves(x, y)
  BY FinishResultEvolves, EvolvesReflexive
<1>4. Reconcile(x, e, evidence) = [y EXCEPT !.effects[e] = f]
  BY <1>1, <1>2 DEF Reconcile, WellFormed, ExecutionType, EffectType
<1>5. f.approval = y.effects[e].approval
  BY <1>1, <1>2 DEF WellFormed, ExecutionType, EffectType
<1> HIDE DEF y, f
<1>6. Evolves(y, [y EXCEPT !.effects[e] = f])
  BY <1>1, <1>2, <1>5, EffectEvolves
<1> QED BY <1>3, <1>4, <1>6, EvolvesTransitive

(* Values, events and reopening touch nothing that is settled.             *)
LEMMA PublishEvolves ==
    ASSUME NEW x, WellFormed(x), NEW topic, NEW payload, NEW cause
    PROVE  Evolves(x, Publish(x, topic, payload, cause))
<1> DEFINE y == Publish(x, topic, payload, cause)
<1>1. /\ y.consumed = x.consumed /\ y.records = x.records
      /\ y.effects = x.effects /\ y.approvals = x.approvals
  BY DEF Publish, Emit, WellFormed, ExecutionType
<1> QED BY <1>1, RecordsEvolve DEF KeepsRecords

(* An assignment changes a value and may emit an event.                    *)
LEMMA AssignEvolves ==
    ASSUME NEW x, WellFormed(x), NEW name, NEW payload
    PROVE  Evolves(x, Assign(x, name, payload))
<1> DEFINE y == Assign(x, name, payload)
<1>1. /\ y.consumed = x.consumed /\ y.records = x.records
      /\ y.effects = x.effects /\ y.approvals = x.approvals
  BY DEF Assign, Emit, WellFormed, ExecutionType
<1> HIDE DEF y
<1> QED BY <1>1, RecordsEvolve DEF KeepsRecords, y

(* consume_event adds to the consumed events and touches nothing else.     *)
LEMMA ConsumeEvolves ==
    ASSUME NEW x, WellFormed(x), NEW event
    PROVE  Evolves(x, Consume(x, event))
<1> DEFINE y == Consume(x, event)
<1>1. /\ x.consumed \subseteq y.consumed /\ y.records = x.records
      /\ y.effects = x.effects /\ y.approvals = x.approvals
  BY DEF Consume, WellFormed, ExecutionType
<1> HIDE DEF y
<1> QED BY <1>1, RecordsEvolve DEF KeepsRecords, y

(* Reopening marks what was in flight uncertain and settles nothing.       *)
LEMMA RestoredEvolves ==
    ASSUME NEW x, WellFormed(x) PROVE Evolves(x, Restored(x))
<1> DEFINE y == Restored(x)
<1>1. /\ y.consumed = x.consumed /\ y.records = x.records /\ y.approvals = x.approvals
      /\ y.effects = [e \in DOMAIN x.effects |->
                         IF x.effects[e].state = "Started"
                         THEN [x.effects[e] EXCEPT !.state = "Uncertain"]
                         ELSE x.effects[e]]
  BY DEF Restored, WellFormed, ExecutionType
<1>2. \A e \in DOMAIN x.effects : x.effects[e] \in EffectType
  BY DEF WellFormed, ExecutionType
<1> HIDE DEF y
<1>3. \A e \in DOMAIN x.effects :
         /\ e \in DOMAIN y.effects
         /\ y.effects[e].approval = x.effects[e].approval
         /\ x.effects[e].state # "Started" => y.effects[e] = x.effects[e]
  BY <1>1, <1>2 DEF EffectType
<1>4. KeepsEffects(x, y) /\ KeepsNeeds(x, y)
  BY <1>3 DEF KeepsEffects, KeepsNeeds
<1>5. KeepsRecords(x, y) /\ KeepsApprovals(x, y)
  BY <1>1 DEF KeepsRecords, KeepsApprovals
<1> QED BY <1>1, <1>4, <1>5 DEF Evolves, KeepsSettled, y

-----------------------------------------------------------------------------
(* Every method of ExecutionState keeps what restore() checks, so the      *)
(* states that a run can write are states that a restart accepts.          *)

(* What restore() checks is not inductive alone.  That no chain of parents *)
(* is a cycle follows from the order of creation;                          *)
ParentsFirst(x) == \A i \in DOMAIN x.records : x.records[i].parent < i

(* that no attempt number is given twice is kept with the fact that only   *)
(* the newest attempt may be pending;                                      *)
PendingIsNewest(x) ==
    \A i, j \in DOMAIN x.records :
        /\ x.records[i].status = "Pending" /\ i # j
        /\ x.records[i].operation = x.records[j].operation
        /\ x.records[i].generation = x.records[j].generation
        => x.records[j].attempt < x.records[i].attempt

(* and an effect in flight keeps its invocation pending because no other   *)
(* effect ends that invocation.                                            *)
OneEffectEach(x) ==
    \A d, e \in DOMAIN x.effects :
        x.effects[d].invocation # None /\ x.effects[d].invocation = x.effects[e].invocation
           => d = e

Restorable(x) ==
    /\ WellFormed(x)
    /\ Valid(x)
    /\ ParentsFirst(x) /\ PendingIsNewest(x) /\ OneEffectEach(x)

-----------------------------------------------------------------------------
(* The ancestors of a record were created before it, so they end.          *)
LEMMA ParentsEnd ==
    ASSUME NEW x, WellFormed(x), ParentsFirst(x) PROVE AcyclicParents(x)
<1>1. SUFFICES ASSUME NEW cycle \in SUBSET DOMAIN x.records, cycle # {},
                      \A i \in cycle : x.records[i].parent \in cycle
               PROVE  FALSE
  BY DEF AcyclicParents
<1>2. cycle \subseteq Nat
  BY DEF WellFormed, ExecutionType
<1>3. PICK n \in cycle : \A m \in cycle : <<m, n>> \notin OpToRel(<, Nat)
  BY <1>1, <1>2, WFMin, NatLessThanWellFounded, Zenon
<1>4. x.records[n].parent \in cycle /\ x.records[n].parent < n
  BY <1>1 DEF ParentsFirst
<1> QED BY <1>2, <1>3, <1>4, Zenon DEF OpToRel

(* An empty run restores.                                                  *)
LEMMA NewExecutionRestorable == Restorable(NewExecution)
<1> DEFINE x == NewExecution
<1>1. /\ x.records = <<>> /\ x.events = <<>> /\ x.consumed = {} /\ x.effects = <<>>
      /\ x.approvals = <<>> /\ x.generation = 0
      /\ x.values = [n \in Names |-> Unset]
  BY DEF NewExecution, EmptyDataflow
<1>2. WellFormed(x)
  BY NewExecutionWellFormed
<1> HIDE DEF x
<1>3. ParentsFirst(x) /\ PendingIsNewest(x) /\ OneEffectEach(x)
  BY <1>1 DEF ParentsFirst, PendingIsNewest, OneEffectEach
<1>4. ValidRecords(x)
  BY <1>1, <1>2, <1>3, ParentsEnd DEF ValidRecords, DistinctAttempts, ValidParents
<1>5. ValidDataflow(x)
  BY <1>1 DEF ValidDataflow, ValidEventOrder, ValidRevisions, ValidValues, ValidTerminations, Unset
<1>6. ValidEffects(x) /\ ValidApprovals(x, MaxTtl)
  BY <1>1 DEF ValidEffects, DistinctInstances, ValidApprovals
<1> QED BY <1>2, <1>3, <1>4, <1>5, <1>6 DEF Restorable, Valid, x

-----------------------------------------------------------------------------
(* begin_caused: the new record is the newest attempt of its operation, its*)
(* parent and its cause are of the current generation.                     *)
LEMMA BeginRestorable ==
    ASSUME NEW x, Restorable(x), NEW operation \in Operations, NEW parent \in Nat,
           NEW cause \in Nat, CanBegin(x, operation, parent, cause)
    PROVE  Restorable(Begin(x, operation, parent, cause))
<1> DEFINE n == Len(x.records) + 1
           r == [operation |-> operation, parent |-> parent, cause |-> cause,
                 generation |-> x.generation, attempt |-> NextAttempt(x, operation),
                 status |-> "Pending"]
           y == Begin(x, operation, parent, cause)
<1>1. WellFormed(x) /\ Valid(x) /\ ParentsFirst(x) /\ PendingIsNewest(x) /\ OneEffectEach(x)
  BY DEF Restorable
<1>2. WellFormed(y) /\ y.consumed = x.consumed /\ y.effects = x.effects /\ y.approvals = x.approvals
  BY <1>1, BeginKeeps
<1>3. /\ y.generation = x.generation /\ y.events = x.events /\ y.values = x.values
      /\ y.records = Append(x.records, r)
  BY <1>1 DEF Begin, WellFormed, ExecutionType
<1>4. /\ NextAttempt(x, operation) \in 1..n
      /\ \A i \in Attempts(x, operation) : x.records[i].attempt < NextAttempt(x, operation)
  BY <1>1, NextAttemptFollows
<1>5. /\ Len(x.records) \in Nat /\ DOMAIN x.records = 1..Len(x.records)
      /\ x.generation \in Nat /\ x.records \in Seq(RecordType) /\ r \in RecordType
  BY <1>1, <1>4 DEF WellFormed, ExecutionType, RecordType
<1>6. /\ DOMAIN y.records = 1..n /\ y.records[n] = r
      /\ \A i \in DOMAIN x.records : y.records[i] = x.records[i]
  BY <1>3, <1>5, AppendKeeps
<1>7. /\ r.operation = operation /\ r.parent = parent /\ r.cause = cause
      /\ r.generation = x.generation /\ r.attempt = NextAttempt(x, operation)
      /\ r.status = "Pending"
  OBVIOUS
<1>8. /\ ValidCause(x, cause, x.generation)
      /\ parent # None => parent \in DOMAIN x.records /\ x.records[parent].generation = x.generation
      /\ \A i \in Attempts(x, operation) : x.records[i].status # "Pending"
  BY DEF CanBegin
<1>9. \A i \in DOMAIN x.records :
         x.records[i].operation = operation /\ x.records[i].generation = x.generation =>
            /\ x.records[i].status # "Pending"
            /\ x.records[i].attempt < r.attempt
  BY <1>4, <1>7, <1>8 DEF Attempts
<1>10. n \notin DOMAIN x.records /\ DOMAIN y.records = DOMAIN x.records \cup {n} /\ n \in Nat /\ n > 0
  BY <1>5, <1>6
<1>11. \A i \in DOMAIN x.records : x.records[i].attempt \in Nat /\ i \in Nat /\ i < n
  <2>1. \A i \in DOMAIN x.records : x.records[i].attempt \in Nat
    BY <1>1 DEF WellFormed, AttemptsNumbered
  <2> QED BY <1>5, <2>1
<1>12. r.attempt \in Nat /\ r.attempt > 0
  BY <1>4, <1>5, <1>7
<1> HIDE DEF n, r, y
<1>13. ParentsFirst(y)
  BY <1>1, <1>6, <1>7, <1>8, <1>10, <1>11 DEF ParentsFirst, None
<1>14. PendingIsNewest(y)
  BY <1>1, <1>6, <1>7, <1>9, <1>10 DEF PendingIsNewest
<1>15. OneEffectEach(y)
  BY <1>1, <1>2 DEF OneEffectEach
<1>16. ValidRecords(y)
  <2>1. ValidRecords(x)
    BY <1>1 DEF Valid
  <2>2. \A i \in DOMAIN y.records : /\ y.records[i].generation <= y.generation
                                    /\ y.records[i].attempt > 0
    BY <2>1, <1>3, <1>5, <1>6, <1>7, <1>10, <1>12 DEF ValidRecords
  <2>3. DistinctAttempts(y)
    BY <2>1, <1>6, <1>7, <1>9, <1>10, <1>11, <1>12 DEF ValidRecords, DistinctAttempts
  <2>4. ValidParents(y)
    BY <2>1, <1>6, <1>7, <1>8, <1>10 DEF ValidRecords, ValidParents
  <2> QED BY <2>2, <2>3, <2>4, <1>2, <1>13, ParentsEnd DEF ValidRecords
<1>17. ValidDataflow(y)
  <2>1. ValidEventOrder(y) /\ ValidRevisions(y) /\ ValidValues(y)
    BY <1>1, <1>3 DEF Valid, ValidDataflow, ValidEventOrder, ValidRevisions, ValidValues, Changes
  <2>2. ValidTerminations(x) /\ y.consumed \subseteq DOMAIN y.events
    BY <1>1, <1>2, <1>3 DEF Valid, ValidDataflow
  <2>3. ValidTerminations(y)
    BY <2>2, <1>3, <1>6, <1>7, <1>8, <1>10 DEF ValidTerminations, ValidCause
  <2> QED BY <2>1, <2>2, <2>3 DEF ValidDataflow
<1>18. ValidEffects(y)
  BY <1>1, <1>2, <1>3, <1>6, <1>10 DEF Valid, ValidEffects, DistinctInstances
<1>19. ValidApprovals(y, MaxTtl)
  BY <1>1, <1>2, <1>6, <1>10 DEF Valid, ValidApprovals, ActionHash
<1> QED BY <1>2, <1>13, <1>14, <1>15, <1>16, <1>17, <1>18, <1>19 DEF Restorable, Valid, y

-----------------------------------------------------------------------------
(* The history of y is that of x and one event of the current generation,  *)
(* whose cause, if it has one, is an earlier event of this generation.     *)
Appends(x, y, event) ==
    /\ y.generation = x.generation
    /\ event.generation = x.generation
    /\ ValidCause(x, event.cause, x.generation)
    /\ DOMAIN y.events = DOMAIN x.events \cup {Len(x.events) + 1}
    /\ y.events[Len(x.events) + 1] = event
    /\ \A e \in DOMAIN x.events : y.events[e] = x.events[e]

(* The new event is at a position of its own, after all the others.        *)
LEMMA PositionsFollow ==
    ASSUME NEW x, WellFormed(x)
    PROVE  /\ Len(x.events) + 1 \in Nat
           /\ Len(x.events) + 1 \notin DOMAIN x.events
           /\ \A e \in DOMAIN x.events : e \in Nat /\ e < Len(x.events) + 1
  BY DEF WellFormed, ExecutionType

(* Generations and causes stay in order.                                   *)
LEMMA OrderKept ==
    ASSUME NEW x, WellFormed(x), ValidEventOrder(x), NEW y, NEW event, Appends(x, y, event)
    PROVE  ValidEventOrder(y)
<1> DEFINE n == Len(x.events) + 1
<1>1. /\ n \in Nat /\ n \notin DOMAIN x.events
      /\ \A e \in DOMAIN x.events : e \in Nat /\ e < n
      /\ x.generation \in Nat /\ DOMAIN x.events = 1..n - 1
  BY PositionsFollow DEF WellFormed, ExecutionType
<1>2. /\ y.generation = x.generation /\ event.generation = x.generation
      /\ ValidCause(x, event.cause, x.generation)
      /\ DOMAIN y.events = DOMAIN x.events \cup {n} /\ y.events[n] = event
      /\ \A e \in DOMAIN x.events : y.events[e] = x.events[e]
  BY DEF Appends
<1> HIDE DEF n
<1>3. SUFFICES ASSUME NEW e \in DOMAIN y.events
               PROVE  /\ y.events[e].generation <= y.generation
                      /\ \A d \in 1..e : y.events[d].generation <= y.events[e].generation
                      /\ y.events[e].cause # None =>
                            /\ y.events[e].cause < e
                            /\ y.events[y.events[e].cause].generation = y.events[e].generation
  BY DEF ValidEventOrder
<1>4. CASE e = n
  <2>1. \A d \in DOMAIN x.events : y.events[d].generation <= x.generation
    BY <1>2 DEF ValidEventOrder
  <2>2. \A d \in 1..n : d \in DOMAIN x.events \/ d = n
    BY <1>1
  <2>3. \A d \in 1..n : y.events[d].generation <= x.generation
    BY <2>1, <2>2, <1>1, <1>2
  <2>4. event.cause # None => /\ event.cause < n
                              /\ y.events[event.cause].generation = x.generation
    BY <1>1, <1>2 DEF ValidCause
  <2> QED BY <2>3, <2>4, <1>1, <1>2, <1>4
<1>5. CASE e \in DOMAIN x.events
  <2>1. \A d \in 1..e : d \in DOMAIN x.events
    BY <1>1, <1>5
  <2>2. x.events[e].cause # None => x.events[e].cause \in DOMAIN x.events
    <3>1. x.events[e] \in EventType
      BY <1>5 DEF WellFormed, ExecutionType
    <3>2. x.events[e].cause \in Nat
      BY <3>1 DEF EventType
    <3> QED BY <1>1, <1>5, <3>2 DEF ValidEventOrder, None
  <2> QED BY <2>1, <2>2, <1>2, <1>5 DEF ValidEventOrder
<1> QED BY <1>2, <1>4, <1>5

(* An event that changes no value leaves the changes and values in order.  *)
LEMMA ChangesKept ==
    ASSUME NEW x, WellFormed(x), ValidRevisions(x), ValidValues(x),
           NEW y, NEW event, Appends(x, y, event), event.kind # "changed", y.values = x.values
    PROVE  ValidRevisions(y) /\ ValidValues(y)
<1> DEFINE n == Len(x.events) + 1
<1>1. n \notin DOMAIN x.events
  BY PositionsFollow
<1>2. /\ y.generation = x.generation
      /\ DOMAIN y.events = DOMAIN x.events \cup {n} /\ y.events[n] = event
      /\ \A e \in DOMAIN x.events : y.events[e] = x.events[e]
  BY DEF Appends
<1> HIDE DEF n
<1>3. \A name, generation : Changes(y, name, generation) = Changes(x, name, generation)
  BY <1>1, <1>2 DEF Changes
<1>4. \A name, generation : Changes(x, name, generation) \subseteq DOMAIN x.events
  BY DEF Changes
<1>5. ValidRevisions(y)
  <2>1. SUFFICES ASSUME NEW e \in DOMAIN y.events, y.events[e].kind = "changed",
                        NEW older, older = {d \in Changes(y, y.events[e].name, y.events[e].generation) : d < e}
                 PROVE  IF older = {}
                        THEN y.events[e].revision = 1
                        ELSE \E d \in older :
                               /\ \A c \in older : c <= d
                               /\ y.events[e].revision = y.events[d].revision + 1
                               /\ y.events[e].payload # y.events[d].payload
    BY DEF ValidRevisions
  <2>2. e \in DOMAIN x.events /\ y.events[e] = x.events[e] /\ x.events[e].kind = "changed"
    BY <2>1, <1>2
  <2>3. older = {d \in Changes(x, x.events[e].name, x.events[e].generation) : d < e}
    BY <2>1, <2>2, <1>3
  <2>4. \A d \in older : y.events[d] = x.events[d]
    BY <2>3, <1>2, <1>4
  <2>5. IF older = {}
        THEN x.events[e].revision = 1
        ELSE \E d \in older :
               /\ \A c \in older : c <= d
               /\ x.events[e].revision = x.events[d].revision + 1
               /\ x.events[e].payload # x.events[d].payload
    BY <2>2, <2>3 DEF ValidRevisions
  <2> QED BY <2>2, <2>4, <2>5
<1>6. ValidValues(y)
  BY <1>1, <1>2, <1>3, <1>4 DEF ValidValues
<1> QED BY <1>5, <1>6

(* terminate: the pending record gets its one event.  No effect may be in  *)
(* flight under it: finish_effect and reconcile_effect, which end both,    *)
(* are this step after the one that settles the effect.                    *)
LEMMA TerminateRestorable ==
    ASSUME NEW x, Restorable(x), NEW i \in DOMAIN x.records, NEW status \in Terminal,
           x.records[i].status = "Pending", x.records[i].generation = x.generation,
           \A e \in DOMAIN x.effects :
              x.effects[e].invocation = i => x.effects[e].state # "Started"
    PROVE  Restorable(Terminate(x, i, status))
<1> DEFINE n == Len(x.events) + 1
           event == Terminated(x, i, status, x.records[i].cause)
           r == [x.records[i] EXCEPT !.status = status]
           y == Terminate(x, i, status)
<1>1. WellFormed(x) /\ Valid(x) /\ ParentsFirst(x) /\ PendingIsNewest(x) /\ OneEffectEach(x)
  BY DEF Restorable
<1>2. WellFormed(y) /\ y.consumed = x.consumed /\ y.effects = x.effects /\ y.approvals = x.approvals
  BY <1>1, TerminateKeeps
<1>3. /\ y.generation = x.generation /\ y.values = x.values
      /\ y.events = Append(x.events, event)
      /\ y.records = [x.records EXCEPT ![i] = r]
  BY <1>1 DEF Terminate, Emit, WellFormed, ExecutionType
<1>4. /\ event.kind = "terminated" /\ event.generation = x.generation
      /\ event.cause = x.records[i].cause /\ event.invocation = i /\ event.status = status
      /\ event \in EventType
  <2>1. x.records[i] \in RecordType /\ i \in Nat /\ x.generation \in Nat
    BY <1>1 DEF WellFormed, ExecutionType
  <2> QED BY <2>1 DEF Terminated, EventType, RecordType
<1>5. /\ r.operation = x.records[i].operation /\ r.parent = x.records[i].parent
      /\ r.cause = x.records[i].cause /\ r.generation = x.records[i].generation
      /\ r.attempt = x.records[i].attempt /\ r.status = status
  BY <1>1 DEF WellFormed, ExecutionType, RecordType
<1>6. /\ DOMAIN y.records = DOMAIN x.records /\ y.records[i] = r
      /\ \A j \in DOMAIN x.records : j # i => y.records[j] = x.records[j]
  BY <1>3
<1>7. /\ Len(x.events) \in Nat /\ DOMAIN x.events = 1..Len(x.events)
      /\ x.events \in Seq(EventType) /\ x.generation \in Nat
  BY <1>1 DEF WellFormed, ExecutionType
<1>8. /\ DOMAIN y.events = 1..n /\ y.events[n] = event
      /\ \A e \in DOMAIN x.events : y.events[e] = x.events[e]
  BY <1>3, <1>4, <1>7, AppendKeeps
<1>9. n \notin DOMAIN x.events /\ DOMAIN y.events = DOMAIN x.events \cup {n} /\ n \in Nat
  BY <1>7, <1>8
<1>10. \A e \in DOMAIN x.events : e \in Nat /\ e < n
  BY <1>7
<1>11. status # "Pending"
  BY DEF Terminal
<1>12. \A j \in DOMAIN x.records :
          /\ y.records[j].operation = x.records[j].operation
          /\ y.records[j].parent = x.records[j].parent
          /\ y.records[j].cause = x.records[j].cause
          /\ y.records[j].generation = x.records[j].generation
          /\ y.records[j].attempt = x.records[j].attempt
          /\ y.records[j].status = "Pending" <=> j # i /\ x.records[j].status = "Pending"
  BY <1>5, <1>6, <1>11
<1> HIDE DEF n, event, r, y
<1>13. ParentsFirst(y) /\ PendingIsNewest(y) /\ OneEffectEach(y)
  BY <1>1, <1>2, <1>6, <1>12 DEF ParentsFirst, PendingIsNewest, OneEffectEach
<1>14. ValidRecords(y)
  <2>1. ValidRecords(x)
    BY <1>1 DEF Valid
  <2>2. AcyclicParents(y)
    BY <1>2, <1>13, ParentsEnd
  <2> QED BY <2>1, <2>2, <1>3, <1>6, <1>12 DEF ValidRecords, DistinctAttempts, ValidParents
<1>15. ValidDataflow(y)
  <2>1. ValidDataflow(x)
    BY <1>1 DEF Valid
  <2>2. ValidCause(x, x.records[i].cause, x.generation)
    BY <2>1 DEF ValidDataflow, ValidTerminations
  <2>3. Appends(x, y, event)
    BY <2>2, <1>3, <1>4, <1>8, <1>9 DEF Appends, n
  <2>4. ValidEventOrder(y)
    BY <2>1, <2>3, <1>1, OrderKept DEF ValidDataflow
  <2>5. ValidRevisions(y) /\ ValidValues(y)
    BY <2>1, <2>3, <1>1, <1>3, <1>4, ChangesKept DEF ValidDataflow
  <2>7. ValidTerminations(y)
    <3>1. ValidTerminations(x)
      BY <2>1 DEF ValidDataflow
    <3>2. \A e \in DOMAIN x.events :
             x.events[e].kind = "terminated" => x.events[e].invocation # i
      BY <3>1 DEF ValidTerminations
    <3>3. ASSUME NEW e \in DOMAIN y.events, y.events[e].kind = "terminated",
                 NEW k, k = y.events[e].invocation
          PROVE  /\ k \in DOMAIN y.records
                 /\ y.records[k].status # "Pending"
                 /\ y.records[k].status = y.events[e].status
                 /\ y.records[k].generation = y.events[e].generation
                 /\ y.records[k].cause = y.events[e].cause
                 /\ \A d \in DOMAIN y.events :
                       y.events[d].kind = "terminated" /\ y.events[d].invocation = k => d = e
      <4>1. CASE e = n
        BY <3>2, <3>3, <4>1, <1>4, <1>5, <1>6, <1>8, <1>9, <1>11
      <4>2. CASE e \in DOMAIN x.events
        <5>1. k # i /\ k \in DOMAIN x.records /\ y.records[k] = x.records[k]
          BY <3>1, <3>2, <3>3, <4>2, <1>6, <1>8 DEF ValidTerminations
        <5> QED BY <3>1, <3>3, <4>2, <5>1, <1>4, <1>6, <1>8, <1>9 DEF ValidTerminations
      <4> QED BY <4>1, <4>2, <1>9
    <3>4. ASSUME NEW j \in DOMAIN y.records
          PROVE  /\ ValidCause(y, y.records[j].cause, y.records[j].generation)
                 /\ y.records[j].status # "Pending" <=>
                       \E e \in DOMAIN y.events : /\ y.events[e].kind = "terminated"
                                                  /\ y.events[e].invocation = j
      <4>1. ValidCause(y, y.records[j].cause, y.records[j].generation)
        BY <3>1, <1>6, <1>8, <1>9, <1>12 DEF ValidTerminations, ValidCause
      <4>2. CASE j = i
        BY <4>1, <4>2, <1>4, <1>8, <1>9, <1>12
      <4>3. CASE j # i
        BY <3>1, <4>1, <4>3, <1>4, <1>6, <1>8, <1>9, <1>12 DEF ValidTerminations
      <4> QED BY <4>2, <4>3
    <3> QED BY <3>3, <3>4 DEF ValidTerminations
  <2> QED BY <2>1, <2>4, <2>5, <2>7, <1>2, <1>9 DEF ValidDataflow
<1>16. ValidEffects(y)
  BY <1>1, <1>2, <1>3, <1>6, <1>12 DEF Valid, ValidEffects, DistinctInstances
<1>17. ValidApprovals(y, MaxTtl)
  BY <1>1, <1>2, <1>6, <1>12 DEF Valid, ValidApprovals, ActionHash
<1> QED BY <1>2, <1>13, <1>14, <1>15, <1>16, <1>17 DEF Restorable, Valid, y

(* finish_result of an invocation that no effect is in flight under.       *)
LEMMA FinishResultRestorable ==
    ASSUME NEW x, Restorable(x), NEW i \in DOMAIN x.records, NEW succeeded \in BOOLEAN,
           x.records[i].status = "Pending", x.records[i].generation = x.generation,
           \A e \in DOMAIN x.effects :
              x.effects[e].invocation = i => x.effects[e].state # "Started"
    PROVE  Restorable(FinishResult(x, i, succeeded))
<1>1. (IF succeeded THEN "Completed" ELSE "Failed") \in Terminal
  BY DEF Terminal
<1> QED BY <1>1, TerminateRestorable DEF FinishResult

-----------------------------------------------------------------------------
(* publish_event: an event whose cause is one of this generation.          *)
LEMMA PublishRestorable ==
    ASSUME NEW x, Restorable(x), NEW topic \in Topics, NEW payload \in Payloads,
           NEW cause \in Nat, CanPublish(x, cause)
    PROVE  Restorable(Publish(x, topic, payload, cause))
<1> DEFINE n == Len(x.events) + 1
           event == External(x, topic, payload, cause)
           y == Publish(x, topic, payload, cause)
<1>1. WellFormed(x) /\ Valid(x) /\ ParentsFirst(x) /\ PendingIsNewest(x) /\ OneEffectEach(x)
  BY DEF Restorable
<1>2. WellFormed(y) /\ y.consumed = x.consumed
  BY <1>1, PublishKeeps
<1>3. /\ y.generation = x.generation /\ y.values = x.values /\ y.records = x.records
      /\ y.effects = x.effects /\ y.approvals = x.approvals
      /\ y.events = Append(x.events, event)
  BY <1>1 DEF Publish, Emit, WellFormed, ExecutionType
<1>4. /\ event.kind = "external" /\ event.generation = x.generation /\ event.cause = cause
      /\ event \in EventType
  BY <1>1 DEF External, EventType, WellFormed, ExecutionType
<1>5. x.events \in Seq(EventType) /\ DOMAIN x.events = 1..Len(x.events) /\ Len(x.events) \in Nat
  BY <1>1 DEF WellFormed, ExecutionType
<1>6. /\ DOMAIN y.events = DOMAIN x.events \cup {n} /\ y.events[n] = event
      /\ \A e \in DOMAIN x.events : y.events[e] = x.events[e]
  BY <1>3, <1>4, <1>5, AppendKeeps
<1>7. Appends(x, y, event)
  BY <1>3, <1>4, <1>6 DEF Appends, CanPublish
<1> HIDE DEF n, event, y
<1>8. ParentsFirst(y) /\ PendingIsNewest(y) /\ OneEffectEach(y)
  BY <1>1, <1>3 DEF ParentsFirst, PendingIsNewest, OneEffectEach
<1>9. ValidRecords(y)
  BY <1>1, <1>2, <1>3, <1>8, ParentsEnd
     DEF Valid, ValidRecords, DistinctAttempts, ValidParents
<1>10. ValidEventOrder(y) /\ ValidRevisions(y) /\ ValidValues(y)
  BY <1>1, <1>3, <1>4, <1>7, OrderKept, ChangesKept DEF Valid, ValidDataflow
<1>11. ValidTerminations(y)
  BY <1>1, <1>3, <1>4, <1>6 DEF Valid, ValidDataflow, ValidTerminations, ValidCause
<1>12. ValidDataflow(y)
  BY <1>1, <1>2, <1>6, <1>10, <1>11 DEF Valid, ValidDataflow
<1>13. ValidEffects(y)
  BY <1>1, <1>3 DEF Valid, ValidEffects, DistinctInstances
<1>14. ValidApprovals(y, MaxTtl)
  BY <1>1, <1>3 DEF Valid, ValidApprovals, ActionHash
<1> QED BY <1>2, <1>8, <1>9, <1>12, <1>13, <1>14 DEF Restorable, Valid, y

(* consume_event: the event is of this run.                                *)
LEMMA ConsumeRestorable ==
    ASSUME NEW x, Restorable(x), NEW event \in DOMAIN x.events
    PROVE  Restorable(Consume(x, event))
<1> DEFINE y == Consume(x, event)
<1>1. WellFormed(x) /\ Valid(x) /\ ParentsFirst(x) /\ PendingIsNewest(x) /\ OneEffectEach(x)
  BY DEF Restorable
<1>2. WellFormed(y) /\ y.consumed = x.consumed \cup {event}
  BY <1>1, ConsumeKeeps
<1>3. /\ y.generation = x.generation /\ y.values = x.values /\ y.records = x.records
      /\ y.effects = x.effects /\ y.approvals = x.approvals /\ y.events = x.events
  BY <1>1 DEF Consume, WellFormed, ExecutionType
<1> HIDE DEF y
<1>4. ParentsFirst(y) /\ PendingIsNewest(y) /\ OneEffectEach(y)
  BY <1>1, <1>3 DEF ParentsFirst, PendingIsNewest, OneEffectEach
<1>5. ValidRecords(y)
  BY <1>1, <1>2, <1>3, <1>4, ParentsEnd
     DEF Valid, ValidRecords, DistinctAttempts, ValidParents
<1>6. ValidDataflow(y)
  BY <1>1, <1>2, <1>3 DEF Valid, ValidDataflow, ValidEventOrder, ValidRevisions, ValidValues,
                          ValidTerminations, ValidCause, Changes
<1>7. ValidEffects(y)
  BY <1>1, <1>3 DEF Valid, ValidEffects, DistinctInstances
<1>8. ValidApprovals(y, MaxTtl)
  BY <1>1, <1>3 DEF Valid, ValidApprovals, ActionHash
<1> QED BY <1>2, <1>4, <1>5, <1>6, <1>7, <1>8 DEF Restorable, Valid, y

(* advance_generation: everything stays where it is, in the past.          *)
LEMMA AdvanceRestorable ==
    ASSUME NEW x, Restorable(x) PROVE Restorable(AdvanceGeneration(x))
<1> DEFINE y == AdvanceGeneration(x)
<1>1. WellFormed(x) /\ Valid(x) /\ ParentsFirst(x) /\ PendingIsNewest(x) /\ OneEffectEach(x)
  BY DEF Restorable
<1>2. /\ y.generation = x.generation + 1 /\ y.values = x.values /\ y.records = x.records
      /\ y.effects = x.effects /\ y.approvals = x.approvals /\ y.events = x.events
      /\ y.consumed = x.consumed /\ y \in ExecutionType /\ x.generation \in Nat
  <2>1. x \in ExecutionType
    BY <1>1 DEF WellFormed
  <2>2. x.generation + 1 \in Nat
    BY <2>1 DEF ExecutionType
  <2>3. y \in ExecutionType
    BY <2>1, <2>2 DEF AdvanceGeneration, ExecutionType
  <2> QED BY <2>1, <2>3 DEF AdvanceGeneration, ExecutionType
<1>3. WellFormed(y)
  BY <1>1, <1>2, AttemptsUntouched DEF WellFormed
<1>4. /\ \A i \in DOMAIN x.records : x.records[i].generation \in Nat
      /\ \A e \in DOMAIN x.events : x.events[e].generation \in Nat
      /\ \A n \in Names : x.values[n].generation \in Nat
      /\ \A e \in DOMAIN x.effects : x.effects[e].generation \in Nat
  <2>1. /\ \A i \in DOMAIN x.records : x.records[i] \in RecordType
        /\ \A e \in DOMAIN x.events : x.events[e] \in EventType
        /\ \A n \in Names : x.values[n] \in ValueType
        /\ \A e \in DOMAIN x.effects : x.effects[e] \in EffectType
    BY <1>1 DEF WellFormed, ExecutionType
  <2> QED BY <2>1 DEF RecordType, EventType, ValueType, EffectType
<1> HIDE DEF y
<1>5. ParentsFirst(y) /\ PendingIsNewest(y) /\ OneEffectEach(y)
  BY <1>1, <1>2 DEF ParentsFirst, PendingIsNewest, OneEffectEach
<1>6. ValidRecords(y)
  BY <1>1, <1>2, <1>3, <1>4, <1>5, ParentsEnd
     DEF Valid, ValidRecords, DistinctAttempts, ValidParents
<1>7. ValidDataflow(y)
  <2>1. ValidEventOrder(y)
    BY <1>1, <1>2, <1>4 DEF Valid, ValidDataflow, ValidEventOrder
  <2>2. ValidValues(y)
    BY <1>1, <1>2, <1>4 DEF Valid, ValidDataflow, ValidValues, Changes
  <2> QED BY <2>1, <2>2, <1>1, <1>2
          DEF Valid, ValidDataflow, ValidRevisions, ValidTerminations, ValidCause, Changes
<1>8. ValidEffects(y)
  BY <1>1, <1>2, <1>4 DEF Valid, ValidEffects, DistinctInstances
<1>9. ValidApprovals(y, MaxTtl)
  BY <1>1, <1>2 DEF Valid, ValidApprovals, ActionHash
<1> QED BY <1>3, <1>5, <1>6, <1>7, <1>8, <1>9 DEF Restorable, Valid, y

(* The revision that assign_value gives follows the last change of the     *)
(* name in this generation, if there was one.                              *)
LEMMA RevisionFollows ==
    ASSUME NEW x, Restorable(x), NEW name \in Names, NEW payload, ~SameValue(x, name, payload)
    PROVE  IF Changes(x, name, x.generation) = {}
           THEN NextRevision(x, name) = 1
           ELSE \E d \in Changes(x, name, x.generation) :
                  /\ \A c \in Changes(x, name, x.generation) : c <= d
                  /\ NextRevision(x, name) = x.events[d].revision + 1
                  /\ payload # x.events[d].payload
<1> DEFINE v == x.values[name]
           changes == Changes(x, name, x.generation)
<1>1. /\ v.generation <= x.generation
      /\ v.revision > 0 =>
            \E e \in Changes(x, name, v.generation) :
                /\ \A d \in Changes(x, name, v.generation) : d <= e
                /\ x.events[e].revision = v.revision
                /\ x.events[e].payload = v.payload
      /\ \A e \in DOMAIN x.events :
            x.events[e].kind = "changed" /\ x.events[e].name = name =>
                v.revision > 0 /\ x.events[e].generation <= v.generation
  BY DEF Restorable, Valid, ValidDataflow, ValidValues
<1>2. v.generation \in Nat /\ v.revision \in Nat /\ x.generation \in Nat
  <2>1. v \in ValueType /\ x.generation \in Nat
    BY DEF Restorable, WellFormed, ExecutionType
  <2> QED BY <2>1 DEF ValueType
<1> HIDE DEF v
<1>3. CASE Visible(x, name)
  <2>1. v.revision > 0 /\ v.generation = x.generation /\ NextRevision(x, name) = v.revision + 1
    BY <1>3 DEF Visible, NextRevision, v
  <2>2. payload # v.payload
    BY <1>3 DEF SameValue, v
  <2> QED BY <1>1, <2>1, <2>2
<1>4. CASE ~Visible(x, name)
  <2>1. NextRevision(x, name) = 1 /\ (~(v.revision > 0) \/ v.generation # x.generation)
    BY <1>4 DEF Visible, NextRevision, v
  <2>2. changes = {}
    <3>1. SUFFICES ASSUME NEW e \in changes PROVE FALSE
      OBVIOUS
    <3>2. /\ e \in DOMAIN x.events /\ x.events[e].kind = "changed"
          /\ x.events[e].name = name /\ x.events[e].generation = x.generation
      BY <3>1 DEF Changes
    <3> QED BY <1>1, <1>2, <2>1, <3>2
  <2> QED BY <2>1, <2>2
<1> QED BY <1>3, <1>4

(* assign_value: the new change is the last of its name, and the value     *)
(* repeats it.                                                             *)
LEMMA AssignRestorable ==
    ASSUME NEW x, Restorable(x), NEW name \in Names, NEW payload \in Payloads
    PROVE  Restorable(Assign(x, name, payload))
<1> DEFINE n == Len(x.events) + 1
           revision == NextRevision(x, name)
           event == Changed(x, name, revision, payload)
           v == [generation |-> x.generation, revision |-> revision, payload |-> payload]
           y == Assign(x, name, payload)
<1>1. CASE SameValue(x, name, payload)
  BY <1>1 DEF Assign
<1>2. CASE ~SameValue(x, name, payload)
  <2>1. WellFormed(x) /\ Valid(x) /\ ParentsFirst(x) /\ PendingIsNewest(x) /\ OneEffectEach(x)
    BY DEF Restorable
  <2>2. WellFormed(y) /\ y.consumed = x.consumed
    BY <2>1, AssignKeeps
  <2>3. /\ y.generation = x.generation /\ y.records = x.records
        /\ y.effects = x.effects /\ y.approvals = x.approvals
        /\ y.events = Append(x.events, event)
        /\ y.values = [x.values EXCEPT ![name] = v]
    BY <1>2, <2>1 DEF Assign, Emit, WellFormed, ExecutionType
  <2>4. revision \in Nat /\ revision > 0 /\ x.generation \in Nat
    <3>1. x.values[name] \in ValueType /\ x.generation \in Nat
      BY <2>1 DEF WellFormed, ExecutionType
    <3>2. x.values[name].revision \in Nat
      BY <3>1 DEF ValueType
    <3> QED BY <3>1, <3>2 DEF NextRevision
  <2>5. /\ event.kind = "changed" /\ event.generation = x.generation /\ event.cause = None
        /\ event.name = name /\ event.revision = revision /\ event.payload = payload
        /\ event \in EventType
    <3> HIDE DEF revision
    <3> QED BY <2>4 DEF Changed, EventType, None
  <2>6. x.events \in Seq(EventType)
    BY <2>1 DEF WellFormed, ExecutionType
  <2>7. /\ n \in Nat /\ n \notin DOMAIN x.events
        /\ \A e \in DOMAIN x.events : e \in Nat /\ e < n
    BY <2>1, PositionsFollow
  <2>8. /\ DOMAIN y.events = DOMAIN x.events \cup {n} /\ y.events[n] = event
        /\ \A e \in DOMAIN x.events : y.events[e] = x.events[e]
    <3>1. DOMAIN x.events = 1..Len(x.events) /\ Len(x.events) \in Nat
      BY <2>6
    <3> QED BY <3>1, <2>3, <2>5, <2>6, AppendKeeps
  <2>9. IF Changes(x, name, x.generation) = {}
        THEN revision = 1
        ELSE \E d \in Changes(x, name, x.generation) :
               /\ \A c \in Changes(x, name, x.generation) : c <= d
               /\ revision = x.events[d].revision + 1
               /\ payload # x.events[d].payload
    BY <1>2, RevisionFollows
  <2>10. /\ \A m \in Names : m # name => y.values[m] = x.values[m]
         /\ y.values[name] = v
         /\ v.generation = x.generation /\ v.revision = revision /\ v.payload = payload
    BY <2>1, <2>3 DEF WellFormed, ExecutionType
  <2>11. Appends(x, y, event)
    BY <2>3, <2>5, <2>8 DEF Appends, ValidCause
  <2> HIDE DEF n, revision, event, v, y
  <2>12. ParentsFirst(y) /\ PendingIsNewest(y) /\ OneEffectEach(y)
    BY <2>1, <2>3 DEF ParentsFirst, PendingIsNewest, OneEffectEach
  <2>13. ValidRecords(y)
    BY <2>1, <2>2, <2>3, <2>12, ParentsEnd
       DEF Valid, ValidRecords, DistinctAttempts, ValidParents
  <2>14. \A m, g : Changes(y, m, g) = IF m = name /\ g = x.generation
                                      THEN Changes(x, m, g) \cup {n} ELSE Changes(x, m, g)
    BY <2>5, <2>7, <2>8 DEF Changes
  <2>15. \A m, g : Changes(x, m, g) \subseteq DOMAIN x.events
    BY DEF Changes
  <2>16. ValidEventOrder(y)
    BY <2>1, <2>11, OrderKept DEF Valid, ValidDataflow
  <2>17. ValidRevisions(y)
    <3>1. SUFFICES ASSUME NEW e \in DOMAIN y.events, y.events[e].kind = "changed", NEW older,
                          older = {d \in Changes(y, y.events[e].name, y.events[e].generation) : d < e}
                   PROVE  IF older = {}
                          THEN y.events[e].revision = 1
                          ELSE \E d \in older :
                                 /\ \A c \in older : c <= d
                                 /\ y.events[e].revision = y.events[d].revision + 1
                                 /\ y.events[e].payload # y.events[d].payload
      BY DEF ValidRevisions
    <3>2. CASE e = n
      <4>1. older = Changes(x, name, x.generation)
        BY <3>1, <3>2, <2>5, <2>7, <2>8, <2>14, <2>15
      <4>2. \A d \in older : y.events[d] = x.events[d]
        BY <4>1, <2>8, <2>15
      <4> QED BY <4>1, <4>2, <3>2, <2>5, <2>8, <2>9
    <3>3. CASE e \in DOMAIN x.events
      <4>1. y.events[e] = x.events[e] /\ e < n /\ e \in Nat
        BY <3>3, <2>7, <2>8
      <4>2. older = {d \in Changes(x, x.events[e].name, x.events[e].generation) : d < e}
        BY <3>1, <4>1, <2>7, <2>14
      <4>3. \A d \in older : y.events[d] = x.events[d]
        BY <4>2, <2>8, <2>15
      <4>4. ValidRevisions(x)
        BY <2>1 DEF Valid, ValidDataflow
      <4>5. IF older = {}
            THEN x.events[e].revision = 1
            ELSE \E d \in older :
                   /\ \A c \in older : c <= d
                   /\ x.events[e].revision = x.events[d].revision + 1
                   /\ x.events[e].payload # x.events[d].payload
        BY <3>1, <3>3, <4>1, <4>2, <4>4 DEF ValidRevisions
      <4> QED BY <4>1, <4>3, <4>5
    <3> QED BY <3>2, <3>3, <2>8
  <2>18. ValidValues(y)
    <3>1. ValidValues(x) /\ ValidEventOrder(x)
      BY <2>1 DEF Valid, ValidDataflow
    <3>2. SUFFICES ASSUME NEW m \in Names
                   PROVE  /\ y.values[m].generation <= y.generation
                          /\ y.values[m].revision > 0 =>
                                \E e \in Changes(y, m, y.values[m].generation) :
                                    /\ \A d \in Changes(y, m, y.values[m].generation) : d <= e
                                    /\ y.events[e].revision = y.values[m].revision
                                    /\ y.events[e].payload = y.values[m].payload
                          /\ \A e \in DOMAIN y.events :
                                y.events[e].kind = "changed" /\ y.events[e].name = m =>
                                    /\ y.values[m].revision > 0
                                    /\ y.events[e].generation <= y.values[m].generation
      BY DEF ValidValues
    <3>3. CASE m = name
      <4>1. n \in Changes(y, name, x.generation) /\ \A d \in Changes(y, name, x.generation) : d <= n
        BY <2>7, <2>14, <2>15
      <4>2. \A e \in DOMAIN y.events : y.events[e].generation <= x.generation
        BY <2>4, <2>5, <2>8, <3>1 DEF ValidEventOrder
      <4> QED BY <4>1, <4>2, <3>3, <2>3, <2>4, <2>5, <2>8, <2>10
    <3>4. CASE m # name
      <4>1. y.values[m] = x.values[m] /\ \A g : Changes(y, m, g) = Changes(x, m, g)
        BY <3>4, <2>10, <2>14
      <4>2. /\ x.values[m].generation <= x.generation
            /\ x.values[m].revision > 0 =>
                  \E e \in Changes(x, m, x.values[m].generation) :
                      /\ \A d \in Changes(x, m, x.values[m].generation) : d <= e
                      /\ x.events[e].revision = x.values[m].revision
                      /\ x.events[e].payload = x.values[m].payload
            /\ \A e \in DOMAIN x.events :
                  x.events[e].kind = "changed" /\ x.events[e].name = m =>
                      /\ x.values[m].revision > 0
                      /\ x.events[e].generation <= x.values[m].generation
        BY <3>1 DEF ValidValues
      <4>3. \A e \in Changes(x, m, x.values[m].generation) : y.events[e] = x.events[e]
        BY <2>8, <2>15
      <4>4. \A e \in DOMAIN y.events :
               y.events[e].name = m => e \in DOMAIN x.events /\ y.events[e] = x.events[e]
        BY <3>4, <2>5, <2>8
      <4> QED BY <4>1, <4>2, <4>3, <4>4, <2>3
    <3> QED BY <3>3, <3>4
  <2>19. ValidTerminations(y)
    BY <2>1, <2>3, <2>5, <2>8 DEF Valid, ValidDataflow, ValidTerminations, ValidCause
  <2>20. ValidDataflow(y)
    BY <2>1, <2>2, <2>8, <2>16, <2>17, <2>18, <2>19 DEF Valid, ValidDataflow
  <2>21. ValidEffects(y)
    BY <2>1, <2>3 DEF Valid, ValidEffects, DistinctInstances
  <2>22. ValidApprovals(y, MaxTtl)
    BY <2>1, <2>3 DEF Valid, ValidApprovals, ActionHash
  <2> QED BY <2>2, <2>12, <2>13, <2>20, <2>21, <2>22 DEF Restorable, Valid, y
<1> QED BY <1>1, <1>2

-----------------------------------------------------------------------------
(* Steps of the journal and of the approvals leave invocations, values and *)
(* events alone.                                                           *)
SameHistory(x, y) ==
    /\ y.generation = x.generation /\ y.records = x.records
    /\ y.events = x.events /\ y.values = x.values /\ y.consumed = x.consumed

LEMMA JournalStep ==
    ASSUME NEW x, Restorable(x), NEW y, WellFormed(y), SameHistory(x, y),
           OneEffectEach(y), ValidEffects(y), ValidApprovals(y, MaxTtl)
    PROVE  Restorable(y)
<1>1. Valid(x) /\ ParentsFirst(x) /\ PendingIsNewest(x)
  BY DEF Restorable
<1>2. ParentsFirst(y) /\ PendingIsNewest(y)
  BY <1>1 DEF SameHistory, ParentsFirst, PendingIsNewest
<1>3. ValidRecords(y)
  BY <1>1, <1>2, ParentsEnd
     DEF SameHistory, Valid, ValidRecords, DistinctAttempts, ValidParents
<1>4. ValidDataflow(y)
  BY <1>1 DEF SameHistory, Valid, ValidDataflow, ValidEventOrder, ValidRevisions, ValidValues,
              ValidTerminations, ValidCause, Changes
<1> QED BY <1>2, <1>3, <1>4 DEF Restorable, Valid

(* Two effects, f and g, describe the same action.                         *)
SameAction(f, g) ==
    /\ f.operation = g.operation /\ f.action = g.action /\ f.resource = g.resource
    /\ f.payload = g.payload /\ f.class = g.class /\ f.approval = g.approval
    /\ f.capability = g.capability /\ f.generation = g.generation

(* The hash of an action does not depend on what became of it.             *)
LEMMA HashKept ==
    ASSUME NEW x, NEW y, NEW e, SameAction(x.effects[e], y.effects[e])
    PROVE  ActionHash(y, e) = ActionHash(x, e)
  BY DEF SameAction, ActionHash

(* reserve_effect: there was no effect for exactly this action.            *)
LEMMA ReserveRestorable ==
    ASSUME NEW x, Restorable(x), NEW r \in Requests, CanReserve(x, r)
    PROVE  Restorable(Reserve(x, r))
<1> DEFINE n == Len(x.effects) + 1
           f == [operation |-> r.operation, action |-> r.action, resource |-> r.resource,
                 payload |-> r.payload, class |-> r.class, approval |-> r.approval,
                 capability |-> r.capability, generation |-> x.generation,
                 state |-> "NotStarted", invocation |-> None]
           y == Reserve(x, r)
<1>1. WellFormed(x) /\ Valid(x) /\ OneEffectEach(x) /\ WellFormed(y)
  BY ReserveKeeps DEF Restorable
<1>2. y.effects = Append(x.effects, f) /\ y.approvals = x.approvals /\ SameHistory(x, y)
  BY <1>1 DEF Reserve, SameHistory, WellFormed, ExecutionType
<1>3. /\ x.effects \in Seq(EffectType) /\ y.effects \in Seq(EffectType)
      /\ x.generation \in Nat /\ DOMAIN x.approvals \subseteq Nat
  BY <1>1 DEF WellFormed, ExecutionType
<1>4. /\ n \notin DOMAIN x.effects /\ DOMAIN y.effects = DOMAIN x.effects \cup {n}
      /\ y.effects[n] = f
      /\ \A e \in DOMAIN x.effects : y.effects[e] = x.effects[e]
  <2> HIDE DEF f, y
  <2>1. Len(x.effects) \in Nat /\ DOMAIN x.effects = 1..Len(x.effects)
    BY <1>3
  <2>2. DOMAIN y.effects = 1..n /\ y.effects[n] = f
    BY <1>2, <1>3
  <2>3. \A e \in DOMAIN x.effects : y.effects[e] = x.effects[e]
    BY <1>2, <1>3
  <2> QED BY <2>1, <2>2, <2>3
<1>5. /\ f.invocation = None /\ f.state = "NotStarted" /\ f.generation = x.generation
      /\ f.operation = r.operation /\ f.action = r.action /\ f.resource = r.resource
      /\ f.payload = r.payload
  OBVIOUS
<1> HIDE DEF n, f, y
<1>6. \A e \in DOMAIN x.effects :
         ~ /\ x.effects[e].generation = f.generation /\ x.effects[e].operation = f.operation
           /\ x.effects[e].action = f.action /\ x.effects[e].resource = f.resource
           /\ x.effects[e].payload = f.payload
  BY <1>5 DEF CanReserve, Existing, Slot
<1>7. OneEffectEach(y)
  BY <1>1, <1>4, <1>5 DEF OneEffectEach
<1>8. ValidEffects(y)
  <2>1. ValidEffects(x)
    BY <1>1 DEF Valid
  <2>2. DistinctInstances(y)
    BY <2>1, <1>4, <1>6 DEF ValidEffects, DistinctInstances
  <2> QED BY <2>1, <2>2, <1>2, <1>3, <1>4, <1>5 DEF ValidEffects, SameHistory
<1>9. ValidApprovals(y, MaxTtl)
  BY <1>1, <1>2, <1>4, <1>5 DEF Valid, ValidApprovals, ActionHash, SameHistory
<1> QED BY <1>1, <1>2, <1>7, <1>8, <1>9, JournalStep DEF y

(* x with another state of one effect.                                     *)
Noted(x, e, state) == [x EXCEPT !.effects[e].state = state]

(* An effect that was dispatched, and is not in flight afterwards, may     *)
(* change its state in any way.                                            *)
LEMMA EffectStateRestorable ==
    ASSUME NEW x, Restorable(x), NEW e \in DOMAIN x.effects, x.effects[e].invocation # None,
           NEW state \in {"Confirmed", "Failed", "Uncertain"}
    PROVE  /\ Restorable(Noted(x, e, state))
           /\ Noted(x, e, state).records = x.records
           /\ Noted(x, e, state).generation = x.generation
           /\ DOMAIN Noted(x, e, state).effects = DOMAIN x.effects
           /\ Noted(x, e, state).effects[e].state = state
           /\ \A d \in DOMAIN x.effects :
                 d # e => Noted(x, e, state).effects[d] = x.effects[d]
<1> DEFINE f == [x.effects[e] EXCEPT !.state = state]
           y == [x EXCEPT !.effects[e] = f]
<1>1. WellFormed(x) /\ Valid(x) /\ OneEffectEach(x) /\ x.effects[e] \in EffectType
  BY DEF Restorable, WellFormed, ExecutionType
<1>2. f \in EffectType /\ f.state = state /\ f.invocation = x.effects[e].invocation
      /\ SameAction(f, x.effects[e])
  BY <1>1 DEF EffectType, SameAction
<1>3. Noted(x, e, state) = y
  BY <1>1 DEF Noted, WellFormed, ExecutionType, EffectType
<1>4. WellFormed(y)
  <2> HIDE DEF f
  <2> QED BY <1>1, <1>2, EffectUpdateKeeps
<1>5. y.effects = [x.effects EXCEPT ![e] = f] /\ y.approvals = x.approvals /\ SameHistory(x, y)
  BY <1>1 DEF WellFormed, ExecutionType, SameHistory
<1> HIDE DEF f, y
<1>6. /\ DOMAIN y.effects = DOMAIN x.effects /\ y.effects[e] = f
      /\ \A d \in DOMAIN x.effects : d # e => y.effects[d] = x.effects[d]
  BY <1>5
<1>7. \A d \in DOMAIN x.effects : /\ SameAction(x.effects[d], y.effects[d])
                                  /\ y.effects[d].invocation = x.effects[d].invocation
                                  /\ ActionHash(y, d) = ActionHash(x, d)
  <2>1. \A d \in DOMAIN x.effects : /\ SameAction(x.effects[d], y.effects[d])
                                    /\ y.effects[d].invocation = x.effects[d].invocation
    BY <1>2, <1>6 DEF SameAction
  <2> QED BY <2>1, HashKept
<1>8. OneEffectEach(y)
  BY <1>1, <1>6, <1>7 DEF OneEffectEach
<1>9. ValidEffects(y)
  <2>1. ValidEffects(x)
    BY <1>1 DEF Valid
  <2>2. DistinctInstances(y)
    BY <2>1, <1>6, <1>7 DEF ValidEffects, DistinctInstances, SameAction
  <2>3. \A d \in DOMAIN x.effects : y.effects[d].state = "Started" => x.effects[d].state = "Started"
    BY <1>2, <1>6
  <2>4. \A d \in DOMAIN x.effects : y.effects[d].invocation = None => y.effects[d].state = "NotStarted"
    BY <2>1, <1>2, <1>6 DEF ValidEffects
  <2> QED BY <2>1, <2>2, <2>3, <2>4, <1>5, <1>6, <1>7 DEF ValidEffects, SameAction, SameHistory
<1>10. ValidApprovals(y, MaxTtl)
  BY <1>1, <1>5, <1>6, <1>7 DEF Valid, ValidApprovals, SameAction, SameHistory
<1>11. Restorable(y)
  BY <1>4, <1>5, <1>8, <1>9, <1>10, JournalStep
<1> QED BY <1>2, <1>3, <1>5, <1>6, <1>11 DEF SameHistory

(* Ending an invocation and changing the journal do not depend on one      *)
(* another, so the order does not matter.                                  *)
LEMMA FinishCommutes ==
    ASSUME NEW x, WellFormed(x), NEW e \in DOMAIN x.effects, NEW state,
           NEW i \in DOMAIN x.records, NEW succeeded \in BOOLEAN
    PROVE  Noted(FinishResult(x, i, succeeded), e, state) =
              FinishResult(Noted(x, e, state), i, succeeded)
<1> DEFINE y == Noted(x, e, state)
           F == [x.effects EXCEPT ![e].state = state]
           status == IF succeeded THEN "Completed" ELSE "Failed"
           E == Append(x.events, Terminated(x, i, status, x.records[i].cause))
           R == [x.records EXCEPT ![i].status = status]
<1>1. x \in ExecutionType
  BY DEF WellFormed
<1>2. /\ DOMAIN x = {"generation", "records", "events", "values", "consumed", "effects", "approvals"}
      /\ x = [generation |-> x.generation, records |-> x.records, events |-> x.events,
              values |-> x.values, consumed |-> x.consumed, effects |-> x.effects,
              approvals |-> x.approvals]
  BY <1>1 DEF ExecutionType
<1>3. y = [x EXCEPT !.effects = F]
  BY <1>2 DEF Noted
<1>4. /\ y.records = x.records /\ y.events = x.events /\ y.generation = x.generation
      /\ y.effects = F
  BY <1>2, <1>3
<1>5. FinishResult(x, i, succeeded) = [x EXCEPT !.events = E, !.records = R]
  BY <1>2 DEF FinishResult, Terminate, Emit
<1>6. FinishResult(y, i, succeeded) = [y EXCEPT !.events = E, !.records = R]
  <2> HIDE DEF y
  <2>1. Terminated(y, i, status, y.records[i].cause) = Terminated(x, i, status, x.records[i].cause)
    BY <1>4 DEF Terminated
  <2>2. DOMAIN y = DOMAIN x
    BY <1>3
  <2> QED BY <2>1, <2>2, <1>2, <1>4 DEF FinishResult, Terminate, Emit
<1> HIDE DEF E, R, y
<1>7. Noted(FinishResult(x, i, succeeded), e, state) =
         [generation |-> x.generation, records |-> R, events |-> E,
          values |-> x.values, consumed |-> x.consumed, effects |-> F,
          approvals |-> x.approvals]
  <2> DEFINE z == FinishResult(x, i, succeeded)
  <2>1. z = [generation |-> x.generation, records |-> R, events |-> E,
             values |-> x.values, consumed |-> x.consumed, effects |-> x.effects,
             approvals |-> x.approvals]
    BY <1>2, <1>5
  <2> HIDE DEF z
  <2>2. Noted(z, e, state) = [z EXCEPT !.effects = F]
    BY <2>1 DEF Noted
  <2> HIDE DEF F
  <2> QED BY <2>1, <2>2 DEF z
<1>8. FinishResult(y, i, succeeded) =
         [generation |-> x.generation, records |-> R, events |-> E,
          values |-> x.values, consumed |-> x.consumed, effects |-> F,
          approvals |-> x.approvals]
  BY <1>2, <1>3, <1>6
<1> QED BY <1>7, <1>8 DEF y

(* finish_effect: the effect leaves flight with its invocation, and no     *)
(* other effect is in flight under that invocation.                        *)
LEMMA FinishEffectRestorable ==
    ASSUME NEW x, Restorable(x), NEW e, NEW invocation, NEW succeeded \in BOOLEAN,
           CanFinishEffect(x, e, invocation)
    PROVE  Restorable(FinishEffect(x, e, invocation, succeeded))
<1> DEFINE state == FinishedState(x.effects[e], succeeded)
           y == Noted(x, e, state)
<1>1. WellFormed(x) /\ Valid(x) /\ OneEffectEach(x)
  BY DEF Restorable
<1>2. /\ e \in DOMAIN x.effects /\ x.effects[e].state = "Started"
      /\ x.effects[e].invocation = invocation
      /\ invocation \in DOMAIN x.records /\ x.records[invocation].status = "Pending"
      /\ x.records[invocation].generation = x.generation
  BY DEF CanFinishEffect, CanTerminate
<1>3. x.effects[e].invocation # None
  BY <1>1, <1>2 DEF Valid, ValidEffects
<1>4. state \in {"Confirmed", "Failed", "Uncertain"}
  BY DEF FinishedState
<1> HIDE DEF state
<1>5. /\ Restorable(y) /\ y.records = x.records /\ y.generation = x.generation
      /\ DOMAIN y.effects = DOMAIN x.effects /\ y.effects[e].state = state
      /\ \A d \in DOMAIN x.effects : d # e => y.effects[d] = x.effects[d]
  BY <1>2, <1>3, <1>4, EffectStateRestorable
<1>6. FinishEffect(x, e, invocation, succeeded) = FinishResult(y, invocation, succeeded)
  <2>1. FinishEffect(x, e, invocation, succeeded) =
           Noted(FinishResult(x, invocation, succeeded), e, state)
    BY DEF FinishEffect, Noted, state
  <2>2. Noted(FinishResult(x, invocation, succeeded), e, state) =
           FinishResult(y, invocation, succeeded)
    BY <1>1, <1>2, FinishCommutes
  <2> QED BY <2>1, <2>2
<1> HIDE DEF y
<1>7. ASSUME NEW d \in DOMAIN y.effects, y.effects[d].invocation = invocation
      PROVE  y.effects[d].state # "Started"
  <2>1. CASE d = e
    BY <2>1, <1>2, <1>3, <1>4, <1>5 DEF EffectType
  <2>2. CASE d # e
    BY <2>2, <1>1, <1>2, <1>3, <1>5, <1>7 DEF OneEffectEach
  <2> QED BY <2>1, <2>2
<1>8. Restorable(FinishResult(y, invocation, succeeded))
  BY <1>2, <1>5, <1>7, FinishResultRestorable
<1> QED BY <1>6, <1>8

(* reconcile_effect: the same, when the invocation is still pending.       *)
LEMMA ReconcileRestorable ==
    ASSUME NEW x, Restorable(x), NEW e, CanReconcile(x, e),
           NEW evidence \in {"Confirmed", "NotFound", "StillUncertain"}
    PROVE  Restorable(Reconcile(x, e, evidence))
<1> DEFINE state == ReconciledState(evidence)
           y == Noted(x, e, state)
           i == x.effects[e].invocation
           succeeded == evidence = "Confirmed"
<1>1. WellFormed(x) /\ Valid(x) /\ OneEffectEach(x)
  BY DEF Restorable
<1>2. /\ e \in DOMAIN x.effects /\ i # None /\ x.effects[e].generation = x.generation
  BY DEF CanReconcile
<1>3. /\ i \in DOMAIN x.records /\ x.records[i].generation = x.generation
  BY <1>1, <1>2 DEF Valid, ValidEffects
<1>4. state \in {"Confirmed", "Failed", "Uncertain"}
  BY DEF ReconciledState
<1> HIDE DEF state
<1>5. /\ Restorable(y) /\ y.records = x.records /\ y.generation = x.generation
      /\ DOMAIN y.effects = DOMAIN x.effects /\ y.effects[e].state = state
      /\ \A d \in DOMAIN x.effects : d # e => y.effects[d] = x.effects[d]
  BY <1>2, <1>4, EffectStateRestorable
<1>6. Reconcile(x, e, evidence) =
         IF x.records[i].status = "Pending" THEN FinishResult(y, i, succeeded) ELSE y
  <2>1. Noted(FinishResult(x, i, succeeded), e, state) = FinishResult(y, i, succeeded)
    BY <1>1, <1>2, <1>3, FinishCommutes
  <2>2. Reconcile(x, e, evidence) =
           Noted(IF x.records[i].status = "Pending" THEN FinishResult(x, i, succeeded) ELSE x,
                 e, state)
    BY <1>3 DEF Reconcile, Noted, state
  <2> QED BY <2>1, <2>2
<1> HIDE DEF y
<1>7. ASSUME NEW d \in DOMAIN y.effects, y.effects[d].invocation = i
      PROVE  y.effects[d].state # "Started"
  <2>1. CASE d = e
    BY <2>1, <1>4, <1>5
  <2>2. CASE d # e
    BY <2>2, <1>1, <1>2, <1>3, <1>5, <1>7 DEF OneEffectEach
  <2> QED BY <2>1, <2>2
<1>8. CASE x.records[i].status = "Pending"
  <2>1. i \in DOMAIN y.records /\ succeeded \in BOOLEAN /\ y.records[i].status = "Pending"
        /\ y.records[i].generation = y.generation
    BY <1>3, <1>5, <1>8
  <2> HIDE DEF i, succeeded
  <2>2. Restorable(FinishResult(y, i, succeeded))
    BY <2>1, <1>5, <1>7, FinishResultRestorable
  <2> QED BY <2>2, <1>6, <1>8
<1> QED BY <1>5, <1>6, <1>8

-----------------------------------------------------------------------------
(* start_effect under an invocation that is new to the journal: the effect *)
(* goes into flight, and the grant it needs is spent on this invocation.   *)
LEMMA StartRestorable ==
    ASSUME NEW x, Restorable(x), NEW e, NEW invocation, NEW a, NEW now,
           CanStart(x, e, invocation, a, now),
           \A d \in DOMAIN x.effects : x.effects[d].invocation # invocation,
           \A b \in DOMAIN x.approvals : x.approvals[b].consumer # invocation
    PROVE  Restorable(Start(x, e, invocation, a))
<1> DEFINE p == [x.approvals[a] EXCEPT !.state = "Consumed", !.consumer = invocation]
           f == [x.effects[e] EXCEPT !.state = "Started", !.invocation = invocation]
           needs == x.effects[e].approval
           y == Start(x, e, invocation, a)
<1>1. WellFormed(x) /\ Valid(x) /\ OneEffectEach(x) /\ x \in ExecutionType
  BY DEF Restorable, WellFormed
<1>2. /\ e \in DOMAIN x.effects /\ x.effects[e] \in EffectType
      /\ invocation \in DOMAIN x.records /\ invocation \in Nat /\ invocation # None
      /\ x.records[invocation].operation = x.effects[e].operation
      /\ x.records[invocation].status = "Pending"
      /\ x.records[invocation].generation = x.effects[e].generation
  BY <1>1 DEF CanStart, ExecutionType, None
<1>3. ASSUME needs
      PROVE  /\ a \in DOMAIN x.approvals /\ x.approvals[a].state = "Granted"
             /\ x.approvals[a].effect = e /\ x.approvals[a] \in ApprovalType
  BY <1>1, <1>3 DEF CanStart, Usable, ExecutionType
<1>4. WellFormed(y)
  <2> HIDE DEF y
  <2> QED BY <1>1, <1>2, <1>3, StartKeeps DEF y
<1>5. /\ SameHistory(x, y)
      /\ y.effects = [x.effects EXCEPT ![e] = f]
      /\ y.approvals = IF needs THEN [x.approvals EXCEPT ![a] = p] ELSE x.approvals
  <2>1. CASE needs
    BY <2>1, <1>1, <1>2, <1>3
       DEF Start, ConsumeApproval, SameHistory, ExecutionType, EffectType, ApprovalType
  <2>2. CASE ~needs
    BY <2>2, <1>1, <1>2 DEF Start, SameHistory, ExecutionType, EffectType
  <2> QED BY <2>1, <2>2
<1>6. f.state = "Started" /\ f.invocation = invocation /\ SameAction(f, x.effects[e])
  BY <1>2 DEF EffectType, SameAction
<1>7. ASSUME needs
      PROVE  /\ p.state = "Consumed" /\ p.consumer = invocation /\ p.effect = e
             /\ p.hash = x.approvals[a].hash /\ p.issued = x.approvals[a].issued
             /\ p.expires = x.approvals[a].expires
  BY <1>3, <1>7 DEF ApprovalType
<1> HIDE DEF p, f, y
<1>8. /\ DOMAIN y.effects = DOMAIN x.effects /\ y.effects[e] = f
      /\ \A d \in DOMAIN x.effects : d # e => y.effects[d] = x.effects[d]
  BY <1>2, <1>5
<1>9. \A d \in DOMAIN x.effects : /\ SameAction(x.effects[d], y.effects[d])
                                  /\ ActionHash(y, d) = ActionHash(x, d)
  <2>1. \A d \in DOMAIN x.effects : SameAction(x.effects[d], y.effects[d])
    BY <1>6, <1>8 DEF SameAction
  <2> QED BY <2>1, HashKept
<1>10. OneEffectEach(y)
  BY <1>1, <1>2, <1>6, <1>8 DEF OneEffectEach
<1>11. ValidEffects(y)
  <2>1. ValidEffects(x)
    BY <1>1 DEF Valid
  <2>2. DistinctInstances(y)
    BY <2>1, <1>8, <1>9 DEF ValidEffects, DistinctInstances, SameAction
  <2>3. ASSUME NEW d \in DOMAIN y.effects
        PROVE  /\ y.effects[d].generation <= y.generation
               /\ y.effects[d].invocation = None => y.effects[d].state = "NotStarted"
               /\ y.effects[d].invocation # None =>
                     /\ y.effects[d].invocation \in DOMAIN y.records
                     /\ y.records[y.effects[d].invocation].operation = y.effects[d].operation
                     /\ y.records[y.effects[d].invocation].generation = y.effects[d].generation
                     /\ y.effects[d].state = "Started" =>
                           y.records[y.effects[d].invocation].status = "Pending"
    <3>1. CASE d = e
      BY <3>1, <2>1, <1>2, <1>5, <1>6, <1>8 DEF ValidEffects, SameAction, SameHistory
    <3>2. CASE d # e
      BY <3>2, <2>1, <2>3, <1>5, <1>8 DEF ValidEffects, SameHistory
    <3> QED BY <3>1, <3>2
  <2> QED BY <2>2, <2>3 DEF ValidEffects
<1>12. ValidApprovals(y, MaxTtl)
  <2>1. ValidApprovals(x, MaxTtl)
    BY <1>1 DEF Valid
  <2>2. DOMAIN y.approvals = DOMAIN x.approvals
    BY <1>5
  <2>3. \A b \in DOMAIN x.approvals :
           /\ y.approvals[b].effect = x.approvals[b].effect
           /\ y.approvals[b].hash = x.approvals[b].hash
           /\ y.approvals[b].issued = x.approvals[b].issued
           /\ y.approvals[b].expires = x.approvals[b].expires
           /\ IF needs /\ b = a THEN /\ y.approvals[b].state = "Consumed"
                                     /\ y.approvals[b].consumer = invocation
                                ELSE y.approvals[b] = x.approvals[b]
    BY <1>3, <1>5, <1>7
  <2>4. ASSUME NEW b \in DOMAIN y.approvals
        PROVE  /\ y.approvals[b].effect \in DOMAIN y.effects
               /\ y.effects[y.approvals[b].effect].approval
               /\ y.approvals[b].hash = ActionHash(y, y.approvals[b].effect)
               /\ y.approvals[b].expires > y.approvals[b].issued
               /\ y.approvals[b].expires <= y.approvals[b].issued + MaxTtl
               /\ y.approvals[b].state = "Consumed" <=> y.approvals[b].consumer # None
               /\ y.approvals[b].consumer # None =>
                     /\ y.approvals[b].consumer \in DOMAIN y.records
                     /\ y.records[y.approvals[b].consumer].operation =
                           y.effects[y.approvals[b].effect].operation
    <3>1. /\ y.approvals[b].effect \in DOMAIN y.effects
          /\ y.effects[y.approvals[b].effect].approval
          /\ y.approvals[b].hash = ActionHash(y, y.approvals[b].effect)
          /\ y.approvals[b].expires > y.approvals[b].issued
          /\ y.approvals[b].expires <= y.approvals[b].issued + MaxTtl
      BY <2>1, <2>2, <2>3, <2>4, <1>8, <1>9 DEF ValidApprovals, SameAction
    <3>2. CASE needs /\ b = a
      <4>1. /\ y.approvals[b].state = "Consumed" /\ y.approvals[b].consumer = invocation
            /\ y.approvals[b].effect = e
        BY <3>2, <2>2, <2>3, <1>3
      <4>2. /\ invocation \in DOMAIN y.records
            /\ y.records[invocation].operation = y.effects[e].operation
        BY <1>2, <1>5, <1>9 DEF SameAction, SameHistory
      <4> QED BY <4>1, <4>2, <3>1, <1>2
    <3>3. CASE ~(needs /\ b = a)
      BY <3>1, <3>3, <2>1, <2>2, <2>3, <2>4, <1>5, <1>8, <1>9
         DEF ValidApprovals, SameAction, SameHistory
    <3> QED BY <3>1, <3>2, <3>3
  <2>5. \A b, c \in DOMAIN y.approvals :
           y.approvals[b].consumer # None /\ y.approvals[b].consumer = y.approvals[c].consumer
              => b = c
    BY <2>1, <2>2, <2>3 DEF ValidApprovals
  <2>6. ASSUME NEW d \in DOMAIN y.effects, y.effects[d].approval, y.effects[d].invocation # None
        PROVE  \E b \in DOMAIN y.approvals : y.approvals[b].consumer = y.effects[d].invocation
    <3>1. CASE d = e
      <4>1. needs
        BY <3>1, <2>6, <1>6, <1>8 DEF SameAction
      <4> QED BY <3>1, <4>1, <2>2, <2>3, <1>3, <1>6, <1>8
    <3>2. CASE d # e
      <4>1. PICK b \in DOMAIN x.approvals : x.approvals[b].consumer = x.effects[d].invocation
        BY <3>2, <2>1, <2>6, <1>8 DEF ValidApprovals
      <4>2. ~(needs /\ b = a)
        BY <3>2, <4>1, <2>1, <2>6, <1>3, <1>8 DEF ValidApprovals
      <4> QED BY <3>2, <4>1, <4>2, <2>2, <2>3, <1>8
    <3> QED BY <3>1, <3>2
  <2> QED BY <2>4, <2>5, <2>6 DEF ValidApprovals
<1> QED BY <1>4, <1>5, <1>10, <1>11, <1>12, JournalStep DEF y

(* begin_caused and start_effect in the one transition of invoke_effect:   *)
(* the invocation is new, so nothing in the journal speaks of it.          *)
LEMMA DispatchRestorable ==
    ASSUME NEW x, Restorable(x), NEW operation \in Operations, NEW e, NEW a, NEW now,
           CanBegin(x, operation, None, None),
           CanStart(Begin(x, operation, None, None), e, NewInvocation(x), a, now)
    PROVE  Restorable(Start(Begin(x, operation, None, None), e, NewInvocation(x), a))
<1> DEFINE y == Begin(x, operation, None, None)
           i == NewInvocation(x)
<1>1. WellFormed(x) /\ Valid(x) /\ None \in Nat
  BY DEF Restorable, None
<1>2. Restorable(y) /\ y.effects = x.effects /\ y.approvals = x.approvals
  BY <1>1, BeginRestorable, BeginKeeps
<1>3. i \notin DOMAIN x.records /\ i # None
  BY <1>1 DEF NewInvocation, WellFormed, ExecutionType, None
<1> HIDE DEF y, i
<1>4. \A d \in DOMAIN y.effects : y.effects[d].invocation # i
  BY <1>1, <1>2, <1>3 DEF Valid, ValidEffects
<1>5. \A b \in DOMAIN y.approvals : y.approvals[b].consumer # i
  BY <1>1, <1>2, <1>3 DEF Valid, ValidApprovals
<1>6. CanStart(y, e, i, a, now)
  BY DEF y, i
<1>7. Restorable(Start(y, e, i, a))
  BY <1>2, <1>4, <1>5, <1>6, StartRestorable
<1> QED BY <1>7 DEF y, i

(* request_approval: the question is bound to the action as it is now, and *)
(* its lifetime is one that restore() accepts.                             *)
LEMMA RequestApprovalRestorable ==
    ASSUME NEW x, Restorable(x), NEW e \in DOMAIN x.effects, x.effects[e].approval,
           NEW now \in Nat, NEW ttl \in 1..MaxTtl
    PROVE  Restorable(RequestApproval(x, e, now, ttl))
<1> DEFINE n == Len(x.approvals) + 1
           p == [effect |-> e, hash |-> ActionHash(x, e), state |-> "Pending",
                 issued |-> now, expires |-> now + ttl, consumer |-> None]
           y == RequestApproval(x, e, now, ttl)
<1>1. WellFormed(x) /\ Valid(x) /\ OneEffectEach(x) /\ ttl \in Nat /\ ttl > 0 /\ ttl <= MaxTtl
  BY MaxTtlAssumption DEF Restorable
<1>2. WellFormed(y)
  BY <1>1, RequestApprovalKeeps
<1>3. y.effects = x.effects /\ y.approvals = Append(x.approvals, p) /\ SameHistory(x, y)
  BY <1>1 DEF RequestApproval, SameHistory, WellFormed, ExecutionType
<1>4. x.approvals \in Seq(ApprovalType) /\ y.approvals \in Seq(ApprovalType)
  BY <1>1, <1>2 DEF WellFormed, ExecutionType
<1>5. /\ p.effect = e /\ p.hash = ActionHash(x, e) /\ p.state = "Pending"
      /\ p.issued = now /\ p.expires = now + ttl /\ p.consumer = None
  OBVIOUS
<1> HIDE DEF p, y
<1>6. /\ DOMAIN y.approvals = DOMAIN x.approvals \cup {n} /\ y.approvals[n] = p
      /\ n \notin DOMAIN x.approvals
      /\ \A b \in DOMAIN x.approvals : y.approvals[b] = x.approvals[b]
  <2>1. Len(x.approvals) \in Nat /\ DOMAIN x.approvals = 1..Len(x.approvals)
    BY <1>4
  <2>2. DOMAIN y.approvals = 1..n /\ y.approvals[n] = p
    BY <1>3, <1>4
  <2>3. \A b \in DOMAIN x.approvals : y.approvals[b] = x.approvals[b]
    BY <1>3, <1>4
  <2> QED BY <2>1, <2>2, <2>3
<1> HIDE DEF n
<1>7. now + ttl > now /\ now + ttl <= now + MaxTtl
  BY <1>1, MaxTtlAssumption
<1>8. \A d : ActionHash(y, d) = ActionHash(x, d)
  BY <1>3 DEF ActionHash
<1>9. OneEffectEach(y) /\ ValidEffects(y)
  BY <1>1, <1>3 DEF OneEffectEach, Valid, ValidEffects, DistinctInstances, SameHistory
<1>10. ValidApprovals(y, MaxTtl)
  <2>1. ValidApprovals(x, MaxTtl)
    BY <1>1 DEF Valid
  <2>2. \A b \in DOMAIN y.approvals :
           /\ y.approvals[b].effect \in DOMAIN y.effects
           /\ y.effects[y.approvals[b].effect].approval
           /\ y.approvals[b].hash = ActionHash(y, y.approvals[b].effect)
           /\ y.approvals[b].expires > y.approvals[b].issued
           /\ y.approvals[b].expires <= y.approvals[b].issued + MaxTtl
           /\ y.approvals[b].state = "Consumed" <=> y.approvals[b].consumer # None
           /\ y.approvals[b].consumer # None =>
                 /\ y.approvals[b].consumer \in DOMAIN y.records
                 /\ y.records[y.approvals[b].consumer].operation =
                       y.effects[y.approvals[b].effect].operation
    BY <2>1, <1>3, <1>5, <1>6, <1>7, <1>8 DEF ValidApprovals, SameHistory
  <2>3. \A b, c \in DOMAIN y.approvals :
           y.approvals[b].consumer # None /\ y.approvals[b].consumer = y.approvals[c].consumer
              => b = c
    BY <2>1, <1>5, <1>6 DEF ValidApprovals
  <2>4. \A d \in DOMAIN y.effects :
           y.effects[d].approval /\ y.effects[d].invocation # None =>
              \E b \in DOMAIN y.approvals : y.approvals[b].consumer = y.effects[d].invocation
    BY <2>1, <1>3, <1>6 DEF ValidApprovals
  <2> QED BY <2>2, <2>3, <2>4 DEF ValidApprovals
<1> QED BY <1>2, <1>3, <1>9, <1>10, JournalStep DEF y

(* decide_approval: an answered question is not spent.                     *)
LEMMA DecideRestorable ==
    ASSUME NEW x, Restorable(x), NEW a \in DOMAIN x.approvals, NEW granted \in BOOLEAN,
           x.approvals[a].state = "Pending"
    PROVE  Restorable(Decide(x, a, granted))
<1> DEFINE state == IF granted THEN "Granted" ELSE "Denied"
           p == [x.approvals[a] EXCEPT !.state = state]
           y == Decide(x, a, granted)
<1>1. WellFormed(x) /\ Valid(x) /\ OneEffectEach(x) /\ x.approvals[a] \in ApprovalType
  BY DEF Restorable, WellFormed, ExecutionType
<1>2. WellFormed(y)
  BY <1>1, DecideKeeps
<1>3. y.effects = x.effects /\ y.approvals = [x.approvals EXCEPT ![a] = p] /\ SameHistory(x, y)
  BY <1>1 DEF Decide, SameHistory, WellFormed, ExecutionType
<1>4. /\ p.effect = x.approvals[a].effect /\ p.hash = x.approvals[a].hash
      /\ p.issued = x.approvals[a].issued /\ p.expires = x.approvals[a].expires
      /\ p.consumer = x.approvals[a].consumer /\ p.state # "Consumed"
  BY <1>1 DEF ApprovalType
<1> HIDE DEF p, y
<1>5. /\ DOMAIN y.approvals = DOMAIN x.approvals /\ y.approvals[a] = p
      /\ \A b \in DOMAIN x.approvals : b # a => y.approvals[b] = x.approvals[b]
  BY <1>3
<1>6. \A d : ActionHash(y, d) = ActionHash(x, d)
  BY <1>3 DEF ActionHash
<1>7. OneEffectEach(y) /\ ValidEffects(y)
  BY <1>1, <1>3 DEF OneEffectEach, Valid, ValidEffects, DistinctInstances, SameHistory
<1>8. ValidApprovals(y, MaxTtl)
  <2>1. ValidApprovals(x, MaxTtl)
    BY <1>1 DEF Valid
  <2>2. \A b \in DOMAIN x.approvals :
           /\ y.approvals[b].effect = x.approvals[b].effect
           /\ y.approvals[b].hash = x.approvals[b].hash
           /\ y.approvals[b].issued = x.approvals[b].issued
           /\ y.approvals[b].expires = x.approvals[b].expires
           /\ y.approvals[b].consumer = x.approvals[b].consumer
           /\ y.approvals[b].state = "Consumed" <=> x.approvals[b].state = "Consumed"
    BY <1>4, <1>5
  <2> QED BY <2>1, <2>2, <1>3, <1>5, <1>6 DEF ValidApprovals, SameHistory
<1> QED BY <1>2, <1>3, <1>7, <1>8, JournalStep DEF y

(* restore() itself: what was in flight is uncertain, under the same       *)
(* invocation.                                                             *)
LEMMA RestoredRestorable ==
    ASSUME NEW x, Restorable(x) PROVE Restorable(Restored(x))
<1> DEFINE y == Restored(x)
<1>1. WellFormed(x) /\ Valid(x) /\ OneEffectEach(x)
  BY DEF Restorable
<1>2. WellFormed(y)
  BY <1>1, RestoredKeeps
<1>3. /\ SameHistory(x, y) /\ y.approvals = x.approvals
      /\ y.effects = [e \in DOMAIN x.effects |->
                         IF x.effects[e].state = "Started"
                         THEN [x.effects[e] EXCEPT !.state = "Uncertain"]
                         ELSE x.effects[e]]
  BY <1>1 DEF Restored, SameHistory, WellFormed, ExecutionType
<1>4. \A e \in DOMAIN x.effects : x.effects[e] \in EffectType
  BY <1>1 DEF WellFormed, ExecutionType
<1> HIDE DEF y
<1>5. /\ DOMAIN y.effects = DOMAIN x.effects
      /\ \A e \in DOMAIN x.effects :
            /\ SameAction(x.effects[e], y.effects[e])
            /\ y.effects[e].invocation = x.effects[e].invocation
            /\ y.effects[e].state # "Started"
            /\ y.effects[e].state = "NotStarted" <=> x.effects[e].state = "NotStarted"
  BY <1>3, <1>4 DEF SameAction, EffectType
<1>6. \A e \in DOMAIN x.effects : ActionHash(y, e) = ActionHash(x, e)
  BY <1>5, HashKept
<1>7. OneEffectEach(y)
  BY <1>1, <1>5 DEF OneEffectEach
<1>8. ValidEffects(y)
  <2>1. ValidEffects(x)
    BY <1>1 DEF Valid
  <2>2. DistinctInstances(y)
    BY <2>1, <1>5 DEF ValidEffects, DistinctInstances, SameAction
  <2> QED BY <2>1, <2>2, <1>3, <1>5 DEF ValidEffects, SameAction, SameHistory
<1>9. ValidApprovals(y, MaxTtl)
  BY <1>1, <1>3, <1>5, <1>6 DEF Valid, ValidApprovals, SameAction, SameHistory
<1> QED BY <1>2, <1>3, <1>7, <1>8, <1>9, JournalStep DEF y
=============================================================================
