------------------------------ MODULE RunStore ------------------------------
(***************************************************************************)
(* The durable store of one run (audit.rs) with everything it meets: the   *)
(* single caller that owns it (the engine), the providers behind the write *)
(* routes, the human who answers approvals, the clock, a checkpoint file   *)
(* whose write may fail, and the death and reopening of the process.       *)
(*                                                                         *)
(* Every method commits one transition of the execution state: clone,      *)
(* update, write execution.json, then replace the copy in memory.  If the  *)
(* write fails the file may hold either state, and the store refuses all   *)
(* further transitions until it is reopened.                               *)
(***************************************************************************)
EXTENDS Effect

CONSTANTS Ttl,          \* lifetime the approver configuration asks for
          MaxRecords, MaxEvents, MaxApprovals, MaxTime, MaxCrashes   \* bounds

ASSUME TtlAssumption == Ttl \in 1..MaxTtl
ASSUME BoundsAssumption == {MaxRecords, MaxEvents, MaxApprovals, MaxTime, MaxCrashes} \subseteq Nat

VARIABLES memory,     \* RunStore.execution
          disk,       \* execution.json
          poisoned,   \* RunStore.checkpoint_failed
          call,       \* what the caller is in the middle of
          wire,       \* requests a provider may still act on
          landed,     \* requests a provider has acted on
          delivered,  \* event ids whose payload consume_event returned
          now,        \* the wall clock
          crashes     \* processes that have died so far

store == <<memory, disk, poisoned>>
provider == <<wire, landed>>
vars == <<store, call, provider, delivered, now, crashes>>

Idle == [at |-> "idle"]
Down == [at |-> "down"]

Init ==
    /\ memory = NewExecution
    /\ disk = NewExecution
    /\ poisoned = FALSE
    /\ call = Idle
    /\ wire = {} /\ landed = {}
    /\ delivered = <<>>
    /\ now = 0 /\ crashes = 0

-----------------------------------------------------------------------------
(* update_execution: next becomes durable and then visible, or the write   *)
(* fails and leaves the old or the new snapshot on disk.                   *)

(* Mutant: the store goes on before the file is synced.                    *)
CommitUnsynced(next) ==
    /\ ~poisoned
    /\ memory' = next /\ disk' \in {disk, next}
    /\ UNCHANGED poisoned

Commit(next) ==
    /\ ~poisoned
    /\ memory' = next /\ disk' = next
    /\ UNCHANGED poisoned

(* Mutant: the store stays usable after a failed write.                    *)
WriteFailsQuietly(next) ==
    /\ ~poisoned
    /\ crashes < MaxCrashes
    /\ disk' \in {disk, next}
    /\ UNCHANGED <<memory, poisoned>>

WriteFails(next) ==
    /\ ~poisoned
    /\ crashes < MaxCrashes      \* bound: a failed write is followed by a restart
    /\ disk' \in {disk, next}
    /\ poisoned' = TRUE
    /\ UNCHANGED memory

(* One transition; on a failed write the method returns an error and the   *)
(* caller gives up what it was doing.                                      *)
Update(next, then) ==
    \/ Commit(next) /\ call' = then
    \/ WriteFails(next) /\ call' = Idle

Request(i, e) == [invocation |-> i, effect |-> e]

-----------------------------------------------------------------------------
(* invoke: a plain call.  The identity is durable before the device is     *)
(* polled.  The audit line written in between may fail: then the device is *)
(* never called and the invocation stays pending.                          *)

InvokeBegin(op) ==
    /\ call = Idle
    /\ Len(memory.records) < MaxRecords
    /\ CanBegin(memory, op, None, None)
    /\ \E then \in {Idle, [at |-> "invoking", invocation |-> NewInvocation(memory)]} :
          Update(Begin(memory, op, None, None), then)
    /\ UNCHANGED <<provider, delivered, now, crashes>>

InvokeReturn(succeeded) ==
    /\ call.at = "invoking"
    /\ CanTerminate(memory, call.invocation, memory.generation)
    /\ Update(FinishResult(memory, call.invocation, succeeded), Idle)
    /\ UNCHANGED <<provider, delivered, now, crashes>>

-----------------------------------------------------------------------------
(* invoke_effect: reserve; begin and start in one transition; dispatch;    *)
(* record the outcome.  reserve_effect alone is obtain_approval's first    *)
(* step: the caller then goes back to Idle.                                *)

ReserveNew(r) ==
    /\ call = Idle
    /\ Len(memory.records) < MaxRecords
    /\ CanReserve(memory, r)
    /\ \E then \in {Idle, [at |-> "reserved", effect |-> NewEffect(memory)]} :
          Update(Reserve(memory, r), then)
    /\ UNCHANGED <<provider, delivered, now, crashes>>

(* The reservation of an existing instance rewrites the same snapshot.     *)
ReserveAgain(r, e) ==
    /\ call = Idle
    /\ Len(memory.records) < MaxRecords
    /\ CanRedispatch(memory, r, e)
    /\ Update(memory, [at |-> "reserved", effect |-> e])
    /\ UNCHANGED <<provider, delivered, now, crashes>>

(* A confirmed instance answers with its stored result: no dispatch.       *)
ReuseResult(r, e) ==
    /\ call = Idle
    /\ CanReuse(memory, r, e)
    /\ Update(memory, Idle)
    /\ UNCHANGED <<provider, delivered, now, crashes>>

(* begin + start_effect, spending approval a.  The request leaves for the  *)
(* provider unless the audit line after the commit cannot be written.      *)
Dispatch(a) ==
    /\ call.at = "reserved"
    /\ LET e == call.effect
           i == NewInvocation(memory)
           op == memory.effects[e].operation
           begun == Begin(memory, op, None, None)
       IN /\ CanBegin(memory, op, None, None)
          /\ CanStart(begun, e, i, a, now)
          /\ \/ /\ Commit(Start(begun, e, i, a))
                /\ call' = [at |-> "calling", effect |-> e, invocation |-> i]
                /\ wire' = wire \cup {Request(i, e)}
             \/ /\ Update(Start(begun, e, i, a), Idle)
                /\ UNCHANGED wire
    /\ UNCHANGED <<landed, delivered, now, crashes>>

(* begin or start_effect refuses (operation pending, no usable approval):  *)
(* invoke_effect returns the error and nothing was written.                *)
DispatchRefused ==
    /\ call.at = "reserved"
    /\ LET e == call.effect
           op == memory.effects[e].operation
       IN \/ ~CanBegin(memory, op, None, None)
          \/ \A a \in {None} \cup DOMAIN memory.approvals :
                ~CanStart(Begin(memory, op, None, None), e, NewInvocation(memory), a, now)
    /\ call' = Idle
    /\ UNCHANGED <<store, provider, delivered, now, crashes>>

(* The call returns: a success only for a write the provider has applied;  *)
(* an error (transport, timeout, normalization) says nothing about it.     *)
CallReturn(succeeded) ==
    /\ call.at = "calling"
    /\ succeeded => Request(call.invocation, call.effect) \in landed
    /\ CanFinishEffect(memory, call.effect, call.invocation)
    /\ Update(FinishEffect(memory, call.effect, call.invocation, succeeded), Idle)
    /\ UNCHANGED <<provider, delivered, now, crashes>>

(* The future of a call or of a pending question is dropped by a timeout   *)
(* of the caller (design.rs, tokio::time::timeout): nothing is recorded.   *)
Abandon ==
    /\ call.at \in {"invoking", "calling", "asking"}
    /\ call' = Idle
    /\ UNCHANGED <<store, provider, delivered, now, crashes>>

-----------------------------------------------------------------------------
(* Approvals: request, ask the human, decide.                              *)

RequestAnswer(e, parameters) ==
    /\ call = Idle
    /\ Len(memory.approvals) < MaxApprovals
    /\ ~HasGrantedApproval(memory, e, now)
    /\ CanRequestApproval(memory, e, parameters, now)
    /\ Update(RequestApproval(memory, e, now, Ttl),
              [at |-> "asking", approval |-> NewApproval(memory)])
    /\ UNCHANGED <<provider, delivered, now, crashes>>

(* The approver answers, echoing the hash of the action it was shown.      *)
Answer(echo, granted) ==
    /\ call.at = "asking"
    /\ CanDecide(memory, call.approval, echo, now)
    /\ Update(Decide(memory, call.approval, granted), Idle)
    /\ UNCHANGED <<provider, delivered, now, crashes>>

(* A late or mismatched answer is refused and the approval stays pending.  *)
AnswerRefused(echo) ==
    /\ call.at = "asking"
    /\ ~CanDecide(memory, call.approval, echo, now)
    /\ call' = Idle
    /\ UNCHANGED <<store, provider, delivered, now, crashes>>

-----------------------------------------------------------------------------
(* reconcile_effect, by a trusted reconciler that reports only what the    *)
(* provider proves: not_found excludes a request still under way.          *)
Evidence(e) ==
    (IF \E q \in landed : q.effect = e THEN {"Confirmed"} ELSE {})
      \cup (IF \E q \in wire \cup landed : q.effect = e THEN {} ELSE {"NotFound"})
      \cup {"StillUncertain"}

ReconcileEffect(e) ==
    /\ call = Idle
    /\ CanReconcile(memory, e)
    /\ \E evidence \in Evidence(e) : Update(Reconcile(memory, e, evidence), Idle)
    /\ UNCHANGED <<provider, delivered, now, crashes>>

-----------------------------------------------------------------------------
(* Values and events.                                                      *)

AssignValue(name, payload) ==
    /\ call = Idle
    /\ Len(memory.events) < MaxEvents
    /\ Update(Assign(memory, name, payload), Idle)
    /\ UNCHANGED <<provider, delivered, now, crashes>>

PublishEvent(topic, payload, cause) ==
    /\ call = Idle
    /\ Len(memory.events) < MaxEvents
    /\ CanPublish(memory, cause)
    /\ Update(Publish(memory, topic, payload, cause), Idle)
    /\ UNCHANGED <<provider, delivered, now, crashes>>

(* The payload is returned only after the consumption is durable, and only *)
(* by the call that consumed it.                                           *)
ConsumeEvent(event) ==
    /\ call = Idle
    /\ Len(memory.events) <= MaxEvents
    /\ CanConsume(memory, event)
    /\ \/ /\ Commit(Consume(memory, event))
          /\ delivered' = IF event \in memory.consumed
                          THEN delivered ELSE Append(delivered, event)
       \/ WriteFails(Consume(memory, event)) /\ UNCHANGED delivered
    /\ UNCHANGED <<call, provider, now, crashes>>

-----------------------------------------------------------------------------
(* The surroundings.                                                       *)

(* A provider acts on a request at any time after it was sent, also after  *)
(* the caller gave up, or never.                                           *)
Land(q) ==
    /\ q \in wire
    /\ wire' = wire \ {q}
    /\ landed' = landed \cup {q}
    /\ UNCHANGED <<store, call, delivered, now, crashes>>

Lose(q) ==
    /\ q \in wire
    /\ wire' = wire \ {q}
    /\ UNCHANGED <<store, call, landed, delivered, now, crashes>>

Crash ==
    /\ call # Down
    /\ crashes < MaxCrashes
    /\ call' = Down
    /\ crashes' = crashes + 1
    /\ UNCHANGED <<store, provider, delivered, now>>

(* RunStore::open: restore the file, persist the restored state, then use  *)
(* it.  When that write fails, open returns an error and nothing is up.    *)
Open ==
    /\ call = Down
    /\ Valid(disk)
    /\ \/ /\ memory' = Restored(disk) /\ disk' = Restored(disk)
          /\ poisoned' = FALSE
          /\ call' = Idle
       \/ /\ disk' = Restored(disk)
          /\ UNCHANGED <<memory, poisoned, call>>
    /\ UNCHANGED <<provider, delivered, now, crashes>>

Tick ==
    /\ now < MaxTime
    /\ now' = now + 1
    /\ UNCHANGED <<store, call, provider, delivered, crashes>>

-----------------------------------------------------------------------------
InvokeStep ==
    \/ \E op \in Operations : InvokeBegin(op)
    \/ \E succeeded \in BOOLEAN : InvokeReturn(succeeded)

EffectStep ==
    \/ \E r \in Requests : ReserveNew(r)
    \/ \E r \in Requests, e \in DOMAIN memory.effects : ReserveAgain(r, e) \/ ReuseResult(r, e)
    \/ \E a \in {None} \cup DOMAIN memory.approvals : Dispatch(a)
    \/ DispatchRefused
    \/ \E succeeded \in BOOLEAN : CallReturn(succeeded)
    \/ Abandon
    \/ \E e \in DOMAIN memory.effects : ReconcileEffect(e)

ApprovalStep ==
    \/ \E e \in DOMAIN memory.effects, parameters \in Contents : RequestAnswer(e, parameters)
    \/ \E a \in DOMAIN memory.approvals :
          \/ \E granted \in BOOLEAN : Answer(memory.approvals[a].hash, granted)
          \/ AnswerRefused(memory.approvals[a].hash)

DataflowStep ==
    \/ \E n \in Names, p \in Payloads : AssignValue(n, p)
    \/ \E t \in Topics, p \in Payloads, cause \in {None} \cup DOMAIN memory.events :
          PublishEvent(t, p, cause)
    \/ \E event \in DOMAIN memory.events : ConsumeEvent(event)

ProviderStep == \E q \in wire : Land(q) \/ Lose(q)

Next == \/ InvokeStep \/ EffectStep \/ ApprovalStep \/ DataflowStep
        \/ ProviderStep \/ Crash \/ Open \/ Tick

Spec == Init /\ [][Next]_vars

-----------------------------------------------------------------------------
(* Fairness, for the liveness property only.  A process that stopped is    *)
(* started again, and so is one whose store is poisoned; a provider acts   *)
(* on a request or drops it; a call in flight returns or is abandoned; and *)
(* a trusted reconciler that keeps asking is told something definite.      *)
Restart == poisoned /\ Crash

Settle(e) ==
    /\ call = Idle
    /\ CanReconcile(memory, e)
    /\ \E evidence \in Evidence(e) \ {"StillUncertain"} :
          Commit(Reconcile(memory, e, evidence)) /\ UNCHANGED call
    /\ UNCHANGED <<provider, delivered, now, crashes>>

Fairness ==
    /\ WF_vars(Open /\ call' = Idle)
    /\ WF_vars(Restart)
    /\ WF_vars(ProviderStep)
    /\ WF_vars(\/ DispatchRefused \/ \E a \in {None} \cup DOMAIN memory.approvals : Dispatch(a)
               \/ CallReturn(FALSE) \/ InvokeReturn(FALSE) \/ Abandon)
    /\ \A e \in 1..Cardinality(Requests) : SF_vars(Settle(e))

FairSpec == Spec /\ Fairness

-----------------------------------------------------------------------------
(* Type invariant.                                                         *)
RequestType == [invocation: Nat, effect: Nat]

CallType ==
    [at: {"idle", "down"}] \cup [at: {"invoking"}, invocation: Nat]
      \cup [at: {"reserved"}, effect: Nat]
      \cup [at: {"calling"}, effect: Nat, invocation: Nat]
      \cup [at: {"asking"}, approval: Nat]

TypeOK ==
    /\ memory \in ExecutionType
    /\ disk \in ExecutionType
    /\ poisoned \in BOOLEAN
    /\ call \in CallType
    /\ wire \subseteq RequestType
    /\ landed \subseteq RequestType
    /\ delivered \in Seq(Nat)
    /\ now \in Nat
    /\ crashes \in Nat

(* Whenever the process dies, RunStore::open accepts the file it left: no  *)
(* interleaving of calls, failed writes and restarts stores a checkpoint   *)
(* that restore() refuses.                                                 *)
CheckpointsRestore == Valid(disk)

(* Every request that ever left the process was journaled first, and what  *)
(* the file says of a remote write is true: a write it calls not started   *)
(* or failed was neither sent since nor performed, and one it calls        *)
(* confirmed was performed.                                                *)
Sent(e) == {q \in wire \cup landed : q.effect = e}

Remote(f) == f.class # "LocalWrite"

JournalIsTrue ==
    /\ \A q \in wire \cup landed : /\ q.effect \in DOMAIN disk.effects
                                   /\ q.invocation \in DOMAIN disk.records
                                   /\ disk.effects[q.effect].state # "NotStarted"
    /\ \A e \in DOMAIN disk.effects :
          Remote(disk.effects[e]) =>
             /\ disk.effects[e].state = "Failed" => Sent(e) = {}
             /\ disk.effects[e].state = "Confirmed" => \E q \in landed : q.effect = e

(* Every request sent for an approval-bound effect has an approval of its  *)
(* own, spent on disk by that very dispatch, so neither a crash nor a      *)
(* failed write lets one human answer release two requests.                *)
EachRequestSpentAGrant ==
    \A q \in wire \cup landed :
        disk.effects[q.effect].approval =>
           \E a \in DOMAIN disk.approvals : /\ disk.approvals[a].effect = q.effect
                                           /\ disk.approvals[a].state = "Consumed"
                                           /\ disk.approvals[a].consumer = q.invocation

(* A request leaves only on a grant that is in force: given by the human,  *)
(* not expired, and not spent before.                                      *)
DispatchNeedsLiveGrant ==
    [][\A q \in wire' \ wire :
          memory.effects[q.effect].approval =>
             \E a \in DOMAIN memory.approvals :
                /\ memory.approvals[a].effect = q.effect
                /\ memory.approvals[a].state = "Granted"
                /\ now \in memory.approvals[a].issued..memory.approvals[a].expires
                /\ disk'.approvals[a].consumer = q.invocation]_vars

(* What the file has settled stays settled over failed writes and          *)
(* restarts: confirmed effects, failed destructive effects, ended          *)
(* invocations, spent or denied approvals and consumed events.             *)
SettledStaysSettled == [][KeepsSettled(disk, disk')]_vars

(* An event is handed to a handler at most once, whatever crashes or fails *)
(* between the consumption and the hand-over.                              *)
DeliveredAtMostOnce ==
    \A i, j \in DOMAIN delivered : delivered[i] = delivered[j] => i = j

(* The journal implements WriteOnce for the remote writes: claims are read *)
(* from the file, applications counted at the provider.                    *)
RemoteWrites ==
    {[operation |-> r.operation, action |-> r.action,
      resource |-> r.resource, payload |-> r.payload] :
        r \in {s \in Requests : s.class # "LocalWrite"}}

EffectsOf(x, w) ==
    {e \in DOMAIN x.effects : /\ Remote(x.effects[e])
                              /\ x.effects[e].operation = w.operation
                              /\ x.effects[e].action = w.action
                              /\ x.effects[e].resource = w.resource
                              /\ x.effects[e].payload = w.payload}

ClaimOf(state) ==
    CASE state = "NotStarted" -> "none"
      [] state \in Unresolved -> "open"
      [] state = "Confirmed" -> "applied"
      [] state = "Failed" -> "absent"

Journal == INSTANCE WriteOnce WITH
    Writes <- RemoteWrites,
    claim <- [w \in RemoteWrites |->
                 IF EffectsOf(disk, w) = {} THEN "none"
                 ELSE ClaimOf(disk.effects[CHOOSE e \in EffectsOf(disk, w) : TRUE].state)],
    applied <- [w \in RemoteWrites |->
                   Cardinality({q \in landed : q.effect \in EffectsOf(disk, w)})]

RemoteWritesHappenOnce == Journal!Spec

(* No write is lost in limbo: an unresolved effect can always be settled,  *)
(* and is, once the process runs and the provider gives evidence.          *)
UnresolvedIsSettled ==
    \A e \in 1..Cardinality(Requests) :
        (e \in DOMAIN disk.effects /\ disk.effects[e].state \in Unresolved)
           ~> (e \in DOMAIN disk.effects /\ disk.effects[e].state \notin Unresolved)

(* docs/RUNTIME_SPEC.md: "STARTED --error/timeout (remote write)--->       *)
(* UNCERTAIN".  A call that ends without an answer leaves its effect       *)
(* UNCERTAIN (or settled), not STARTED.                                    *)
TimeoutIsUncertain ==
    [][call.at = "calling" /\ call' = Idle /\ ~poisoned' =>
          memory'.effects[call.effect].state # "Started"]_vars

(* docs/RUNTIME_SPEC.md: "no new instance is reserved while another Effect *)
(* in that operation is STARTED or UNCERTAIN, because a variant could      *)
(* duplicate the unresolved write": no two variants of a remote write are  *)
(* unresolved together.                                                    *)
NoUnresolvedVariants ==
    \A d, e \in DOMAIN disk.effects :
        LET f == disk.effects[d]  g == disk.effects[e] IN
        /\ f.operation = g.operation /\ f.action = g.action
        /\ Remote(f) /\ Remote(g)
        /\ f.state \in Unresolved /\ g.state \in Unresolved
        => d = e
=============================================================================
