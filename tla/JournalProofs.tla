---------------------------- MODULE JournalProofs ----------------------------
(***************************************************************************)
(* What the run store writes: checkpoints that a restart accepts, grants   *)
(* that were in force when they were spent, and a journal that tells the   *)
(* truth about remote writes, which makes the store an implementation of   *)
(* WriteOnce.                                                              *)
(***************************************************************************)
EXTENDS RunStoreProofs, FiniteSetTheorems

(* Approvals were issued before the time t.                                *)
IssuedBefore(x, t) == \A a \in DOMAIN x.approvals : x.approvals[a].issued <= t

(* A plain call runs under an invocation that no effect has, so its end    *)
(* leaves no effect in flight behind.                                      *)
PlainInvocation ==
    call.at = "invoking" =>
        \A e \in DOMAIN memory.effects : memory.effects[e].invocation # call.invocation

CheckpointInv ==
    /\ Restorable(memory) /\ Restorable(disk)
    /\ IssuedBefore(memory, now) /\ IssuedBefore(disk, now)
    /\ PlainInvocation

-----------------------------------------------------------------------------
(* A transition to a state that restores, written or not.                  *)
LEMMA UpdateRestorable ==
    ASSUME CheckpointInv, NEW next, Restorable(next), IssuedBefore(next, now),
           NEW then, Update(next, then), then.at # "invoking", now' = now
    PROVE  CheckpointInv'
<1>1. /\ memory' \in {memory, next} /\ disk' \in {disk, next} /\ call' \in {then, Idle}
  BY DEF Update, Commit, WriteFails
<1>2. call'.at # "invoking"
  BY <1>1 DEF Idle
<1> QED BY <1>1, <1>2 DEF CheckpointInv, PlainInvocation

(* The same when the approvals are as they were.                           *)
LEMMA UpdateUnapproved ==
    ASSUME CheckpointInv, NEW next, Restorable(next), next.approvals = memory.approvals,
           NEW then, Update(next, then), then.at # "invoking", now' = now
    PROVE  CheckpointInv'
<1>1. IssuedBefore(next, now)
  BY DEF CheckpointInv, IssuedBefore
<1> QED BY <1>1, UpdateRestorable

(* A step that writes nothing.                                             *)
LEMMA CheckpointIdles ==
    ASSUME CheckpointInv, UNCHANGED <<memory, disk, now>>,
           call'.at # "invoking" \/ call' = call
    PROVE  CheckpointInv'
  BY DEF CheckpointInv, PlainInvocation

(* What the approvals of the operators on an execution are.                *)
LEMMA ApprovalsKept ==
    ASSUME NEW x, x \in ExecutionType
    PROVE  /\ \A r : Reserve(x, r).approvals = x.approvals
           /\ \A n, p : Assign(x, n, p).approvals = x.approvals
           /\ \A t, p, c : Publish(x, t, p, c).approvals = x.approvals
           /\ \A e : Consume(x, e).approvals = x.approvals
           /\ Restored(x).approvals = x.approvals
           /\ \A i, s : FinishResult(x, i, s).approvals = x.approvals
           /\ \A e, i, s : FinishEffect(x, e, i, s).approvals = x.approvals
           /\ \A e, v : Reconcile(x, e, v).approvals = x.approvals
<1>1. \A i, s : Terminate(x, i, s).approvals = x.approvals
  BY DEF Terminate, Emit, ExecutionType
<1>2. \A i, s : FinishResult(x, i, s).approvals = x.approvals
  BY <1>1 DEF FinishResult
<1>3. \A e, i, s : FinishEffect(x, e, i, s).approvals = x.approvals
  BY <1>2 DEF FinishEffect
<1>4. \A e, v : Reconcile(x, e, v).approvals = x.approvals
  BY <1>2 DEF Reconcile
<1>5. \A n, p : Assign(x, n, p).approvals = x.approvals
  BY DEF Assign, Emit, ExecutionType
<1> QED BY <1>2, <1>3, <1>4, <1>5 DEF Reserve, Publish, Emit, Consume, Restored, ExecutionType

(* Plain invocations.                                                      *)
LEMMA InvokeKeepsCheckpoints ==
    ASSUME StoreInv, CheckpointInv, InvokeStep PROVE CheckpointInv'
<1>0. Restorable(memory) /\ WellFormed(memory) /\ memory \in ExecutionType
  BY DEF CheckpointInv, Restorable, WellFormed
<1>1. ASSUME NEW op \in Operations, InvokeBegin(op) PROVE CheckpointInv'
  <2> DEFINE next == Begin(memory, op, None, None)
  <2>1. None \in Nat /\ CanBegin(memory, op, None, None) /\ now' = now
    BY <1>1 DEF None, InvokeBegin
  <2>2. Restorable(next) /\ next.effects = memory.effects /\ next.approvals = memory.approvals
    BY <1>0, <2>1, BeginRestorable, BeginKeeps
  <2>3. PICK then \in {Idle, [at |-> "invoking", invocation |-> NewInvocation(memory)]} :
            Update(next, then)
    BY <1>1 DEF InvokeBegin
  <2> HIDE DEF next
  <2>4. CASE then = Idle \/ call' = Idle
    <3>1. Idle.at # "invoking"
      BY DEF Idle
    <3>2. CheckpointInv' \/ call' = Idle
      BY <2>1, <2>2, <2>3, <2>4, <3>1, UpdateUnapproved
    <3>3. memory' \in {memory, next} /\ disk' \in {disk, next}
      BY <2>3 DEF Update, Commit, WriteFails
    <3>4. IssuedBefore(next, now)
      BY <2>2 DEF CheckpointInv, IssuedBefore
    <3> QED BY <2>1, <2>2, <3>1, <3>2, <3>3, <3>4 DEF CheckpointInv, PlainInvocation
  <2>5. CASE call' = [at |-> "invoking", invocation |-> NewInvocation(memory)]
    <3>1. memory' = next /\ disk' = next
      BY <2>3, <2>5 DEF Update, Commit, Idle
    <3>2. \A e \in DOMAIN memory.effects : memory.effects[e].invocation # NewInvocation(memory)
      <4>1. NewInvocation(memory) \notin DOMAIN memory.records /\ NewInvocation(memory) # None
        BY <1>0 DEF NewInvocation, ExecutionType, None
      <4> QED BY <1>0, <4>1 DEF Restorable, Valid, ValidEffects
    <3>3. IssuedBefore(next, now)
      BY <2>2 DEF CheckpointInv, IssuedBefore
    <3> QED BY <2>1, <2>2, <2>5, <3>1, <3>2, <3>3 DEF CheckpointInv, PlainInvocation
  <2> QED BY <2>3, <2>4, <2>5 DEF Update
<1>2. ASSUME NEW succeeded \in BOOLEAN, InvokeReturn(succeeded) PROVE CheckpointInv'
  <2> DEFINE next == FinishResult(memory, call.invocation, succeeded)
  <2>1. /\ call.at = "invoking" /\ CanTerminate(memory, call.invocation, memory.generation)
        /\ Update(next, Idle) /\ now' = now
    BY <1>2 DEF InvokeReturn
  <2>2. /\ call.invocation \in DOMAIN memory.records
        /\ memory.records[call.invocation].status = "Pending"
        /\ memory.records[call.invocation].generation = memory.generation
    BY <2>1 DEF CanTerminate
  <2>3. \A e \in DOMAIN memory.effects : memory.effects[e].invocation # call.invocation
    BY <2>1 DEF CheckpointInv, PlainInvocation
  <2>4. Restorable(next) /\ next.approvals = memory.approvals
    BY <1>0, <2>2, <2>3, FinishResultRestorable, ApprovalsKept
  <2> HIDE DEF next
  <2> QED BY <2>1, <2>4, UpdateUnapproved DEF Idle
<1> QED BY <1>1, <1>2 DEF InvokeStep

(* The journal.                                                            *)
LEMMA EffectKeepsCheckpoints ==
    ASSUME StoreInv, CheckpointInv, EffectStep PROVE CheckpointInv'
<1>0. /\ Restorable(memory) /\ WellFormed(memory) /\ memory \in ExecutionType
      /\ Idle.at # "invoking"
  BY DEF CheckpointInv, Restorable, WellFormed, Idle
<1>1. ASSUME NEW r \in Requests, ReserveNew(r) PROVE CheckpointInv'
  <2>1. PICK then \in {Idle, [at |-> "reserved", effect |-> NewEffect(memory)]} :
            Update(Reserve(memory, r), then)
    BY <1>1 DEF ReserveNew
  <2>2. then.at # "invoking" /\ now' = now /\ CanReserve(memory, r)
    BY <1>0, <1>1 DEF ReserveNew
  <2>3. Restorable(Reserve(memory, r)) /\ Reserve(memory, r).approvals = memory.approvals
    BY <1>0, <2>2, ReserveRestorable, ApprovalsKept
  <2> QED BY <2>1, <2>2, <2>3, UpdateUnapproved
<1>2. ASSUME NEW r, NEW e, ReserveAgain(r, e) \/ ReuseResult(r, e) PROVE CheckpointInv'
  <2>1. PICK then \in {Idle, [at |-> "reserved", effect |-> e]} : Update(memory, then)
    BY <1>2 DEF ReserveAgain, ReuseResult
  <2>2. then.at # "invoking" /\ now' = now
    BY <1>0, <1>2 DEF ReserveAgain, ReuseResult
  <2> QED BY <1>0, <2>1, <2>2, UpdateUnapproved
<1>3. ASSUME NEW a \in {None} \cup DOMAIN memory.approvals, Dispatch(a) PROVE CheckpointInv'
  <2> DEFINE e == call.effect
             i == NewInvocation(memory)
             op == memory.effects[e].operation
             begun == Begin(memory, op, None, None)
             next == Start(begun, e, i, a)
  <2>1. CanBegin(memory, op, None, None) /\ CanStart(begun, e, i, a, now) /\ now' = now
    BY <1>3 DEF Dispatch
  <2>2. begun.effects = memory.effects
    BY <1>0 DEF Begin, ExecutionType
  <2>3. e \in DOMAIN memory.effects /\ op \in Operations
    <3> HIDE DEF begun, e
    <3>1. e \in DOMAIN memory.effects
      BY <2>1, <2>2 DEF CanStart
    <3>2. memory.effects[e] \in EffectType
      BY <1>0, <3>1 DEF ExecutionType
    <3> QED BY <3>1, <3>2 DEF EffectType
  <2>4. begun.approvals = memory.approvals /\ WellFormed(begun)
    <3>1. None \in Nat
      BY DEF None
    <3> QED BY <1>0, <2>3, <3>1, BeginKeeps, Zenon
  <2>5. Restorable(next)
    <3> HIDE DEF e, op
    <3> QED BY <1>0, <2>1, <2>3, DispatchRestorable
  <2> HIDE DEF begun
  <2>6. IssuedBefore(next, now)
    <3>1. IssuedBefore(begun, now)
      BY <2>4 DEF CheckpointInv, IssuedBefore
    <3>2. CASE begun.effects[e].approval
      <4>1. a \in DOMAIN begun.approvals
        BY <2>1, <3>2 DEF CanStart, Usable
      <4>2. next.approvals = [begun.approvals EXCEPT ![a] =
                [begun.approvals[a] EXCEPT !.state = "Consumed", !.consumer = i]]
        <5> HIDE DEF e, i
        <5>1. begun.approvals[a] \in ApprovalType /\ begun \in ExecutionType
          BY <2>4, <4>1 DEF WellFormed, ExecutionType
        <5> QED BY <3>2, <4>1, <5>1 DEF Start, ConsumeApproval, ExecutionType, ApprovalType
      <4>3. begun.approvals[a] \in ApprovalType
        BY <2>4, <4>1 DEF WellFormed, ExecutionType
      <4> HIDE DEF next, i
      <4>4. [begun.approvals[a] EXCEPT !.state = "Consumed", !.consumer = i].issued =
                begun.approvals[a].issued
        BY <4>3 DEF ApprovalType
      <4> QED BY <3>1, <4>1, <4>2, <4>4 DEF IssuedBefore
    <3>3. CASE ~begun.effects[e].approval
      <4>1. next.approvals = begun.approvals
        BY <2>4, <3>3 DEF Start, WellFormed, ExecutionType
      <4> QED BY <3>1, <4>1 DEF IssuedBefore
    <3> QED BY <3>2, <3>3
  <2> HIDE DEF next
  <2>7. \/ Update(next, [at |-> "calling", effect |-> e, invocation |-> i])
        \/ Update(next, Idle)
    BY <1>3 DEF Dispatch, Update, next, begun, op, e, i
  <2> QED BY <1>0, <2>1, <2>5, <2>6, <2>7, UpdateRestorable
<1>4. CASE DispatchRefused \/ Abandon
  BY <1>0, <1>4, CheckpointIdles DEF DispatchRefused, Abandon, store
<1>5. ASSUME NEW succeeded \in BOOLEAN, CallReturn(succeeded) PROVE CheckpointInv'
  <2> DEFINE next == FinishEffect(memory, call.effect, call.invocation, succeeded)
  <2>1. /\ CanFinishEffect(memory, call.effect, call.invocation)
        /\ Update(next, Idle) /\ now' = now
    BY <1>5 DEF CallReturn
  <2>2. Restorable(next) /\ next.approvals = memory.approvals
    BY <1>0, <2>1, FinishEffectRestorable, ApprovalsKept
  <2> HIDE DEF next
  <2> QED BY <1>0, <2>1, <2>2, UpdateUnapproved
<1>6. ASSUME NEW e \in DOMAIN memory.effects, ReconcileEffect(e) PROVE CheckpointInv'
  <2>1. PICK evidence \in Evidence(e) : Update(Reconcile(memory, e, evidence), Idle)
    BY <1>6 DEF ReconcileEffect
  <2>2. /\ evidence \in {"Confirmed", "NotFound", "StillUncertain"}
        /\ CanReconcile(memory, e) /\ now' = now
    BY <1>6 DEF Evidence, ReconcileEffect
  <2>3. /\ Restorable(Reconcile(memory, e, evidence))
        /\ Reconcile(memory, e, evidence).approvals = memory.approvals
    BY <1>0, <2>2, ReconcileRestorable, ApprovalsKept
  <2> QED BY <1>0, <2>1, <2>2, <2>3, UpdateUnapproved
<1> QED BY <1>1, <1>2, <1>3, <1>4, <1>5, <1>6 DEF EffectStep

(* Approvals.                                                              *)
LEMMA ApprovalKeepsCheckpoints ==
    ASSUME StoreInv, CheckpointInv, ApprovalStep PROVE CheckpointInv'
<1>0. /\ Restorable(memory) /\ WellFormed(memory) /\ memory \in ExecutionType
      /\ Idle.at # "invoking" /\ now \in Nat
  BY DEF CheckpointInv, Restorable, WellFormed, Idle, StoreInv, StoreTypes
<1>1. ASSUME NEW e \in DOMAIN memory.effects, NEW parameters \in Contents,
             RequestAnswer(e, parameters)
      PROVE  CheckpointInv'
  <2> DEFINE next == RequestApproval(memory, e, now, Ttl)
             p == [effect |-> e, hash |-> ActionHash(memory, e), state |-> "Pending",
                   issued |-> now, expires |-> now + Ttl, consumer |-> None]
  <2>1. /\ memory.effects[e].approval /\ now' = now
        /\ Update(next, [at |-> "asking", approval |-> NewApproval(memory)])
    BY <1>1 DEF RequestAnswer, CanRequestApproval
  <2>2. Restorable(next)
    BY <1>0, <2>1, TtlAssumption, RequestApprovalRestorable
  <2>3. IssuedBefore(next, now)
    <3>1. /\ next.approvals = Append(memory.approvals, p) /\ p.issued = now
          /\ memory.approvals \in Seq(ApprovalType) /\ next.approvals \in Seq(ApprovalType)
      BY <1>0, <2>2 DEF RequestApproval, Restorable, WellFormed, ExecutionType
    <3> HIDE DEF next, p
    <3>2. \A a \in DOMAIN next.approvals :
             \/ a \in DOMAIN memory.approvals /\ next.approvals[a] = memory.approvals[a]
             \/ next.approvals[a] = p
      BY <3>1
    <3> QED BY <1>0, <3>1, <3>2 DEF CheckpointInv, IssuedBefore
  <2> HIDE DEF next
  <2> QED BY <2>1, <2>2, <2>3, UpdateRestorable
<1>2. ASSUME NEW echo, NEW granted \in BOOLEAN, Answer(echo, granted) PROVE CheckpointInv'
  <2> DEFINE a == call.approval
             next == Decide(memory, a, granted)
  <2>1. /\ a \in DOMAIN memory.approvals /\ memory.approvals[a].state = "Pending"
        /\ Update(next, Idle) /\ now' = now
    BY <1>2 DEF Answer, CanDecide
  <2> HIDE DEF a
  <2>2. Restorable(next)
    BY <1>0, <2>1, DecideRestorable
  <2>3. IssuedBefore(next, now)
    <3>1. memory.approvals[a] \in ApprovalType
      BY <1>0, <2>1 DEF ExecutionType
    <3>2. /\ DOMAIN next.approvals = DOMAIN memory.approvals
          /\ \A b \in DOMAIN memory.approvals :
                next.approvals[b].issued = memory.approvals[b].issued
      BY <1>0, <2>1, <3>1 DEF Decide, ExecutionType, ApprovalType
    <3> HIDE DEF next
    <3> QED BY <3>2 DEF CheckpointInv, IssuedBefore
  <2> HIDE DEF next
  <2> QED BY <1>0, <2>1, <2>2, <2>3, UpdateRestorable
<1>3. ASSUME NEW echo, AnswerRefused(echo) PROVE CheckpointInv'
  BY <1>0, <1>3, CheckpointIdles DEF AnswerRefused, store
<1> QED BY <1>1, <1>2, <1>3 DEF ApprovalStep

(* Values and events.                                                      *)
LEMMA DataflowKeepsCheckpoints ==
    ASSUME StoreInv, CheckpointInv, DataflowStep PROVE CheckpointInv'
<1>0. /\ Restorable(memory) /\ WellFormed(memory) /\ memory \in ExecutionType
      /\ Idle.at # "invoking"
  BY DEF CheckpointInv, Restorable, WellFormed, Idle
<1>1. ASSUME NEW n \in Names, NEW p \in Payloads, AssignValue(n, p) PROVE CheckpointInv'
  <2>1. Update(Assign(memory, n, p), Idle) /\ now' = now
    BY <1>1 DEF AssignValue
  <2>2. Restorable(Assign(memory, n, p)) /\ Assign(memory, n, p).approvals = memory.approvals
    BY <1>0, AssignRestorable, ApprovalsKept
  <2> QED BY <1>0, <2>1, <2>2, UpdateUnapproved
<1>2. ASSUME NEW t \in Topics, NEW p \in Payloads,
             NEW cause \in {None} \cup DOMAIN memory.events, PublishEvent(t, p, cause)
      PROVE  CheckpointInv'
  <2>1. cause \in Nat
    BY <1>0 DEF None, ExecutionType
  <2>2. /\ Update(Publish(memory, t, p, cause), Idle) /\ now' = now
        /\ CanPublish(memory, cause)
    BY <1>2 DEF PublishEvent
  <2>3. /\ Restorable(Publish(memory, t, p, cause))
        /\ Publish(memory, t, p, cause).approvals = memory.approvals
    BY <1>0, <2>1, <2>2, PublishRestorable, ApprovalsKept
  <2> QED BY <1>0, <2>2, <2>3, UpdateUnapproved
<1>3. ASSUME NEW event \in DOMAIN memory.events, ConsumeEvent(event) PROVE CheckpointInv'
  <2>1. Update(Consume(memory, event), Idle) /\ now' = now
    BY <1>3 DEF ConsumeEvent, Update
  <2>2. Restorable(Consume(memory, event)) /\ Consume(memory, event).approvals = memory.approvals
    BY <1>0, ConsumeRestorable, ApprovalsKept
  <2> QED BY <1>0, <2>1, <2>2, UpdateUnapproved
<1> QED BY <1>1, <1>2, <1>3 DEF DataflowStep

(* Providers, crashes, reopening and time.                                 *)
LEMMA SurroundingsKeepCheckpoints ==
    ASSUME StoreInv, CheckpointInv, ProviderStep \/ Crash \/ Open \/ Tick
    PROVE  CheckpointInv'
<1>1. CASE ProviderStep
  BY <1>1, CheckpointIdles DEF ProviderStep, Land, Lose, store
<1>2. CASE Crash
  BY <1>2, CheckpointIdles DEF Crash, store, Down
<1>3. CASE Open
  <2>1. Restorable(Restored(disk)) /\ IssuedBefore(Restored(disk), now)
    <3>1. disk \in ExecutionType
      BY DEF StoreInv, StoreTypes, WellFormed
    <3>2. Restored(disk).approvals = disk.approvals
      BY <3>1, ApprovalsKept
    <3> QED BY <3>2, RestoredRestorable DEF CheckpointInv, IssuedBefore
  <2>2. /\ memory' \in {memory, Restored(disk)} /\ disk' = Restored(disk)
        /\ call = Down /\ call' \in {Idle, Down} /\ now' = now
    BY <1>3 DEF Open
  <2>3. call'.at # "invoking"
    BY <2>2 DEF Idle, Down
  <2> QED BY <2>1, <2>2, <2>3 DEF CheckpointInv, PlainInvocation
<1>4. CASE Tick
  <2>1. /\ UNCHANGED <<memory, disk, call>> /\ now' = now + 1
        /\ now \in Nat /\ WellFormed(memory) /\ WellFormed(disk)
    BY <1>4 DEF Tick, store, StoreInv, StoreTypes
  <2>2. /\ \A a \in DOMAIN memory.approvals : memory.approvals[a].issued \in Nat
        /\ \A a \in DOMAIN disk.approvals : disk.approvals[a].issued \in Nat
    <3>1. /\ \A a \in DOMAIN memory.approvals : memory.approvals[a] \in ApprovalType
          /\ \A a \in DOMAIN disk.approvals : disk.approvals[a] \in ApprovalType
      BY <2>1 DEF WellFormed, ExecutionType
    <3> QED BY <3>1 DEF ApprovalType
  <2> QED BY <2>1, <2>2 DEF CheckpointInv, PlainInvocation, IssuedBefore
<1> QED BY <1>1, <1>2, <1>3, <1>4

(* Both copies restore in every reachable state.                           *)
THEOREM CheckpointInvariant == Spec => []CheckpointInv
<1>1. Init => CheckpointInv
  <2> SUFFICES ASSUME Init PROVE CheckpointInv
    OBVIOUS
  <2>1. memory = NewExecution /\ disk = NewExecution /\ call = Idle
    BY DEF Init
  <2>2. NewExecution.approvals = <<>>
    BY DEF NewExecution
  <2> QED BY <2>1, <2>2, NewExecutionRestorable
          DEF CheckpointInv, PlainInvocation, IssuedBefore, Idle
<1>2. StoreInv /\ CheckpointInv /\ [Next]_vars => CheckpointInv'
  <2> SUFFICES ASSUME StoreInv, CheckpointInv, [Next]_vars PROVE CheckpointInv'
    OBVIOUS
  <2>1. CASE UNCHANGED vars
    BY <2>1, CheckpointIdles DEF vars, store
  <2> QED BY <2>1, InvokeKeepsCheckpoints, EffectKeepsCheckpoints, ApprovalKeepsCheckpoints,
             DataflowKeepsCheckpoints, SurroundingsKeepCheckpoints DEF Next
<1> QED BY <1>1, <1>2, StoreInvariant, PTL DEF Spec

(* Whenever the process dies, the file it leaves is one that restore()     *)
(* accepts, whatever was written, half written or being written.           *)
THEOREM CheckpointsAlwaysRestore == Spec => []CheckpointsRestore
<1>1. CheckpointInv => CheckpointsRestore
  BY DEF CheckpointInv, Restorable, CheckpointsRestore
<1> QED BY <1>1, CheckpointInvariant, PTL

-----------------------------------------------------------------------------
(* How a step moves the journal: the file's account of the effects, and    *)
(* the requests at the provider.                                           *)
SameWrite(f, g) ==
    /\ f.operation = g.operation /\ f.action = g.action
    /\ f.resource = g.resource /\ f.payload = g.payload /\ f.class = g.class

(* Effect e comes to state s, and the others are as they were.             *)
Moves(x, y, e, s) ==
    /\ e \in DOMAIN x.effects /\ DOMAIN y.effects = DOMAIN x.effects
    /\ SameWrite(x.effects[e], y.effects[e]) /\ y.effects[e].state = s
    /\ \A d \in DOMAIN x.effects : d # e => y.effects[d] = x.effects[d]

Stays == disk'.effects = disk.effects /\ UNCHANGED provider

Adds == /\ \E f : f.state = "NotStarted" /\ disk'.effects = Append(disk.effects, f)
        /\ UNCHANGED provider

Starts(e, i) ==
    /\ Moves(disk, disk', e, "Started")
    /\ Dispatchable(disk.effects[e])
    /\ i \notin DOMAIN disk.records
    /\ \/ UNCHANGED wire
       \/ i \in DOMAIN disk'.records /\ wire' = wire \cup {Request(i, e)}
    /\ UNCHANGED landed

Ends(e, s) ==
    /\ Moves(disk, disk', e, s)
    /\ disk.effects[e].state \in Unresolved
    /\ \/ s = "Uncertain"
       \/ s = "Confirmed" /\ \E q \in landed : q.effect = e
       \/ s = "Failed" /\ (Remote(disk.effects[e]) => Sent(e) = {})
    /\ UNCHANGED provider

Restores == disk' = Restored(disk) /\ UNCHANGED provider

Travels(q) ==
    /\ q \in wire /\ wire' = wire \ {q} /\ landed' \in {landed, landed \cup {q}}
    /\ disk' = disk

Carries(x, y) == y.generation = x.generation /\ DOMAIN x.records \subseteq DOMAIN y.records

JournalMove ==
    /\ Carries(disk, disk')
    /\ \/ Stays \/ Adds \/ Restores
       \/ \E e, i : Starts(e, i)
       \/ \E e, s : Ends(e, s)
       \/ \E q : Travels(q)

-----------------------------------------------------------------------------
(* A usable store writes what it shows, or leaves the file alone.          *)
LEMMA WritesWhatItShows ==
    ASSUME StoreInv, call # Down, NEW next, NEW then, Update(next, then)
    PROVE  memory = disk /\ disk' \in {disk, next}
  BY DEF StoreInv, MemoryIsDisk, Update, Commit, WriteFails

(* A transition that leaves the effects alone.                             *)
LEMMA UpdateStays ==
    ASSUME StoreInv, call # Down, NEW next, NEW then, Update(next, then), UNCHANGED provider,
           Carries(memory, next), next.effects = memory.effects
    PROVE  JournalMove
  BY WritesWhatItShows DEF JournalMove, Stays, Carries

LEMMA CarriesItself == ASSUME NEW x PROVE Carries(x, x)
  BY DEF Carries

(* Every operator keeps the generation and the records in place.           *)
LEMMA OperatorsCarry ==
    ASSUME NEW x, WellFormed(x)
    PROVE  /\ \A op, p, c : Carries(x, Begin(x, op, p, c))
           /\ \A i, s : Carries(x, FinishResult(x, i, s))
           /\ \A r : Carries(x, Reserve(x, r))
           /\ \A e, i, a : Carries(x, Start(x, e, i, a))
           /\ \A e, i, s : Carries(x, FinishEffect(x, e, i, s))
           /\ \A e, v : Carries(x, Reconcile(x, e, v))
           /\ \A n, p : Carries(x, Assign(x, n, p))
           /\ \A t, p, c : Carries(x, Publish(x, t, p, c))
           /\ \A e : Carries(x, Consume(x, e))
           /\ \A e, t, l : Carries(x, RequestApproval(x, e, t, l))
           /\ \A a, g : Carries(x, Decide(x, a, g))
           /\ Carries(x, Restored(x))
<1>0. x \in ExecutionType
  BY DEF WellFormed
<1>1. \A op, p, c : Carries(x, Begin(x, op, p, c))
  BY <1>0 DEF Begin, Carries, ExecutionType
<1>2. \A i, s : Carries(x, FinishResult(x, i, s))
  BY <1>0 DEF FinishResult, Terminate, Emit, Carries, ExecutionType
<1>3. \A e, i, s : Carries(x, FinishEffect(x, e, i, s))
  BY <1>0, <1>2 DEF FinishEffect, Carries
<1>4. \A e, v : Carries(x, Reconcile(x, e, v))
  BY <1>0, <1>2 DEF Reconcile, Carries
<1>5. \A e, i, a : Carries(x, Start(x, e, i, a))
  BY <1>0 DEF Start, ConsumeApproval, Carries, ExecutionType
<1>6. \A n, p : Carries(x, Assign(x, n, p))
  BY <1>0 DEF Assign, Emit, Carries, ExecutionType
<1> QED BY <1>0, <1>1, <1>2, <1>3, <1>4, <1>5, <1>6
        DEF Reserve, Publish, Emit, Consume, RequestApproval, Decide, Restored, Carries,
            ExecutionType

(* These leave the effects alone.                                          *)
LEMMA EffectsKept ==
    ASSUME NEW x, WellFormed(x)
    PROVE  /\ \A op, p, c : Begin(x, op, p, c).effects = x.effects
           /\ \A i, s : FinishResult(x, i, s).effects = x.effects
           /\ \A n, p : Assign(x, n, p).effects = x.effects
           /\ \A t, p, c : Publish(x, t, p, c).effects = x.effects
           /\ \A e : Consume(x, e).effects = x.effects
           /\ \A e, t, l : RequestApproval(x, e, t, l).effects = x.effects
           /\ \A a, g : Decide(x, a, g).effects = x.effects
<1>0. x \in ExecutionType
  BY DEF WellFormed
<1>1. \A i, s : FinishResult(x, i, s).effects = x.effects
  BY <1>0 DEF FinishResult, Terminate, Emit, ExecutionType
<1>2. \A n, p : Assign(x, n, p).effects = x.effects
  BY <1>0 DEF Assign, Emit, ExecutionType
<1> QED BY <1>0, <1>1, <1>2
        DEF Begin, Publish, Emit, Consume, RequestApproval, Decide, ExecutionType

(* Plain invocations, approvals, values and events leave the effects and   *)
(* the provider alone.                                                     *)
LEMMA StayingSteps ==
    ASSUME StoreInv, InvokeStep \/ ApprovalStep \/ DataflowStep
    PROVE  JournalMove
<1>0. /\ WellFormed(memory) /\ Idle # Down /\ Down.at = "down"
  BY DEF StoreInv, StoreTypes, Idle, Down
<1>1. ASSUME NEW op \in Operations, InvokeBegin(op) PROVE JournalMove
  <2>1. PICK then : Update(Begin(memory, op, None, None), then)
    BY <1>1 DEF InvokeBegin
  <2> QED BY <1>0, <1>1, <2>1, OperatorsCarry, EffectsKept, UpdateStays DEF InvokeBegin
<1>2. ASSUME NEW succeeded \in BOOLEAN, InvokeReturn(succeeded) PROVE JournalMove
  BY <1>0, <1>2, OperatorsCarry, EffectsKept, UpdateStays DEF InvokeReturn
<1>3. ASSUME NEW e, NEW parameters, RequestAnswer(e, parameters) PROVE JournalMove
  BY <1>0, <1>3, OperatorsCarry, EffectsKept, UpdateStays DEF RequestAnswer
<1>4. ASSUME NEW echo, NEW granted \in BOOLEAN, Answer(echo, granted) PROVE JournalMove
  BY <1>0, <1>4, OperatorsCarry, EffectsKept, UpdateStays DEF Answer
<1>5. ASSUME NEW echo, AnswerRefused(echo) PROVE JournalMove
  BY <1>5, CarriesItself DEF AnswerRefused, JournalMove, Stays, store, provider
<1>6. ASSUME NEW n, NEW p, AssignValue(n, p) PROVE JournalMove
  BY <1>0, <1>6, OperatorsCarry, EffectsKept, UpdateStays DEF AssignValue
<1>7. ASSUME NEW t, NEW p, NEW cause, PublishEvent(t, p, cause) PROVE JournalMove
  BY <1>0, <1>7, OperatorsCarry, EffectsKept, UpdateStays DEF PublishEvent
<1>8. ASSUME NEW event, ConsumeEvent(event) PROVE JournalMove
  <2>1. call # Down /\ Update(Consume(memory, event), Idle) /\ UNCHANGED provider
    BY <1>0, <1>8 DEF ConsumeEvent, Update
  <2> QED BY <1>0, <2>1, OperatorsCarry, EffectsKept, UpdateStays
<1> QED BY <1>1, <1>2, <1>3, <1>4, <1>5, <1>6, <1>7, <1>8 DEF InvokeStep, ApprovalStep, DataflowStep

(* What a change of one effect's state amounts to.                         *)
LEMMA StateMoves ==
    ASSUME NEW x, WellFormed(x), NEW e \in DOMAIN x.effects, NEW s, NEW y,
           y.effects = [x.effects EXCEPT ![e] = [x.effects[e] EXCEPT !.state = s]]
    PROVE  Moves(x, y, e, s)
<1>1. x.effects \in Seq(EffectType) /\ x.effects[e] \in EffectType
  BY DEF WellFormed, ExecutionType
<1> QED BY <1>1 DEF Moves, SameWrite, EffectType

LEMMA FinishEffectMoves ==
    ASSUME NEW x, WellFormed(x), NEW e, NEW i, NEW succeeded \in BOOLEAN,
           CanFinishEffect(x, e, i)
    PROVE  Moves(x, FinishEffect(x, e, i, succeeded), e, FinishedState(x.effects[e], succeeded))
<1> DEFINE z == FinishResult(x, i, succeeded)
           s == FinishedState(x.effects[e], succeeded)
<1>1. e \in DOMAIN x.effects /\ i \in DOMAIN x.records
  BY DEF CanFinishEffect, CanTerminate
<1>2. z.effects = x.effects /\ z \in ExecutionType
  BY <1>1, FinishResultKeeps DEF WellFormed
<1>3. FinishEffect(x, e, i, succeeded) = [z EXCEPT !.effects[e].state = s]
  BY DEF FinishEffect
<1> HIDE DEF z, s
<1>4. [z EXCEPT !.effects[e].state = s].effects
        = [x.effects EXCEPT ![e] = [x.effects[e] EXCEPT !.state = s]]
  BY <1>2 DEF ExecutionType
<1> QED BY <1>1, <1>3, <1>4, StateMoves DEF s

LEMMA ReconcileMoves ==
    ASSUME NEW x, WellFormed(x), NEW e, NEW evidence, CanReconcile(x, e)
    PROVE  Moves(x, Reconcile(x, e, evidence), e, ReconciledState(evidence))
<1> DEFINE i == x.effects[e].invocation
           pending == i \in DOMAIN x.records /\ x.records[i].status = "Pending"
           z == IF pending THEN FinishResult(x, i, evidence = "Confirmed") ELSE x
           s == ReconciledState(evidence)
<1>1. e \in DOMAIN x.effects
  BY DEF CanReconcile
<1>2. z.effects = x.effects /\ z \in ExecutionType
  <2>1. (evidence = "Confirmed") \in BOOLEAN
    OBVIOUS
  <2>2. CASE pending
    <3> HIDE DEF i
    <3>1. /\ WellFormed(FinishResult(x, i, evidence = "Confirmed"))
          /\ FinishResult(x, i, evidence = "Confirmed").effects = x.effects
      BY <2>1, <2>2, FinishResultKeeps
    <3> QED BY <2>2, <3>1 DEF WellFormed
  <2>3. CASE ~pending
    BY <2>3 DEF WellFormed
  <2> QED BY <2>2, <2>3
<1>3. Reconcile(x, e, evidence) = [z EXCEPT !.effects[e].state = s]
  BY DEF Reconcile
<1> HIDE DEF z, s
<1>4. [z EXCEPT !.effects[e].state = s].effects
        = [x.effects EXCEPT ![e] = [x.effects[e] EXCEPT !.state = s]]
  BY <1>2 DEF ExecutionType
<1> QED BY <1>1, <1>3, <1>4, StateMoves DEF s

LEMMA StartMoves ==
    ASSUME NEW x, WellFormed(x), NEW e \in DOMAIN x.effects, NEW i \in Nat, NEW a,
           x.effects[e].approval => a \in DOMAIN x.approvals
    PROVE  Moves(x, Start(x, e, i, a), e, "Started")
<1> DEFINE z == IF x.effects[e].approval THEN ConsumeApproval(x, a, i) ELSE x
           f == [x.effects[e] EXCEPT !.state = "Started", !.invocation = i]
<1>1. WellFormed(z) /\ z.effects = x.effects
  BY ConsumeApprovalKeeps
<1>2. z \in ExecutionType /\ e \in DOMAIN z.effects /\ z.effects[e] \in EffectType
  BY <1>1 DEF WellFormed, ExecutionType
<1>3. Start(x, e, i, a).effects = [x.effects EXCEPT ![e] = f]
  BY <1>1, <1>2 DEF Start, ExecutionType, EffectType
<1>4. x.effects \in Seq(EffectType) /\ x.effects[e] \in EffectType
  BY <1>1, <1>2 DEF WellFormed, ExecutionType
<1> QED BY <1>3, <1>4 DEF Moves, SameWrite, EffectType

(* The steps of the journal itself.                                        *)
LEMMA JournalSteps == ASSUME StoreInv, CheckpointInv, EffectStep PROVE JournalMove
<1>0. /\ WellFormed(memory) /\ Idle # Down /\ Down.at = "down"
      /\ Carries(disk, disk) /\ Carries(memory, memory)
  BY CarriesItself DEF StoreInv, StoreTypes, Idle, Down
<1>1. ASSUME NEW r \in Requests, ReserveNew(r) PROVE JournalMove
  <2>1. PICK then : Update(Reserve(memory, r), then)
    BY <1>1 DEF ReserveNew
  <2>2. /\ memory = disk /\ disk' \in {disk, Reserve(memory, r)} /\ UNCHANGED provider
        /\ Carries(memory, Reserve(memory, r))
    BY <1>0, <1>1, <2>1, WritesWhatItShows, OperatorsCarry DEF ReserveNew
  <2>3. \E f : f.state = "NotStarted" /\ Reserve(memory, r).effects = Append(memory.effects, f)
    BY <1>0 DEF Reserve, WellFormed, ExecutionType
  <2> QED BY <1>0, <2>2, <2>3 DEF JournalMove, Adds, Stays
<1>2. ASSUME NEW r, NEW e, ReserveAgain(r, e) \/ ReuseResult(r, e) PROVE JournalMove
  <2>1. PICK then : Update(memory, then)
    BY <1>2 DEF ReserveAgain, ReuseResult
  <2> QED BY <1>0, <1>2, <2>1, UpdateStays DEF ReserveAgain, ReuseResult
<1>3. ASSUME NEW a \in {None} \cup DOMAIN memory.approvals, Dispatch(a) PROVE JournalMove
  <2> DEFINE e == call.effect
             i == NewInvocation(memory)
             op == memory.effects[e].operation
             begun == Begin(memory, op, None, None)
             next == Start(begun, e, i, a)
  <2>1. CanStart(begun, e, i, a, now) /\ call # Down /\ UNCHANGED landed
    BY <1>0, <1>3 DEF Dispatch
  <2>2. begun.effects = memory.effects /\ Carries(memory, begun)
    BY <1>0, EffectsKept, OperatorsCarry
  <2>3. i \notin DOMAIN memory.records /\ i \in DOMAIN begun.records
    BY <1>0, <2>1 DEF NewInvocation, WellFormed, ExecutionType, CanStart
  <2>4. e \in DOMAIN memory.effects /\ Dispatchable(memory.effects[e]) /\ op \in Operations
    <3> HIDE DEF begun, e
    <3>1. e \in DOMAIN memory.effects /\ Dispatchable(memory.effects[e])
      BY <2>1, <2>2 DEF CanStart
    <3>2. memory.effects[e] \in EffectType
      BY <1>0, <3>1 DEF WellFormed, ExecutionType
    <3> QED BY <3>1, <3>2 DEF EffectType
  <2>5. WellFormed(begun)
    <3>1. None \in Nat
      BY DEF None
    <3> QED BY <1>0, <2>4, <3>1, BeginKeeps, Zenon
  <2> HIDE DEF begun
  <2>6. Moves(begun, next, e, "Started") /\ Carries(begun, next)
    <3>1. i \in Nat
      BY <1>0 DEF NewInvocation, WellFormed, ExecutionType
    <3>2. begun.effects[e].approval => a \in DOMAIN begun.approvals
      BY <2>1 DEF CanStart, Usable
    <3> QED BY <2>2, <2>4, <2>5, <3>1, <3>2, StartMoves, OperatorsCarry
  <2> HIDE DEF next
  <2>7. /\ Moves(memory, next, e, "Started") /\ Carries(memory, next)
        /\ i \in DOMAIN next.records
    BY <2>2, <2>3, <2>6 DEF Moves, Carries
  <2>8. \/ disk' = next /\ memory = disk /\ wire' = wire \cup {Request(i, e)}
        \/ disk' \in {disk, next} /\ memory = disk /\ UNCHANGED wire
    <3>1. \/ Commit(next) /\ wire' = wire \cup {Request(i, e)}
          \/ Update(next, Idle) /\ UNCHANGED wire
      BY <1>3 DEF Dispatch, next, begun, op, e, i
    <3>2. CASE Commit(next) /\ wire' = wire \cup {Request(i, e)}
      <4>1. ~poisoned /\ disk' = next
        BY <3>2 DEF Commit
      <4> QED BY <2>1, <3>2, <4>1 DEF StoreInv, MemoryIsDisk
    <3>3. CASE Update(next, Idle) /\ UNCHANGED wire
      BY <2>1, <3>3, WritesWhatItShows
    <3> QED BY <3>1, <3>2, <3>3
  <2> HIDE DEF e, i
  <2>9. \/ disk' = disk /\ UNCHANGED wire
        \/ Starts(e, i)
    BY <2>1, <2>3, <2>4, <2>7, <2>8 DEF Starts
  <2>10. Carries(disk, disk')
    BY <1>0, <2>7, <2>8
  <2> QED BY <2>1, <2>9, <2>10 DEF JournalMove, Stays, provider
<1>4. CASE DispatchRefused \/ Abandon
  BY <1>0, <1>4 DEF DispatchRefused, Abandon, JournalMove, Stays, store, provider
<1>5. ASSUME NEW succeeded \in BOOLEAN, CallReturn(succeeded) PROVE JournalMove
  <2> DEFINE e == call.effect
             next == FinishEffect(memory, e, call.invocation, succeeded)
             s == FinishedState(memory.effects[e], succeeded)
  <2>1. /\ CanFinishEffect(memory, e, call.invocation) /\ call # Down /\ UNCHANGED provider
        /\ succeeded => Request(call.invocation, e) \in landed
        /\ Update(next, Idle)
    BY <1>0, <1>5 DEF CallReturn
  <2>2. Moves(memory, next, e, s) /\ Carries(memory, next)
    BY <1>0, <2>1, FinishEffectMoves, OperatorsCarry
  <2>3. memory = disk /\ disk' \in {disk, next}
    BY <2>1, WritesWhatItShows
  <2>4. memory.effects[e].state \in Unresolved
    BY <2>1 DEF CanFinishEffect, Unresolved
  <2>5. \/ s = "Uncertain"
        \/ s = "Confirmed" /\ \E q \in landed : q.effect = e
        \/ s = "Failed" /\ ~Remote(memory.effects[e])
    BY <2>1 DEF FinishedState, Remote, Request
  <2> HIDE DEF next, e, s
  <2>6. disk' = disk \/ Ends(e, s)
    BY <2>1, <2>2, <2>3, <2>4, <2>5 DEF Ends
  <2>7. Carries(disk, disk')
    BY <1>0, <2>2, <2>3
  <2> QED BY <2>1, <2>6, <2>7 DEF JournalMove, Stays
<1>6. ASSUME NEW e \in DOMAIN memory.effects, ReconcileEffect(e) PROVE JournalMove
  <2>1. PICK evidence \in Evidence(e) : Update(Reconcile(memory, e, evidence), Idle)
    BY <1>6 DEF ReconcileEffect
  <2> DEFINE next == Reconcile(memory, e, evidence)
             s == ReconciledState(evidence)
  <2>2. CanReconcile(memory, e) /\ call # Down /\ UNCHANGED provider
    BY <1>0, <1>6 DEF ReconcileEffect
  <2>3. Moves(memory, next, e, s) /\ Carries(memory, next)
    BY <1>0, <2>2, ReconcileMoves, OperatorsCarry
  <2>4. memory = disk /\ disk' \in {disk, next}
    BY <2>1, <2>2, WritesWhatItShows
  <2>5. \/ s = "Uncertain"
        \/ s = "Confirmed" /\ \E q \in landed : q.effect = e
        \/ s = "Failed" /\ Sent(e) = {}
    BY DEF Evidence, ReconciledState, Sent
  <2> HIDE DEF next, s
  <2>6. disk' = disk \/ Ends(e, s)
    BY <2>2, <2>3, <2>4, <2>5 DEF Ends, CanReconcile
  <2>7. Carries(disk, disk')
    BY <1>0, <2>3, <2>4
  <2> QED BY <2>2, <2>6, <2>7 DEF JournalMove, Stays
<1> QED BY <1>1, <1>2, <1>3, <1>4, <1>5, <1>6 DEF EffectStep

LEMMA StepsMoveTheJournal ==
    ASSUME StoreInv, CheckpointInv, [Next]_vars PROVE JournalMove
<1>0. Carries(disk, disk) /\ WellFormed(disk)
  BY CarriesItself DEF StoreInv, StoreTypes
<1>1. CASE ProviderStep
  <2>1. PICK q \in wire : Land(q) \/ Lose(q)
    BY <1>1 DEF ProviderStep
  <2> QED BY <1>0, <2>1 DEF Land, Lose, store, JournalMove, Travels
<1>2. CASE Crash \/ Tick \/ UNCHANGED vars
  BY <1>0, <1>2 DEF Crash, Tick, vars, store, provider, JournalMove, Stays
<1>3. CASE Open
  <2>1. disk' = Restored(disk) /\ UNCHANGED provider
    BY <1>3 DEF Open
  <2> QED BY <1>0, <2>1, OperatorsCarry DEF JournalMove, Restores
<1> QED BY <1>1, <1>2, <1>3, StayingSteps, JournalSteps DEF Next

-----------------------------------------------------------------------------
(* The journal tells the truth because a request is journaled before it is *)
(* sent and a remote write is sent again only after proof that it is gone: *)
(* so it has one request at most, which is still under way or has landed.  *)
OneRequestEach ==
    /\ wire \cap landed = {}
    /\ \A p, q \in wire \cup landed :
          p.effect = q.effect /\ Remote(disk.effects[p.effect]) => p = q

JournalInv ==
    /\ JournalIsTrue
    /\ OneRequestEach
    /\ disk.generation = 0

LEMMA JournalStaysTrue ==
    ASSUME StoreInv, JournalInv, JournalMove PROVE JournalInv'
<1> USE DEF JournalInv
<1>0. /\ disk'.generation = 0 /\ DOMAIN disk.records \subseteq DOMAIN disk'.records
      /\ disk.effects \in Seq(EffectType)
      /\ \A q \in wire \cup landed : q \in RequestType
  BY DEF JournalMove, Carries, StoreInv, StoreTypes, WellFormed, ExecutionType
<1>1. CASE Stays
  <2>1. JournalIsTrue'
    BY <1>0, <1>1 DEF Stays, provider, JournalIsTrue, Sent
  <2>2. OneRequestEach'
    BY <1>1 DEF Stays, provider, OneRequestEach
  <2> QED BY <1>0, <2>1, <2>2
<1>2. CASE Adds
  <2>1. PICK f : f.state = "NotStarted" /\ disk'.effects = Append(disk.effects, f)
    BY <1>2 DEF Adds
  <2>2. /\ DOMAIN disk.effects \subseteq DOMAIN disk'.effects
        /\ \A e \in DOMAIN disk.effects : disk'.effects[e] = disk.effects[e]
        /\ \A e \in DOMAIN disk'.effects \ DOMAIN disk.effects :
              disk'.effects[e].state = "NotStarted"
    BY <1>0, <2>1
  <2>3. UNCHANGED <<wire, landed>>
    BY <1>2 DEF Adds, provider
  <2>4. JournalIsTrue'
    BY <1>0, <2>2, <2>3 DEF JournalIsTrue, Sent
  <2>5. OneRequestEach'
    BY <2>2, <2>3 DEF OneRequestEach, JournalIsTrue
  <2> QED BY <1>0, <2>4, <2>5
<1>3. CASE Restores
  <2>1. UNCHANGED <<wire, landed>>
    BY <1>3 DEF Restores, provider
  <2>2. /\ DOMAIN disk'.effects = DOMAIN disk.effects
        /\ \A e \in DOMAIN disk.effects :
              /\ disk'.effects[e].class = disk.effects[e].class
              /\ disk'.effects[e].state = IF disk.effects[e].state = "Started"
                                          THEN "Uncertain" ELSE disk.effects[e].state
    <3>1. disk'.effects = [e \in DOMAIN disk.effects |->
                              IF disk.effects[e].state = "Started"
                              THEN [disk.effects[e] EXCEPT !.state = "Uncertain"]
                              ELSE disk.effects[e]]
      BY <1>3 DEF Restores, Restored, StoreInv, StoreTypes, WellFormed, ExecutionType
    <3>2. \A e \in DOMAIN disk.effects : disk.effects[e] \in EffectType
      BY <1>0
    <3> QED BY <3>1, <3>2 DEF EffectType
  <2>3. JournalIsTrue'
    BY <1>0, <2>1, <2>2 DEF JournalIsTrue, Sent, Remote
  <2>4. OneRequestEach'
    BY <2>1, <2>2 DEF OneRequestEach, JournalIsTrue, Remote
  <2> QED BY <1>0, <2>3, <2>4
<1>4. ASSUME NEW e, NEW i, Starts(e, i) PROVE JournalInv'
  <2>1. /\ e \in DOMAIN disk.effects /\ DOMAIN disk'.effects = DOMAIN disk.effects
        /\ disk'.effects[e].class = disk.effects[e].class
        /\ disk'.effects[e].state = "Started"
        /\ \A d \in DOMAIN disk.effects : d # e => disk'.effects[d] = disk.effects[d]
        /\ Dispatchable(disk.effects[e])
        /\ landed' = landed
    BY <1>4 DEF Starts, Moves, SameWrite
  <2>2. Remote(disk.effects[e]) => Sent(e) = {}
    BY <2>1 DEF Dispatchable, JournalIsTrue, Sent
  <2>3. CASE UNCHANGED wire
    <3>1. JournalIsTrue'
      BY <1>0, <2>1, <2>3 DEF JournalIsTrue, Sent, Remote
    <3>2. OneRequestEach'
      BY <2>1, <2>3 DEF OneRequestEach, JournalIsTrue, Remote
    <3> QED BY <1>0, <3>1, <3>2
  <2>4. CASE i \in DOMAIN disk'.records /\ wire' = wire \cup {Request(i, e)}
    <3> DEFINE p == Request(i, e)
    <3>1. p.effect = e /\ p.invocation = i
      BY DEF Request
    <3>2. p \notin wire \cup landed
      BY <1>4, <3>1 DEF Starts, JournalIsTrue
    <3> HIDE DEF p
    <3>3. wire' \cup landed' = (wire \cup landed) \cup {p}
      BY <2>1, <2>4 DEF p
    <3>4. JournalIsTrue'
      <4>1. \A q \in wire' \cup landed' : /\ q.effect \in DOMAIN disk'.effects
                                          /\ q.invocation \in DOMAIN disk'.records
                                          /\ disk'.effects[q.effect].state # "NotStarted"
        BY <1>0, <2>1, <2>4, <3>1, <3>3 DEF JournalIsTrue
      <4>2. ASSUME NEW d \in DOMAIN disk'.effects, Remote(disk'.effects[d])
            PROVE  /\ disk'.effects[d].state = "Failed" => Sent(d)' = {}
                   /\ disk'.effects[d].state = "Confirmed" => \E q \in landed' : q.effect = d
        BY <2>1, <3>1, <3>3, <4>2 DEF JournalIsTrue, Sent
      <4> QED BY <4>1, <4>2 DEF JournalIsTrue
    <3>5. OneRequestEach'
      <4>1. wire' \cap landed' = {}
        BY <2>1, <2>4, <3>2 DEF OneRequestEach, p
      <4>2. ASSUME NEW q \in wire' \cup landed', NEW r \in wire' \cup landed',
                   q.effect = r.effect, Remote(disk'.effects[q.effect])
            PROVE  q = r
        <5>1. CASE q \in wire \cup landed /\ r \in wire \cup landed
          BY <2>1, <4>2, <5>1 DEF OneRequestEach, JournalIsTrue, Remote
        <5>2. CASE q = p \/ r = p
          BY <2>1, <2>2, <3>1, <3>3, <4>2, <5>2 DEF Sent, Remote
        <5> QED BY <3>3, <5>1, <5>2
      <4> QED BY <4>1, <4>2 DEF OneRequestEach
    <3> QED BY <1>0, <3>4, <3>5
  <2> QED BY <1>4, <2>3, <2>4 DEF Starts
<1>5. ASSUME NEW e, NEW s, Ends(e, s) PROVE JournalInv'
  <2>1. /\ e \in DOMAIN disk.effects /\ DOMAIN disk'.effects = DOMAIN disk.effects
        /\ disk'.effects[e].class = disk.effects[e].class
        /\ disk'.effects[e].state = s
        /\ \A d \in DOMAIN disk.effects : d # e => disk'.effects[d] = disk.effects[d]
        /\ UNCHANGED <<wire, landed>>
    BY <1>5 DEF Ends, Moves, SameWrite, provider
  <2>2. \/ s = "Uncertain"
        \/ s = "Confirmed" /\ \E q \in landed : q.effect = e
        \/ s = "Failed" /\ (Remote(disk.effects[e]) => Sent(e) = {})
    BY <1>5 DEF Ends
  <2>3. JournalIsTrue'
    <3>1. \A q \in wire' \cup landed' : /\ q.effect \in DOMAIN disk'.effects
                                        /\ q.invocation \in DOMAIN disk'.records
                                        /\ disk'.effects[q.effect].state # "NotStarted"
      BY <1>0, <2>1, <2>2 DEF JournalIsTrue
    <3>2. ASSUME NEW d \in DOMAIN disk'.effects, Remote(disk'.effects[d])
          PROVE  /\ disk'.effects[d].state = "Failed" => Sent(d)' = {}
                 /\ disk'.effects[d].state = "Confirmed" => \E q \in landed' : q.effect = d
      BY <2>1, <2>2, <3>2 DEF JournalIsTrue, Sent, Remote
    <3> QED BY <3>1, <3>2 DEF JournalIsTrue
  <2>4. OneRequestEach'
    BY <2>1 DEF OneRequestEach, JournalIsTrue, Remote
  <2> QED BY <1>0, <2>3, <2>4
<1>6. ASSUME NEW q, Travels(q) PROVE JournalInv'
  <2>1. /\ q \in wire /\ wire' = wire \ {q} /\ disk' = disk
        /\ landed' \in {landed, landed \cup {q}}
    BY <1>6 DEF Travels
  <2>2. wire' \cup landed' \subseteq wire \cup landed /\ landed \subseteq landed'
    BY <2>1
  <2>3. JournalIsTrue'
    BY <2>1, <2>2 DEF JournalIsTrue, Sent
  <2>4. wire' \cap landed' = {}
    BY <2>1 DEF OneRequestEach
  <2>5. OneRequestEach'
    BY <2>1, <2>2, <2>4 DEF OneRequestEach
  <2> QED BY <1>0, <2>3, <2>5
<1> QED BY <1>1, <1>2, <1>3, <1>4, <1>5, <1>6 DEF JournalMove

THEOREM JournalInvariant == Spec => []JournalInv
<1>1. Init => JournalInv
  <2> SUFFICES ASSUME Init PROVE JournalInv
    OBVIOUS
  <2>1. disk = NewExecution /\ wire = {} /\ landed = {}
    BY DEF Init
  <2>2. DOMAIN NewExecution.effects = {} /\ NewExecution.generation = 0
    BY DEF NewExecution
  <2> QED BY <2>1, <2>2 DEF JournalInv, JournalIsTrue, OneRequestEach
<1>2. StoreInv /\ CheckpointInv /\ JournalInv /\ [Next]_vars => JournalInv'
  BY StepsMoveTheJournal, JournalStaysTrue
<1> QED BY <1>1, <1>2, StoreInvariant, CheckpointInvariant, PTL DEF Spec

(* What the file says of a remote write is true: one it calls not started  *)
(* was never sent, one it calls failed was not performed and is not under  *)
(* way, one it calls confirmed was performed.                              *)
THEOREM JournalTellsTheTruth == Spec => []JournalIsTrue
<1>1. JournalInv => JournalIsTrue
  BY DEF JournalInv
<1> QED BY <1>1, JournalInvariant, PTL

-----------------------------------------------------------------------------
(* A request leaves only in a dispatch, on a grant that the human gave and *)
(* that has neither expired nor been spent.                                *)
THEOREM RequestsNeedGrants == Spec => DispatchNeedsLiveGrant
<1> DEFINE Granted == \A q \in wire' \ wire :
               memory.effects[q.effect].approval =>
                  \E a \in DOMAIN memory.approvals :
                     /\ memory.approvals[a].effect = q.effect
                     /\ memory.approvals[a].state = "Granted"
                     /\ now \in memory.approvals[a].issued..memory.approvals[a].expires
                     /\ disk'.approvals[a].consumer = q.invocation
<1>1. ASSUME StoreInv, CheckpointInv, Next PROVE Granted
  <2>1. CASE wire' \subseteq wire
    BY <2>1
  <2>2. ASSUME NEW a \in {None} \cup DOMAIN memory.approvals, Dispatch(a) PROVE Granted
    <3> DEFINE e == call.effect
               i == NewInvocation(memory)
               begun == Begin(memory, memory.effects[e].operation, None, None)
               next == Start(begun, e, i, a)
    <3>1. CanStart(begun, e, i, a, now)
      BY <2>2 DEF Dispatch
    <3>2. /\ WellFormed(memory) /\ IssuedBefore(memory, now) /\ now \in Nat
      BY <1>1 DEF StoreInv, StoreTypes, CheckpointInv
    <3>3. begun.effects = memory.effects /\ begun.approvals = memory.approvals
      BY <3>2 DEF Begin, WellFormed, ExecutionType
    <3>4. \/ wire' = wire
          \/ wire' = wire \cup {Request(i, e)} /\ disk' = next
      BY <2>2 DEF Dispatch, Commit
    <3>5. ASSUME memory.effects[e].approval, disk' = next
          PROVE  /\ a \in DOMAIN memory.approvals
                 /\ memory.approvals[a].effect = e
                 /\ memory.approvals[a].state = "Granted"
                 /\ now \in memory.approvals[a].issued..memory.approvals[a].expires
                 /\ disk'.approvals[a].consumer = i
      <4>1. /\ a \in DOMAIN memory.approvals
            /\ memory.approvals[a].effect = e
            /\ memory.approvals[a].state = "Granted"
            /\ now <= memory.approvals[a].expires
        <5> HIDE DEF begun, e
        <5> QED BY <3>1, <3>3, <3>5 DEF CanStart, Usable
      <4>2. memory.approvals[a] \in ApprovalType /\ memory.approvals \in Seq(ApprovalType)
        BY <3>2, <4>1 DEF WellFormed, ExecutionType
      <4>3. now \in memory.approvals[a].issued..memory.approvals[a].expires
        BY <3>2, <4>1, <4>2 DEF IssuedBefore, ApprovalType
      <4>4. next.approvals[a].consumer = i
        <5> DEFINE z == ConsumeApproval(begun, a, i)
        <5>1. next = [z EXCEPT !.effects[e].state = "Started", !.effects[e].invocation = i]
          BY <3>3, <3>5 DEF Start
        <5>2. begun.approvals[a] \in ApprovalType /\ "approvals" \in DOMAIN begun
          BY <3>2, <3>3, <4>2 DEF Begin, WellFormed, ExecutionType
        <5>3. z.approvals[a].consumer = i /\ "approvals" \in DOMAIN z
          <6> HIDE DEF begun, i, e
          <6> QED BY <3>3, <4>1, <5>2 DEF ConsumeApproval, ApprovalType
        <5> HIDE DEF z, next, i, e, begun
        <5>4. next.approvals = z.approvals
          BY <5>1, <5>3
        <5> QED BY <5>3, <5>4
      <4> QED BY <3>5, <4>1, <4>3, <4>4
    <3> HIDE DEF next, begun, i, e
    <3> QED BY <3>4, <3>5 DEF Request
  <2>3. wire' \subseteq wire \/ \E a \in {None} \cup DOMAIN memory.approvals : Dispatch(a)
    BY <1>1 DEF Next, InvokeStep, InvokeBegin, InvokeReturn, EffectStep, ReserveNew, ReserveAgain,
                ReuseResult, DispatchRefused, CallReturn, Abandon, ReconcileEffect, ApprovalStep,
                RequestAnswer, Answer, AnswerRefused, DataflowStep, AssignValue, PublishEvent,
                ConsumeEvent, ProviderStep, Land, Lose, Crash, Open, Tick, provider
  <2> QED BY <2>1, <2>2, <2>3
<1>2. StoreInv /\ CheckpointInv /\ [Next]_vars => [Granted]_vars
  BY <1>1
<1> QED BY <1>2, StoreInvariant, CheckpointInvariant, PTL DEF Spec, DispatchNeedsLiveGrant

-----------------------------------------------------------------------------
(* The journal implements WriteOnce.  What a state of the file and of the  *)
(* provider says of one write:                                             *)
Claim(x, w) ==
    IF EffectsOf(x, w) = {} THEN "none"
    ELSE ClaimOf(x.effects[CHOOSE e \in EffectsOf(x, w) : TRUE].state)

LandedFor(x, done, w) == {q \in done : q.effect \in EffectsOf(x, w)}

Applied(x, done, w) == Cardinality(LandedFor(x, done, w))

(* The file has one effect per write, and a write one request.             *)
OneEffect(x) == \A w, d, e : d \in EffectsOf(x, w) /\ e \in EffectsOf(x, w) => d = e

OneRequest(x, requests) ==
    \A p, q \in requests : p.effect = q.effect /\ Remote(x.effects[p.effect]) => p = q

LEMMA EffectsAreSingle ==
    ASSUME NEW x, Restorable(x), x.generation = 0
    PROVE  OneEffect(x)
<1>1. \A e \in DOMAIN x.effects : x.effects[e].generation = 0
  <2>1. /\ \A e \in DOMAIN x.effects : x.effects[e].generation <= x.generation
        /\ \A e \in DOMAIN x.effects : x.effects[e] \in EffectType
    BY DEF Restorable, Valid, ValidEffects, WellFormed, ExecutionType
  <2> QED BY <2>1 DEF EffectType
<1> QED BY <1>1 DEF OneEffect, EffectsOf, Restorable, Valid, ValidEffects, DistinctInstances

LEMMA ClaimIsOfTheEffect ==
    ASSUME NEW x, OneEffect(x), NEW w, NEW e \in EffectsOf(x, w)
    PROVE  Claim(x, w) = ClaimOf(x.effects[e].state)
  BY DEF OneEffect, Claim

LEMMA AppliedAtMostOnce ==
    ASSUME NEW x, OneEffect(x), NEW done, OneRequest(x, done), NEW w
    PROVE  /\ (\E q \in done : q.effect \in EffectsOf(x, w)) => Applied(x, done, w) = 1
           /\ (\A q \in done : q.effect \notin EffectsOf(x, w)) => Applied(x, done, w) = 0
<1>1. ASSUME NEW q \in done, q.effect \in EffectsOf(x, w)
      PROVE  Applied(x, done, w) = 1
  <2>1. LandedFor(x, done, w) = {q}
    BY <1>1 DEF LandedFor, OneEffect, OneRequest, EffectsOf
  <2> QED BY <2>1, FS_Singleton DEF Applied
<1>2. ASSUME \A q \in done : q.effect \notin EffectsOf(x, w)
      PROVE  Applied(x, done, w) = 0
  <2>1. LandedFor(x, done, w) = {}
    BY <1>2 DEF LandedFor
  <2> QED BY <2>1, FS_EmptySet DEF Applied
<1> QED BY <1>1, <1>2

(* Effects that stay the same writes are found as before.                  *)
LEMMA EffectsOfKept ==
    ASSUME NEW x, NEW y, DOMAIN y.effects = DOMAIN x.effects,
           \A e \in DOMAIN x.effects : SameWrite(x.effects[e], y.effects[e])
    PROVE  \A w : EffectsOf(y, w) = EffectsOf(x, w)
  BY DEF SameWrite, EffectsOf, Remote

LEMMA MovesKeepEffects ==
    ASSUME NEW x, NEW y, NEW e, NEW s, Moves(x, y, e, s)
    PROVE  \A w : EffectsOf(y, w) = EffectsOf(x, w)
  BY EffectsOfKept DEF Moves, SameWrite

(* A write whose effect keeps its claim is where it was.                   *)
LEMMA ClaimKept ==
    ASSUME NEW x, NEW y, OneEffect(x), OneEffect(y), NEW w, EffectsOf(y, w) = EffectsOf(x, w),
           \A e \in EffectsOf(x, w) : ClaimOf(y.effects[e].state) = ClaimOf(x.effects[e].state)
    PROVE  Claim(y, w) = Claim(x, w)
<1>1. CASE EffectsOf(x, w) = {}
  BY <1>1 DEF Claim
<1>2. ASSUME NEW e \in EffectsOf(x, w) PROVE Claim(y, w) = Claim(x, w)
  BY <1>2, ClaimIsOfTheEffect
<1> QED BY <1>1, <1>2

-----------------------------------------------------------------------------
(* The steps of WriteOnce as the journal takes them.                       *)
Keeps(w) == /\ Claim(disk', w) = Claim(disk, w)
            /\ Applied(disk', landed', w) = Applied(disk, landed, w)

OthersKeep(w) == \A v \in RemoteWrites : v # w => Keeps(v)

Opens(w) == /\ Claim(disk, w) \in {"none", "absent"} /\ Claim(disk', w) = "open"
            /\ Applied(disk', landed', w) = Applied(disk, landed, w)

Applies(w) == /\ Claim(disk, w) = "open" /\ Claim(disk', w) = "open"
              /\ Applied(disk, landed, w) = 0 /\ Applied(disk', landed', w) = 1

Settles(w) == /\ Claim(disk, w) = "open"
              /\ Claim(disk', w) = IF Applied(disk, landed, w) = 1 THEN "applied" ELSE "absent"
              /\ Applied(disk', landed', w) = Applied(disk, landed, w)

WritesOnce ==
    \/ \A w \in RemoteWrites : Keeps(w)
    \/ \E w \in RemoteWrites : OthersKeep(w) /\ (Opens(w) \/ Applies(w) \/ Settles(w))

(* The write of effect e is one; the others are not affected.              *)
LEMMA WriteOfEffect ==
    ASSUME NEW x, NEW e, NEW v \in RemoteWrites, e \in EffectsOf(x, v),
           NEW w \in RemoteWrites, e \in EffectsOf(x, w)
    PROVE  v = w
  BY DEF RemoteWrites, EffectsOf

(* A move of effect e that keeps its claim, or has no remote write to      *)
(* claim, keeps everything.                                                *)
LEMMA QuietMove ==
    ASSUME OneEffect(disk), OneEffect(disk'), NEW e, NEW s, Moves(disk, disk', e, s),
           landed' = landed, NEW w,
           e \notin EffectsOf(disk, w) \/ ClaimOf(s) = ClaimOf(disk.effects[e].state)
    PROVE  Keeps(w)
<1>1. EffectsOf(disk', w) = EffectsOf(disk, w)
  BY MovesKeepEffects
<1>2. Claim(disk', w) = Claim(disk, w)
  <2>1. \A d \in EffectsOf(disk, w) :
            ClaimOf(disk'.effects[d].state) = ClaimOf(disk.effects[d].state)
    BY DEF Moves, EffectsOf
  <2> QED BY <1>1, <2>1, ClaimKept
<1> QED BY <1>1, <1>2 DEF Keeps, Applied, LandedFor

LEMMA MovesWriteOnce ==
    ASSUME OneEffect(disk), OneEffect(disk'), JournalIsTrue, OneRequestEach,
           OneRequest(disk', landed'), JournalMove, StoreInv
    PROVE  WritesOnce
<1>0. OneRequest(disk, landed)
  BY DEF OneRequestEach, OneRequest
<1>1. CASE Stays
  <2>1. ASSUME NEW w PROVE Keeps(w)
    <3>1. EffectsOf(disk', w) = EffectsOf(disk, w)
      BY <1>1 DEF Stays, EffectsOf
    <3>2. LandedFor(disk', landed', w) = LandedFor(disk, landed, w)
      BY <1>1, <3>1 DEF Stays, provider, LandedFor
    <3> QED BY <1>1, <3>1, <3>2 DEF Stays, Keeps, Claim, Applied
  <2> QED BY <2>1 DEF WritesOnce
<1>2. CASE Adds
  <2>1. PICK f : f.state = "NotStarted" /\ disk'.effects = Append(disk.effects, f)
    BY <1>2 DEF Adds
  <2> DEFINE n == Len(disk.effects) + 1
  <2>2. /\ n \notin DOMAIN disk.effects /\ DOMAIN disk'.effects = DOMAIN disk.effects \cup {n}
        /\ \A e \in DOMAIN disk.effects : disk'.effects[e] = disk.effects[e]
        /\ disk'.effects[n].state = "NotStarted"
    <3>1. disk.effects \in Seq(EffectType)
      BY DEF StoreInv, StoreTypes, WellFormed, ExecutionType
    <3> QED BY <2>1, <3>1
  <2> HIDE DEF n
  <2>3. ASSUME NEW w PROVE Keeps(w)
    <3>1. Applied(disk', landed', w) = Applied(disk, landed, w)
      <4>1. \A q \in landed : q.effect \in EffectsOf(disk', w) <=> q.effect \in EffectsOf(disk, w)
        BY <2>2 DEF EffectsOf, JournalIsTrue
      <4>2. landed' = landed
        BY <1>2 DEF Adds, provider
      <4> QED BY <4>1, <4>2 DEF Applied, LandedFor
    <3>2. CASE n \in EffectsOf(disk', w)
      <4>1. EffectsOf(disk, w) = {}
        BY <2>2, <3>2 DEF OneEffect, EffectsOf
      <4>2. Claim(disk', w) = ClaimOf("NotStarted")
        BY <2>2, <3>2, ClaimIsOfTheEffect
      <4>3. Claim(disk, w) = "none"
        BY <4>1 DEF Claim
      <4>4. ClaimOf("NotStarted") = "none"
        BY DEF ClaimOf, Unresolved
      <4> QED BY <3>1, <4>2, <4>3, <4>4 DEF Keeps
    <3>3. CASE n \notin EffectsOf(disk', w)
      <4>1. EffectsOf(disk', w) = EffectsOf(disk, w)
        BY <2>2, <3>3 DEF EffectsOf
      <4>2. \A e \in EffectsOf(disk, w) : disk'.effects[e] = disk.effects[e]
        BY <2>2 DEF EffectsOf
      <4> QED BY <3>1, <4>1, <4>2, ClaimKept DEF Keeps
    <3> QED BY <3>2, <3>3
  <2> QED BY <2>3 DEF WritesOnce
<1>3. CASE Restores
  <2>1. /\ DOMAIN disk'.effects = DOMAIN disk.effects
        /\ \A e \in DOMAIN disk.effects :
              /\ SameWrite(disk.effects[e], disk'.effects[e])
              /\ disk'.effects[e].state = IF disk.effects[e].state = "Started"
                                          THEN "Uncertain" ELSE disk.effects[e].state
    <3>1. disk'.effects = [e \in DOMAIN disk.effects |->
                              IF disk.effects[e].state = "Started"
                              THEN [disk.effects[e] EXCEPT !.state = "Uncertain"]
                              ELSE disk.effects[e]]
      BY <1>3 DEF Restores, Restored, StoreInv, StoreTypes, WellFormed, ExecutionType
    <3>2. \A e \in DOMAIN disk.effects : disk.effects[e] \in EffectType
      BY DEF StoreInv, StoreTypes, WellFormed, ExecutionType
    <3> QED BY <3>1, <3>2 DEF EffectType, SameWrite
  <2>2. ASSUME NEW w PROVE Keeps(w)
    <3>1. EffectsOf(disk', w) = EffectsOf(disk, w)
      BY <2>1, EffectsOfKept
    <3>2. ClaimOf("Started") = ClaimOf("Uncertain")
      BY DEF ClaimOf, Unresolved
    <3>3. Claim(disk', w) = Claim(disk, w)
      BY <2>1, <3>1, <3>2, ClaimKept DEF EffectsOf
    <3> QED BY <1>3, <3>1, <3>3 DEF Restores, provider, Keeps, Applied, LandedFor
  <2> QED BY <2>2 DEF WritesOnce
<1>4. ASSUME NEW e, NEW i, Starts(e, i) PROVE WritesOnce
  <2>1. /\ Moves(disk, disk', e, "Started") /\ landed' = landed
        /\ Dispatchable(disk.effects[e])
    BY <1>4 DEF Starts
  <2>2. ASSUME NEW w \in RemoteWrites, e \in EffectsOf(disk, w) PROVE WritesOnce
    <3>1. OthersKeep(w)
      BY <2>1, <2>2, WriteOfEffect, QuietMove DEF OthersKeep
    <3>2. EffectsOf(disk', w) = EffectsOf(disk, w)
      BY <2>1, MovesKeepEffects
    <3>3. Claim(disk', w) = "open"
      BY <2>1, <2>2, <3>2, ClaimIsOfTheEffect DEF Moves, ClaimOf, Unresolved
    <3>4. Claim(disk, w) \in {"none", "absent"}
      BY <2>1, <2>2, ClaimIsOfTheEffect DEF Dispatchable, ClaimOf, Unresolved
    <3>5. Applied(disk', landed', w) = Applied(disk, landed, w)
      BY <2>1, <3>2 DEF Applied, LandedFor
    <3> QED BY <3>1, <3>3, <3>4, <3>5 DEF WritesOnce, Opens
  <2>3. CASE \A w \in RemoteWrites : e \notin EffectsOf(disk, w)
    BY <2>1, <2>3, QuietMove DEF WritesOnce
  <2> QED BY <2>2, <2>3
<1>5. ASSUME NEW e, NEW s, Ends(e, s) PROVE WritesOnce
  <2>1. /\ Moves(disk, disk', e, s) /\ landed' = landed
        /\ disk.effects[e].state \in Unresolved
    BY <1>5 DEF Ends, provider
  <2>2. CASE s = "Uncertain"
    <3>1. ClaimOf(s) = ClaimOf(disk.effects[e].state)
      BY <2>1, <2>2 DEF ClaimOf, Unresolved
    <3> QED BY <2>1, <3>1, QuietMove DEF WritesOnce
  <2>3. ASSUME NEW w \in RemoteWrites, e \in EffectsOf(disk, w), s # "Uncertain"
        PROVE  WritesOnce
    <3>1. OthersKeep(w)
      BY <2>1, <2>3, WriteOfEffect, QuietMove DEF OthersKeep
    <3>2. EffectsOf(disk', w) = EffectsOf(disk, w)
      BY <2>1, MovesKeepEffects
    <3>3. Claim(disk, w) = "open"
      BY <2>1, <2>3, ClaimIsOfTheEffect DEF ClaimOf, Unresolved
    <3>4. Claim(disk', w) = ClaimOf(s)
      BY <2>1, <2>3, <3>2, ClaimIsOfTheEffect DEF Moves
    <3>5. Applied(disk', landed', w) = Applied(disk, landed, w)
      BY <2>1, <3>2 DEF Applied, LandedFor
    <3>6. CASE s = "Confirmed" /\ \E q \in landed : q.effect = e
      <4>1. Applied(disk, landed, w) = 1
        BY <1>0, <2>3, <3>6, AppliedAtMostOnce
      <4> QED BY <3>1, <3>3, <3>4, <3>5, <3>6, <4>1 DEF WritesOnce, Settles, ClaimOf, Unresolved
    <3>7. CASE s = "Failed" /\ (Remote(disk.effects[e]) => Sent(e) = {})
      <4>1. \A q \in landed : q.effect \notin EffectsOf(disk, w)
        BY <2>3, <3>7 DEF Sent, OneEffect, EffectsOf
      <4>2. Applied(disk, landed, w) = 0
        BY <1>0, <4>1, AppliedAtMostOnce
      <4> QED BY <3>1, <3>3, <3>4, <3>5, <3>7, <4>2 DEF WritesOnce, Settles, ClaimOf, Unresolved
    <3> QED BY <1>5, <2>3, <3>6, <3>7 DEF Ends
  <2>4. CASE \A w \in RemoteWrites : e \notin EffectsOf(disk, w)
    BY <2>1, <2>4, QuietMove DEF WritesOnce
  <2> QED BY <2>2, <2>3, <2>4
<1>6. ASSUME NEW q, Travels(q) PROVE WritesOnce
  <2>1. /\ q \in wire /\ disk' = disk /\ landed' \in {landed, landed \cup {q}}
    BY <1>6 DEF Travels
  <2>2. ASSUME NEW w \in RemoteWrites, q.effect \in EffectsOf(disk, w), landed' = landed \cup {q}
        PROVE  WritesOnce
    <3>1. ASSUME NEW v \in RemoteWrites, v # w PROVE Keeps(v)
      <4>1. q.effect \notin EffectsOf(disk, v)
        BY <2>2, <3>1, WriteOfEffect
      <4>2. LandedFor(disk', landed', v) = LandedFor(disk, landed, v)
        BY <2>1, <2>2, <4>1 DEF LandedFor
      <4> QED BY <2>1, <4>2 DEF Keeps, Applied
    <3>2. \A p \in landed : p.effect # q.effect
      BY <2>1, <2>2 DEF OneRequestEach, EffectsOf
    <3>3. Applied(disk, landed, w) = 0
      <4>1. \A p \in landed : p.effect \notin EffectsOf(disk, w)
        BY <2>2, <3>2 DEF OneEffect
      <4> QED BY <1>0, <4>1, AppliedAtMostOnce
    <3>4. Applied(disk', landed', w) = 1
      BY <2>1, <2>2, AppliedAtMostOnce
    <3>5. disk.effects[q.effect].state \in Unresolved
      <4>1. /\ q.effect \in DOMAIN disk.effects /\ Remote(disk.effects[q.effect])
            /\ disk.effects[q.effect].state # "NotStarted"
        BY <2>1, <2>2 DEF EffectsOf, JournalIsTrue
      <4>2. disk.effects[q.effect].state \notin {"Failed", "Confirmed"}
        BY <2>1, <3>2, <4>1 DEF JournalIsTrue, Sent
      <4>3. disk.effects[q.effect] \in EffectType
        BY <4>1 DEF StoreInv, StoreTypes, WellFormed, ExecutionType
      <4> QED BY <4>1, <4>2, <4>3 DEF EffectType, Unresolved
    <3>6. Claim(disk, w) = "open"
      BY <2>2, <3>5, ClaimIsOfTheEffect DEF ClaimOf, Unresolved
    <3> QED BY <2>1, <3>1, <3>3, <3>4, <3>6 DEF WritesOnce, OthersKeep, Applies
  <2>3. CASE landed' = landed \/ \A w \in RemoteWrites : q.effect \notin EffectsOf(disk, w)
    <3>1. ASSUME NEW w \in RemoteWrites PROVE Keeps(w)
      <4>1. LandedFor(disk', landed', w) = LandedFor(disk, landed, w)
        BY <2>1, <2>3 DEF LandedFor
      <4> QED BY <2>1, <4>1 DEF Keeps, Applied
    <3> QED BY <3>1 DEF WritesOnce
  <2> QED BY <2>1, <2>2, <2>3
<1> QED BY <1>1, <1>2, <1>3, <1>4, <1>5, <1>6 DEF JournalMove

-----------------------------------------------------------------------------
(* Every remote write is performed at most once, and what the journal      *)
(* claims of it is true: the store implements WriteOnce.                   *)
THEOREM WritesHappenOnce == Spec => RemoteWritesHappenOnce
<1>1. Init => Journal!Init
  <2> SUFFICES ASSUME Init PROVE Journal!Init
    OBVIOUS
  <2>1. disk = NewExecution /\ landed = {}
    BY DEF Init
  <2>2. \A w : EffectsOf(disk, w) = {}
    BY <2>1 DEF NewExecution, EffectsOf
  <2>3. \A w : {q \in landed : q.effect \in EffectsOf(disk, w)} = {}
    BY <2>1
  <2> QED BY <2>2, <2>3, FS_EmptySet DEF Journal!Init
<1>2. ASSUME StoreInv, JournalInv, CheckpointInv, JournalInv', CheckpointInv', [Next]_vars
      PROVE  [Journal!Next]_(Journal!vars)
  <2>1. OneEffect(disk) /\ OneEffect(disk')
    <3>1. /\ Restorable(disk) /\ disk.generation = 0
          /\ Restorable(disk') /\ disk'.generation = 0
      BY <1>2 DEF CheckpointInv, JournalInv
    <3> QED BY <3>1, EffectsAreSingle
  <2>2. OneRequest(disk', landed')
    BY <1>2 DEF JournalInv, OneRequestEach, OneRequest
  <2>3. WritesOnce
    BY <1>2, <2>1, <2>2, StepsMoveTheJournal, MovesWriteOnce DEF JournalInv
  <2>4. CASE \A w \in RemoteWrites : Keeps(w)
    BY <2>4 DEF Keeps, Claim, Applied, LandedFor, Journal!vars
  <2>5. ASSUME NEW w \in RemoteWrites, OthersKeep(w), Opens(w) PROVE Journal!Next
    <3>1. Journal!Open(w)
      BY <2>5 DEF OthersKeep, Keeps, Opens, Claim, Applied, LandedFor, Journal!Open
    <3> QED BY <3>1 DEF Journal!Next
  <2>6. ASSUME NEW w \in RemoteWrites, OthersKeep(w), Applies(w) PROVE Journal!Next
    <3>1. Journal!Apply(w)
      BY <2>6 DEF OthersKeep, Keeps, Applies, Claim, Applied, LandedFor, Journal!Apply
    <3> QED BY <3>1 DEF Journal!Next
  <2>7. ASSUME NEW w \in RemoteWrites, OthersKeep(w), Settles(w) PROVE Journal!Next
    <3>1. Journal!Settle(w)
      BY <2>7 DEF OthersKeep, Keeps, Settles, Claim, Applied, LandedFor, Journal!Settle
    <3> QED BY <3>1 DEF Journal!Next
  <2> QED BY <2>3, <2>4, <2>5, <2>6, <2>7 DEF WritesOnce
<1> QED BY <1>1, <1>2, StoreInvariant, JournalInvariant, CheckpointInvariant, PTL
        DEF Spec, RemoteWritesHappenOnce, Journal!Spec
=============================================================================
