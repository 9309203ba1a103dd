--------------------------- MODULE RunStoreProofs ---------------------------
(***************************************************************************)
(* What the run store guarantees for every set of requests, every bound    *)
(* and every lifetime of approvals.                                        *)
(***************************************************************************)
EXTENDS RunStore, EffectProofs

(* The strengthening of the type invariant: both copies of the execution   *)
(* state are well formed.                                                  *)
StoreTypes ==
    /\ WellFormed(memory)
    /\ WellFormed(disk)
    /\ poisoned \in BOOLEAN
    /\ call \in CallType
    /\ wire \subseteq RequestType
    /\ landed \subseteq RequestType
    /\ delivered \in Seq(Nat)
    /\ now \in Nat
    /\ crashes \in Nat

(* Whatever was delivered is consumed in both copies, hence it is in every *)
(* state a failed write or a restart can leave.                            *)
DeliveredIsConsumed ==
    \A i \in DOMAIN delivered : delivered[i] \in memory.consumed \cap disk.consumed

(* A usable store has written exactly what it shows.                       *)
MemoryIsDisk == call # Down /\ ~poisoned => memory = disk

StoreInv ==
    /\ StoreTypes
    /\ DeliveredIsConsumed
    /\ DeliveredAtMostOnce
    /\ MemoryIsDisk

-----------------------------------------------------------------------------
(* Whatever update_execution is asked to write, if it is well formed and   *)
(* only adds to the consumed events, the store stays in order whether or   *)
(* not the write fails.                                                    *)
LEMMA UpdateKeepsStore ==
    ASSUME StoreInv, NEW next, WellFormed(next), memory.consumed \subseteq next.consumed,
           NEW then \in CallType, Update(next, then), UNCHANGED delivered
    PROVE  /\ WellFormed(memory') /\ WellFormed(disk')
           /\ poisoned' \in BOOLEAN
           /\ call' \in CallType
           /\ DeliveredIsConsumed'
           /\ DeliveredAtMostOnce'
           /\ MemoryIsDisk'
<1> USE DEF StoreInv, StoreTypes
<1>1. Idle \in CallType
  BY DEF Idle, CallType
<1>2. CASE Commit(next) /\ call' = then
  BY <1>2 DEF Commit, DeliveredIsConsumed, DeliveredAtMostOnce, MemoryIsDisk
<1>3. CASE WriteFails(next) /\ call' = Idle
  BY <1>1, <1>3 DEF WriteFails, DeliveredIsConsumed, DeliveredAtMostOnce, MemoryIsDisk
<1> QED BY <1>2, <1>3 DEF Update

(* The same with the rest of the invariant: the usual shape of a step.     *)
LEMMA StoreStep ==
    ASSUME StoreInv, NEW next, WellFormed(next), memory.consumed \subseteq next.consumed,
           NEW then \in CallType, Update(next, then),
           UNCHANGED <<provider, delivered, now, crashes>>
    PROVE  StoreInv'
<1>1. /\ WellFormed(memory') /\ WellFormed(disk')
      /\ poisoned' \in BOOLEAN
      /\ call' \in CallType
      /\ DeliveredIsConsumed' /\ DeliveredAtMostOnce' /\ MemoryIsDisk'
  BY UpdateKeepsStore
<1> QED BY <1>1 DEF StoreInv, StoreTypes, provider

(* A step that touches neither copy.                                       *)
LEMMA StoreIdles ==
    ASSUME StoreInv, UNCHANGED <<store, delivered>>,
           call' \in CallType, call = Down => call' = Down,
           wire' \subseteq RequestType, landed' \subseteq RequestType,
           now' \in Nat, crashes' \in Nat
    PROVE  StoreInv'
  BY DEF StoreInv, StoreTypes, store, DeliveredIsConsumed, DeliveredAtMostOnce, MemoryIsDisk

(* Plain invocations.                                                      *)
LEMMA InvokeKeepsStore == ASSUME StoreInv, InvokeStep PROVE StoreInv'
<1> USE DEF StoreInv, StoreTypes
<1>1. ASSUME NEW op \in Operations, InvokeBegin(op) PROVE StoreInv'
  <2> DEFINE next == Begin(memory, op, None, None)
  <2>1. WellFormed(next) /\ next.consumed = memory.consumed
    BY BeginKeeps DEF None
  <2>2. NewInvocation(memory) \in Nat
    BY DEF NewInvocation, WellFormed, ExecutionType
  <2>3. PICK then \in {Idle, [at |-> "invoking", invocation |-> NewInvocation(memory)]} :
            Update(next, then)
    BY <1>1 DEF InvokeBegin
  <2>4. then \in CallType
    BY <2>2 DEF Idle, CallType
  <2> HIDE DEF next
  <2> QED BY <1>1, <2>1, <2>3, <2>4, StoreStep DEF InvokeBegin
<1>2. ASSUME NEW succeeded \in BOOLEAN, InvokeReturn(succeeded) PROVE StoreInv'
  <2> DEFINE next == FinishResult(memory, call.invocation, succeeded)
  <2>1. WellFormed(next) /\ next.consumed = memory.consumed
    BY <1>2, FinishResultKeeps DEF InvokeReturn, CanTerminate
  <2>2. Idle \in CallType
    BY DEF Idle, CallType
  <2> HIDE DEF next
  <2> QED BY <1>2, <2>1, <2>2, StoreStep DEF InvokeReturn, next
<1> QED BY <1>1, <1>2 DEF InvokeStep

(* Effects: reservation, dispatch, end and reconciliation.                 *)
LEMMA EffectKeepsStore == ASSUME StoreInv, EffectStep PROVE StoreInv'
<1> USE DEF StoreInv, StoreTypes
<1>0. Idle \in CallType /\ Idle # Down /\ \A e \in Nat : [at |-> "reserved", effect |-> e] \in CallType
  BY DEF Idle, Down, CallType
<1>1. ASSUME NEW r \in Requests, ReserveNew(r) PROVE StoreInv'
  <2>1. WellFormed(Reserve(memory, r)) /\ Reserve(memory, r).consumed = memory.consumed
    BY ReserveKeeps
  <2>2. NewEffect(memory) \in Nat
    BY DEF NewEffect, WellFormed, ExecutionType
  <2>3. PICK then \in {Idle, [at |-> "reserved", effect |-> NewEffect(memory)]} :
            Update(Reserve(memory, r), then)
    BY <1>1 DEF ReserveNew
  <2>4. then \in CallType
    BY <1>0, <2>2
  <2> QED BY <1>1, <2>1, <2>3, <2>4, StoreStep DEF ReserveNew
<1>2. ASSUME NEW r \in Requests, NEW e \in DOMAIN memory.effects, ReserveAgain(r, e) PROVE StoreInv'
  <2>1. e \in Nat
    BY DEF WellFormed, ExecutionType
  <2> QED BY <1>0, <1>2, <2>1, StoreStep DEF ReserveAgain
<1>3. ASSUME NEW r \in Requests, NEW e \in DOMAIN memory.effects, ReuseResult(r, e) PROVE StoreInv'
  BY <1>0, <1>3, StoreStep DEF ReuseResult
<1>4. ASSUME NEW a \in {None} \cup DOMAIN memory.approvals, Dispatch(a) PROVE StoreInv'
  <2> DEFINE e == call.effect
             i == NewInvocation(memory)
             begun == Begin(memory, memory.effects[e].operation, None, None)
             next == Start(begun, e, i, a)
  <2>1. CanStart(begun, e, i, a, now) /\ call.at = "reserved" /\ ~poisoned
    BY <1>4 DEF Dispatch, Commit, Update, WriteFails
  <2>2. i \in Nat /\ e \in Nat
    BY <2>1 DEF NewInvocation, WellFormed, ExecutionType, CallType
  <2>3. e \in DOMAIN memory.effects /\ memory.effects[e].operation \in Operations
    <3>1. begun.effects = memory.effects
      BY DEF Begin, WellFormed, ExecutionType
    <3> HIDE DEF begun
    <3>2. e \in DOMAIN begun.effects
      BY <2>1 DEF CanStart
    <3>3. memory.effects \in Seq(EffectType)
      BY DEF WellFormed, ExecutionType
    <3> HIDE DEF e
    <3>4. memory.effects[e] \in EffectType
      BY <3>1, <3>2, <3>3
    <3> QED BY <3>1, <3>2, <3>4 DEF EffectType
  <2>4. /\ WellFormed(begun) /\ begun.consumed = memory.consumed
        /\ begun.effects = memory.effects /\ begun.approvals = memory.approvals
    <3>1. WellFormed(memory) /\ None \in Nat
      BY DEF None
    <3> QED BY <2>3, <3>1, BeginKeeps, Zenon
  <2> HIDE DEF begun
  <2>5. begun.effects[e].approval => a \in DOMAIN begun.approvals
    BY <2>1 DEF CanStart, Usable
  <2>6. WellFormed(next) /\ next.consumed = memory.consumed
    BY <2>2, <2>3, <2>4, <2>5, StartKeeps
  <2> HIDE DEF next, i, e
  <2>7. CASE /\ Commit(next)
             /\ call' = [at |-> "calling", effect |-> e, invocation |-> i]
             /\ wire' = wire \cup {Request(i, e)}
    <3>1. [at |-> "calling", effect |-> e, invocation |-> i] \in CallType
      BY <2>2 DEF CallType
    <3>2. Request(i, e) \in RequestType
      BY <2>2 DEF Request, RequestType
    <3>3. UNCHANGED <<landed, delivered, now, crashes>>
      BY <1>4 DEF Dispatch
    <3>4. Update(next, [at |-> "calling", effect |-> e, invocation |-> i])
      BY <2>7 DEF Update
    <3>5. /\ WellFormed(memory') /\ WellFormed(disk')
          /\ poisoned' \in BOOLEAN
          /\ call' \in CallType
          /\ DeliveredIsConsumed' /\ DeliveredAtMostOnce' /\ MemoryIsDisk'
      BY <2>6, <3>1, <3>3, <3>4, UpdateKeepsStore
    <3> QED BY <2>7, <3>2, <3>3, <3>5
  <2>8. CASE Update(next, Idle) /\ UNCHANGED wire
    <3>1. UNCHANGED <<provider, delivered, now, crashes>>
      BY <1>4, <2>8 DEF Dispatch, provider
    <3> QED BY <1>0, <2>6, <2>8, <3>1, StoreStep
  <2> QED BY <1>4, <2>7, <2>8 DEF Dispatch, next, begun, e, i
<1>5. CASE DispatchRefused
  BY <1>0, <1>5, StoreIdles DEF DispatchRefused, Down, provider
<1>6. ASSUME NEW succeeded \in BOOLEAN, CallReturn(succeeded) PROVE StoreInv'
  <2> DEFINE next == FinishEffect(memory, call.effect, call.invocation, succeeded)
  <2>1. WellFormed(next) /\ next.consumed = memory.consumed
    BY <1>6, FinishEffectKeeps DEF CallReturn, CanFinishEffect, CanTerminate
  <2> HIDE DEF next
  <2> QED BY <1>0, <1>6, <2>1, StoreStep DEF CallReturn, next
<1>7. CASE Abandon
  BY <1>0, <1>7, StoreIdles DEF Abandon, Down, provider
<1>8. ASSUME NEW e \in DOMAIN memory.effects, ReconcileEffect(e) PROVE StoreInv'
  <2>1. PICK evidence \in Evidence(e) : Update(Reconcile(memory, e, evidence), Idle)
    BY <1>8 DEF ReconcileEffect
  <2>2. evidence \in {"Confirmed", "NotFound", "StillUncertain"}
    BY DEF Evidence
  <2>3. /\ WellFormed(Reconcile(memory, e, evidence))
        /\ Reconcile(memory, e, evidence).consumed = memory.consumed
    BY <2>2, ReconcileKeeps
  <2> QED BY <1>0, <1>8, <2>1, <2>3, StoreStep DEF ReconcileEffect
<1> QED BY <1>1, <1>2, <1>3, <1>4, <1>5, <1>6, <1>7, <1>8 DEF EffectStep

(* Approvals: requesting one and hearing the answer.                       *)
LEMMA ApprovalKeepsStore == ASSUME StoreInv, ApprovalStep PROVE StoreInv'
<1> USE DEF StoreInv, StoreTypes
<1>0. Idle \in CallType /\ Idle # Down
  BY DEF Idle, Down, CallType
<1>1. ASSUME NEW e \in DOMAIN memory.effects, NEW parameters \in Contents,
             RequestAnswer(e, parameters)
      PROVE  StoreInv'
  <2>1. Ttl \in Nat
    BY TtlAssumption, MaxTtlAssumption
  <2>2. /\ WellFormed(RequestApproval(memory, e, now, Ttl))
        /\ RequestApproval(memory, e, now, Ttl).consumed = memory.consumed
    BY <2>1, RequestApprovalKeeps
  <2>3. [at |-> "asking", approval |-> NewApproval(memory)] \in CallType
    BY DEF NewApproval, WellFormed, ExecutionType, CallType
  <2> QED BY <1>1, <2>2, <2>3, StoreStep DEF RequestAnswer
<1>2. ASSUME NEW echo, NEW granted \in BOOLEAN, Answer(echo, granted) PROVE StoreInv'
  <2>1. /\ WellFormed(Decide(memory, call.approval, granted))
        /\ Decide(memory, call.approval, granted).consumed = memory.consumed
    BY <1>2, DecideKeeps DEF Answer, CanDecide
  <2> QED BY <1>0, <1>2, <2>1, StoreStep DEF Answer
<1>3. ASSUME NEW echo, AnswerRefused(echo) PROVE StoreInv'
  BY <1>0, <1>3, StoreIdles DEF AnswerRefused, Down, provider
<1> QED BY <1>1, <1>2, <1>3 DEF ApprovalStep

(* Values and events; consuming is the one step that delivers.             *)
LEMMA DataflowKeepsStore == ASSUME StoreInv, DataflowStep PROVE StoreInv'
<1> USE DEF StoreInv, StoreTypes
<1>0. Idle \in CallType /\ Idle # Down
  BY DEF Idle, Down, CallType
<1>1. ASSUME NEW n \in Names, NEW p \in Payloads, AssignValue(n, p) PROVE StoreInv'
  BY <1>0, <1>1, AssignKeeps, StoreStep DEF AssignValue
<1>2. ASSUME NEW t \in Topics, NEW p \in Payloads,
             NEW cause \in {None} \cup DOMAIN memory.events, PublishEvent(t, p, cause)
      PROVE  StoreInv'
  <2>1. cause \in Nat
    BY DEF None, WellFormed, ExecutionType
  <2>2. /\ WellFormed(Publish(memory, t, p, cause))
        /\ Publish(memory, t, p, cause).consumed = memory.consumed
    BY <2>1, PublishKeeps
  <2> QED BY <1>0, <1>2, <2>2, StoreStep DEF PublishEvent
<1>3. ASSUME NEW event \in DOMAIN memory.events, ConsumeEvent(event) PROVE StoreInv'
  <2> DEFINE next == Consume(memory, event)
  <2>1. WellFormed(next) /\ next.consumed = memory.consumed \cup {event}
    BY ConsumeKeeps
  <2>2. event \in Nat
    BY DEF WellFormed, ExecutionType
  <2>3. call = Idle /\ UNCHANGED <<call, provider, now, crashes>>
    BY <1>3 DEF ConsumeEvent
  <2> HIDE DEF next
  <2>4. CASE /\ Commit(next)
             /\ delivered' = IF event \in memory.consumed
                            THEN delivered ELSE Append(delivered, event)
    <3>1. memory' = next /\ disk' = next /\ UNCHANGED poisoned /\ MemoryIsDisk'
      BY <2>4 DEF Commit, MemoryIsDisk
    <3>2. CASE event \in memory.consumed
      <4>1. UNCHANGED delivered
        BY <2>4, <3>2
      <4> QED BY <2>1, <2>3, <3>1, <4>1 DEF DeliveredIsConsumed, DeliveredAtMostOnce, provider
    <3>3. CASE event \notin memory.consumed
      <4>1. delivered' = Append(delivered, event) /\ delivered' \in Seq(Nat)
        BY <2>2, <2>4, <3>3
      <4>2. \A i \in DOMAIN delivered : delivered[i] # event
        BY <3>3 DEF DeliveredIsConsumed
      <4>3. /\ DOMAIN delivered' = 1..Len(delivered) + 1
            /\ delivered'[Len(delivered) + 1] = event
            /\ \A i \in DOMAIN delivered : delivered'[i] = delivered[i]
            /\ DOMAIN delivered = 1..Len(delivered) /\ Len(delivered) \in Nat
        BY <2>2, <4>1, AppendKeeps
      <4>4. DeliveredAtMostOnce'
        BY <4>2, <4>3 DEF DeliveredAtMostOnce
      <4>5. DeliveredIsConsumed'
        BY <2>1, <3>1, <4>3 DEF DeliveredIsConsumed
      <4> QED BY <2>1, <2>3, <3>1, <4>1, <4>4, <4>5 DEF provider
    <3> QED BY <3>2, <3>3
  <2>5. CASE WriteFails(next) /\ UNCHANGED delivered
    <3>1. Update(next, Idle)
      BY <2>3, <2>5 DEF Update
    <3> QED BY <1>0, <2>1, <2>3, <2>5, <3>1, StoreStep
  <2> QED BY <1>3, <2>4, <2>5 DEF ConsumeEvent, next
<1> QED BY <1>1, <1>2, <1>3 DEF DataflowStep

(* Providers, crashes, reopening and time.                                 *)
LEMMA SurroundingsKeepStore ==
    ASSUME StoreInv, ProviderStep \/ Crash \/ Open \/ Tick
    PROVE  StoreInv'
<1> USE DEF StoreInv, StoreTypes
<1>0. Idle \in CallType /\ Down \in CallType
  BY DEF Idle, Down, CallType
<1>1. CASE ProviderStep
  <2>1. PICK q \in wire : Land(q) \/ Lose(q)
    BY <1>1 DEF ProviderStep
  <2> QED BY <2>1, StoreIdles DEF Land, Lose
<1>2. CASE Crash
  BY <1>0, <1>2, StoreIdles DEF Crash, provider
<1>3. CASE Open
  <2>1. WellFormed(Restored(disk)) /\ Restored(disk).consumed = disk.consumed
    BY RestoredKeeps
  <2>2. CASE /\ memory' = Restored(disk) /\ disk' = Restored(disk)
             /\ poisoned' = FALSE
             /\ call' = Idle
    BY <1>0, <1>3, <2>1, <2>2
       DEF Open, provider, DeliveredIsConsumed, DeliveredAtMostOnce, MemoryIsDisk
  <2>3. CASE disk' = Restored(disk) /\ UNCHANGED <<memory, poisoned, call>>
    BY <1>3, <2>1, <2>3
       DEF Open, provider, DeliveredIsConsumed, DeliveredAtMostOnce, MemoryIsDisk
  <2> QED BY <1>3, <2>2, <2>3 DEF Open
<1>4. CASE Tick
  BY <1>4, StoreIdles DEF Tick, provider
<1> QED BY <1>1, <1>2, <1>3, <1>4

-----------------------------------------------------------------------------
(* The invariant holds in every reachable state.                           *)
THEOREM StoreInvariant == Spec => []StoreInv
<1>1. Init => StoreInv
  <2> SUFFICES ASSUME Init PROVE StoreInv
    OBVIOUS
  <2>1. WellFormed(NewExecution) /\ Idle \in CallType
    BY NewExecutionWellFormed DEF Idle, CallType
  <2>2. StoreTypes
    <3>1. delivered \in Seq(Nat) /\ now \in Nat /\ crashes \in Nat
      BY DEF Init
    <3>2. wire \subseteq RequestType /\ landed \subseteq RequestType
      BY DEF Init
    <3> QED BY <2>1, <3>1, <3>2, Zenon DEF Init, StoreTypes
  <2>3. delivered = <<>> /\ DOMAIN delivered = {}
    BY DEF Init
  <2> QED BY <2>2, <2>3 DEF Init, StoreInv, DeliveredIsConsumed, DeliveredAtMostOnce, MemoryIsDisk
<1>2. StoreInv /\ [Next]_vars => StoreInv'
  <2> SUFFICES ASSUME StoreInv, [Next]_vars PROVE StoreInv'
    OBVIOUS
  <2>1. CASE UNCHANGED vars
    BY <2>1 DEF vars, store, provider, StoreInv, StoreTypes, DeliveredIsConsumed,
                DeliveredAtMostOnce, MemoryIsDisk
  <2> QED BY <2>1, InvokeKeepsStore, EffectKeepsStore, ApprovalKeepsStore, DataflowKeepsStore,
             SurroundingsKeepStore DEF Next
<1> QED BY <1>1, <1>2, PTL DEF Spec

(* The store only ever holds execution states of the declared shape, in    *)
(* memory and on disk, through failed writes and restarts.                 *)
THEOREM TypeCorrect == Spec => []TypeOK
<1>1. StoreInv => TypeOK
  BY DEF StoreInv, StoreTypes, WellFormed, TypeOK
<1> QED BY <1>1, StoreInvariant, PTL

(* No event is handed to a handler twice, whatever fails between its       *)
(* consumption and the hand-over.                                          *)
THEOREM DeliveryIsOnce == Spec => []DeliveredAtMostOnce
<1>1. StoreInv => DeliveredAtMostOnce
  BY DEF StoreInv
<1> QED BY <1>1, StoreInvariant, PTL

-----------------------------------------------------------------------------
(* The two facts the file keeps about the past: what is settled stays, and *)
(* a request it has let out found its effect and, if that effect needs an  *)
(* approval, a grant spent on this very request.                           *)
GrantedOn(x, q) ==
    /\ q.effect \in DOMAIN x.effects
    /\ x.effects[q.effect].approval =>
          \E a \in DOMAIN x.approvals : /\ x.approvals[a].effect = q.effect
                                        /\ x.approvals[a].state = "Consumed"
                                        /\ x.approvals[a].consumer = q.invocation

GrantInv == \A q \in wire \cup landed : GrantedOn(disk, q)

DiskEvolves ==
    /\ Evolves(disk, disk')
    /\ \A q \in wire' \cup landed' : q \in wire \cup landed \/ GrantedOn(disk', q)

(* A file that evolves still tells of the grants it told of.               *)
LEMMA GrantsOutlast ==
    ASSUME NEW x, NEW y, Evolves(x, y), NEW q, GrantedOn(x, q)
    PROVE  GrantedOn(y, q)
<1>1. /\ q.effect \in DOMAIN y.effects
      /\ y.effects[q.effect].approval = x.effects[q.effect].approval
  BY DEF Evolves, KeepsNeeds, GrantedOn
<1>2. ASSUME NEW a \in DOMAIN x.approvals, x.approvals[a].state = "Consumed"
      PROVE  a \in DOMAIN y.approvals /\ y.approvals[a] = x.approvals[a]
  BY <1>2 DEF Evolves, KeepsSettled, KeepsApprovals
<1> QED BY <1>1, <1>2 DEF GrantedOn

(* One committed or failed transition of a usable store.                   *)
LEMMA UpdateEvolves ==
    ASSUME StoreInv, call # Down, NEW next, Evolves(memory, next), NEW then, Update(next, then)
    PROVE  Evolves(disk, disk')
<1>1. ~poisoned /\ disk' \in {disk, next}
  BY DEF Update, Commit, WriteFails
<1>2. memory = disk
  BY <1>1 DEF StoreInv, MemoryIsDisk
<1>3. Evolves(disk, disk)
  BY EvolvesReflexive
<1> QED BY <1>1, <1>2, <1>3

(* A transition that lets nothing out.                                     *)
LEMMA QuietUpdate ==
    ASSUME StoreInv, call # Down, NEW next, Evolves(memory, next), NEW then, Update(next, then),
           UNCHANGED provider
    PROVE  DiskEvolves
<1>1. Evolves(disk, disk')
  BY UpdateEvolves
<1> QED BY <1>1 DEF DiskEvolves, provider

(* A step that does not write.                                             *)
LEMMA NoWrite ==
    ASSUME disk' = disk, wire' \cup landed' \subseteq wire \cup landed
    PROVE  DiskEvolves
<1>1. Evolves(disk, disk')
  BY EvolvesReflexive
<1> QED BY <1>1 DEF DiskEvolves

(* Plain invocations, approvals, values and events.                        *)
LEMMA QuietSteps ==
    ASSUME StoreInv, InvokeStep \/ ApprovalStep \/ DataflowStep
    PROVE  DiskEvolves
<1>0. WellFormed(memory) /\ now \in Nat /\ Idle # Down
  BY DEF StoreInv, StoreTypes, Idle, Down
<1>1. ASSUME NEW op \in Operations, InvokeBegin(op) PROVE DiskEvolves
  <2>1. Evolves(memory, Begin(memory, op, None, None))
    BY <1>0, BeginEvolves DEF None
  <2>2. PICK then : Update(Begin(memory, op, None, None), then)
    BY <1>1 DEF InvokeBegin
  <2>3. call # Down /\ UNCHANGED provider
    BY <1>0, <1>1 DEF InvokeBegin
  <2> QED BY <2>1, <2>2, <2>3, QuietUpdate
<1>2. ASSUME NEW succeeded \in BOOLEAN, InvokeReturn(succeeded) PROVE DiskEvolves
  <2>1. /\ call.at = "invoking" /\ UNCHANGED provider
        /\ CanTerminate(memory, call.invocation, memory.generation)
        /\ Update(FinishResult(memory, call.invocation, succeeded), Idle)
    BY <1>2 DEF InvokeReturn
  <2>2. Evolves(memory, FinishResult(memory, call.invocation, succeeded))
    BY <1>0, <2>1, FinishResultEvolves DEF CanTerminate
  <2>3. call # Down
    BY <2>1 DEF Down
  <2> QED BY <2>1, <2>2, <2>3, QuietUpdate
<1>3. ASSUME NEW e \in DOMAIN memory.effects, NEW parameters \in Contents,
             RequestAnswer(e, parameters)
      PROVE  DiskEvolves
  <2>1. Ttl \in Nat
    BY TtlAssumption, MaxTtlAssumption
  <2>2. Evolves(memory, RequestApproval(memory, e, now, Ttl))
    BY <1>0, <2>1, RequestApprovalEvolves
  <2>3. PICK then : Update(RequestApproval(memory, e, now, Ttl), then)
    BY <1>3 DEF RequestAnswer
  <2>4. call # Down /\ UNCHANGED provider
    BY <1>0, <1>3 DEF RequestAnswer
  <2> QED BY <2>2, <2>3, <2>4, QuietUpdate
<1>4. ASSUME NEW echo, NEW granted \in BOOLEAN, Answer(echo, granted) PROVE DiskEvolves
  <2>1. /\ call.at = "asking" /\ UNCHANGED provider
        /\ CanDecide(memory, call.approval, echo, now)
        /\ Update(Decide(memory, call.approval, granted), Idle)
    BY <1>4 DEF Answer
  <2>2. Evolves(memory, Decide(memory, call.approval, granted))
    BY <1>0, <2>1, DecideEvolves DEF CanDecide
  <2>3. call # Down
    BY <2>1 DEF Down
  <2> QED BY <2>1, <2>2, <2>3, QuietUpdate
<1>5. ASSUME NEW echo, AnswerRefused(echo) PROVE DiskEvolves
  BY <1>5, NoWrite DEF AnswerRefused, store, provider
<1>6. ASSUME NEW n \in Names, NEW p \in Payloads, AssignValue(n, p) PROVE DiskEvolves
  <2>1. Evolves(memory, Assign(memory, n, p))
    BY <1>0, AssignEvolves
  <2>2. call # Down /\ UNCHANGED provider /\ Update(Assign(memory, n, p), Idle)
    BY <1>0, <1>6 DEF AssignValue
  <2> QED BY <2>1, <2>2, QuietUpdate
<1>7. ASSUME NEW t, NEW p, NEW cause, PublishEvent(t, p, cause) PROVE DiskEvolves
  <2>1. Evolves(memory, Publish(memory, t, p, cause))
    BY <1>0, PublishEvolves
  <2>2. call # Down /\ UNCHANGED provider /\ Update(Publish(memory, t, p, cause), Idle)
    BY <1>0, <1>7 DEF PublishEvent
  <2> QED BY <2>1, <2>2, QuietUpdate
<1>8. ASSUME NEW event, ConsumeEvent(event) PROVE DiskEvolves
  <2>1. Evolves(memory, Consume(memory, event))
    BY <1>0, ConsumeEvolves
  <2>2. call = Idle /\ call' = call /\ UNCHANGED provider
    BY <1>8 DEF ConsumeEvent
  <2>3. Update(Consume(memory, event), Idle)
    BY <1>8, <2>2 DEF ConsumeEvent, Update
  <2> QED BY <1>0, <2>1, <2>2, <2>3, QuietUpdate
<1> QED BY <1>1, <1>2, <1>3, <1>4, <1>5, <1>6, <1>7, <1>8 DEF InvokeStep, ApprovalStep, DataflowStep

(* Effects; the dispatch is the one step that lets a request out.          *)
LEMMA EffectSteps == ASSUME StoreInv, EffectStep PROVE DiskEvolves
<1>0. WellFormed(memory) /\ call \in CallType /\ Idle # Down
  BY DEF StoreInv, StoreTypes, Idle, Down
<1>1. ASSUME NEW r \in Requests, ReserveNew(r) PROVE DiskEvolves
  <2>1. Evolves(memory, Reserve(memory, r))
    BY <1>0, ReserveEvolves
  <2>2. PICK then : Update(Reserve(memory, r), then)
    BY <1>1 DEF ReserveNew
  <2>3. call # Down /\ UNCHANGED provider
    BY <1>0, <1>1 DEF ReserveNew
  <2> QED BY <2>1, <2>2, <2>3, QuietUpdate
<1>2. ASSUME NEW r, NEW e, ReserveAgain(r, e) \/ ReuseResult(r, e) PROVE DiskEvolves
  <2>1. PICK then : Update(memory, then)
    BY <1>2 DEF ReserveAgain, ReuseResult
  <2>2. call # Down /\ UNCHANGED provider
    BY <1>0, <1>2 DEF ReserveAgain, ReuseResult
  <2> QED BY <2>1, <2>2, EvolvesReflexive, QuietUpdate
<1>3. ASSUME NEW a \in {None} \cup DOMAIN memory.approvals, Dispatch(a) PROVE DiskEvolves
  <2> DEFINE e == call.effect
             i == NewInvocation(memory)
             begun == Begin(memory, memory.effects[e].operation, None, None)
             next == Start(begun, e, i, a)
  <2>1. CanStart(begun, e, i, a, now) /\ call.at = "reserved" /\ UNCHANGED landed
    BY <1>3 DEF Dispatch
  <2>2. i \in Nat /\ e \in Nat /\ call # Down
    BY <1>0, <2>1 DEF NewInvocation, WellFormed, ExecutionType, CallType, Down
  <2>3. e \in DOMAIN memory.effects /\ memory.effects[e].operation \in Operations
    <3>1. begun.effects = memory.effects
      BY <1>0 DEF Begin, WellFormed, ExecutionType
    <3> HIDE DEF begun
    <3>2. e \in DOMAIN begun.effects
      BY <2>1 DEF CanStart
    <3>3. memory.effects \in Seq(EffectType)
      BY <1>0 DEF WellFormed, ExecutionType
    <3> HIDE DEF e
    <3>4. memory.effects[e] \in EffectType
      BY <3>1, <3>2, <3>3
    <3> QED BY <3>1, <3>2, <3>4 DEF EffectType
  <2>4. WellFormed(begun) /\ Evolves(memory, begun)
    <3>1. None \in Nat
      BY DEF None
    <3> QED BY <1>0, <2>3, <3>1, BeginKeeps, BeginEvolves, Zenon
  <2> HIDE DEF begun
  <2>5. /\ Evolves(begun, next)
        /\ e \in DOMAIN next.effects
        /\ begun.effects[e].approval =>
              /\ a \in DOMAIN next.approvals
              /\ next.approvals[a].effect = e
              /\ next.approvals[a].state = "Consumed"
              /\ next.approvals[a].consumer = i
    <3> HIDE DEF e, i
    <3>1. /\ Evolves(begun, Start(begun, e, i, a))
          /\ e \in DOMAIN Start(begun, e, i, a).effects
          /\ begun.effects[e].approval => SpentFor(Start(begun, e, i, a), e, i, a)
      BY <2>1, <2>2, <2>4, StartEvolves
    <3> QED BY <3>1 DEF SpentFor
  <2>6. next.effects[e].approval = begun.effects[e].approval
    <3>1. e \in DOMAIN begun.effects
      BY <2>1 DEF CanStart
    <3> HIDE DEF e, next
    <3> QED BY <2>5, <3>1 DEF Evolves, KeepsNeeds
  <2> HIDE DEF next, i, e
  <2>7. Evolves(memory, next)
    BY <2>4, <2>5, EvolvesTransitive
  <2>8. GrantedOn(next, Request(i, e))
    BY <2>5, <2>6 DEF GrantedOn, Request
  <2>9. CASE /\ Commit(next)
             /\ call' = [at |-> "calling", effect |-> e, invocation |-> i]
             /\ wire' = wire \cup {Request(i, e)}
    <3>1. Evolves(disk, disk')
      BY <2>2, <2>7, <2>9, UpdateEvolves DEF Update
    <3>2. disk' = next
      BY <2>9 DEF Commit
    <3>3. wire' \cup landed' \subseteq (wire \cup landed) \cup {Request(i, e)}
      BY <2>1, <2>9
    <3> QED BY <2>8, <3>1, <3>2, <3>3, Zenon DEF DiskEvolves
  <2>10. CASE Update(next, Idle) /\ UNCHANGED wire
    BY <2>1, <2>2, <2>7, <2>10, QuietUpdate DEF provider
  <2> QED BY <1>3, <2>9, <2>10 DEF Dispatch, next, begun, e, i
<1>4. CASE DispatchRefused \/ Abandon
  BY <1>4, NoWrite DEF DispatchRefused, Abandon, store, provider
<1>5. ASSUME NEW succeeded \in BOOLEAN, CallReturn(succeeded) PROVE DiskEvolves
  <2>1. /\ call.at = "calling" /\ UNCHANGED provider
        /\ CanFinishEffect(memory, call.effect, call.invocation)
        /\ Update(FinishEffect(memory, call.effect, call.invocation, succeeded), Idle)
    BY <1>5 DEF CallReturn
  <2>2. Evolves(memory, FinishEffect(memory, call.effect, call.invocation, succeeded))
    BY <1>0, <2>1, FinishEffectEvolves
  <2>3. call # Down
    BY <2>1 DEF Down
  <2> QED BY <2>1, <2>2, <2>3, QuietUpdate
<1>6. ASSUME NEW e \in DOMAIN memory.effects, ReconcileEffect(e) PROVE DiskEvolves
  <2>1. PICK evidence \in Evidence(e) : Update(Reconcile(memory, e, evidence), Idle)
    BY <1>6 DEF ReconcileEffect
  <2>2. CanReconcile(memory, e) /\ call # Down /\ UNCHANGED provider
    BY <1>0, <1>6 DEF ReconcileEffect
  <2>3. Evolves(memory, Reconcile(memory, e, evidence))
    BY <1>0, <2>2, ReconcileEvolves
  <2> QED BY <2>1, <2>2, <2>3, QuietUpdate
<1> QED BY <1>1, <1>2, <1>3, <1>4, <1>5, <1>6 DEF EffectStep

(* Every step of the system, the surroundings included.                    *)
LEMMA StepsEvolve == ASSUME StoreInv, [Next]_vars PROVE DiskEvolves
<1>1. CASE ProviderStep
  BY <1>1, NoWrite DEF ProviderStep, Land, Lose, store
<1>2. CASE Crash \/ Tick
  BY <1>2, NoWrite DEF Crash, Tick, store, provider
<1>3. CASE Open
  <2>1. disk' = Restored(disk) /\ UNCHANGED provider
    BY <1>3 DEF Open
  <2>2. Evolves(disk, Restored(disk))
    BY RestoredEvolves DEF StoreInv, StoreTypes
  <2> QED BY <2>1, <2>2 DEF DiskEvolves, provider
<1>4. CASE UNCHANGED vars
  BY <1>4, NoWrite DEF vars, store, provider
<1> QED BY <1>1, <1>2, <1>3, <1>4, QuietSteps, EffectSteps DEF Next

(* What the file has settled, no call, failed write or restart unsettles.  *)
THEOREM SettledForGood == Spec => SettledStaysSettled
<1>1. StoreInv /\ [Next]_vars => [KeepsSettled(disk, disk')]_vars
  BY StepsEvolve DEF DiskEvolves, Evolves
<1> QED BY <1>1, StoreInvariant, PTL DEF Spec, SettledStaysSettled

(* No human answer releases two requests: each request that left for an    *)
(* approval-bound effect has an approval of its own, spent on disk.        *)
THEOREM GrantsAreSpentOnce == Spec => []EachRequestSpentAGrant
<1>1. Init => GrantInv
  BY DEF Init, GrantInv
<1>2. StoreInv /\ GrantInv /\ [Next]_vars => GrantInv'
  <2> SUFFICES ASSUME StoreInv, GrantInv, [Next]_vars, NEW q \in wire' \cup landed'
               PROVE  GrantedOn(disk', q)
    BY DEF GrantInv
  <2>1. DiskEvolves
    BY StepsEvolve
  <2>2. CASE q \in wire \cup landed
    BY <2>1, <2>2, GrantsOutlast DEF DiskEvolves, GrantInv
  <2> QED BY <2>1, <2>2 DEF DiskEvolves
<1>3. GrantInv => EachRequestSpentAGrant
  BY DEF GrantInv, GrantedOn, EachRequestSpentAGrant
<1> QED BY <1>1, <1>2, <1>3, StoreInvariant, PTL DEF Spec
=============================================================================
