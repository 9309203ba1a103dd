--------------------------- MODULE ExecutionProofs ---------------------------
(***************************************************************************)
(* What the methods of ExecutionState guarantee to the devices that hold   *)
(* invocation identities, for every set of operations, names and topics    *)
(* and every number of generations and records.                            *)
(***************************************************************************)
EXTENDS Execution, EffectProofs

(* Execution moves no effects, so none is in flight when one of its        *)
(* invocations ends.                                                       *)
ExecutionInv == Restorable(execution) /\ execution.effects = <<>>

-----------------------------------------------------------------------------
(* What a step does to the records and the events that were there before.  *)
(* Only a pending record of the current generation changes, and only its   *)
(* status; no event changes; events of this generation alone are consumed. *)
Progresses(x, y) ==
    /\ \A i \in DOMAIN x.records :
          /\ i \in DOMAIN y.records
          /\ y.records[i].operation = x.records[i].operation
          /\ y.records[i].generation = x.records[i].generation
          /\ y.records[i].attempt = x.records[i].attempt
          /\ \/ x.records[i].status # "Pending"
             \/ x.records[i].generation # x.generation
             => y.records[i] = x.records[i]
    /\ \A e \in DOMAIN x.events : /\ e \in DOMAIN y.events
                                  /\ y.events[e] = x.events[e]
    /\ \A e \in DOMAIN x.events :
          x.events[e].generation # x.generation => (e \in y.consumed <=> e \in x.consumed)

(* An event is added and nothing else happens to the past.                 *)
LEMMA EmittedProgresses ==
    ASSUME NEW x, WellFormed(x), NEW y, NEW event \in EventType,
           y.events = Append(x.events, event), y.records = x.records, y.consumed = x.consumed
    PROVE  Progresses(x, y)
<1>1. x.events \in Seq(EventType)
  BY DEF WellFormed, ExecutionType
<1>2. \A e \in DOMAIN x.events : e \in DOMAIN y.events /\ y.events[e] = x.events[e]
  <2>1. /\ DOMAIN Append(x.events, event) = 1..Len(x.events) + 1
        /\ \A e \in DOMAIN x.events : Append(x.events, event)[e] = x.events[e]
        /\ DOMAIN x.events = 1..Len(x.events) /\ Len(x.events) \in Nat
    BY <1>1, AppendKeeps
  <2> QED BY <2>1
<1> QED BY <1>2 DEF Progresses

(* A new invocation leaves the old ones alone.                             *)
LEMMA BeginProgresses ==
    ASSUME NEW x, WellFormed(x), NEW operation \in Operations,
           NEW parent \in Nat, NEW cause \in Nat
    PROVE  Progresses(x, Begin(x, operation, parent, cause))
<1> DEFINE y == Begin(x, operation, parent, cause)
<1>1. y \in ExecutionType /\ y.consumed = x.consumed
  BY BeginKeeps DEF WellFormed
<1>2. PICK r : y.records = Append(x.records, r)
  BY DEF Begin, WellFormed, ExecutionType
<1>3. y.events = x.events
  BY DEF Begin, WellFormed, ExecutionType
<1>4. x.records \in Seq(RecordType) /\ y.records \in Seq(RecordType)
  BY <1>1 DEF WellFormed, ExecutionType
<1> HIDE DEF y
<1>5. \A i \in DOMAIN x.records : i \in DOMAIN y.records /\ y.records[i] = x.records[i]
  BY <1>2, <1>4
<1>6. Progresses(x, y)
  BY <1>1, <1>3, <1>5 DEF Progresses
<1> QED BY <1>6 DEF y

(* The end of a pending invocation of this generation.                     *)
LEMMA TerminateProgresses ==
    ASSUME NEW x, WellFormed(x), NEW i \in DOMAIN x.records, NEW status \in Terminal,
           x.records[i].status = "Pending", x.records[i].generation = x.generation
    PROVE  Progresses(x, Terminate(x, i, status))
<1> DEFINE event == Terminated(x, i, status, x.records[i].cause)
           r == [x.records[i] EXCEPT !.status = status]
           y == Terminate(x, i, status)
<1>1. y.consumed = x.consumed
  BY TerminateKeeps
<1>2. /\ y.events = Append(x.events, event)
      /\ y.records = [x.records EXCEPT ![i] = r]
      /\ x.events \in Seq(EventType) /\ x.records[i] \in RecordType
      /\ x.generation \in Nat /\ i \in Nat
  BY DEF Terminate, Emit, WellFormed, ExecutionType
<1>3. event \in EventType
  BY <1>2 DEF Terminated, EventType, RecordType
<1>4. /\ r.operation = x.records[i].operation /\ r.generation = x.records[i].generation
      /\ r.attempt = x.records[i].attempt
  BY <1>2 DEF RecordType
<1> HIDE DEF event, r, y
<1>5. \A e \in DOMAIN x.events : e \in DOMAIN y.events /\ y.events[e] = x.events[e]
  <2>1. /\ DOMAIN Append(x.events, event) = 1..Len(x.events) + 1
        /\ \A e \in DOMAIN x.events : Append(x.events, event)[e] = x.events[e]
        /\ DOMAIN x.events = 1..Len(x.events) /\ Len(x.events) \in Nat
    BY <1>2, <1>3, AppendKeeps
  <2> QED BY <2>1, <1>2
<1>6. /\ DOMAIN y.records = DOMAIN x.records /\ y.records[i] = r
      /\ \A j \in DOMAIN x.records : j # i => y.records[j] = x.records[j]
  BY <1>2
<1>7. Progresses(x, y)
  BY <1>1, <1>4, <1>5, <1>6 DEF Progresses
<1> QED BY <1>7 DEF y

-----------------------------------------------------------------------------
(* Every step keeps the invariant and leaves the past as it was.           *)
LEMMA InvocationSteps ==
    ASSUME ExecutionInv, InvocationStep
    PROVE  ExecutionInv' /\ Progresses(execution, execution')
<1>0. /\ WellFormed(execution) /\ Restorable(execution) /\ execution.effects = <<>>
      /\ execution \in ExecutionType /\ DOMAIN execution.records \subseteq Nat
      /\ DOMAIN execution.events \subseteq Nat
  BY DEF ExecutionInv, Restorable, WellFormed, ExecutionType
<1>1. ASSUME NEW op \in Operations, NEW parent \in {None} \cup DOMAIN execution.records,
             NEW cause \in {None} \cup DOMAIN execution.events, BeginCaused(op, parent, cause)
      PROVE  ExecutionInv' /\ Progresses(execution, execution')
  <2>1. parent \in Nat /\ cause \in Nat
    BY <1>0 DEF None
  <2>2. CanBegin(execution, op, parent, cause) /\ execution' = Begin(execution, op, parent, cause)
    BY <1>1 DEF BeginCaused
  <2> QED BY <1>0, <2>1, <2>2, BeginRestorable, BeginKeeps, BeginProgresses DEF ExecutionInv
<1>2. ASSUME NEW i \in DOMAIN execution.records, NEW claimed, NEW status \in Terminal,
             CanTerminate(execution, i, claimed), execution' = Terminate(execution, i, status)
      PROVE  ExecutionInv' /\ Progresses(execution, execution')
  <2>1. execution.records[i].status = "Pending" /\ execution.records[i].generation = execution.generation
    BY <1>2 DEF CanTerminate
  <2>2. \A e \in DOMAIN execution.effects :
           execution.effects[e].invocation = i => execution.effects[e].state # "Started"
    BY <1>0
  <2>3. Restorable(Terminate(execution, i, status))
    BY <1>0, <2>1, <2>2, TerminateRestorable
  <2>4. Terminate(execution, i, status).effects = <<>>
    BY <1>0, TerminateKeeps
  <2>5. Progresses(execution, Terminate(execution, i, status))
    BY <1>0, <2>1, TerminateProgresses
  <2> QED BY <1>2, <2>3, <2>4, <2>5 DEF ExecutionInv
<1>3. ASSUME NEW i \in DOMAIN execution.records, NEW claimed, NEW succeeded \in BOOLEAN,
             FinishInvocation(i, claimed, succeeded)
      PROVE  ExecutionInv' /\ Progresses(execution, execution')
  <2>1. (IF succeeded THEN "Completed" ELSE "Failed") \in Terminal
    BY DEF Terminal
  <2> QED BY <1>2, <1>3, <2>1 DEF FinishInvocation, FinishResult
<1>4. ASSUME NEW i \in DOMAIN execution.records, NEW claimed, CancelInvocation(i, claimed)
      PROVE  ExecutionInv' /\ Progresses(execution, execution')
  <2>1. "Cancelled" \in Terminal
    BY DEF Terminal
  <2> QED BY <1>2, <1>4, <2>1 DEF CancelInvocation, Cancel
<1>5. ASSUME NewGeneration PROVE ExecutionInv' /\ Progresses(execution, execution')
  <2>1. Restorable(AdvanceGeneration(execution))
    BY <1>0, AdvanceRestorable
  <2>2. /\ execution' = AdvanceGeneration(execution)
        /\ execution'.effects = execution.effects /\ execution'.records = execution.records
        /\ execution'.events = execution.events /\ execution'.consumed = execution.consumed
    BY <1>0, <1>5 DEF NewGeneration, AdvanceGeneration, ExecutionType
  <2> QED BY <1>0, <2>1, <2>2 DEF ExecutionInv, Progresses
<1> QED BY <1>1, <1>3, <1>4, <1>5 DEF InvocationStep

LEMMA DataflowSteps ==
    ASSUME ExecutionInv, DataflowStep
    PROVE  ExecutionInv' /\ Progresses(execution, execution')
<1>0. /\ WellFormed(execution) /\ Restorable(execution) /\ execution.effects = <<>>
      /\ execution \in ExecutionType /\ DOMAIN execution.events \subseteq Nat
  BY DEF ExecutionInv, Restorable, WellFormed, ExecutionType
<1>1. ASSUME NEW n \in Names, NEW p \in Payloads, AssignValue(n, p)
      PROVE  ExecutionInv' /\ Progresses(execution, execution')
  <2> DEFINE y == Assign(execution, n, p)
             event == Changed(execution, n, NextRevision(execution, n), p)
  <2>1. execution' = y /\ Restorable(y) /\ y.consumed = execution.consumed
    BY <1>0, <1>1, AssignRestorable, AssignKeeps DEF AssignValue
  <2>2. CASE SameValue(execution, n, p)
    BY <1>0, <2>1, <2>2 DEF Assign, ExecutionInv, Progresses
  <2>3. CASE ~SameValue(execution, n, p)
    <3>1. /\ y.effects = <<>> /\ y.records = execution.records
          /\ y.events = Append(execution.events, event)
      BY <1>0, <2>3 DEF Assign, Emit, ExecutionType
    <3>2. event \in EventType
      <4>1. execution.values[n] \in ValueType /\ execution.generation \in Nat
        BY <1>0 DEF ExecutionType
      <4>2. NextRevision(execution, n) \in Nat
        BY <4>1 DEF NextRevision, ValueType
      <4> QED BY <4>1, <4>2 DEF Changed, EventType, None
    <3> HIDE DEF y, event
    <3> QED BY <1>0, <2>1, <3>1, <3>2, EmittedProgresses DEF ExecutionInv
  <2> QED BY <2>2, <2>3
<1>2. ASSUME NEW t \in Topics, NEW p \in Payloads,
             NEW cause \in {None} \cup DOMAIN execution.events, PublishEvent(t, p, cause)
      PROVE  ExecutionInv' /\ Progresses(execution, execution')
  <2> DEFINE y == Publish(execution, t, p, cause)
             event == External(execution, t, p, cause)
  <2>1. cause \in Nat
    BY <1>0 DEF None
  <2>2. execution' = y /\ CanPublish(execution, cause)
    BY <1>2 DEF PublishEvent
  <2>3. Restorable(y) /\ y.consumed = execution.consumed
    BY <1>0, <2>1, <2>2, PublishRestorable, PublishKeeps
  <2>4. /\ y.effects = <<>> /\ y.records = execution.records
        /\ y.events = Append(execution.events, event)
    BY <1>0 DEF Publish, Emit, ExecutionType
  <2>5. event \in EventType
    BY <1>0, <2>1 DEF External, EventType, ExecutionType
  <2> HIDE DEF y, event
  <2> QED BY <1>0, <2>2, <2>3, <2>4, <2>5, EmittedProgresses DEF ExecutionInv
<1>3. ASSUME NEW e \in DOMAIN execution.events, ConsumeEvent(e)
      PROVE  ExecutionInv' /\ Progresses(execution, execution')
  <2> DEFINE y == Consume(execution, e)
  <2>1. execution' = y /\ execution.events[e].generation = execution.generation
    BY <1>3 DEF ConsumeEvent, CanConsume
  <2>2. Restorable(y) /\ y.consumed = execution.consumed \cup {e}
    BY <1>0, ConsumeRestorable, ConsumeKeeps
  <2>3. y.effects = <<>> /\ y.records = execution.records /\ y.events = execution.events
    BY <1>0 DEF Consume, ExecutionType
  <2> HIDE DEF y
  <2> QED BY <2>1, <2>2, <2>3 DEF ExecutionInv, Progresses
<1> QED BY <1>1, <1>2, <1>3 DEF DataflowStep

(* The invariant holds in every reachable state.                           *)
THEOREM ExecutionInvariant == Spec => []ExecutionInv
<1>1. Init => ExecutionInv
  BY NewExecutionRestorable DEF Init, ExecutionInv, NewExecution
<1>2. ExecutionInv /\ [Next]_execution => ExecutionInv'
  BY InvocationSteps, DataflowSteps DEF Next, ExecutionInv
<1> QED BY <1>1, <1>2, PTL DEF Spec

-----------------------------------------------------------------------------
(* No legal sequence of calls writes a checkpoint that restore() refuses:  *)
(* identities, attempts, parents, causes, revisions, values, terminations  *)
(* and consumed events all pass its checks.                                *)
THEOREM EveryStateRestores == Spec => []RestoreAccepts
<1>1. ExecutionInv => RestoreAccepts
  BY DEF ExecutionInv, Restorable, RestoreAccepts
<1> QED BY <1>1, ExecutionInvariant, PTL

(* A pending attempt is the newest of its operation and generation.        *)
THEOREM AttemptsAreSerial == Spec => []SerialAttempts
<1>1. ExecutionInv => SerialAttempts
  BY DEF ExecutionInv, Restorable, PendingIsNewest, SerialAttempts
<1> QED BY <1>1, ExecutionInvariant, PTL

(* Two ready sets of results for the same branches hold, for each branch,  *)
(* an attempt that no other supersedes: the same one.                      *)
THEOREM BarriersAreUnique == Spec => []BarrierUnique
<1>1. ASSUME ExecutionInv, NEW required \in SUBSET Operations,
             NEW r \in SUBSET DOMAIN execution.records,
             NEW s \in SUBSET DOMAIN execution.records,
             BarrierReady(execution, required, r), BarrierReady(execution, required, s)
      PROVE  r \subseteq s
  <2>1. SUFFICES ASSUME NEW i \in r PROVE i \in s
    OBVIOUS
  <2>2. /\ i \in DOMAIN execution.records
        /\ execution.records[i].generation = execution.generation
        /\ execution.records[i].operation \in required
        /\ ~Superseded(execution, i)
    BY <1>1 DEF BarrierReady, BarrierAccepts
  <2>3. PICK j \in s : execution.records[j].operation = execution.records[i].operation
    BY <1>1, <2>2 DEF BarrierReady
  <2>4. /\ j \in DOMAIN execution.records
        /\ execution.records[j].generation = execution.generation
        /\ ~Superseded(execution, j)
    BY <1>1 DEF BarrierReady, BarrierAccepts
  <2>5. /\ execution.records[i].attempt \in Nat /\ execution.records[j].attempt \in Nat
        /\ DistinctAttempts(execution)
    <3>1. /\ execution.records \in Seq(RecordType) /\ DistinctAttempts(execution)
      BY <1>1 DEF ExecutionInv, Restorable, WellFormed, ExecutionType, Valid, ValidRecords
    <3>2. execution.records[i] \in RecordType /\ execution.records[j] \in RecordType
      BY <2>2, <2>4, <3>1
    <3> QED BY <3>1, <3>2 DEF RecordType
  <2>6. execution.records[i].attempt = execution.records[j].attempt
    BY <2>2, <2>3, <2>4, <2>5 DEF Superseded, Attempts
  <2> QED BY <2>2, <2>3, <2>4, <2>5, <2>6 DEF DistinctAttempts
<1>2. ExecutionInv => BarrierUnique
  <2>1. SUFFICES ASSUME ExecutionInv, NEW required \in SUBSET Operations,
                        NEW r \in SUBSET DOMAIN execution.records,
                        NEW s \in SUBSET DOMAIN execution.records,
                        BarrierReady(execution, required, r), BarrierReady(execution, required, s)
                 PROVE  r = s
    BY DEF BarrierUnique
  <2>2. r \subseteq s /\ s \subseteq r
    BY <1>1, <2>1
  <2> QED BY <2>2
<1> QED BY <1>2, ExecutionInvariant, PTL

(* Results of an earlier generation, results that come twice and the       *)
(* consumption of old events change nothing.                               *)
THEOREM LateResultsChangeNothing == Spec => LateResultsAreInert
<1>1. ExecutionInv /\ [Next]_execution =>
         [/\ \A i \in DOMAIN execution.records :
                \/ execution.records[i].generation < execution.generation
                \/ execution.records[i].status # "Pending"
                => execution'.records[i] = execution.records[i]
          /\ \A e \in DOMAIN execution.events :
                /\ execution'.events[e] = execution.events[e]
                /\ execution.events[e].generation < execution.generation =>
                      (e \in execution'.consumed <=> e \in execution.consumed)]_execution
  <2>1. SUFFICES ASSUME ExecutionInv, Next
                 PROVE  /\ \A i \in DOMAIN execution.records :
                              \/ execution.records[i].generation < execution.generation
                              \/ execution.records[i].status # "Pending"
                              => execution'.records[i] = execution.records[i]
                        /\ \A e \in DOMAIN execution.events :
                              /\ execution'.events[e] = execution.events[e]
                              /\ execution.events[e].generation < execution.generation =>
                                    (e \in execution'.consumed <=> e \in execution.consumed)
    OBVIOUS
  <2>2. Progresses(execution, execution')
    BY <2>1, InvocationSteps, DataflowSteps DEF Next
  <2>3. execution.generation \in Nat
    BY <2>1 DEF ExecutionInv, Restorable, WellFormed, ExecutionType
  <2> QED BY <2>2, <2>3 DEF Progresses
<1> QED BY <1>1, ExecutionInvariant, PTL DEF Spec, LateResultsAreInert

(* A ready barrier is withdrawn by nothing but a newer attempt of one of   *)
(* its branches or a new generation.                                       *)
THEOREM BarriersAreStable == Spec => BarrierStable
<1>1. ASSUME ExecutionInv, Next, NEW required \in SUBSET Operations,
             NEW results \in SUBSET DOMAIN execution.records,
             BarrierReady(execution, required, results),
             execution'.generation = execution.generation,
             \A op \in required : Attempts(execution', op) = Attempts(execution, op)
      PROVE  BarrierReady(execution', required, results)
  <2> DEFINE x == execution
             y == execution'
  <2>1. Progresses(x, y)
    BY <1>1, InvocationSteps, DataflowSteps DEF Next
  <2>2. \A i \in results :
           /\ i \in DOMAIN x.records
           /\ x.records[i].generation = x.generation
           /\ x.records[i].operation \in required
           /\ ~Superseded(x, i)
           /\ \A j \in results : x.records[j].operation = x.records[i].operation => j = i
    BY <1>1 DEF BarrierReady, BarrierAccepts
  <2>3. \A i \in DOMAIN x.records :
           /\ i \in DOMAIN y.records
           /\ y.records[i].operation = x.records[i].operation
           /\ y.records[i].generation = x.records[i].generation
           /\ y.records[i].attempt = x.records[i].attempt
           /\ x.records[i].status = "Completed" => y.records[i].status = "Completed"
    BY <2>1 DEF Progresses
  <2>4. \A op : Attempts(x, op) \subseteq DOMAIN x.records
    BY DEF Attempts
  <2>5. required # {} /\ \A op \in required :
           \E i \in results : x.records[i].operation = op /\ x.records[i].status = "Completed"
    BY <1>1 DEF BarrierReady, BarrierAccepts
  <2>6. /\ y.generation = x.generation
        /\ \A op \in required : Attempts(y, op) = Attempts(x, op)
    BY <1>1
  <2> HIDE DEF x, y
  <2>7. \A i \in results : ~Superseded(y, i)
    BY <2>2, <2>3, <2>4, <2>6 DEF Superseded
  <2>8. BarrierAccepts(y, required, results)
    BY <2>2, <2>3, <2>5, <2>6, <2>7 DEF BarrierAccepts
  <2>9. BarrierReady(y, required, results)
    BY <2>2, <2>3, <2>5, <2>8 DEF BarrierReady
  <2> QED BY <2>9 DEF y
<1>2. ExecutionInv /\ [Next]_execution =>
         [\A required \in SUBSET Operations :
             \A results \in SUBSET DOMAIN execution.records :
                /\ BarrierReady(execution, required, results)
                /\ execution'.generation = execution.generation
                /\ \A op \in required : Attempts(execution', op) = Attempts(execution, op)
                => BarrierReady(execution', required, results)]_execution
  BY <1>1
<1> QED BY <1>2, ExecutionInvariant, PTL DEF Spec, BarrierStable
=============================================================================
