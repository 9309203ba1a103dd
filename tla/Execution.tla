----------------------------- MODULE Execution ------------------------------
(***************************************************************************)
(* The in-memory execution state of one run and the methods of             *)
(* ExecutionState that create and end invocations, revise the run, and     *)
(* move values and events (execution.rs, dataflow.rs).  A method whose     *)
(* guard fails returns an error and leaves the state alone, so only the    *)
(* accepted calls are steps.  Devices keep invocation identities for as    *)
(* long as they like: results may arrive late, twice, or after a newer     *)
(* generation.  Effects and approvals move in RunStore, which persists     *)
(* every step.                                                             *)
(***************************************************************************)
EXTENDS Effect

CONSTANTS MaxGeneration, MaxHistory   \* bounds: generations, records and events together

ASSUME BoundsAssumption == {MaxGeneration, MaxHistory} \subseteq Nat

VARIABLE execution   \* the ExecutionState

Init == execution = NewExecution

HasRoom == Len(execution.records) + Len(execution.events) < MaxHistory

-----------------------------------------------------------------------------
(* Invocations.  An envelope carries the generation it claims; a forged    *)
(* claim is refused by CanTerminate.                                       *)

BeginCaused(op, parent, cause) ==
    /\ HasRoom
    /\ CanBegin(execution, op, parent, cause)
    /\ execution' = Begin(execution, op, parent, cause)

FinishInvocation(invocation, claimed, succeeded) ==
    /\ CanTerminate(execution, invocation, claimed)
    /\ execution' = FinishResult(execution, invocation, succeeded)

CancelInvocation(invocation, claimed) ==
    /\ CanTerminate(execution, invocation, claimed)
    /\ execution' = Cancel(execution, invocation)

NewGeneration ==
    /\ execution.generation < MaxGeneration
    /\ execution' = AdvanceGeneration(execution)

-----------------------------------------------------------------------------
(* Values and events.                                                      *)

AssignValue(name, payload) ==
    /\ HasRoom
    /\ execution' = Assign(execution, name, payload)

PublishEvent(topic, payload, cause) ==
    /\ HasRoom
    /\ CanPublish(execution, cause)
    /\ execution' = Publish(execution, topic, payload, cause)

ConsumeEvent(event) ==
    /\ CanConsume(execution, event)
    /\ execution' = Consume(execution, event)

-----------------------------------------------------------------------------
InvocationStep ==
    \/ \E op \in Operations, parent \in {None} \cup DOMAIN execution.records,
          cause \in {None} \cup DOMAIN execution.events : BeginCaused(op, parent, cause)
    \/ \E i \in DOMAIN execution.records, claimed \in 0..MaxGeneration :
          \/ \E succeeded \in BOOLEAN : FinishInvocation(i, claimed, succeeded)
          \/ CancelInvocation(i, claimed)
    \/ NewGeneration

DataflowStep ==
    \/ \E n \in Names, p \in Payloads : AssignValue(n, p)
    \/ \E t \in Topics, p \in Payloads, cause \in {None} \cup DOMAIN execution.events :
          PublishEvent(t, p, cause)
    \/ \E e \in DOMAIN execution.events : ConsumeEvent(e)

Next == InvocationStep \/ DataflowStep

Spec == Init /\ [][Next]_execution

-----------------------------------------------------------------------------

(* restore() accepts every state the methods can reach: no legal sequence  *)
(* of calls writes a checkpoint that a restart refuses.                    *)
RestoreAccepts == Valid(execution)

(* Attempts of an operation are serial: a pending attempt is the newest    *)
(* one of its generation, so a retry never races the call it replaces.     *)
SerialAttempts ==
    \A i, j \in DOMAIN execution.records :
        LET r == execution.records[i]  s == execution.records[j] IN
        /\ r.status = "Pending" /\ i # j
        /\ r.operation = s.operation /\ r.generation = s.generation
        => s.attempt < r.attempt

(* A barrier has one answer: for the same branches no two different sets   *)
(* of results are both ready.                                              *)
BarrierUnique ==
    \A required \in SUBSET Operations :
        \A r, s \in SUBSET DOMAIN execution.records :
            BarrierReady(execution, required, r) /\ BarrierReady(execution, required, s)
               => r = s

(* A ready barrier stays ready until one of its branches starts a newer    *)
(* attempt or the generation is revised; nothing else can withdraw it.     *)
BarrierStable ==
    [][\A required \in SUBSET Operations :
          \A results \in SUBSET DOMAIN execution.records :
             /\ BarrierReady(execution, required, results)
             /\ execution'.generation = execution.generation
             /\ \A op \in required : Attempts(execution', op) = Attempts(execution, op)
             => BarrierReady(execution', required, results)]_execution

(* A result that arrives for an earlier generation, or after the           *)
(* invocation ended, changes nothing: old and ended records and the        *)
(* consumption of old events stay as they were, and the history only grows.*)
LateResultsAreInert ==
    [][/\ \A i \in DOMAIN execution.records :
             \/ execution.records[i].generation < execution.generation
             \/ execution.records[i].status # "Pending"
             => execution'.records[i] = execution.records[i]
       /\ \A e \in DOMAIN execution.events :
             /\ execution'.events[e] = execution.events[e]
             /\ execution.events[e].generation < execution.generation =>
                   (e \in execution'.consumed <=> e \in execution.consumed)]_execution
=============================================================================
