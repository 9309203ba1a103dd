----------------------------- MODULE Invocation -----------------------------
(***************************************************************************)
(* Invocation identity (execution.rs): begin, the single transition to a   *)
(* terminal status, generations and the barrier over parallel branches.    *)
(* The stored result of an invocation is present exactly when its status   *)
(* is Completed (both are set in terminate), so only the status is kept.   *)
(***************************************************************************)
EXTENDS Dataflow

CONSTANT Operations   \* branch slots: "action:<name>", "planner:<iteration>", ...

Terminal == {"Completed", "Failed", "Cancelled"}

Attempts(x, operation) ==
    {i \in DOMAIN x.records : /\ x.records[i].operation = operation
                              /\ x.records[i].generation = x.generation}

(* Mutant: a second attempt may overlap a pending one.                     *)
CanBeginOverlapping(x, operation, parent, cause) ==
    /\ ValidCause(x, cause, x.generation)
    /\ parent # None => /\ parent \in DOMAIN x.records
                        /\ x.records[parent].generation = x.generation

(* begin_caused: one attempt of an operation at a time.                    *)
CanBegin(x, operation, parent, cause) ==
    /\ ValidCause(x, cause, x.generation)
    /\ parent # None => /\ parent \in DOMAIN x.records
                        /\ x.records[parent].generation = x.generation
    /\ \A i \in Attempts(x, operation) : x.records[i].status # "Pending"

NextAttempt(x, operation) ==
    CHOOSE n \in 1..Len(x.records) + 1 :
        /\ \A i \in Attempts(x, operation) : x.records[i].attempt < n
        /\ n = 1 \/ \E i \in Attempts(x, operation) : x.records[i].attempt + 1 = n

Begin(x, operation, parent, cause) ==
    [x EXCEPT !.records = Append(@, [operation  |-> operation,
                                     parent     |-> parent,
                                     cause      |-> cause,
                                     generation |-> x.generation,
                                     attempt    |-> NextAttempt(x, operation),
                                     status     |-> "Pending"])]

(* The id begin returns.                                                   *)
NewInvocation(x) == Len(x.records) + 1

(* Mutant: a duplicate completion is accepted.                             *)
CanTerminateAgain(x, invocation, claimed) ==
    /\ claimed = x.generation
    /\ invocation \in DOMAIN x.records
    /\ x.records[invocation].generation = claimed
    /\ ValidCause(x, x.records[invocation].cause, x.generation)

(* terminate: an envelope claims an invocation id and a generation.  It is *)
(* accepted when the claim is the current scope, the stored identity is    *)
(* the same one, and the record is still pending.                          *)
CanTerminate(x, invocation, claimed) ==
    /\ claimed = x.generation
    /\ invocation \in DOMAIN x.records
    /\ x.records[invocation].generation = claimed
    /\ x.records[invocation].status = "Pending"
    /\ ValidCause(x, x.records[invocation].cause, x.generation)

Terminate(x, invocation, status) ==
    [Emit(x, Terminated(x, invocation, status, x.records[invocation].cause))
        EXCEPT !.records[invocation].status = status]

(* finish_result: Some(payload) completes, None fails.                     *)
FinishResult(x, invocation, succeeded) ==
    Terminate(x, invocation, IF succeeded THEN "Completed" ELSE "Failed")

Cancel(x, invocation) == Terminate(x, invocation, "Cancelled")

AdvanceGeneration(x) == [x EXCEPT !.generation = @ + 1]

-----------------------------------------------------------------------------
(* barrier_ready(required, results).  results are invocation ids; repeated *)
(* branches, other scopes and superseded attempts are errors, not "wait".  *)
Superseded(x, i) ==
    \E j \in Attempts(x, x.records[i].operation) : x.records[j].attempt > x.records[i].attempt

(* Mutant: superseded attempts are accepted.                               *)
BarrierAcceptsOld(x, required, results) ==
    /\ required # {}
    /\ \A i \in results :
          /\ i \in DOMAIN x.records
          /\ x.records[i].generation = x.generation
          /\ x.records[i].operation \in required
          /\ \A j \in results : x.records[j].operation = x.records[i].operation => j = i

BarrierAccepts(x, required, results) ==
    /\ required # {}
    /\ \A i \in results :
          /\ i \in DOMAIN x.records
          /\ x.records[i].generation = x.generation
          /\ x.records[i].operation \in required
          /\ ~Superseded(x, i)
          /\ \A j \in results : x.records[j].operation = x.records[i].operation => j = i

BarrierReady(x, required, results) ==
    /\ BarrierAccepts(x, required, results)
    /\ \A op \in required :
          \E i \in results : /\ x.records[i].operation = op
                             /\ x.records[i].status = "Completed"

-----------------------------------------------------------------------------
(* The record checks of restore().                                         *)

DistinctAttempts(x) ==
    \A i, j \in DOMAIN x.records :
        /\ x.records[i].operation = x.records[j].operation
        /\ x.records[i].generation = x.records[j].generation
        /\ x.records[i].attempt = x.records[j].attempt
        => i = j

(* No set of records is closed under "parent of": the chain of ancestors   *)
(* of every record ends.                                                   *)
AcyclicParents(x) ==
    ~ \E cycle \in SUBSET DOMAIN x.records :
          cycle # {} /\ \A i \in cycle : x.records[i].parent \in cycle

ValidParents(x) ==
    \A i \in DOMAIN x.records :
        LET p == x.records[i].parent IN
        p # None => /\ p \in DOMAIN x.records
                    /\ p # i
                    /\ x.records[p].generation = x.records[i].generation

ValidRecords(x) ==
    /\ \A i \in DOMAIN x.records : /\ x.records[i].generation <= x.generation
                                   /\ x.records[i].attempt > 0
    /\ DistinctAttempts(x)
    /\ ValidParents(x)
    /\ AcyclicParents(x)
=============================================================================
