------------------------------ MODULE Dataflow ------------------------------
(***************************************************************************)
(* Values and events of one run (dataflow.rs), as operators on an          *)
(* execution state x: the record that ExecutionState serialises into       *)
(* execution.json.  RunStore commits "clone, update, persist", so every    *)
(* method is a guard Can...(x, ...) and a pure update of x.                *)
(*                                                                         *)
(*   x.generation   logical revision of the run                            *)
(*   x.records      invocations, in creation order (Invocation)            *)
(*   x.events       append-only history; position = sequence = event_id    *)
(*   x.values       latest value of each name                              *)
(*   x.consumed     consumed event ids                                     *)
(*   x.effects      write-effect journal (Effect)                          *)
(*   x.approvals    approvals bound to effects (Approval)                  *)
(*                                                                         *)
(* UUIDs are creation positions: fresh, never reused.  The run and         *)
(* correlation ids are fixed for a run, so a Scope is its generation.      *)
(***************************************************************************)
EXTENDS Naturals, Sequences, FiniteSets

CONSTANTS Names,      \* names of Values
          Topics,     \* topics of external events
          Payloads,   \* JSON payloads that equality tells apart
          NoPayload   \* the content of a name that was never assigned

ASSUME NoPayloadAssumption == NoPayload \notin Payloads

None == 0             \* Option<Uuid>::None: ids start at 1

Unset == [generation |-> 0, revision |-> 0, payload |-> NoPayload]

EmptyDataflow == [events |-> <<>>, values |-> [n \in Names |-> Unset], consumed |-> {}]

(* validate_cause: a cause is an event of the current scope.               *)
ValidCause(x, cause, generation) ==
    cause # None =>
        /\ cause \in DOMAIN x.events
        /\ x.events[cause].generation = generation

External(x, topic, payload, cause) ==
    [kind |-> "external", generation |-> x.generation, cause |-> cause,
     topic |-> topic, payload |-> payload]

Changed(x, name, revision, payload) ==
    [kind |-> "changed", generation |-> x.generation, cause |-> None,
     name |-> name, revision |-> revision, payload |-> payload]

Terminated(x, invocation, status, cause) ==
    [kind |-> "terminated", generation |-> x.generation, cause |-> cause,
     invocation |-> invocation, status |-> status]

Emit(x, event) == [x EXCEPT !.events = Append(@, event)]

(* value(): only an assignment of the current generation is visible.       *)
Visible(x, name) ==
    /\ x.values[name].revision > 0
    /\ x.values[name].generation = x.generation

SameValue(x, name, payload) == Visible(x, name) /\ x.values[name].payload = payload

(* Mutant: revisions are not restarted with the generation.                *)
NextRevisionEver(x, name) == x.values[name].revision + 1

NextRevision(x, name) == IF Visible(x, name) THEN x.values[name].revision + 1 ELSE 1

Assign(x, name, payload) ==
    IF SameValue(x, name, payload)
    THEN x
    ELSE [Emit(x, Changed(x, name, NextRevision(x, name), payload))
            EXCEPT !.values[name] = [generation |-> x.generation,
                                     revision   |-> NextRevision(x, name),
                                     payload    |-> payload]]

CanPublish(x, cause) == ValidCause(x, cause, x.generation)

Publish(x, topic, payload, cause) == Emit(x, External(x, topic, payload, cause))

CanConsumeOld(x, event) == event \in DOMAIN x.events   \* mutant: events of any generation

CanConsume(x, event) ==
    /\ event \in DOMAIN x.events
    /\ x.events[event].generation = x.generation

Consume(x, event) == [x EXCEPT !.consumed = @ \cup {event}]

-----------------------------------------------------------------------------
(* validate_dataflow, the part of restore() that rejects a history which   *)
(* no run of the operations above could have written.                      *)

ValidEventOrder(x) ==
    \A e \in DOMAIN x.events :
        /\ x.events[e].generation <= x.generation
        /\ \A d \in 1..e : x.events[d].generation <= x.events[e].generation
        /\ x.events[e].cause # None =>
              /\ x.events[e].cause < e
              /\ x.events[x.events[e].cause].generation = x.events[e].generation

Changes(x, name, generation) ==
    {e \in DOMAIN x.events : /\ x.events[e].kind = "changed"
                             /\ x.events[e].name = name
                             /\ x.events[e].generation = generation}

(* Consecutive changes of a name in a generation number 1, 2, ... and      *)
(* differ in payload.                                                      *)
ValidRevisions(x) ==
    \A e \in DOMAIN x.events :
        x.events[e].kind = "changed" =>
            LET older == {d \in Changes(x, x.events[e].name, x.events[e].generation) : d < e}
            IN IF older = {}
               THEN x.events[e].revision = 1
               ELSE \E d \in older :
                      /\ \A c \in older : c <= d
                      /\ x.events[e].revision = x.events[d].revision + 1
                      /\ x.events[e].payload # x.events[d].payload

(* A retained value is the last change of its generation, and no later     *)
(* generation changed the name.                                            *)
ValidValues(x) ==
    \A n \in Names :
        LET v == x.values[n] IN
        /\ v.generation <= x.generation
        /\ v.revision > 0 =>
              \E e \in Changes(x, n, v.generation) :
                  /\ \A d \in Changes(x, n, v.generation) : d <= e
                  /\ x.events[e].revision = v.revision
                  /\ x.events[e].payload = v.payload
        /\ \A e \in DOMAIN x.events :
              x.events[e].kind = "changed" /\ x.events[e].name = n =>
                  v.revision > 0 /\ x.events[e].generation <= v.generation

(* Every terminal invocation has exactly one event, with its status,       *)
(* generation and cause; a pending one has none.                           *)
ValidTerminations(x) ==
    /\ \A e \in DOMAIN x.events :
          x.events[e].kind = "terminated" =>
              LET i == x.events[e].invocation IN
              /\ i \in DOMAIN x.records
              /\ x.records[i].status # "Pending"
              /\ x.records[i].status = x.events[e].status
              /\ x.records[i].generation = x.events[e].generation
              /\ x.records[i].cause = x.events[e].cause
              /\ \A d \in DOMAIN x.events :
                    x.events[d].kind = "terminated" /\ x.events[d].invocation = i => d = e
    /\ \A i \in DOMAIN x.records :
          /\ ValidCause(x, x.records[i].cause, x.records[i].generation)
          /\ x.records[i].status # "Pending" <=>
                \E e \in DOMAIN x.events : /\ x.events[e].kind = "terminated"
                                           /\ x.events[e].invocation = i

ValidDataflow(x) ==
    /\ ValidEventOrder(x)
    /\ ValidRevisions(x)
    /\ ValidValues(x)
    /\ ValidTerminations(x)
    /\ x.consumed \subseteq DOMAIN x.events
=============================================================================
