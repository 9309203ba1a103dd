------------------------------- MODULE Design -------------------------------
(***************************************************************************)
(* A compiled AWHDL design as data (design.rs CompiledDesign), and the     *)
(* pure parts of its interpreter: evaluation of expressions and            *)
(* conditions, the egress guard, and what the end of a delta cycle does    *)
(* with the collected writes.                                              *)
(*                                                                         *)
(* An event is a pair <<name, what>>.  "x" and "x.changed" are raised      *)
(* together, so they are one event <<x, "changed">>; likewise a barrier    *)
(* and its ".ready".                                                       *)
(***************************************************************************)
EXTENDS Integers, Sequences, FiniteSets, FiniteSetsExt, SequencesExt

CONSTANTS SignalOrder,   \* the signals and ports, in the order of their names
          Parts,         \* names of devices and declassifiers
          Null,          \* the value of a signal nobody has written
          MaxInteger,    \* the largest integer of the runtime (i64::MAX)
          MaxNesting     \* bound: how deep statements are nested

ASSUME MaxIntegerAssumption == MaxInteger \in Nat
ASSUME NestingAssumption == MaxNesting \in Nat

Signals == ToSet(SignalOrder)
Values == 0..MaxInteger \cup {Null}

ASSUME OrderAssumption == SignalOrder \in Seq(Signals)

ASSUME NullAssumption == Null \notin 0..MaxInteger

(* Text is represented by integers too: only Null is no integer here.      *)
Const(v) == [op |-> "const", value |-> v]
Read(s) == [op |-> "read", signal |-> s]
Plus(s, v) == [op |-> "plus", signal |-> s, value |-> v]
Sum(s, t) == [op |-> "sum", signal |-> s, other |-> t]

Expressions ==
    [op: {"const"}, value: Values] \cup [op: {"read"}, signal: Signals]
      \cup [op: {"plus"}, signal: Signals, value: 0..MaxInteger]
      \cup [op: {"sum"}, signal: Signals, other: Signals]

Equals(s, v) == [op |-> "equals", signal |-> s, value |-> v]
Below(s, v) == [op |-> "below", signal |-> s, value |-> v]
Status(d, v) == [op |-> "status", device |-> d, value |-> v]
Raised(event) == [op |-> "raised", event |-> event]

(* A time limit is a set of at most one duration.                          *)
AssignTo(s, e) == [kind |-> "assign", target |-> s, value |-> e]
AssertThat(c) == [kind |-> "assert", condition |-> c]
If(branches, otherwise) == [kind |-> "if", branches |-> branches, otherwise |-> otherwise]
IfElse(c, then, otherwise) == If(<<[condition |-> c, body |-> then]>>, otherwise)
CallTo(d, e, s) == [kind |-> "call", device |-> d, argument |-> e, output |-> s, timeout |-> {}]
TimedCall(d, e, s) == [CallTo(d, e, s) EXCEPT !.timeout = {1}]
InParallel(calls) == [kind |-> "parallel", calls |-> calls]
ReleaseTo(s, e, d) == [kind |-> "declassify", target |-> s, value |-> e, using |-> d]

Statements ==
    {"assign", "assert", "if", "call", "parallel", "declassify"}

-----------------------------------------------------------------------------
(* The statements of a block, those within others included: an occurrence  *)
(* is a statement with the conditions of the ifs that it is inside of.     *)
Blocks(statement) ==
    CASE statement.kind = "if" ->
            {statement.otherwise} \cup {b.body : b \in ToSet(statement.branches)}
      [] statement.kind = "parallel" -> {statement.calls}
      [] OTHER -> {}

Conditions(statement) ==
    IF statement.kind = "if" THEN {b.condition : b \in ToSet(statement.branches)} ELSE {}

(* Mutant: the last branch of an if reveals nothing.                       *)
InnerOutsideElse(outer) ==
    {[statement |-> s,
      under |-> outer.under \cup (IF outer.statement.kind = "if" /\ s \in ToSet(outer.statement.otherwise)
                                  THEN {} ELSE Conditions(outer.statement))] :
        s \in UNION {ToSet(block) : block \in Blocks(outer.statement)}}

(* Reaching any branch of an if, else included, reveals every condition.   *)
Inner(outer) ==
    {[statement |-> s, under |-> outer.under \cup Conditions(outer.statement)] :
        s \in UNION {ToSet(block) : block \in Blocks(outer.statement)}}

Occurrences(block) ==
    LET Nested[depth \in 0..MaxNesting] ==
          IF depth = 0 THEN {[statement |-> s, under |-> {}] : s \in ToSet(block)}
          ELSE Nested[depth - 1] \cup UNION {Inner(outer) : outer \in Nested[depth - 1]}
    IN Nested[MaxNesting]

Code(block) == {o.statement : o \in Occurrences(block)}

(* MaxNesting levels hold every statement.                                 *)
Nests(block) == \A outer \in Occurrences(block) : Inner(outer) \subseteq Occurrences(block)

-----------------------------------------------------------------------------
(* Evaluation against a view: the values, the last status of each device   *)
(* and the events of the current delta.                                    *)

(* The names an expression or a condition refers to (Expr::names); a       *)
(* selected name counts with its root.                                     *)
NamesIn(e) ==
    CASE e.op = "const" -> {}
      [] e.op \in {"read", "plus", "equals", "below"} -> {e.signal}
      [] e.op = "sum" -> {e.signal, e.other}
      [] e.op = "status" -> {e.device}
      [] e.op = "raised" -> {e.event[1]}

ValueOf(e, view) ==
    CASE e.op = "const" -> e.value
      [] e.op = "read" -> view.values[e.signal]
      [] e.op = "plus" -> view.values[e.signal] + e.value
      [] e.op = "sum" -> view.values[e.signal] + view.values[e.other]

(* Mutant: the sum may wrap or grow.                                       *)
EvaluatesUnchecked(e, view) ==
    e.op \in {"plus", "sum"} => \A s \in NamesIn(e) : view.values[s] # Null

(* Arithmetic needs integers and fails on overflow.                        *)
Evaluates(e, view) ==
    e.op \in {"plus", "sum"} => /\ \A s \in NamesIn(e) : view.values[s] # Null
                                /\ ValueOf(e, view) <= MaxInteger

(* An ordering needs two numbers.                                          *)
Decidable(c, view) == c.op = "below" => view.values[c.signal] # Null

Holds(c, view) ==
    CASE c.op = "equals" -> view.values[c.signal] = c.value
      [] c.op = "below" -> view.values[c.signal] < c.value
      [] c.op = "status" -> view.status[c.device] = c.value
      [] c.op = "raised" -> c.event \in view.current

(* The branch of an if statement that is taken: the first whose condition  *)
(* holds, else the rest; the conditions up to it must be decidable.        *)
Reached(branches, view) ==
    {i \in DOMAIN branches : \A j \in 1..(i - 1) :
        Decidable(branches[j].condition, view) /\ ~Holds(branches[j].condition, view)}

Choosable(branches, view) ==
    \A i \in Reached(branches, view) : Decidable(branches[i].condition, view)

Chosen(statement, view) ==
    LET taken == {i \in Reached(statement.branches, view) :
                     Holds(statement.branches[i].condition, view)}
    IN IF taken = {} THEN statement.otherwise ELSE statement.branches[Max(taken)].body

(* The runtime egress guard of a call: declared class of the argument      *)
(* against the location and the clearance of the device.                   *)
Cleared(design, device, argument) ==
    LET class == Max({0} \cup {design.class[s] : s \in NamesIn(argument) \cap Signals}) IN
    /\ device \in design.cloud => class < design.cloudFloor
    /\ \A clearance \in design.clearance[device] : class <= clearance

-----------------------------------------------------------------------------
(* DeltaWrites: assignments in the order they were made, events as a set.  *)
NoWrites == [signals |-> <<>>, events |-> {}]

Drive(writes, signal, value, process) ==
    [writes EXCEPT !.signals = Append(@, [signal |-> signal, value |-> value, process |-> process])]

Raise(writes, events) == [writes EXCEPT !.events = @ \cup events]

Merge(writes, local) ==
    [signals |-> writes.signals \o local.signals, events |-> writes.events \cup local.events]

(* Mutant: only the first triggered process runs.                          *)
NextTriggeredOnce(design, i, current) ==
    IF i > 0 THEN 0 ELSE
    LET triggered == {j \in DOMAIN design.processes :
                          design.processes[j].sensitivity \cap current # {}}
    IN IF triggered = {} THEN 0 ELSE Min(triggered)

(* Triggered process after process i, or 0.                                *)
NextTriggered(design, i, current) ==
    LET triggered == {j \in DOMAIN design.processes :
                          j > i /\ design.processes[j].sensitivity \cap current # {}}
    IN IF triggered = {} THEN 0 ELSE Min(triggered)

-----------------------------------------------------------------------------
(* The end of a delta.  A write is checked against the previous write of   *)
(* the same signal only: another process must have written the same value. *)
WritesOf(signals, s) == {k \in DOMAIN signals : signals[k].signal = s}

Clash(signals) ==
    \E k \in DOMAIN signals :
        LET earlier == {j \in WritesOf(signals, signals[k].signal) : j < k} IN
        /\ earlier # {}
        /\ LET previous == signals[Max(earlier)] IN
           /\ previous.process # signals[k].process
           /\ previous.value # signals[k].value

Driven(signals) == {signals[k].signal : k \in DOMAIN signals}

Applied(values, signals) ==
    [s \in Signals |-> IF s \in Driven(signals)
                       THEN signals[Max(WritesOf(signals, s))].value
                       ELSE values[s]]

ChangeEvents(values, next) == {<<s, "changed">> : s \in {t \in Signals : next[t] # values[t]}}

(* A barrier counts the members written since it last fired; the signals   *)
(* of a delta reach it in the order of their names, and those after the    *)
(* one that fires it already count for the next time.                      *)
Position(s) == CHOOSE i \in DOMAIN SignalOrder : SignalOrder[i] = s

(* Mutant: a barrier fires on any member.                                  *)
FiresOnAny(members, seen, driven) == driven \cap ToSet(members) # {}

Fires(members, seen, driven) ==
    /\ driven \cap ToSet(members) # {}
    /\ Cardinality(seen \cup (driven \cap ToSet(members))) = Len(members)

(* Mutant: what has been counted is never forgotten.                       *)
SeenForEver(members, seen, driven) == seen \cup (driven \cap ToSet(members))

SeenAfter(members, seen, driven) ==
    LET arrived == driven \cap ToSet(members)
        last == Max({Position(s) : s \in ToSet(members) \ seen})
    IN IF Fires(members, seen, driven)
       THEN {s \in arrived : Position(s) > last}
       ELSE seen \cup arrived

BarrierEvents(design, seen, driven) ==
    {<<b, "ready">> : b \in {c \in DOMAIN design.barriers :
                                Fires(design.barriers[c], seen[c], driven)}}

Violated(assertion, view) == Holds(assertion.condition, view) # assertion.expected

-----------------------------------------------------------------------------
(* Timers: all that are due at the earliest next tick fire together.       *)
Earliest(nextTick) == Min({nextTick[t] : t \in DOMAIN nextTick})

DueTimers(nextTick) == {t \in DOMAIN nextTick : nextTick[t] = Earliest(nextTick)}

(* Mutant: whenever a timer fires all of them are advanced.                *)
AdvanceAll(design, nextTick) == [t \in DOMAIN nextTick |-> nextTick[t] + design.timers[t]]

Advance(design, nextTick) ==
    [t \in DOMAIN nextTick |-> IF t \in DueTimers(nextTick)
                               THEN nextTick[t] + design.timers[t] ELSE nextTick[t]]
=============================================================================
