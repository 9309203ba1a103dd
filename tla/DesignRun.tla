----------------------------- MODULE DesignRun -----------------------------
(***************************************************************************)
(* One run of an AWHDL design (design.rs DesignRun, driven by run_design   *)
(* of engine.rs): delta cycles, process bodies with device calls, releases *)
(* and timeouts, timers, barriers, assertions and budgets.                 *)
(*                                                                         *)
(* The interpreter is one task.  What it cannot decide are the answers of  *)
(* devices and humans, the time that passes while it waits, and the        *)
(* timeouts that drop a call or a process body at such a wait.             *)
(***************************************************************************)
EXTENDS Design

CONSTANTS Designs,        \* the designs to run (accepted by the checker)
          Results,        \* values a device may answer with
          MaxIterations,  \* loop_limits.max_iterations, tightened by the design
          MaxWallTime,    \* loop_limits.max_wall_time_sec
          Ttl,            \* lifetime of a question to the human
          MaxTime,        \* bound: the clock stops here
          MaxDeltas       \* bound: the delta counter saturates here

ASSUME LimitsAssumption ==
    /\ {MaxIterations, MaxWallTime, Ttl, MaxTime} \subseteq Nat
    /\ MaxDeltas \in Nat \ {0}
ASSUME ResultsAssumption == Results \subseteq Values

IsSequence(s) == s \in Seq(ToSet(s))

(* What the checker and the compiler see to: names are declared, and used  *)
(* as what they are.                                                       *)
StatementOk(d, s) ==
    /\ s.kind \in Statements
    /\ s.kind = "assign" => s.target \in Signals /\ s.value \in Expressions
    /\ s.kind = "call" => s.device \in Parts /\ s.output \in Signals
    /\ s.kind = "declassify" => /\ s.target \in Signals /\ s.value \in Expressions
                                /\ s.using \in DOMAIN d.declassifiers
    /\ s.kind = "if" => IsSequence(s.branches)

BlockOk(d, block) ==
    /\ IsSequence(block) /\ Nests(block)
    /\ \A s \in Code(block) : StatementOk(d, s) /\ \A inner \in Blocks(s) : IsSequence(inner)

DesignOk(d) ==
    /\ IsSequence(d.processes)
    /\ \A i \in DOMAIN d.processes : BlockOk(d, d.processes[i].body) /\ BlockOk(d, d.processes[i].onTimeout)
    /\ d.initial \in [Signals -> Values] /\ d.inputs \subseteq Signals
    /\ DOMAIN d.declassifiers \subseteq Parts
    /\ d.timers \in [DOMAIN d.timers -> Nat \ {0}]
    /\ d.barriers \in [DOMAIN d.barriers -> Seq(Signals) \ {<<>>}]

ASSUME DesignsAssumption == \A d \in Designs : DesignOk(d)

VARIABLES design,     \* the compiled design
          values,     \* DesignRun.values
          status,     \* DesignRun.device_status: "none" before the first call
          current,    \* DesignRun.current
          seen,       \* DesignRun.barrier_seen
          nextTick,   \* next due time of each timer
          events,     \* events that the next delta starts from
          deltas,     \* delta cycles started
          writes,     \* writes of the processes that ran in this delta
          frame,      \* where the interpreter is, see FrameType
          outcome,    \* how the run ended
          doubt,      \* some write of the run is unresolved (effect journal)
          now,        \* time since the start
          history     \* read by the properties only

store == <<values, status, current, seen>>
queue == <<nextTick, events, deltas>>
vars == <<design, store, queue, writes, frame, outcome, doubt, now, history>>

View == [values |-> values, status |-> status, current |-> current]

(* A frame: the process being run, which part of it, the statements still  *)
(* to execute, its writes, and for a release the content and the time at   *)
(* which the human was asked.                                              *)
At(place) ==
    [at |-> place, process |-> 0, part |-> "body", todo |-> <<>>, local |-> NoWrites,
     content |-> Null, asked |-> 0]

Body(i) == [At("running") EXCEPT !.process = i, !.todo = design.processes[i].body]

(* history: the delta in which each signal was last written and each       *)
(* barrier last fired, how often each timer fired; of the current delta,   *)
(* the processes that ran, those that were timed out and those that a      *)
(* changed value owes a run; and the releases that each means has allowed, *)
(* with the delta.                                                         *)
NoHistory(d) ==
    [written |-> [s \in Signals |-> 0],
     fired |-> [b \in DOMAIN d.barriers |-> 0],
     ticks |-> [t \in DOMAIN d.timers |-> 0],
     ran |-> {}, late |-> {}, owed |-> {}, allowed |-> {}]

Owed(signals) ==
    {i \in DOMAIN design.processes :
        \E s \in signals : <<s, "changed">> \in design.processes[i].sensitivity}

-----------------------------------------------------------------------------
(* run: the given inputs are assigned and announced.                       *)
Init ==
    /\ design \in Designs
    /\ \E given \in SUBSET design.inputs : \E input \in [given -> Results] :
          /\ values = [s \in Signals |-> IF s \in given THEN input[s] ELSE design.initial[s]]
          /\ events = {<<s, "changed">> : s \in given}
          /\ history = [NoHistory(design) EXCEPT !.owed = Owed(given)]
    /\ status = [p \in Parts |-> "none"]
    /\ current = {}
    /\ seen = [b \in DOMAIN design.barriers |-> {}]
    /\ nextTick = design.timers
    /\ deltas = 0 /\ now = 0
    /\ writes = NoWrites
    /\ frame = At("top")
    /\ outcome = "running" /\ doubt = FALSE

(* The loop ends, and so does the run as far as the interpreter goes.      *)
End(how) == outcome' = how /\ frame' = At("ended")

-----------------------------------------------------------------------------
(* The top of the loop.                                                    *)

WallTimeUp == \E limit \in design.wallTime : now >= limit

OutOfWallTime ==
    /\ frame.at = "top"
    /\ WallTimeUp
    /\ End("exhausted")
    /\ UNCHANGED <<design, store, queue, writes, doubt, now, history>>

Quiesce ==
    /\ frame.at = "top" /\ ~WallTimeUp
    /\ events = {} /\ nextTick = <<>>
    /\ End("quiescent")
    /\ UNCHANGED <<design, store, queue, writes, doubt, now, history>>

(* Nothing to do before the next tick: sleep.                              *)
Sleep ==
    /\ frame.at = "top" /\ ~WallTimeUp
    /\ events = {} /\ nextTick # <<>>
    /\ frame' = At("sleeping")
    /\ UNCHANGED <<design, store, queue, writes, outcome, doubt, now, history>>

TickBeyondWallTime == \E limit \in design.wallTime : Earliest(nextTick) >= limit

(* The tick comes after the wall time: sleep until that is up.             *)
SleepOut ==
    /\ frame.at = "sleeping"
    /\ TickBeyondWallTime /\ WallTimeUp
    /\ End("exhausted")
    /\ UNCHANGED <<design, store, queue, writes, doubt, now, history>>

FireTimers ==
    /\ frame.at = "sleeping" /\ ~TickBeyondWallTime
    /\ now >= Earliest(nextTick)
    /\ events' = {<<t, "tick">> : t \in DueTimers(nextTick)}
    /\ nextTick' = Advance(design, nextTick)
    /\ frame' = At("admitting")
    /\ history' = [history EXCEPT !.ticks =
                      [t \in DOMAIN @ |-> IF t \in DueTimers(nextTick) THEN @[t] + 1 ELSE @[t]]]
    /\ UNCHANGED <<design, store, deltas, writes, outcome, doubt, now>>

HasEvents ==
    /\ frame.at = "top" /\ ~WallTimeUp
    /\ events # {}
    /\ frame' = At("admitting")
    /\ UNCHANGED <<design, store, queue, writes, outcome, doubt, now, history>>

-----------------------------------------------------------------------------
(* Mutant: only the wall time is checked.                                  *)
MayIterateInTime == now <= MaxWallTime

(* The design's iterations, then the engine's budget.                      *)
MayIterate == /\ \A limit \in design.iterations : deltas < limit
              /\ deltas < MaxIterations
              /\ now <= MaxWallTime

OutOfIterations ==
    /\ frame.at = "admitting"
    /\ ~MayIterate
    /\ End("exhausted")
    /\ UNCHANGED <<design, store, queue, writes, doubt, now, history>>

(* The frame of the first triggered process after i, or the commit.        *)
FrameAfter(i, triggers) ==
    LET next == NextTriggered(design, i, triggers) IN
    IF next = 0 THEN At("committing") ELSE Body(next)

BeginDelta ==
    /\ frame.at = "admitting"
    /\ MayIterate
    /\ deltas' = IF deltas < MaxDeltas THEN deltas + 1 ELSE deltas
    /\ current' = events /\ events' = {}
    /\ writes' = NoWrites
    /\ frame' = FrameAfter(0, events)
    /\ history' = [history EXCEPT !.ran = {}, !.late = {}]
    /\ UNCHANGED <<design, values, status, seen, nextTick, outcome, doubt, now>>

-----------------------------------------------------------------------------
(* Statements without a wait.                                              *)
Running(kind) == frame.at = "running" /\ frame.todo # <<>> /\ Head(frame.todo).kind = kind

Statement == Head(frame.todo)

Step(local) == [frame EXCEPT !.at = "running", !.todo = Tail(@), !.local = local]

(* Mutant: an assignment is visible at once.                               *)
AssignSignalAtOnce ==
    /\ Running("assign") /\ Evaluates(Statement.value, View)
    /\ frame' = Step(Drive(frame.local, Statement.target, ValueOf(Statement.value, View),
                           frame.process))
    /\ values' = [values EXCEPT ![Statement.target] = ValueOf(Statement.value, View)]
    /\ UNCHANGED <<design, status, current, seen, queue, writes, outcome, doubt, now, history>>

AssignSignal ==
    /\ Running("assign") /\ Evaluates(Statement.value, View)
    /\ frame' = Step(Drive(frame.local, Statement.target, ValueOf(Statement.value, View),
                           frame.process))
    /\ UNCHANGED <<design, store, queue, writes, outcome, doubt, now, history>>

CheckAssertion ==
    /\ Running("assert") /\ Decidable(Statement.condition, View)
    /\ Holds(Statement.condition, View)
    /\ frame' = Step(frame.local)
    /\ UNCHANGED <<design, store, queue, writes, outcome, doubt, now, history>>

Branch ==
    /\ Running("if") /\ Choosable(Statement.branches, View)
    /\ frame' = [frame EXCEPT !.todo = Chosen(Statement, View) \o Tail(@)]
    /\ UNCHANGED <<design, store, queue, writes, outcome, doubt, now, history>>

(* The calls of a parallel block are made one after the other.             *)
ParallelCalls ==
    /\ Running("parallel")
    /\ frame' = [frame EXCEPT !.todo = Statement.calls \o Tail(@)]
    /\ UNCHANGED <<design, store, queue, writes, outcome, doubt, now, history>>

(* An expression that cannot be evaluated, a failed assert, a call that    *)
(* the egress guard refuses: the run fails, what was committed stays.      *)
Refused ==
    \/ Running("assign") /\ ~Evaluates(Statement.value, View)
    \/ Running("if") /\ ~Choosable(Statement.branches, View)
    \/ /\ Running("assert")
       /\ Decidable(Statement.condition, View) => ~Holds(Statement.condition, View)
    \/ /\ Running("call")
       /\ Evaluates(Statement.argument, View) =>
             ~Cleared(design, Statement.device, Statement.argument)
    \/ Running("declassify") /\ ~Evaluates(Statement.value, View)

Fail ==
    /\ Refused
    /\ End("failed")
    /\ UNCHANGED <<design, store, queue, writes, doubt, now, history>>

(* A process timeout can strike where the body waits.                      *)
MayTimeOut ==
    /\ frame.at \in {"calling", "filtering", "asking"}
    /\ frame.part = "body" /\ design.processes[frame.process].timeout # {}

(* The audit line of a step cannot be written: of a delta, a call, its     *)
(* failure, a release, a process timeout, a signal or the result.          *)
Audited ==
    \/ frame.at = "admitting" /\ MayIterate
    \/ Running("call")
    \/ frame.at \in {"calling", "filtering", "releasing", "refusing"}
    \/ MayTimeOut
    \/ frame.at = "committing" /\ writes.signals # <<>> /\ ~Clash(writes.signals)
    \/ outcome \in {"quiescent", "exhausted"}

AuditFails ==
    /\ Audited
    /\ End("failed")
    /\ UNCHANGED <<design, store, queue, writes, doubt, now, history>>

-----------------------------------------------------------------------------
(* Device calls.                                                           *)
CallDevice ==
    /\ Running("call") /\ Evaluates(Statement.argument, View)
    /\ Cleared(design, Statement.device, Statement.argument)
    /\ frame' = [frame EXCEPT !.at = "calling"]
    /\ UNCHANGED <<design, store, queue, writes, outcome, doubt, now, history>>

CallSucceeds(result) ==
    /\ frame.at = "calling"
    /\ status' = [status EXCEPT ![Statement.device] = "done"]
    /\ frame' = Step(Drive(Raise(frame.local, {<<Statement.device, "done">>}),
                           Statement.output, result, frame.process))
    /\ UNCHANGED <<design, values, current, seen, queue, writes, outcome, doubt, now, history>>

(* A write that was dispatched and did not report success may stay         *)
(* unresolved for the rest of the run (Effect says which).                 *)
MayDoubt(device) == {doubt} \cup (IF device \in design.writers THEN {TRUE} ELSE {})

CallEnds(raised) ==
    /\ frame.at = "calling"
    /\ status' = [status EXCEPT ![Statement.device] = "failed"]
    /\ frame' = Step(Raise(frame.local, {<<Statement.device, what>> : what \in raised}))
    /\ doubt' \in MayDoubt(Statement.device)
    /\ UNCHANGED <<design, values, current, seen, queue, writes, outcome, now, history>>

CallFails == CallEnds({"failed"})

CallTimesOut == frame.at = "calling" /\ Statement.timeout # {} /\ CallEnds({"failed", "timeout"})

-----------------------------------------------------------------------------
(* Releases: the filter first, then the human, both on the same content.   *)
Declassifier == design.declassifiers[Statement.using]

AskOrRelease(content) ==
    [frame EXCEPT !.at = IF Declassifier.approval THEN "asking" ELSE "releasing",
                  !.content = content, !.asked = now]

Declassify ==
    /\ Running("declassify") /\ Evaluates(Statement.value, View)
    /\ LET content == ValueOf(Statement.value, View) IN
       frame' = IF Declassifier.filter = {} THEN AskOrRelease(content)
                ELSE [frame EXCEPT !.at = "filtering", !.content = content]
    /\ UNCHANGED <<design, store, queue, writes, outcome, doubt, now, history>>

(* Mutant: the verdict of the filter is only recorded.                     *)
FilterAnswersAnything(pass) ==
    /\ frame.at = "filtering"
    /\ frame' = AskOrRelease(frame.content)
    /\ history' = IF pass THEN [history EXCEPT !.allowed =
                                   @ \cup {<<deltas, Statement.using, "filter", frame.content>>}]
                  ELSE history
    /\ UNCHANGED <<design, store, queue, writes, outcome, doubt, now>>

FilterAnswers(pass) ==
    /\ frame.at = "filtering"
    /\ frame' = IF pass THEN AskOrRelease(frame.content) ELSE [frame EXCEPT !.at = "refusing"]
    /\ history' = IF pass THEN [history EXCEPT !.allowed =
                                   @ \cup {<<deltas, Statement.using, "filter", frame.content>>}]
                  ELSE history
    /\ UNCHANGED <<design, store, queue, writes, outcome, doubt, now>>

(* The answer must echo the hash of the content and come in time.  No      *)
(* approver, an error and a denial are all refusals.                       *)
HumanAnswers(granted, echo) ==
    /\ frame.at = "asking"
    /\ LET valid == granted /\ echo = frame.content /\ now <= frame.asked + Ttl IN
       /\ frame' = [frame EXCEPT !.at = IF valid THEN "releasing" ELSE "refusing"]
       /\ history' = IF valid THEN [history EXCEPT !.allowed =
                                       @ \cup {<<deltas, Statement.using, "human", echo>>}]
                     ELSE history
    /\ UNCHANGED <<design, store, queue, writes, outcome, doubt, now>>

Release ==
    /\ frame.at = "releasing"
    /\ status' = [status EXCEPT ![Statement.using] = "done"]
    /\ frame' = Step(Drive(Raise(frame.local, {<<Statement.using, "done">>}),
                           Statement.target, frame.content, frame.process))
    /\ UNCHANGED <<design, values, current, seen, queue, writes, outcome, doubt, now, history>>

RefuseRelease ==
    /\ frame.at = "refusing"
    /\ status' = [status EXCEPT ![Statement.using] = "failed"]
    /\ frame' = Step(Raise(frame.local, {<<Statement.using, "failed">>}))
    /\ UNCHANGED <<design, values, current, seen, queue, writes, outcome, doubt, now, history>>

-----------------------------------------------------------------------------
(* A process timeout drops the body at a wait, with everything it wrote;   *)
(* only the handler's writes remain.  The handler has no time limit.       *)
Handler(i, local) ==
    [At("running") EXCEPT !.process = i, !.part = "on timeout", !.local = local,
                          !.todo = design.processes[i].onTimeout]

(* Mutant: what the body wrote before the timeout is kept.                 *)
ProcessTimesOutPartly ==
    /\ MayTimeOut
    /\ frame' = Handler(frame.process, frame.local)
    /\ doubt' \in IF frame.at = "calling" THEN MayDoubt(Statement.device) ELSE {doubt}
    /\ history' = [history EXCEPT !.late = @ \cup {frame.process}]
    /\ UNCHANGED <<design, store, queue, writes, outcome, now>>

ProcessTimesOut ==
    /\ MayTimeOut
    /\ frame' = Handler(frame.process, NoWrites)
    /\ doubt' \in IF frame.at = "calling" THEN MayDoubt(Statement.device) ELSE {doubt}
    /\ history' = [history EXCEPT !.late = @ \cup {frame.process}]
    /\ UNCHANGED <<design, store, queue, writes, outcome, now>>

(* A process is done: its writes join those of the delta.                  *)
ProcessEnds ==
    /\ frame.at = "running" /\ frame.todo = <<>>
    /\ writes' = Merge(writes, frame.local)
    /\ frame' = FrameAfter(frame.process, current)
    /\ history' = [history EXCEPT !.ran = @ \cup {frame.process}]
    /\ UNCHANGED <<design, store, queue, outcome, doubt, now>>

-----------------------------------------------------------------------------
(* The end of the delta: all writes at once, or a conflict.                *)
Conflict ==
    /\ frame.at = "committing"
    /\ Clash(writes.signals)
    /\ End("failed")
    /\ UNCHANGED <<design, store, queue, writes, doubt, now, history>>

Commit ==
    /\ frame.at = "committing"
    /\ ~Clash(writes.signals)
    /\ LET driven == Driven(writes.signals)
           next == Applied(values, writes.signals)
           changes == ChangeEvents(values, next)
           ready == BarrierEvents(design, seen, driven)
           after == [values |-> next, status |-> status, current |-> {}]
       IN /\ values' = next
          /\ current' = {}
          /\ seen' = [b \in DOMAIN seen |-> SeenAfter(design.barriers[b], seen[b], driven)]
          /\ events' = writes.events \cup changes \cup ready
          /\ IF \E a \in design.assertions :
                   Decidable(a.condition, after) => Violated(a, after)
             THEN End("failed")
             ELSE frame' = At("top") /\ UNCHANGED outcome
          /\ history' = [history EXCEPT
                !.written = [s \in Signals |-> IF s \in driven THEN deltas ELSE @[s]],
                !.fired = [b \in DOMAIN @ |-> IF <<b, "ready">> \in ready THEN deltas ELSE @[b]],
                !.owed = Owed({s \in Signals : next[s] # values[s]})]
    /\ UNCHANGED <<design, status, nextTick, deltas, writes, doubt, now>>

(* run_design: a run that the interpreter finished counts as completed     *)
(* only with every write resolved.                                         *)
Judged == IF doubt THEN "failed" ELSE "completed"

Judge ==
    /\ frame.at = "ended" /\ outcome \in {"quiescent", "exhausted"}
    /\ outcome' = Judged
    /\ UNCHANGED <<design, store, queue, writes, frame, doubt, now, history>>

-----------------------------------------------------------------------------
(* Time passes: at waits, and while the interpreter works.                 *)
Tick ==
    /\ now < MaxTime /\ frame.at # "ended"
    /\ now' = now + 1
    /\ UNCHANGED <<design, store, queue, writes, frame, outcome, doubt, history>>

LoopStep == OutOfWallTime \/ Quiesce \/ Sleep \/ SleepOut \/ FireTimers \/ HasEvents
               \/ OutOfIterations \/ BeginDelta \/ Conflict \/ Commit \/ Judge

ProcessStep == AssignSignal \/ CheckAssertion \/ Branch \/ ParallelCalls \/ Fail \/ ProcessEnds

CallStep == CallDevice \/ (\E result \in Results : CallSucceeds(result)) \/ CallFails \/ CallTimesOut

ReleaseStep ==
    \/ Declassify \/ Release \/ RefuseRelease
    \/ \E pass \in BOOLEAN : FilterAnswers(pass)
    \/ \E granted \in BOOLEAN, echo \in Results : HumanAnswers(granted, echo)

Progress == LoopStep \/ ProcessStep \/ CallStep \/ ReleaseStep

Next == Progress \/ ProcessTimesOut \/ AuditFails \/ Tick

Spec == Init /\ [][Next]_vars

(* Every wait ends: devices answer or their route times out, the approver  *)
(* stops polling when the question expires, and the clock runs.            *)
FairSpec == Spec /\ WF_vars(Progress) /\ WF_vars(Tick)

-----------------------------------------------------------------------------
(* Type invariant.                                                         *)
Events == (Signals \X {"changed"}) \cup ((DOMAIN design.barriers) \X {"ready"})
             \cup ((DOMAIN design.timers) \X {"tick"})
             \cup (Parts \X {"done", "failed", "timeout"})

WritesType ==
    [signals: Seq([signal: Signals, value: Values, process: DOMAIN design.processes]),
     events: SUBSET Events]

Places == {"top", "sleeping", "admitting", "running", "calling", "filtering", "asking",
           "releasing", "refusing", "committing", "ended"}

TypeOK ==
    /\ design \in Designs
    /\ values \in [Signals -> Values]
    /\ status \in [Parts -> {"none", "done", "failed"}]
    /\ current \subseteq Events /\ events \subseteq Events
    /\ \A b \in DOMAIN design.barriers : seen[b] \subseteq ToSet(design.barriers[b])
    /\ nextTick \in [DOMAIN design.timers -> Nat]
    /\ deltas \in Nat /\ now \in Nat
    /\ writes \in WritesType /\ frame.local \in WritesType
    /\ frame.at \in Places
    /\ frame.process \in DOMAIN design.processes \cup {0}
    /\ \A k \in DOMAIN frame.todo : frame.todo[k].kind \in Statements
    /\ outcome \in {"running", "quiescent", "exhausted", "failed", "completed"}
    /\ doubt \in BOOLEAN

(* Delta cycles implement simultaneous assignment: no process, timeout or  *)
(* failed delta ever changes a value alone, and every change is announced. *)
Cycle == INSTANCE DeltaCycle WITH
    Names <- Signals,
    Contents <- Values,
    announced <- {s \in Signals : <<s, "changed">> \in events}

CommitsAreDeltas == Cycle!Spec

(* A process that waits for a signal runs in the delta that follows each   *)
(* change of it, and no run counts as quiescent with such a process left   *)
(* over, whatever timers, timeouts and other processes do in between.      *)
NoLostWakeup ==
    /\ frame.at = "committing" => history.owed \subseteq history.ran
    /\ outcome = "quiescent" => history.owed = {}

(* docs/RUNTIME_SPEC.md: "Two processes writing different values to one    *)
(* signal in one delta is an error": once a delta is committed, all its    *)
(* drivers of a signal agree on what they left there.                      *)
LastWrite(process, s) ==
    writes.signals[Max({k \in WritesOf(writes.signals, s) :
                           writes.signals[k].process = process})].value

DriversOf(s) == {writes.signals[k].process : k \in WritesOf(writes.signals, s)}

DriversAgree ==
    frame.at = "top" =>
        \A s \in Driven(writes.signals) : \A p, q \in DriversOf(s) :
            LastWrite(p, s) = LastWrite(q, s)

(* The comparison of neighbouring writes is enough where no process writes *)
(* a signal twice in one delta: then no two drivers ever disagree.         *)
WrittenOnce ==
    \A j, k \in DOMAIN writes.signals :
        /\ writes.signals[j].signal = writes.signals[k].signal
        /\ writes.signals[j].process = writes.signals[k].process
        => j = k

SingleDriversAgree == WrittenOnce => DriversAgree

(* A barrier fires exactly when every member has been written since it     *)
(* last fired, the delta in which it fired included.                       *)
Readied(b) == frame.at = "committing" /\ <<b, "ready">> \in events'

BarrierCounts ==
    [][\A b \in DOMAIN design.barriers : \A members \in {ToSet(design.barriers[b])} :
          /\ Readied(b) =>
                \A m \in members : history'.written[m] >= Max({1, history.fired[b]})
          /\ frame.at = "committing" /\ frame'.at # "ended" /\ ~Readied(b) =>
                \E m \in members : history'.written[m] <= history.fired[b]]_vars

(* What a block may write.                                                 *)
Writes(statement, s) ==
    \/ statement.kind \in {"assign", "declassify"} /\ statement.target = s
    \/ statement.kind = "call" /\ statement.output = s

(* A process that was timed out writes what its handler writes and nothing *)
(* that its dropped body had written before.                               *)
OnlyHandlersOfLateProcesses ==
    \A k \in DOMAIN writes.signals :
        LET w == writes.signals[k] IN
        w.process \in history.late =>
            \E statement \in Code(design.processes[w.process].onTimeout) :
                Writes(statement, w.signal)

(* A signal that only releases write holds nothing but content that every  *)
(* means of the declassifier has allowed as it is, in the delta that wrote *)
(* it: no earlier answer, no answer to other content.                      *)
OnlyReleasedBy(declassifier, s) ==
    /\ design.initial[s] = Null /\ s \notin design.inputs
    /\ \A i \in DOMAIN design.processes :
          \A statement \in Code(design.processes[i].body) \cup Code(design.processes[i].onTimeout) :
              Writes(statement, s) =>
                  statement.kind = "declassify" /\ statement.using = declassifier

Allows(declassifier, delta, content) ==
    /\ design.declassifiers[declassifier].filter # {} =>
          <<delta, declassifier, "filter", content>> \in history.allowed
    /\ design.declassifiers[declassifier].approval =>
          <<delta, declassifier, "human", content>> \in history.allowed

ReleasesAreAllowed ==
    \A d \in DOMAIN design.declassifiers, s \in Signals :
        OnlyReleasedBy(d, s) /\ values[s] # Null => Allows(d, history.written[s], values[s])

(* A timer ticks once per period: never early, and a tick that became due  *)
(* during a long delta is neither lost nor moved.                          *)
TicksKeepTime ==
    \A t \in DOMAIN design.timers :
        /\ nextTick[t] = design.timers[t] * (history.ticks[t] + 1)
        /\ design.timers[t] * history.ticks[t] <= now

(* Every run ends, with a verdict: loops and timers are stopped by a       *)
(* budget.                                                                 *)
RunEnds == <>(outcome \in {"completed", "failed"})
=============================================================================
