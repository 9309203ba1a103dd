----------------------------- MODULE LabeledRun -----------------------------
(***************************************************************************)
(* Runs of designs that the checker accepts and the compiler binds, with   *)
(* an observer that changes nothing: "flow" follows the class of every     *)
(* value, event and step through the run.  It says whether the static      *)
(* analysis and its drawing are right about what the interpreter does.     *)
(***************************************************************************)
EXTENDS DesignRun, FlowView

CONSTANT Sources   \* the sources offered to the checker

(* What the parser yields: statements are of the known kinds and nest to   *)
(* some depth, and what computes a value reads signals.  Which names there *)
(* are, and what for, is up to the checker.                                *)
ParsedBlock(block) ==
    /\ IsSequence(block) /\ Nests(block)
    /\ \A s \in Code(block) :
          /\ s.kind \in Statements
          /\ s.kind \in {"assign", "declassify"} => s.value \in Expressions
          /\ s.kind = "if" => IsSequence(s.branches)
          /\ \A inner \in Blocks(s) : IsSequence(inner)

ParsedArchitecture(architecture) ==
    /\ IsSequence(architecture.declarations) /\ IsSequence(Processes(architecture))
    /\ \A p \in ToSet(Processes(architecture)) : ParsedBlock(p.body) /\ ParsedBlock(p.onTimeout)
    /\ \A d \in Declared(architecture, "device") : d.name \in Parts
    /\ \A d \in Declared(architecture, "signal") : d.initial \subseteq Expressions
    /\ \A d \in Declared(architecture, "timer") : d.period \in Nat
    /\ \A d \in Declared(architecture, "barrier") : IsSequence(d.members) /\ d.members # <<>>

(* SignalOrder and Parts list the names that are declared.                 *)
SourceOk(s) ==
    /\ IsSequence(s.architectures)
    /\ \A architecture \in ToSet(s.architectures) : ParsedArchitecture(architecture)
    /\ Compiles(s) => DOMAIN Compiled(s).class = Signals

ASSUME SourcesAssumption == \A s \in Sources : SourceOk(s)

VARIABLES source,   \* the source the design was compiled from
          flow      \* classes at run time, see Unmarked

labeledVars == <<vars, source, flow>>

-----------------------------------------------------------------------------
(* flow.label is the class of each signal's value, flow.heard that of each *)
(* event of the current delta, flow.collected those of the events and      *)
(* writes of the processes that ran in it.  For the running process: the   *)
(* class of what woke it (base), of the ifs it is inside of (scopes, with  *)
(* the number of statements that follow), of the calls and releases its    *)
(* body has made (made), and of its own writes and events.                 *)
NoMarks == [signals |-> <<>>, events |-> <<>>]

Unmarked(d) ==
    [label |-> [s \in Signals |-> Public], heard |-> <<>>, collected |-> NoMarks,
     base |-> Public, scopes |-> {}, made |-> Public, own |-> NoMarks]

Context == Strongest({flow.base} \cup {scope.class : scope \in flow.scopes})

LabelOf(e) == Strongest({flow.label[s] : s \in NamesIn(e) \cap Signals})

Joining(f, g) == [x \in DOMAIN f \cup DOMAIN g |->
                    Strongest({f[y] : y \in {x} \cap DOMAIN f} \cup {g[y] : y \in {x} \cap DOMAIN g})]

(* The ifs that still enclose the next statement.                          *)
Enclosing(scopes) == {scope \in scopes : scope.after < Len(frame'.todo)}

Go(marked) == flow' = [marked EXCEPT !.scopes = Enclosing(@)]

Marked(class, signals, raised) ==
    [flow EXCEPT !.own = [signals |-> @.signals \o [k \in 1..signals |-> class],
                          events |-> Joining(@.events, [e \in raised |-> class])]]

(* A process begins, or the delta is over.                                 *)
Waking(current_, collected) ==
    [flow EXCEPT
        !.heard = current_, !.collected = collected, !.own = NoMarks, !.made = Public, !.scopes = {},
        !.base = IF frame'.at # "running" THEN Public
                 ELSE Strongest({current_[e] : e \in DOMAIN current_ \cap
                                    design.processes[frame'.process].sensitivity})]

Revealing == Strongest({LabelOf(Given(Statement)), Context})

ReleasedClass == IF Declassifier.approval THEN Declassifier.to
                 ELSE Strongest({Declassifier.to, Context})

(* The last write of each signal decides.                                  *)
LabelsAfter ==
    [s \in Signals |-> IF s \in Driven(writes.signals)
                       THEN flow.collected.signals[Max(WritesOf(writes.signals, s))]
                       ELSE flow.label[s]]

EventLabels(labels) ==
    [e \in events' |->
        CASE e[2] = "changed" -> labels[e[1]]
          [] e[2] = "ready" -> Strongest({labels[m] : m \in ToSet(design.barriers[e[1]])})
          [] OTHER -> flow.collected.events[e]]

FlowOfDelta ==
    \/ FireTimers /\ flow' = [flow EXCEPT !.heard = [e \in events' |-> Public]]
    \/ BeginDelta /\ flow' = Waking(flow.heard, NoMarks)
    \/ /\ ProcessEnds
       /\ flow' = Waking(flow.heard,
                         [signals |-> flow.collected.signals \o flow.own.signals,
                          events |-> Joining(flow.collected.events, flow.own.events)])
    \/ Commit /\ flow' = [flow EXCEPT !.label = LabelsAfter, !.heard = EventLabels(LabelsAfter)]

FlowOfStatements ==
    \/ AssignSignal /\ Go(Marked(Revealing, 1, {}))
    \/ Branch /\ Go([flow EXCEPT !.scopes =
                        @ \cup {[after |-> Len(frame.todo) - 1,
                                 class |-> Strongest({LabelOf(c) : c \in Conditions(Statement)})]}])
    \/ (CheckAssertion \/ ParallelCalls) /\ Go(flow)
    \/ (CallDevice \/ Declassify) /\ flow' = [flow EXCEPT !.made = Strongest({@, Revealing})]
    \/ /\ \E result \in Results : CallSucceeds(result)
       /\ Go(Marked(Revealing, 1, {<<Statement.device, "done">>}))
    \/ CallFails /\ Go(Marked(Revealing, 0, {<<Statement.device, "failed">>}))
    \/ CallTimesOut /\ Go(Marked(Revealing, 0, {<<Statement.device, "failed">>,
                                               <<Statement.device, "timeout">>}))
    \/ /\ Release
       /\ LET event == [e \in {<<Statement.using, "done">>} |-> Revealing] IN
          Go([flow EXCEPT !.own = [signals |-> Append(@.signals, ReleasedClass),
                                   events |-> Joining(@.events, event)]])
    \/ RefuseRelease /\ Go(Marked(Revealing, 0, {<<Statement.using, "failed">>}))
    \/ /\ ProcessTimesOut
       /\ Go([flow EXCEPT !.base = Strongest({@, flow.made}), !.scopes = {}, !.own = NoMarks])

NoFlow ==
    /\ \/ OutOfWallTime \/ Quiesce \/ Sleep \/ SleepOut \/ HasEvents \/ OutOfIterations \/ Conflict
       \/ Judge \/ Fail \/ AuditFails \/ Tick
       \/ \E pass \in BOOLEAN : FilterAnswers(pass)
       \/ \E granted \in BOOLEAN, echo \in Results : HumanAnswers(granted, echo)
    /\ UNCHANGED flow

-----------------------------------------------------------------------------
LabeledInit ==
    /\ source \in {s \in Sources : Compiles(s)}
    /\ design = Compiled(source) /\ Init
    /\ flow = [Unmarked(design) EXCEPT
                  !.label = [s \in Signals |-> IF <<s, "changed">> \in events THEN design.class[s]
                                               ELSE Public],
                  !.heard = [e \in events |-> design.class[e[1]]]]

LabeledNext == (FlowOfDelta \/ FlowOfStatements \/ NoFlow) /\ UNCHANGED source

LabeledSpec == LabeledInit /\ [][LabeledNext]_labeledVars

-----------------------------------------------------------------------------
(* The static flow analysis is right about runs: whatever woke a process,  *)
(* branched, timed out or was released on the way, no value is stronger    *)
(* than the class its signal declares.                                     *)
FlowsStayLabeled == \A s \in Signals : flow.label[s] <= design.class[s]

(* A call statement tells its device, by what it gives and by the call     *)
(* being made, nothing that the place or the clearance of the device       *)
(* forbids.  Who judges a release, filter or human, is shown only content  *)
(* within the range that may be released; a human is asked only in         *)
(* circumstances within it, and no filter is in the cloud against the      *)
(* floor.  The clearance of a filter is not in it: SECURITY_SPEC.md has    *)
(* the checks "run again before each device call", but neither checker nor *)
(* interpreter asks for the clearance when a filter is called.             *)
CallsStayCleared ==
    /\ frame.at = "calling" =>
          /\ Statement.device \in design.cloud => Revealing < design.cloudFloor
          /\ \A clearance \in design.clearance[Statement.device] : Revealing <= clearance
    /\ frame.at = "filtering" =>
          /\ LabelOf(Given(Statement)) <= Declassifier.from
          /\ \A f \in Declassifier.filter \cap design.cloud : Revealing < design.cloudFloor
    /\ frame.at = "asking" => Revealing <= Declassifier.from

(* The guard that repeats the static rules before each call, on the place  *)
(* of the bound route, never refuses a call of an accepted design.         *)
GuardNeverRefuses ==
    Running("call") => Cleared(design, Statement.device, Statement.argument)

(* "Flows the checker forbids are drawn as denied, never as ordinary       *)
(* edges" (project.rs): a value and a device are drawn apart exactly when  *)
(* a call that gives the one to the other would be rejected for what it    *)
(* gives, and a design that is accepted has no denied ordinary flow, but   *)
(* into a declassifier whose clearance only the drawing holds against it.  *)
DrawnApart(view, v, d) ==
    \/ Flow(ValueNode(v), DeviceNode(d)) \in view.denied
    \/ {Flow(ValueNode(v), CloudRule), Flow(CloudRule, DeviceNode(d))} \subseteq view.denied

Forbidden(scope, v, d) == CallErrors(scope, CallTo(d, Read(v), v)) \cap {"E301", "E302"} # {}

IntoCleared(scope, declassifiers) ==
    {Flow(ValueNode(v), DeviceNode(d)) :
        v \in Signals, d \in {e \in declassifiers : Clearance(scope.devices[e]) # {}}}

DenialsMatchTheChecker ==
    deltas = 0 =>
        LET scope == ScopeOf(source)
            view == SecurityView(EntityOf(source), ArchitectureOf(source))
            releasers == DOMAIN design.declassifiers
        IN /\ \A v \in Signals, d \in DOMAIN scope.devices \ releasers :
                 DrawnApart(view, v, d) <=> Forbidden(scope, v, d)
           /\ OrdinaryFlows(scope, Processes(ArchitectureOf(source))) \ IntoCleared(scope, releasers)
                 \subseteq view.allowed
=============================================================================
