----------------------------- MODULE MCDesignRun -----------------------------
(***************************************************************************)
(* Small designs for TLC, after the tutorial examples and the tests of     *)
(* design.rs.  "coder" is bound to a write route, "tool" is not.           *)
(***************************************************************************)
EXTENDS DesignRun

TheSignals == <<"count", "left", "report", "right", "task">>
TheParts == {"coder", "release", "tool"}

On(events_, body) ==
    [sensitivity |-> events_, body |-> body, timeout |-> {}, onTimeout |-> <<>>]
OnWithin(events_, body, handler) ==
    [sensitivity |-> events_, body |-> body, timeout |-> {1}, onTimeout |-> handler]

Task == {<<"task", "changed">>}

Base ==
    [processes |-> <<>>,
     initial |-> [s \in ToSet(TheSignals) |-> Null],
     inputs |-> {"task"},
     class |-> [s \in ToSet(TheSignals) |-> 1],
     cloud |-> {"coder"}, cloudFloor |-> 2,
     clearance |-> [p \in TheParts |-> {1}],
     writers |-> {"coder"},
     declassifiers |-> [d \in {"release"} |-> [from |-> 2, to |-> 1, filter |-> {"tool"}, approval |-> TRUE]],
     assertions |-> {},
     timers |-> <<>>, barriers |-> <<>>,
     iterations |-> {}, wallTime |-> {}]

(* A loop that calls until count reaches 3, stopped by its condition.      *)
Feedback ==
    [Base EXCEPT
        !.processes = <<
            On(Task, <<AssignTo("count", Const(1))>>),
            On({<<"count", "changed">>},
               <<If(<<[condition |-> Equals("count", 1), body |-> <<CallTo("tool", Const(0), "left")>>],
                      [condition |-> Below("count", 3), body |-> <<CallTo("tool", Read("task"), "left")>>]>>,
                    <<>>)>>),
            On({<<"tool", "done">>},
               <<AssignTo("report", Read("left")), AssignTo("count", Plus("count", 1))>>),
            On({<<"tool", "failed">>}, <<AssertThat(Equals("report", Null))>>)>>,
        !.assertions = {[condition |-> Equals("count", 4), expected |-> FALSE]}]

(* The same loop without a condition: the budget or an overflow ends it.   *)
Endless ==
    [Base EXCEPT
        !.processes = <<
            On({<<"task", "changed">>, <<"count", "changed">>, <<"left", "changed">>},
               <<AssignTo("right", Plus("count", 0)), AssignTo("count", Plus("count", 1))>>),
            On({<<"right", "changed">>}, <<CallTo("tool", Read("right"), "left")>>)>>,
        !.initial = [Base.initial EXCEPT !["count"] = 0],
        !.iterations = {6}]

(* Two calls whose results commit together; the failed one is repeated.    *)
Joined ==
    [Base EXCEPT
        !.processes = <<
            On(Task, <<InParallel(<<CallTo("tool", Read("task"), "left"),
                                    CallTo("coder", Read("task"), "right")>>)>>),
            On({<<"coder", "failed">>}, <<TimedCall("coder", Read("task"), "right")>>),
            On({<<"both", "ready">>},
               <<AssignTo("report", Read("right")),
                 IfElse(Status("coder", "done"), <<CallTo("tool", Const(0), "left")>>, <<>>)>>),
            On({<<"report", "changed">>}, <<AssignTo("right", Const(0))>>)>>,
        !.barriers = [b \in {"both"} |-> <<"left", "right">>],
        !.iterations = {5}]

(* Body and call timeouts; the handler writes another signal.              *)
Timed ==
    [Base EXCEPT
        !.processes = <<
            OnWithin(Task, <<AssignTo("report", Const(1)), TimedCall("coder", Read("task"), "left"),
                             TimedCall("tool", Read("task"), "left")>>,
                     <<IfElse(Equals("count", Null), <<AssignTo("right", Const(1))>>, <<>>)>>),
            On({<<"coder", "timeout">>, <<"right", "changed">>}, <<AssignTo("count", Const(1))>>),
            On({<<"left", "changed">>}, <<AssignTo("count", Read("left"))>>)>>]

(* Two drivers of one signal, that agree or not.                           *)
Drivers ==
    [Base EXCEPT
        !.processes = <<
            On(Task, <<AssignTo("report", Const(1))>>),
            On(Task, <<CallTo("tool", Read("task"), "report")>>),
            On(Task, <<IfElse(Equals("task", 0), <<AssignTo("report", Const(1))>>, <<>>)>>)>>]

(* A draft that is released to the report after the filter and the human.  *)
Released ==
    [Base EXCEPT
        !.processes = <<
            On(Task, <<AssignTo("left", Read("task"))>>),
            OnWithin({<<"left", "changed">>}, <<ReleaseTo("report", Read("left"), "release")>>,
                     <<AssignTo("count", Const(1))>>),
            On({<<"release", "failed">>}, <<AssignTo("left", Const(0))>>)>>,
        !.class = [Base.class EXCEPT !["left"] = 2, !["task"] = 2]]

HumanOnly ==
    [Released EXCEPT !.declassifiers =
        [d \in {"release"} |-> [from |-> 2, to |-> 1, filter |-> {}, approval |-> TRUE]]]

FilterOnly ==
    [Released EXCEPT !.declassifiers =
        [d \in {"release"} |-> [from |-> 2, to |-> 1, filter |-> {"tool"}, approval |-> FALSE]]]

(* Two timers with a common multiple, one of them calling a device.        *)
Ticking ==
    [Base EXCEPT
        !.processes = <<
            On({<<"clock", "tick">>}, <<AssignTo("count", Plus("count", 1))>>),
            On({<<"slow", "tick">>, <<"count", "changed">>},
               <<IfElse(Raised(<<"slow", "tick">>), <<CallTo("tool", Read("count"), "left")>>, <<>>)>>)>>,
        !.initial = [Base.initial EXCEPT !["count"] = 0],
        !.timers = [t \in {"clock", "slow"} |-> IF t = "clock" THEN 2 ELSE 3],
        !.wallTime = {5}]

CountedTicks == [Ticking EXCEPT !.wallTime = {}, !.iterations = {3}]

(* What the violation runs need.  The checker accepts a barrier that names *)
(* one member twice.                                                       *)
WritesTwice ==
    [Base EXCEPT !.processes = <<
        On(Task, <<AssignTo("report", Const(1))>>),
        On(Task, <<AssignTo("report", Const(1)), AssignTo("report", Const(0))>>)>>]

NamedTwice ==
    [Joined EXCEPT !.barriers = [b \in {"both"} |-> <<"left", "left">>]]

AllDesigns == {Feedback, Endless, Joined, Timed, Drivers,
               Released, HumanOnly, FilterOnly, Ticking, CountedTicks}
DoubleWriters == {WritesTwice}
TwiceNamed == {NamedTwice}
=============================================================================
