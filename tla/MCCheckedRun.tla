---------------------------- MODULE MCCheckedRun ----------------------------
(***************************************************************************)
(* Sources for TLC: the process patterns of the checker's tests and of the *)
(* tutorial examples, each under every labelling of its signals, most of   *)
(* which the checker rejects.  "agent" is in the cloud, "tool" is local,   *)
(* "release" lowers restricted content to public.                          *)
(***************************************************************************)
EXTENDS CheckedRun

TheSignals == <<"draft", "report", "task">>
TheParts == {"agent", "release", "tool"}

TheRoutes ==
    [plan |-> [kind |-> "model", codex |-> FALSE, write |-> FALSE, location |-> "local"],
     write |-> [kind |-> "model", codex |-> FALSE, write |-> FALSE, location |-> "cloud"],
     commit |-> [kind |-> "mcp", codex |-> FALSE, write |-> TRUE, location |-> "local"],
     test |-> [kind |-> "mcp", codex |-> FALSE, write |-> FALSE, location |-> "local"]]

IdentOf(key, value) == [key |-> key, form |-> "ident", value |-> value]
StringOf(key, value) == [key |-> key, form |-> "string", value |-> value]
DeviceOf(name, type, generics) ==
    [kind |-> "device", name |-> name, type |-> type, generics |-> generics]
SignalsOf(names, label) == [kind |-> "signal", names |-> names, label |-> label, initial |-> {}]
BarrierOf(name, members) == [kind |-> "barrier", name |-> name, members |-> members]
TimerOf(name, period) == [kind |-> "timer", name |-> name, period |-> period]
BudgetOf(limits) == [kind |-> "budget", name |-> "limits", limits |-> limits]
CountOf(key, n) == [key |-> key, form |-> "count", value |-> n]

Agent == DeviceOf("agent", "agent", <<StringOf("route", "write"), IdentOf("location", "cloud")>>)
Strayed == DeviceOf("agent", "agent", <<StringOf("route", "write")>>)
Writer == DeviceOf("tool", "deterministic", <<StringOf("route", "commit")>>)
Tool == DeviceOf("tool", "deterministic", <<StringOf("route", "test"), IdentOf("clearance", "internal")>>)
ReleasedBy(means) ==
    DeviceOf("release", "declassifier",
             <<IdentOf("from", "restricted"), IdentOf("to", "public")>> \o means)
Narrow == DeviceOf("release", "declassifier",
                   <<IdentOf("from", "internal"), IdentOf("to", "public"), IdentOf("approval", "human")>>)
Flat == DeviceOf("release", "declassifier",
                 <<IdentOf("from", "internal"), IdentOf("to", "internal"), IdentOf("approval", "human")>>)
ByHuman == <<IdentOf("approval", "human")>>
ByFilter == <<IdentOf("filter", "tool"), IdentOf("filter_method", "check")>>

On(trigger, body) ==
    [kind |-> "process", triggers |-> <<trigger>>, body |-> body, timeout |-> {}, onTimeout |-> <<>>]
OnWithin(trigger, body, handler) ==
    [On(trigger, body) EXCEPT !.timeout = {1}, !.onTimeout = handler]
Never(class) == [kind |-> "assert", rule |-> "never_flow", class |-> class, location |-> "cloud"]

Set(s) == AssignTo(s, Const(1))
OnTask(body) == On(<<"task", "">>, body)
Case(s, v, body) == [condition |-> Equals(s, v), body |-> body]

OnClock(body) == On(<<"clock", "">>, body)

(* The statements of an architecture.                                      *)
Decisions == <<
    OnClock(<<If(<<Case("task", 0, <<>>), Case("draft", 1, <<>>)>>, <<Set("report")>>)>>),
    On(<<"report", "changed">>,
       <<AssertThat(Equals("report", 1)),
         IfElse(Equals("task", 1), <<IfElse(Equals("report", 1), <<>>, <<Set("draft")>>),
                                     CallTo("agent", Const(0), "draft")>>, <<>>),
         AssignTo("draft", Plus("report", 0))>>),
    On(<<"report", "">>, <<IfElse(Equals("task", 0), <<AssignTo("draft", Const(0))>>, <<>>)>>)>>

Successions == <<
    OnClock(<<CallTo("tool", Sum("task", "task"), "draft")>>),
    On(<<"tool", "done">>, <<CallTo("agent", Const(0), "draft")>>),
    On(<<"agent", "failed">>, <<Set("report")>>)>>

Handlers == <<
    OnWithin(<<"clock", "">>, <<Set("draft"), TimedCall("tool", Read("task"), "draft")>>,
             <<Set("report")>>),
    On(<<"tool", "timeout">>, <<CallTo("agent", Const(1), "draft")>>)>>

Barriers == <<
    OnClock(<<InParallel(<<CallTo("tool", Read("task"), "draft"), CallTo("tool", Const(0), "report")>>)>>),
    On(<<"both", "ready">>, <<IfElse(Status("tool", "done"), <<Set("report")>>, <<>>)>>)>>

Releases == <<
    OnTask(<<ReleaseTo("draft", Read("task"), "release")>>),
    On(<<"release", "failed">>, <<Set("report")>>),
    On(<<"draft", "">>, <<CallTo("agent", Sum("draft", "report"), "report")>>)>>

Publications == <<
    OnClock(<<ReleaseTo("draft", Read("task"), "release")>>),
    On(<<"draft", "">>, <<CallTo("agent", Read("draft"), "report")>>)>>

Guarded == <<
    OnTask(<<IfElse(Equals("task", 1), <<ReleaseTo("draft", Const(1), "release")>>,
                    <<Set("draft")>>)>>),
    On(<<"draft", "">>, <<CallTo("agent", Read("draft"), "report")>>)>>

Retries == <<
    OnTask(<<TimedCall("tool", Read("task"), "draft")>>),
    On(<<"tool", "failed">>, <<IfElse(Equals("task", 1), <<CallTo("tool", Read("task"), "draft")>>,
                                      <<>>)>>)>>

Echoes == <<
    OnTask(<<AssignTo("draft", Read("task"))>>),
    On(<<"draft", "">>, <<CallTo("tool", Read("draft"), "task")>>)>>

(* Optional labels, and the other declarations.                            *)
Labels == {{"public"}, {"internal"}, {"restricted"}}

SourceOf(labels, declarations, statements) ==
    [entities |-> <<[name |-> "main", ports |->
        <<[names |-> <<"task">>, mode |-> "in", label |-> labels["task"]],
          [names |-> <<"report">>, mode |-> "out", label |-> labels["report"]]>>]>>,
     architectures |-> <<[entity |-> "main",
        declarations |-> <<SignalsOf(<<"draft">>, labels["draft"])>> \o declarations,
        statements |-> statements]>>]

Unlabeled == [[s \in ToSet(TheSignals) |-> {"restricted"}] EXCEPT !["task"] = {}]

Labellings == [ToSet(TheSignals) -> Labels] \cup {Unlabeled}

Filtered == ReleasedBy(ByFilter)
Asked == ReleasedBy(ByHuman)
Clock == TimerOf("clock", 1)
Both == BarrierOf("both", <<"draft", "report">>)
Brief == BudgetOf(<<[key |-> "wall_time", form |-> "time", value |-> 1]>>)
Limits == BudgetOf(<<CountOf("iterations", 5)>>)

TheSources ==
    UNION {{SourceOf(l, <<Agent, Tool, Filtered, Clock, Limits>>, Decisions),
            SourceOf(l, <<Agent, Tool, Filtered, Clock, Limits>>, Successions),
            SourceOf(l, <<Agent, Tool, Filtered, Clock, Limits>>, Handlers),
            SourceOf(l, <<Agent, Tool, Filtered, Clock, Brief>>, Handlers),
            SourceOf(l, <<Agent, Tool, Asked, Clock, Both, Limits>>, Barriers),
            SourceOf(l, <<Agent, Tool, ReleasedBy(ByHuman \o ByFilter \o <<IdentOf("clearance", "internal")>>), Limits>>,
                     Releases),
            SourceOf(l, <<Agent, Tool, Filtered, Limits>>, Releases \o <<Never("internal")>>),
            SourceOf(l, <<Agent, Writer, Filtered, Limits>>, Releases),
            SourceOf(l, <<Strayed, Tool, Filtered, Limits>>, Releases),
            SourceOf(l, <<Agent, Tool, Flat, Limits>>, Releases),
            SourceOf(l, <<Agent, Tool, Asked, Limits>>, Guarded),
            SourceOf(l, <<Agent, Tool, Filtered, Limits>>, Guarded),
            SourceOf(l, <<Agent, Tool, Narrow, Limits>>, Guarded),
            SourceOf(l, <<Agent, Tool, Narrow, Limits>>, <<Guarded[1]>>),
            SourceOf(l, <<Agent, Tool, Filtered, Clock, Limits>>, Publications),
            SourceOf(l, <<Agent, Tool, Narrow, Clock, Limits>>, Publications),
            SourceOf(l, <<Agent, Tool, Filtered, Limits>>, Retries),
            SourceOf(l, <<Agent, Tool, Asked, Limits>>, Echoes)} : l \in Labellings}

TheDesigns == {Compiled(s) : s \in {t \in TheSources : Compiles(t)}}
=============================================================================
