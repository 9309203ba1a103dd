------------------------------- MODULE Compile -------------------------------
(***************************************************************************)
(* From an accepted source to the design that runs (design.rs compile,     *)
(* bind, declassifier): exactly one architecture, every device bound to a  *)
(* configured route of its kind and location, and the limits that the      *)
(* runtime enforces.                                                       *)
(***************************************************************************)
EXTENDS Checker

CONSTANTS Routes,        \* configured routes: name -> [kind, codex, write, location]
          DefaultRoute   \* routes.default_action, the planner

EnforcedLimits == {"iterations", "tool_calls", "model_calls", "wall_time"}

RouteOf(device) == {g.value : g \in {h \in Generic(device, "route") : h.form = "string"}}

Compatible(type, route) ==
    CASE type = "agent" -> route.kind = "model" \/ route.codex
      [] type = "mcp" -> route.kind = "mcp" /\ ~route.codex
      [] type = "deterministic" -> route.kind = "mcp" /\ ~route.codex /\ ~route.write
      [] OTHER -> FALSE

(* Kind and location must agree with the configuration, or the flow check  *)
(* would have reasoned about another place than the one data is sent to.   *)
Binds(device) ==
    \E r \in RouteOf(device) \cap DOMAIN Routes : /\ r # DefaultRoute
                                                  /\ Compatible(device.type, Routes[r])
                                                  /\ LocationOf(device) = Routes[r].location

(* A declassifier has no route: it is a policy over other devices.         *)
HasMeans(device) ==
    /\ (Ident(device, "filter") = {}) = (Ident(device, "filter_method") = {})
    /\ Ident(device, "filter") # {} \/ "human" \in Ident(device, "approval")
    /\ ReleaseRange(device) # {}

MeansOf(device) ==
    LET range == CHOOSE r \in ReleaseRange(device) : TRUE IN
    [from |-> range.from, to |-> range.to,
     filter |-> Ident(device, "filter"), approval |-> "human" \in Ident(device, "approval")]

DeviceCompiles(device) == IF IsDeclassifier(device) THEN HasMeans(device) ELSE Binds(device)

BudgetLimits(architecture) ==
    UNION {ToSet(d.limits) : d \in Declared(architecture, "budget")}

(* Of several budgets with the same limit the last one counts.             *)
LimitOf(architecture, key) ==
    LET budgets == architecture.declarations
        Limiting == {i \in DOMAIN budgets : budgets[i].kind = "budget" /\
                        key \in {limit.key : limit \in ToSet(budgets[i].limits)}}
        Latest == {i \in Limiting : \A j \in Limiting : j <= i}
    IN {limit.value : limit \in {l \in UNION {ToSet(budgets[i].limits) : i \in Latest} : l.key = key}}

Compiles(source) ==
    /\ Accepted(source)
    /\ Len(source.architectures) = 1
    /\ LET architecture == source.architectures[1] IN
       /\ \A d \in Declared(architecture, "device") : DeviceCompiles(d)
       /\ \A s \in Declared(architecture, "signal") : \A e \in s.initial : NamesIn(e) = {}
       /\ {limit.key : limit \in BudgetLimits(architecture)} \subseteq EnforcedLimits
       /\ Declared(architecture, "timer") # {} =>
             LimitOf(architecture, "iterations") \cup LimitOf(architecture, "wall_time") # {}

-----------------------------------------------------------------------------
(* The event of a trigger: a plain name is the change of a signal, the     *)
(* tick of a timer, the readiness of a barrier.                            *)
EventOf(scope, trigger) ==
    CASE trigger[1] \in DOMAIN scope.class -> <<trigger[1], "changed">>
      [] trigger[1] \in scope.timers -> <<trigger[1], "tick">>
      [] trigger[1] \in DOMAIN scope.barriers -> <<trigger[1], "ready">>
      [] OTHER -> trigger

RunnableProcess(scope, p) ==
    [sensitivity |-> {EventOf(scope, t) : t \in ToSet(p.triggers)},
     body |-> p.body, timeout |-> p.timeout, onTimeout |-> p.onTimeout]

(* The initial value of an internal signal is a constant, that of a port   *)
(* Null.                                                                   *)
InitialOf(architecture, s) ==
    LET given == UNION {d.initial : d \in {e \in Declared(architecture, "signal") :
                                              s \in ToSet(e.names)}}
    IN IF given = {} THEN Null ELSE ValueOf(CHOOSE e \in given : TRUE, <<>>)

(* compile computes the floor again: the lowest class that no rule lets    *)
(* into the cloud.                                                         *)
DesignFloor(architecture) ==
    Min({Restricted} \cup
        UNION {ParseClass(a.class) : a \in {s \in Assertions(architecture) :
                                              s.rule = "never_flow" /\ s.location = "cloud"}})

ArchitectureOf(source) == source.architectures[1]

EntityOf(source) == CHOOSE e \in EntitiesOf(source, ArchitectureOf(source)) : TRUE

ScopeOf(source) == Scope(EntityOf(source), ArchitectureOf(source))

(* The runnable design of a source that compiles.  A declassifier is in no *)
(* place and clears nothing.                                               *)
Compiled(source) ==
    LET architecture == ArchitectureOf(source)
        scope == ScopeOf(source)
        bound == {d \in DOMAIN scope.devices : ~IsDeclassifier(scope.devices[d])}
        RouteFor(d) == Routes[CHOOSE r \in RouteOf(scope.devices[d]) : TRUE]
    IN [processes |-> [i \in DOMAIN Processes(architecture) |->
                          RunnableProcess(scope, Processes(architecture)[i])],
        initial |-> [s \in Signals |-> InitialOf(architecture, s)],
        inputs |-> UNION {ToSet(p.names) : p \in {q \in ToSet(EntityOf(source).ports) : q.mode # "out"}},
        class |-> scope.class,
        cloud |-> {d \in bound : RouteFor(d).location = "cloud"},
        cloudFloor |-> DesignFloor(architecture),
        clearance |-> [d \in Parts |-> IF d \in bound THEN Clearance(scope.devices[d]) ELSE {}],
        writers |-> {d \in bound : RouteFor(d).write},
        declassifiers |-> [d \in DOMAIN scope.devices \ bound |-> MeansOf(scope.devices[d])],
        assertions |-> {[condition |-> a.condition, expected |-> a.rule = "always"] :
                           a \in {s \in Assertions(architecture) : s.rule # "never_flow"}},
        timers |-> [t \in scope.timers |->
                       (CHOOSE d \in Declared(architecture, "timer") : d.name = t).period],
        barriers |-> [b \in DOMAIN scope.barriers |-> scope.barriers[b].members],
        iterations |-> LimitOf(architecture, "iterations"),
        wallTime |-> LimitOf(architecture, "wall_time")]
=============================================================================
