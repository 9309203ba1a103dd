------------------------------ MODULE FlowView ------------------------------
(***************************************************************************)
(* The security view of a design (awhdl-graph project.rs): what flows      *)
(* where, and what may not.  An edge is identified by its kind and its     *)
(* ends, a second one of the same identity merges into the first, so a     *)
(* view is a set of edges; labels, groups, lanes, nodes without edges and  *)
(* what the options --show-policies and --show-internal add are left out.  *)
(*                                                                         *)
(* A node is <<kind, name>>.                                               *)
(***************************************************************************)
EXTENDS Compile

Edge(kind, from, to) == [kind |-> kind, from |-> from, to |-> to]

ValueNode(name) == <<"value", name>>
DeviceNode(name) == <<"device", name>>
CloudRule == <<"policy", "never.cloud">>

ReadsOf(scope, e) == {ValueNode(n) : n \in NamesIn(e) \cap DOMAIN scope.class}

ProcessStatements(p) == Code(p.body) \cup Code(p.onTimeout)

Flow(from, to) == Edge("security_flow", from, to)

FlowsOfCall(scope, call) ==
    LET device == DeviceNode(call.device)
        human == scope.devices[call.device].type = "human"
    IN {Edge(IF human THEN "approval_gate" ELSE "security_flow", v, device) :
           v \in ReadsOf(scope, call.argument)}
         \cup {Flow(device, ValueNode(call.output))}

(* The exact content goes to the filter before any release.                *)
FlowsOfRelease(scope, release) ==
    LET releaser == DeviceNode(release.using)
        filters == Ident(scope.devices[release.using], "filter") \cap DOMAIN scope.devices
    IN {Flow(v, releaser) : v \in ReadsOf(scope, release.value)}
         \cup {Flow(releaser, DeviceNode(f)) : f \in filters}
         \cup {Edge("declassification", releaser, ValueNode(release.target))}

(* A call or a release of an unknown device draws nothing.                 *)
FlowsOf(scope, s) ==
    CASE s.kind = "assign" -> {Flow(v, ValueNode(s.target)) : v \in ReadsOf(scope, s.value)}
      [] s.kind = "call" -> IF s.device \in DOMAIN scope.devices THEN FlowsOfCall(scope, s) ELSE {}
      [] s.kind = "declassify" ->
             IF s.using \in DOMAIN scope.devices THEN FlowsOfRelease(scope, s) ELSE {}
      [] OTHER -> {}

OrdinaryFlows(scope, processes) ==
    UNION {UNION {FlowsOf(scope, s) : s \in ProcessStatements(processes[i])} : i \in DOMAIN processes}

DrawnFloor(architecture) ==
    Min({Restricted} \cup
        UNION {ParseClass(a.class) : a \in {s \in Assertions(architecture) :
                                              s.rule = "never_flow" /\ s.location = "cloud"}})

(* Mutant: a value of just the cleared class is drawn as denied.           *)
DeniedFlowsInclusive(scope, floor) ==
    LET Cloud(d) == LocationOf(scope.devices[d]) = "cloud"
        Blocked(v) == scope.class[v] >= floor
    IN {Flow(ValueNode(v), CloudRule) : v \in {w \in DOMAIN scope.class : Blocked(w)}}
         \cup {Flow(CloudRule, DeviceNode(d)) : d \in {e \in DOMAIN scope.devices : Cloud(e)}}
         \cup UNION {{Flow(ValueNode(v), DeviceNode(d)) :
                         v \in {w \in DOMAIN scope.class :
                                  /\ \E c \in Clearance(scope.devices[d]) : scope.class[w] >= c
                                  /\ ~(Cloud(d) /\ Blocked(w))}} : d \in DOMAIN scope.devices}

(* The cloud rule is drawn as a node between the values and the devices it *)
(* separates, a clearance as an edge of its own where that rule does not   *)
(* apply.                                                                  *)
DeniedFlows(scope, floor) ==
    LET Cloud(d) == LocationOf(scope.devices[d]) = "cloud"
        Blocked(v) == scope.class[v] >= floor
    IN {Flow(ValueNode(v), CloudRule) : v \in {w \in DOMAIN scope.class : Blocked(w)}}
         \cup {Flow(CloudRule, DeviceNode(d)) : d \in {e \in DOMAIN scope.devices : Cloud(e)}}
         \cup UNION {{Flow(ValueNode(v), DeviceNode(d)) :
                         v \in {w \in DOMAIN scope.class :
                                  /\ \E c \in Clearance(scope.devices[d]) : scope.class[w] > c
                                  /\ ~(Cloud(d) /\ Blocked(w))}} : d \in DOMAIN scope.devices}

(* A denied flow with the ends of an ordinary one takes its place.         *)
SecurityView(entity, architecture) ==
    LET scope == Scope(entity, architecture)
        denied == DeniedFlows(scope, DrawnFloor(architecture))
    IN [allowed |-> OrdinaryFlows(scope, Processes(architecture)) \ denied, denied |-> denied]
=============================================================================
