------------------------------- MODULE Drawing -------------------------------
(***************************************************************************)
(* The behavior view of a design (awhdl-graph project.rs): what triggers a *)
(* process, and what it does.  Edges and nodes are those of FlowView; what *)
(* a statement draws is named by its place, a sequence of numbers that     *)
(* begins with the process.                                                *)
(***************************************************************************)
EXTENDS FlowView

BarrierNode(name) == <<"barrier", name>>
EventNode(device, outcome) == <<"event", <<device, outcome>>>>
ProcessNode(i) == <<"process", i>>

TriggerNode(scope, trigger) ==
    CASE trigger[1] \in DOMAIN scope.class -> ValueNode(trigger[1])
      [] trigger[1] \in scope.timers -> <<"timer", trigger[1]>>
      [] trigger[1] \in DOMAIN scope.barriers -> BarrierNode(trigger[1])
      [] OTHER -> EventNode(trigger[1], trigger[2])

(* Mutant: a call with a time limit is drawn to time out, not to fail.     *)
EdgesToOutcomesOfTimed(triggers, node, device, timed) ==
    LET outcomes == {"done"} \cup IF timed THEN {"timeout"} ELSE {"failed"} IN
    {Edge(IF o = "timeout" THEN "timeout" ELSE "result", node, EventNode(device, o)) :
        o \in {p \in outcomes : <<device, p>> \in triggers}}

(* Outcomes are drawn where a process reacts to them.                      *)
EdgesToOutcomes(triggers, node, device, timed) ==
    LET outcomes == {"done", "failed"} \cup IF timed THEN {"timeout"} ELSE {} IN
    {Edge(IF o = "timeout" THEN "timeout" ELSE "result", node, EventNode(device, o)) :
        o \in {p \in outcomes : <<device, p>> \in triggers}}

EdgesOfParallel(triggers, id, anchor, calls) ==
    LET fork == <<"fork", id>>
        join == <<"join", id>>
        Call(j) == <<"invocation", Append(id, j)>>
    IN {Edge("control", anchor, fork)}
         \cup UNION {{Edge("fork", fork, Call(j)), Edge("join", Call(j), join),
                      Edge("result", join, ValueNode(calls[j].output))}
                       \cup EdgesToOutcomes(triggers, Call(j), calls[j].device, calls[j].timeout # {}) :
                    j \in DOMAIN calls}

(* Every statement hangs on the process, or on the decision it is under.   *)
RECURSIVE EdgesOf(_, _, _, _)
EdgesOf(triggers, id, anchor, statements) ==
    UNION {LET s == statements[k]
               here == Append(id, k)
               call == <<"invocation", here>>
               release == <<"declassify", here>>
               decision == <<"decision", here>>
           IN CASE s.kind = "assign" -> {Edge("data_flow", anchor, ValueNode(s.target))}
                [] s.kind = "call" ->
                       {Edge("call", anchor, call), Edge("result", call, ValueNode(s.output))}
                         \cup EdgesToOutcomes(triggers, call, s.device, s.timeout # {})
                [] s.kind = "declassify" ->
                       {Edge("call", anchor, release),
                        Edge("declassification", release, ValueNode(s.target))}
                         \cup EdgesToOutcomes(triggers, release, s.using, FALSE)
                [] s.kind = "parallel" -> EdgesOfParallel(triggers, here, anchor, s.calls)
                [] s.kind = "if" ->
                       LET arms == Append([b \in DOMAIN s.branches |-> s.branches[b].body],
                                          s.otherwise)
                       IN {Edge("control", anchor, decision)}
                            \cup UNION {EdgesOf(triggers, Append(here, b), decision, arms[b]) :
                                           b \in DOMAIN arms}
                [] s.kind = "assert" -> {} : k \in DOMAIN statements}

BehaviorEdges(scope, processes) ==
    LET triggers == UNION {ToSet(processes[i].triggers) : i \in DOMAIN processes}
        OfProcess(i) ==
            LET p == processes[i]
                expired == <<"expired", i>>
            IN {Edge("event_trigger", TriggerNode(scope, t), ProcessNode(i)) : t \in ToSet(p.triggers)}
                 \cup EdgesOf(triggers, <<i, 0>>, ProcessNode(i), p.body)
                 \cup (IF p.timeout = {} THEN {}
                       ELSE {Edge("timeout", ProcessNode(i), expired)}
                              \cup EdgesOf(triggers, <<i, 1>>, expired, p.onTimeout))
    IN UNION {OfProcess(i) : i \in DOMAIN processes}
         \cup UNION {{Edge("join", ValueNode(m), BarrierNode(b)) : m \in ToSet(scope.barriers[b].members)} :
                       b \in DOMAIN scope.barriers}

-----------------------------------------------------------------------------
(* mark_loops: a depth-first walk marks the edges to a node of the current *)
(* path.  The order in which it takes the edges of a node is one that TLC  *)
(* chooses: it decides which edge of a loop is marked, never whether one   *)
(* is.                                                                     *)

(* Mutant: a node counts as finished when the walk enters it.              *)
RECURSIVE WalkedUnstacked(_, _, _, _)
WalkedUnstacked(edges, node, path, walk) ==
    FoldSet(LAMBDA e, w :
              IF e.to \in path THEN w
              ELSE IF e.to \in w.seen THEN w
              ELSE WalkedUnstacked(edges, e.to, path \cup {e.to}, w),
            [walk EXCEPT !.seen = @ \cup {node}], {e \in edges : e.from = node})

RECURSIVE Walked(_, _, _, _)
Walked(edges, node, path, walk) ==
    FoldSet(LAMBDA e, w :
              IF e.to \in path THEN [w EXCEPT !.back = @ \cup {e}]
              ELSE IF e.to \in w.seen THEN w
              ELSE Walked(edges, e.to, path \cup {e.to}, w),
            [walk EXCEPT !.seen = @ \cup {node}], {e \in edges : e.from = node})

(* First from the nodes that nothing points at, then from the rest.        *)
BackEdges(edges) ==
    LET From(n, w) == IF n \in w.seen THEN w ELSE Walked(edges, n, {n}, w)
        nodes == {e.from : e \in edges} \cup {e.to : e \in edges}
        roots == nodes \ {e.to : e \in edges}
    IN FoldSet(From, FoldSet(From, [seen |-> {}, back |-> {}], roots), nodes).back

BehaviorView(entity, architecture) ==
    LET edges == BehaviorEdges(Scope(entity, architecture), Processes(architecture))
        back == BackEdges(edges)
    IN (edges \ back) \cup {[e EXCEPT !.kind = "retry"] : e \in back}

-----------------------------------------------------------------------------
(* Reading a view: the nodes that edges lead to from some nodes, without   *)
(* going on from a process.                                                *)
RECURSIVE Led(_, _)
Led(edges, nodes) ==
    LET next == {e.to : e \in {f \in edges : f.from \in nodes /\ f.from[1] # "process"}} \ nodes
    IN IF next = {} THEN nodes ELSE Led(edges, nodes \cup next)

DrawnAfter(edges, i) == Led(edges, {e.to : e \in {f \in edges : f.from = ProcessNode(i)}})
=============================================================================
