-------------------------------- MODULE Net ---------------------------------
(***************************************************************************)
(* The Petri view of a design (awhdl-graph project/petri.rs): a            *)
(* place/transition net with data abstracted.  The places inside a process *)
(* hold control; one "wake" place per process and one place per member of  *)
(* a barrier connect the processes.                                        *)
(*                                                                         *)
(* A transition is [id, from, to, raises, writes, changes]: its control    *)
(* places, and instead of its arcs to wake and member places the events it *)
(* raises and the signals it changes, from which Emitted derives them.     *)
(* "writes" are the signals its label says are written.                    *)
(***************************************************************************)
EXTENDS Design

Start == <<"start">>
Done == <<"done">>

(* Wiring: who is woken by an event, and which barriers a signal feeds.    *)
Woken(design, event) == {i \in DOMAIN design.processes : event \in design.processes[i].sensitivity}

Feeds(design, s) == {b \in DOMAIN design.barriers : s \in ToSet(design.barriers[b])}

Observed(design, s) == Woken(design, <<s, "changed">>) # {} \/ Feeds(design, s) # {}

Transition(id, from, to) ==
    [id |-> id, from |-> {from}, to |-> {to}, raises |-> {}, writes |-> {}, changes |-> {}]

(* A write is split into changed and unchanged when anything observes it.  *)
WriteForms(design, s) == IF Observed(design, s) THEN {"changed", "unchanged"} ELSE {"written"}

Writing(transition, s, form) ==
    [transition EXCEPT !.id = Append(@, form), !.writes = {s},
                       !.changes = IF form = "changed" THEN {s} ELSE {}]

Write(design, id, from, to, s) ==
    {Writing(Transition(id, from, to), s, form) : form \in WriteForms(design, s)}

(* Mutant: a call that times out raises its timeout only.                  *)
CallFormsOfTimeout(design, id, from, to, call, own) ==
    LET Ends(what, raised) == [Transition(Append(id, what), from, to) EXCEPT !.raises = raised]
        done == Ends("done", {<<call.device, "done">>})
    IN (IF own THEN {Writing(done, call.output, form) : form \in WriteForms(design, call.output)}
               ELSE {done})
         \cup {Ends("failed", {<<call.device, "failed">>})}
         \cup (IF call.timeout = {} THEN {} ELSE {Ends("timeout", {<<call.device, "timeout">>})})

(* The outcomes of a call compete.  A call of a parallel block does not    *)
(* write its output itself; a timeout raises both .timeout and .failed.    *)
CallForms(design, id, from, to, call, own) ==
    LET Ends(what, raised) == [Transition(Append(id, what), from, to) EXCEPT !.raises = raised]
        done == Ends("done", {<<call.device, "done">>})
    IN (IF own THEN {Writing(done, call.output, form) : form \in WriteForms(design, call.output)}
               ELSE {done})
         \cup {Ends("failed", {<<call.device, "failed">>})}
         \cup (IF call.timeout = {} THEN {}
               ELSE {Ends("timeout", {<<call.device, "timeout">>, <<call.device, "failed">>})})

ReleaseForms(design, id, from, to, release) ==
    {Writing([Transition(Append(id, "granted"), from, to)
                EXCEPT !.raises = {<<release.using, "done">>}], release.target, form) :
        form \in WriteForms(design, release.target)}
      \cup {[Transition(Append(id, "refused"), from, to)
                EXCEPT !.raises = {<<release.using, "failed">>}]}

(* Mutant: the join waits for the last call only.                          *)
ParallelOfLast(design, id, from, to, calls) ==
    LET n == Len(calls)
        Running(j) == Append(id, "running" \o ToString(j))
        Finished(j) == Append(id, "finished" \o ToString(j))
        Committing(j) == IF j > n THEN to ELSE Append(id, "commit" \o ToString(j))
    IN {[Transition(Append(id, "fork"), from, from) EXCEPT !.to = {Running(j) : j \in 1..n}],
        [Transition(Append(id, "join"), from, Committing(1)) EXCEPT !.from = {Finished(n)}]}
         \cup UNION {CallForms(design, Append(id, ToString(j)), Running(j), Finished(j), calls[j], FALSE)
                       \cup Write(design, Append(id, "commits" \o ToString(j)),
                                  Committing(j), Committing(j + 1), calls[j].output) : j \in 1..n}

(* A parallel block forks into its calls; the results commit after the     *)
(* join, one output at a time.                                             *)
Parallel(design, id, from, to, calls) ==
    LET n == Len(calls)
        Running(j) == Append(id, "running" \o ToString(j))
        Finished(j) == Append(id, "finished" \o ToString(j))
        Committing(j) == IF j > n THEN to ELSE Append(id, "commit" \o ToString(j))
    IN {[Transition(Append(id, "fork"), from, from) EXCEPT !.to = {Running(j) : j \in 1..n}],
        [Transition(Append(id, "join"), from, Committing(1))
            EXCEPT !.from = {Finished(j) : j \in 1..n}]}
         \cup UNION {CallForms(design, Append(id, ToString(j)), Running(j), Finished(j), calls[j], FALSE)
                       \cup Write(design, Append(id, "commits" \o ToString(j)),
                                  Committing(j), Committing(j + 1), calls[j].output) : j \in 1..n}

(* Statements in sequence between two places; asserts leave no trace.      *)
(* Each branch of an if has a transition of its own, the missing else too. *)
RECURSIVE Walk(_, _, _, _, _)
Walk(design, id, from, to, statements) ==
    LET steps == SelectSeq(statements, LAMBDA s : s.kind # "assert")
        Place(k) == IF k = 0 THEN from ELSE IF k = Len(steps) THEN to ELSE Append(id, ToString(k))
        Arms(s, here, start, end) ==
            LET arms == Append([b \in DOMAIN s.branches |-> s.branches[b].body], s.otherwise)
                Entry(b) == Append(here, "arm" \o ToString(b))
            IN UNION {IF arms[b] = <<>> THEN {Transition(Append(Entry(b), "skip"), start, end)}
                      ELSE {Transition(Append(Entry(b), "enter"), start, Entry(b))}
                             \cup Walk(design, Entry(b), Entry(b), end, arms[b]) : b \in DOMAIN arms}
        Step(k) ==
            LET s == steps[k]
                here == Append(id, "s" \o ToString(k))
            IN CASE s.kind = "assign" -> Write(design, here, Place(k - 1), Place(k), s.target)
                 [] s.kind = "call" -> CallForms(design, here, Place(k - 1), Place(k), s, TRUE)
                 [] s.kind = "declassify" -> ReleaseForms(design, here, Place(k - 1), Place(k), s)
                 [] s.kind = "parallel" -> Parallel(design, here, Place(k - 1), Place(k), s.calls)
                 [] s.kind = "if" -> Arms(s, here, Place(k - 1), Place(k))
    IN IF steps = <<>> THEN {Transition(Append(id, "skip"), from, to)}
       ELSE UNION {Step(k) : k \in DOMAIN steps}

(* With a time limit the body either finishes in time or is discarded for  *)
(* the handler.                                                            *)
ProcessNet(design, i) ==
    LET p == design.processes[i] IN
    IF p.timeout = {} THEN Walk(design, <<"body">>, Start, Done, p.body)
    ELSE {Transition(<<"in time">>, Start, <<"body">>), Transition(<<"expired">>, Start, <<"handler">>)}
           \cup Walk(design, <<"body">>, <<"body">>, Done, p.body)
           \cup Walk(design, <<"handler">>, <<"handler">>, Done, p.onTimeout)

-----------------------------------------------------------------------------
(* Arcs to the places between processes.                                   *)
EventsOf(raised, changed) == raised \cup {<<s, "changed">> : s \in changed}

(* An input port gives a token to each process that waits for it.          *)
InitialTokens(design) ==
    [wake |-> [i \in DOMAIN design.processes |->
                  IF \E s \in design.inputs : i \in Woken(design, <<s, "changed">>) THEN 1 ELSE 0],
     member |-> [b \in DOMAIN design.barriers |-> [m \in ToSet(design.barriers[b]) |-> 0]]]

Emitted(design, tokens, raised, changed) ==
    [wake |-> [i \in DOMAIN tokens.wake |->
                  tokens.wake[i] + IF \E e \in EventsOf(raised, changed) : i \in Woken(design, e)
                                   THEN 1 ELSE 0],
     member |-> [b \in DOMAIN tokens.member |->
                    [m \in DOMAIN tokens.member[b] |->
                        tokens.member[b][m] + IF m \in changed THEN 1 ELSE 0]]]

Started(tokens, i) == [tokens EXCEPT !.wake[i] = @ - 1]

(* The transition of a barrier takes one token of each member.             *)
Synchronized(design, tokens, b) ==
    Emitted(design, [tokens EXCEPT !.member[b] = [m \in DOMAIN @ |-> @[m] - 1]], {<<b, "ready">>}, {})

-----------------------------------------------------------------------------
(* Firing inside one process: control places hold at most one token.       *)
Begun == [marking |-> {Start}, raised |-> {}, written |-> {}]

Enabled(net, state) == {t \in net : t.from \subseteq state.marking}

Fired(state, t) ==
    [marking |-> (state.marking \ t.from) \cup t.to,
     raised |-> state.raised \cup t.raises, written |-> state.written \cup t.writes]

RECURSIVE Firings(_, _, _)
Firings(net, frontier, found) ==
    IF frontier = {} THEN found
    ELSE LET next == UNION {{Fired(s, t) : t \in Enabled(net, s)} : s \in frontier} \ found
         IN Firings(net, next, found \cup next)

Reachable(net) == Firings(net, {Begun}, {Begun})

(* What a complete run of the process may have raised and written.         *)
Signatures(net) ==
    {[raised |-> s.raised, written |-> s.written] :
        s \in {r \in Reachable(net) : r.marking = {Done}}}

(* A sound net: no second token on a place, it ends with one token on      *)
(* Done, never before, and every transition can fire.                      *)
Sound(net) ==
    LET reachable == Reachable(net) IN
    /\ \A s \in reachable : \A t \in Enabled(net, s) : t.to \cap (s.marking \ t.from) = {}
    /\ \A s \in reachable : s.marking = {Done} \/ (Done \notin s.marking /\ Enabled(net, s) # {})
    /\ UNION {Enabled(net, s) : s \in reachable} = net
=============================================================================
