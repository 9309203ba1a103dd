----------------------------- MODULE CheckedRun -----------------------------
(***************************************************************************)
(* Labeled runs with a second observer: "net" plays the Petri view of the  *)
(* design along.  They say whether the drawn net and the behavior view are *)
(* right about what the interpreter does.                                  *)
(***************************************************************************)
EXTENDS LabeledRun, Drawing, Net

VARIABLES net,      \* tokens of the Petri view, signatures of its processes
          drawn     \* the behavior view of the source

checkedVars == <<labeledVars, net, drawn>>

-----------------------------------------------------------------------------
(* The net plays along: a process that begins takes its token; what the    *)
(* processes of a delta raised and changed is emitted at its end.  The net *)
(* leaves open whether a write changes a value; a write that counts for a  *)
(* barrier is played as one that does.                                     *)
Begins == frame'.at = "running" /\ frame'.process # frame.process

Starting(tokens) == IF Begins THEN Started(tokens, frame'.process) ELSE tokens

Playing(signals, after) ==
    {s \in Driven(signals) : after[s] # values[s] \/ Feeds(design, s) # {}}

Ready == {b \in DOMAIN design.barriers : <<b, "ready">> \in events'}

PlayedCommit ==
    FoldSet(LAMBDA b, tokens : Synchronized(design, tokens, b),
            Emitted(design, net.tokens, writes.events, Playing(writes.signals, values')), Ready)

NetPlays ==
    net' = [net EXCEPT !.tokens =
        CASE frame.at = "committing" /\ frame'.at = "top" -> PlayedCommit
          [] frame.at = "sleeping" /\ frame'.at = "admitting" ->
                 FoldSet(LAMBDA e, tokens : Emitted(design, tokens, {e}, {}), @, events')
          [] OTHER -> Starting(@)]

-----------------------------------------------------------------------------
(* The nodes that the behavior view draws after a process, and its loops.  *)
Views ==
    LET behavior == BehaviorView(EntityOf(source), ArchitectureOf(source))
    IN [after |-> [i \in DOMAIN design.processes |-> DrawnAfter(behavior, i)],
        loops |-> {e \in behavior : e.kind = "retry"}]

CheckedInit ==
    /\ LabeledInit
    /\ net = [tokens |-> InitialTokens(design),
              signatures |-> [i \in DOMAIN design.processes |-> Signatures(ProcessNet(design, i))]]
    /\ drawn = Views

Watched(step) == step /\ NetPlays /\ UNCHANGED <<source, drawn>>

CheckedNext == Watched(FlowOfDelta) \/ Watched(FlowOfStatements) \/ Watched(NoFlow)

CheckedSpec == CheckedInit /\ [][CheckedNext]_checkedVars

-----------------------------------------------------------------------------
(* docs/GRAPH.md: every run of a design is a firing sequence of its net:   *)
(* a process begins, and a barrier fires, only with a token to take, and   *)
(* some complete firing of its net raises what a finished process raised   *)
(* and writes what it wrote.  (The net also commits the output of a        *)
(* parallel call that failed, hence the inclusion.)                        *)
RunsAreFirings ==
    /\ \A i \in DOMAIN net.tokens.wake : net.tokens.wake[i] >= 0
    /\ \A b \in DOMAIN net.tokens.member : \A m \in DOMAIN net.tokens.member[b] :
           net.tokens.member[b][m] >= 0
    /\ frame.at = "running" /\ frame.todo = <<>> =>
           \E signature \in net.signatures[frame.process] :
               /\ signature.raised = frame.local.events
               /\ Driven(frame.local.signals) \subseteq signature.written

(* The behavior view leaves out no cause: what a process did in a delta,   *)
(* in its body or in its handler, is drawn to lead from it to every        *)
(* process that this wakes, not by way of a third one.                     *)
CausesAreDrawn ==
    frame.at = "running" /\ frame.todo = <<>> =>
        LET signals == Driven(frame.local.signals)
            ready == {<<b, "ready">> : b \in UNION {Feeds(design, s) : s \in signals}}
        IN \A e \in EventsOf(frame.local.events, signals) \cup ready :
              \A i \in Woken(design, e) : ProcessNode(i) \in drawn.after[frame.process]

(* A design whose drawing shows no loop comes to rest by itself: without   *)
(* timers each process runs at most once after another, whatever fails.    *)
LoopFreeDesignsSettle ==
    drawn.loops = {} /\ DOMAIN design.timers = {} => deltas <= Len(design.processes) + 1

(* The net of every process is sound: it never puts two tokens on a place, *)
(* ends with nothing left over, and has no transition that cannot fire.    *)
NetsAreSound ==
    deltas = 0 => \A i \in DOMAIN design.processes : Sound(ProcessNet(design, i))
=============================================================================
