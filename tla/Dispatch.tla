------------------------------ MODULE Dispatch ------------------------------
(***************************************************************************)
(* One dispatch of an MCP action under a loaded configuration: preparation *)
(* (adapters.rs), authorization (engine.rs, execute_action), the question  *)
(* to the human (approver.rs) and the call itself (mcp.rs).  A step runs   *)
(* to the next await; between two, the clock, the human and the servers    *)
(* move.  The journal of the write is RunStore's subject: here the Effect  *)
(* is new, and no grant of an earlier attempt is left.                     *)
(***************************************************************************)
EXTENDS Configuration, Session, FiniteSets

CONSTANTS Configurations,   \* what may be on disk
          Action,           \* the dispatched route, of kind "mcp"
          Files,            \* project files, as paths
          Ttl,              \* approval.ttl_sec
          DeviceTimeout     \* loop.device_timeout_sec

ASSUME TimesAssumption == Ttl \in Nat /\ DeviceTimeout \in Nat

ASSUME ConfigurationsAssumption ==
    \A c \in Configurations :
        /\ Action \in DOMAIN c.routes
        /\ c.routes[Action].kind = "mcp"
        /\ c.routes[Action].class \subseteq ToSet(Classes)
        /\ c.routes[Action].approval \subseteq {"required", "not_required"}

(* Names and paths are of segments; the fields of a grant are what the     *)
(* parser makes of them.                                                   *)
ASSUME ShapesAssumption ==
    /\ Files \subseteq Seq(Segments)
    /\ {"local", "any"} \subseteq Segments   \* the hosts that Codex asks for
    /\ \A c \in Configurations :
          /\ {c.routes[Action].server} \cup DeclaredTools(c.routes[Action]) \subseteq Segments
          /\ \A g \in DOMAIN c.grants :
                LET values == c.grants[g].constraints IN
                /\ c.grants[g] \in
                      [action : STRING, constraints : {values}, subjects : SUBSET STRING,
                       resource : [kind : STRING, path : Seq(Segments \cup Globs \cup {AnyPath})],
                       class : ToSet(Classes), revoked : BOOLEAN]
                /\ DOMAIN values \subseteq STRING
                /\ values \in [DOMAIN values -> Segments \cup Globs]

MaxTime == Ttl + DeviceTimeout + 1   \* bound: by then the dispatch can end

VARIABLES config,    \* what the runtime has loaded
          call,      \* where the dispatch is
          session,   \* the connection it waits on, if any
          human,     \* the operator in front of HumanPort
          received,  \* the tool calls that the tool's server was sent
          now

vars == <<config, call, session, human, received, now>>

Ended(outcome) == [at |-> "ended", outcome |-> outcome]

Init ==
    /\ config \in {c \in Configurations : Valid(c)}
    /\ call = [at |-> "ready"]
    /\ session = Connected
    /\ human = [shown |-> FALSE, answer |-> "none", when |-> 0]
    /\ received = {}
    /\ now = 0

Route == config.routes[Action]

(* The child process of the connection is killed.                          *)
Ends(outcome) ==
    /\ call' = Ended(outcome)
    /\ session' = Connected
    /\ UNCHANGED received

-----------------------------------------------------------------------------
(* Preparation: which tool the request is for.                             *)

(* resolve_tool: the fixed tool, or the preferred one that the planner or  *)
(* the words of the instruction pick.                                      *)
ChosenTools(route) == IF route.tool # {} THEN route.tool ELSE ToSet(route.preferred)

PlainTools == [codex |-> {"codex"}, lean |-> {"check_lean_code", "get_lean_environment"},
               prolog |-> {"run_prolog"}, matlab |-> {"evaluate_matlab_code"},
               kdb |-> {"kdb", "run_q"}, filter |-> {"filter", "list_files", "preview_file"},
               passthrough |-> {"passthrough"}]
FileTools == [lean |-> "check_lean_file", prolog |-> "run_prolog_file", matlab |-> "run_matlab_file"]
TextTools == [lean |-> "check_lean_code", prolog |-> "run_prolog", matlab |-> "evaluate_matlab_code"]

(* AdapterKind::resolve: the route's adapter, or the one the tool names.   *)
AdaptersOf(route, tool) ==
    IF route.adapter # {} THEN route.adapter
    ELSE {a \in DOMAIN PlainTools : tool \in PlainTools[a]}
           \cup {a \in DOMAIN FileTools : tool = FileTools[a]}

(* The remote hosts do not see the project: a file tool becomes the tool   *)
(* for text, with the text of a file that the route may read or, where the *)
(* adapter looks for one, with the text written in the instruction.        *)
Readable == \E file \in Files : Authorized(config, Action, FileRead(file))
FindsInlineText == {"lean", "prolog"}

Sent(adapter, tool) ==
    CASE adapter \in {"codex", "kdb", "passthrough"} -> {tool}
      [] adapter = "filter" ->
            {tool} \cup IF tool = "run_filter_pipeline" THEN {"list_files", "preview_file"} ELSE {}
      [] tool \in PlainTools[adapter] -> {tool}
      [] tool = FileTools[adapter] ->
            {t \in {TextTools[adapter]} : Readable \/ adapter \in FindsInlineText}
      [] OTHER -> {}

SandboxGranted == \A need \in CodexRequests(Route) : Authorized(config, Action, need)

-----------------------------------------------------------------------------
(* execute_action, up to its first await.                                  *)

Asking(tool, expires) == [at |-> "asking", tool |-> tool, expires |-> expires]

Calls(tool) ==
    /\ call' = [at |-> "calling", tool |-> tool, since |-> now]
    /\ session' = Request(Connected, "initialize")
    /\ UNCHANGED received

Asks(tool) ==
    /\ call' = Asking(tool, now + Ttl)
    /\ session' = Request(Connected, "initialize")
    /\ UNCHANGED received

Wanted(tool) == McpCall(Route.server, tool)

Permitted(tool) == Authorized(config, Action, Wanted(tool))

(* The class of the grant decides, not that of the route.                  *)
NeedsApproval(tool) ==
    LET class == config.grants[Authorize(config.grants, Action, Wanted(tool))].class
    IN IsWrite(class) /\ RequiresApproval(Route, class)

(* Without an approver a write that needs approval cannot start.           *)
Dispatches(tool) ==
    \/ ~Permitted(tool) /\ Ends("denied")
    \/ Permitted(tool) /\ ~NeedsApproval(tool) /\ Calls(tool)
    \/ Permitted(tool) /\ NeedsApproval(tool) /\ config.approver # {} /\ Asks(tool)
    \/ Permitted(tool) /\ NeedsApproval(tool) /\ config.approver = {} /\ Ends("failed")

(* The preparation, the budget or the journal may refuse: then it fails.   *)
Start ==
    /\ call.at = "ready"
    /\ \E tool \in ChosenTools(Route) :
          \/ Ends("failed")
          \/ \E adapter \in AdaptersOf(Route, tool) :
                IF adapter = "codex" /\ ~SandboxGranted THEN Ends("sandbox denied")
                ELSE \E t \in Sent(adapter, tool) : Dispatches(t)
    /\ UNCHANGED <<config, human, now>>

-----------------------------------------------------------------------------
(* The client's steps: what it does with the line that it was waiting for. *)

InTime(expires) == now <= expires

(* The expiry check before every human.await.                              *)
Awaits ==
    IF InTime(call.expires)
    THEN /\ call' = Asking(call.tool, call.expires)
         /\ session' = Request(Read(session), "human.await")
         /\ UNCHANGED received
    ELSE Ends("failed")

(* Mutant: expiry is only looked at before an await.                       *)
DecidesLate(answer) ==
    IF answer = "approve" THEN Calls(call.tool) ELSE Ends("failed")

(* parse_answer and decide_approval; a grant lets the call leave at once.  *)
Decides(answer) ==
    IF answer = "approve" /\ InTime(call.expires) THEN Calls(call.tool) ELSE Ends("failed")

Sleeping == [at |-> "sleeping", tool |-> call.tool, expires |-> call.expires, slept |-> now]

(* A tools/list without the names is taken for a server that cannot answer *)
(* for the human, an error included.                                       *)
AskerReads ==
    /\ call.at = "asking" /\ Responds(session)
    /\ LET answer == Head(session.lines).what
           Next(method) == /\ session' = Request(Read(session), method)
                           /\ UNCHANGED <<call, received>>
       IN CASE Waiting(session) = "initialize" ->
                 IF answer = "ok" THEN Next("tools/list") ELSE Ends("failed")
            [] Waiting(session) = "tools/list" ->
                 IF answer # "answering" THEN Next("human.request") ELSE Ends("failed")
            [] Waiting(session) = "human.request" ->
                 IF answer = "task" THEN Awaits ELSE Ends("failed")
            [] OTHER ->   \* human.await
                 IF answer = "wait" THEN /\ call' = Sleeping
                                         /\ UNCHANGED <<session, received>>
                 ELSE Decides(answer)
    /\ human' = [human EXCEPT !.shown = @ \/ "human.request" \in ToSet(session'.asked)]
    /\ UNCHANGED <<config, now>>

(* The poll interval is over: time has passed, if it still does.           *)
Wakes ==
    /\ call.at = "sleeping" /\ (now > call.slept \/ now = MaxTime)
    /\ Awaits
    /\ UNCHANGED <<config, human, now>>

CallerReads ==
    /\ call.at = "calling" /\ Responds(session)
    /\ CASE Head(session.lines).what \in {"error", "failure"} -> Ends("failed")
         [] Waiting(session) = "initialize" ->
              /\ session' = Request(Read(session), "tools/call")
              /\ received' = received \cup {[tool |-> call.tool, since |-> call.since]}
              /\ UNCHANGED call
         [] OTHER -> Ends("succeeded")
    /\ UNCHANGED <<config, human, now>>
(* What is not the response is passed over; the end ends it.               *)
Talking == call.at \in {"asking", "calling"}

PassesOver ==
    /\ Talking /\ Passed(session)
    /\ session' = Read(session)
    /\ UNCHANGED <<config, call, human, received, now>>

Breaks ==
    /\ Talking /\ Broken(session)
    /\ Ends("failed")
    /\ UNCHANGED <<config, human, now>>

(* Mutant: nothing bounds a call.                                          *)
TimesOutNever == call.at = "calling" /\ now > MaxTime /\ UNCHANGED vars

(* Only call_tool has a timeout; the conversation with the human has none. *)
TimesOut ==
    /\ call.at = "calling" /\ now >= call.since + DeviceTimeout
    /\ Ends("failed")
    /\ UNCHANGED <<config, human, now>>

ClientSteps == AskerReads \/ Wakes \/ CallerReads \/ PassesOver \/ Breaks \/ TimesOut

-----------------------------------------------------------------------------
(* The other parties.  HumanPort reports what its human did; the server of *)
(* a tool may say anything that is a reply.                                *)

Verdicts == IF human.answer = "none" THEN {"wait", "error"} ELSE {human.answer, "error"}

Possible(method) ==
    IF method = "human.await" THEN Verdicts ELSE Replies(method)

ServerSays(lines) ==
    /\ Talking /\ ~session.closed
    /\ session' \in lines
    /\ UNCHANGED <<config, call, human, received, now>>

ServerReplies ==
    /\ Talking /\ ~Answered(session, Outstanding(session))
    /\ ServerSays({Written(session, Line(Outstanding(session), what)) :
                      what \in Possible(Waiting(session))})

(* A second response to any request, or a notification.                    *)
ServerStrays ==
    /\ session.stray < MaxStray
    /\ ServerSays({Strayed(session, line) :
                      line \in session.said \cup {Notification}})

ServerCloses == ServerSays({[session EXCEPT !.closed = TRUE]})

HumanAnswers ==
    /\ human.shown /\ human.answer = "none"
    /\ \E answer \in {"approve", "deny", "cancelled"} :
          human' = [human EXCEPT !.answer = answer, !.when = now]
    /\ UNCHANGED <<config, call, session, received, now>>

Tick ==
    /\ call.at \notin {"ready", "ended"} /\ now < MaxTime
    /\ now' = now + 1
    /\ UNCHANGED <<config, call, session, human, received>>

Next ==
    \/ Start \/ AskerReads \/ Wakes \/ CallerReads \/ PassesOver \/ Breaks \/ TimesOut
    \/ ServerReplies \/ ServerStrays \/ ServerCloses \/ HumanAnswers \/ Tick

Spec == Init /\ [][Next]_vars

(* The client runs whenever it can and time passes.  HumanPort answers     *)
(* every request in the end; the server of the tool need not.              *)
Fairness ==
    /\ WF_vars(ClientSteps) /\ WF_vars(Tick)
    /\ WF_vars(call.at = "asking" /\ ServerReplies)

FairSpec == Spec /\ Fairness

-----------------------------------------------------------------------------
(* Properties.                                                             *)

(* The classes of the grants that cover a call to a tool, however they are *)
(* ordered and however they overlap.                                       *)
CoveringClasses(tool) ==
    {config.grants[g].class :
       g \in Permitting(config.grants, Action, Wanted(tool))}

(* What reaches the tool's server is guarded as every grant that covers it *)
(* asks: an external write carries a key or can be reconciled by hand, and *)
(* a human approved it unless the route opted out, which no destructive    *)
(* write can (capability.rs authorize, config.rs validate, engine.rs       *)
(* execute_action and approver.rs together).                               *)
WritesAreGuarded ==
    \A request \in received : \A class \in CoveringClasses(request.tool) :
        Rank(class) >= Rank("ExternalWrite") =>
            /\ Route.key \/ Route.manual
            /\ \/ human.answer = "approve"
               \/ "not_required" \in Route.approval /\ class # "Destructive"

(* The class that a route declares is a ceiling for what its calls do, in  *)
(* particular for the tool that an adapter put in place of the one asked   *)
(* for (config.rs authorize_route, adapters.rs prepare_call).              *)
ClassIsACeiling ==
    \A request \in received : \A class \in CoveringClasses(request.tool) :
        Rank(class) <= Rank(EffectiveClass(Route))

(* An approved call leaves in the time its approval was good for, and      *)
(* after the human gave it, whatever the polls and the answers did in      *)
(* between (approver.rs ask, approval.rs decide_approval).  The question   *)
(* is put at time 0.                                                       *)
ApprovalsAreFresh ==
    human.shown =>
        \A request \in received : request.since >= human.when /\ request.since <= Ttl

(* A call succeeds only with a result that its server gave for tools/call: *)
(* an answer to initialize, a notification or a line of the conversation   *)
(* with the human never passes for one (mcp.rs receive_response).          *)
SuccessIsAnswered ==
    [][call' = Ended("succeeded") => Said(session, "tools/call", "result")]_vars

(* A grant narrowed to the resource of another grant or of a request       *)
(* permits nothing that it did not permit itself (capability.rs narrow).   *)
NarrowedGrantsPermitNoMore ==
    call.at = "ready" =>
        LET requests == StaticNeeds(Route) \cup {FileRead(file) : file \in Files}
            resources == {request.resource : request \in requests}
                           \cup {config.grants[g].resource : g \in DOMAIN config.grants}
        IN \A g \in DOMAIN config.grants, resource \in resources, request \in requests :
              NarrowsOnly(config.grants[g], resource, <<>>, config.grants[g].class, request)

(* A dispatch ends, though the server of the tool may stay silent for ever *)
(* and the human may never answer (mcp.rs call_tool, approver.rs ask).     *)
DispatchEnds == call.at # "ready" ~> call.at = "ended"

(* docs/SECURITY_SPEC.md: "Configuration load authorizes every route's     *)
(* static needs (tools, models, sandbox, network)".  The code looks for    *)
(* the sandbox of routes with adapter = "codex" only, and the tool name    *)
(* alone makes an adapter of Codex.                                        *)
LoadGrantsSandboxes == call # Ended("sandbox denied")
=============================================================================
