---------------------------- MODULE Configuration ----------------------------
(***************************************************************************)
(* The configuration that the runtime loads (config.rs): routes, grants,   *)
(* the approval server, the decision model, and the rules that validate()  *)
(* holds them to.  A route's optional fields are sets of at most one       *)
(* value; models is its model, then the fallbacks.  Rules about what other *)
(* modules take for granted (schema versions, positive limits, known names *)
(* of steps and dependencies) are assumptions there.                       *)
(*                                                                         *)
(*   config: [routes, grants, controller, orchestrator, workflows,         *)
(*            approver, decider]                                           *)
(***************************************************************************)
EXTENDS Capability

CONSTANTS Profiles,   \* model profiles
          Servers     \* MCP servers

ToolResource(server, tool) == [kind |-> "mcp", path |-> <<server, tool>>]
Access(action, resource) == [action |-> action, resource |-> resource, params |-> <<>>]

McpCall(server, tool) == Access("mcp.call", ToolResource(server, tool))
ModelChat(profile) == Access("model.chat", [kind |-> "model", path |-> <<profile>>])
FileRead(file) == Access("file.read", [kind |-> "file", path |-> file])
ModelDecide == Access("model.decide", [kind |-> "decider", path |-> <<"decider">>])

-----------------------------------------------------------------------------
(* Routes.                                                                 *)

EffectiveClass(route) ==
    CASE route.class # {} -> CHOOSE c \in route.class : TRUE
      [] route.kind = "model" -> "Pure"
      [] OTHER -> "ExternalWrite"

(* Approval of one call, whose class comes from the grant that authorizes  *)
(* it.                                                                     *)
RequiresApproval(route, class) ==
    IF route.approval # {} THEN "required" \in route.approval
    ELSE class \in {"ExternalWrite", "Destructive"}

(* Mutant: a grant above the class of the route is good enough.            *)
AuthorizedAtAnyClass(config, name, request) ==
    Permitting(config.grants, name, request) # {}

(* authorize_route: the class of the route is a ceiling.                   *)
Authorized(config, name, request) ==
    /\ Permitting(config.grants, name, request) # {}
    /\ LET class == config.grants[Authorize(config.grants, name, request)].class
       IN Rank(class) <= Rank(EffectiveClass(config.routes[name]))

Sandbox(route) == IF route.sandbox = {} THEN {"read-only"} ELSE route.sandbox

(* codex_capability_requests: full access includes the network.            *)
CodexRequests(route) ==
    LET HostRequest(action, host) == Access(action, [kind |-> "host", path |-> <<host>>]) IN
    {HostRequest(sandbox, "local") : sandbox \in Sandbox(route)}
      \cup {HostRequest("network.connect", "any") :
               sandbox \in {s \in Sandbox(route) :
                               s = "full-access" \/ (s = "workspace-write" /\ route.network)}}

DeclaredTools(route) == route.tool \cup ToSet(route.preferred)

(* What a route needs whatever it is called with.                          *)
StaticNeeds(route) ==
    CASE route.kind = "model" -> {ModelChat(m) : m \in ToSet(route.models)}
      [] route.kind = "mcp" ->
            {McpCall(route.server, t) : t \in DeclaredTools(route)}
              \cup (IF route.adapter = {"codex"} THEN CodexRequests(route) ELSE {})

-----------------------------------------------------------------------------
(* validate.                                                               *)

Dispatchable(route) ==
    EffectiveClass(route) \in {"ExternalWrite", "Destructive"} => route.key \/ route.manual

ApprovalRules(route) ==
    /\ route.approval # {} => IsWrite(EffectiveClass(route))
    /\ EffectiveClass(route) = "Destructive" => RequiresApproval(route, "Destructive")

KindRules(route) ==
    CASE route.kind = "model" -> /\ ~IsWrite(EffectiveClass(route))
                                 /\ route.models # <<>> /\ Head(route.models) \in Profiles
      [] route.kind = "mcp" -> route.server \in Servers
      [] OTHER -> FALSE

RouteValid(route) == Dispatchable(route) /\ ApprovalRules(route) /\ KindRules(route)

(* A workflow with a step that may write externally is safety-critical.    *)
WorkflowValid(config, workflow) ==
    /\ workflow.steps # <<>>
    /\ ToSet(workflow.steps) \subseteq DOMAIN config.routes \ {config.controller}
    /\ \/ workflow.safetyCritical
       \/ \A step \in ToSet(workflow.steps) :
             Rank(EffectiveClass(config.routes[step])) < Rank("ExternalWrite")

(* The approval channel is trusted: no route may reach it.                 *)
ApproverValid(config) ==
    /\ config.approver \subseteq Servers
    /\ \A name \in DOMAIN config.routes : config.routes[name].server \notin config.approver

CapabilitiesValid(config) ==
    /\ PolicyValid(config.grants)
    /\ \A g \in DOMAIN config.grants : config.grants[g].subjects \subseteq DOMAIN config.routes
    /\ Authorized(config, config.controller, ModelChat(config.orchestrator))
    /\ \A name \in DOMAIN config.routes : \A need \in StaticNeeds(config.routes[name]) :
          Authorized(config, name, need)
    /\ config.decider => Authorized(config, config.controller, ModelDecide)

Valid(config) ==
    /\ config.controller \in DOMAIN config.routes
    /\ \A name \in DOMAIN config.routes : RouteValid(config.routes[name])
    /\ \A workflow \in config.workflows : WorkflowValid(config, workflow)
    /\ ApproverValid(config)
    /\ CapabilitiesValid(config)
=============================================================================
