----------------------------- MODULE MCDispatch -----------------------------
(* Configurations of one MCP route for TLC: the tools and adapters of the  *)
(* route, its class and approval setting, narrow and broad grants.         *)
EXTENDS Dispatch

LeanTools == {"check_lean_code", "check_lean_file"}
MCSegments ==
    LeanTools \cup {"run_matlab_file", "evaluate_matlab_code", "dev", "codex", "push", "local", "any", "planner", "proofs", "secrets"}
MCGlobs == {"*", "check*"}
MCGlobSegment ==
    [s \in MCSegments \cup MCGlobs |->
        CASE s = "*" -> MCSegments [] s = "check*" -> LeanTools [] OTHER -> {s}]

MCFiles == {<<"proofs", "dev">>, <<"secrets", "dev">>}

Granted(action, kind, path, class) ==
    [action |-> action, resource |-> [kind |-> kind, path |-> path], constraints |-> <<>>,
     subjects |-> {"route", "controller"}, class |-> class, revoked |-> FALSE]

Planner == Granted("model.chat", "model", <<"planner">>, "Pure")

(* Grants for a server's tools: one for the tools that the route names and *)
(* perhaps a broad one, which comes first.                                 *)
NarrowGrant(tool, class) == <<Granted("mcp.call", "mcp", <<"dev", tool>>, class)>>
BroadGrants(classes) == {<<>>} \cup {NarrowGrant("*", class) : class \in classes}

Hosts == <<Granted("workspace-write", "host", <<"local">>, "LocalWrite"),
           Granted("network.connect", "host", <<"*">>, "LocalWrite")>>
Proofs == <<Granted("file.read", "file", <<"proofs", "**">>, "Read"),
            [Granted("file.read", "file", <<"secrets", "**">>, "Read") EXCEPT !.revoked = TRUE]>>

Controller ==
    [kind |-> "model", class |-> {}, approval |-> {}, key |-> FALSE, manual |-> FALSE,
     server |-> "none", tool |-> {}, preferred |-> <<>>, adapter |-> {}, sandbox |-> {},
     network |-> FALSE, models |-> <<"planner">>]

McpRoute(class, approval, key) ==
    [Controller EXCEPT !.kind = "mcp", !.class = class, !.approval = approval, !.key = key,
                       !.server = "dev", !.models = <<>>]

Loads(route, grants, approver) ==
    [routes |-> [route |-> route, controller |-> Controller], grants |-> grants \o <<Planner>>,
     controller |-> "controller", orchestrator |-> "planner", workflows |-> {},
     approver |-> approver, decider |-> FALSE]

(* One fixed tool, and every setting of the route and its grants.          *)
Fixed ==
    {Loads([McpRoute(class, approval, key) EXCEPT !.tool = {"push"}, !.adapter = {"passthrough"}],
           broad \o NarrowGrant("push", narrow), approver) :
        class \in {{}, {"Read"}, {"Destructive"}},
        approval \in {{}, {"required"}, {"not_required"}},
        key \in BOOLEAN,
        broad \in BroadGrants({"LocalWrite", "Destructive"}),
        narrow \in {"Read", "ExternalWrite", "Destructive"},
        approver \in {{}, {"human"}}}

(* Tools that an adapter recognizes, replaces or asks more grants for.     *)
Adapted ==
    {Loads([McpRoute(class, {"not_required"}, TRUE) EXCEPT
                !.tool = t.tool, !.preferred = t.preferred, !.adapter = t.adapter,
                !.sandbox = {"workspace-write"}, !.network = TRUE],
           broad \o NarrowGrant(t.granted, narrow) \o rest, {"human"}) :
        class \in {{}, {"LocalWrite"}},
        broad \in BroadGrants({"ExternalWrite"}),
        narrow \in {"Read", "LocalWrite"},
        rest \in {<<>>, Hosts, Proofs},
        t \in {[tool |-> {"codex"}, preferred |-> <<>>, adapter |-> {"codex"}, granted |-> "codex"],
               [tool |-> {"codex"}, preferred |-> <<>>, adapter |-> {}, granted |-> "codex"],
               [tool |-> {}, preferred |-> <<"check_lean_file", "check_lean_code">>, adapter |-> {},
                granted |-> "check*"],
               [tool |-> {}, preferred |-> <<"check_lean_file">>, adapter |-> {"lean"},
                granted |-> "check_lean_file"],
               [tool |-> {"run_matlab_file"}, preferred |-> <<>>, adapter |-> {},
                granted |-> "*"]}}

MCConfigurations == Fixed \cup Adapted
=============================================================================
