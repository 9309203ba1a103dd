------------------------------- MODULE Checker -------------------------------
(***************************************************************************)
(* The static checker of AWHDL designs (awhdl-checker): declarations,      *)
(* names, sensitivity, and the two flow analyses, explicit (what an        *)
(* expression reads) and implicit (what the execution of a statement       *)
(* reveals).  A design is accepted when no diagnostic is raised.           *)
(*                                                                         *)
(* A source is [entities, architectures]; a diagnostic is its code, its    *)
(* wording and place are left out.  What is optional is a set of at most   *)
(* one element.  A trigger is <<name, member>>, with the member "" for a   *)
(* plain name.  Statements are those of module Design.                     *)
(***************************************************************************)
EXTENDS Design

Public == 0
Restricted == 2
ClassNames == [public |-> Public, internal |-> 1, restricted |-> Restricted]
DeferredClasses == {"confidential", "secret"}
LocationNames == {"local", "cloud"}
DeferredLocations == {"sandbox", "private_cloud", "external"}
CountLimits == {"iterations", "tool_calls", "llm_tokens", "network_requests", "model_calls"}
TimeLimits == {"wall_time"}

ParseClass(name) == {ClassNames[n] : n \in {name} \cap DOMAIN ClassNames}

ParseLocation(name) == {name} \cap LocationNames

Strongest(classes) == Max({Public} \cup classes)

When(condition, code) == IF condition THEN {code} ELSE {}

(* An unlabeled or unknown class counts as restricted.                     *)
ClassOf(label) ==
    LET known == UNION {ParseClass(n) : n \in label} IN
    IF known = {} THEN Restricted ELSE Max(known)

(* DeviceDecl::generic: the first generic of that key.                     *)
Generic(device, key) ==
    LET at == {i \in DOMAIN device.generics : device.generics[i].key = key} IN
    {device.generics[i] : i \in {j \in at : j = Min(at)}}

Ident(device, key) == {g.value : g \in {h \in Generic(device, key) : h.form = "ident"}}

LocationOf(device) ==
    IF UNION {ParseLocation(n) : n \in Ident(device, "location")} = {"cloud"}
    THEN "cloud" ELSE "local"

Clearance(device) == UNION {ParseClass(n) : n \in Ident(device, "clearance")}

-----------------------------------------------------------------------------
(* Names and labels.                                                       *)
ProfileErrors(name, supported, deferred) ==
    IF supported # {} THEN {} ELSE IF name \in deferred THEN {"E401"} ELSE {"E402"}

LabelErrors(label) ==
    UNION {ProfileErrors(n, ParseClass(n), DeferredClasses) : n \in label}

PortNames(entity) == FlattenSeq([i \in DOMAIN entity.ports |-> entity.ports[i].names])

EntityErrors(entities) ==
    When(~IsInjective([i \in DOMAIN entities |-> entities[i].name]), "E201")
      \cup (UNION {LabelErrors(port.label) : port \in UNION {ToSet(e.ports) : e \in ToSet(entities)}})
      \cup When(\E e \in ToSet(entities) : ~IsInjective(PortNames(e)), "E202")

DeviceErrors(device) ==
    LET keys == [i \in DOMAIN device.generics |-> device.generics[i].key]
        Named(g, supported, deferred) ==
            IF g.form = "ident" THEN ProfileErrors(g.value, supported, deferred) ELSE {"E218"}
    IN When(~IsInjective(keys), "E218")
         \cup (UNION {Named(g, ParseLocation(g.value), DeferredLocations) :
                         g \in {h \in ToSet(device.generics) : h.key = "location"}})
         \cup (UNION {Named(g, ParseClass(g.value), DeferredClasses) :
                         g \in {h \in ToSet(device.generics) : h.key = "clearance"}})

BudgetErrors(limits) ==
    LET Valid(limit) == /\ limit.value > 0
                        /\ limit.key \in (IF limit.form = "count" THEN CountLimits ELSE TimeLimits)
    IN When(\E i \in DOMAIN limits :
                ~Valid(limits[i]) \/ \E j \in 1..(i - 1) : limits[j].key = limits[i].key, "E212")

DeclaredNames(d) == IF d.kind = "signal" THEN d.names ELSE <<d.name>>

DeclarationErrors(d, values) ==
    CASE d.kind = "device" -> DeviceErrors(d)
      [] d.kind = "signal" -> LabelErrors(d.label)
      [] d.kind = "timer" -> When(d.period = 0, "E211")
      [] d.kind = "budget" -> BudgetErrors(d.limits)
      [] d.kind = "barrier" -> When(~(ToSet(d.members) \subseteq values), "E214")

(* Declarations in their order: a name may be declared once, and a barrier *)
(* knows only the signals before it.                                       *)
ScopeErrors(entity, declarations) ==
    LET NamesOf(S) == UNION {ToSet(DeclaredNames(declarations[j])) : j \in S}
        Earlier(i) == 1..(i - 1)
        ports == UNION {ToSet(port.names) : port \in ToSet(entity.ports)}
        Taken(i) == ports \cup NamesOf(Earlier(i))
        ValuesAt(i) == ports \cup NamesOf({j \in Earlier(i) : declarations[j].kind = "signal"})
        Twice(i) == \/ ToSet(DeclaredNames(declarations[i])) \cap Taken(i) # {}
                    \/ ~IsInjective(DeclaredNames(declarations[i]))
    IN UNION {LET d == declarations[i] IN
                When(Twice(i), IF d.kind = "device" THEN "E204" ELSE "E205")
                  \cup DeclarationErrors(d, ValuesAt(i)) : i \in DOMAIN declarations}

-----------------------------------------------------------------------------
(* The scope the statements are checked in.                                *)
Declared(architecture, kind) == {d \in ToSet(architecture.declarations) : d.kind = kind}

Processes(architecture) == SelectSeq(architecture.statements, LAMBDA s : s.kind = "process")

Assertions(architecture) == {s \in ToSet(architecture.statements) : s.kind = "assert"}

CloudFloor(architecture) ==
    Min({Restricted} \cup UNION {ParseClass(s.class) :
            s \in {a \in Assertions(architecture) : a.rule = "never_flow" /\ a.location = "cloud"}})

ByName(declarations) ==
    [n \in {d.name : d \in declarations} |-> CHOOSE d \in declarations : d.name = n]

Scope(entity, architecture) ==
    LET signals == Declared(architecture, "signal")
        labeled == ToSet(entity.ports) \cup signals
    IN [class |-> [n \in UNION {ToSet(l.names) : l \in labeled} |->
                      ClassOf((CHOOSE l \in labeled : n \in ToSet(l.names)).label)],
        inputs |-> UNION {ToSet(p.names) : p \in {q \in ToSet(entity.ports) : q.mode = "in"}},
        devices |-> ByName(Declared(architecture, "device")),
        timers |-> {d.name : d \in Declared(architecture, "timer")},
        barriers |-> ByName(Declared(architecture, "barrier")),
        floor |-> CloudFloor(architecture)]

Known(scope) ==
    DOMAIN scope.class \cup DOMAIN scope.devices \cup scope.timers \cup DOMAIN scope.barriers

ExpressionErrors(scope, e) == When(~(NamesIn(e) \subseteq Known(scope)), "E210")

ClassOfExpr(scope, e) ==
    Strongest({scope.class[n] : n \in NamesIn(e) \cap DOMAIN scope.class})

(* An event that the runtime raises for the name.                          *)
AllowedMembers(scope, name) ==
    CASE name \in DOMAIN scope.class -> {"", "changed"}
      [] name \in scope.timers -> {""}
      [] name \in DOMAIN scope.barriers -> {"", "ready"}
      [] name \in DOMAIN scope.devices -> {"done", "failed", "timeout"}
      [] OTHER -> {}

SensitivityError(scope, trigger) == trigger[2] \notin AllowedMembers(scope, trigger[1])

-----------------------------------------------------------------------------
(* Explicit flows.                                                         *)
IsDeclassifier(device) == device.type = "declassifier"

(* The range [from, to] of a declassifier that names one.                  *)
ReleaseRange(device) ==
    {[from |-> f, to |-> t] :
        f \in UNION {ParseClass(n) : n \in Ident(device, "from")},
        t \in UNION {ParseClass(n) : n \in Ident(device, "to")}}

DeclassifierOk(scope, d) ==
    /\ \E range \in ReleaseRange(d) : range.to < range.from
    /\ Generic(d, "filter") \cup Generic(d, "approval") # {}
    /\ Generic(d, "filter") # {} =>
          /\ \E n \in Ident(d, "filter") \cap DOMAIN scope.devices :
                /\ scope.devices[n].type = "deterministic"
                /\ LocationOf(scope.devices[n]) = "local"
          /\ Ident(d, "filter_method") # {}
    /\ \A g \in Generic(d, "approval") : g.form = "ident" /\ g.value = "human"
    /\ LocationOf(d) = "local"

DeclassifierErrors(scope) ==
    When(\E d \in DOMAIN scope.devices :
            /\ IsDeclassifier(scope.devices[d])
            /\ ~DeclassifierOk(scope, scope.devices[d]), "E219")

(* Something of that class is stored in the target.                        *)
StoreErrors(scope, target, class, unknown) ==
    IF target \notin DOMAIN scope.class THEN {unknown}
    ELSE When(target \in scope.inputs, "E217") \cup When(class > scope.class[target], "E303")

(* Mutant: only the cloud floor counts, not the clearance.                 *)
CallErrorsOfCloud(scope, call) ==
    LET flowing == ClassOfExpr(scope, call.argument) IN
    ExpressionErrors(scope, call.argument)
      \cup When(call.timeout = {0}, "E211")
      \cup StoreErrors(scope, call.output, flowing, "E208")
      \cup IF call.device \notin DOMAIN scope.devices THEN {"E207"}
           ELSE LET device == scope.devices[call.device] IN
                When(IsDeclassifier(device), "E220")
                  \cup When(LocationOf(device) = "cloud" /\ flowing >= scope.floor, "E301")

CallErrors(scope, call) ==
    LET flowing == ClassOfExpr(scope, call.argument) IN
    ExpressionErrors(scope, call.argument)
      \cup When(call.timeout = {0}, "E211")
      \cup StoreErrors(scope, call.output, flowing, "E208")
      \cup IF call.device \notin DOMAIN scope.devices THEN {"E207"}
           ELSE LET device == scope.devices[call.device] IN
                When(IsDeclassifier(device), "E220")
                  \cup When(LocationOf(device) = "cloud" /\ flowing >= scope.floor, "E301")
                  \cup When(\E c \in Clearance(device) : flowing > c, "E302")

(* An invalid declassifier is reported where it is declared.               *)
ReleaseErrors(scope, release) ==
    LET range == IF release.using \in DOMAIN scope.devices
                      /\ IsDeclassifier(scope.devices[release.using])
                 THEN ReleaseRange(scope.devices[release.using]) ELSE {}
    IN ExpressionErrors(scope, release.value)
         \cup StoreErrors(scope, release.target, Strongest({r.to : r \in range}), "E209")
         \cup When(\E r \in range : ClassOfExpr(scope, release.value) > r.from, "E307")
         \cup When(release.using \notin DOMAIN scope.devices, "E207")
         \cup When(/\ release.using \in DOMAIN scope.devices
                   /\ ~IsDeclassifier(scope.devices[release.using]), "E220")

OwnErrors(scope, s) ==
    CASE s.kind = "call" -> CallErrors(scope, s)
      [] s.kind = "assign" ->
             ExpressionErrors(scope, s.value)
               \cup StoreErrors(scope, s.target, ClassOfExpr(scope, s.value), "E209")
      [] s.kind = "if" -> UNION {ExpressionErrors(scope, c) : c \in Conditions(s)}
      [] s.kind = "parallel" -> When(~IsInjective([i \in DOMAIN s.calls |-> s.calls[i].output]), "E215")
      [] s.kind = "assert" -> ExpressionErrors(scope, s.condition)
      [] s.kind = "declassify" -> ReleaseErrors(scope, s)

StatementErrors(scope, statements) == UNION {OwnErrors(scope, s) : s \in Code(statements)}

-----------------------------------------------------------------------------
(* Implicit flows: a site is a statement with the context it runs in, the  *)
(* strongest class that its execution reveals.                             *)
ContextOf(scope, o, context) == Strongest({context} \cup {ClassOfExpr(scope, c) : c \in o.under})

Sites(scope, statements, context) ==
    {[statement |-> o.statement, context |-> ContextOf(scope, o, context)] :
        o \in {p \in Occurrences(statements) : p.statement.kind \in {"assign", "call", "declassify"}}}

Uses(statement) == IF statement.kind = "call" THEN statement.device ELSE statement.using

Given(statement) == IF statement.kind = "call" THEN statement.argument ELSE statement.value

(* What the outcome of a call or a release tells.                          *)
Revealed(scope, site) == Strongest({ClassOfExpr(scope, Given(site.statement)), site.context})

Outcomes(sites) == {site \in sites : site.statement.kind # "assign"}

EventClass(scope, trigger, events) ==
    LET name == trigger[1] IN
    CASE name \in DOMAIN scope.class -> scope.class[name]
      [] name \in DOMAIN scope.barriers ->
             Strongest({scope.class[m] : m \in ToSet(scope.barriers[name].members)
                                                 \cap DOMAIN scope.class})
      [] name \in DOMAIN scope.devices /\ trigger[2] # "" -> events[name]
      [] OTHER -> Public

ProcessContext(scope, process, events) ==
    Strongest({EventClass(scope, t, events) : t \in ToSet(process.triggers)})

(* Whether a body times out depends on how long its calls take.            *)
TimeoutContext(scope, body, outer) ==
    Strongest({outer} \cup {Revealed(scope, s) : s \in Outcomes(Sites(scope, body, outer))})

SitesOf(scope, processes, events) ==
    UNION {LET p == processes[i]
               context == ProcessContext(scope, p, events)
           IN Sites(scope, p.body, context)
                \cup Sites(scope, p.onTimeout, TimeoutContext(scope, p.body, context)) :
              i \in DOMAIN processes}

(* Event classes of devices and contexts depend on one another: iterate    *)
(* from public until nothing rises.                                        *)
RaisedClasses(scope, processes, events) ==
    [d \in DOMAIN scope.devices |->
        Strongest({Revealed(scope, s) :
            s \in {t \in Outcomes(SitesOf(scope, processes, events)) : Uses(t.statement) = d}})]

(* Each round but the last raises the class of a device, so this many are  *)
(* always enough.                                                          *)
Rounds(scope) == Cardinality(DOMAIN scope.devices) * Restricted

Settled(scope, processes) ==
    LET Classes[round \in 0..Rounds(scope)] ==
          IF round = 0 THEN [d \in DOMAIN scope.devices |-> Public]
          ELSE RaisedClasses(scope, processes, Classes[round - 1])
    IN Classes[Rounds(scope)]

AllSites(scope, processes) == SitesOf(scope, processes, Settled(scope, processes))

(* A human who approves sees the release in its context; a filter sees     *)
(* only the content.                                                       *)
ReleaseFlow(scope, release, context) ==
    \E target \in {release.target} \cap DOMAIN scope.class,
       device \in {scope.devices[n] : n \in {release.using} \cap DOMAIN scope.devices} :
       \E range \in IF IsDeclassifier(device) THEN ReleaseRange(device) ELSE {} :
          /\ range.to <= scope.class[target]
          /\ context > IF Generic(device, "approval") # {} THEN range.from ELSE scope.class[target]

StoreFlow(scope, target, explicit, context) ==
    /\ target \in DOMAIN scope.class
    /\ explicit <= scope.class[target] /\ context > scope.class[target]

(* Mutant: a call is judged by its argument alone.                         *)
SiteErrorsOfStores(scope, site) ==
    LET s == site.statement
        explicit == ClassOfExpr(scope, Given(s))
    IN When(CASE s.kind = "declassify" -> ReleaseFlow(scope, s, site.context)
              [] s.kind = "assign" -> StoreFlow(scope, s.target, explicit, site.context)
              [] s.kind = "call" -> StoreFlow(scope, s.output, explicit, site.context), "E304")

(* Only where the explicit rules pass.                                     *)
SiteErrors(scope, site) ==
    LET s == site.statement
        explicit == ClassOfExpr(scope, Given(s))
        called == IF s.kind = "call"
                  THEN {scope.devices[n] : n \in {s.device} \cap DOMAIN scope.devices} ELSE {}
    IN When(CASE s.kind = "declassify" -> ReleaseFlow(scope, s, site.context)
              [] s.kind = "assign" -> StoreFlow(scope, s.target, explicit, site.context)
              [] s.kind = "call" -> StoreFlow(scope, s.output, explicit, site.context), "E304")
         \cup When(\E d \in called : /\ LocationOf(d) = "cloud"
                                     /\ explicit < scope.floor /\ site.context >= scope.floor, "E305")
         \cup When(\E d \in called : \E c \in Clearance(d) :
                       explicit <= c /\ site.context > c, "E306")

-----------------------------------------------------------------------------
RuleErrors(scope, s) ==
    IF s.rule # "never_flow" THEN ExpressionErrors(scope, s.condition)
    ELSE ProfileErrors(s.class, ParseClass(s.class), DeferredClasses)
           \cup ProfileErrors(s.location, ParseLocation(s.location), DeferredLocations)

ProcessErrors(scope, p) ==
    When(\E t \in ToSet(p.triggers) : SensitivityError(scope, t), "E206")
      \cup When(p.timeout = {0}, "E211")
      \cup StatementErrors(scope, p.body) \cup StatementErrors(scope, p.onTimeout)

ArchitectureErrors(entity, architecture) ==
    LET scope == Scope(entity, architecture)
        processes == Processes(architecture)
    IN ScopeErrors(entity, architecture.declarations)
         \cup DeclassifierErrors(scope)
         \cup (UNION {RuleErrors(scope, s) : s \in Assertions(architecture)})
         \cup (UNION {ProcessErrors(scope, processes[i]) : i \in DOMAIN processes})
         \cup (UNION {SiteErrors(scope, site) : site \in AllSites(scope, processes)})

EntitiesOf(source, architecture) == {e \in ToSet(source.entities) : e.name = architecture.entity}

Check(source) ==
    EntityErrors(source.entities)
      \cup (UNION {When(EntitiesOf(source, a) = {}, "E203") : a \in ToSet(source.architectures)})
      \cup (UNION {UNION {ArchitectureErrors(e, a) : e \in EntitiesOf(source, a)} :
                      a \in ToSet(source.architectures)})

Accepted(source) == Check(source) = {}
=============================================================================
