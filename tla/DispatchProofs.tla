--------------------------- MODULE DispatchProofs ---------------------------
(***************************************************************************)
(* What a dispatch may send, for every loaded configuration, every set of  *)
(* segments, patterns, grants and files, and every timing of the human and *)
(* the servers.  The invariant says what each stage of the dispatch has    *)
(* established, and that no line of a connection says "approve" unless the *)
(* human did.                                                              *)
(***************************************************************************)
EXTENDS Dispatch, TLAPS

-----------------------------------------------------------------------------
(* Narrowing a grant never widens it: for every set of segments and        *)
(* patterns, every grant, every narrowing of it that narrow() accepts and  *)
(* every request.                                                          *)
Pattern == Segments \cup Globs \cup {AnyPath}

(* Names are those of actions, resource kinds, parameters and subjects.    *)
Patterned(Names) == [kind : Names, path : Seq(Pattern)]
Named(Names) == [kind : Names, path : Seq(Segments)]

Grants(Names) ==
    [action : Names, resource : Patterned(Names),
     constraints : UNION {[keys -> Segments \cup Globs] : keys \in SUBSET Names},
     subjects : SUBSET Names, class : ToSet(Classes), revoked : BOOLEAN]

Accesses(Names) ==
    [action : Names, resource : Named(Names),
     params : UNION {[keys -> Segments] : keys \in SUBSET Names}]

(* A pattern without wildcards matches the path that it spells, only.      *)
LEMMA LiteralMatchesItself ==
    ASSUME NEW pattern \in Seq(Pattern), ~HasWildcard(pattern),
           NEW path \in Seq(Segments), GlobPath(pattern, path)
    PROVE  pattern = path
<1>1. PICK end \in [0..Len(pattern) -> 0..Len(path)] :
          /\ end[0] = 0 /\ end[Len(pattern)] = Len(path)
          /\ \A i \in 0..Len(pattern), j \in 0..Len(pattern) :
                i < j => /\ end[i] <= end[j]
                         /\ (\A k \in i+1..j : pattern[k] # AnyPath) => end[j] = end[i] + (j - i)
          /\ \A k \in DOMAIN pattern :
                pattern[k] # AnyPath => path[end[k]] \in GlobSegment[pattern[k]]
      BY DEF GlobPath
<1>2. \A k \in DOMAIN pattern : pattern[k] \in Segments /\ pattern[k] # AnyPath
      BY PatternAssumption DEF HasWildcard
<1>3. \A j \in 0..Len(pattern) : end[j] = j
  <2>1. SUFFICES ASSUME NEW j \in 0..Len(pattern), j > 0  PROVE end[j] = j
        BY <1>1
  <2>2. Len(pattern) \in Nat /\ 0 \in 0..Len(pattern) /\ 0 < j
        BY <2>1
  <2>3. (\A k \in 0+1..j : pattern[k] # AnyPath) => end[j] = end[0] + (j - 0)
        BY <1>1, <2>2, Zenon
  <2>4. \A k \in 0+1..j : pattern[k] # AnyPath
        BY <1>2, <2>2
  <2> QED BY <1>1, <2>2, <2>3, <2>4
<1>4. Len(pattern) = Len(path)
      BY <1>1, <1>3
<1>5. \A k \in 1..Len(pattern) : path[k] = pattern[k]
  <2>1. SUFFICES ASSUME NEW k \in 1..Len(pattern)  PROVE path[k] = pattern[k]
        OBVIOUS
  <2>2. path[end[k]] \in GlobSegment[pattern[k]]
        BY <1>1, <1>2
  <2>3. GlobSegment[pattern[k]] = {pattern[k]}
        BY <1>2, PatternAssumption
  <2> QED BY <1>3, <2>2, <2>3
<1> QED BY <1>4, <1>5 DEF Pattern

(* "**" alone matches every path.                                          *)
LEMMA AnyPathMatches ==
    ASSUME NEW path \in Seq(Segments)
    PROVE  GlobPath(<<AnyPath>>, path)
<1> DEFINE end == [i \in 0..1 |-> IF i = 0 THEN 0 ELSE Len(path)]
<1>1. end \in [0..1 -> 0..Len(path)]
      OBVIOUS
<1>2. end[0] = 0 /\ end[1] = Len(path)
      OBVIOUS
<1>3. 1 \in 0+1..1 /\ <<AnyPath>>[1] = AnyPath
      OBVIOUS
<1> HIDE DEF end
<1>4. ASSUME NEW i \in 0..1, NEW j \in 0..1, i < j
      PROVE  /\ end[i] <= end[j]
             /\ (\A k \in i+1..j : <<AnyPath>>[k] # AnyPath) => end[j] = end[i] + (j - i)
  <2>1. i = 0 /\ j = 1
        BY <1>4
  <2> QED BY <1>2, <1>3, <2>1
<1> QED BY <1>1, <1>2, <1>4 DEF GlobPath

(* "prefix/**" matches what any pattern below the literal prefix matches.  *)
LEMMA TreeMatchesBelow ==
    ASSUME NEW parent \in Seq(Pattern), NEW child \in Seq(Pattern), NEW path \in Seq(Segments),
           NEW depth \in Nat, Len(parent) = depth + 1, depth < Len(child),
           parent[depth + 1] = AnyPath,
           \A k \in 1..depth : parent[k] \in Segments /\ child[k] = parent[k],
           GlobPath(child, path)
    PROVE  GlobPath(parent, path)
<1>1. PICK cut \in [0..Len(child) -> 0..Len(path)] :
          /\ cut[0] = 0 /\ cut[Len(child)] = Len(path)
          /\ \A i \in 0..Len(child), j \in 0..Len(child) :
                i < j => /\ cut[i] <= cut[j]
                         /\ (\A k \in i+1..j : child[k] # AnyPath) => cut[j] = cut[i] + (j - i)
          /\ \A k \in DOMAIN child :
                child[k] # AnyPath => path[cut[k]] \in GlobSegment[child[k]]
      BY DEF GlobPath
<1>2. \A k \in 1..depth : parent[k] # AnyPath /\ child[k] # AnyPath
      BY PatternAssumption
<1>3. \A j \in 0..depth : cut[j] = j
  <2>1. SUFFICES ASSUME NEW j \in 0..depth, j > 0  PROVE cut[j] = j
        BY <1>1
  <2>2. j \in 0..Len(child) /\ 0 \in 0..Len(child) /\ 0 < j
        BY <2>1
  <2>3. (\A k \in 0+1..j : child[k] # AnyPath) => cut[j] = cut[0] + (j - 0)
        BY <1>1, <2>2, Zenon
  <2>4. \A k \in 0+1..j : child[k] # AnyPath
        BY <1>2, <2>1
  <2> QED BY <1>1, <2>2, <2>3, <2>4
<1>4. depth <= Len(path)
      BY <1>1, <1>3
<1> DEFINE end == [i \in 0..depth+1 |-> IF i <= depth THEN i ELSE Len(path)]
<1>5. end \in [0..Len(parent) -> 0..Len(path)]
      BY <1>4
<1>6. end[0] = 0 /\ end[Len(parent)] = Len(path) /\ \A i \in 0..depth : end[i] = i
      OBVIOUS
<1> HIDE DEF end
<1>7. ASSUME NEW i \in 0..Len(parent), NEW j \in 0..Len(parent), i < j
      PROVE  /\ end[i] <= end[j]
             /\ (\A k \in i+1..j : parent[k] # AnyPath) => end[j] = end[i] + (j - i)
  <2>1. CASE j <= depth
    <3>1. i \in 0..depth /\ j \in 0..depth
          BY <1>7, <2>1
    <3>2. end[i] = i /\ end[j] = j
          BY <1>6, <3>1
    <3> QED BY <1>7, <3>1, <3>2
  <2>2. CASE j = depth + 1
    <3>1. end[i] <= end[j]
          BY <1>4, <1>6, <1>7, <2>2
    <3>2. j \in i+1..j /\ parent[j] = AnyPath
          BY <1>7, <2>2
    <3> QED BY <3>1, <3>2
  <2> QED BY <2>1, <2>2
<1>8. ASSUME NEW k \in DOMAIN parent, parent[k] # AnyPath
      PROVE  path[end[k]] \in GlobSegment[parent[k]]
  <2>1. k \in 1..depth
        BY <1>8
  <2>2. path[cut[k]] \in GlobSegment[child[k]]
        BY <1>1, <1>2, <2>1
  <2> QED BY <1>3, <1>6, <2>1, <2>2
<1> QED BY <1>5, <1>6, <1>7, <1>8 DEF GlobPath
(* resource_within is a subset test, where it answers at all.              *)
LEMMA WithinMatchesLess ==
    ASSUME NEW Names, NEW parent \in Patterned(Names), NEW child \in Patterned(Names),
           NEW resource \in Named(Names),
           ResourceWithin(child, parent), ResourceMatches(child, resource)
    PROVE  ResourceMatches(parent, resource)
<1>1. CASE child = parent
      BY <1>1
<1>2. CASE child.kind = parent.kind /\ ~HasWildcard(child.path) /\ GlobPath(parent.path, child.path)
  <2>1. child.path = resource.path
        BY <1>2, LiteralMatchesItself DEF ResourceMatches, Named, Patterned
  <2> QED BY <1>2, <2>1 DEF ResourceMatches
<1>3. CASE child.kind = parent.kind /\ parent.path = <<AnyPath>>
      BY <1>3, AnyPathMatches DEF ResourceMatches, Named
<1>4. CASE /\ child.kind = parent.kind
           /\ LET depth == Len(parent.path) - 1 IN
              /\ depth > 0 /\ depth < Len(child.path)
              /\ parent.path[depth + 1] = AnyPath
              /\ \A k \in 1..depth : /\ parent.path[k] \in Segments
                                     /\ child.path[k] = parent.path[k]
  <2> DEFINE depth == Len(parent.path) - 1
  <2>1. depth \in Nat /\ Len(parent.path) = depth + 1
        BY <1>4
  <2>2. /\ depth < Len(child.path) /\ parent.path[depth + 1] = AnyPath
        /\ \A k \in 1..depth : parent.path[k] \in Segments /\ child.path[k] = parent.path[k]
        BY <1>4
  <2>3. GlobPath(child.path, resource.path) /\ child.kind = resource.kind
        BY DEF ResourceMatches
  <2>4. parent.path \in Seq(Pattern) /\ child.path \in Seq(Pattern) /\ resource.path \in Seq(Segments)
        BY DEF Named, Patterned
  <2> HIDE DEF depth
  <2>5. GlobPath(parent.path, resource.path)
        BY <2>1, <2>2, <2>3, <2>4, TreeMatchesBelow
  <2> QED BY <1>4, <2>3, <2>5 DEF ResourceMatches
<1> QED BY <1>1, <1>2, <1>3, <1>4 DEF ResourceWithin

(* A grant that narrow() derives permits no request that the grant it was  *)
(* derived from denies, at no higher class (capability.rs, narrow:         *)
(* "Derive a capability that can do no more than this one").               *)
THEOREM NarrowingPermitsNoMore ==
    ASSUME NEW Names, NEW grant \in Grants(Names), NEW request \in Accesses(Names),
           NEW resource \in Patterned(Names),
           NEW constraints, NEW class
    PROVE  NarrowsOnly(grant, resource, constraints, class, request)
<1> DEFINE narrowed == Narrow(grant, resource, constraints, class)
<1>1. SUFFICES ASSUME CanNarrow(grant, resource, constraints, class)
               PROVE  /\ Permits(narrowed, request) => Permits(grant, request)
                      /\ Rank(narrowed.class) <= Rank(grant.class)
      BY DEF NarrowsOnly
<1>2. /\ narrowed.resource = resource /\ narrowed.constraints = constraints
      /\ narrowed.class = class /\ narrowed.action = grant.action
      BY DEF Narrow, Grants
<1>3. Rank(narrowed.class) <= Rank(grant.class)
      BY <1>1, <1>2 DEF CanNarrow
<1>4. ASSUME Permits(narrowed, request)  PROVE Permits(grant, request)
  <2>1. ResourceMatches(grant.resource, request.resource)
    <3>1. ResourceWithin(resource, grant.resource) /\ ResourceMatches(resource, request.resource)
          BY <1>1, <1>2, <1>4 DEF CanNarrow, Permits
    <3>2. grant.resource \in Patterned(Names) /\ request.resource \in Named(Names)
          BY DEF Grants, Accesses
    <3> QED BY <3>1, <3>2, WithinMatchesLess
  <2>2. DOMAIN request.params = DOMAIN grant.constraints
        BY <1>1, <1>2, <1>4 DEF CanNarrow, Permits
  <2>3. ASSUME NEW key \in DOMAIN request.params
        PROVE  request.params[key] \in GlobSegment[grant.constraints[key]]
    <3>1. /\ ConstraintWithin(constraints[key], grant.constraints[key])
          /\ request.params[key] \in GlobSegment[constraints[key]]
          BY <1>1, <1>2, <1>4 DEF CanNarrow, Permits
    <3>2. CASE constraints[key] = grant.constraints[key]
          BY <3>1, <3>2
    <3>3. CASE /\ constraints[key] \in Segments
               /\ constraints[key] \in GlobSegment[grant.constraints[key]]
      <4>1. GlobSegment[constraints[key]] = {constraints[key]}
            BY <3>3, PatternAssumption
      <4> QED BY <3>1, <3>3, <4>1
    <3> QED BY <3>1, <3>2, <3>3 DEF ConstraintWithin
  <2> HIDE DEF narrowed
  <2> QED BY <1>1, <1>2, <1>4, <2>1, <2>2, <2>3 DEF Permits, CanNarrow
<1> QED BY <1>3, <1>4

-----------------------------------------------------------------------------
(* Dispatches.                                                             *)

Methods == {"initialize", "tools/list", "tools/call", "human.request", "human.await"}
Answers == {"none", "approve", "deny", "cancelled"}

Words == {"ok", "error", "guarded", "answering", "result", "failure", "task",
          "wait", "approve", "deny", "cancelled", "other", "notice"}

TrustedLines ==
    {line \in [id : Nat, what : Words] : line.what = "approve" => human.answer = "approve"}

Sessions == [asked : Seq(Methods), lines : Seq(TrustedLines), said : SUBSET TrustedLines,
             stray : Nat, closed : BOOLEAN]

HumanOk ==
    /\ human \in [shown : BOOLEAN, answer : Answers, when : Nat]
    /\ human.answer # "none" => human.shown
    /\ human.when <= now

(* A call that left at a time is permitted, approved and in time.          *)
Cleared(tool, since) ==
    /\ Permitted(tool)
    /\ NeedsApproval(tool) => human.answer = "approve"
    /\ since \in Nat /\ since <= now
    /\ human.shown => /\ human.answer = "approve"
                      /\ human.when <= since /\ since <= Ttl

CallOk ==
    \/ call.at = "ready" /\ now = 0 /\ ~human.shown /\ received = {}
    \/ /\ call.at \in {"asking", "sleeping"} /\ session.asked # <<>> /\ received = {}
       /\ call.at = "sleeping" => session.lines # <<>>
       /\ Permitted(call.tool) /\ call.expires = Ttl
    \/ call.at = "calling" /\ session.asked # <<>> /\ Cleared(call.tool, call.since)
    \/ call.at = "ended"

Inv ==
    /\ config \in Configurations /\ Valid(config)
    /\ now \in Nat
    /\ session \in Sessions /\ HumanOk /\ CallOk
    /\ \A request \in received : Cleared(request.tool, request.since)
-----------------------------------------------------------------------------
(* Ranks.                                                                  *)

LEMMA Ranks ==
    /\ Rank("Pure") = 1 /\ Rank("Read") = 2 /\ Rank("LocalWrite") = 3
    /\ Rank("ExternalWrite") = 4 /\ Rank("Destructive") = 5
    /\ ToSet(Classes) = {"Pure", "Read", "LocalWrite", "ExternalWrite", "Destructive"}
<1>1. DOMAIN Classes = 1..5
      BY DEF Classes
<1>2. /\ Classes[1] = "Pure" /\ Classes[2] = "Read" /\ Classes[3] = "LocalWrite"
      /\ Classes[4] = "ExternalWrite" /\ Classes[5] = "Destructive"
      BY DEF Classes
<1>3. \A n \in DOMAIN Classes : n = 1 \/ n = 2 \/ n = 3 \/ n = 4 \/ n = 5
      BY <1>1
<1>4. Rank("Pure") = 1
  <2>1. 1 \in DOMAIN Classes /\ \A n \in DOMAIN Classes : Classes[n] = "Pure" => n = 1
        BY <1>1, <1>2, <1>3
  <2> QED BY <1>2, <2>1 DEF Rank
<1>5. Rank("Read") = 2
  <2>1. 2 \in DOMAIN Classes /\ \A n \in DOMAIN Classes : Classes[n] = "Read" => n = 2
        BY <1>1, <1>2, <1>3
  <2> QED BY <1>2, <2>1 DEF Rank
<1>6. Rank("LocalWrite") = 3
  <2>1. 3 \in DOMAIN Classes /\ \A n \in DOMAIN Classes : Classes[n] = "LocalWrite" => n = 3
        BY <1>1, <1>2, <1>3
  <2> QED BY <1>2, <2>1 DEF Rank
<1>7. Rank("ExternalWrite") = 4
  <2>1. 4 \in DOMAIN Classes /\ \A n \in DOMAIN Classes : Classes[n] = "ExternalWrite" => n = 4
        BY <1>1, <1>2, <1>3
  <2> QED BY <1>2, <2>1 DEF Rank
<1>8. Rank("Destructive") = 5
  <2>1. 5 \in DOMAIN Classes /\ \A n \in DOMAIN Classes : Classes[n] = "Destructive" => n = 5
        BY <1>1, <1>2, <1>3
  <2> QED BY <1>2, <2>1 DEF Rank
<1>9. ToSet(Classes) = {Classes[n] : n \in 1..5}
      BY <1>1 DEF ToSet
<1>10. ToSet(Classes) = {"Pure", "Read", "LocalWrite", "ExternalWrite", "Destructive"}
  <2>1. \A c : c \in {Classes[n] : n \in 1..5} <=>
                  c = Classes[1] \/ c = Classes[2] \/ c = Classes[3] \/ c = Classes[4] \/ c = Classes[5]
        OBVIOUS
  <2> QED BY <1>2, <1>9, <2>1
<1> QED BY <1>4, <1>5, <1>6, <1>7, <1>8, <1>10

(* Some grant is the severest: there are five classes.                     *)
LEMMA SeverestExists ==
    ASSUME NEW grants, NEW S, S # {},
           \A g \in S : grants[g].class \in ToSet(Classes)
    PROVE  \E g \in S : \A h \in S : Rank(grants[h].class) <= Rank(grants[g].class)
<1>1. \A g \in S : Rank(grants[g].class) \in 1..5
      BY Ranks
<1> DEFINE some(n) == \E g \in S : Rank(grants[g].class) = n
           top(n) == some(n) /\ \A m \in 1..5 : some(m) => m <= n
<1>2. \E n \in 1..5 : some(n)
      BY <1>1
<1>3. \E n \in 1..5 : top(n)
  <2>1. CASE some(5)
        BY <2>1
  <2>2. CASE ~some(5) /\ some(4)
        BY <2>2
  <2>3. CASE ~some(5) /\ ~some(4) /\ some(3)
        BY <2>3
  <2>4. CASE ~some(5) /\ ~some(4) /\ ~some(3) /\ some(2)
        BY <2>4
  <2>5. CASE ~some(5) /\ ~some(4) /\ ~some(3) /\ ~some(2) /\ some(1)
        BY <2>5
  <2> QED BY <1>2, <2>1, <2>2, <2>3, <2>4, <2>5
<1>4. PICK n \in 1..5 : top(n)
      BY <1>3
<1>5. PICK g \in S : Rank(grants[g].class) = n
      BY <1>4
<1>6. \A h \in S : Rank(grants[h].class) <= n
      BY <1>1, <1>4
<1> QED BY <1>5, <1>6

(* The grant that authorizes a permitted call is the severest that covers  *)
(* it, and no severer than the route.                                      *)
Granted(tool) == config.grants[Authorize(config.grants, Action, Wanted(tool))].class

LEMMA GrantedIsSeverest ==
    ASSUME config \in Configurations, NEW tool, Permitted(tool)
    PROVE  /\ Granted(tool) \in ToSet(Classes)
           /\ \A class \in CoveringClasses(tool) : /\ class \in ToSet(Classes)
                                                    /\ Rank(class) <= Rank(Granted(tool))
           /\ Rank(Granted(tool)) <= Rank(EffectiveClass(Route))
<1> DEFINE S == Permitting(config.grants, Action, Wanted(tool))
           a == Authorize(config.grants, Action, Wanted(tool))
<1>1. S # {} /\ S \subseteq DOMAIN config.grants
      BY DEF Permitted, Authorized, Permitting
<1>2. \A g \in S : config.grants[g].class \in ToSet(Classes)
      BY <1>1, ShapesAssumption
<1>3. \E g \in S : \A h \in S : Rank(config.grants[h].class) <= Rank(config.grants[g].class)
  <2> HIDE DEF S
  <2> QED BY <1>1, <1>2, SeverestExists
<1>4. a = CHOOSE g \in S : \A h \in S : Rank(config.grants[h].class) <= Rank(config.grants[g].class)
      BY DEF Authorize
<1>5. a \in S /\ \A h \in S : Rank(config.grants[h].class) <= Rank(config.grants[a].class)
  <2> HIDE DEF S, a
  <2> QED BY <1>3, <1>4
<1>6. Granted(tool) = config.grants[a].class
      BY DEF Granted
<1>7. Rank(Granted(tool)) <= Rank(EffectiveClass(Route))
      BY DEF Permitted, Authorized, Granted, Route
<1>8. \A class \in CoveringClasses(tool) : \E h \in S : class = config.grants[h].class
      BY DEF CoveringClasses
<1> HIDE DEF S, a
<1> QED BY <1>2, <1>5, <1>6, <1>7, <1>8

(* What a cleared call may do: WritesAreGuarded and ClassIsACeiling for    *)
(* one request.                                                            *)
LEMMA ClearedIsGuarded ==
    ASSUME config \in Configurations, Valid(config), NEW tool, NEW since, Cleared(tool, since),
           NEW class \in CoveringClasses(tool)
    PROVE  /\ Rank(class) <= Rank(EffectiveClass(Route))
           /\ Rank(class) >= Rank("ExternalWrite") =>
                 /\ Route.key \/ Route.manual
                 /\ \/ human.answer = "approve"
                    \/ "not_required" \in Route.approval /\ class # "Destructive"
<1> DEFINE granted == Granted(tool)
<1>1. /\ granted \in ToSet(Classes) /\ class \in ToSet(Classes)
      /\ Rank(class) <= Rank(granted) /\ Rank(granted) <= Rank(EffectiveClass(Route))
      BY GrantedIsSeverest DEF Cleared
<1>2. /\ Route.class \subseteq ToSet(Classes) /\ Route.kind = "mcp"
      /\ Route.approval \subseteq {"required", "not_required"}
      BY ConfigurationsAssumption DEF Route
<1>3. Dispatchable(Route) /\ ApprovalRules(Route)
      BY ConfigurationsAssumption DEF Valid, RouteValid, Route
<1>4. EffectiveClass(Route) \in ToSet(Classes)
      BY <1>2, Ranks DEF EffectiveClass
<1>5. NeedsApproval(tool) <=> IsWrite(granted) /\ RequiresApproval(Route, granted)
      BY DEF NeedsApproval, Granted
<1> HIDE DEF granted
<1>6. Rank(class) <= Rank(EffectiveClass(Route))
      BY <1>1, <1>4, Ranks
<1>7. ASSUME Rank(class) >= Rank("ExternalWrite")
      PROVE  Route.key \/ Route.manual
  <2>1. EffectiveClass(Route) \in {"ExternalWrite", "Destructive"}
        BY <1>4, <1>6, <1>7, <1>1, Ranks
  <2> QED BY <1>3, <2>1 DEF Dispatchable
<1>8. ASSUME Rank(class) >= Rank("ExternalWrite"), human.answer # "approve"
      PROVE  "not_required" \in Route.approval /\ class # "Destructive"
  <2>1. granted \in {"ExternalWrite", "Destructive"} /\ IsWrite(granted)
        BY <1>1, <1>8, Ranks DEF IsWrite
  <2>2. ~RequiresApproval(Route, granted)
        BY <1>5, <1>8, <2>1 DEF Cleared
  <2>3. Route.approval # {} /\ "required" \notin Route.approval
        BY <2>1, <2>2 DEF RequiresApproval
  <2>4. "not_required" \in Route.approval
        BY <1>2, <2>3
  <2>5. ~RequiresApproval(Route, "Destructive")
        BY <2>3 DEF RequiresApproval
  <2>6. EffectiveClass(Route) # "Destructive"
        BY <1>3, <2>5 DEF ApprovalRules
  <2>7. class # "Destructive"
        BY <1>1, <1>4, <1>6, <2>6, Ranks
  <2> QED BY <2>4, <2>7
<1> QED BY <1>6, <1>7, <1>8

-----------------------------------------------------------------------------
(* Connections.                                                            *)

LEMMA Connecting == Connected \in Sessions
BY DEF Connected, Sessions

LEMMA Requesting ==
    ASSUME NEW s \in Sessions, NEW method \in Methods
    PROVE  Request(s, method) \in Sessions /\ Request(s, method).asked # <<>>
<1>1. s.asked \in Seq(Methods)
      BY DEF Sessions
<1>2. Append(s.asked, method) \in Seq(Methods)
      BY <1>1
<1>3. Len(Append(s.asked, method)) > 0
      BY <1>1
<1>4. Append(s.asked, method) # <<>>
      BY <1>3
<1> QED BY <1>2, <1>4 DEF Request, Sessions

LEMMA Reading ==
    ASSUME NEW s \in Sessions, s.lines # <<>>
    PROVE  /\ Read(s) \in Sessions /\ Read(s).asked = s.asked
           /\ Head(s.lines) \in TrustedLines
<1>1. Tail(s.lines) \in Seq(TrustedLines) /\ Head(s.lines) \in TrustedLines
      BY DEF Sessions
<1> QED BY <1>1 DEF Read, Sessions

LEMMA Writing ==
    ASSUME NEW s \in Sessions, NEW line \in TrustedLines
    PROVE  /\ Written(s, line) \in Sessions /\ Written(s, line).asked = s.asked
           /\ Strayed(s, line) \in Sessions /\ Strayed(s, line).asked = s.asked
<1>1. Append(s.lines, line) \in Seq(TrustedLines)
      BY DEF Sessions
<1>2. Written(s, line) \in Sessions /\ Written(s, line).asked = s.asked
      BY <1>1 DEF Written, Sessions
<1> QED BY <1>2 DEF Strayed, Sessions

(* HumanPort says "approve" only after its human.                          *)
LEMMA RepliesAreTrusted ==
    ASSUME HumanOk, NEW method \in Methods, NEW what \in Possible(method), NEW id \in Nat
    PROVE  Line(id, what) \in TrustedLines
<1>1. CASE method = "human.await"
  <2>1. what \in Verdicts
        BY <1>1 DEF Possible
  <2>2. what \in Words /\ (what = "approve" => human.answer = "approve")
        BY <2>1 DEF Verdicts, Words, HumanOk, Answers
  <2> QED BY <2>2 DEF Line, TrustedLines
<1>2. CASE method # "human.await"
  <2>1. what \in Replies(method)
        BY <1>2 DEF Possible
  <2>2. /\ method = "initialize" => what \in {"ok", "error"}
        /\ method = "tools/list" => what \in {"guarded", "answering", "error"}
        /\ method = "tools/call" => what \in {"result", "failure", "error"}
        /\ method = "human.request" => what \in {"task", "error"}
        BY <2>1 DEF Replies
  <2>3. what \in Words /\ what # "approve"
        BY <1>2, <2>2 DEF Methods, Words
  <2> QED BY <2>3 DEF Line, TrustedLines
<1> QED BY <1>1, <1>2

(* Time and the servers take nothing back.                                 *)
LEMMA PermittedStays ==
    ASSUME config' = config, NEW tool
    PROVE  Permitted(tool)' = Permitted(tool) /\ NeedsApproval(tool)' = NeedsApproval(tool)
BY DEF Permitted, NeedsApproval, Wanted, Route

LEMMA ClearedStays ==
    ASSUME NEW tool, NEW since, Cleared(tool, since),
           config' = config, human' = human, now \in Nat, now' \in Nat, now <= now'
    PROVE  Cleared(tool, since)'
BY PermittedStays DEF Cleared

-----------------------------------------------------------------------------
(* The invariant.                                                          *)

LEMMA InvInitially == Init => Inv
BY Connecting DEF Init, Inv, HumanOk, Answers, CallOk

(* Leaving for the tool's server, or ending, is all a decision can do.     *)
LEMMA CallsKeep ==
    ASSUME Inv, NEW tool, Calls(tool), received = {},
           config' = config, human' = human, now' = now, Cleared(tool, now)
    PROVE  Inv'
<1>1. session' \in Sessions /\ session'.asked # <<>>
      BY Connecting, Requesting DEF Calls, Methods
<1>2. Cleared(tool, now)' /\ call'.at = "calling" /\ call'.tool = tool /\ call'.since = now
      BY ClearedStays DEF Calls, Inv
<1>3. Sessions' = Sessions /\ HumanOk'
      BY DEF Sessions, TrustedLines, Inv, HumanOk
<1>4. CallOk'
      BY <1>1, <1>2 DEF CallOk, Cleared
<1> QED BY <1>1, <1>3, <1>4 DEF Inv, Calls

LEMMA EndsKeep ==
    ASSUME Inv, NEW outcome, Ends(outcome),
           config' = config, human' = human, now' = now
    PROVE  Inv'
<1>1. Sessions' = Sessions /\ HumanOk'
      BY DEF Sessions, TrustedLines, Inv, HumanOk
<1>2. CallOk' /\ received' = received
      BY DEF Ends, Ended, CallOk
<1>3. \A request \in received : Cleared(request.tool, request.since)'
      BY ClearedStays DEF Inv
<1>4. session' \in Sessions'
      BY <1>1, Connecting DEF Ends
<1> QED BY <1>1, <1>2, <1>3, <1>4 DEF Inv

LEMMA StartKeeps ==
    ASSUME Inv, Start
    PROVE  Inv'
<1>1. now = 0 /\ ~human.shown /\ received = {} /\ now \in Nat
      BY DEF Start, Inv, CallOk
<1>2. config' = config /\ human' = human /\ now' = now
      BY DEF Start
<1>3. ASSUME NEW outcome, Ends(outcome)  PROVE Inv'
      BY <1>2, <1>3, EndsKeep
<1>4. ASSUME NEW tool, Dispatches(tool)  PROVE Inv'
  <2>1. CASE Permitted(tool) /\ ~NeedsApproval(tool) /\ Calls(tool)
    <3>1. Cleared(tool, now)
          BY <1>1, <2>1 DEF Cleared
    <3> QED BY <1>1, <1>2, <2>1, <3>1, CallsKeep
  <2>2. CASE Permitted(tool) /\ Asks(tool)
    <3>1. session' \in Sessions /\ session'.asked # <<>>
          BY <2>2, Connecting, Requesting DEF Asks, Methods
    <3>2. /\ call'.at = "asking" /\ call'.tool = tool /\ call'.expires = Ttl
          /\ received' = {}
          BY <1>1, <2>2, TimesAssumption DEF Asks, Asking
    <3>3. Permitted(tool)'
          BY <1>2, <2>2, PermittedStays
    <3>4. Sessions' = Sessions /\ HumanOk'
          BY <1>2 DEF Sessions, TrustedLines, Inv, HumanOk
    <3>5. CallOk'
          BY <3>1, <3>2, <3>3 DEF CallOk
    <3> QED BY <1>2, <3>1, <3>2, <3>4, <3>5 DEF Inv
  <2>3. CASE Ends("denied") \/ Ends("failed")
        BY <1>3, <2>3
  <2> QED BY <1>4, <2>1, <2>2, <2>3 DEF Dispatches
<1> QED BY <1>3, <1>4 DEF Start

(* The next line of a connection that one is waiting on.                   *)
LEMMA Lines ==
    ASSUME Inv, session.lines # <<>>, call.at \in {"asking", "sleeping", "calling"}
    PROVE  /\ Read(session) \in Sessions /\ Read(session).asked # <<>>
           /\ Head(session.lines) \in TrustedLines
BY Reading DEF Inv, CallOk

(* Asking again, or giving up, while nothing has been sent.                *)
LEMMA AwaitsKeep ==
    ASSUME Inv, call.at \in {"asking", "sleeping"}, session.lines # <<>>, Awaits,
           config' = config, now' = now, HumanOk', human'.answer = human.answer
    PROVE  Inv'
<1>1. received = {} /\ received' = {} /\ Permitted(call.tool) /\ call.expires = Ttl
      BY DEF Inv, CallOk, Awaits, Ends
<1>2. Sessions' = Sessions
      BY DEF Sessions, TrustedLines
<1>3. CASE InTime(call.expires)
  <2>1. session' \in Sessions /\ session'.asked # <<>>
        BY <1>3, Lines, Requesting DEF Awaits, Methods
  <2>2. PICK tool : tool = call.tool
        OBVIOUS
  <2>3. call'.at = "asking" /\ call'.tool = tool /\ call'.expires = call.expires
        BY <1>3, <2>2 DEF Awaits, Asking
  <2>4. Permitted(tool)'
        BY <1>1, <2>2, PermittedStays
  <2>5. CallOk'
        BY <1>1, <2>1, <2>3, <2>4 DEF CallOk
  <2> QED BY <1>1, <1>2, <2>1, <2>5 DEF Inv
<1>4. CASE ~InTime(call.expires)
  <2>1. session' \in Sessions /\ call'.at = "ended"
        BY <1>4, Connecting DEF Awaits, Ends, Ended
  <2> QED BY <1>1, <1>2, <2>1 DEF Inv, CallOk
<1> QED BY <1>3, <1>4

LEMMA WakesKeeps ==
    ASSUME Inv, Wakes
    PROVE  Inv'
<1>1. session.lines # <<>>
      BY DEF Wakes, Inv, CallOk
<1>2. HumanOk'
      BY DEF Wakes, Inv, HumanOk
<1> QED BY <1>1, <1>2, AwaitsKeep DEF Wakes

LEMMA AskerReadsKeeps ==
    ASSUME Inv, AskerReads
    PROVE  Inv'
<1> DEFINE answer == Head(session.lines).what
           next(method) == /\ session' = Request(Read(session), method)
                           /\ UNCHANGED <<call, received>>
<1>1. /\ call.at = "asking" /\ session.lines # <<>> /\ config' = config /\ now' = now
      /\ received = {} /\ Permitted(call.tool) /\ call.expires = Ttl /\ now \in Nat
      BY DEF AskerReads, Responds, Inv, CallOk
<1>2. human' = [human EXCEPT !.shown = human.shown \/ "human.request" \in ToSet(session'.asked)]
      BY DEF AskerReads
<1>3. /\ human'.answer = human.answer /\ human'.when = human.when
      /\ human.shown => human'.shown
      /\ human' \in [shown : BOOLEAN, answer : Answers, when : Nat]
      BY <1>2 DEF Inv, HumanOk
<1>4. HumanOk' /\ Sessions' = Sessions
      BY <1>1, <1>3 DEF Inv, HumanOk, Sessions, TrustedLines
<1>5. ASSUME NEW outcome, Ends(outcome)  PROVE Inv'
  <2>1. session' \in Sessions /\ call'.at = "ended" /\ received' = {}
        BY <1>1, <1>5, Connecting DEF Ends, Ended
  <2> QED BY <1>1, <1>4, <2>1 DEF Inv, CallOk
<1>6. ASSUME NEW method \in Methods, next(method)  PROVE Inv'
  <2>1. session' \in Sessions /\ session'.asked # <<>>
        BY <1>1, <1>6, Lines, Requesting
  <2>2. Permitted(call.tool)' /\ call' = call /\ received' = {}
        BY <1>1, <1>6, PermittedStays
  <2>3. CallOk'
        BY <1>1, <2>1, <2>2 DEF CallOk
  <2> QED BY <1>1, <1>4, <2>1, <2>2, <2>3 DEF Inv
<1>7. CASE call' = Sleeping /\ UNCHANGED <<session, received>>
  <2>0. PICK tool : tool = call.tool
        OBVIOUS
  <2>1. /\ call'.at = "sleeping" /\ call'.tool = tool /\ call'.expires = Ttl
        /\ session' = session /\ received' = {}
        BY <1>1, <1>7, <2>0 DEF Sleeping
  <2>2. Permitted(tool)'
        BY <1>1, <2>0, PermittedStays
  <2>3. session \in Sessions /\ session.asked # <<>>
        BY <1>1 DEF Inv, CallOk
  <2>4. CallOk'
        BY <1>1, <2>1, <2>2, <2>3 DEF CallOk
  <2> QED BY <1>1, <1>4, <2>1, <2>3, <2>4 DEF Inv
<1>8. CASE Decides(answer)
  <2>1. CASE answer = "approve" /\ InTime(call.expires)
    <3>1. human.answer = "approve" /\ human.shown
          BY <1>1, <2>1, Lines DEF TrustedLines, Inv, HumanOk
    <3>2. human' = human
          BY <1>2, <3>1 DEF Inv, HumanOk
    <3>3. Cleared(call.tool, now)
          BY <1>1, <2>1, <3>1 DEF Cleared, InTime, Inv, HumanOk
    <3>4. Calls(call.tool)
          BY <1>8, <2>1 DEF Decides
    <3> QED BY <1>1, <3>2, <3>3, <3>4, CallsKeep
  <2>2. CASE ~(answer = "approve" /\ InTime(call.expires))
        BY <1>5, <1>8, <2>2 DEF Decides
  <2> QED BY <2>1, <2>2
<1>9. CASE Awaits
      BY <1>1, <1>3, <1>4, <1>9, AwaitsKeep
<1>10. \/ next("tools/list") \/ next("human.request") \/ Ends("failed") \/ Awaits
       \/ call' = Sleeping /\ UNCHANGED <<session, received>>
       \/ Decides(answer)
       BY Zenon DEF AskerReads
<1> QED BY <1>5, <1>6, <1>7, <1>8, <1>9, <1>10 DEF Methods

(* The request to the tool's server leaves here.                           *)
LEMMA CallerReadsKeeps ==
    ASSUME Inv, CallerReads
    PROVE  Inv'
<1>1. /\ call.at = "calling" /\ session.lines # <<>> /\ Cleared(call.tool, call.since)
      /\ config' = config /\ human' = human /\ now' = now /\ now \in Nat
      BY DEF CallerReads, Responds, Inv, CallOk
<1>2. ASSUME NEW outcome, Ends(outcome)  PROVE Inv'
      BY <1>1, <1>2, EndsKeep
<1>3. ASSUME session' = Request(Read(session), "tools/call"), call' = call,
             received' = received \cup {[tool |-> call.tool, since |-> call.since]}
      PROVE  Inv'
  <2>1. session' \in Sessions /\ session'.asked # <<>>
        BY <1>1, <1>3, Lines, Requesting DEF Methods
  <2>2. Sessions' = Sessions /\ HumanOk'
        BY <1>1 DEF Sessions, TrustedLines, Inv, HumanOk
  <2>3. PICK tool, since : tool = call.tool /\ since = call.since
        OBVIOUS
  <2>4. Cleared(tool, since)'
        BY <1>1, <2>3, ClearedStays
  <2>5. CallOk'
        BY <1>1, <1>3, <2>1, <2>3, <2>4 DEF CallOk
  <2>6. \A request \in received : Cleared(request.tool, request.since)'
        BY <1>1, ClearedStays DEF Inv
  <2>7. \A request \in received' : Cleared(request.tool, request.since)'
    <3> DEFINE sent == [tool |-> tool, since |-> since]
    <3>1. sent.tool = tool /\ sent.since = since /\ received' = received \cup {sent}
          BY <1>3, <2>3
    <3>2. Cleared(sent.tool, sent.since)'
          BY <2>4, <3>1
    <3> HIDE DEF sent
    <3> QED BY <2>6, <3>1, <3>2
  <2> QED BY <1>1, <2>1, <2>2, <2>5, <2>7 DEF Inv
<1>4. \/ Ends("failed") \/ Ends("succeeded")
      \/ /\ session' = Request(Read(session), "tools/call") /\ call' = call
         /\ received' = received \cup {[tool |-> call.tool, since |-> call.since]}
      BY Zenon DEF CallerReads
<1> QED BY <1>2, <1>3, <1>4

(* A step of the servers, or of time: the dispatch stays where it is.      *)
LEMMA WaitingKeeps ==
    ASSUME Inv, session' \in Sessions, session'.asked = session.asked,
           call.at = "sleeping" => session'.lines # <<>>,
           now' \in Nat, now <= now', call.at = "ready" => now' = now,
           UNCHANGED <<config, call, human, received>>
    PROVE  Inv'
<1>1. Sessions' = Sessions /\ HumanOk'
      BY DEF Sessions, TrustedLines, Inv, HumanOk
<1>2. now \in Nat
      BY DEF Inv
<1>3. \A request \in received : Cleared(request.tool, request.since)'
      BY <1>2, ClearedStays DEF Inv
<1>4. PICK tool, since : tool = call.tool /\ since = call.since
      OBVIOUS
<1>5. Permitted(tool)' = Permitted(tool)
      BY PermittedStays
<1>6. call.at = "calling" => Cleared(tool, since)'
      BY <1>2, <1>4, ClearedStays DEF Inv, CallOk
<1>7. CallOk'
      BY <1>4, <1>5, <1>6 DEF Inv, CallOk
<1> QED BY <1>1, <1>3, <1>7 DEF Inv

LEMMA ServersKeep ==
    ASSUME Inv, ServerReplies \/ ServerStrays \/ ServerCloses
    PROVE  Inv'
<1>1. call.at \in {"asking", "calling"} /\ UNCHANGED <<config, call, human, received, now>>
      BY DEF ServerReplies, ServerStrays, ServerCloses, ServerSays, Talking
<1>2. session \in Sessions /\ now \in Nat /\ session.asked \in Seq(Methods) /\ session.asked # <<>>
      BY <1>1 DEF Inv, CallOk, Sessions
<1>3. Outstanding(session) \in Nat /\ Waiting(session) \in Methods
      BY <1>2 DEF Outstanding, Waiting
<1>4. session' \in Sessions /\ session'.asked = session.asked
  <2>1. CASE ServerReplies
    <3>1. PICK what \in Possible(Waiting(session)) :
              session' = Written(session, Line(Outstanding(session), what))
          BY <2>1 DEF ServerReplies, ServerSays
    <3>2. Line(Outstanding(session), what) \in TrustedLines
          BY <1>3, RepliesAreTrusted DEF Inv
    <3> QED BY <1>2, <3>1, <3>2, Writing
  <2>2. CASE ServerStrays
    <3>1. PICK line \in session.said \cup {Notification} : session' = Strayed(session, line)
          BY <2>2 DEF ServerStrays, ServerSays
    <3>2. line \in TrustedLines
          BY <1>2 DEF Sessions, TrustedLines, Notification, Line, Words
    <3> QED BY <1>2, <3>1, <3>2, Writing
  <2>3. CASE ServerCloses
    <3>1. session' = [session EXCEPT !.closed = TRUE]
          BY <2>3 DEF ServerCloses, ServerSays
    <3> QED BY <1>2, <3>1 DEF Sessions
  <2> QED BY <2>1, <2>2, <2>3
<1> QED BY <1>1, <1>2, <1>4, WaitingKeeps

(* The human answers while nothing has been sent.                          *)
LEMMA HumanKeeps ==
    ASSUME Inv, HumanAnswers
    PROVE  Inv'
<1>1. /\ human.shown /\ human.answer = "none" /\ now \in Nat
      /\ UNCHANGED <<config, call, session, received, now>>
      BY DEF HumanAnswers, Inv
<1>2. PICK answer \in {"approve", "deny", "cancelled"} :
          human' = [human EXCEPT !.answer = answer, !.when = now]
      BY DEF HumanAnswers
<1>3. /\ human' \in [shown : BOOLEAN, answer : Answers, when : Nat]
      /\ human'.shown /\ human'.when = now
      BY <1>1, <1>2 DEF Inv, HumanOk, Answers
<1>4. HumanOk'
      BY <1>1, <1>3 DEF HumanOk
<1>5. TrustedLines \subseteq TrustedLines'
      BY <1>1 DEF TrustedLines
<1>6. session' \in Sessions'
  <2>1. session.lines \in Seq(TrustedLines') /\ session.said \subseteq TrustedLines'
    <3>1. session.lines \in Seq(TrustedLines)
          BY DEF Inv, Sessions
    <3>2. session.lines \in [1..Len(session.lines) -> TrustedLines] /\ Len(session.lines) \in Nat
          BY <3>1
    <3>3. session.lines \in [1..Len(session.lines) -> TrustedLines']
          BY <1>5, <3>2
    <3> QED BY <1>5, <3>2, <3>3 DEF Inv, Sessions
  <2> QED BY <1>1, <2>1 DEF Inv, Sessions
<1>7. received = {} /\ call.at \in {"asking", "sleeping", "ended"}
      BY <1>1 DEF Inv, CallOk, Cleared
<1>8. CallOk'
  <2>1. PICK tool : tool = call.tool
        OBVIOUS
  <2>2. Permitted(tool)' = Permitted(tool)
        BY <1>1, PermittedStays
  <2> QED BY <1>1, <1>7, <2>1, <2>2 DEF Inv, CallOk
<1> QED BY <1>1, <1>4, <1>6, <1>7, <1>8 DEF Inv

LEMMA NextKeeps ==
    ASSUME Inv, [Next]_vars
    PROVE  Inv'
<1>1. CASE Start
      BY <1>1, StartKeeps
<1>2. CASE AskerReads
      BY <1>2, AskerReadsKeeps
<1>3. CASE Wakes
      BY <1>3, WakesKeeps
<1>4. CASE CallerReads
      BY <1>4, CallerReadsKeeps
<1>5. CASE PassesOver
  <2>1. /\ session' = Read(session) /\ session.lines # <<>> /\ session \in Sessions
        /\ call.at \in {"asking", "calling"} /\ now \in Nat
        /\ UNCHANGED <<config, call, human, received, now>>
        BY <1>5 DEF PassesOver, Passed, Talking, Inv
  <2>2. session' \in Sessions /\ session'.asked = session.asked
        BY <2>1, Reading
  <2> QED BY <2>1, <2>2, WaitingKeeps
<1>6. CASE Breaks \/ TimesOut
      BY <1>6, EndsKeep DEF Breaks, TimesOut
<1>7. CASE ServerReplies \/ ServerStrays \/ ServerCloses
      BY <1>7, ServersKeep
<1>8. CASE HumanAnswers
      BY <1>8, HumanKeeps
<1>9. CASE Tick
  <2>1. /\ session' = session /\ session \in Sessions /\ now \in Nat /\ now' = now + 1
        /\ call.at # "ready" /\ UNCHANGED <<config, call, human, received>>
        BY <1>9 DEF Tick, Inv
  <2>2. call.at = "sleeping" => session'.lines # <<>>
        BY <2>1 DEF Inv, CallOk
  <2> QED BY <2>1, <2>2, WaitingKeeps
<1>10. CASE UNCHANGED vars
  <2>1. /\ UNCHANGED <<config, call, human, received>> /\ session' = session /\ now' = now
        /\ session \in Sessions /\ now \in Nat
        BY <1>10 DEF vars, Inv
  <2>2. call.at = "sleeping" => session'.lines # <<>>
        BY <2>1 DEF Inv, CallOk
  <2> QED BY <2>1, <2>2, WaitingKeeps
<1> QED BY <1>1, <1>2, <1>3, <1>4, <1>5, <1>6, <1>7, <1>8, <1>9, <1>10 DEF Next

(* Every stage of a dispatch keeps what it established.                    *)
THEOREM DispatchInvariant == Spec => []Inv
BY InvInitially, NextKeeps, PTL DEF Spec

(* No external write reaches a server without a key or manual              *)
(* reconciliation, and without the human's approval unless the route opted *)
(* out of it (capability.rs authorize, config.rs validate, engine.rs       *)
(* execute_action, approver.rs ask).                                       *)
THEOREM GuardedWrites == Spec => []WritesAreGuarded
<1>1. Inv => WritesAreGuarded
      BY ClearedIsGuarded DEF Inv, WritesAreGuarded
<1> QED BY <1>1, DispatchInvariant, PTL

(* No call goes beyond the class of its route, whichever tool the adapter  *)
(* put in the place of the one asked for (config.rs authorize_route).      *)
THEOREM ClassCeiling == Spec => []ClassIsACeiling
<1>1. Inv => ClassIsACeiling
      BY ClearedIsGuarded DEF Inv, ClassIsACeiling
<1> QED BY <1>1, DispatchInvariant, PTL

(* An approved call leaves after the human approved and in time, for every *)
(* interleaving of the polls, the clock, the human and the lines of        *)
(* HumanPort (approver.rs ask, approval.rs decide_approval).               *)
THEOREM FreshApprovals == Spec => []ApprovalsAreFresh
<1>1. Inv => ApprovalsAreFresh
      BY DEF Inv, ApprovalsAreFresh, Cleared
<1> QED BY <1>1, DispatchInvariant, PTL

(* A grant narrowed to any resource that the configuration or the route    *)
(* names permits nothing that it did not permit itself, whatever the       *)
(* grants, the patterns and the files are (capability.rs narrow).          *)
THEOREM NarrowingIsSafe == Spec => []NarrowedGrantsPermitNoMore
<1>1. Inv => NarrowedGrantsPermitNoMore
  <2> SUFFICES ASSUME Inv,
                      NEW g \in DOMAIN config.grants,
                      NEW resource, NEW request,
                      request \in StaticNeeds(Route) \cup {FileRead(file) : file \in Files},
                      \/ \E need \in StaticNeeds(Route) \cup {FileRead(file) : file \in Files} :
                            resource = need.resource
                      \/ \E h \in DOMAIN config.grants : resource = config.grants[h].resource
               PROVE  NarrowsOnly(config.grants[g], resource, <<>>, config.grants[g].class, request)
    BY DEF NarrowedGrantsPermitNoMore
  <2> DEFINE Names == STRING \cup Route.sandbox
                        \cup {"mcp.call", "file.read", "network.connect", "read-only"}
                        \cup {"mcp", "file", "host"}
  <2>0. /\ {"mcp.call", "file.read", "network.connect", "read-only", "mcp", "file", "host"}
               \subseteq Names
        /\ Route.sandbox \subseteq Names /\ STRING \subseteq Names
    OBVIOUS
  <2> HIDE DEF Names
  <2>1. /\ config \in Configurations /\ Route.kind = "mcp"
        /\ {Route.server} \cup DeclaredTools(Route) \subseteq Segments
    BY ConfigurationsAssumption, ShapesAssumption DEF Inv, Route
  <2>2. ASSUME NEW h \in DOMAIN config.grants PROVE config.grants[h] \in Grants(Names)
    <3> DEFINE values == config.grants[h].constraints
    <3>1. /\ config.grants[h] \in
               [action : STRING, constraints : {values}, subjects : SUBSET STRING,
                resource : [kind : STRING, path : Seq(Segments \cup Globs \cup {AnyPath})],
                class : ToSet(Classes), revoked : BOOLEAN]
          /\ DOMAIN values \subseteq STRING
          /\ values \in [DOMAIN values -> Segments \cup Globs]
      BY <2>1, ShapesAssumption
    <3>2. values \in UNION {[keys -> Segments \cup Globs] : keys \in SUBSET Names}
      BY <2>0, <3>1
    <3> HIDE DEF values
    <3> QED BY <2>0, <3>1, <3>2 DEF Grants, Patterned, Pattern
  <2>3. \A action \in Names, wanted \in Named(Names) : Access(action, wanted) \in Accesses(Names)
    <3>1. <<>> \in UNION {[keys -> Segments] : keys \in SUBSET Names}
      <4>1. <<>> \in [{} -> Segments]
        OBVIOUS
      <4> QED BY <4>1
    <3> QED BY <3>1 DEF Access, Accesses
  <2>4. ASSUME NEW need \in StaticNeeds(Route) PROVE need \in Accesses(Names)
    <3>1. \/ \E tool \in DeclaredTools(Route) : need = McpCall(Route.server, tool)
          \/ need \in CodexRequests(Route)
      BY <2>1 DEF StaticNeeds
    <3>2. ASSUME NEW tool \in DeclaredTools(Route)
          PROVE  McpCall(Route.server, tool) \in Accesses(Names)
      <4>1. <<Route.server, tool>> \in Seq(Segments)
        BY <2>1
      <4>2. ToolResource(Route.server, tool) \in Named(Names)
        BY <2>0, <4>1 DEF ToolResource, Named
      <4> QED BY <2>0, <2>3, <4>2 DEF McpCall
    <3>3. ASSUME need \in CodexRequests(Route) PROVE need \in Accesses(Names)
      <4> DEFINE OnHost(host) == [kind |-> "host", path |-> <<host>>]
      <4>1. OnHost("local") \in Named(Names) /\ OnHost("any") \in Named(Names)
        BY <2>0, ShapesAssumption DEF Named
      <4>2. Sandbox(Route) \subseteq Names
        BY <2>0 DEF Sandbox
      <4>3. \/ \E sandbox \in Sandbox(Route) : need = Access(sandbox, OnHost("local"))
            \/ need = Access("network.connect", OnHost("any"))
        BY <3>3 DEF CodexRequests
      <4> HIDE DEF OnHost
      <4> QED BY <2>0, <2>3, <4>1, <4>2, <4>3
    <3> QED BY <3>1, <3>2, <3>3
  <2>5. ASSUME NEW file \in Files PROVE FileRead(file) \in Accesses(Names)
    <3>1. [kind |-> "file", path |-> file] \in Named(Names)
      BY <2>0, ShapesAssumption DEF Named
    <3> QED BY <2>0, <2>3, <3>1 DEF FileRead
  <2>6. request \in Accesses(Names)
    BY <2>4, <2>5
  <2>7. resource \in Patterned(Names)
    <3>1. \A need \in Accesses(Names) : need.resource \in Patterned(Names)
      <4>1. Seq(Segments) \subseteq Seq(Pattern)
        BY DEF Pattern
      <4> QED BY <4>1 DEF Accesses, Named, Patterned
    <3>2. \A h \in DOMAIN config.grants : config.grants[h].resource \in Patterned(Names)
      BY <2>2 DEF Grants
    <3> QED BY <2>4, <2>5, <3>1, <3>2
  <2> QED BY <2>2, <2>6, <2>7, NarrowingPermitsNoMore
<1> QED BY <1>1, DispatchInvariant, PTL

-----------------------------------------------------------------------------
(* What the lines of a connection say: a line that answers a request was   *)
(* said by the server, in answer to a request that was sent; for a tool    *)
(* call it is one of the three answers there are.  A connection to the     *)
(* tool's server carries no other requests than initialize and tools/call. *)
Heard == \A k \in DOMAIN session.lines :
            session.lines[k].id # 0 => session.lines[k] \in session.said

AnswersFit ==
    \A line \in session.said :
        /\ line.id \in DOMAIN session.asked
        /\ session.asked[line.id] = "tools/call" => line.what \in {"result", "failure", "error"}

CallsOnly ==
    call.at = "calling" =>
        \A k \in DOMAIN session.asked : session.asked[k] \in {"initialize", "tools/call"}

(* A call that succeeded was not left waiting for the human.               *)
SuccessIsApproved ==
    call = Ended("succeeded") => (human.shown => human.answer = "approve")

AnswerInv == Heard /\ AnswersFit /\ CallsOnly /\ SuccessIsApproved

(* A fresh connection has said nothing.                                    *)
LEMMA SilentAtFirst ==
    ASSUME session' \in {Connected, Request(Connected, "initialize")},
           SuccessIsApproved'
    PROVE  AnswerInv'
<1>1. /\ session'.lines = <<>> /\ session'.said = {}
      /\ \A k \in DOMAIN session'.asked : session'.asked[k] = "initialize"
  BY DEF Connected, Request
<1> QED BY <1>1 DEF AnswerInv, Heard, AnswersFit, CallsOnly

(* The client reads a line and may ask one thing more.                     *)
LEMMA ReadingFits ==
    ASSUME Inv, Heard, AnswersFit, session.lines # <<>>
    PROVE  /\ \A k \in DOMAIN Read(session).lines :
                 Read(session).lines[k].id # 0 => Read(session).lines[k] \in session.said
           /\ Read(session).said = session.said /\ Read(session).asked = session.asked
           /\ Head(session.lines).id # 0 => Head(session.lines) \in session.said
<1>1. session.lines \in Seq(TrustedLines) /\ session \in Sessions
  BY DEF Inv, Sessions
<1>2. Read(session).lines = Tail(session.lines)
  BY <1>1 DEF Read, Sessions
<1>3. /\ DOMAIN Tail(session.lines) = 1..Len(session.lines) - 1
      /\ \A k \in 1..Len(session.lines) - 1 :
            /\ Tail(session.lines)[k] = session.lines[k + 1]
            /\ k + 1 \in DOMAIN session.lines
      /\ Head(session.lines) = session.lines[1] /\ 1 \in DOMAIN session.lines
  BY <1>1
<1>4. Read(session).said = session.said /\ Read(session).asked = session.asked
  BY <1>1 DEF Read, Sessions
<1> QED BY <1>2, <1>3, <1>4 DEF Heard

LEMMA ReadingKeepsAnswers ==
    ASSUME Inv, AnswerInv, session.lines # <<>>, SuccessIsApproved',
           call'.at = "calling" => call.at = "calling",
           \/ session' = Read(session)
           \/ \E method \in Methods : /\ session' = Request(Read(session), method)
                                      /\ call.at = "calling" => method = "tools/call"
    PROVE  AnswerInv'
<1>1. Read(session) \in Sessions /\ Read(session).asked = session.asked
  BY Reading DEF Inv
<1>2. /\ session'.lines = Read(session).lines /\ session'.said = session.said
      /\ \A k \in DOMAIN session.asked : /\ k \in DOMAIN session'.asked
                                         /\ session'.asked[k] = session.asked[k]
      /\ call.at = "calling" =>
            \A k \in DOMAIN session'.asked : \/ k \in DOMAIN session.asked
                                             \/ session'.asked[k] = "tools/call"
  <2>1. CASE session' = Read(session)
    BY <1>1, <2>1, ReadingFits DEF AnswerInv
  <2>2. ASSUME NEW method \in Methods, session' = Request(Read(session), method),
               call.at = "calling" => method = "tools/call"
        PROVE  <1>2
    <3>1. session'.asked = Append(session.asked, method) /\ session.asked \in Seq(Methods)
      BY <1>1, <2>2 DEF Request, Sessions
    <3>2. session'.lines = Read(session).lines /\ session'.said = session.said
      BY <1>1, <2>2, ReadingFits DEF Request, Sessions, AnswerInv
    <3> QED BY <2>2, <3>1, <3>2
  <2> QED BY <2>1, <2>2
<1>3. Heard'
  BY <1>2, ReadingFits DEF AnswerInv, Heard
<1>4. AnswersFit'
  BY <1>2 DEF AnswerInv, AnswersFit
<1>5. CallsOnly'
  BY <1>2 DEF AnswerInv, CallsOnly
<1> QED BY <1>3, <1>4, <1>5 DEF AnswerInv

(* The server writes a line.                                               *)
LEMMA WritingKeepsAnswers ==
    ASSUME Inv, AnswerInv, NEW line \in TrustedLines,
           session'.lines = Append(session.lines, line), session'.asked = session.asked,
           session'.said = IF line.id = 0 THEN session.said ELSE session.said \cup {line},
           line.id # 0 =>
               /\ line.id \in DOMAIN session.asked
               /\ session.asked[line.id] = "tools/call" =>
                     line.what \in {"result", "failure", "error"},
           call' = call, human' = human
    PROVE  AnswerInv'
<1>1. session.lines \in Seq(TrustedLines)
  BY DEF Inv, Sessions
<1>2. \A k \in DOMAIN session'.lines :
          \/ session'.lines[k] = line
          \/ k \in DOMAIN session.lines /\ session'.lines[k] = session.lines[k]
  BY <1>1
<1>3. Heard'
  BY <1>2 DEF AnswerInv, Heard
<1>4. AnswersFit'
  BY DEF AnswerInv, AnswersFit
<1> QED BY <1>3, <1>4 DEF AnswerInv, CallsOnly, SuccessIsApproved

(* A step that leaves the connection as it is.                             *)
LEMMA SilenceKeepsAnswers ==
    ASSUME AnswerInv, session'.asked = session.asked, session'.said = session.said,
           session'.lines = session.lines, call'.at = "calling" => call.at = "calling",
           SuccessIsApproved'
    PROVE  AnswerInv'
BY DEF AnswerInv, Heard, AnswersFit, CallsOnly

LEMMA EndsKeepsAnswers ==
    ASSUME NEW outcome, outcome # "succeeded", Ends(outcome) PROVE AnswerInv'
<1>1. session' = Connected /\ call' # Ended("succeeded")
  BY DEF Ends, Ended
<1> QED BY <1>1, SilentAtFirst DEF SuccessIsApproved

LEMMA CallsKeepsAnswers ==
    ASSUME NEW tool, Calls(tool) PROVE AnswerInv'
<1>1. session' = Request(Connected, "initialize") /\ call' # Ended("succeeded")
  BY DEF Calls, Ended
<1> QED BY <1>1, SilentAtFirst DEF SuccessIsApproved

LEMMA AwaitsKeepsAnswers ==
    ASSUME Inv, AnswerInv, session.lines # <<>>, call.at # "calling", Awaits PROVE AnswerInv'
<1>1. CASE InTime(call.expires)
  <2>1. session' = Request(Read(session), "human.await") /\ call'.at = "asking"
    BY <1>1 DEF Awaits, Asking
  <2>2. SuccessIsApproved'
    BY <2>1 DEF SuccessIsApproved, Ended
  <2> QED BY <2>1, <2>2, ReadingKeepsAnswers DEF Methods
<1>2. CASE ~InTime(call.expires)
  BY <1>2, EndsKeepsAnswers DEF Awaits
<1> QED BY <1>1, <1>2

LEMMA StartKeepsAnswers ==
    ASSUME Start PROVE AnswerInv'
<1>1. ASSUME NEW tool, Dispatches(tool) PROVE AnswerInv'
  <2>1. CASE Asks(tool)
    <3>1. session' = Request(Connected, "initialize") /\ call' # Ended("succeeded")
      BY <2>1 DEF Asks, Asking, Ended
    <3> QED BY <3>1, SilentAtFirst DEF SuccessIsApproved
  <2>2. CASE Calls(tool)
    BY <2>2, CallsKeepsAnswers
  <2>3. CASE Ends("denied") \/ Ends("failed")
    BY <2>3, EndsKeepsAnswers
  <2> QED BY <1>1, <2>1, <2>2, <2>3 DEF Dispatches
<1>2. CASE Ends("failed") \/ Ends("sandbox denied")
  BY <1>2, EndsKeepsAnswers
<1> QED BY <1>1, <1>2 DEF Start

LEMMA AskerReadsKeepsAnswers ==
    ASSUME Inv, AnswerInv, AskerReads PROVE AnswerInv'
<1> DEFINE answer == Head(session.lines).what
           next(method) == /\ session' = Request(Read(session), method)
                           /\ UNCHANGED <<call, received>>
<1>1. call.at = "asking" /\ session.lines # <<>>
  BY DEF AskerReads, Responds
<1>2. ASSUME NEW method \in Methods, next(method) PROVE AnswerInv'
  <2>1. SuccessIsApproved' /\ call'.at # "calling"
    BY <1>1, <1>2 DEF SuccessIsApproved, Ended
  <2> QED BY <1>1, <1>2, <2>1, ReadingKeepsAnswers
<1>3. CASE call' = Sleeping /\ UNCHANGED <<session, received>>
  <2>1. SuccessIsApproved' /\ call'.at # "calling"
    BY <1>3 DEF SuccessIsApproved, Sleeping, Ended
  <2> QED BY <1>3, <2>1, SilenceKeepsAnswers
<1>4. CASE Decides(answer)
  BY <1>4, CallsKeepsAnswers, EndsKeepsAnswers DEF Decides
<1>5. CASE Awaits
  BY <1>1, <1>5, AwaitsKeepsAnswers
<1>6. CASE Ends("failed")
  BY <1>6, EndsKeepsAnswers
<1>7. \/ next("tools/list") \/ next("human.request") \/ Ends("failed") \/ Awaits
      \/ call' = Sleeping /\ UNCHANGED <<session, received>>
      \/ Decides(answer)
  BY Zenon DEF AskerReads
<1> QED BY <1>2, <1>3, <1>4, <1>5, <1>6, <1>7 DEF Methods

(* What the client takes for the result of its call is one.                *)
LEMMA ResultIsSaid ==
    ASSUME Inv, AnswerInv, CallerReads, call' = Ended("succeeded")
    PROVE  Said(session, "tools/call", "result")
<1> DEFINE line == Head(session.lines)
<1>1. /\ call.at = "calling" /\ session.lines # <<>> /\ line.id = Outstanding(session)
      /\ call' # call
  BY DEF CallerReads, Responds, Ended
<1>2. line.what \notin {"error", "failure"} /\ Waiting(session) # "initialize"
  <2>1. ~Ends("failed")
    BY DEF Ends, Ended
  <2> QED BY <1>1, <2>1, Zenon DEF CallerReads
<1>3. session.asked \in Seq(Methods) /\ session.asked # <<>>
  BY <1>1 DEF Inv, CallOk, Sessions
<1>4. /\ Outstanding(session) \in DOMAIN session.asked /\ Outstanding(session) # 0
      /\ Waiting(session) = session.asked[Outstanding(session)]
  BY <1>3 DEF Outstanding, Waiting
<1>5. session.asked[line.id] = "tools/call"
  BY <1>1, <1>2, <1>4 DEF AnswerInv, CallsOnly
<1>6. line \in session.said
  BY <1>1, <1>4, ReadingFits DEF AnswerInv
<1>7. line.what = "result"
  BY <1>2, <1>5, <1>6 DEF AnswerInv, AnswersFit
<1> HIDE DEF line
<1> QED BY <1>5, <1>6, <1>7 DEF Said

LEMMA CallerReadsKeepsAnswers ==
    ASSUME Inv, AnswerInv, CallerReads PROVE AnswerInv'
<1>1. /\ call.at = "calling" /\ session.lines # <<>> /\ Cleared(call.tool, call.since)
      /\ human' = human
  BY DEF CallerReads, Responds, Inv, CallOk
<1>2. CASE Ends("failed")
  BY <1>2, EndsKeepsAnswers
<1>3. CASE Ends("succeeded")
  BY <1>1, <1>3, SilentAtFirst DEF Ends, SuccessIsApproved, Cleared
<1>4. CASE session' = Request(Read(session), "tools/call") /\ call' = call
  <2>1. SuccessIsApproved'
    BY <1>1, <1>4 DEF SuccessIsApproved, Ended
  <2> QED BY <1>1, <1>4, <2>1, ReadingKeepsAnswers DEF Methods
<1>5. \/ Ends("failed") \/ Ends("succeeded")
      \/ session' = Request(Read(session), "tools/call") /\ call' = call
  BY Zenon DEF CallerReads
<1> QED BY <1>2, <1>3, <1>4, <1>5

LEMMA ServersKeepAnswers ==
    ASSUME Inv, AnswerInv, ServerReplies \/ ServerStrays \/ ServerCloses PROVE AnswerInv'
<1>1. call.at \in {"asking", "calling"} /\ UNCHANGED <<config, call, human, received, now>>
  BY DEF ServerReplies, ServerStrays, ServerCloses, ServerSays, Talking
<1>2. session \in Sessions /\ session.asked \in Seq(Methods) /\ session.asked # <<>>
  BY <1>1 DEF Inv, CallOk, Sessions
<1>3. CASE ServerReplies
  <2>1. PICK what \in Possible(Waiting(session)) :
            session' = Written(session, Line(Outstanding(session), what))
    BY <1>3 DEF ServerReplies, ServerSays
  <2> DEFINE line == Line(Outstanding(session), what)
  <2>2. /\ Outstanding(session) \in DOMAIN session.asked /\ Outstanding(session) \in Nat
        /\ Waiting(session) = session.asked[Outstanding(session)] /\ Waiting(session) \in Methods
    BY <1>2 DEF Outstanding, Waiting
  <2>3. line \in TrustedLines /\ line.id = Outstanding(session) /\ line.what = what
    BY <2>2, RepliesAreTrusted DEF Inv, Line
  <2>4. Waiting(session) = "tools/call" => what \in {"result", "failure", "error"}
    BY <2>1 DEF Possible, Replies
  <2>5. /\ session'.lines = Append(session.lines, line) /\ session'.asked = session.asked
        /\ session'.said = IF line.id = 0 THEN session.said ELSE session.said \cup {line}
    BY <1>2, <2>1 DEF Written, Sessions
  <2> HIDE DEF line
  <2> QED BY <1>1, <2>2, <2>3, <2>4, <2>5, WritingKeepsAnswers
<1>4. CASE ServerStrays
  <2>1. PICK line \in session.said \cup {Notification} : session' = Strayed(session, line)
    BY <1>4 DEF ServerStrays, ServerSays
  <2>2. line \in TrustedLines
    BY <1>2 DEF Sessions, TrustedLines, Notification, Line, Words
  <2>3. line.id # 0 =>
            /\ line.id \in DOMAIN session.asked
            /\ session.asked[line.id] = "tools/call" =>
                  line.what \in {"result", "failure", "error"}
    BY DEF AnswerInv, AnswersFit, Notification, Line
  <2>4. /\ session'.lines = Append(session.lines, line) /\ session'.asked = session.asked
        /\ session'.said = IF line.id = 0 THEN session.said ELSE session.said \cup {line}
    BY <1>2, <2>1 DEF Strayed, Written, Sessions
  <2> QED BY <1>1, <2>2, <2>3, <2>4, WritingKeepsAnswers
<1>5. CASE ServerCloses
  <2>1. session' = [session EXCEPT !.closed = TRUE]
    BY <1>5 DEF ServerCloses, ServerSays
  <2>2. /\ session'.asked = session.asked /\ session'.lines = session.lines
        /\ session'.said = session.said
    BY <1>2, <2>1 DEF Sessions
  <2>3. SuccessIsApproved'
    BY <1>1 DEF AnswerInv, SuccessIsApproved
  <2> QED BY <1>1, <2>2, <2>3, SilenceKeepsAnswers
<1> QED BY <1>3, <1>4, <1>5

LEMMA NextKeepsAnswers ==
    ASSUME Inv, AnswerInv, [Next]_vars PROVE AnswerInv'
<1>1. CASE Start
  BY <1>1, StartKeepsAnswers
<1>2. CASE AskerReads
  BY <1>2, AskerReadsKeepsAnswers
<1>3. CASE Wakes
  <2>1. session.lines # <<>> /\ call.at # "calling" /\ Awaits
    BY <1>3 DEF Wakes, Inv, CallOk
  <2> QED BY <2>1, AwaitsKeepsAnswers
<1>4. CASE CallerReads
  BY <1>4, CallerReadsKeepsAnswers
<1>5. CASE PassesOver
  <2>1. session.lines # <<>> /\ session' = Read(session) /\ call' = call /\ SuccessIsApproved'
    BY <1>5 DEF PassesOver, Passed, AnswerInv, SuccessIsApproved
  <2> QED BY <2>1, ReadingKeepsAnswers
<1>6. CASE Breaks \/ TimesOut
  BY <1>6, EndsKeepsAnswers DEF Breaks, TimesOut
<1>7. CASE ServerReplies \/ ServerStrays \/ ServerCloses
  BY <1>7, ServersKeepAnswers
<1>8. CASE HumanAnswers \/ Tick \/ UNCHANGED vars
  <2>1. session' = session /\ call' = call
    BY <1>8 DEF HumanAnswers, Tick, vars
  <2>2. SuccessIsApproved'
    BY <1>8 DEF HumanAnswers, Tick, vars, AnswerInv, SuccessIsApproved
  <2> QED BY <2>1, <2>2, SilenceKeepsAnswers
<1> QED BY <1>1, <1>2, <1>3, <1>4, <1>5, <1>6, <1>7, <1>8 DEF Next

(* A dispatch succeeds only with a result that the server of the tool gave *)
(* in answer to tools/call, whatever else the servers write, twice, late   *)
(* or uncalled for (mcp.rs receive_response, call_tool).                   *)
THEOREM SuccessHasAResult == Spec => SuccessIsAnswered
<1>1. Init => AnswerInv
  BY DEF Init, Connected, Ended, AnswerInv, Heard, AnswersFit, CallsOnly, SuccessIsApproved
<1>2. Inv /\ AnswerInv /\ [Next]_vars
         => [call' = Ended("succeeded") => Said(session, "tools/call", "result")]_vars
  <2> SUFFICES ASSUME Inv, AnswerInv, Next, vars' # vars, call' = Ended("succeeded")
               PROVE  Said(session, "tools/call", "result")
    BY DEF vars
  <2>1. CASE CallerReads
    BY <2>1, ResultIsSaid
  <2>2. ASSUME NEW outcome, Ends(outcome), outcome # "succeeded" PROVE FALSE
    BY <2>2 DEF Ends, Ended
  <2>3. ASSUME NEW tool, Calls(tool) \/ Asks(tool) PROVE FALSE
    BY <2>3 DEF Calls, Asks, Asking, Ended
  <2>4. CASE Start
    <3>1. \A tool : ~Dispatches(tool)
      BY <2>2, <2>3 DEF Dispatches
    <3> QED BY <2>2, <2>4, <3>1 DEF Start
  <2>5. CASE AskerReads
    <3>1. call.at = "asking"
      BY <2>5 DEF AskerReads
    <3>2. \/ call' = call \/ Ends("failed") \/ Awaits \/ call' = Sleeping
          \/ Decides(Head(session.lines).what)
      BY <2>5, Zenon DEF AskerReads
    <3>3. ~Awaits
      BY <2>2 DEF Awaits, Asking, Ended
    <3>4. \A answer : ~Decides(answer)
      BY <2>2, <2>3 DEF Decides
    <3> QED BY <2>2, <3>1, <3>2, <3>3, <3>4 DEF Sleeping, Ended
  <2>6. CASE Wakes
    BY <2>2, <2>6 DEF Wakes, Awaits, Asking, Ended
  <2>7. CASE Breaks \/ TimesOut
    BY <2>2, <2>7 DEF Breaks, TimesOut
  <2>8. CASE PassesOver \/ ServerReplies \/ ServerStrays \/ ServerCloses \/ Tick
    BY <2>8 DEF PassesOver, ServerReplies, ServerStrays, ServerCloses, ServerSays, Talking,
                Tick, Ended
  <2>9. CASE HumanAnswers
    BY <2>9 DEF HumanAnswers, AnswerInv, SuccessIsApproved
  <2> QED BY <2>1, <2>4, <2>5, <2>6, <2>7, <2>8, <2>9 DEF Next
<1> QED BY <1>1, <1>2, DispatchInvariant, NextKeepsAnswers, PTL DEF Spec, SuccessIsAnswered
=============================================================================
