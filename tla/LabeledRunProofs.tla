-------------------------- MODULE LabeledRunProofs --------------------------
(***************************************************************************)
(* The information-flow check of AWHDL is sound for runs: for every source *)
(* that the checker accepts and the compiler binds, whatever devices and   *)
(* humans answer and however long each takes.                              *)
(*                                                                         *)
(* First the checker: its iteration over the classes of device events      *)
(* reaches a fixed point, and what it has accepted obeys its rules at      *)
(* every statement and trigger.  Then runs: an invariant of the observer   *)
(* that ties the classes it sees to those the checker assumed.  Last the   *)
(* security view, which draws what the checker would reject.               *)
(***************************************************************************)
EXTENDS LabeledRun, DesignRunProofs

Classes == Public..Restricted

-----------------------------------------------------------------------------
(* The strongest of some classes.                                          *)
LEMMA ClassNumbers == Classes = {0, 1, 2} /\ Public = 0 /\ Restricted = 2
BY DEF Classes, Public, Restricted

LEMMA StrongestIsLeast ==
    ASSUME NEW S \in SUBSET Classes
    PROVE  /\ Strongest(S) \in Classes
           /\ \A c \in S : c <= Strongest(S)
           /\ Strongest(S) = Public \/ Strongest(S) \in S
           /\ \A c \in Classes : (\A b \in S : b <= c) => Strongest(S) <= c
<1> DEFINE T == {Public} \cup S
<1>1. T \in SUBSET Nat /\ T # {} /\ T \subseteq Classes /\ 2 \in Nat /\ \A n \in T : n <= 2
  BY ClassNumbers
<1>2. Max(T) \in T /\ \A n \in T : n <= Max(T)
  BY <1>1, GreatestNumber
<1>3. Strongest(S) = Max(T)
  BY DEF Strongest
<1>4. Max(T) = 0 \/ Max(T) \in S
  BY <1>2, ClassNumbers
<1>5. S \subseteq T
  OBVIOUS
<1> HIDE DEF T
<1>6. /\ Strongest(S) \in Classes /\ \A c \in S : c <= Strongest(S)
      /\ Strongest(S) = Public \/ Strongest(S) \in S
  BY <1>1, <1>2, <1>3, <1>4, <1>5, ClassNumbers
<1>7. ASSUME NEW c \in Classes, \A b \in S : b <= c PROVE Strongest(S) <= c
  <2>1. c \in {0, 1, 2}
    BY <1>7, ClassNumbers
  <2>2. CASE Max(T) = 0
    BY <1>3, <2>1, <2>2
  <2>3. CASE Max(T) \in S
    BY <1>3, <1>7, <2>3
  <2> QED BY <1>4, <2>2, <2>3
<1> QED BY <1>6, <1>7

(* A stronger set has the stronger strongest class.                        *)
LEMMA StrongestRises ==
    ASSUME NEW S \in SUBSET Classes, NEW T \in SUBSET Classes,
           \A b \in S : \E c \in T : b <= c
    PROVE  Strongest(S) <= Strongest(T)
<1>1. Strongest(T) \in Classes /\ \A c \in T : c <= Strongest(T)
  BY StrongestIsLeast
<1>2. \A b \in S : b <= Strongest(T)
  <2> SUFFICES ASSUME NEW b \in S PROVE b <= Strongest(T)
    OBVIOUS
  <2>1. PICK c \in T : b <= c
    OBVIOUS
  <2>2. b \in {0, 1, 2} /\ c \in {0, 1, 2} /\ Strongest(T) \in {0, 1, 2} /\ c <= Strongest(T)
    BY <1>1, <2>1, ClassNumbers
  <2> QED BY <2>1, <2>2
<1> QED BY <1>1, <1>2, StrongestIsLeast

LEMMA ClassesCompare ==
    \A a, b, c \in Classes : /\ a <= a
                             /\ a <= b /\ b <= c => a <= c
                             /\ a <= b /\ b < c => a < c
                             /\ a <= b /\ b <= a => a = b
                             /\ ~(a <= b) <=> b < a
                             /\ Public <= a /\ (a < b <=> ~(a >= b)) /\ (a > b <=> b < a)
BY ClassNumbers

LEMMA ParsedClasses == ASSUME NEW name PROVE ParseClass(name) \in SUBSET Classes
BY ClassNumbers DEF ParseClass, ClassNames, Public, Restricted

LEMMA LabelsAreClasses == ASSUME NEW label PROVE ClassOf(label) \in Classes
<1> DEFINE known == UNION {ParseClass(n) : n \in label}
<1>1. known \in SUBSET Classes
  BY ParsedClasses
<1>2. CASE known = {}
  BY <1>2, ClassNumbers DEF ClassOf
<1>3. CASE known # {}
  <2>1. known \in SUBSET Nat /\ 2 \in Nat /\ \A n \in known : n <= 2
    BY <1>1, ClassNumbers
  <2> HIDE DEF known
  <2>2. Max(known) \in known
    BY <1>3, <2>1, GreatestNumber
  <2> QED BY <1>1, <1>3, <2>2 DEF ClassOf, known
<1> QED BY <1>2, <1>3

LEMMA ScopeClasses ==
    ASSUME NEW entity, NEW architecture
    PROVE  LET class == Scope(entity, architecture).class IN class \in [DOMAIN class -> Classes]
BY LabelsAreClasses DEF Scope

LEMMA ExpressionClasses ==
    ASSUME NEW scope, scope.class \in [DOMAIN scope.class -> Classes], NEW e
    PROVE  ClassOfExpr(scope, e) \in Classes
<1>1. {scope.class[n] : n \in NamesIn(e) \cap DOMAIN scope.class} \in SUBSET Classes
  OBVIOUS
<1> QED BY <1>1, StrongestIsLeast DEF ClassOfExpr

-----------------------------------------------------------------------------
(* What a site reveals grows with the context it is in, and a context with *)
(* the classes of the events.                                              *)
Rises(s, t) == s.statement = t.statement /\ s.context <= t.context

Rated(classes) == classes \in [DOMAIN classes -> Classes]

LEMMA ContextClasses ==
    ASSUME NEW scope, Rated(scope.class), NEW o, NEW context \in Classes
    PROVE  /\ ContextOf(scope, o, context) \in Classes
           /\ context <= ContextOf(scope, o, context)
           /\ \A c \in o.under : ClassOfExpr(scope, c) <= ContextOf(scope, o, context)
           /\ \A d \in Classes : /\ context <= d
                                 /\ \A c \in o.under : ClassOfExpr(scope, c) <= d
                                 => ContextOf(scope, o, context) <= d
<1> DEFINE S == {context} \cup {ClassOfExpr(scope, c) : c \in o.under}
<1>1. S \in SUBSET Classes
  BY ExpressionClasses DEF Rated
<1>2. ContextOf(scope, o, context) = Strongest(S)
  BY DEF ContextOf
<1> QED BY <1>1, <1>2, StrongestIsLeast

LEMMA ContextRises ==
    ASSUME NEW scope, Rated(scope.class), NEW o,
           NEW a \in Classes, NEW b \in Classes, a <= b
    PROVE  ContextOf(scope, o, a) <= ContextOf(scope, o, b)
<1>1. ContextOf(scope, o, b) \in Classes /\ a <= ContextOf(scope, o, b)
  BY ContextClasses, ClassesCompare
<1> QED BY <1>1, ContextClasses

LEMMA SiteClasses ==
    ASSUME NEW scope, Rated(scope.class), NEW statements, NEW context \in Classes,
           NEW s \in Sites(scope, statements, context)
    PROVE  s.context \in Classes
BY ContextClasses DEF Sites

LEMMA SitesRise ==
    ASSUME NEW scope, Rated(scope.class), NEW statements,
           NEW a \in Classes, NEW b \in Classes, a <= b,
           NEW s \in Sites(scope, statements, a)
    PROVE  \E t \in Sites(scope, statements, b) : Rises(s, t)
<1>1. PICK o \in {p \in Occurrences(statements) : p.statement.kind \in {"assign", "call", "declassify"}} :
          s = [statement |-> o.statement, context |-> ContextOf(scope, o, a)]
  BY DEF Sites
<1> DEFINE t == [statement |-> o.statement, context |-> ContextOf(scope, o, b)]
<1>2. t \in Sites(scope, statements, b)
  BY DEF Sites
<1>3. Rises(s, t)
  BY <1>1, ContextRises DEF Rises
<1> QED BY <1>2, <1>3

LEMMA RevealedClasses ==
    ASSUME NEW scope, Rated(scope.class), NEW s, s.context \in Classes
    PROVE  /\ Revealed(scope, s) \in Classes
           /\ s.context <= Revealed(scope, s)
           /\ ClassOfExpr(scope, Given(s.statement)) <= Revealed(scope, s)
           /\ \A d \in Classes : /\ s.context <= d
                                 /\ ClassOfExpr(scope, Given(s.statement)) <= d
                                 => Revealed(scope, s) <= d
<1>1. {ClassOfExpr(scope, Given(s.statement)), s.context} \in SUBSET Classes
  BY ExpressionClasses DEF Rated
<1> QED BY <1>1, StrongestIsLeast DEF Revealed

LEMMA RevealedRises ==
    ASSUME NEW scope, Rated(scope.class), NEW s, NEW t, s.context \in Classes, t.context \in Classes,
           Rises(s, t)
    PROVE  Revealed(scope, s) <= Revealed(scope, t)
<1>1. /\ Revealed(scope, t) \in Classes /\ t.context <= Revealed(scope, t)
      /\ ClassOfExpr(scope, Given(s.statement)) <= Revealed(scope, t)
  BY RevealedClasses DEF Rises
<1>2. s.context <= Revealed(scope, t)
  BY <1>1, ClassesCompare DEF Rises
<1> QED BY <1>1, <1>2, RevealedClasses

LEMMA TimeoutClasses ==
    ASSUME NEW scope, Rated(scope.class), NEW body, NEW outer \in Classes
    PROVE  /\ TimeoutContext(scope, body, outer) \in Classes
           /\ outer <= TimeoutContext(scope, body, outer)
           /\ \A s \in Outcomes(Sites(scope, body, outer)) :
                 Revealed(scope, s) <= TimeoutContext(scope, body, outer)
<1> DEFINE S == {outer} \cup {Revealed(scope, s) : s \in Outcomes(Sites(scope, body, outer))}
<1>1. S \in SUBSET Classes
  BY SiteClasses, RevealedClasses DEF Outcomes
<1>2. TimeoutContext(scope, body, outer) = Strongest(S)
  BY DEF TimeoutContext
<1> QED BY <1>1, <1>2, StrongestIsLeast

LEMMA TimeoutRises ==
    ASSUME NEW scope, Rated(scope.class), NEW body, NEW a \in Classes, NEW b \in Classes, a <= b
    PROVE  TimeoutContext(scope, body, a) <= TimeoutContext(scope, body, b)
<1> DEFINE S(outer) == {outer} \cup {Revealed(scope, s) : s \in Outcomes(Sites(scope, body, outer))}
<1>1. ASSUME NEW outer \in Classes
      PROVE  S(outer) \in SUBSET Classes /\ TimeoutContext(scope, body, outer) = Strongest(S(outer))
  BY SiteClasses, RevealedClasses DEF Outcomes, TimeoutContext
<1>2. ASSUME NEW s \in Outcomes(Sites(scope, body, a))
      PROVE  \E c \in S(b) : Revealed(scope, s) <= c
  <2>1. s \in Sites(scope, body, a) /\ s.statement.kind # "assign"
    BY DEF Outcomes
  <2>2. PICK t \in Sites(scope, body, b) : Rises(s, t)
    BY <2>1, SitesRise
  <2>3. t \in Outcomes(Sites(scope, body, b))
    BY <2>1, <2>2 DEF Outcomes, Rises
  <2>4. Revealed(scope, s) <= Revealed(scope, t)
    BY <2>1, <2>2, SiteClasses, RevealedRises
  <2> QED BY <2>3, <2>4
<1>3. \A x \in S(a) : \E y \in S(b) : x <= y
  BY <1>2
<1> HIDE DEF S
<1> QED BY <1>1, <1>3, StrongestRises

(* Classes of device events, compared device by device.                    *)
NoStronger(scope, a, b) == \A d \in DOMAIN scope.devices : a[d] <= b[d]

DeviceRatings(scope) == [DOMAIN scope.devices -> Classes]

LEMMA EventClasses ==
    ASSUME NEW scope, Rated(scope.class), NEW t, NEW a \in DeviceRatings(scope)
    PROVE  EventClass(scope, t, a) \in Classes
<1> DEFINE S == {scope.class[m] : m \in ToSet(scope.barriers[t[1]].members) \cap DOMAIN scope.class}
<1>1. Strongest(S) \in Classes
  <2>1. S \in SUBSET Classes
    BY DEF Rated
  <2> QED BY <2>1, StrongestIsLeast
<1> HIDE DEF S
<1>2. /\ t[1] \in DOMAIN scope.class => scope.class[t[1]] \in Classes
      /\ t[1] \in DOMAIN scope.devices => a[t[1]] \in Classes
      /\ Public \in Classes
  BY ClassNumbers DEF Rated, DeviceRatings
<1> QED BY <1>1, <1>2 DEF EventClass, S

LEMMA EventRises ==
    ASSUME NEW scope, Rated(scope.class), NEW t,
           NEW a \in DeviceRatings(scope), NEW b \in DeviceRatings(scope), NoStronger(scope, a, b)
    PROVE  EventClass(scope, t, a) <= EventClass(scope, t, b)
<1>1. EventClass(scope, t, a) \in Classes
  BY EventClasses
<1>2. \/ EventClass(scope, t, a) = EventClass(scope, t, b)
      \/ /\ t[1] \in DOMAIN scope.devices
         /\ EventClass(scope, t, a) = a[t[1]] /\ EventClass(scope, t, b) = b[t[1]]
  BY DEF EventClass
<1> QED BY <1>1, <1>2, ClassesCompare DEF NoStronger

LEMMA ProcessClasses ==
    ASSUME NEW scope, Rated(scope.class), NEW p, NEW a \in DeviceRatings(scope)
    PROVE  /\ ProcessContext(scope, p, a) \in Classes
           /\ \A t \in ToSet(p.triggers) : EventClass(scope, t, a) <= ProcessContext(scope, p, a)
<1>1. {EventClass(scope, t, a) : t \in ToSet(p.triggers)} \in SUBSET Classes
  BY EventClasses
<1> QED BY <1>1, StrongestIsLeast DEF ProcessContext

LEMMA ProcessRises ==
    ASSUME NEW scope, Rated(scope.class), NEW p,
           NEW a \in DeviceRatings(scope), NEW b \in DeviceRatings(scope), NoStronger(scope, a, b)
    PROVE  ProcessContext(scope, p, a) <= ProcessContext(scope, p, b)
<1> DEFINE S(raised) == {EventClass(scope, t, raised) : t \in ToSet(p.triggers)}
<1>1. S(a) \in SUBSET Classes /\ S(b) \in SUBSET Classes
  BY EventClasses
<1>2. \A x \in S(a) : \E y \in S(b) : x <= y
  BY EventRises
<1>3. ProcessContext(scope, p, a) = Strongest(S(a)) /\ ProcessContext(scope, p, b) = Strongest(S(b))
  BY DEF ProcessContext
<1> HIDE DEF S
<1> QED BY <1>1, <1>2, <1>3, StrongestRises

(* The sites of one process: of its body and of its handler.               *)
ProcessSites(scope, p, raised) ==
    LET context == ProcessContext(scope, p, raised) IN
    Sites(scope, p.body, context)
      \cup Sites(scope, p.onTimeout, TimeoutContext(scope, p.body, context))

LEMMA SitesByProcess ==
    ASSUME NEW scope, NEW processes, NEW raised
    PROVE  SitesOf(scope, processes, raised) =
             UNION {ProcessSites(scope, processes[i], raised) : i \in DOMAIN processes}
BY DEF SitesOf, ProcessSites

LEMMA AllSiteClasses ==
    ASSUME NEW scope, Rated(scope.class), NEW processes, NEW a \in DeviceRatings(scope),
           NEW s \in SitesOf(scope, processes, a)
    PROVE  s.context \in Classes
<1>1. PICK i \in DOMAIN processes : s \in ProcessSites(scope, processes[i], a)
  BY SitesByProcess
<1>2. ProcessContext(scope, processes[i], a) \in Classes
  BY ProcessClasses
<1>3. TimeoutContext(scope, processes[i].body, ProcessContext(scope, processes[i], a)) \in Classes
  BY <1>2, TimeoutClasses
<1> QED BY <1>1, <1>2, <1>3, SiteClasses DEF ProcessSites

LEMMA AllSitesRise ==
    ASSUME NEW scope, Rated(scope.class), NEW processes,
           NEW a \in DeviceRatings(scope), NEW b \in DeviceRatings(scope), NoStronger(scope, a, b),
           NEW s \in SitesOf(scope, processes, a)
    PROVE  \E t \in SitesOf(scope, processes, b) : Rises(s, t)
<1>1. PICK i \in DOMAIN processes : s \in ProcessSites(scope, processes[i], a)
  BY SitesByProcess
<1> DEFINE p == processes[i]
           C(raised) == ProcessContext(scope, p, raised)
           L(raised) == TimeoutContext(scope, p.body, C(raised))
<1>2. C(a) \in Classes /\ C(b) \in Classes /\ C(a) <= C(b)
  BY ProcessClasses, ProcessRises
<1> HIDE DEF C
<1>3. L(a) \in Classes /\ L(b) \in Classes /\ L(a) <= L(b)
  BY <1>2, TimeoutClasses, TimeoutRises
<1> HIDE DEF L
<1>4. ProcessSites(scope, p, b) \subseteq SitesOf(scope, processes, b)
  BY SitesByProcess
<1>5. ASSUME NEW raised
      PROVE  ProcessSites(scope, p, raised) =
               Sites(scope, p.body, C(raised)) \cup Sites(scope, p.onTimeout, L(raised))
  BY DEF ProcessSites, C, L
<1>6. CASE s \in Sites(scope, p.body, C(a))
  BY <1>2, <1>4, <1>5, <1>6, SitesRise
<1>7. CASE s \in Sites(scope, p.onTimeout, L(a))
  BY <1>3, <1>4, <1>5, <1>7, SitesRise
<1> QED BY <1>1, <1>5, <1>6, <1>7

LEMMA RaisedAreClasses ==
    ASSUME NEW scope, Rated(scope.class), NEW processes, NEW a \in DeviceRatings(scope)
    PROVE  /\ RaisedClasses(scope, processes, a) \in DeviceRatings(scope)
           /\ \A s \in Outcomes(SitesOf(scope, processes, a)) :
                 Uses(s.statement) \in DOMAIN scope.devices =>
                    Revealed(scope, s) <= RaisedClasses(scope, processes, a)[Uses(s.statement)]
<1> DEFINE S(d) == {Revealed(scope, s) :
                      s \in {t \in Outcomes(SitesOf(scope, processes, a)) : Uses(t.statement) = d}}
<1>1. ASSUME NEW d PROVE S(d) \in SUBSET Classes
  BY AllSiteClasses, RevealedClasses DEF Outcomes
<1>2. RaisedClasses(scope, processes, a) = [d \in DOMAIN scope.devices |-> Strongest(S(d))]
  BY DEF RaisedClasses
<1>3. \A s \in Outcomes(SitesOf(scope, processes, a)) : Revealed(scope, s) \in S(Uses(s.statement))
  OBVIOUS
<1> HIDE DEF S
<1> QED BY <1>1, <1>2, <1>3, StrongestIsLeast DEF DeviceRatings

LEMMA RaisedRise ==
    ASSUME NEW scope, Rated(scope.class), NEW processes,
           NEW a \in DeviceRatings(scope), NEW b \in DeviceRatings(scope), NoStronger(scope, a, b)
    PROVE  NoStronger(scope, RaisedClasses(scope, processes, a), RaisedClasses(scope, processes, b))
<1> DEFINE S(raised, d) ==
             {Revealed(scope, s) :
                s \in {t \in Outcomes(SitesOf(scope, processes, raised)) : Uses(t.statement) = d}}
<1>1. ASSUME NEW raised \in DeviceRatings(scope), NEW d PROVE S(raised, d) \in SUBSET Classes
  BY AllSiteClasses, RevealedClasses DEF Outcomes
<1>2. ASSUME NEW raised
      PROVE  RaisedClasses(scope, processes, raised) = [d \in DOMAIN scope.devices |-> Strongest(S(raised, d))]
  BY DEF RaisedClasses
<1>3. ASSUME NEW d, NEW x \in S(a, d) PROVE \E y \in S(b, d) : x <= y
  <2>1. PICK s \in Outcomes(SitesOf(scope, processes, a)) : Uses(s.statement) = d /\ x = Revealed(scope, s)
    OBVIOUS
  <2>2. s \in SitesOf(scope, processes, a) /\ s.statement.kind # "assign"
    BY DEF Outcomes
  <2>3. PICK t \in SitesOf(scope, processes, b) : Rises(s, t)
    BY <2>2, AllSitesRise
  <2>4. t \in Outcomes(SitesOf(scope, processes, b)) /\ Uses(t.statement) = d
    BY <2>1, <2>2, <2>3 DEF Outcomes, Rises
  <2>5. Revealed(scope, s) <= Revealed(scope, t)
    BY <2>2, <2>3, AllSiteClasses, RevealedRises
  <2> QED BY <2>1, <2>4, <2>5
<1> HIDE DEF S
<1>4. \A d : Strongest(S(a, d)) <= Strongest(S(b, d))
  BY <1>1, <1>3, StrongestRises
<1> QED BY <1>2, <1>4 DEF NoStronger

-----------------------------------------------------------------------------
(* The iteration of check_implicit_flows ends in a fixed point.            *)
Start(scope) == [d \in DOMAIN scope.devices |-> Public]

IsIteration(f, scope, processes, rounds) ==
    f = [round \in 0..rounds |-> IF round = 0 THEN Start(scope)
                                 ELSE RaisedClasses(scope, processes, f[round - 1])]

LEMMA IterationExists ==
    ASSUME NEW scope, NEW processes, NEW rounds \in Nat
    PROVE  \E f : IsIteration(f, scope, processes, rounds)
<1> DEFINE RaisedFrom(c) == RaisedClasses(scope, processes, c)
           Bad == {n \in Nat : ~ \E f : IsIteration(f, scope, processes, n)}
<1>1. SUFFICES ASSUME Bad # {} PROVE FALSE
  OBVIOUS
<1>2. PICK n \in Bad : \A m \in Bad : n <= m
  BY <1>1, LeastNumber
<1>3. CASE n = 0
  <2> DEFINE f == [round \in 0..0 |-> Start(scope)]
  <2>1. IsIteration(f, scope, processes, 0)
    BY DEF IsIteration
  <2> QED BY <1>2, <1>3, <2>1
<1>4. CASE n # 0
  <2>1. n - 1 \in Nat /\ n - 1 \notin Bad
    BY <1>2, <1>4
  <2>2. PICK f : IsIteration(f, scope, processes, n - 1)
    BY <2>1
  <2> DEFINE g == [round \in 0..n |-> IF round = n THEN RaisedFrom(f[n - 1]) ELSE f[round]]
  <2>3. ASSUME NEW round \in 0..n
        PROVE  g[round] = IF round = 0 THEN Start(scope) ELSE RaisedFrom(g[round - 1])
    <3>1. CASE round = n
      BY <1>4, <2>1, <3>1
    <3>2. CASE round # n
      <4>1. round \in 0..n - 1 /\ (round # 0 => round - 1 \in 0..n /\ round - 1 # n)
        BY <3>2, <2>1
      <4>2. f[round] = IF round = 0 THEN Start(scope) ELSE RaisedFrom(f[round - 1])
        BY <2>2, <4>1 DEF IsIteration
      <4> QED BY <3>2, <4>1, <4>2
    <3> QED BY <3>1, <3>2
  <2>4. g = [round \in 0..n |-> g[round]]
    OBVIOUS
  <2> HIDE DEF g
  <2>5. IsIteration(g, scope, processes, n)
    BY <2>3, <2>4 DEF IsIteration
  <2> QED BY <1>2, <2>5
<1> QED BY <1>3, <1>4

(* How far the classes have risen: each class above public that a device   *)
(* has reached counts.                                                     *)
Risen(scope, a) == {r \in (DOMAIN scope.devices) \X {1, 2} : r[2] <= a[r[1]]}

LEMMA RisenGrows ==
    ASSUME NEW scope, IsFiniteSet(DOMAIN scope.devices),
           NEW a \in DeviceRatings(scope), NEW b \in DeviceRatings(scope), NoStronger(scope, a, b)
    PROVE  /\ IsFiniteSet(Risen(scope, a)) /\ IsFiniteSet(Risen(scope, b))
           /\ Cardinality(Risen(scope, a)) \in Nat /\ Cardinality(Risen(scope, b)) \in Nat
           /\ Cardinality(Risen(scope, a)) <= Rounds(scope)
           /\ a # b => Cardinality(Risen(scope, a)) + 1 <= Cardinality(Risen(scope, b))
<1> DEFINE D == DOMAIN scope.devices
           All == D \X {1, 2}
<1>1. IsFiniteSet({1, 2}) /\ Cardinality({1, 2}) = 2
  <2>1. IsFiniteSet({1}) /\ Cardinality({1}) = 1
    BY FS_Singleton
  <2> DEFINE one == {1}
  <2>2. IsFiniteSet(one \cup {2}) /\ Cardinality(one \cup {2}) = Cardinality(one) + 1
    <3>1. IsFiniteSet(one) /\ 2 \notin one
      BY <2>1
    <3> HIDE DEF one
    <3> QED BY <3>1, FS_AddElement
  <2>3. {1} \cup {2} = {1, 2}
    OBVIOUS
  <2> QED BY <2>1, <2>2, <2>3
<1>2. IsFiniteSet(All) /\ Cardinality(All) = Cardinality(D) * 2
  BY <1>1, FS_Product
<1>3. ASSUME NEW c \in DeviceRatings(scope)
      PROVE  /\ Risen(scope, c) \in SUBSET All /\ IsFiniteSet(Risen(scope, c))
             /\ Cardinality(Risen(scope, c)) \in Nat
             /\ Cardinality(Risen(scope, c)) <= Cardinality(All)
  <2>1. Risen(scope, c) \in SUBSET All
    BY DEF Risen
  <2> QED BY <1>2, <2>1, FS_Subset, FS_CardinalityType
<1>4. Rounds(scope) = Cardinality(All)
  BY <1>2, ClassNumbers DEF Rounds
<1>5. ASSUME a # b PROVE Cardinality(Risen(scope, a)) + 1 <= Cardinality(Risen(scope, b))
  <2>1. PICK d \in D : a[d] # b[d]
    BY <1>5 DEF DeviceRatings
  <2>2. a[d] \in {0, 1, 2} /\ b[d] \in {0, 1, 2} /\ a[d] <= b[d]
    BY ClassNumbers DEF DeviceRatings, NoStronger
  <2>3. b[d] \in {1, 2} /\ ~(b[d] <= a[d])
    BY <2>1, <2>2
  <2>4. <<d, b[d]>> \in Risen(scope, b) /\ <<d, b[d]>> \notin Risen(scope, a)
    BY <2>2, <2>3 DEF Risen
  <2>5. Risen(scope, a) \subseteq Risen(scope, b)
    <3> SUFFICES ASSUME NEW e \in D, NEW k \in {1, 2}, k <= a[e] PROVE k <= b[e]
      BY DEF Risen
    <3>1. a[e] \in {0, 1, 2} /\ b[e] \in {0, 1, 2} /\ a[e] <= b[e]
      BY ClassNumbers DEF DeviceRatings, NoStronger
    <3> QED BY <3>1
  <2>6. /\ Cardinality(Risen(scope, a)) <= Cardinality(Risen(scope, b))
        /\ Cardinality(Risen(scope, a)) # Cardinality(Risen(scope, b))
    BY <1>3, <2>4, <2>5, FS_Subset
  <2> QED BY <1>3, <2>6
<1> QED BY <1>3, <1>4, <1>5

(* Each round raises a class or there is nothing left to raise.            *)
LEMMA RoundsSuffice ==
    ASSUME NEW scope, Rated(scope.class), IsFiniteSet(DOMAIN scope.devices), NEW processes,
           NEW f, IsIteration(f, scope, processes, Rounds(scope)), NEW n \in 0..Rounds(scope)
    PROVE  /\ f[n] \in DeviceRatings(scope)
           /\ NoStronger(scope, f[n], RaisedClasses(scope, processes, f[n]))
           /\ \/ RaisedClasses(scope, processes, f[n]) = f[n]
              \/ n <= Cardinality(Risen(scope, f[n]))
<1> DEFINE RaisedFrom(c) == RaisedClasses(scope, processes, c)
           Good(k) == /\ f[k] \in DeviceRatings(scope)
                      /\ NoStronger(scope, f[k], RaisedFrom(f[k]))
                      /\ RaisedFrom(f[k]) = f[k] \/ k <= Cardinality(Risen(scope, f[k]))
           Bad == {k \in 0..Rounds(scope) : ~Good(k)}
<1>1. Rounds(scope) \in Nat
  BY FS_CardinalityType, ClassNumbers DEF Rounds
<1>2. /\ f[0] = Start(scope)
      /\ \A k \in 1..Rounds(scope) : f[k] = RaisedFrom(f[k - 1])
  BY <1>1 DEF IsIteration
<1>3. SUFFICES ASSUME Bad # {} PROVE FALSE
  OBVIOUS
<1>4. PICK k \in Bad : \A m \in Bad : k <= m
  <2>1. Bad \in SUBSET Nat
    BY <1>1
  <2> QED BY <1>3, <2>1, LeastNumber
<1>5. CASE k = 0
  <2>1. f[0] \in DeviceRatings(scope)
    BY <1>2, ClassNumbers DEF Start, DeviceRatings
  <2>2. RaisedFrom(f[0]) \in DeviceRatings(scope)
    BY <2>1, RaisedAreClasses
  <2>3. NoStronger(scope, f[0], RaisedFrom(f[0]))
    BY <1>2, <2>2, ClassNumbers DEF NoStronger, Start, DeviceRatings
  <2>4. 0 <= Cardinality(Risen(scope, f[0]))
    BY <2>1, <2>2, <2>3, RisenGrows
  <2> QED BY <1>4, <1>5, <2>1, <2>3, <2>4
<1>6. CASE k # 0
  <2>1. k \in 1..Rounds(scope) /\ k - 1 \in 0..Rounds(scope) /\ k - 1 \notin Bad
    BY <1>1, <1>4, <1>6
  <2> DEFINE a == f[k - 1]
             b == f[k]
  <2>2. /\ a \in DeviceRatings(scope) /\ NoStronger(scope, a, RaisedFrom(a))
        /\ RaisedFrom(a) = a \/ k - 1 <= Cardinality(Risen(scope, a))
        /\ b = RaisedFrom(a)
    BY <1>2, <2>1
  <2> HIDE DEF a, b
  <2>3. b \in DeviceRatings(scope)
    BY <2>2, RaisedAreClasses
  <2>4. NoStronger(scope, b, RaisedFrom(b))
    BY <2>2, <2>3, RaisedRise
  <2>5. CASE RaisedFrom(a) = a
    BY <1>4, <2>2, <2>3, <2>4, <2>5 DEF b
  <2>6. CASE RaisedFrom(a) # a
    <3>1. a # b /\ k - 1 <= Cardinality(Risen(scope, a))
      BY <2>2, <2>6
    <3>2. /\ Cardinality(Risen(scope, a)) \in Nat /\ Cardinality(Risen(scope, b)) \in Nat
          /\ Cardinality(Risen(scope, a)) + 1 <= Cardinality(Risen(scope, b))
      BY <2>2, <2>3, <3>1, RisenGrows
    <3>3. k <= Cardinality(Risen(scope, b))
      BY <2>1, <3>1, <3>2
    <3> QED BY <1>4, <2>3, <2>4, <3>3 DEF b
  <2> QED BY <2>5, <2>6
<1> QED BY <1>5, <1>6

(* "A finite lattice, so this ends" (check_implicit_flows): with two       *)
(* rounds for every device the classes are a fixed point of the rules.     *)
THEOREM ClassesSettle ==
    ASSUME NEW entity, NEW architecture, IsFiniteSet(DOMAIN Scope(entity, architecture).devices)
    PROVE  LET scope == Scope(entity, architecture)
               processes == Processes(architecture)
               settled == Settled(scope, processes)
           IN /\ settled \in DeviceRatings(scope)
              /\ RaisedClasses(scope, processes, settled) = settled
<1> DEFINE scope == Scope(entity, architecture)
           processes == Processes(architecture)
           f == CHOOSE f : IsIteration(f, scope, processes, Rounds(scope))
           a == f[Rounds(scope)]
<1>0. Rated(scope.class)
  BY ScopeClasses DEF Rated
<1>1. Rounds(scope) \in Nat
  BY FS_CardinalityType, ClassNumbers DEF Rounds
<1>2. Settled(scope, processes) = a
  BY DEF Settled, IsIteration, Start
<1> HIDE DEF scope, processes
<1>3. IsIteration(f, scope, processes, Rounds(scope))
  BY <1>1, IterationExists
<1> HIDE DEF f
<1>4. /\ a \in DeviceRatings(scope)
      /\ NoStronger(scope, a, RaisedClasses(scope, processes, a))
      /\ RaisedClasses(scope, processes, a) = a \/ Rounds(scope) <= Cardinality(Risen(scope, a))
  BY <1>0, <1>1, <1>3, RoundsSuffice DEF scope
<1>5. RaisedClasses(scope, processes, a) \in DeviceRatings(scope)
  BY <1>0, <1>4, RaisedAreClasses
<1>6. RaisedClasses(scope, processes, a) = a
  <2> SUFFICES ASSUME RaisedClasses(scope, processes, a) # a PROVE FALSE
    OBVIOUS
  <2> DEFINE b == RaisedClasses(scope, processes, a)
  <2>0. IsFiniteSet(DOMAIN scope.devices)
    BY DEF scope
  <2> HIDE DEF a, b
  <2>1. a \in DeviceRatings(scope) /\ b \in DeviceRatings(scope) /\ NoStronger(scope, a, b) /\ a # b
    BY <1>4, <1>5 DEF b
  <2>2. /\ Cardinality(Risen(scope, a)) \in Nat /\ Cardinality(Risen(scope, b)) \in Nat
        /\ Cardinality(Risen(scope, a)) + 1 <= Cardinality(Risen(scope, b))
    BY <2>0, <2>1, RisenGrows
  <2>3. NoStronger(scope, b, b)
    BY <2>1, ClassesCompare DEF NoStronger, DeviceRatings
  <2>4. Cardinality(Risen(scope, b)) <= Rounds(scope)
    BY <2>0, <2>1, <2>3, RisenGrows
  <2>5. Rounds(scope) <= Cardinality(Risen(scope, a))
    BY <1>4, <2>1 DEF b
  <2> QED BY <1>1, <2>2, <2>4, <2>5
<1> QED BY <1>2, <1>4, <1>6 DEF scope, processes

-----------------------------------------------------------------------------
(* What the checker and the compiler have seen to.                         *)
FromSource ==
    /\ source \in Sources /\ Compiles(source)
    /\ design \in Designs /\ design = Compiled(source)

Processed == Processes(ArchitectureOf(source))
DeviceOf(d) == ScopeOf(source).devices[d]

LEMMA NoError == ASSUME NEW condition, NEW code, When(condition, code) = {} PROVE ~condition
BY DEF When

LEMMA EmptyUnion == ASSUME NEW S, UNION S = {}, NEW T \in S PROVE T = {}
OBVIOUS

LEMMA NothingIsWrong ==
    ASSUME NEW s \in Sources, Compiles(s)
    PROVE  /\ ArchitectureOf(s) \in ToSet(s.architectures)
           /\ ArchitectureErrors(EntityOf(s), ArchitectureOf(s)) = {}
<1> DEFINE a == ArchitectureOf(s)
<1>1. s.architectures \in Seq(ToSet(s.architectures)) /\ Len(s.architectures) = 1
  BY SourcesAssumption DEF SourceOk, IsSequence, Compiles
<1>2. 1 \in DOMAIN s.architectures
  BY <1>1
<1>3. a \in ToSet(s.architectures)
  BY <1>2 DEF ArchitectureOf, ToSet
<1> HIDE DEF a
<1>4. Check(s) = {}
  BY DEF Compiles, Accepted
<1>5. When(EntitiesOf(s, a) = {}, "E203") = {}
  BY <1>3, <1>4 DEF Check
<1>6. EntityOf(s) \in EntitiesOf(s, a)
  BY <1>5, NoError DEF EntityOf, a
<1>7. ArchitectureErrors(EntityOf(s), a) = {}
  <2> DEFINE Of(b) == UNION {ArchitectureErrors(e, b) : e \in EntitiesOf(s, b)}
             Z == UNION {Of(b) : b \in ToSet(s.architectures)}
  <2>1. Z = {}
    <3>1. Z \subseteq Check(s)
      BY DEF Check
    <3> HIDE DEF Z
    <3> QED BY <1>4, <3>1
  <2>2. UNION {ArchitectureErrors(e, a) : e \in EntitiesOf(s, a)} = {}
    <3>1. Of(a) \in {Of(b) : b \in ToSet(s.architectures)}
      BY <1>3
    <3> HIDE DEF Of
    <3>2. Of(a) = {}
      BY <2>1, <3>1, EmptyUnion
    <3> QED BY <3>2 DEF Of
  <2> QED BY <1>6, <2>2, EmptyUnion
<1> QED BY <1>3, <1>7 DEF a

LEMMA PartsAreRight ==
    ASSUME FromSource
    PROVE  LET scope == ScopeOf(source) IN
           /\ \A d \in DOMAIN scope.devices :
                 IsDeclassifier(DeviceOf(d)) => DeclassifierOk(scope, DeviceOf(d))
           /\ \A i \in DOMAIN Processed : ProcessErrors(scope, Processed[i]) = {}
           /\ \A site \in AllSites(scope, Processed) : SiteErrors(scope, site) = {}
<1>1. ArchitectureErrors(EntityOf(source), ArchitectureOf(source)) = {}
  BY NothingIsWrong DEF FromSource
<1> DEFINE scope == ScopeOf(source)
<1>2. /\ DeclassifierErrors(scope) = {}
      /\ \A i \in DOMAIN Processed : ProcessErrors(scope, Processed[i]) = {}
      /\ \A site \in AllSites(scope, Processed) : SiteErrors(scope, site) = {}
  <2>1. /\ DeclassifierErrors(scope) = {}
        /\ UNION {ProcessErrors(scope, Processed[i]) : i \in DOMAIN Processed} = {}
        /\ UNION {SiteErrors(scope, site) : site \in AllSites(scope, Processed)} = {}
    <3> DEFINE Y == UNION {ProcessErrors(scope, Processed[i]) : i \in DOMAIN Processed}
               Z == UNION {SiteErrors(scope, site) : site \in AllSites(scope, Processed)}
               E == ArchitectureErrors(EntityOf(source), ArchitectureOf(source))
    <3>1. DeclassifierErrors(scope) \subseteq E /\ Y \subseteq E /\ Z \subseteq E
      BY DEF ArchitectureErrors, ScopeOf, Processed
    <3> HIDE DEF Y, Z, E
    <3>2. E = {}
      BY <1>1 DEF E
    <3>3. DeclassifierErrors(scope) = {} /\ Y = {} /\ Z = {}
      BY <3>1, <3>2
    <3> QED BY <3>3 DEF Y, Z
  <2> HIDE DEF scope
  <2>2. ASSUME NEW i \in DOMAIN Processed PROVE ProcessErrors(scope, Processed[i]) = {}
    BY <2>1, EmptyUnion
  <2>3. ASSUME NEW site \in AllSites(scope, Processed) PROVE SiteErrors(scope, site) = {}
    BY <2>1, EmptyUnion
  <2> QED BY <2>1, <2>2, <2>3
<1>3. \A d \in DOMAIN scope.devices : IsDeclassifier(DeviceOf(d)) => DeclassifierOk(scope, DeviceOf(d))
  BY <1>2, NoError DEF DeclassifierErrors, DeviceOf
<1> QED BY <1>2, <1>3

LEMMA ScopeIsRight ==
    ASSUME FromSource
    PROVE  LET scope == ScopeOf(source)
               declared == Declared(ArchitectureOf(source), "device")
           IN /\ Rated(scope.class) /\ DOMAIN scope.class = Signals
              /\ scope.floor = CloudFloor(ArchitectureOf(source)) /\ scope.floor \in Classes
              /\ IsFiniteSet(DOMAIN scope.devices)
              /\ \A d \in DOMAIN scope.devices : DeviceOf(d) \in declared
<1> DEFINE scope == ScopeOf(source)
           a == ArchitectureOf(source)
           declared == Declared(a, "device")
<1>1. Rated(scope.class)
  BY ScopeClasses DEF ScopeOf, Rated
<1>2. DOMAIN scope.class = Signals
  <2>1. DOMAIN Compiled(source).class = Signals
    BY SourcesAssumption DEF FromSource, SourceOk
  <2> QED BY <2>1 DEF Compiled
<1>3. scope.floor = CloudFloor(a) /\ scope.devices = ByName(declared)
  BY DEF ScopeOf, Scope
<1>4. CloudFloor(a) \in Classes
  <2> DEFINE S == {Restricted} \cup UNION {ParseClass(s.class) :
                 s \in {r \in Assertions(a) : r.rule = "never_flow" /\ r.location = "cloud"}}
  <2>1. S \in SUBSET Classes /\ S # {} /\ CloudFloor(a) = Min(S)
    BY ParsedClasses, ClassNumbers DEF CloudFloor
  <2> HIDE DEF S
  <2>2. S \in SUBSET Nat
    BY <2>1, ClassNumbers
  <2> QED BY <2>1, <2>2, LeastNumber
<1>5. IsFiniteSet(DOMAIN scope.devices)
  <2> DEFINE ds == a.declarations
             N(k) == ds[k].name
             T == {N(k) : k \in DOMAIN ds}
  <2>1. ds \in Seq(ToSet(ds))
    BY NothingIsWrong, SourcesAssumption DEF FromSource, SourceOk, ParsedArchitecture, IsSequence
  <2>2. IsFiniteSet(DOMAIN ds)
    <3>1. DOMAIN ds = 1..Len(ds) /\ Len(ds) \in Int /\ 1 \in Int
      BY <2>1
    <3> QED BY <3>1, FS_Interval
  <2>3. IsFiniteSet(T)
    <3> DEFINE g == [k \in DOMAIN ds |-> N(k)]
    <3>1. g \in Surjection(DOMAIN ds, T)
      BY DEF Surjection
    <3> HIDE DEF g, T
    <3> QED BY <2>2, <3>1, FS_Surjection
  <2>4. DOMAIN scope.devices \in SUBSET T
    BY <1>3 DEF ByName, Declared, ToSet
  <2> QED BY <2>3, <2>4, FS_Subset
<1>6. \A d \in DOMAIN scope.devices : DeviceOf(d) \in declared
  BY <1>3 DEF ByName, DeviceOf
<1> QED BY <1>1, <1>2, <1>3, <1>4, <1>5, <1>6

(* The design is that of the source.                                       *)
LEMMA DesignIsCompiled ==
    ASSUME FromSource
    PROVE  LET scope == ScopeOf(source) IN
           /\ design.class = scope.class
           /\ design.cloudFloor = scope.floor
           /\ DOMAIN design.processes = DOMAIN Processed
           /\ \A i \in DOMAIN Processed :
                 /\ design.processes[i].sensitivity = {EventOf(scope, t) : t \in ToSet(Processed[i].triggers)}
                 /\ Block(i, "body") = Processed[i].body
                 /\ Block(i, "on timeout") = Processed[i].onTimeout
           /\ design.barriers = [b \in DOMAIN scope.barriers |-> scope.barriers[b].members]
<1>1. /\ design.class = ScopeOf(source).class
      /\ design.cloudFloor = DesignFloor(ArchitectureOf(source))
      /\ design.processes = [i \in DOMAIN Processed |-> RunnableProcess(ScopeOf(source), Processed[i])]
      /\ design.barriers = [b \in DOMAIN ScopeOf(source).barriers |-> ScopeOf(source).barriers[b].members]
  BY DEF FromSource, Compiled, Processed
<1>2. DesignFloor(ArchitectureOf(source)) = CloudFloor(ArchitectureOf(source))
  BY DEF DesignFloor, CloudFloor
<1>3. ScopeOf(source).floor = CloudFloor(ArchitectureOf(source))
  BY ScopeIsRight
<1>4. \A i \in DOMAIN Processed :
          /\ design.processes[i].sensitivity = {EventOf(ScopeOf(source), t) : t \in ToSet(Processed[i].triggers)}
          /\ design.processes[i].body = Processed[i].body
          /\ design.processes[i].onTimeout = Processed[i].onTimeout
  BY <1>1 DEF RunnableProcess
<1> QED BY <1>1, <1>2, <1>3, <1>4 DEF Block

(* A bound route is where its device was declared to be.                   *)
LEMMA RoutesAgree ==
    ASSUME FromSource, NEW d \in DOMAIN ScopeOf(source).devices, ~IsDeclassifier(DeviceOf(d))
    PROVE  /\ d \in design.cloud <=> LocationOf(DeviceOf(d)) = "cloud"
           /\ d \in Parts => design.clearance[d] = Clearance(DeviceOf(d))
<1> DEFINE RouteFor(e) == Routes[CHOOSE r \in RouteOf(DeviceOf(e)) : TRUE]
           bound == {e \in DOMAIN ScopeOf(source).devices : ~IsDeclassifier(DeviceOf(e))}
<1>1. /\ design.cloud = {e \in bound : RouteFor(e).location = "cloud"}
      /\ design.clearance = [e \in Parts |-> IF e \in bound THEN Clearance(DeviceOf(e)) ELSE {}]
  BY DEF FromSource, Compiled, DeviceOf
<1>2. Binds(DeviceOf(d))
  <2>1. DeviceOf(d) \in Declared(ArchitectureOf(source), "device")
    BY ScopeIsRight
  <2> QED BY <2>1 DEF FromSource, Compiles, DeviceCompiles, ArchitectureOf
<1>3. PICK r \in RouteOf(DeviceOf(d)) : LocationOf(DeviceOf(d)) = Routes[r].location
  BY <1>2 DEF Binds
<1>4. \A q \in RouteOf(DeviceOf(d)) : q = r
  <2>1. \A g, h \in Generic(DeviceOf(d), "route") : g = h
    BY DEF Generic
  <2> QED BY <1>3, <2>1 DEF RouteOf
<1>5. RouteFor(d) = Routes[r]
  <2>1. (CHOOSE q \in RouteOf(DeviceOf(d)) : TRUE) \in RouteOf(DeviceOf(d))
    BY <1>3
  <2> QED BY <1>4, <2>1
<1>6. d \in bound
  OBVIOUS
<1> HIDE DEF RouteFor, bound
<1>7. d \in design.cloud <=> LocationOf(DeviceOf(d)) = "cloud"
  BY <1>1, <1>3, <1>5, <1>6
<1>8. d \in Parts => design.clearance[d] = Clearance(DeviceOf(d))
  BY <1>1, <1>6
<1> QED BY <1>7, <1>8

-----------------------------------------------------------------------------
(* What compiles is a design that the interpreter can run.                 *)
LEMMA BlocksAreRight ==
    ASSUME NEW scope, DOMAIN scope.class = Signals, DOMAIN scope.devices \subseteq Parts,
           NEW d, DOMAIN d.declassifiers = {x \in DOMAIN scope.devices : IsDeclassifier(scope.devices[x])},
           NEW block, ParsedBlock(block), StatementErrors(scope, block) = {}
    PROVE  BlockOk(d, block)
<1> SUFFICES ASSUME NEW s \in Code(block) PROVE StatementOk(d, s)
  BY DEF BlockOk, ParsedBlock
<1>1. OwnErrors(scope, s) = {}
  <2>1. UNION {OwnErrors(scope, r) : r \in Code(block)} = {}
    BY DEF StatementErrors
  <2> QED BY <2>1, EmptyUnion
<1>2. ASSUME NEW target, NEW class, NEW code, StoreErrors(scope, target, class, code) = {}
      PROVE  target \in Signals
  BY <1>2 DEF StoreErrors
<1>3. ASSUME s.kind = "assign" PROVE s.target \in Signals
  <2>1. StoreErrors(scope, s.target, ClassOfExpr(scope, s.value), "E209") = {}
    BY <1>1, <1>3 DEF OwnErrors
  <2> QED BY <1>2, <2>1
<1>4. ASSUME s.kind = "call" PROVE s.device \in Parts /\ s.output \in Signals
  <2>1. CallErrors(scope, s) = {}
    BY <1>1, <1>4 DEF OwnErrors
  <2>2. StoreErrors(scope, s.output, ClassOfExpr(scope, s.argument), "E208") = {}
    BY <2>1 DEF CallErrors
  <2>3. s.device \in DOMAIN scope.devices
    BY <2>1 DEF CallErrors
  <2> QED BY <1>2, <2>2, <2>3
<1>5. ASSUME s.kind = "declassify" PROVE s.target \in Signals /\ s.using \in DOMAIN d.declassifiers
  <2>1. ReleaseErrors(scope, s) = {}
    BY <1>1, <1>5 DEF OwnErrors
  <2>2. \E class : StoreErrors(scope, s.target, class, "E209") = {}
    BY <2>1 DEF ReleaseErrors
  <2>3. /\ When(s.using \notin DOMAIN scope.devices, "E207") = {}
        /\ When(/\ s.using \in DOMAIN scope.devices
                /\ ~IsDeclassifier(scope.devices[s.using]), "E220") = {}
    BY <2>1 DEF ReleaseErrors
  <2>4. s.using \in DOMAIN scope.devices /\ IsDeclassifier(scope.devices[s.using])
    BY <2>3, NoError
  <2> QED BY <1>2, <2>2, <2>4
<1> QED BY <1>3, <1>4, <1>5 DEF ParsedBlock, StatementOk

LEMMA DeclarationsAreRight ==
    ASSUME NEW entity, NEW declarations, ScopeErrors(entity, declarations) = {},
           declarations \in Seq(ToSet(declarations)), NEW d \in ToSet(declarations)
    PROVE  /\ d.kind = "timer" => d.period # 0
           /\ d.kind = "barrier" =>
                 ToSet(d.members) \subseteq
                     UNION {ToSet(l.names) : l \in ToSet(entity.ports)
                                \cup {e \in ToSet(declarations) : e.kind = "signal"}}
<1> DEFINE N(k) == ToSet(DeclaredNames(declarations[k]))
           signals(k) == {l \in 1..(k - 1) : declarations[l].kind = "signal"}
           ports == UNION {ToSet(port.names) : port \in ToSet(entity.ports)}
           Taken(k) == ports \cup (UNION {N(j) : j \in 1..(k - 1)})
           Twice(k) == N(k) \cap Taken(k) # {} \/ ~IsInjective(DeclaredNames(declarations[k]))
           ValuesAt(k) == ports \cup (UNION {N(j) : j \in signals(k)})
           E(k) == When(Twice(k), IF declarations[k].kind = "device" THEN "E204" ELSE "E205")
                     \cup DeclarationErrors(declarations[k], ValuesAt(k))
<1>1. UNION {E(k) : k \in DOMAIN declarations} = {}
  BY DEF ScopeErrors
<1>2. PICK k \in DOMAIN declarations : declarations[k] = d
  BY DEF ToSet
<1>3. DeclarationErrors(d, ValuesAt(k)) = {}
  <2> HIDE DEF E
  <2>1. E(k) = {}
    BY <1>1, EmptyUnion
  <2>2. DeclarationErrors(declarations[k], ValuesAt(k)) \subseteq E(k)
    BY DEF E
  <2> HIDE DEF ValuesAt
  <2> QED BY <1>2, <2>1, <2>2
<1>4. ASSUME d.kind = "timer" PROVE d.period # 0
  <2> HIDE DEF ValuesAt
  <2>1. When(d.period = 0, "E211") = {}
    BY <1>3, <1>4 DEF DeclarationErrors
  <2> QED BY <2>1, NoError
<1>5. ASSUME d.kind = "barrier" PROVE ToSet(d.members) \subseteq ValuesAt(k)
  <2> HIDE DEF ValuesAt
  <2>1. When(~(ToSet(d.members) \subseteq ValuesAt(k)), "E214") = {}
    BY <1>3, <1>5 DEF DeclarationErrors
  <2> QED BY <2>1, NoError
<1> DEFINE labeled == ToSet(entity.ports) \cup {e \in ToSet(declarations) : e.kind = "signal"}
<1>6. ValuesAt(k) \subseteq UNION {ToSet(l.names) : l \in labeled}
  <2>1. DOMAIN declarations = 1..Len(declarations) /\ Len(declarations) \in Nat
    OBVIOUS
  <2>2. ASSUME NEW j \in signals(k) PROVE N(j) \subseteq UNION {ToSet(l.names) : l \in labeled}
    <3>1. j \in DOMAIN declarations
      BY <2>1
    <3>2. declarations[j] \in labeled /\ DeclaredNames(declarations[j]) = declarations[j].names
      BY <3>1 DEF DeclaredNames, ToSet
    <3> QED BY <3>2
  <2>3. ports \subseteq UNION {ToSet(l.names) : l \in labeled}
    OBVIOUS
  <2> HIDE DEF N, signals, ports, labeled
  <2> QED BY <2>2, <2>3
<1> QED BY <1>4, <1>5, <1>6

(* Every source that the checker accepts and the compiler binds becomes a  *)
(* design in which names are declared and used as what they are: what the  *)
(* theorems about the interpreter assume of its designs.                   *)
THEOREM CompiledDesignsAreOk == \A s \in Sources : Compiles(s) => DesignOk(Compiled(s))
<1> SUFFICES ASSUME NEW s \in Sources, Compiles(s) PROVE DesignOk(Compiled(s))
  OBVIOUS
<1> DEFINE a == ArchitectureOf(s)
           entity == EntityOf(s)
           scope == ScopeOf(s)
           ps == Processes(a)
           d == Compiled(s)
           ds == a.declarations
           releasers == {x \in DOMAIN scope.devices : IsDeclassifier(scope.devices[x])}
<1>1. ArchitectureErrors(entity, a) = {} /\ ParsedArchitecture(a)
  BY NothingIsWrong, SourcesAssumption DEF SourceOk
<1>2. DOMAIN scope.class = Signals
  BY SourcesAssumption DEF SourceOk, Compiled
<1>3. scope = Scope(entity, a) /\ \A kind : Declared(a, kind) = {x \in ToSet(ds) : x.kind = kind}
  BY DEF ScopeOf, Declared
<1>4. DOMAIN scope.devices \subseteq Parts
  <2>1. DOMAIN scope.devices = {x.name : x \in Declared(a, "device")}
    BY <1>3 DEF Scope, ByName
  <2> QED BY <1>1, <2>1 DEF ParsedArchitecture
<1>5. DOMAIN d.declassifiers = releasers
  BY DEF Compiled
<1>6. /\ d.processes = [i \in DOMAIN ps |-> RunnableProcess(scope, ps[i])]
      /\ d.initial = [x \in Signals |-> InitialOf(a, x)]
      /\ d.inputs = UNION {ToSet(p.names) : p \in {q \in ToSet(entity.ports) : q.mode # "out"}}
      /\ d.timers = [t \in scope.timers |-> (CHOOSE x \in Declared(a, "timer") : x.name = t).period]
      /\ d.barriers = [b \in DOMAIN scope.barriers |-> scope.barriers[b].members]
  BY DEF Compiled
<1>7. ScopeErrors(entity, ds) = {} /\ UNION {ProcessErrors(scope, ps[i]) : i \in DOMAIN ps} = {}
  <2> DEFINE E == ArchitectureErrors(entity, a)
             Z == UNION {ProcessErrors(scope, ps[i]) : i \in DOMAIN ps}
  <2>1. ScopeErrors(entity, ds) \subseteq E /\ Z \subseteq E
    BY <1>3 DEF ArchitectureErrors
  <2>2. E = {}
    BY <1>1
  <2> HIDE DEF E, Z
  <2>3. ScopeErrors(entity, ds) = {} /\ Z = {}
    BY <2>1, <2>2
  <2> QED BY <2>3 DEF Z
<1>8. ds \in Seq(ToSet(ds)) /\ ps \in Seq(ToSet(ps))
  BY <1>1 DEF ParsedArchitecture, IsSequence
<1> HIDE DEF a, entity, scope, d, ps, ds
<1>9. /\ \A t \in Declared(a, "timer") : t.period \in Nat \ {0}
      /\ \A b \in Declared(a, "barrier") : b.members \in Seq(Signals) \ {<<>>}
  <2>1. ASSUME NEW t \in Declared(a, "timer") PROVE t.period \in Nat \ {0}
    <3>1. t \in ToSet(ds) /\ t.kind = "timer"
      BY <1>3
    <3>2. t.period # 0
      BY <1>7, <1>8, <3>1, DeclarationsAreRight
    <3> QED BY <1>1, <3>2 DEF ParsedArchitecture
  <2>2. ASSUME NEW b \in Declared(a, "barrier") PROVE b.members \in Seq(Signals) \ {<<>>}
    <3>1. b \in ToSet(ds) /\ b.kind = "barrier"
      BY <1>3
    <3>2. ToSet(b.members) \subseteq
              UNION {ToSet(l.names) : l \in ToSet(entity.ports) \cup {e \in ToSet(ds) : e.kind = "signal"}}
      BY <1>7, <1>8, <3>1, DeclarationsAreRight
    <3>3. DOMAIN scope.class =
              UNION {ToSet(l.names) : l \in ToSet(entity.ports) \cup {e \in ToSet(ds) : e.kind = "signal"}}
      BY <1>3 DEF Scope
    <3>4. b.members \in Seq(ToSet(b.members)) /\ b.members # <<>>
      BY <1>1 DEF ParsedArchitecture, IsSequence
    <3>5. ToSet(b.members) \subseteq Signals
      BY <1>2, <3>2, <3>3
    <3> QED BY <3>4, <3>5
  <2> QED BY <2>1, <2>2
<1>10. ASSUME NEW i \in DOMAIN ps
       PROVE  BlockOk(d, ps[i].body) /\ BlockOk(d, ps[i].onTimeout)
  <2>1. ProcessErrors(scope, ps[i]) = {}
    BY <1>7, EmptyUnion
  <2>2. StatementErrors(scope, ps[i].body) = {} /\ StatementErrors(scope, ps[i].onTimeout) = {}
    BY <2>1 DEF ProcessErrors
  <2>3. ParsedBlock(ps[i].body) /\ ParsedBlock(ps[i].onTimeout)
    BY <1>1 DEF ParsedArchitecture, ps, ToSet
  <2> QED BY <1>2, <1>4, <1>5, <2>2, <2>3, BlocksAreRight
<1>11. /\ IsSequence(d.processes)
       /\ \A i \in DOMAIN d.processes :
             BlockOk(d, d.processes[i].body) /\ BlockOk(d, d.processes[i].onTimeout)
  <2>1. DOMAIN ps = 1..Len(ps) /\ Len(ps) \in Nat
    BY <1>8
  <2>2. \A i \in DOMAIN d.processes :
            d.processes[i].body = ps[i].body /\ d.processes[i].onTimeout = ps[i].onTimeout
    BY <1>6 DEF RunnableProcess
  <2>3. DOMAIN d.processes = DOMAIN ps /\ \A i \in DOMAIN ps : d.processes[i] \in ToSet(d.processes)
    BY <1>6 DEF ToSet
  <2>4. d.processes \in Seq(ToSet(d.processes))
    BY <1>6, <2>1, <2>3
  <2> QED BY <1>10, <2>2, <2>3, <2>4 DEF IsSequence
<1>12. d.initial \in [Signals -> Values]
  <2> SUFFICES ASSUME NEW x \in Signals PROVE InitialOf(a, x) \in Values
    BY <1>6
  <2> DEFINE given == UNION {l.initial : l \in {m \in Declared(a, "signal") : x \in ToSet(m.names)}}
  <2>1. InitialOf(a, x) = IF given = {} THEN Null ELSE ValueOf(CHOOSE e \in given : TRUE, <<>>)
    BY DEF InitialOf
  <2>2. \A e \in given : e \in Expressions /\ NamesIn(e) = {}
    BY <1>1 DEF ParsedArchitecture, Compiles, a, ArchitectureOf
  <2>3. ASSUME NEW e \in given PROVE ValueOf(e, <<>>) \in Values
    <3>1. e \in Expressions /\ NamesIn(e) = {}
      BY <2>2
    <3>2. e.op = "const" /\ e.value \in Values
      BY <3>1 DEF Expressions, NamesIn
    <3> QED BY <3>2 DEF ValueOf
  <2> HIDE DEF given
  <2> QED BY <2>1, <2>3 DEF Values
<1>13. d.inputs \subseteq Signals
  <2>1. DOMAIN scope.class = UNION {ToSet(l.names) : l \in ToSet(entity.ports) \cup Declared(a, "signal")}
    BY <1>3 DEF Scope
  <2> QED BY <1>2, <1>6, <2>1
<1>14. d.timers \in [DOMAIN d.timers -> Nat \ {0}]
  <2>1. scope.timers = {x.name : x \in Declared(a, "timer")}
    BY <1>3 DEF Scope
  <2>2. ASSUME NEW t \in scope.timers
        PROVE  (CHOOSE x \in Declared(a, "timer") : x.name = t).period \in Nat \ {0}
    BY <1>9, <2>1
  <2> QED BY <1>6, <2>2
<1>15. d.barriers \in [DOMAIN d.barriers -> Seq(Signals) \ {<<>>}]
  <2>1. scope.barriers = ByName(Declared(a, "barrier"))
    BY <1>3 DEF Scope
  <2>2. ASSUME NEW b \in DOMAIN scope.barriers
        PROVE  scope.barriers[b].members \in Seq(Signals) \ {<<>>}
    <3>1. scope.barriers[b] \in Declared(a, "barrier")
      BY <2>1 DEF ByName
    <3> QED BY <1>9, <3>1
  <2> QED BY <1>6, <2>2
<1>16. DOMAIN d.declassifiers \subseteq Parts
  BY <1>4, <1>5
<1> QED BY <1>11, <1>12, <1>13, <1>14, <1>15, <1>16 DEF DesignOk, d

-----------------------------------------------------------------------------
(* What the checker computes for the source: the classes of device events, *)
(* and the contexts of bodies and handlers.                                *)
DeviceClasses == Settled(ScopeOf(source), Processed)
BodyContext(i) == ProcessContext(ScopeOf(source), Processed[i], DeviceClasses)
LateContext(i) == TimeoutContext(ScopeOf(source), Processed[i].body, BodyContext(i))
Base(i, part) == IF part = "body" THEN BodyContext(i) ELSE LateContext(i)
UnderClass(o) == Strongest({ClassOfExpr(ScopeOf(source), c) : c \in o.under})

EventBound(e) ==
    CASE e[2] = "changed" -> design.class[e[1]]
      [] e[2] = "ready" -> Strongest({design.class[m] : m \in ToSet(design.barriers[e[1]])})
      [] e[2] = "tick" -> Public
      [] OTHER -> DeviceClasses[e[1]]

SiteAt(i, part, o) ==
    [statement |-> o.statement, context |-> ContextOf(ScopeOf(source), o, Base(i, part))]

Shown(i, part, o) == Revealed(ScopeOf(source), SiteAt(i, part, o))

LEMMA ContextsAreClasses ==
    ASSUME FromSource, NEW i \in DOMAIN design.processes
    PROVE  /\ DeviceClasses \in DeviceRatings(ScopeOf(source))
           /\ BodyContext(i) \in Classes /\ LateContext(i) \in Classes
           /\ BodyContext(i) <= LateContext(i)
<1>1. Rated(ScopeOf(source).class) /\ IsFiniteSet(DOMAIN ScopeOf(source).devices)
  BY ScopeIsRight
<1>2. DeviceClasses \in DeviceRatings(ScopeOf(source))
  BY <1>1, ClassesSettle DEF DeviceClasses, ScopeOf, Processed
<1>3. BodyContext(i) \in Classes
  BY <1>1, <1>2, ProcessClasses DEF BodyContext
<1> QED BY <1>1, <1>2, <1>3, TimeoutClasses DEF LateContext

(* A name means one thing (E202, E204, E205).                              *)
Apart(scope, name) ==
    /\ name \in DOMAIN scope.class =>
          name \notin scope.timers /\ name \notin DOMAIN scope.barriers /\ name \notin DOMAIN scope.devices
    /\ name \in scope.timers => name \notin DOMAIN scope.barriers /\ name \notin DOMAIN scope.devices
    /\ name \in DOMAIN scope.barriers => name \notin DOMAIN scope.devices

LEMMA DeclaredOnce ==
    ASSUME NEW entity, NEW declarations, ScopeErrors(entity, declarations) = {},
           declarations \in Seq(ToSet(declarations)), NEW i \in DOMAIN declarations
    PROVE  /\ \A port \in ToSet(entity.ports) :
                 ToSet(DeclaredNames(declarations[i])) \cap ToSet(port.names) = {}
           /\ \A j \in DOMAIN declarations :
                 j # i => ToSet(DeclaredNames(declarations[i])) \cap ToSet(DeclaredNames(declarations[j])) = {}
<1> DEFINE N(k) == ToSet(DeclaredNames(declarations[k]))
           ports == UNION {ToSet(port.names) : port \in ToSet(entity.ports)}
           Taken(k) == ports \cup (UNION {N(j) : j \in 1..(k - 1)})
           Twice(k) == N(k) \cap Taken(k) # {} \/ ~IsInjective(DeclaredNames(declarations[k]))
           ValuesAt(k) == ports \cup (UNION {N(j) : j \in {l \in 1..(k - 1) : declarations[l].kind = "signal"}})
           E(k) == When(Twice(k), IF declarations[k].kind = "device" THEN "E204" ELSE "E205")
                     \cup DeclarationErrors(declarations[k], ValuesAt(k))
<1>1. UNION {E(k) : k \in DOMAIN declarations} = {}
  BY DEF ScopeErrors
<1>2. ASSUME NEW k \in DOMAIN declarations PROVE N(k) \cap Taken(k) = {}
  <2> HIDE DEF E
  <2>1. E(k) = {}
    BY <1>1, EmptyUnion
  <2>2. When(Twice(k), IF declarations[k].kind = "device" THEN "E204" ELSE "E205") = {}
    BY <2>1 DEF E
  <2>3. ~Twice(k)
    BY <2>2, NoError
  <2> QED BY <2>3
<1>3. DOMAIN declarations = 1..Len(declarations) /\ Len(declarations) \in Nat
  OBVIOUS
<1> HIDE DEF E, N, Twice, ValuesAt
<1>4. ASSUME NEW j \in DOMAIN declarations, NEW k \in DOMAIN declarations, j < k
      PROVE  N(j) \cap N(k) = {}
  <2>1. j \in 1..(k - 1)
    BY <1>3, <1>4
  <2>2. N(j) \subseteq Taken(k)
    BY <2>1
  <2> QED BY <1>2, <2>2
<1>5. \A j \in DOMAIN declarations : j # i => N(i) \cap N(j) = {}
  BY <1>3, <1>4
<1>6. \A port \in ToSet(entity.ports) : N(i) \cap ToSet(port.names) = {}
  <2>1. N(i) \cap Taken(i) = {}
    BY <1>2
  <2> QED BY <2>1
<1> QED BY <1>5, <1>6 DEF N

LEMMA NamesAreUnique == ASSUME FromSource, NEW name PROVE Apart(ScopeOf(source), name)
<1> DEFINE scope == ScopeOf(source)
           entity == EntityOf(source)
           a == ArchitectureOf(source)
           ds == a.declarations
           Names(k) == ToSet(DeclaredNames(ds[k]))
           Of(kind) == {k \in DOMAIN ds : ds[k].kind = kind}
<1>1. ds \in Seq(ToSet(ds))
  BY NothingIsWrong, SourcesAssumption DEF FromSource, SourceOk, ParsedArchitecture, IsSequence
<1>2. ScopeErrors(entity, ds) = {}
  <2>1. ArchitectureErrors(entity, a) = {} /\ ScopeErrors(entity, ds) \subseteq ArchitectureErrors(entity, a)
    BY NothingIsWrong DEF FromSource, ArchitectureErrors
  <2> QED BY <2>1
<1>3. /\ name \in scope.timers => \E k \in Of("timer") : name \in Names(k)
      /\ name \in DOMAIN scope.barriers => \E k \in Of("barrier") : name \in Names(k)
      /\ name \in DOMAIN scope.devices => \E k \in Of("device") : name \in Names(k)
  <2>1. ASSUME NEW kind \in {"timer", "barrier", "device"}, NEW d \in Declared(a, kind), name = d.name
        PROVE  \E k \in Of(kind) : name \in Names(k)
    <3>1. PICK k \in DOMAIN ds : ds[k] = d
      BY DEF Declared, ToSet
    <3>2. k \in Of(kind) /\ ds[k].kind # "signal" /\ DeclaredNames(ds[k]) = <<name>>
      BY <2>1, <3>1 DEF Declared, DeclaredNames
    <3>3. name \in Names(k)
      BY <3>2 DEF ToSet
    <3> QED BY <3>2, <3>3
  <2>2. /\ scope.timers = {d.name : d \in Declared(a, "timer")}
        /\ DOMAIN scope.barriers = {d.name : d \in Declared(a, "barrier")}
        /\ DOMAIN scope.devices = {d.name : d \in Declared(a, "device")}
    BY DEF ScopeOf, Scope, ByName
  <2> HIDE DEF Of, Names
  <2> QED BY <2>1, <2>2
<1>4. name \in DOMAIN scope.class => \/ \E k \in Of("signal") : name \in Names(k)
                                     \/ \E port \in ToSet(entity.ports) : name \in ToSet(port.names)
  <2>1. DOMAIN scope.class =
          UNION {ToSet(l.names) : l \in ToSet(entity.ports) \cup Declared(a, "signal")}
    BY DEF ScopeOf, Scope
  <2>2. ASSUME NEW l \in Declared(a, "signal"), name \in ToSet(l.names)
        PROVE  \E k \in Of("signal") : name \in Names(k)
    <3>1. PICK k \in DOMAIN ds : ds[k] = l
      BY DEF Declared, ToSet
    <3>2. k \in Of("signal") /\ Names(k) = ToSet(l.names)
      BY <3>1 DEF Declared, DeclaredNames
    <3> QED BY <2>2, <3>2
  <2> HIDE DEF Of, Names
  <2> QED BY <2>1, <2>2
<1>5. ASSUME NEW k \in DOMAIN ds
      PROVE  /\ \A port \in ToSet(entity.ports) : Names(k) \cap ToSet(port.names) = {}
             /\ \A j \in DOMAIN ds : j # k => Names(k) \cap Names(j) = {}
  BY <1>1, <1>2, DeclaredOnce
<1>6. \A x, y \in {"timer", "barrier", "device", "signal"} :
         x # y => \A j \in Of(x), k \in Of(y) : j \in DOMAIN ds /\ k \in DOMAIN ds /\ j # k
  OBVIOUS
<1> HIDE DEF scope, entity, a, ds, Names, Of
<1>7. ASSUME NEW x \in {"timer", "barrier", "device", "signal"},
             NEW y \in {"timer", "barrier", "device", "signal"}, x # y,
             NEW j \in Of(x), name \in Names(j), NEW k \in Of(y)
      PROVE  name \notin Names(k)
  BY <1>5, <1>6, <1>7
<1>8. ASSUME NEW x \in {"timer", "barrier", "device"}, NEW j \in Of(x), name \in Names(j),
             NEW port \in ToSet(entity.ports)
      PROVE  name \notin ToSet(port.names)
  <2>1. j \in DOMAIN ds
    BY DEF Of
  <2> QED BY <1>5, <1>8, <2>1
<1>9. /\ name \in DOMAIN scope.class =>
           name \notin scope.timers /\ name \notin DOMAIN scope.barriers /\ name \notin DOMAIN scope.devices
      /\ name \in scope.timers => name \notin DOMAIN scope.barriers /\ name \notin DOMAIN scope.devices
      /\ name \in DOMAIN scope.barriers => name \notin DOMAIN scope.devices
  BY <1>3, <1>4, <1>7, <1>8
<1> QED BY <1>9 DEF Apart, scope

(* What triggers a process is in the context that its body is checked in.  *)
LEMMA TriggersAreBounded ==
    ASSUME FromSource, NEW i \in DOMAIN design.processes, NEW e \in design.processes[i].sensitivity
    PROVE  EventBound(e) \in Classes /\ EventBound(e) <= BodyContext(i)
<1> DEFINE scope == ScopeOf(source)
           p == Processed[i]
<1>1. Rated(scope.class) /\ DOMAIN scope.class = Signals /\ BodyContext(i) \in Classes
      /\ DeviceClasses \in DeviceRatings(scope) /\ design.class = scope.class
      /\ design.barriers = [b \in DOMAIN scope.barriers |-> scope.barriers[b].members]
  BY ScopeIsRight, ContextsAreClasses, DesignIsCompiled
<1>2. PICK t \in ToSet(p.triggers) : e = EventOf(scope, t)
  <2>1. design.processes[i].sensitivity = {EventOf(scope, t) : t \in ToSet(p.triggers)}
    BY DesignIsCompiled
  <2> QED BY <2>1
<1>3. EventClass(scope, t, DeviceClasses) <= BodyContext(i)
  BY <1>1, ProcessClasses DEF BodyContext
<1>0. Apart(scope, t[1])
  BY NamesAreUnique
<1>4. t[2] \in AllowedMembers(scope, t[1])
  <2>1. ProcessErrors(scope, p) = {}
    BY DesignIsCompiled, PartsAreRight
  <2>2. When(\E u \in ToSet(p.triggers) : SensitivityError(scope, u), "E206") = {}
    BY <2>1 DEF ProcessErrors
  <2>3. ~ \E u \in ToSet(p.triggers) : SensitivityError(scope, u)
    BY <2>2, NoError
  <2> QED BY <2>3 DEF SensitivityError
<1> HIDE DEF scope, p
<1>5. CASE t[1] \in DOMAIN scope.class
  <2>1. e = <<t[1], "changed">>
    BY <1>0, <1>2, <1>5 DEF EventOf, Apart
  <2>2. EventBound(e) = scope.class[t[1]]
    BY <1>1, <2>1 DEF EventBound
  <2>3. EventClass(scope, t, DeviceClasses) = scope.class[t[1]]
    BY <1>0, <1>5 DEF EventClass, Apart
  <2> QED BY <1>1, <1>3, <1>5, <2>2, <2>3 DEF Rated
<1>6. CASE t[1] \notin DOMAIN scope.class /\ t[1] \in scope.timers
  <2>1. e = <<t[1], "tick">>
    BY <1>0, <1>2, <1>6 DEF EventOf, Apart
  <2>2. EventBound(e) = Public
    BY <2>1 DEF EventBound
  <2> QED BY <1>1, <2>2, ClassesCompare, ClassNumbers
<1>7. CASE t[1] \notin DOMAIN scope.class /\ t[1] \notin scope.timers /\ t[1] \in DOMAIN scope.barriers
  <2> DEFINE members == ToSet(scope.barriers[t[1]].members)
  <2>1. e = <<t[1], "ready">>
    BY <1>2, <1>7 DEF EventOf
  <2>2. members \subseteq Signals
    <3>1. design.barriers[t[1]] \in Seq(Signals)
      BY <1>1, <1>7, DesignsAssumption DEF FromSource, DesignOk
    <3>2. design.barriers[t[1]] = scope.barriers[t[1]].members
      BY <1>1, <1>7
    <3> QED BY <3>1, <3>2 DEF ToSet
  <2>3. EventBound(e) = Strongest({scope.class[m] : m \in members})
    <3>1. EventBound(e) = Strongest({design.class[m] : m \in ToSet(design.barriers[t[1]])})
      BY <2>1 DEF EventBound
    <3>2. design.barriers[t[1]] = scope.barriers[t[1]].members
      BY <1>1, <1>7
    <3>3. {design.class[m] : m \in members} = {scope.class[m] : m \in members}
      BY <1>1
    <3> QED BY <3>1, <3>2, <3>3
  <2>4. members = members \cap DOMAIN scope.class
    BY <1>1, <2>2
  <2>5. EventClass(scope, t, DeviceClasses) = Strongest({scope.class[m] : m \in members \cap DOMAIN scope.class})
    BY <1>0, <1>7 DEF EventClass, Apart
  <2>6. {scope.class[m] : m \in members} \in SUBSET Classes
    BY <1>1, <2>2 DEF Rated
  <2> HIDE DEF members
  <2> QED BY <1>3, <2>3, <2>4, <2>5, <2>6, StrongestIsLeast
<1>8. CASE t[1] \notin DOMAIN scope.class /\ t[1] \notin scope.timers /\ t[1] \notin DOMAIN scope.barriers
  <2>1. e = t
    BY <1>2, <1>8 DEF EventOf
  <2>2. t[1] \in DOMAIN scope.devices /\ t[2] \in {"done", "failed", "timeout"}
    BY <1>4, <1>8 DEF AllowedMembers
  <2>3. EventBound(e) = DeviceClasses[t[1]]
    BY <2>1, <2>2 DEF EventBound
  <2>4. EventClass(scope, t, DeviceClasses) = DeviceClasses[t[1]]
    BY <1>8, <2>2 DEF EventClass
  <2> QED BY <1>1, <1>3, <2>2, <2>3, <2>4 DEF DeviceRatings
<1> QED BY <1>5, <1>6, <1>7, <1>8

(* The checker looks at every statement of every process, in the context   *)
(* that this one has.                                                      *)
LEMMA SitesAreChecked ==
    ASSUME FromSource, NEW i \in DOMAIN design.processes, NEW part \in {"body", "on timeout"},
           NEW o \in Occurrences(Block(i, part))
    PROVE  /\ OwnErrors(ScopeOf(source), o.statement) = {}
           /\ o.statement.kind \in {"assign", "call", "declassify"} =>
                 /\ SiteErrors(ScopeOf(source), SiteAt(i, part, o)) = {}
                 /\ SiteAt(i, part, o).context \in Classes
                 /\ Base(i, part) <= SiteAt(i, part, o).context
                 /\ Shown(i, part, o) \in Classes
                 /\ SiteAt(i, part, o).context <= Shown(i, part, o)
                 /\ ClassOfExpr(ScopeOf(source), Given(o.statement)) <= Shown(i, part, o)
           /\ o.statement.kind \in {"call", "declassify"} =>
                 /\ Uses(o.statement) \in DOMAIN ScopeOf(source).devices =>
                       Shown(i, part, o) <= DeviceClasses[Uses(o.statement)]
                 /\ part = "body" => Shown(i, part, o) <= LateContext(i)
<1> DEFINE scope == ScopeOf(source)
           p == Processed[i]
           s == o.statement
           site == SiteAt(i, part, o)
<1>1. /\ i \in DOMAIN Processed
      /\ Block(i, "body") = p.body /\ Block(i, "on timeout") = p.onTimeout
  BY DesignIsCompiled
<1>2. ProcessErrors(scope, p) = {}
  BY <1>1, PartsAreRight
<1>3. /\ Rated(scope.class) /\ DeviceClasses \in DeviceRatings(scope)
      /\ BodyContext(i) \in Classes /\ LateContext(i) \in Classes
  BY ScopeIsRight, ContextsAreClasses
<1>4. OwnErrors(scope, s) = {}
  <2>1. StatementErrors(scope, Block(i, part)) = {}
    BY <1>1, <1>2 DEF ProcessErrors
  <2>2. s \in Code(Block(i, part))
    BY DEF Code
  <2>3. OwnErrors(scope, s) \in {OwnErrors(scope, r) : r \in Code(Block(i, part))}
    BY <2>2
  <2>4. UNION {OwnErrors(scope, r) : r \in Code(Block(i, part))} = {}
    BY <2>1 DEF StatementErrors
  <2> QED BY <2>3, <2>4, EmptyUnion
<1>5. ASSUME s.kind \in {"assign", "call", "declassify"}
      PROVE  /\ site \in Sites(scope, Block(i, part), Base(i, part))
             /\ site \in AllSites(scope, Processed)
  <2>1. site \in Sites(scope, Block(i, part), Base(i, part))
    BY <1>5 DEF Sites, SiteAt
  <2>2. site \in ProcessSites(scope, p, DeviceClasses)
    BY <1>1, <2>1 DEF ProcessSites, Base, BodyContext, LateContext
  <2>3. AllSites(scope, Processed) = SitesOf(scope, Processed, DeviceClasses)
    BY DEF AllSites, DeviceClasses
  <2>4. site \in AllSites(scope, Processed)
    BY <1>1, <2>2, <2>3, SitesByProcess
  <2> QED BY <2>1, <2>4
<1>6. s.kind \in {"assign", "call", "declassify"} => SiteErrors(scope, site) = {}
  BY <1>5, PartsAreRight
<1>7. Base(i, part) \in Classes
  BY <1>3 DEF Base
<1>8. site.context \in Classes /\ Base(i, part) <= site.context /\ site.statement = s
  BY <1>3, <1>7, ContextClasses DEF SiteAt
<1>9. /\ Shown(i, part, o) \in Classes /\ site.context <= Shown(i, part, o)
      /\ ClassOfExpr(scope, Given(s)) <= Shown(i, part, o)
  BY <1>3, <1>8, RevealedClasses DEF Shown
<1>10. ASSUME s.kind \in {"call", "declassify"}
       PROVE  /\ Uses(s) \in DOMAIN scope.devices => Shown(i, part, o) <= DeviceClasses[Uses(s)]
              /\ part = "body" => Shown(i, part, o) <= LateContext(i)
  <2>1. /\ site \in Outcomes(SitesOf(scope, Processed, DeviceClasses))
        /\ site \in Outcomes(Sites(scope, Block(i, part), Base(i, part)))
    BY <1>5, <1>8, <1>10 DEF Outcomes, AllSites, DeviceClasses
  <2>2. RaisedClasses(scope, Processed, DeviceClasses) = DeviceClasses
    BY ScopeIsRight, ClassesSettle DEF DeviceClasses, ScopeOf, Processed
  <2>3. Uses(s) \in DOMAIN scope.devices => Revealed(scope, site) <= DeviceClasses[Uses(s)]
    <3> HIDE DEF scope, site, s
    <3> QED BY <1>3, <1>8, <2>1, <2>2, RaisedAreClasses
  <2>4. part = "body" => Revealed(scope, site) <= LateContext(i)
    BY <1>1, <1>3, <2>1, TimeoutClasses DEF LateContext, Base
  <2> QED BY <2>3, <2>4 DEF Shown
<1> HIDE DEF scope, site, s
<1>11. s.kind \in {"assign", "call", "declassify"} =>
         /\ SiteErrors(scope, site) = {} /\ site.context \in Classes /\ Base(i, part) <= site.context
         /\ Shown(i, part, o) \in Classes /\ site.context <= Shown(i, part, o)
         /\ ClassOfExpr(scope, Given(s)) <= Shown(i, part, o)
  BY <1>6, <1>8, <1>9
<1> QED BY <1>4, <1>10, <1>11 DEF scope, site, s

LEMMA ShownIsLeast ==
    ASSUME FromSource, NEW i \in DOMAIN design.processes, NEW part \in {"body", "on timeout"},
           NEW o \in Occurrences(Block(i, part)), o.statement.kind \in {"assign", "call", "declassify"},
           NEW d \in Classes, SiteAt(i, part, o).context <= d,
           ClassOfExpr(ScopeOf(source), Given(o.statement)) <= d
    PROVE  Shown(i, part, o) <= d
<1>1. Rated(ScopeOf(source).class) /\ SiteAt(i, part, o).context \in Classes
  BY ScopeIsRight, SitesAreChecked
<1>2. SiteAt(i, part, o).statement = o.statement
  BY DEF SiteAt
<1> HIDE DEF SiteAt
<1> QED BY <1>1, <1>2, RevealedClasses DEF Shown

(* What may be stored in a signal.                                         *)
LEMMA StoresAreRight ==
    ASSUME NEW scope, Rated(scope.class), NEW target, NEW explicit \in Classes, NEW context \in Classes,
           NEW unknown, StoreErrors(scope, target, explicit, unknown) = {}
    PROVE  /\ target \in DOMAIN scope.class /\ scope.class[target] \in Classes
           /\ explicit <= scope.class[target]
           /\ ~StoreFlow(scope, target, explicit, context) => context <= scope.class[target]
<1>1. target \in DOMAIN scope.class
  BY DEF StoreErrors
<1>2. When(explicit > scope.class[target], "E303") = {}
  BY <1>1 DEF StoreErrors
<1>3. ~(explicit > scope.class[target])
  BY <1>2, NoError
<1>4. scope.class[target] \in Classes
  BY <1>1 DEF Rated
<1>5. explicit <= scope.class[target]
  BY <1>3, <1>4, ClassesCompare
<1>6. StoreFlow(scope, target, explicit, context) \/ ~(context > scope.class[target])
  BY <1>1, <1>5 DEF StoreFlow
<1> QED BY <1>1, <1>4, <1>5, <1>6, ClassesCompare

LEMMA AssignmentsAreRight ==
    ASSUME FromSource, NEW i \in DOMAIN design.processes, NEW part \in {"body", "on timeout"},
           NEW o \in Occurrences(Block(i, part)), o.statement.kind = "assign"
    PROVE  Shown(i, part, o) <= design.class[o.statement.target]
<1> DEFINE scope == ScopeOf(source)
           s == o.statement
           site == SiteAt(i, part, o)
           explicit == ClassOfExpr(scope, s.value)
<1>1. /\ Rated(scope.class) /\ design.class = scope.class
      /\ OwnErrors(scope, s) = {} /\ SiteErrors(scope, site) = {} /\ site.context \in Classes
  BY ScopeIsRight, DesignIsCompiled, SitesAreChecked
<1>2. explicit \in Classes /\ explicit = ClassOfExpr(scope, Given(s)) /\ site.statement = s
  BY <1>1, ExpressionClasses DEF Rated, Given, SiteAt
<1>3. StoreErrors(scope, s.target, explicit, "E209") = {}
  BY <1>1 DEF OwnErrors
<1>4. ~StoreFlow(scope, s.target, explicit, site.context)
  BY <1>1, <1>2 DEF SiteErrors, When
<1> HIDE DEF explicit, scope
<1>5. /\ design.class[s.target] \in Classes
      /\ explicit <= design.class[s.target] /\ site.context <= design.class[s.target]
  BY <1>1, <1>2, <1>3, <1>4, StoresAreRight
<1> QED BY <1>2, <1>5, ShownIsLeast DEF scope

LEMMA CallsAreRight ==
    ASSUME FromSource, NEW i \in DOMAIN design.processes, NEW part \in {"body", "on timeout"},
           NEW o \in Occurrences(Block(i, part)), o.statement.kind = "call", o.statement.device \in Parts
    PROVE  LET s == o.statement
               shown == Shown(i, part, o)
           IN /\ shown <= design.class[s.output] /\ shown <= DeviceClasses[s.device]
              /\ DeviceClasses[s.device] \in Classes /\ design.class[s.output] \in Classes
              /\ design.cloudFloor \in Classes /\ design.clearance[s.device] \subseteq Classes
              /\ s.device \in design.cloud => shown < design.cloudFloor
              /\ \A clearance \in design.clearance[s.device] : shown <= clearance
<1> DEFINE scope == ScopeOf(source)
           s == o.statement
           site == SiteAt(i, part, o)
           explicit == ClassOfExpr(scope, s.argument)
           shown == Shown(i, part, o)
           d == scope.devices[s.device]
<1>1. /\ Rated(scope.class) /\ design.class = scope.class /\ design.cloudFloor = scope.floor
      /\ scope.floor \in Classes
      /\ OwnErrors(scope, s) = {} /\ SiteErrors(scope, site) = {} /\ site.context \in Classes
      /\ shown \in Classes
      /\ Uses(s) \in DOMAIN scope.devices => shown <= DeviceClasses[Uses(s)]
  BY ScopeIsRight, DesignIsCompiled, SitesAreChecked
<1>2. explicit \in Classes /\ explicit = ClassOfExpr(scope, Given(s)) /\ site.statement = s /\ Uses(s) = s.device
  BY <1>1, ExpressionClasses DEF Rated, Given, SiteAt, Uses
<1>3. CallErrors(scope, s) = {}
  BY <1>1 DEF OwnErrors
<1>4. StoreErrors(scope, s.output, explicit, "E208") = {} /\ s.device \in DOMAIN scope.devices
  BY <1>3 DEF CallErrors
<1>5. ~IsDeclassifier(d)
  <2>1. When(IsDeclassifier(d), "E220") = {}
    BY <1>3, <1>4 DEF CallErrors
  <2> QED BY <2>1, NoError
<1>6. /\ ~(LocationOf(d) = "cloud" /\ explicit >= scope.floor)
      /\ ~ \E c \in Clearance(d) : explicit > c
  <2>1. /\ When(LocationOf(d) = "cloud" /\ explicit >= scope.floor, "E301") = {}
        /\ When(\E c \in Clearance(d) : explicit > c, "E302") = {}
    BY <1>3, <1>4 DEF CallErrors
  <2> QED BY <2>1, NoError
<1>7. /\ ~StoreFlow(scope, s.output, explicit, site.context)
      /\ ~(LocationOf(d) = "cloud" /\ explicit < scope.floor /\ site.context >= scope.floor)
      /\ ~ \E c \in Clearance(d) : explicit <= c /\ site.context > c
  <2>1. Given(s) = s.argument /\ s.kind = "call"
    BY DEF Given
  <2>2. {scope.devices[n] : n \in {s.device} \cap DOMAIN scope.devices} = {d}
    BY <1>4
  <2> HIDE DEF scope, d, site
  <2>3. SiteErrors(scope, site) =
          When(StoreFlow(scope, s.output, explicit, site.context), "E304")
            \cup When(\E e \in {d} : /\ LocationOf(e) = "cloud"
                                     /\ explicit < scope.floor /\ site.context >= scope.floor, "E305")
            \cup When(\E e \in {d} : \E c \in Clearance(e) : explicit <= c /\ site.context > c, "E306")
    BY <1>2, <2>1, <2>2 DEF SiteErrors
  <2>4. /\ When(StoreFlow(scope, s.output, explicit, site.context), "E304") = {}
        /\ When(\E e \in {d} : /\ LocationOf(e) = "cloud"
                               /\ explicit < scope.floor /\ site.context >= scope.floor, "E305") = {}
        /\ When(\E e \in {d} : \E c \in Clearance(e) : explicit <= c /\ site.context > c, "E306") = {}
    BY <1>1, <2>3
  <2> QED BY <2>4, NoError
<1>8. /\ s.device \in design.cloud <=> LocationOf(d) = "cloud"
      /\ design.clearance[s.device] = Clearance(d)
  BY <1>4, <1>5, RoutesAgree DEF DeviceOf
<1>9. \A c \in Clearance(d) : c \in Classes
  BY ParsedClasses DEF Clearance
<1>10. ASSUME NEW c \in Classes, site.context <= c, explicit <= c PROVE shown <= c
  BY <1>2, <1>10, ShownIsLeast
<1>11. shown \in {site.context, explicit, Public}
  <2>1. shown = Strongest({explicit, site.context})
    BY <1>2 DEF Shown, Revealed
  <2>2. {explicit, site.context} \in SUBSET Classes
    BY <1>1, <1>2
  <2> HIDE DEF explicit, site, shown
  <2> QED BY <2>1, <2>2, StrongestIsLeast
<1> HIDE DEF scope, s, site, explicit, shown, d
<1>12. shown <= design.class[s.output] /\ design.class[s.output] \in Classes
  <2>1. /\ design.class[s.output] \in Classes
        /\ explicit <= design.class[s.output] /\ site.context <= design.class[s.output]
    BY <1>1, <1>2, <1>4, <1>7, StoresAreRight
  <2> QED BY <1>10, <2>1
<1>13. LocationOf(d) = "cloud" => shown < scope.floor
  <2> SUFFICES ASSUME LocationOf(d) = "cloud" PROVE shown < scope.floor
    OBVIOUS
  <2>1. explicit < scope.floor /\ site.context < scope.floor
    BY <1>1, <1>2, <1>6, <1>7, ClassesCompare
  <2>2. Public < scope.floor
    BY <1>1, <1>2, <2>1, ClassesCompare, ClassNumbers
  <2> QED BY <1>11, <2>1, <2>2
<1>14. \A c \in Clearance(d) : shown <= c
  <2> SUFFICES ASSUME NEW c \in Clearance(d) PROVE shown <= c
    OBVIOUS
  <2>1. c \in Classes
    BY <1>9
  <2>2. explicit <= c
    BY <1>2, <1>6, <2>1, ClassesCompare
  <2>3. site.context <= c
    BY <1>1, <1>7, <2>1, <2>2, ClassesCompare
  <2> QED BY <1>10, <2>1, <2>2, <2>3
<1>15. shown <= DeviceClasses[s.device] /\ DeviceClasses[s.device] \in Classes
  BY <1>1, <1>2, <1>4, ContextsAreClasses DEF DeviceRatings, scope
<1> QED BY <1>1, <1>8, <1>9, <1>12, <1>13, <1>14, <1>15 DEF s, shown

LEMMA DeviceClassesParse ==
    ASSUME NEW device
    PROVE  /\ Clearance(device) \in SUBSET Classes
           /\ \A range \in ReleaseRange(device) : range.to \in Classes
BY ParsedClasses DEF Clearance, ReleaseRange

LEMMA DeclassifiersAreRight ==
    ASSUME FromSource, NEW d \in DOMAIN design.declassifiers
    PROVE  LET means == design.declassifiers[d] IN
           /\ d \in DOMAIN ScopeOf(source).devices /\ IsDeclassifier(DeviceOf(d))
           /\ \E range \in ReleaseRange(DeviceOf(d)) : means.to = range.to /\ means.from = range.from
           /\ means.to \in Classes /\ means.from \in Classes
           /\ means.approval <=> Generic(DeviceOf(d), "approval") # {}
           /\ means.filter \cap design.cloud = {}
<1> DEFINE bound == {e \in DOMAIN ScopeOf(source).devices : ~IsDeclassifier(DeviceOf(e))}
           range == CHOOSE r \in ReleaseRange(DeviceOf(d)) : TRUE
<1>1. design.declassifiers = [e \in DOMAIN ScopeOf(source).devices \ bound |-> MeansOf(DeviceOf(e))]
  BY DEF FromSource, Compiled, DeviceOf
<1>2. d \in DOMAIN ScopeOf(source).devices /\ IsDeclassifier(DeviceOf(d))
  BY <1>1
<1>3. design.declassifiers[d] = MeansOf(DeviceOf(d))
  BY <1>1
<1>4. HasMeans(DeviceOf(d))
  <2>1. DeviceOf(d) \in Declared(ArchitectureOf(source), "device")
    BY <1>2, ScopeIsRight
  <2> QED BY <1>2, <2>1 DEF FromSource, Compiles, DeviceCompiles, ArchitectureOf
<1>5. range \in ReleaseRange(DeviceOf(d))
  BY <1>4 DEF HasMeans
<1>6. /\ design.declassifiers[d].to = range.to /\ design.declassifiers[d].from = range.from
      /\ design.declassifiers[d].filter = Ident(DeviceOf(d), "filter")
      /\ design.declassifiers[d].approval = ("human" \in Ident(DeviceOf(d), "approval"))
  BY <1>3 DEF MeansOf
<1> HIDE DEF range
<1>7. range.to \in Classes /\ range.from \in Classes
  BY <1>5, ParsedClasses DEF ReleaseRange
<1>8. DeclassifierOk(ScopeOf(source), DeviceOf(d))
  BY <1>2, PartsAreRight
<1>9. Generic(DeviceOf(d), "approval") # {} <=> "human" \in Ident(DeviceOf(d), "approval")
  <2>1. \A g \in Generic(DeviceOf(d), "approval") : g.form = "ident" /\ g.value = "human"
    BY <1>8 DEF DeclassifierOk
  <2> QED BY <2>1 DEF Ident
<1>10. Ident(DeviceOf(d), "filter") \cap design.cloud = {}
  <2> SUFFICES ASSUME NEW f \in Ident(DeviceOf(d), "filter") PROVE f \notin design.cloud
    OBVIOUS
  <2>1. Generic(DeviceOf(d), "filter") # {}
    BY DEF Ident
  <2>2. PICK n \in Ident(DeviceOf(d), "filter") \cap DOMAIN ScopeOf(source).devices :
            /\ ScopeOf(source).devices[n].type = "deterministic"
            /\ LocationOf(ScopeOf(source).devices[n]) = "local"
    BY <1>8, <2>1 DEF DeclassifierOk
  <2>3. f = n
    BY DEF Ident, Generic
  <2>4. ~IsDeclassifier(DeviceOf(n)) /\ LocationOf(DeviceOf(n)) # "cloud"
    BY <2>2 DEF IsDeclassifier, DeviceOf
  <2> QED BY <2>2, <2>3, <2>4, RoutesAgree
<1> QED BY <1>2, <1>5, <1>6, <1>7, <1>9, <1>10

LEMMA ReleasesAreRight ==
    ASSUME FromSource, NEW i \in DOMAIN design.processes, NEW part \in {"body", "on timeout"},
           NEW o \in Occurrences(Block(i, part)), o.statement.kind = "declassify",
           o.statement.using \in DOMAIN design.declassifiers
    PROVE  LET s == o.statement
               means == design.declassifiers[s.using]
           IN /\ means.to \in Classes /\ means.to <= design.class[s.target]
              /\ Shown(i, part, o) <= DeviceClasses[s.using] /\ DeviceClasses[s.using] \in Classes
              /\ design.class[s.target] \in Classes
              /\ ~means.approval => SiteAt(i, part, o).context <= design.class[s.target]
              /\ means.from \in Classes /\ ClassOfExpr(ScopeOf(source), s.value) <= means.from
              /\ means.approval => SiteAt(i, part, o).context <= means.from
<1> DEFINE scope == ScopeOf(source)
           s == o.statement
           site == SiteAt(i, part, o)
           d == scope.devices[s.using]
           target == s.target
           tos == {r.to : r \in ReleaseRange(d)}
<1>1. /\ Rated(scope.class) /\ design.class = scope.class
      /\ OwnErrors(scope, s) = {} /\ SiteErrors(scope, site) = {} /\ site.context \in Classes
      /\ Uses(s) \in DOMAIN scope.devices => Shown(i, part, o) <= DeviceClasses[Uses(s)]
  BY ScopeIsRight, DesignIsCompiled, SitesAreChecked
<1>2. /\ s.using \in DOMAIN scope.devices /\ IsDeclassifier(d) /\ Uses(s) = s.using
      /\ design.declassifiers[s.using].to \in Classes /\ design.declassifiers[s.using].from \in Classes
      /\ design.declassifiers[s.using].approval <=> Generic(d, "approval") # {}
  BY DeclassifiersAreRight DEF DeviceOf, Uses
<1>3. PICK range \in ReleaseRange(d) : /\ design.declassifiers[s.using].to = range.to
                                      /\ design.declassifiers[s.using].from = range.from
  BY DeclassifiersAreRight DEF DeviceOf
<1>4. tos \in SUBSET Classes
  BY DeviceClassesParse
<1>5. /\ StoreErrors(scope, target, Strongest(tos), "E209") = {}
      /\ ~(ClassOfExpr(scope, s.value) > range.from)
  <2>1. ReleaseErrors(scope, s) = {}
    BY <1>1 DEF OwnErrors
  <2>2. StoreErrors(scope, target, Strongest(tos), "E209") = {}
    BY <1>2, <2>1 DEF ReleaseErrors
  <2>3. When(\E r \in ReleaseRange(d) : ClassOfExpr(scope, s.value) > r.from, "E307") = {}
    BY <1>2, <2>1 DEF ReleaseErrors
  <2> HIDE DEF scope, d, tos
  <2> QED BY <1>3, <2>2, <2>3, NoError
<1>6. ~ReleaseFlow(scope, s, site.context)
  <2>1. site.statement = s /\ s.kind = "declassify"
    BY DEF SiteAt
  <2>2. When(ReleaseFlow(scope, s, site.context), "E304") \subseteq SiteErrors(scope, site)
    <3> HIDE DEF scope, site
    <3> QED BY <2>1 DEF SiteErrors
  <2> QED BY <1>1, <2>2, NoError
<1>7. Strongest(tos) \in Classes /\ range.to <= Strongest(tos) /\ range.to \in Classes
  <2>1. range.to \in tos
    BY <1>3
  <2> HIDE DEF tos
  <2> QED BY <1>4, <2>1, StrongestIsLeast
<1> HIDE DEF tos, scope, site, d
<1>8. target \in DOMAIN scope.class /\ scope.class[target] \in Classes /\ Strongest(tos) <= scope.class[target]
  BY <1>1, <1>5, <1>7, StoresAreRight
<1>9. range.to <= scope.class[target]
  BY <1>7, <1>8, ClassesCompare
<1>10. ~(site.context > IF Generic(d, "approval") # {} THEN range.from ELSE scope.class[target])
  <2>1. target \in {s.target} \cap DOMAIN scope.class
    BY <1>8
  <2>2. d \in {scope.devices[n] : n \in {s.using} \cap DOMAIN scope.devices}
    BY <1>2 DEF d
  <2>3. range \in IF IsDeclassifier(d) THEN ReleaseRange(d) ELSE {}
    BY <1>2, <1>3
  <2> QED BY <1>6, <1>9, <2>1, <2>2, <2>3 DEF ReleaseFlow
<1>11. /\ ~design.declassifiers[s.using].approval => site.context <= scope.class[target]
       /\ design.declassifiers[s.using].approval => site.context <= range.from
  BY <1>1, <1>2, <1>3, <1>8, <1>10, ClassesCompare
<1>12. DeviceClasses[s.using] \in Classes
  BY <1>2, ContextsAreClasses DEF DeviceRatings, scope
<1>13. ClassOfExpr(scope, s.value) <= range.from
  <2> DEFINE explicit == ClassOfExpr(scope, s.value)
             from == range.from
  <2>1. explicit \in Classes
    BY ScopeIsRight, ExpressionClasses DEF Rated, scope
  <2>2. from \in Classes
    BY <1>2, <1>3
  <2>3. ~(explicit > from)
    BY <1>5
  <2> HIDE DEF explicit, from
  <2>4. explicit <= from
    BY <2>1, <2>2, <2>3, ClassesCompare
  <2> QED BY <2>4 DEF explicit, from
<1> QED BY <1>1, <1>2, <1>3, <1>8, <1>9, <1>11, <1>12, <1>13 DEF site, scope

(* The guard of the interpreter asks what the checker has asked.           *)
LEMMA GuardIsChecked ==
    ASSUME FromSource, NEW i \in DOMAIN design.processes, NEW part \in {"body", "on timeout"},
           NEW o \in Occurrences(Block(i, part)), o.statement.kind = "call", o.statement.device \in Parts
    PROVE  Cleared(design, o.statement.device, o.statement.argument)
<1> DEFINE scope == ScopeOf(source)
           s == o.statement
           shown == Shown(i, part, o)
           explicit == ClassOfExpr(scope, s.argument)
<1>1. /\ Rated(scope.class) /\ DOMAIN scope.class = Signals /\ design.class = scope.class
      /\ design.cloudFloor \in Classes
  BY ScopeIsRight, DesignIsCompiled
<1>2. /\ shown \in Classes /\ explicit <= shown
      /\ s.device \in design.cloud => shown < design.cloudFloor
      /\ \A clearance \in design.clearance[s.device] : shown <= clearance
  BY SitesAreChecked, CallsAreRight DEF Given
<1>3. explicit \in Classes
  BY <1>1, ExpressionClasses DEF Rated
<1>4. \A clearance \in design.clearance[s.device] : clearance \in Classes
  <2>1. design.clearance[s.device] \in {{}} \cup {Clearance(DeviceOf(e)) : e \in DOMAIN ScopeOf(source).devices}
    BY DEF FromSource, Compiled, DeviceOf
  <2>2. design.clearance[s.device] \in SUBSET Classes
    BY <2>1, DeviceClassesParse
  <2> QED BY <2>2
<1>5. Max({0} \cup {design.class[n] : n \in NamesIn(s.argument) \cap Signals}) = explicit
  <2>1. {design.class[n] : n \in NamesIn(s.argument) \cap Signals}
          = {scope.class[n] : n \in NamesIn(s.argument) \cap DOMAIN scope.class}
    BY <1>1
  <2> QED BY <2>1 DEF ClassOfExpr, Strongest, Public
<1> HIDE DEF scope, s, shown, explicit
<1>6. s.device \in design.cloud => explicit < design.cloudFloor
  BY <1>1, <1>2, <1>3, ClassesCompare
<1>7. \A clearance \in design.clearance[s.device] : explicit <= clearance
  BY <1>2, <1>3, <1>4, ClassesCompare
<1> QED BY <1>5, <1>6, <1>7 DEF Cleared, s

-----------------------------------------------------------------------------
(* The invariant of the observer.  What it has seen so far is no stronger  *)
(* than what the checker assumed: the values their signals, the events     *)
(* their sources, the running process its context, and each statement that *)
(* is still to come the conditions it is under.                            *)
Bounded(marks) == \A e \in DOMAIN marks : marks[e] \in Classes /\ marks[e] <= EventBound(e)

MarksOk(marks, w) ==
    /\ marks.signals \in Seq(Classes) /\ Len(marks.signals) = Len(w.signals)
    /\ \A k \in DOMAIN w.signals : marks.signals[k] <= design.class[w.signals[k].signal]
    /\ DOMAIN marks.events = w.events /\ Bounded(marks.events)

FlowFields == {"label", "heard", "collected", "base", "scopes", "made", "own"}

FlowOk(f, w) ==
    /\ DOMAIN f = FlowFields
    /\ f.label \in [Signals -> Classes]
    /\ \A s \in Signals : f.label[s] <= design.class[s]
    /\ Bounded(f.heard)
    /\ MarksOk(f.collected, w)

ContextOk(f, fr) ==
    /\ f.base \in Classes /\ f.base <= Base(fr.process, fr.part)
    /\ f.made \in Classes
    /\ fr.part = "body" => f.made <= LateContext(fr.process)

(* The scopes that enclose the k-th of the statements that are left.       *)
Around(scopes, todo, k) == {scope \in scopes : scope.after + k <= Len(todo)}

Covers(scopes, o) == \A scope \in scopes : scope.class <= UnderClass(o)

ScopesOk(scopes, fr) ==
    /\ scopes \subseteq [after : Nat, class : Classes]
    /\ \A scope \in scopes : scope.after < Len(fr.todo)
    /\ \A k \in DOMAIN fr.todo : \E o \in Occurrences(Block(fr.process, fr.part)) :
          o.statement = fr.todo[k] /\ Covers(Around(scopes, fr.todo, k), o)

RunningOk(f, fr) ==
    fr.at \in Busy => MarksOk(f.own, fr.local) /\ ContextOk(f, fr) /\ ScopesOk(f.scopes, fr)

FlowInv == FlowOk(flow, writes) /\ RunningOk(flow, frame)

(* A step changes neither the source nor the design, so what the checker   *)
(* computes stays.                                                         *)
LEMMA CheckerStays ==
    ASSUME UNCHANGED <<design, source>>, FlowOk(flow', writes'), RunningOk(flow', frame')
    PROVE  FlowInv'
<1>1. DeviceClasses' = DeviceClasses
  BY DEF DeviceClasses, Processed
<1>2. \A i : BodyContext(i)' = BodyContext(i)
  BY <1>1 DEF BodyContext, Processed
<1>3. \A i : LateContext(i)' = LateContext(i)
  BY <1>2 DEF LateContext, Processed
<1>4. \A i, part : Base(i, part)' = Base(i, part)
  BY <1>2, <1>3 DEF Base
<1>5. \A o : UnderClass(o)' = UnderClass(o)
  BY DEF UnderClass
<1>6. \A e : EventBound(e)' = EventBound(e)
  BY <1>1 DEF EventBound
<1>7. \A i, part : Block(i, part)' = Block(i, part)
  BY DEF Block
<1>8. FlowOk(flow, writes)'
  BY <1>6 DEF FlowOk, MarksOk, Bounded
<1>9. RunningOk(flow, frame)'
  BY <1>3, <1>4, <1>5, <1>6, <1>7 DEF RunningOk, MarksOk, Bounded, ContextOk, ScopesOk, Covers
<1> QED BY <1>8, <1>9 DEF FlowInv

(* Classes of what is read, and of several events together.                *)
LEMMA LabelsAreBounded ==
    ASSUME FromSource, FlowOk(flow, writes), NEW e
    PROVE  LabelOf(e) \in Classes /\ LabelOf(e) <= ClassOfExpr(ScopeOf(source), e)
<1> DEFINE S == {flow.label[s] : s \in NamesIn(e) \cap Signals}
           T == {ScopeOf(source).class[s] : s \in NamesIn(e) \cap DOMAIN ScopeOf(source).class}
<1>1. Rated(ScopeOf(source).class) /\ DOMAIN ScopeOf(source).class = Signals
      /\ design.class = ScopeOf(source).class
  BY ScopeIsRight, DesignIsCompiled
<1>2. S \in SUBSET Classes /\ T \in SUBSET Classes
  BY <1>1 DEF FlowOk, Rated
<1>3. \A b \in S : \E c \in T : b <= c
  BY <1>1 DEF FlowOk
<1>4. LabelOf(e) = Strongest(S) /\ ClassOfExpr(ScopeOf(source), e) = Strongest(T)
  BY DEF LabelOf, ClassOfExpr
<1> HIDE DEF S, T
<1> QED BY <1>2, <1>3, <1>4, StrongestIsLeast, StrongestRises

LEMMA StrongestOfSome ==
    ASSUME NEW S \in SUBSET Classes, S # {} PROVE Strongest(S) \in S
<1>1. PICK c \in S : TRUE
  OBVIOUS
<1>2. c \in Classes /\ c <= Strongest(S) /\ (Strongest(S) = Public \/ Strongest(S) \in S)
  BY StrongestIsLeast
<1>3. Strongest(S) = Public => c = Public
  BY <1>2, ClassNumbers
<1> QED BY <1>1, <1>2, <1>3

LEMMA JoiningIsBounded ==
    ASSUME NEW f, NEW g, Bounded(f), Bounded(g)
    PROVE  DOMAIN Joining(f, g) = DOMAIN f \cup DOMAIN g /\ Bounded(Joining(f, g))
<1>1. DOMAIN Joining(f, g) = DOMAIN f \cup DOMAIN g
  BY DEF Joining
<1>2. ASSUME NEW x \in DOMAIN f \cup DOMAIN g
      PROVE  Joining(f, g)[x] \in Classes /\ Joining(f, g)[x] <= EventBound(x)
  <2> DEFINE S == {f[y] : y \in {x} \cap DOMAIN f} \cup {g[y] : y \in {x} \cap DOMAIN g}
  <2>1. Joining(f, g)[x] = Strongest(S)
    BY DEF Joining
  <2>2. S # {} /\ S \in SUBSET Classes /\ \A c \in S : c <= EventBound(x)
    BY DEF Bounded
  <2> HIDE DEF S
  <2>3. Strongest(S) \in S
    BY <2>2, StrongestOfSome
  <2> QED BY <2>1, <2>2, <2>3
<1> QED BY <1>1, <1>2 DEF Bounded

(* Writes and events are appended together with their classes.             *)
LEMMA MarksJoin ==
    ASSUME NEW m, NEW w, MarksOk(m, w), NEW n, NEW v, MarksOk(n, v),
           w.signals \in Seq(Entry), v.signals \in Seq(Entry)
    PROVE  MarksOk([signals |-> m.signals \o n.signals, events |-> Joining(m.events, n.events)],
                   [signals |-> w.signals \o v.signals, events |-> w.events \cup v.events])
<1> DEFINE joined == [signals |-> m.signals \o n.signals, events |-> Joining(m.events, n.events)]
           all == [signals |-> w.signals \o v.signals, events |-> w.events \cup v.events]
<1>1. DOMAIN joined.events = all.events /\ Bounded(joined.events)
  BY JoiningIsBounded DEF MarksOk
<1> DEFINE a == m.signals
           b == n.signals
           c == w.signals
           d == v.signals
           class(e) == design.class[e.signal]
<1>2. /\ a \in Seq(Classes) /\ b \in Seq(Classes) /\ c \in Seq(Entry) /\ d \in Seq(Entry)
      /\ Len(a) = Len(c) /\ Len(b) = Len(d)
      /\ \A k \in DOMAIN c : a[k] <= class(c[k])
      /\ \A k \in DOMAIN d : b[k] <= class(d[k])
  BY DEF MarksOk
<1> HIDE DEF a, b, c, d, class
<1>3. a \o b \in Seq(Classes) /\ Len(a \o b) = Len(c \o d)
  <2>1. a \o b \in Seq(Classes)
    BY <1>2
  <2>2. Len(a \o b) = Len(a) + Len(b)
    <3>1. a \in Seq(Classes) /\ b \in Seq(Classes)
      BY <1>2
    <3> QED BY <3>1
  <2>3. Len(c \o d) = Len(c) + Len(d)
    BY <1>2
  <2> QED BY <1>2, <2>1, <2>2, <2>3
<1>4. ASSUME NEW k \in DOMAIN (c \o d) PROVE (a \o b)[k] <= class((c \o d)[k])
  <2>1. k \in 1..Len(c) + Len(d) /\ Len(c) \in Nat /\ Len(d) \in Nat
    BY <1>2
  <2>2. CASE k \in 1..Len(c)
    <3>1. (a \o b)[k] = a[k] /\ (c \o d)[k] = c[k] /\ k \in DOMAIN c
      BY <1>2, <2>1, <2>2
    <3> QED BY <1>2, <3>1
  <2>3. CASE k \notin 1..Len(c)
    <3>1. /\ (a \o b)[k] = b[k - Len(c)] /\ (c \o d)[k] = d[k - Len(c)]
          /\ k - Len(c) \in DOMAIN d
      BY <1>2, <2>1, <2>3
    <3> QED BY <1>2, <3>1
  <2> QED BY <2>2, <2>3
<1>5. MarksOk(joined, all)
  BY <1>1, <1>3, <1>4 DEF MarksOk, a, b, c, d, class
<1> QED BY <1>5

-----------------------------------------------------------------------------
(* The statement that is executed, as the checker saw it.                  *)
Seen(o) ==
    /\ o \in Occurrences(Block(frame.process, frame.part))
    /\ o.statement = Statement
    /\ Covers(flow.scopes, o)

LEMMA NextIsSeen ==
    ASSUME Shape, FlowInv, frame.at \in Busy, frame.todo # <<>>
    PROVE  \E o : Seen(o)
<1> DEFINE todo == frame.todo
<1>1. todo \in Seq(Within) /\ todo # <<>>
  BY StatementsAreOk
<1>2. 1 \in DOMAIN todo /\ Statement = todo[1]
  BY <1>1 DEF Statement
<1>3. ScopesOk(flow.scopes, frame)
  BY DEF FlowInv, RunningOk
<1>4. PICK o \in Occurrences(Block(frame.process, frame.part)) :
          o.statement = todo[1] /\ Covers(Around(flow.scopes, todo, 1), o)
  BY <1>2, <1>3 DEF ScopesOk
<1>5. Around(flow.scopes, todo, 1) = flow.scopes
  <2>1. \A scope \in flow.scopes : scope.after \in Nat /\ scope.after < Len(todo)
    BY <1>3 DEF ScopesOk
  <2>2. Len(todo) \in Nat
    BY <1>1
  <2>3. \A scope \in flow.scopes : scope.after + 1 <= Len(todo)
    BY <2>1, <2>2
  <2> QED BY <2>3 DEF Around
<1> QED BY <1>2, <1>4, <1>5 DEF Seen

LEMMA UnderClasses == ASSUME FromSource, NEW o PROVE UnderClass(o) \in Classes
<1>1. {ClassOfExpr(ScopeOf(source), c) : c \in o.under} \in SUBSET Classes
  BY ScopeIsRight, ExpressionClasses DEF Rated
<1> QED BY <1>1, StrongestIsLeast DEF UnderClass

LEMMA BaseClasses ==
    ASSUME FromSource, NEW i \in DOMAIN design.processes, NEW part PROVE Base(i, part) \in Classes
BY ContextsAreClasses DEF Base

(* The context at run time is no stronger than the static one.             *)
LEMMA ContextIsSeen ==
    ASSUME Shape, FromSource, FlowInv, frame.at \in Busy, NEW o, Seen(o)
    PROVE  /\ Context \in Classes
           /\ Context <= SiteAt(frame.process, frame.part, o).context
<1> DEFINE S == {flow.base} \cup {scope.class : scope \in flow.scopes}
           base == Base(frame.process, frame.part)
           scope == ScopeOf(source)
           static == ContextOf(scope, o, base)
           U == {ClassOfExpr(scope, c) : c \in o.under}
<1>1. /\ flow.base \in Classes /\ flow.base <= base
      /\ flow.scopes \subseteq [after : Nat, class : Classes]
  BY DEF FlowInv, RunningOk, ContextOk, ScopesOk
<1>2. S \in SUBSET Classes
  BY <1>1
<1>3. base \in Classes
  BY StatementsAreOk, BaseClasses
<1>4. Rated(scope.class)
  BY ScopeIsRight
<1>5. /\ static \in Classes /\ base <= static
      /\ \A c \in o.under : ClassOfExpr(scope, c) <= static
  BY <1>3, <1>4, ContextClasses
<1>6. U \in SUBSET Classes /\ \A c \in U : c <= static
  BY <1>4, <1>5, ExpressionClasses DEF Rated
<1> HIDE DEF static, base, U, scope
<1>7. Strongest(U) <= static
  BY <1>5, <1>6, StrongestIsLeast
<1>8. \A c \in S : c <= static
  <2>1. flow.base <= static
    BY <1>1, <1>3, <1>5, ClassesCompare
  <2>2. ASSUME NEW s \in flow.scopes PROVE s.class <= static
    <3>1. s.class \in Classes
      BY <1>1
    <3>2. UnderClass(o) = Strongest(U)
      BY DEF UnderClass, U, scope
    <3>3. s.class <= Strongest(U) /\ Strongest(U) \in Classes
      BY <3>2, UnderClasses DEF Seen, Covers
    <3> QED BY <1>5, <1>7, <3>1, <3>3, ClassesCompare
  <2> QED BY <2>1, <2>2
<1>9. Context = Strongest(S) /\ SiteAt(frame.process, frame.part, o).context = static
  BY DEF Context, SiteAt, static, base, scope
<1> HIDE DEF S
<1> QED BY <1>2, <1>5, <1>8, <1>9, StrongestIsLeast

(* So what a statement reveals is no stronger than what the checker thinks *)
(* it does.                                                                *)
LEMMA RevealingIsSeen ==
    ASSUME Shape, FromSource, FlowInv, frame.at \in Busy, NEW o, Seen(o),
           Statement.kind \in {"assign", "call", "declassify"}
    PROVE  /\ Revealing \in Classes /\ Context <= Revealing
           /\ Revealing <= Shown(frame.process, frame.part, o)
           /\ Shown(frame.process, frame.part, o) \in Classes
<1> DEFINE i == frame.process
           part == frame.part
           given == Given(Statement)
           shown == Shown(i, part, o)
<1>1. /\ i \in DOMAIN design.processes /\ part \in {"body", "on timeout"}
      /\ o \in Occurrences(Block(i, part)) /\ o.statement = Statement
  BY StatementsAreOk DEF Shape, FrameOk, Frames, Seen
<1>2. /\ shown \in Classes /\ SiteAt(i, part, o).context \in Classes
      /\ SiteAt(i, part, o).context <= shown
      /\ ClassOfExpr(ScopeOf(source), given) <= shown
  BY <1>1, SitesAreChecked
<1>3. LabelOf(given) \in Classes /\ LabelOf(given) <= ClassOfExpr(ScopeOf(source), given)
  BY LabelsAreBounded DEF FlowInv
<1>4. Context \in Classes /\ Context <= SiteAt(i, part, o).context
  BY ContextIsSeen
<1>5. ClassOfExpr(ScopeOf(source), given) \in Classes
  BY ScopeIsRight, ExpressionClasses DEF Rated
<1>6. Revealing = Strongest({LabelOf(given), Context})
  BY DEF Revealing
<1> HIDE DEF i, part, given, shown
<1>7. LabelOf(given) <= shown /\ Context <= shown
  BY <1>2, <1>3, <1>4, <1>5, ClassesCompare
<1>8. {LabelOf(given), Context} \in SUBSET Classes
  BY <1>3, <1>4
<1> QED BY <1>2, <1>6, <1>7, <1>8, StrongestIsLeast DEF i, part, shown

-----------------------------------------------------------------------------
(* The statement is executed and the next one is up: the ifs that were left *)
(* with it enclose nothing any more.                                       *)
SameFields(fields) == DOMAIN flow' = FlowFields /\ \A x \in fields : flow'[x] = flow[x]

LEMMA ValuesKept ==
    ASSUME FlowOk(flow, writes), SameFields({"label", "heard", "collected"}), writes' = writes
    PROVE  FlowOk(flow', writes')
BY DEF FlowOk, SameFields

LEMMA TailIsCovered ==
    ASSUME Shape, frame.at \in Busy, frame.todo # <<>>, ScopesOk(flow.scopes, frame),
           NEW local, frame' = Step(local)
    PROVE  ScopesOk(Enclosing(flow.scopes), frame')
<1> DEFINE todo == frame.todo
           rest == Tail(todo)
<1>1. /\ todo \in Seq(Within) /\ todo # <<>>
      /\ frame'.todo = rest /\ frame'.process = frame.process /\ frame'.part = frame.part
  BY StatementsAreOk DEF Step, Shape, FrameOk, Frames
<1>2. /\ Len(rest) = Len(todo) - 1 /\ Len(todo) \in Nat /\ DOMAIN rest = 1..Len(rest)
      /\ \A k \in DOMAIN rest : k + 1 \in DOMAIN todo /\ rest[k] = todo[k + 1] /\ k \in Nat
  BY <1>1
<1>3. /\ flow.scopes \subseteq [after : Nat, class : Classes]
      /\ \A k \in DOMAIN todo : \E o \in Occurrences(Block(frame.process, frame.part)) :
            o.statement = todo[k] /\ Covers(Around(flow.scopes, todo, k), o)
  BY DEF ScopesOk
<1> HIDE DEF rest, todo
<1>4. Enclosing(flow.scopes) = {scope \in flow.scopes : scope.after < Len(rest)}
  BY <1>1 DEF Enclosing
<1>5. ASSUME NEW k \in DOMAIN rest
      PROVE  \E o \in Occurrences(Block(frame.process, frame.part)) :
                o.statement = rest[k] /\ Covers(Around(Enclosing(flow.scopes), rest, k), o)
  <2>1. k + 1 \in DOMAIN todo /\ rest[k] = todo[k + 1] /\ k \in Nat
    BY <1>2
  <2>2. PICK o \in Occurrences(Block(frame.process, frame.part)) :
            o.statement = todo[k + 1] /\ Covers(Around(flow.scopes, todo, k + 1), o)
    BY <1>3, <2>1
  <2>3. Around(Enclosing(flow.scopes), rest, k) \subseteq Around(flow.scopes, todo, k + 1)
    <3> SUFFICES ASSUME NEW scope \in flow.scopes, scope.after + k <= Len(rest)
                 PROVE  scope.after + (k + 1) <= Len(todo)
      BY <1>4 DEF Around
    <3>1. scope.after \in Nat
      BY <1>3
    <3> QED BY <1>2, <2>1, <3>1
  <2> QED BY <2>1, <2>2, <2>3 DEF Covers
<1> QED BY <1>1, <1>3, <1>4, <1>5 DEF ScopesOk

LEMMA StatementDone ==
    ASSUME Shape, FlowInv, frame.at \in Busy, frame.todo # <<>>,
           NEW local \in Collected, frame' = Step(local), MarksOk(flow'.own, local),
           SameFields({"label", "heard", "collected", "base", "made"}),
           flow'.scopes = Enclosing(flow.scopes), UNCHANGED <<design, source, writes>>
    PROVE  FlowInv'
<1>1. FlowOk(flow', writes')
  BY ValuesKept DEF FlowInv, SameFields
<1>2. /\ ContextOk(flow, frame) /\ ScopesOk(flow.scopes, frame)
      /\ frame'.process = frame.process /\ frame'.part = frame.part /\ frame'.local = local
  BY StepFits DEF FlowInv, RunningOk
<1>3. ContextOk(flow', frame')
  BY <1>2 DEF ContextOk, SameFields
<1>4. ScopesOk(flow'.scopes, frame')
  BY <1>2, TailIsCovered
<1>5. RunningOk(flow', frame')
  BY <1>2, <1>3, <1>4 DEF RunningOk
<1> QED BY <1>1, <1>5, CheckerStays

(* What it has written and raised, with the classes.                       *)
With(w, signals, raised) == [signals |-> w.signals \o signals, events |-> w.events \cup raised]

LEMMA RaisesAreAdded ==
    ASSUME NEW w \in Collected, NEW raised
    PROVE  /\ Raise(w, raised) = [signals |-> w.signals, events |-> w.events \cup raised]
           /\ Raise(w, raised) = With(w, <<>>, raised)
<1> DEFINE all == w.events \cup raised
<1>1. w = [signals |-> w.signals, events |-> w.events] /\ w.signals \o <<>> = w.signals
  BY DEF Collected
<1>2. Raise(w, raised) = [w EXCEPT !.events = all]
  BY DEF Raise
<1> HIDE DEF all
<1>3. [w EXCEPT !.events = all] = [signals |-> w.signals, events |-> all]
  BY <1>1
<1> QED BY <1>1, <1>2, <1>3 DEF all, With

LEMMA WritesAreAdded ==
    ASSUME NEW w \in Collected, NEW raised, NEW s \in Signals, NEW v \in Values,
           NEW i \in DOMAIN design.processes
    PROVE  LET entry == [signal |-> s, value |-> v, process |-> i] IN
           /\ entry \in Entry
           /\ Drive(w, s, v, i) = With(w, <<entry>>, {})
           /\ Drive(Raise(w, raised), s, v, i) = With(w, <<entry>>, raised)
<1> DEFINE entry == [signal |-> s, value |-> v, process |-> i]
           all == w.events \cup raised
           r == [signals |-> w.signals, events |-> all]
<1>1. entry \in Entry
  BY DEF Entry
<1>2. w = [signals |-> w.signals, events |-> w.events] /\ w.signals \in Seq(Entry)
  BY DEF Collected
<1> HIDE DEF entry
<1>3. Append(w.signals, entry) = w.signals \o <<entry>>
  BY <1>1, <1>2
<1>4. Drive(w, s, v, i) = With(w, <<entry>>, {})
  BY <1>2, <1>3 DEF Drive, With, entry
<1>5. Drive(Raise(w, raised), s, v, i) = [r EXCEPT !.signals = Append(r.signals, entry)]
  BY RaisesAreAdded DEF Drive, entry
<1> HIDE DEF all
<1>6. [r EXCEPT !.signals = Append(r.signals, entry)] = [signals |-> Append(w.signals, entry), events |-> all]
  OBVIOUS
<1> QED BY <1>1, <1>3, <1>4, <1>5, <1>6 DEF With, all, entry

LEMMA MarksAreAdded ==
    ASSUME FromSource, FlowInv, frame.at \in Busy, frame.local \in Collected,
           NEW signals \in Seq(Entry), NEW class \in Seq(Classes), Len(class) = Len(signals),
           \A k \in DOMAIN signals : class[k] <= design.class[signals[k].signal],
           NEW raised, NEW c \in Classes, \A e \in raised : c <= EventBound(e)
    PROVE  MarksOk([signals |-> flow.own.signals \o class,
                    events |-> Joining(flow.own.events, [e \in raised |-> c])],
                   With(frame.local, signals, raised))
<1> DEFINE m == [signals |-> class, events |-> [e \in raised |-> c]]
           w == [signals |-> signals, events |-> raised]
<1>1. MarksOk(m, w) /\ w.signals \in Seq(Entry)
  BY DEF MarksOk, Bounded
<1>2. MarksOk(flow.own, frame.local) /\ frame.local.signals \in Seq(Entry)
  BY DEF FlowInv, RunningOk, Collected
<1>3. MarksOk([signals |-> flow.own.signals \o m.signals, events |-> Joining(flow.own.events, m.events)],
              [signals |-> frame.local.signals \o w.signals, events |-> frame.local.events \cup w.events])
  BY <1>1, <1>2, MarksJoin
<1> QED BY <1>3 DEF With

-----------------------------------------------------------------------------
(* What statements store and raise.                                        *)
Stores(class, s) == class \in Classes /\ design.class[s] \in Classes /\ class <= design.class[s]

Tells(d) == \A what \in {"done", "failed", "timeout"} : Revealing <= EventBound(<<d, what>>)

LEMMA RunningPart ==
    ASSUME Shape, frame.at \in Busy, NEW o, Seen(o)
    PROVE  /\ frame.process \in DOMAIN design.processes /\ frame.part \in {"body", "on timeout"}
           /\ o \in Occurrences(Block(frame.process, frame.part)) /\ o.statement = Statement
BY StatementsAreOk DEF Shape, FrameOk, Frames, Seen

LEMMA AssignmentIsSeen ==
    ASSUME Shape, FromSource, FlowInv, frame.at \in Busy, frame.todo # <<>>,
           Statement.kind = "assign", Statement.target \in Signals
    PROVE  Stores(Revealing, Statement.target)
<1>1. PICK o : Seen(o)
  BY NextIsSeen
<1>2. Revealing \in Classes /\ Revealing <= Shown(frame.process, frame.part, o)
      /\ Shown(frame.process, frame.part, o) \in Classes
  BY <1>1, RevealingIsSeen
<1>3. Shown(frame.process, frame.part, o) <= design.class[Statement.target]
  BY <1>1, RunningPart, AssignmentsAreRight
<1>4. design.class[Statement.target] \in Classes
  BY ScopeIsRight, DesignIsCompiled DEF Rated
<1> QED BY <1>2, <1>3, <1>4, ClassesCompare DEF Stores

LEMMA CallIsSeen ==
    ASSUME Shape, FromSource, FlowInv, frame.at \in Busy, frame.todo # <<>>,
           Statement.kind = "call", Statement.device \in Parts
    PROVE  /\ Stores(Revealing, Statement.output) /\ Tells(Statement.device)
           /\ frame.part = "body" => Revealing <= LateContext(frame.process)
           /\ Statement.device \in design.cloud => Revealing < design.cloudFloor
           /\ \A clearance \in design.clearance[Statement.device] : Revealing <= clearance
<1>1. PICK o : Seen(o)
  BY NextIsSeen
<1> DEFINE shown == Shown(frame.process, frame.part, o)
           d == Statement.device
<1>2. Revealing \in Classes /\ Revealing <= shown /\ shown \in Classes
  BY <1>1, RevealingIsSeen
<1>3. /\ shown <= design.class[Statement.output] /\ shown <= DeviceClasses[d]
      /\ DeviceClasses[d] \in Classes /\ design.class[Statement.output] \in Classes
      /\ design.cloudFloor \in Classes /\ design.clearance[d] \subseteq Classes
      /\ d \in design.cloud => shown < design.cloudFloor
      /\ \A clearance \in design.clearance[d] : shown <= clearance
  BY <1>1, RunningPart, CallsAreRight
<1>4. frame.part = "body" => shown <= LateContext(frame.process) /\ LateContext(frame.process) \in Classes
  BY <1>1, RunningPart, SitesAreChecked, ContextsAreClasses
<1> HIDE DEF shown, d
<1>5. Stores(Revealing, Statement.output)
  BY <1>2, <1>3, ClassesCompare DEF Stores
<1>6. Revealing <= DeviceClasses[d]
  BY <1>2, <1>3, ClassesCompare
<1>7. frame.part = "body" => Revealing <= LateContext(frame.process)
  BY <1>2, <1>4, ClassesCompare
<1>8. d \in design.cloud => Revealing < design.cloudFloor
  BY <1>2, <1>3, ClassNumbers
<1>9. \A clearance \in design.clearance[d] : Revealing <= clearance
  BY <1>2, <1>3, ClassesCompare
<1>10. Tells(d)
  BY <1>6 DEF Tells, EventBound
<1> QED BY <1>5, <1>7, <1>8, <1>9, <1>10 DEF d

LEMMA ReleaseIsSeen ==
    ASSUME Shape, FromSource, FlowInv, frame.at \in Busy, frame.todo # <<>>,
           Statement.kind = "declassify", Statement.using \in DOMAIN design.declassifiers
    PROVE  /\ Stores(ReleasedClass, Statement.target) /\ Tells(Statement.using)
           /\ Revealing \in Classes
           /\ frame.part = "body" => Revealing <= LateContext(frame.process)
           /\ LabelOf(Given(Statement)) <= Declassifier.from
           /\ Declassifier.approval => Revealing <= Declassifier.from
<1>1. PICK o : Seen(o)
  BY NextIsSeen
<1> DEFINE shown == Shown(frame.process, frame.part, o)
           d == Statement.using
           target == design.class[Statement.target]
           static == SiteAt(frame.process, frame.part, o).context
<1>2. Revealing \in Classes /\ Revealing <= shown /\ shown \in Classes
      /\ Context \in Classes /\ Context <= static
  BY <1>1, RevealingIsSeen, ContextIsSeen
<1>3. /\ Declassifier.to \in Classes /\ Declassifier.to <= target /\ target \in Classes
      /\ shown <= DeviceClasses[d] /\ DeviceClasses[d] \in Classes
      /\ ~Declassifier.approval => static <= target
      /\ Declassifier.from \in Classes /\ ClassOfExpr(ScopeOf(source), Given(Statement)) <= Declassifier.from
      /\ Declassifier.approval => static <= Declassifier.from
  BY <1>1, RunningPart, ReleasesAreRight DEF Declassifier, Given
<1>4. /\ frame.part = "body" => shown <= LateContext(frame.process) /\ LateContext(frame.process) \in Classes
      /\ static \in Classes
  BY <1>1, RunningPart, SitesAreChecked, ContextsAreClasses
<1> HIDE DEF shown, d, target, static
<1>5. Revealing <= DeviceClasses[d]
  BY <1>2, <1>3, ClassesCompare
<1>6. frame.part = "body" => Revealing <= LateContext(frame.process)
  BY <1>2, <1>4, ClassesCompare
<1>7. Tells(d)
  BY <1>5 DEF Tells, EventBound
<1>8. ReleasedClass \in Classes /\ ReleasedClass <= target
  <2>1. CASE Declassifier.approval
    BY <1>3, <2>1 DEF ReleasedClass
  <2>2. CASE ~Declassifier.approval
    <3>1. {Declassifier.to, Context} \in SUBSET Classes
      BY <1>2, <1>3
    <3>2. Context <= target
      BY <1>2, <1>3, <1>4, <2>2, ClassesCompare
    <3>3. ReleasedClass = Strongest({Declassifier.to, Context})
      BY <2>2 DEF ReleasedClass
    <3> QED BY <1>3, <3>1, <3>2, <3>3, StrongestIsLeast
  <2> QED BY <2>1, <2>2
<1>9. LabelOf(Given(Statement)) <= Declassifier.from
  <2> DEFINE given == Given(Statement)
             class == ClassOfExpr(ScopeOf(source), given)
  <2>1. LabelOf(given) \in Classes /\ LabelOf(given) <= class
    BY LabelsAreBounded DEF FlowInv
  <2>2. class \in Classes
    BY ScopeIsRight, ExpressionClasses DEF Rated
  <2>3. class <= Declassifier.from
    BY <1>3
  <2> HIDE DEF given, class
  <2>4. LabelOf(given) <= Declassifier.from
    BY <1>3, <2>1, <2>2, <2>3, ClassesCompare
  <2> QED BY <2>4 DEF given
<1>10. Declassifier.approval => Revealing <= Declassifier.from
  <2> SUFFICES ASSUME Declassifier.approval PROVE Revealing <= Declassifier.from
    OBVIOUS
  <2>1. Context <= Declassifier.from
    BY <1>2, <1>3, <1>4, ClassesCompare
  <2>2. LabelOf(Given(Statement)) \in Classes
    BY LabelsAreBounded DEF FlowInv
  <2>3. Revealing = Strongest({LabelOf(Given(Statement)), Context})
    BY DEF Revealing
  <2>4. {LabelOf(Given(Statement)), Context} \in SUBSET Classes
    BY <1>2, <2>2
  <2> QED BY <1>3, <1>9, <2>1, <2>3, <2>4, StrongestIsLeast
<1> QED BY <1>2, <1>3, <1>6, <1>7, <1>8, <1>9, <1>10 DEF Stores, d, target

-----------------------------------------------------------------------------
(* The statements that store or raise.                                     *)
MarkedBy(signals, raised, c) ==
    [signals |-> flow.own.signals \o signals,
     events |-> Joining(flow.own.events, [e \in raised |-> c])]

LEMMA GoingOn ==
    ASSUME FlowInv, NEW own, Go([flow EXCEPT !.own = own])
    PROVE  /\ SameFields({"label", "heard", "collected", "base", "made"})
           /\ flow'.own = own /\ flow'.scopes = Enclosing(flow.scopes)
BY DEF Go, FlowInv, FlowOk, FlowFields, SameFields

LEMMA OnlyClasses ==
    ASSUME NEW c \in Classes
    PROVE  /\ [k \in 1..1 |-> c] = <<c>> /\ [k \in 1..0 |-> c] = <<>>
           /\ <<c>> \in Seq(Classes) /\ Len(<<c>>) = 1
OBVIOUS

LEMMA StoringFlows ==
    ASSUME Shape, FromSource, FlowInv, frame.at \in Busy, frame.todo # <<>>,
           NEW s \in Signals, NEW v \in Values, NEW class, Stores(class, s),
           NEW raised \in SUBSET PartEvents, NEW c \in Classes, \A e \in raised : c <= EventBound(e),
           frame' = Step(Drive(Raise(frame.local, raised), s, v, frame.process)),
           Go([flow EXCEPT !.own = MarkedBy(<<class>>, raised, c)]),
           UNCHANGED <<design, source, writes>>
    PROVE  FlowInv'
<1> DEFINE i == frame.process
           entry == [signal |-> s, value |-> v, process |-> i]
           local == Drive(Raise(frame.local, raised), s, v, i)
<1>1. frame.local \in Collected /\ i \in DOMAIN design.processes
  BY StatementsAreOk DEF Shape, FrameOk, Frames
<1>2. local \in Collected
  BY <1>1, Raising, Driving
<1>3. entry \in Entry /\ local = With(frame.local, <<entry>>, raised)
  BY <1>1, WritesAreAdded
<1>4. MarksOk(MarkedBy(<<class>>, raised, c), local)
  <2>1. <<entry>> \in Seq(Entry) /\ Len(<<entry>>) = 1 /\ DOMAIN <<entry>> = {1} /\ <<entry>>[1] = entry
    BY <1>3
  <2>2. <<class>> \in Seq(Classes) /\ Len(<<class>>) = 1 /\ <<class>>[1] = class
    BY DEF Stores
  <2>3. \A k \in DOMAIN <<entry>> : <<class>>[k] <= design.class[<<entry>>[k].signal]
    BY <2>1, <2>2 DEF Stores
  <2> HIDE DEF entry, local
  <2>4. MarksOk(MarkedBy(<<class>>, raised, c), With(frame.local, <<entry>>, raised))
    BY <1>1, <2>1, <2>2, <2>3, MarksAreAdded DEF MarkedBy
  <2> QED BY <1>3, <2>4
<1>5. /\ SameFields({"label", "heard", "collected", "base", "made"})
      /\ flow'.own = MarkedBy(<<class>>, raised, c) /\ flow'.scopes = Enclosing(flow.scopes)
  BY GoingOn
<1>6. frame' = Step(local)
  OBVIOUS
<1> HIDE DEF local
<1> QED BY <1>2, <1>4, <1>5, <1>6, StatementDone

LEMMA RaisingFlows ==
    ASSUME Shape, FromSource, FlowInv, frame.at \in Busy, frame.todo # <<>>,
           NEW raised \in SUBSET PartEvents, NEW c \in Classes, \A e \in raised : c <= EventBound(e),
           frame' = Step(Raise(frame.local, raised)),
           Go([flow EXCEPT !.own = MarkedBy(<<>>, raised, c)]),
           UNCHANGED <<design, source, writes>>
    PROVE  FlowInv'
<1> DEFINE local == Raise(frame.local, raised)
<1>1. frame.local \in Collected
  BY DEF Shape, FrameOk, Frames
<1>2. local \in Collected
  BY <1>1, Raising
<1>3. local = With(frame.local, <<>>, raised)
  BY <1>1, RaisesAreAdded
<1>4. MarksOk(MarkedBy(<<>>, raised, c), local)
  <2>1. <<>> \in Seq(Entry) /\ <<>> \in Seq(Classes) /\ Len(<<>>) = 0 /\ DOMAIN <<>> = {}
    OBVIOUS
  <2> HIDE DEF local
  <2>2. MarksOk(MarkedBy(<<>>, raised, c), With(frame.local, <<>>, raised))
    BY <1>1, <2>1, MarksAreAdded DEF MarkedBy
  <2> QED BY <1>3, <2>2
<1>5. /\ SameFields({"label", "heard", "collected", "base", "made"})
      /\ flow'.own = MarkedBy(<<>>, raised, c) /\ flow'.scopes = Enclosing(flow.scopes)
  BY GoingOn
<1>6. frame' = Step(local)
  OBVIOUS
<1> HIDE DEF local
<1> QED BY <1>2, <1>4, <1>5, <1>6, StatementDone

LEMMA MarkedIsMarkedBy ==
    ASSUME NEW class \in Classes, NEW raised
    PROVE  /\ Marked(class, 1, raised) = [flow EXCEPT !.own = MarkedBy(<<class>>, raised, class)]
           /\ Marked(class, 0, raised) = [flow EXCEPT !.own = MarkedBy(<<>>, raised, class)]
BY OnlyClasses DEF Marked, MarkedBy

LEMMA AssignFlows ==
    ASSUME Shape, FromSource, FlowInv, AssignSignal, Go(Marked(Revealing, 1, {})), source' = source
    PROVE  FlowInv'
<1> DEFINE v == ValueOf(Statement.value, View)
           target == Statement.target
<1>1. /\ frame.at \in Busy /\ frame.todo # <<>> /\ Statement.kind = "assign"
      /\ target \in Signals /\ Statement.value \in Expressions
      /\ frame.process \in DOMAIN design.processes /\ frame.local \in Collected
  BY RunningStatement DEF AssignSignal, StatementOk
<1>2. v \in Values
  BY <1>1, ViewFits DEF AssignSignal
<1>3. Stores(Revealing, target) /\ Revealing \in Classes
  BY <1>1, AssignmentIsSeen DEF Stores
<1>4. /\ frame' = Step(Drive(frame.local, target, v, frame.process))
      /\ UNCHANGED <<design, source, writes>>
  BY DEF AssignSignal
<1> HIDE DEF v, target
<1>5. Drive(frame.local, target, v, frame.process) = Drive(Raise(frame.local, {}), target, v, frame.process)
  <2>1. \A raised : LET entry == [signal |-> target, value |-> v, process |-> frame.process] IN
            /\ Drive(frame.local, target, v, frame.process) = With(frame.local, <<entry>>, {})
            /\ Drive(Raise(frame.local, raised), target, v, frame.process)
                  = With(frame.local, <<entry>>, raised)
    BY <1>1, <1>2, WritesAreAdded
  <2> QED BY <2>1
<1>6. Go([flow EXCEPT !.own = MarkedBy(<<Revealing>>, {}, Revealing)])
  BY <1>3, MarkedIsMarkedBy
<1> QED BY <1>1, <1>2, <1>3, <1>4, <1>5, <1>6, StoringFlows

LEMMA CallSucceedsFlows ==
    ASSUME Shape, FromSource, FlowInv, NEW result \in Results, CallSucceeds(result),
           Go(Marked(Revealing, 1, {<<Statement.device, "done">>})), source' = source
    PROVE  FlowInv'
<1> DEFINE d == Statement.device
           raised == {<<d, "done">>}
<1>1. /\ frame.at \in Busy /\ frame.todo # <<>> /\ Statement.kind = "call"
      /\ d \in Parts /\ Statement.output \in Signals /\ result \in Values
  BY WaitingStatement, ResultsAssumption DEF CallSucceeds, StatementOk, Busy
<1>2. Stores(Revealing, Statement.output) /\ Revealing \in Classes /\ Tells(d)
  BY <1>1, CallIsSeen DEF Stores
<1>3. raised \in SUBSET PartEvents /\ \A e \in raised : Revealing <= EventBound(e)
  BY <1>1, <1>2 DEF PartEvents, Tells
<1>4. /\ frame' = Step(Drive(Raise(frame.local, raised), Statement.output, result, frame.process))
      /\ UNCHANGED <<design, source, writes>>
  BY DEF CallSucceeds
<1>5. Go([flow EXCEPT !.own = MarkedBy(<<Revealing>>, raised, Revealing)])
  BY <1>2, MarkedIsMarkedBy
<1> HIDE DEF raised, d
<1> QED BY <1>1, <1>2, <1>3, <1>4, <1>5, StoringFlows

LEMMA CallEndsFlows ==
    ASSUME Shape, FromSource, FlowInv, NEW whats \in SUBSET {"failed", "timeout"}, CallEnds(whats),
           Go(Marked(Revealing, 0, {<<Statement.device, what>> : what \in whats})), source' = source
    PROVE  FlowInv'
<1> DEFINE d == Statement.device
           raised == {<<d, what>> : what \in whats}
<1>1. /\ frame.at \in Busy /\ frame.todo # <<>> /\ Statement.kind = "call" /\ d \in Parts
  BY WaitingStatement DEF CallEnds, StatementOk, Busy
<1>2. Revealing \in Classes /\ Tells(d)
  BY <1>1, CallIsSeen DEF Stores
<1>3. raised \in SUBSET PartEvents /\ \A e \in raised : Revealing <= EventBound(e)
  <2>1. ASSUME NEW what \in whats
        PROVE  <<d, what>> \in PartEvents /\ Revealing <= EventBound(<<d, what>>)
    BY <1>1, <1>2 DEF PartEvents, Tells
  <2> QED BY <2>1
<1>4. frame' = Step(Raise(frame.local, raised)) /\ UNCHANGED <<design, source, writes>>
  BY DEF CallEnds
<1>5. Go([flow EXCEPT !.own = MarkedBy(<<>>, raised, Revealing)])
  BY <1>2, MarkedIsMarkedBy
<1> HIDE DEF raised, d
<1> QED BY <1>1, <1>2, <1>3, <1>4, <1>5, RaisingFlows

LEMMA ReleaseFlows ==
    ASSUME Shape, FromSource, FlowInv, Release, source' = source,
           LET event == [e \in {<<Statement.using, "done">>} |-> Revealing] IN
           Go([flow EXCEPT !.own = [signals |-> Append(@.signals, ReleasedClass),
                                    events |-> Joining(@.events, event)]])
    PROVE  FlowInv'
<1> DEFINE d == Statement.using
           raised == {<<d, "done">>}
<1>1. /\ frame.at \in Busy /\ frame.todo # <<>> /\ Statement.kind = "declassify"
      /\ d \in DOMAIN design.declassifiers /\ d \in Parts
      /\ Statement.target \in Signals /\ frame.content \in Values
  BY WaitingStatement, DesignsAssumption DEF Release, StatementOk, Busy, Frames, DesignOk, FromSource
<1>2. Stores(ReleasedClass, Statement.target) /\ Revealing \in Classes /\ Tells(d)
  BY <1>1, ReleaseIsSeen
<1>3. raised \in SUBSET PartEvents /\ \A e \in raised : Revealing <= EventBound(e)
  BY <1>1, <1>2 DEF PartEvents, Tells
<1>4. /\ frame' = Step(Drive(Raise(frame.local, raised), Statement.target, frame.content, frame.process))
      /\ UNCHANGED <<design, source, writes>>
  BY DEF Release
<1>5. Go([flow EXCEPT !.own = MarkedBy(<<ReleasedClass>>, raised, Revealing)])
  <2>1. flow.own.signals \in Seq(Classes)
    BY <1>1 DEF FlowInv, RunningOk, MarksOk
  <2>2. Append(flow.own.signals, ReleasedClass) = flow.own.signals \o <<ReleasedClass>>
    BY <1>2, <2>1 DEF Stores
  <2> QED BY <2>2 DEF MarkedBy
<1> HIDE DEF raised, d
<1> QED BY <1>1, <1>2, <1>3, <1>4, <1>5, StoringFlows

LEMMA RefuseFlows ==
    ASSUME Shape, FromSource, FlowInv, RefuseRelease, source' = source,
           Go(Marked(Revealing, 0, {<<Statement.using, "failed">>}))
    PROVE  FlowInv'
<1> DEFINE d == Statement.using
           raised == {<<d, "failed">>}
<1>1. /\ frame.at \in Busy /\ frame.todo # <<>> /\ Statement.kind = "declassify"
      /\ d \in DOMAIN design.declassifiers /\ d \in Parts
  BY WaitingStatement, DesignsAssumption DEF RefuseRelease, StatementOk, Busy, DesignOk, FromSource
<1>2. Revealing \in Classes /\ Tells(d)
  BY <1>1, ReleaseIsSeen
<1>3. raised \in SUBSET PartEvents /\ \A e \in raised : Revealing <= EventBound(e)
  BY <1>1, <1>2 DEF PartEvents, Tells
<1>4. frame' = Step(Raise(frame.local, raised)) /\ UNCHANGED <<design, source, writes>>
  BY DEF RefuseRelease
<1>5. Go([flow EXCEPT !.own = MarkedBy(<<>>, raised, Revealing)])
  BY <1>2, MarkedIsMarkedBy
<1> HIDE DEF raised, d
<1> QED BY <1>1, <1>2, <1>3, <1>4, <1>5, RaisingFlows

-----------------------------------------------------------------------------
(* The statements that lead into a block, and those that call: on both the *)
(* writes of the process stay as they are.                                 *)
LEMMA InnerIsCovered ==
    ASSUME Shape, FromSource, frame.at \in Busy, NEW o, Seen(o),
           NEW block \in Blocks(Statement), NEW s \in ToSet(block)
    PROVE  LET inner == [statement |-> s, under |-> o.under \cup Conditions(Statement)] IN
           /\ inner \in Occurrences(Block(frame.process, frame.part))
           /\ UnderClass(o) <= UnderClass(inner)
           /\ Strongest({ClassOfExpr(ScopeOf(source), c) : c \in Conditions(Statement)})
                 <= UnderClass(inner)
<1> DEFINE inner == [statement |-> s, under |-> o.under \cup Conditions(Statement)]
           all == Occurrences(Block(frame.process, frame.part))
           Of(C) == {ClassOfExpr(ScopeOf(source), c) : c \in C}
<1>1. frame.process \in DOMAIN design.processes /\ frame.part \in {"body", "on timeout"}
      /\ o \in all /\ o.statement = Statement
  BY RunningPart
<1>2. \A outer \in all : Inner(outer) \subseteq all
  BY <1>1, BlocksAreOk DEF BlockOk, Nests
<1>3. inner \in Inner(o)
  BY <1>1 DEF Inner
<1>4. \A C : Of(C) \in SUBSET Classes
  BY ScopeIsRight, ExpressionClasses DEF Rated
<1>5. ASSUME NEW C, NEW D, C \subseteq D PROVE Strongest(Of(C)) <= Strongest(Of(D))
  <2>1. \A b \in Of(C) : b \in Classes /\ b \in Of(D)
    BY <1>4, <1>5
  <2>2. \A b \in Of(C) : \E c \in Of(D) : b <= c
    BY <2>1, ClassesCompare
  <2> HIDE DEF Of
  <2> QED BY <1>4, <2>2, StrongestRises
<1>6. UnderClass(o) = Strongest(Of(o.under)) /\ UnderClass(inner) = Strongest(Of(inner.under))
  BY DEF UnderClass
<1>7. o.under \subseteq inner.under /\ Conditions(Statement) \subseteq inner.under
  OBVIOUS
<1>8. Strongest(Of(o.under)) <= Strongest(Of(inner.under))
      /\ Strongest(Of(Conditions(Statement))) <= Strongest(Of(inner.under))
  <2> HIDE DEF Of, inner
  <2> QED BY <1>5, <1>7
<1> QED BY <1>1, <1>2, <1>3, <1>6, <1>8

LEMMA BlockIsCovered ==
    ASSUME Shape, FromSource, FlowInv, frame.at \in Busy, frame.todo # <<>>,
           NEW block \in Blocks(Statement), frame' = [frame EXCEPT !.todo = block \o Tail(@)],
           NEW c \in Classes,
           c <= Strongest({ClassOfExpr(ScopeOf(source), d) : d \in Conditions(Statement)}),
           NEW entered \in SUBSET {[after |-> Len(frame.todo) - 1, class |-> c]}
    PROVE  ScopesOk(Enclosing(flow.scopes \cup entered), frame')
<1> DEFINE todo == frame.todo
           next == block \o Tail(todo)
           new == [after |-> Len(todo) - 1, class |-> c]
           scopes == Enclosing(flow.scopes \cup entered)
           occurring == Occurrences(Block(frame.process, frame.part))
<1>1. /\ todo \in Seq(Within) /\ todo # <<>> /\ block \in Seq(Within)
      /\ frame'.todo = next /\ frame'.process = frame.process /\ frame'.part = frame.part
  BY StatementsAreOk DEF Shape, FrameOk, Frames
<1>2. /\ Len(next) = Len(block) + Len(todo) - 1
      /\ Len(todo) \in Nat /\ Len(todo) >= 1 /\ Len(block) \in Nat
  BY <1>1
<1>3. ASSUME NEW k \in DOMAIN next
      PROVE  /\ k \in Nat
             /\ \/ k \in DOMAIN block /\ next[k] = block[k]
                \/ /\ k > Len(block) /\ k - Len(block) + 1 \in DOMAIN todo
                   /\ next[k] = todo[k - Len(block) + 1]
  <2>1. Tail(todo) \in Seq(Within) /\ Len(Tail(todo)) = Len(todo) - 1
    BY <1>1
  <2>2. \A j \in 1..Len(todo) - 1 : Tail(todo)[j] = todo[j + 1]
    BY <1>1
  <2>3. k \in 1..Len(block) + (Len(todo) - 1)
    BY <1>1, <1>2, <2>1
  <2>4. CASE k <= Len(block)
    BY <1>1, <1>2, <2>1, <2>3, <2>4
  <2>5. CASE k > Len(block)
    <3>1. next[k] = Tail(todo)[k - Len(block)]
      BY <1>1, <1>2, <2>1, <2>3, <2>5
    <3>2. k - Len(block) \in 1..Len(todo) - 1
      BY <1>2, <2>3, <2>5
    <3>3. next[k] = todo[k - Len(block) + 1] /\ k - Len(block) + 1 \in 1..Len(todo)
      BY <1>2, <2>2, <3>1, <3>2
    <3> QED BY <1>1, <2>3, <2>5, <3>3
  <2> QED BY <1>2, <2>3, <2>4, <2>5
<1>4. /\ flow.scopes \subseteq [after : Nat, class : Classes]
      /\ \A scope \in flow.scopes : scope.after < Len(todo)
      /\ \A k \in DOMAIN todo : \E o \in occurring :
            o.statement = todo[k] /\ Covers(Around(flow.scopes, todo, k), o)
  BY DEF FlowInv, RunningOk, ScopesOk
<1>5. new \in [after : Nat, class : Classes] /\ new.after = Len(todo) - 1 /\ new.class = c
  BY <1>2
<1>6. PICK here : Seen(here)
  BY NextIsSeen
<1> HIDE DEF next, new, occurring
<1>7. /\ scopes \subseteq flow.scopes \cup {new} /\ \A scope \in scopes : scope.after < Len(next)
      /\ scopes \subseteq [after : Nat, class : Classes]
  BY <1>1, <1>4, <1>5 DEF Enclosing, new
<1> HIDE DEF scopes, todo
<1>8. ASSUME NEW k \in DOMAIN next
      PROVE  \E o \in occurring : o.statement = next[k] /\ Covers(Around(scopes, next, k), o)
  <2>1. CASE k \in DOMAIN block /\ next[k] = block[k]
    <3> DEFINE inner == [statement |-> block[k], under |-> here.under \cup Conditions(Statement)]
    <3>1. block[k] \in ToSet(block)
      BY <2>1 DEF ToSet
    <3>2. /\ inner \in occurring /\ UnderClass(here) <= UnderClass(inner)
          /\ Strongest({ClassOfExpr(ScopeOf(source), d) : d \in Conditions(Statement)}) <= UnderClass(inner)
      BY <1>6, <3>1, InnerIsCovered DEF occurring
    <3>3. UnderClass(here) \in Classes /\ UnderClass(inner) \in Classes
      BY UnderClasses
    <3>4. {ClassOfExpr(ScopeOf(source), d) : d \in Conditions(Statement)} \in SUBSET Classes
      BY ScopeIsRight, ExpressionClasses DEF Rated
    <3>5. c <= UnderClass(inner)
      <4>1. Strongest({ClassOfExpr(ScopeOf(source), d) : d \in Conditions(Statement)}) \in Classes
        BY <3>4, StrongestIsLeast
      <4> QED BY <3>2, <3>3, <4>1, ClassesCompare
    <3>6. inner.statement = next[k]
      BY <2>1
    <3> HIDE DEF inner
    <3>7. ASSUME NEW scope \in flow.scopes PROVE scope.class <= UnderClass(inner)
      <4>1. scope.class \in Classes
        BY <1>4
      <4>2. scope.class <= UnderClass(here)
        BY <1>6 DEF Seen, Covers
      <4> QED BY <3>2, <3>3, <4>1, <4>2, ClassesCompare
    <3>8. Covers(Around(scopes, next, k), inner)
      BY <1>5, <1>7, <3>5, <3>7 DEF Covers, Around
    <3> QED BY <3>2, <3>6, <3>8
  <2>2. CASE /\ k > Len(block) /\ k - Len(block) + 1 \in DOMAIN todo
             /\ next[k] = todo[k - Len(block) + 1]
    <3> DEFINE j == k - Len(block) + 1
    <3>1. PICK o \in occurring : o.statement = todo[j] /\ Covers(Around(flow.scopes, todo, j), o)
      BY <1>4, <2>2
    <3>2. ASSUME NEW scope \in scopes, scope.after + k <= Len(next)
          PROVE  scope \in flow.scopes /\ scope.after + j <= Len(todo)
      <4>1. scope.after \in Nat
        BY <1>7
      <4>2. scope.after + j <= Len(todo)
        BY <1>2, <1>3, <3>2, <4>1
      <4>3. scope.after # Len(todo) - 1
        BY <1>2, <1>3, <2>2, <4>1, <4>2
      <4> QED BY <1>5, <1>7, <4>2, <4>3
    <3>3. Around(scopes, next, k) \subseteq Around(flow.scopes, todo, j)
      BY <3>2 DEF Around
    <3> QED BY <2>2, <3>1, <3>3 DEF Covers
  <2> QED BY <1>3, <2>1, <2>2
<1> QED BY <1>1, <1>7, <1>8 DEF ScopesOk, scopes, next, occurring

LEMMA BlockEntered ==
    ASSUME Shape, FromSource, FlowInv, frame.at \in Busy, frame.todo # <<>>,
           NEW block \in Blocks(Statement), frame' = [frame EXCEPT !.todo = block \o Tail(@)],
           NEW c \in Classes,
           c <= Strongest({ClassOfExpr(ScopeOf(source), d) : d \in Conditions(Statement)}),
           NEW entered \in SUBSET {[after |-> Len(frame.todo) - 1, class |-> c]},
           Go([flow EXCEPT !.scopes = @ \cup entered]), UNCHANGED <<design, source, writes>>
    PROVE  FlowInv'
<1>1. /\ SameFields({"label", "heard", "collected", "base", "made", "own"})
      /\ flow'.scopes = Enclosing(flow.scopes \cup entered)
  BY DEF Go, FlowInv, FlowOk, FlowFields, SameFields
<1>2. FlowOk(flow', writes')
  BY <1>1, ValuesKept DEF FlowInv, SameFields
<1>3. /\ frame'.at = frame.at /\ frame'.process = frame.process /\ frame'.part = frame.part
      /\ frame'.local = frame.local
  BY DEF Shape, FrameOk, Frames
<1>4. MarksOk(flow'.own, frame'.local) /\ ContextOk(flow', frame')
  BY <1>1, <1>3 DEF FlowInv, RunningOk, ContextOk, SameFields
<1>5. ScopesOk(flow'.scopes, frame')
  BY <1>1, BlockIsCovered
<1> QED BY <1>2, <1>4, <1>5, CheckerStays DEF RunningOk

LEMMA BranchFlows ==
    ASSUME Shape, FromSource, FlowInv, Branch, source' = source,
           Go([flow EXCEPT !.scopes =
                  @ \cup {[after |-> Len(frame.todo) - 1,
                           class |-> Strongest({LabelOf(c) : c \in Conditions(Statement)})]}])
    PROVE  FlowInv'
<1> DEFINE S == {LabelOf(c) : c \in Conditions(Statement)}
           T == {ClassOfExpr(ScopeOf(source), c) : c \in Conditions(Statement)}
<1>1. frame.at \in Busy /\ frame.todo # <<>> /\ Running("if")
  BY RunningStatement DEF Branch
<1>2. Chosen(Statement, View) \in Blocks(Statement)
  BY <1>1, ChosenFits
<1>3. S \in SUBSET Classes /\ T \in SUBSET Classes
  BY LabelsAreBounded, ScopeIsRight, ExpressionClasses DEF FlowInv, Rated
<1>4. \A b \in S : \E c \in T : b <= c
  BY LabelsAreBounded DEF FlowInv
<1>5. /\ frame' = [frame EXCEPT !.todo = Chosen(Statement, View) \o Tail(@)]
      /\ UNCHANGED <<design, source, writes>>
  BY DEF Branch
<1>6. Go([flow EXCEPT !.scopes = @ \cup {[after |-> Len(frame.todo) - 1, class |-> Strongest(S)]}])
  OBVIOUS
<1> HIDE DEF S
<1>7. Strongest(S) \in Classes /\ Strongest(S) <= Strongest(T)
  <2> HIDE DEF T
  <2> QED BY <1>3, <1>4, StrongestIsLeast, StrongestRises
<1> QED BY <1>1, <1>2, <1>5, <1>6, <1>7, BlockEntered

LEMMA ParallelFlows ==
    ASSUME Shape, FromSource, FlowInv, ParallelCalls, source' = source, Go(flow)
    PROVE  FlowInv'
<1>1. frame.at \in Busy /\ frame.todo # <<>> /\ Statement.kind = "parallel"
  BY RunningStatement DEF ParallelCalls
<1>2. Statement.calls \in Blocks(Statement)
  BY <1>1 DEF Blocks
<1>3. /\ frame' = [frame EXCEPT !.todo = Statement.calls \o Tail(@)]
      /\ UNCHANGED <<design, source, writes>>
  BY DEF ParallelCalls
<1>4. Go([flow EXCEPT !.scopes = @ \cup {}])
  BY DEF Go, FlowInv, FlowOk, FlowFields
<1>5. Public \in Classes
      /\ Public <= Strongest({ClassOfExpr(ScopeOf(source), d) : d \in Conditions(Statement)})
  <2>1. {ClassOfExpr(ScopeOf(source), d) : d \in Conditions(Statement)} \in SUBSET Classes
    BY ScopeIsRight, ExpressionClasses DEF Rated
  <2> QED BY <2>1, StrongestIsLeast, ClassesCompare, ClassNumbers
<1> QED BY <1>1, <1>2, <1>3, <1>4, <1>5, BlockEntered

LEMMA AssertFlows ==
    ASSUME Shape, FromSource, FlowInv, CheckAssertion, source' = source, Go(flow)
    PROVE  FlowInv'
<1>1. frame.at \in Busy /\ frame.todo # <<>> /\ frame.local \in Collected
  BY RunningStatement DEF CheckAssertion
<1>2. frame' = Step(frame.local) /\ UNCHANGED <<design, source, writes>>
  BY DEF CheckAssertion
<1>3. /\ SameFields({"label", "heard", "collected", "base", "made", "own"})
      /\ flow'.scopes = Enclosing(flow.scopes)
  BY DEF Go, FlowInv, FlowOk, FlowFields, SameFields
<1>4. MarksOk(flow'.own, frame.local)
  BY <1>1, <1>3 DEF FlowInv, RunningOk, SameFields
<1>5. SameFields({"label", "heard", "collected", "base", "made"})
  BY <1>3 DEF SameFields
<1> QED BY <1>1, <1>2, <1>3, <1>4, <1>5, StatementDone

(* The interpreter waits, or rests, at the same statement.                 *)
LEMMA SamePlace ==
    ASSUME FlowInv, frame.at \in Busy, SameFields({"label", "heard", "collected", "base", "scopes", "own"}),
           ContextOk(flow', frame'),
           frame'.process = frame.process, frame'.part = frame.part,
           frame'.todo = frame.todo, frame'.local = frame.local, UNCHANGED <<design, source, writes>>
    PROVE  FlowInv'
<1>1. FlowOk(flow', writes')
  BY ValuesKept DEF FlowInv, SameFields
<1>2. MarksOk(flow'.own, frame'.local) /\ ScopesOk(flow'.scopes, frame')
  BY DEF FlowInv, RunningOk, SameFields, ScopesOk
<1> QED BY <1>1, <1>2, CheckerStays DEF RunningOk

LEMMA CallFlows ==
    ASSUME Shape, FromSource, FlowInv, CallDevice \/ Declassify, source' = source,
           flow' = [flow EXCEPT !.made = Strongest({@, Revealing})]
    PROVE  FlowInv'
<1>1. /\ frame.at \in Busy /\ frame.todo # <<>>
      /\ \/ Statement.kind = "call" /\ Statement.device \in Parts
         \/ Statement.kind = "declassify" /\ Statement.using \in DOMAIN design.declassifiers
  BY RunningStatement DEF CallDevice, Declassify, StatementOk
<1>2. Revealing \in Classes /\ (frame.part = "body" => Revealing <= LateContext(frame.process))
  BY <1>1, CallIsSeen, ReleaseIsSeen DEF Stores
<1>3. /\ SameFields({"label", "heard", "collected", "base", "scopes", "own"})
      /\ flow'.made = Strongest({flow.made, Revealing})
  BY DEF FlowInv, FlowOk, FlowFields, SameFields
<1>4. ContextOk(flow, frame)
  BY <1>1 DEF FlowInv, RunningOk
<1>5. LateContext(frame.process) \in Classes
  BY <1>1, StatementsAreOk, ContextsAreClasses
<1>6. flow'.made \in Classes /\ (frame.part = "body" => flow'.made <= LateContext(frame.process))
  <2>1. {flow.made, Revealing} \in SUBSET Classes
    BY <1>2, <1>4 DEF ContextOk
  <2> QED BY <1>2, <1>3, <1>4, <1>5, <2>1, StrongestIsLeast DEF ContextOk
<1>7. /\ frame'.process = frame.process /\ frame'.part = frame.part
      /\ frame'.todo = frame.todo /\ frame'.local = frame.local
      /\ UNCHANGED <<design, source, writes>>
  BY DEF CallDevice, Declassify, AskOrRelease, Shape, FrameOk, Frames
<1>8. ContextOk(flow', frame')
  BY <1>3, <1>4, <1>6, <1>7 DEF ContextOk, SameFields
<1> QED BY <1>1, <1>3, <1>7, <1>8, SamePlace

-----------------------------------------------------------------------------
(* A body or a handler starts.                                             *)
LEMMA NothingIsMarked == FlowOk(flow, writes) => MarksOk(NoMarks, NoWrites)
BY DEF MarksOk, NoMarks, NoWrites, Bounded

LEMMA StartIsCovered ==
    ASSUME NEW fr, fr.todo = Block(fr.process, fr.part) PROVE ScopesOk({}, fr)
<1> DEFINE block == Block(fr.process, fr.part)
<1>1. ASSUME NEW k \in DOMAIN block
      PROVE  \E o \in Occurrences(block) : o.statement = block[k] /\ Covers(Around({}, block, k), o)
  <2> DEFINE o == [statement |-> block[k], under |-> {}]
  <2>1. o \in Outermost(block)
    BY DEF Outermost, ToSet
  <2>2. o \in Occurrences(block)
    BY <2>1, OutermostOccur
  <2> QED BY <2>2 DEF Covers, Around
<1> QED BY <1>1 DEF ScopesOk

LEMMA TimesOutFlows ==
    ASSUME Shape, FromSource, FlowInv, ProcessTimesOut, source' = source,
           Go([flow EXCEPT !.base = Strongest({@, flow.made}), !.scopes = {}, !.own = NoMarks])
    PROVE  FlowInv'
<1> DEFINE i == frame.process
<1>1. frame.at \in Busy /\ frame.part = "body" /\ frame' = Handler(i, NoWrites)
      /\ UNCHANGED <<design, source, writes>>
  BY DEF ProcessTimesOut, MayTimeOut, Busy
<1>2. /\ frame'.at = "running" /\ frame'.process = i /\ frame'.part = "on timeout"
      /\ frame'.local = NoWrites /\ frame'.todo = Block(i, "on timeout")
  BY <1>1 DEF Handler, At, Block
<1>3. /\ SameFields({"label", "heard", "collected", "made"})
      /\ flow'.base = Strongest({flow.base, flow.made})
      /\ flow'.own = NoMarks /\ flow'.scopes = Enclosing({})
  BY DEF Go, FlowInv, FlowOk, FlowFields, SameFields
<1>4. FlowOk(flow', writes')
  BY <1>1, <1>3, ValuesKept DEF FlowInv, SameFields
<1>5. i \in DOMAIN design.processes
  BY <1>1, StatementsAreOk
<1>6. /\ BodyContext(i) \in Classes /\ LateContext(i) \in Classes /\ BodyContext(i) <= LateContext(i)
  BY <1>5, ContextsAreClasses
<1>7. /\ flow.base \in Classes /\ flow.base <= BodyContext(i)
      /\ flow.made \in Classes /\ flow.made <= LateContext(i)
  BY <1>1 DEF FlowInv, RunningOk, ContextOk, Base
<1>8. flow'.base \in Classes /\ flow'.base <= LateContext(i)
  <2>1. {flow.base, flow.made} \in SUBSET Classes
    BY <1>7
  <2>2. flow.base <= LateContext(i)
    BY <1>6, <1>7, ClassesCompare
  <2> QED BY <1>3, <1>6, <1>7, <2>1, <2>2, StrongestIsLeast
<1>9. ContextOk(flow', frame')
  BY <1>2, <1>3, <1>7, <1>8 DEF ContextOk, Base, SameFields
<1>10. ScopesOk(flow'.scopes, frame')
  <2>1. flow'.scopes = {}
    BY <1>3 DEF Enclosing
  <2> QED BY <1>2, <2>1, StartIsCovered
<1>11. MarksOk(flow'.own, frame'.local)
  BY <1>2, <1>3, NothingIsMarked DEF FlowInv
<1> QED BY <1>1, <1>4, <1>9, <1>10, <1>11, CheckerStays DEF RunningOk

(* A process is woken by events no stronger than its context.              *)
LEMMA WakingFlows ==
    ASSUME Shape, FromSource, FlowInv, NEW i \in Nat, NEW raised, frame' = FrameAfter(i, raised),
           NEW collected, MarksOk(collected, writes'), flow' = Waking(flow.heard, collected),
           UNCHANGED <<design, source>>
    PROVE  FlowInv'
<1> DEFINE next == frame'.process
           base == Strongest({flow.heard[e] : e \in DOMAIN flow.heard \cap design.processes[next].sensitivity})
<1>1. /\ DOMAIN flow' = FlowFields /\ flow'.label = flow.label /\ flow'.heard = flow.heard
      /\ flow'.collected = collected /\ flow'.own = NoMarks /\ flow'.made = Public
      /\ flow'.scopes = {} /\ flow'.base = IF frame'.at # "running" THEN Public ELSE base
  BY DEF Waking, FlowInv, FlowOk, FlowFields
<1>2. FlowOk(flow', writes')
  BY <1>1 DEF FlowInv, FlowOk
<1>3. SUFFICES ASSUME frame'.at \in Busy PROVE RunningOk(flow', frame')
  BY <1>2, CheckerStays DEF RunningOk
<1>4. frame' = Body(next) /\ next \in DOMAIN design.processes
      /\ frame'.at = "running" /\ frame'.part = "body" /\ frame'.local = NoWrites
  BY <1>3, FrameAfterFits, NextIsFirst DEF FrameAfter, At, Busy, Body
<1>5. MarksOk(flow'.own, frame'.local)
  BY <1>1, <1>4, NothingIsMarked DEF FlowInv
<1>6. ScopesOk(flow'.scopes, frame')
  <2>1. frame'.todo = Block(next, "body")
    BY <1>4 DEF Body, At, Block
  <2> QED BY <1>1, <1>4, <2>1, StartIsCovered
<1>7. BodyContext(next) \in Classes /\ LateContext(next) \in Classes
  BY <1>4, ContextsAreClasses
<1>8. flow'.base \in Classes /\ flow'.base <= BodyContext(next)
  <2> DEFINE S == {flow.heard[e] : e \in DOMAIN flow.heard \cap design.processes[next].sensitivity}
  <2>1. ASSUME NEW e \in DOMAIN flow.heard \cap design.processes[next].sensitivity
        PROVE  flow.heard[e] \in Classes /\ flow.heard[e] <= BodyContext(next)
    <3>1. flow.heard[e] \in Classes /\ flow.heard[e] <= EventBound(e)
      BY DEF FlowInv, FlowOk, Bounded
    <3>2. EventBound(e) \in Classes /\ EventBound(e) <= BodyContext(next)
      BY <1>4, TriggersAreBounded
    <3> QED BY <1>7, <3>1, <3>2, ClassesCompare
  <2>2. S \in SUBSET Classes /\ \A c \in S : c <= BodyContext(next)
    BY <2>1
  <2>3. flow'.base = Strongest(S)
    BY <1>1, <1>4
  <2> HIDE DEF S
  <2> QED BY <1>7, <2>2, <2>3, StrongestIsLeast
<1>9. ContextOk(flow', frame')
  BY <1>1, <1>4, <1>7, <1>8, ClassesCompare, ClassNumbers DEF ContextOk, Base
<1> QED BY <1>5, <1>6, <1>9 DEF RunningOk

LEMMA BeginFlows ==
    ASSUME Shape, FromSource, FlowInv, BeginDelta, source' = source, flow' = Waking(flow.heard, NoMarks)
    PROVE  FlowInv'
<1>1. frame' = FrameAfter(0, events) /\ writes' = NoWrites /\ UNCHANGED <<design, source>>
  BY DEF BeginDelta
<1>2. MarksOk(NoMarks, writes')
  BY <1>1, NothingIsMarked DEF FlowInv
<1> QED BY <1>1, <1>2, WakingFlows

LEMMA EndFlows ==
    ASSUME Shape, FromSource, FlowInv, ProcessEnds, source' = source,
           flow' = Waking(flow.heard,
                          [signals |-> flow.collected.signals \o flow.own.signals,
                           events |-> Joining(flow.collected.events, flow.own.events)])
    PROVE  FlowInv'
<1>1. /\ frame.at \in Busy /\ frame.process \in Nat /\ frame' = FrameAfter(frame.process, current)
      /\ writes' = Merge(writes, frame.local) /\ UNCHANGED <<design, source>>
  BY EndsProcess DEF ProcessEnds
<1>2. MarksOk(flow.collected, writes) /\ MarksOk(flow.own, frame.local)
  BY <1>1 DEF FlowInv, FlowOk, RunningOk
<1>3. writes.signals \in Seq(Entry) /\ frame.local.signals \in Seq(Entry)
  BY DEF Shape, FrameOk, Frames, Collected
<1> DEFINE collected == [signals |-> flow.collected.signals \o flow.own.signals,
                         events |-> Joining(flow.collected.events, flow.own.events)]
<1>4. MarksOk(collected, writes')
  BY <1>1, <1>2, <1>3, MarksJoin DEF Merge
<1> HIDE DEF collected
<1>5. flow' = Waking(flow.heard, collected)
  BY DEF collected
<1> QED BY <1>1, <1>4, <1>5, WakingFlows

-----------------------------------------------------------------------------
(* The end of a delta, and what happens between deltas.                    *)
LEMMA NobodyRunning ==
    ASSUME FlowOk(flow', writes'), frame'.at \notin Busy, UNCHANGED <<design, source>> PROVE FlowInv'
BY CheckerStays DEF RunningOk

LEMMA TicksFlow ==
    ASSUME Shape, FlowInv, FireTimers, source' = source,
           flow' = [flow EXCEPT !.heard = [e \in events' |-> Public]]
    PROVE  FlowInv'
<1>1. events' = {<<t, "tick">> : t \in DueTimers(nextTick)} /\ frame' = At("admitting")
      /\ UNCHANGED <<design, source, writes>>
  BY DEF FireTimers
<1>2. /\ DOMAIN flow' = FlowFields /\ flow'.label = flow.label /\ flow'.collected = flow.collected
      /\ flow'.heard = [e \in events' |-> Public]
  BY DEF FlowInv, FlowOk, FlowFields
<1>3. \A e \in events' : Public \in Classes /\ Public <= EventBound(e)
  BY <1>1, ClassNumbers DEF EventBound
<1>4. Bounded(flow'.heard)
  BY <1>2, <1>3 DEF Bounded
<1>5. FlowOk(flow', writes')
  BY <1>1, <1>2, <1>4 DEF FlowInv, FlowOk
<1>6. frame'.at \notin Busy
  BY <1>1, AtFields DEF Busy
<1> QED BY <1>1, <1>5, <1>6, NobodyRunning

LEMMA LabelsAreCommitted ==
    ASSUME Shape, FromSource, FlowInv
    PROVE  /\ LabelsAfter \in [Signals -> Classes]
           /\ \A s \in Signals : LabelsAfter[s] <= design.class[s]
<1> DEFINE signals == writes.signals
           marks == flow.collected.signals
<1>1. signals \in Seq(Entry)
  BY DEF Shape, Collected
<1>2. /\ marks \in Seq(Classes) /\ Len(marks) = Len(signals)
      /\ \A k \in DOMAIN signals : marks[k] <= design.class[signals[k].signal]
  BY DEF FlowInv, FlowOk, MarksOk
<1>3. ASSUME NEW s \in Signals PROVE LabelsAfter[s] \in Classes /\ LabelsAfter[s] <= design.class[s]
  <2>1. CASE s \in Driven(signals)
    <3> DEFINE k == Max(WritesOf(signals, s))
    <3>1. DOMAIN signals = 1..Len(signals) /\ Len(signals) \in Nat
      BY <1>1
    <3>2. WritesOf(signals, s) \subseteq DOMAIN signals /\ WritesOf(signals, s) # {}
      BY <2>1 DEF WritesOf, Driven
    <3>3. WritesOf(signals, s) \in SUBSET Nat /\ \A n \in WritesOf(signals, s) : n <= Len(signals)
      BY <3>1, <3>2
    <3>4. k \in WritesOf(signals, s)
      BY <3>1, <3>2, <3>3, GreatestNumber
    <3>5. LabelsAfter[s] = marks[k]
      BY <2>1 DEF LabelsAfter
    <3> HIDE DEF k
    <3>6. k \in DOMAIN signals /\ signals[k].signal = s
      BY <3>4 DEF WritesOf
    <3>7. marks[k] \in Classes
      BY <1>2, <3>1, <3>6
    <3> QED BY <1>2, <3>5, <3>6, <3>7
  <2>2. CASE s \notin Driven(signals)
    <3>1. LabelsAfter[s] = flow.label[s]
      BY <2>2 DEF LabelsAfter
    <3> QED BY <3>1 DEF FlowInv, FlowOk
  <2> QED BY <2>1, <2>2
<1> QED BY <1>3 DEF LabelsAfter

LEMMA CommitFlows ==
    ASSUME Shape, FromSource, FlowInv, Commit, source' = source,
           flow' = [flow EXCEPT !.label = LabelsAfter, !.heard = EventLabels(LabelsAfter)]
    PROVE  FlowInv'
<1> DEFINE labels == LabelsAfter
           heard == EventLabels(labels)
<1>1. /\ frame'.at \notin Busy /\ UNCHANGED <<design, source, writes>>
      /\ events' = writes.events \cup ChangeEvents(values, Committed)
                      \cup BarrierEvents(design, seen, Driven(writes.signals))
  BY CommitSteps, AtFields DEF Busy
<1>2. /\ labels \in [Signals -> Classes] /\ \A s \in Signals : labels[s] <= design.class[s]
  BY LabelsAreCommitted
<1>3. /\ Rated(design.class) /\ DOMAIN design.class = Signals
      /\ design.barriers \in [DOMAIN design.barriers -> Seq(Signals) \ {<<>>}]
  BY ScopeIsRight, DesignIsCompiled, DesignsAssumption DEF FromSource, DesignOk
<1>4. /\ DOMAIN flow' = FlowFields /\ flow'.collected = flow.collected
      /\ flow'.label = labels /\ flow'.heard = heard
  BY DEF FlowInv, FlowOk, FlowFields
<1> HIDE DEF labels
<1>5. ASSUME NEW e \in events' PROVE heard[e] \in Classes /\ heard[e] <= EventBound(e)
  <2>1. CASE e \in writes.events
    <3>1. e[2] \in {"done", "failed", "timeout"}
      BY <2>1 DEF Shape, Collected, PartEvents
    <3>2. heard[e] = flow.collected.events[e]
      BY <3>1 DEF EventLabels
    <3>3. MarksOk(flow.collected, writes)
      BY DEF FlowInv, FlowOk
    <3> QED BY <2>1, <3>2, <3>3 DEF MarksOk, Bounded
  <2>2. CASE e \in ChangeEvents(values, Committed)
    <3>1. PICK s \in Signals : e = <<s, "changed">>
      BY <2>2 DEF ChangeEvents
    <3>2. heard[e] = labels[s] /\ EventBound(e) = design.class[s]
      BY <3>1 DEF EventLabels, EventBound
    <3> QED BY <1>2, <3>2
  <2>3. CASE e \in BarrierEvents(design, seen, Driven(writes.signals))
    <3>1. PICK b \in DOMAIN design.barriers : e = <<b, "ready">>
      BY <2>3 DEF BarrierEvents
    <3> DEFINE members == ToSet(design.barriers[b])
               S == {labels[m] : m \in members}
               T == {design.class[m] : m \in members}
    <3>2. heard[e] = Strongest(S) /\ EventBound(e) = Strongest(T)
      BY <3>1 DEF EventLabels, EventBound
    <3>3. members \subseteq Signals
      <4>1. design.barriers[b] \in Seq(Signals)
        BY <1>3
      <4> QED BY <4>1 DEF ToSet
    <3>4. S \in SUBSET Classes /\ T \in SUBSET Classes /\ \A x \in S : \E c \in T : x <= c
      <4> HIDE DEF members
      <4> QED BY <1>2, <1>3, <3>3 DEF Rated
    <3> HIDE DEF S, T
    <3> QED BY <3>2, <3>4, StrongestIsLeast, StrongestRises
  <2> QED BY <1>1, <2>1, <2>2, <2>3
<1>6. DOMAIN heard = events'
  BY DEF EventLabels
<1> HIDE DEF heard
<1>7. FlowOk(flow', writes')
  BY <1>1, <1>2, <1>4, <1>5, <1>6 DEF FlowInv, FlowOk, Bounded
<1> QED BY <1>1, <1>7, NobodyRunning

LEMMA QuietFlows ==
    ASSUME Shape, FlowInv, NoFlow, source' = source PROVE FlowInv'
<1>0. flow' = flow
  BY DEF NoFlow
<1>1. CASE OutOfWallTime \/ Quiesce \/ Sleep \/ SleepOut \/ HasEvents \/ OutOfIterations \/ Conflict
             \/ Fail \/ AuditFails
  <2>1. /\ UNCHANGED <<design, writes>>
        /\ \E place \in {"ended", "sleeping", "admitting"} : frame' = At(place)
    BY <1>1 DEF OutOfWallTime, Quiesce, Sleep, SleepOut, HasEvents, OutOfIterations, Conflict, Fail,
                AuditFails, End
  <2>2. frame'.at \notin Busy
    BY <2>1, AtFields DEF Busy
  <2>3. FlowOk(flow', writes')
    BY <1>0, <2>1 DEF FlowInv
  <2> QED BY <2>1, <2>2, <2>3, NobodyRunning
<1>2. CASE Judge \/ Tick
  <2>1. UNCHANGED <<design, writes, frame>>
    BY <1>2 DEF Judge, Tick
  <2> QED BY <1>0, <2>1, CheckerStays DEF FlowInv
<1>3. CASE \/ \E pass \in BOOLEAN : FilterAnswers(pass)
           \/ \E granted \in BOOLEAN, echo \in Results : HumanAnswers(granted, echo)
  <2>1. /\ frame.at \in Busy /\ UNCHANGED <<design, writes>>
        /\ frame'.process = frame.process /\ frame'.part = frame.part
        /\ frame'.todo = frame.todo /\ frame'.local = frame.local
    BY <1>3 DEF FilterAnswers, HumanAnswers, AskOrRelease, Busy, Shape, FrameOk, Frames
  <2>2. /\ SameFields({"label", "heard", "collected", "base", "scopes", "own"})
        /\ ContextOk(flow', frame')
    BY <1>0, <2>1 DEF FlowInv, FlowOk, RunningOk, SameFields, ContextOk
  <2> QED BY <2>1, <2>2, SamePlace
<1> QED BY <1>1, <1>2, <1>3 DEF NoFlow

LEMMA FlowInitially == LabeledInit => FromSource /\ FlowInv
<1> SUFFICES ASSUME LabeledInit PROVE FromSource /\ FlowInv
  OBVIOUS
<1>1. FromSource
  BY DEF LabeledInit, FromSource, Init
<1>2. writes = NoWrites /\ frame.at = "top"
  BY AtFields DEF LabeledInit, Init
<1>3. \A e \in events : \E s \in Signals : e = <<s, "changed">>
  <2>1. PICK given \in SUBSET design.inputs : events = {<<s, "changed">> : s \in given}
    BY DEF LabeledInit, Init
  <2>2. design.inputs \subseteq Signals
    BY <1>1, DesignsAssumption DEF FromSource, DesignOk
  <2> QED BY <2>1, <2>2
<1>4. Rated(design.class) /\ DOMAIN design.class = Signals
  BY <1>1, ScopeIsRight, DesignIsCompiled
<1>5. /\ DOMAIN flow = FlowFields /\ flow.collected = NoMarks
      /\ flow.label = [s \in Signals |-> IF <<s, "changed">> \in events THEN design.class[s] ELSE Public]
      /\ flow.heard = [e \in events |-> design.class[e[1]]]
  BY DEF LabeledInit, Unmarked, FlowFields
<1>6. Bounded(flow.heard)
  <2>1. ASSUME NEW e \in events
        PROVE  design.class[e[1]] \in Classes /\ design.class[e[1]] <= EventBound(e)
    <3>1. PICK s \in Signals : e = <<s, "changed">>
      BY <1>3
    <3>2. EventBound(e) = design.class[s] /\ e[1] = s
      BY <3>1 DEF EventBound
    <3> QED BY <1>4, <3>2, ClassesCompare DEF Rated
  <2> QED BY <1>5, <2>1 DEF Bounded
<1>7. flow.label \in [Signals -> Classes] /\ \A s \in Signals : flow.label[s] <= design.class[s]
  BY <1>4, <1>5, ClassesCompare, ClassNumbers DEF Rated
<1>8. MarksOk(flow.collected, writes)
  BY <1>2, <1>5 DEF MarksOk, NoMarks, NoWrites, Bounded
<1>9. frame.at \notin Busy
  BY <1>2 DEF Busy
<1> QED BY <1>1, <1>5, <1>6, <1>7, <1>8, <1>9 DEF FlowInv, FlowOk, RunningOk

(* The observer watches runs of the interpreter.                           *)
LEMMA LabeledSteps == LabeledNext => Next /\ source' = source
BY DEF LabeledNext, FlowOfDelta, FlowOfStatements, NoFlow, Next, Progress, LoopStep, ProcessStep,
       CallStep, ReleaseStep

LEMMA FlowsKept ==
    ASSUME Shape, FromSource, FlowInv, LabeledNext PROVE FlowInv'
<1>0. source' = source
  BY DEF LabeledNext
<1>1. CASE FlowOfDelta
  BY <1>0, <1>1, TicksFlow, BeginFlows, EndFlows, CommitFlows DEF FlowOfDelta
<1>2. CASE FlowOfStatements
  <2>1. CASE AssignSignal /\ Go(Marked(Revealing, 1, {}))
    BY <1>0, <2>1, AssignFlows
  <2>2. CASE Branch /\ Go([flow EXCEPT !.scopes =
                        @ \cup {[after |-> Len(frame.todo) - 1,
                                 class |-> Strongest({LabelOf(c) : c \in Conditions(Statement)})]}])
    BY <1>0, <2>2, BranchFlows
  <2>3. CASE (CheckAssertion \/ ParallelCalls) /\ Go(flow)
    BY <1>0, <2>3, AssertFlows, ParallelFlows
  <2>4. CASE (CallDevice \/ Declassify) /\ flow' = [flow EXCEPT !.made = Strongest({@, Revealing})]
    BY <1>0, <2>4, CallFlows
  <2>5. CASE /\ \E result \in Results : CallSucceeds(result)
             /\ Go(Marked(Revealing, 1, {<<Statement.device, "done">>}))
    BY <1>0, <2>5, CallSucceedsFlows
  <2>6. CASE CallFails /\ Go(Marked(Revealing, 0, {<<Statement.device, "failed">>}))
    <3>1. {<<Statement.device, "failed">>} = {<<Statement.device, what>> : what \in {"failed"}}
      OBVIOUS
    <3> QED BY <1>0, <2>6, <3>1, CallEndsFlows DEF CallFails
  <2>7. CASE CallTimesOut /\ Go(Marked(Revealing, 0, {<<Statement.device, "failed">>,
                                                     <<Statement.device, "timeout">>}))
    <3>1. {<<Statement.device, "failed">>, <<Statement.device, "timeout">>}
             = {<<Statement.device, what>> : what \in {"failed", "timeout"}}
      OBVIOUS
    <3> QED BY <1>0, <2>7, <3>1, CallEndsFlows DEF CallTimesOut
  <2>8. CASE /\ Release
             /\ LET event == [e \in {<<Statement.using, "done">>} |-> Revealing] IN
                Go([flow EXCEPT !.own = [signals |-> Append(@.signals, ReleasedClass),
                                         events |-> Joining(@.events, event)]])
    BY <1>0, <2>8, ReleaseFlows
  <2>9. CASE RefuseRelease /\ Go(Marked(Revealing, 0, {<<Statement.using, "failed">>}))
    BY <1>0, <2>9, RefuseFlows
  <2>10. CASE /\ ProcessTimesOut
              /\ Go([flow EXCEPT !.base = Strongest({@, flow.made}), !.scopes = {}, !.own = NoMarks])
    BY <1>0, <2>10, TimesOutFlows
  <2> QED BY <1>2, <2>1, <2>2, <2>3, <2>4, <2>5, <2>6, <2>7, <2>8, <2>9, <2>10 DEF FlowOfStatements
<1>3. CASE NoFlow
  BY <1>0, <1>3, QuietFlows
<1> QED BY <1>1, <1>2, <1>3 DEF LabeledNext

-----------------------------------------------------------------------------
(* The whole invariant: that of the interpreter, the source it came from,  *)
(* and that of the observer.                                               *)
LabeledInv == Shape /\ FromSource /\ FlowInv

LEMMA DesignStays == ASSUME Shape, [Next]_vars PROVE design' = design
BY Moves DEF Works, Halts, Stays, Sleep, HasEvents, FireTimers, BeginDelta, ProcessEnds,
             ProcessTimesOut, Commit, vars

LEMMA SourceStays == ASSUME FromSource, UNCHANGED <<design, source>> PROVE FromSource'
BY DEF FromSource

LEMMA LabeledInvKept ==
    ASSUME Shape, FromSource, FlowInv, [LabeledNext]_labeledVars PROVE LabeledInv'
<1>1. [Next]_vars /\ source' = source
  BY LabeledSteps DEF labeledVars, vars
<1>2. Shape' /\ design' = design
  BY <1>1, Moves, DesignStays
<1>3. FromSource'
  BY <1>1, <1>2, SourceStays
<1>4. FlowInv'
  <2>1. CASE LabeledNext
    BY <2>1, FlowsKept
  <2>2. CASE UNCHANGED labeledVars
    BY <2>2, CheckerStays DEF labeledVars, vars, FlowInv
  <2> QED BY <2>1, <2>2
<1> QED BY <1>2, <1>3, <1>4 DEF LabeledInv

(* Every reachable state of every run of a compiled source satisfies it.   *)
THEOREM LabeledInvariant == LabeledSpec => []LabeledInv
<1>1. LabeledInit => LabeledInv
  BY FlowInitially, ShapeInitially DEF LabeledInit, LabeledInv
<1>2. LabeledInv /\ [LabeledNext]_labeledVars => LabeledInv'
  BY LabeledInvKept DEF LabeledInv
<1> QED BY <1>1, <1>2, PTL DEF LabeledSpec

(* The flow analysis of the checker is sound: no run puts a value into a   *)
(* signal that is stronger than the class the signal declares.             *)
THEOREM NoValueLeaks == LabeledSpec => []FlowsStayLabeled
<1>1. LabeledInv => FlowsStayLabeled
  BY DEF LabeledInv, FlowInv, FlowOk, FlowsStayLabeled
<1> QED BY <1>1, LabeledInvariant, PTL

(* Nor does a call statement tell its device more than place and clearance *)
(* allow, by its argument or by being made.  Filters and humans are shown  *)
(* nothing above the range of the declassifier, and filters are in no      *)
(* place that forbids it; what their clearance would forbid is not         *)
(* bounded.                                                                *)
THEOREM NoCallLeaks == LabeledSpec => []CallsStayCleared
<1>1. LabeledInit => AskedOk
  BY AtFields DEF LabeledInit, Init, AskedOk
<1>2. LabeledInv /\ AskedOk /\ [LabeledNext]_labeledVars => AskedOk'
  <2> SUFFICES ASSUME Shape, AskedOk, [LabeledNext]_labeledVars PROVE AskedOk'
    BY DEF LabeledInv
  <2>1. [Next]_vars
    BY LabeledSteps DEF labeledVars, vars
  <2> QED BY <2>1, AskedKept
<1>3. LabeledInv /\ AskedOk => CallsStayCleared
  <2> SUFFICES ASSUME Shape, FromSource, FlowInv, AskedOk PROVE CallsStayCleared
    BY DEF LabeledInv
  <2>1. ASSUME frame.at = "calling"
        PROVE  /\ Statement.device \in design.cloud => Revealing < design.cloudFloor
               /\ \A clearance \in design.clearance[Statement.device] : Revealing <= clearance
    <3>1. /\ frame.at \in Busy /\ frame.todo # <<>> /\ Statement.kind = "call"
          /\ Statement.device \in Parts
      BY <2>1, WaitingStatement DEF Busy, StatementOk
    <3> QED BY <3>1, CallIsSeen
  <2>2. ASSUME frame.at \in {"filtering", "asking"}
        PROVE  /\ LabelOf(Given(Statement)) <= Declassifier.from
               /\ Declassifier.filter \cap design.cloud = {}
               /\ Declassifier.approval => Revealing <= Declassifier.from
    <3>1. /\ frame.at \in Busy /\ frame.todo # <<>> /\ Statement.kind = "declassify"
          /\ Statement.using \in DOMAIN design.declassifiers
      BY <2>2, WaitingStatement DEF Busy, StatementOk
    <3> QED BY <3>1, ReleaseIsSeen, DeclassifiersAreRight DEF Declassifier
  <2>3. frame.at = "asking" => Declassifier.approval
    BY DEF AskedOk
  <2> QED BY <2>1, <2>2, <2>3 DEF CallsStayCleared
<1> QED BY <1>1, <1>2, <1>3, LabeledInvariant, PTL DEF LabeledSpec

(* The guard of the interpreter finds nothing the checker has not.         *)
THEOREM GuardIsRedundant == LabeledSpec => []GuardNeverRefuses
<1>1. LabeledInv => GuardNeverRefuses
  <2> SUFFICES ASSUME Shape, FromSource, FlowInv, Running("call")
               PROVE  Cleared(design, Statement.device, Statement.argument)
    BY DEF LabeledInv, GuardNeverRefuses
  <2>1. frame.at \in Busy /\ frame.todo # <<>> /\ Statement.kind = "call" /\ Statement.device \in Parts
    BY RunningStatement DEF StatementOk
  <2>2. PICK o : Seen(o)
    BY <2>1, NextIsSeen
  <2> QED BY <2>1, <2>2, RunningPart, GuardIsChecked
<1> QED BY <1>1, LabeledInvariant, PTL

-----------------------------------------------------------------------------
(* The security view.  Its nodes are kept apart by their kinds.            *)
LEMMA EdgesDiffer ==
    ASSUME NEW v, NEW w, NEW d, NEW e
    PROVE  /\ Flow(ValueNode(v), DeviceNode(d)) # Flow(ValueNode(w), CloudRule)
           /\ Flow(ValueNode(v), DeviceNode(d)) # Flow(CloudRule, DeviceNode(e))
           /\ Flow(ValueNode(v), CloudRule) # Flow(CloudRule, DeviceNode(e))
           /\ Flow(ValueNode(v), CloudRule) = Flow(ValueNode(w), CloudRule) <=> v = w
           /\ Flow(CloudRule, DeviceNode(d)) = Flow(CloudRule, DeviceNode(e)) <=> d = e
           /\ Flow(ValueNode(v), DeviceNode(d)) = Flow(ValueNode(w), DeviceNode(e)) <=> v = w /\ d = e
BY DEF Flow, Edge, ValueNode, DeviceNode, CloudRule

Blocked(scope, v) == scope.class[v] >= scope.floor
InCloud(scope, d) == LocationOf(scope.devices[d]) = "cloud"
Uncleared(scope, v, d) == \E c \in Clearance(scope.devices[d]) : scope.class[v] > c

LEMMA DeniedEdges ==
    ASSUME NEW scope, NEW v, NEW d \in DOMAIN scope.devices
    PROVE  LET denied == DeniedFlows(scope, scope.floor) IN
           /\ Flow(ValueNode(v), CloudRule) \in denied <=> v \in DOMAIN scope.class /\ Blocked(scope, v)
           /\ Flow(CloudRule, DeviceNode(d)) \in denied <=> InCloud(scope, d)
           /\ Flow(ValueNode(v), DeviceNode(d)) \in denied <=>
                 v \in DOMAIN scope.class /\ Uncleared(scope, v, d)
                    /\ ~(InCloud(scope, d) /\ Blocked(scope, v))
<1> DEFINE A == {Flow(ValueNode(w), CloudRule) : w \in {u \in DOMAIN scope.class : Blocked(scope, u)}}
           B == {Flow(CloudRule, DeviceNode(e)) : e \in {f \in DOMAIN scope.devices : InCloud(scope, f)}}
           Held(e) == {w \in DOMAIN scope.class :
                          Uncleared(scope, w, e) /\ ~(InCloud(scope, e) /\ Blocked(scope, w))}
           C == UNION {{Flow(ValueNode(w), DeviceNode(e)) : w \in Held(e)} : e \in DOMAIN scope.devices}
<1>1. DeniedFlows(scope, scope.floor) = A \cup B \cup C
  BY DEF DeniedFlows, Blocked, InCloud, Uncleared
<1>2. Flow(ValueNode(v), CloudRule) \in A \cup B \cup C <=> v \in DOMAIN scope.class /\ Blocked(scope, v)
  <2>1. Flow(ValueNode(v), CloudRule) \notin B
    BY EdgesDiffer
  <2>2. Flow(ValueNode(v), CloudRule) \notin C
    BY EdgesDiffer
  <2>3. Flow(ValueNode(v), CloudRule) \in A <=> v \in DOMAIN scope.class /\ Blocked(scope, v)
    BY EdgesDiffer
  <2> HIDE DEF A, B, C
  <2> QED BY <2>1, <2>2, <2>3
<1>3. Flow(CloudRule, DeviceNode(d)) \in A \cup B \cup C <=> InCloud(scope, d)
  <2>1. Flow(CloudRule, DeviceNode(d)) \notin A
    BY EdgesDiffer
  <2>2. Flow(CloudRule, DeviceNode(d)) \notin C
    BY EdgesDiffer
  <2>3. Flow(CloudRule, DeviceNode(d)) \in B <=> InCloud(scope, d)
    BY EdgesDiffer
  <2> HIDE DEF A, B, C
  <2> QED BY <2>1, <2>2, <2>3
<1>4. Flow(ValueNode(v), DeviceNode(d)) \in A \cup B \cup C <=> v \in Held(d)
  <2>1. Flow(ValueNode(v), DeviceNode(d)) \notin A \cup B
    BY EdgesDiffer
  <2>2. Flow(ValueNode(v), DeviceNode(d)) \in C <=> v \in Held(d)
    <3>1. ASSUME v \in Held(d) PROVE Flow(ValueNode(v), DeviceNode(d)) \in C
      BY <3>1
    <3>2. ASSUME Flow(ValueNode(v), DeviceNode(d)) \in C PROVE v \in Held(d)
      <4>1. PICK e \in DOMAIN scope.devices : \E w \in Held(e) :
                Flow(ValueNode(v), DeviceNode(d)) = Flow(ValueNode(w), DeviceNode(e))
        BY <3>2
      <4>2. PICK w \in Held(e) : Flow(ValueNode(v), DeviceNode(d)) = Flow(ValueNode(w), DeviceNode(e))
        BY <4>1
      <4>3. w = v /\ e = d
        BY <4>2, EdgesDiffer
      <4> QED BY <4>3
    <3> QED BY <3>1, <3>2
  <2> HIDE DEF A, B, C, Held
  <2> QED BY <2>1, <2>2
<1> QED BY <1>1, <1>2, <1>3, <1>4

(* A call that gives a value to a device is rejected for that exactly when *)
(* the place of the device or its clearance forbids the class.             *)
LEMMA ForbiddenCalls ==
    ASSUME NEW scope, Rated(scope.class), NEW v \in DOMAIN scope.class, NEW d \in DOMAIN scope.devices
    PROVE  Forbidden(scope, v, d) <=> (InCloud(scope, d) /\ Blocked(scope, v)) \/ Uncleared(scope, v, d)
<1> DEFINE call == CallTo(d, Read(v), v)
           flowing == ClassOfExpr(scope, call.argument)
<1>1. flowing = scope.class[v]
  <2>1. NamesIn(call.argument) = {v}
    BY DEF NamesIn, CallTo, Read
  <2>2. {scope.class[n] : n \in NamesIn(call.argument) \cap DOMAIN scope.class} = {scope.class[v]}
    BY <2>1
  <2>3. scope.class[v] \in Classes /\ {scope.class[v]} \in SUBSET Classes /\ {scope.class[v]} # {}
    BY DEF Rated
  <2> QED BY <2>2, <2>3, StrongestOfSome DEF ClassOfExpr
<1>2. call.device = d /\ call.output = v
  BY DEF CallTo
<1> HIDE DEF call, flowing
<1> DEFINE E == When(InCloud(scope, d) /\ flowing >= scope.floor, "E301")
           F == When(\E c \in Clearance(scope.devices[d]) : flowing > c, "E302")
           G == ExpressionErrors(scope, call.argument) \cup When(call.timeout = {0}, "E211")
                  \cup StoreErrors(scope, call.output, flowing, "E208")
                  \cup When(IsDeclassifier(scope.devices[d]), "E220")
<1>3. CallErrors(scope, call) = G \cup E \cup F
  BY <1>2 DEF CallErrors, flowing, InCloud
<1>4. "E301" \notin G /\ "E302" \notin G
  BY DEF ExpressionErrors, StoreErrors, When
<1>5. E \subseteq {"E301"} /\ (E # {} <=> InCloud(scope, d) /\ Blocked(scope, v))
  BY <1>1 DEF When, Blocked
<1>6. F \subseteq {"E302"} /\ (F # {} <=> Uncleared(scope, v, d))
  BY <1>1 DEF When, Uncleared
<1> HIDE DEF E, F, G
<1> QED BY <1>3, <1>4, <1>5, <1>6 DEF Forbidden, call

LEMMA FloorIsDrawn == ASSUME FromSource PROVE DrawnFloor(ArchitectureOf(source)) = ScopeOf(source).floor
<1>1. DrawnFloor(ArchitectureOf(source)) = CloudFloor(ArchitectureOf(source))
  BY DEF DrawnFloor, CloudFloor
<1> QED BY <1>1, ScopeIsRight

LEMMA ReleasersAreDeclassifiers ==
    ASSUME FromSource
    PROVE  DOMAIN design.declassifiers = {d \in DOMAIN ScopeOf(source).devices : IsDeclassifier(DeviceOf(d))}
BY DEF FromSource, Compiled, DeviceOf

(* An ordinary flow into a device is one that the checker has let pass, or *)
(* one into a declassifier.                                                *)
LEMMA OrdinaryIsChecked ==
    ASSUME FromSource, NEW v \in Signals, NEW d \in DOMAIN ScopeOf(source).devices,
           Flow(ValueNode(v), DeviceNode(d)) \in OrdinaryFlows(ScopeOf(source), Processed)
    PROVE  \/ d \in DOMAIN design.declassifiers
           \/ \A c \in Clearance(DeviceOf(d)) : ~(ScopeOf(source).class[v] > c)
<1> DEFINE scope == ScopeOf(source)
           f == Flow(ValueNode(v), DeviceNode(d))
<1>1. PICK i \in DOMAIN Processed : \E s \in ProcessStatements(Processed[i]) : f \in FlowsOf(scope, s)
  BY DEF OrdinaryFlows
<1>2. PICK s \in ProcessStatements(Processed[i]) : f \in FlowsOf(scope, s)
  BY <1>1
<1>3. \E part \in {"body", "on timeout"} : s \in Code(Block(i, part))
  BY <1>2, DesignIsCompiled DEF ProcessStatements
<1>4. OwnErrors(scope, s) = {}
  <2>1. PICK part \in {"body", "on timeout"} : s \in Code(Block(i, part))
    BY <1>3
  <2>2. PICK o \in Occurrences(Block(i, part)) : s = o.statement
    BY <2>1 DEF Code
  <2>3. i \in DOMAIN design.processes
    BY DesignIsCompiled
  <2> QED BY <2>2, <2>3, SitesAreChecked
<1>5. Rated(scope.class) /\ DOMAIN scope.class = Signals
  BY ScopeIsRight
<1>6. CASE s.kind = "call"
  <2>1. s.device \in DOMAIN scope.devices /\ f \in FlowsOfCall(scope, s)
    BY <1>2, <1>6 DEF FlowsOf
  <2>2. s.device = d /\ v \in NamesIn(s.argument)
    <3> DEFINE gated == scope.devices[s.device].type = "human"
               Kind == IF gated THEN "approval_gate" ELSE "security_flow"
    <3>1. f \in {Edge(Kind, w, DeviceNode(s.device)) : w \in ReadsOf(scope, s.argument)}
      <4>1. f \in {Edge(Kind, w, DeviceNode(s.device)) : w \in ReadsOf(scope, s.argument)}
                   \cup {Flow(DeviceNode(s.device), ValueNode(s.output))}
        BY <2>1 DEF FlowsOfCall
      <4>2. f # Flow(DeviceNode(s.device), ValueNode(s.output))
        BY DEF Flow, Edge, ValueNode, DeviceNode
      <4> HIDE DEF f, Kind
      <4> QED BY <4>1, <4>2
    <3> HIDE DEF Kind
    <3>2. PICK w \in ReadsOf(scope, s.argument) : f = Edge(Kind, w, DeviceNode(s.device))
      BY <3>1
    <3>3. w = ValueNode(v) /\ DeviceNode(s.device) = DeviceNode(d)
      BY <3>2 DEF Flow, Edge
    <3>4. PICK n \in NamesIn(s.argument) : w = ValueNode(n)
      BY <3>2 DEF ReadsOf
    <3> QED BY <3>3, <3>4 DEF ValueNode, DeviceNode
  <2> DEFINE flowing == ClassOfExpr(scope, s.argument)
             S == {scope.class[n] : n \in NamesIn(s.argument) \cap DOMAIN scope.class}
  <2>3. scope.class[v] \in S /\ S \in SUBSET Classes /\ flowing = Strongest(S)
    BY <1>5, <2>2 DEF Rated, ClassOfExpr
  <2> HIDE DEF S
  <2>4. scope.class[v] <= flowing /\ flowing \in Classes /\ scope.class[v] \in Classes
    BY <2>3, StrongestIsLeast
  <2>5. CallErrors(scope, s) = {}
    BY <1>4, <1>6 DEF OwnErrors
  <2>6. When(\E c \in Clearance(DeviceOf(d)) : flowing > c, "E302") = {}
    BY <2>1, <2>2, <2>5 DEF CallErrors, DeviceOf
  <2> HIDE DEF flowing
  <2>7. ~ \E c \in Clearance(DeviceOf(d)) : flowing > c
    BY <2>6, NoError
  <2>8. ASSUME NEW c \in Clearance(DeviceOf(d)) PROVE ~(scope.class[v] > c)
    <3>1. c \in Classes
      BY DeviceClassesParse
    <3>2. ~(flowing > c)
      BY <2>7
    <3> QED BY <2>4, <3>1, <3>2, ClassNumbers
  <2> QED BY <2>8
<1>7. CASE s.kind = "declassify"
  <2>1. s.using \in DOMAIN scope.devices /\ f \in FlowsOfRelease(scope, s)
    BY <1>2, <1>7 DEF FlowsOf
  <2>2. s.using = d
    BY <2>1 DEF FlowsOfRelease, ReadsOf, f, Flow, Edge, ValueNode, DeviceNode
  <2>3. ReleaseErrors(scope, s) = {}
    BY <1>4, <1>7 DEF OwnErrors
  <2>4. When(/\ s.using \in DOMAIN scope.devices
             /\ ~IsDeclassifier(scope.devices[s.using]), "E220") = {}
    BY <2>3 DEF ReleaseErrors
  <2>5. IsDeclassifier(DeviceOf(d))
    BY <2>1, <2>2, <2>4, NoError DEF DeviceOf
  <2> QED BY <2>5, ReleasersAreDeclassifiers
<1>8. CASE s.kind = "assign"
  <2>1. f \in {Flow(w, ValueNode(s.target)) : w \in ReadsOf(scope, s.value)}
    BY <1>2, <1>8 DEF FlowsOf
  <2> QED BY <2>1 DEF f, Flow, Edge, ValueNode, DeviceNode
<1>9. CASE s.kind \notin {"assign", "call", "declassify"}
  <2>1. FlowsOf(scope, s) = {}
    BY <1>9 DEF FlowsOf
  <2> QED BY <1>2, <2>1
<1> QED BY <1>6, <1>7, <1>8, <1>9

(* The rule of the cloud is no end of an ordinary flow.                    *)
LEMMA OrdinaryEnds ==
    ASSUME NEW scope, NEW processes, NEW f \in OrdinaryFlows(scope, processes)
    PROVE  f.from # CloudRule /\ f.to # CloudRule
<1>1. PICK s : f \in FlowsOf(scope, s)
  BY DEF OrdinaryFlows
<1>2. \A e : \A v \in ReadsOf(scope, e) : v # CloudRule
  BY DEF ReadsOf, ValueNode, CloudRule
<1>3. \A n : ValueNode(n) # CloudRule /\ DeviceNode(n) # CloudRule
  BY DEF ValueNode, DeviceNode, CloudRule
<1>4. \A kind, from, to : Edge(kind, from, to).from = from /\ Edge(kind, from, to).to = to
  BY DEF Edge
<1>5. CASE s.kind = "assign"
  <2>1. PICK v \in ReadsOf(scope, s.value) : f = Flow(v, ValueNode(s.target))
    BY <1>1, <1>5 DEF FlowsOf
  <2> QED BY <1>2, <1>3, <1>4, <2>1 DEF Flow
<1>6. CASE s.kind = "call"
  <2> DEFINE Kind == IF scope.devices[s.device].type = "human"
                     THEN "approval_gate" ELSE "security_flow"
  <2>1. f \in FlowsOfCall(scope, s)
    BY <1>1, <1>6 DEF FlowsOf
  <2>2. \/ \E v \in ReadsOf(scope, s.argument) : f = Edge(Kind, v, DeviceNode(s.device))
        \/ f = Flow(DeviceNode(s.device), ValueNode(s.output))
    BY <2>1 DEF FlowsOfCall
  <2> HIDE DEF Kind
  <2> QED BY <1>2, <1>3, <1>4, <2>2 DEF Flow
<1>7. CASE s.kind = "declassify"
  <2> DEFINE Filters == Ident(scope.devices[s.using], "filter") \cap DOMAIN scope.devices
  <2>1. f \in FlowsOfRelease(scope, s)
    BY <1>1, <1>7 DEF FlowsOf
  <2>2. \/ \E v \in ReadsOf(scope, s.value) : f = Flow(v, DeviceNode(s.using))
        \/ \E g \in Filters : f = Flow(DeviceNode(s.using), DeviceNode(g))
        \/ f = Edge("declassification", DeviceNode(s.using), ValueNode(s.target))
    BY <2>1 DEF FlowsOfRelease
  <2> HIDE DEF Filters
  <2> QED BY <1>2, <1>3, <1>4, <2>2 DEF Flow
<1>8. CASE s.kind \notin {"assign", "call", "declassify"}
  <2>1. FlowsOf(scope, s) = {}
    BY <1>8 DEF FlowsOf
  <2> QED BY <1>1, <2>1
<1> QED BY <1>5, <1>6, <1>7, <1>8

(* A denied flow of an accepted design leads into a declassifier with a    *)
(* clearance.                                                              *)
LEMMA DeniedIsIntoCleared ==
    ASSUME FromSource, NEW f \in OrdinaryFlows(ScopeOf(source), Processed),
           f \in DeniedFlows(ScopeOf(source), ScopeOf(source).floor)
    PROVE  f \in IntoCleared(ScopeOf(source), DOMAIN design.declassifiers)
<1> DEFINE scope == ScopeOf(source)
           Held(e) == {w \in DOMAIN scope.class :
                          Uncleared(scope, w, e) /\ ~(InCloud(scope, e) /\ Blocked(scope, w))}
<1>1. f.from # CloudRule /\ f.to # CloudRule
  BY OrdinaryEnds
<1>2. \A v, d : Flow(v, d).from = v /\ Flow(v, d).to = d
  BY DEF Flow, Edge
<1>3. \E d \in DOMAIN scope.devices : \E v \in Held(d) : f = Flow(ValueNode(v), DeviceNode(d))
  <2> DEFINE A == {Flow(ValueNode(w), CloudRule) : w \in {u \in DOMAIN scope.class : Blocked(scope, u)}}
             B == {Flow(CloudRule, DeviceNode(e)) : e \in {g \in DOMAIN scope.devices : InCloud(scope, g)}}
             C == UNION {{Flow(ValueNode(w), DeviceNode(e)) : w \in Held(e)} : e \in DOMAIN scope.devices}
  <2>1. DeniedFlows(scope, scope.floor) = A \cup B \cup C
    BY DEF DeniedFlows, Blocked, InCloud, Uncleared
  <2>2. f \notin A /\ f \notin B
    BY <1>1, <1>2
  <2>3. f \in C
    <3> HIDE DEF A, B, C
    <3> QED BY <2>1, <2>2
  <2> QED BY <2>3
<1>4. PICK d \in DOMAIN scope.devices : \E v \in Held(d) : f = Flow(ValueNode(v), DeviceNode(d))
  BY <1>3
<1>5. PICK v \in Held(d) : f = Flow(ValueNode(v), DeviceNode(d))
  BY <1>4
<1>6. v \in Signals
  BY <1>5, ScopeIsRight
<1>7. PICK c \in Clearance(DeviceOf(d)) : scope.class[v] > c
  BY <1>5 DEF Uncleared, DeviceOf
<1>8. d \in DOMAIN design.declassifiers
  BY <1>5, <1>6, <1>7, OrdinaryIsChecked
<1> QED BY <1>5, <1>6, <1>7, <1>8 DEF IntoCleared, DeviceOf

(* The security view is exact: a value and a device are drawn apart just   *)
(* when the checker would reject a call that gives the one to the other,   *)
(* and no design that it accepts has a flow drawn as denied, but into a    *)
(* declassifier whose clearance only the drawing holds against it.         *)
THEOREM DenialsAreExact == LabeledSpec => []DenialsMatchTheChecker
<1>1. LabeledInv => DenialsMatchTheChecker
  <2> SUFFICES ASSUME FromSource PROVE DenialsMatchTheChecker
    BY DEF LabeledInv
  <2> DEFINE scope == ScopeOf(source)
             view == SecurityView(EntityOf(source), ArchitectureOf(source))
             releasers == DOMAIN design.declassifiers
  <2>1. /\ view.denied = DeniedFlows(scope, scope.floor)
        /\ view.allowed = OrdinaryFlows(scope, Processed) \ DeniedFlows(scope, scope.floor)
    BY FloorIsDrawn DEF SecurityView, ScopeOf, Processed
  <2> HIDE DEF view
  <2>2. Rated(scope.class) /\ DOMAIN scope.class = Signals
    BY ScopeIsRight
  <2>3. ASSUME NEW v \in Signals, NEW d \in DOMAIN scope.devices
        PROVE  DrawnApart(view, v, d) <=> Forbidden(scope, v, d)
    <3>1. /\ Flow(ValueNode(v), CloudRule) \in view.denied <=> Blocked(scope, v)
          /\ Flow(CloudRule, DeviceNode(d)) \in view.denied <=> InCloud(scope, d)
          /\ Flow(ValueNode(v), DeviceNode(d)) \in view.denied <=>
                Uncleared(scope, v, d) /\ ~(InCloud(scope, d) /\ Blocked(scope, v))
      BY <2>1, <2>2, DeniedEdges
    <3>2. Forbidden(scope, v, d) <=>
            (InCloud(scope, d) /\ Blocked(scope, v)) \/ Uncleared(scope, v, d)
      BY <2>2, ForbiddenCalls
    <3> QED BY <3>1, <3>2 DEF DrawnApart
  <2>4. OrdinaryFlows(scope, Processed) \ IntoCleared(scope, releasers) \subseteq view.allowed
    BY <2>1, DeniedIsIntoCleared
  <2> QED BY <2>3, <2>4 DEF DenialsMatchTheChecker, view, Processed
<1> QED BY <1>1, LabeledInvariant, PTL
=============================================================================
