--------------------------- MODULE DesignRunProofs ---------------------------
(***************************************************************************)
(* Runs of AWHDL designs, for every set of designs that the checker        *)
(* accepts, every limit and every answer of devices and humans, however    *)
(* long each takes.  The invariant says what the interpreter has in hand   *)
(* at each of its places.                                                  *)
(***************************************************************************)
EXTENDS DesignRun, FiniteSetTheorems, SequenceTheorems, WellFoundedInduction, TLAPS

-----------------------------------------------------------------------------
(* Least and greatest numbers.                                             *)
LEMMA LeastNumber ==
    ASSUME NEW S \in SUBSET Nat, S # {}
    PROVE  Min(S) \in S /\ \A n \in S : Min(S) <= n
<1>1. PICK m \in S : \A n \in S : <<n, m>> \notin OpToRel(<, Nat)
  BY WFMin, NatLessThanWellFounded, Zenon
<1>2. \A n \in S : ~(n < m)
  BY <1>1, Zenon DEF OpToRel
<1>3. \A n \in S : m <= n
  BY <1>2
<1> QED BY <1>3 DEF Min

LEMMA GreatestNumber ==
    ASSUME NEW S \in SUBSET Nat, S # {}, NEW bound \in Nat, \A n \in S : n <= bound
    PROVE  Max(S) \in S /\ \A n \in S : n <= Max(S)
<1> DEFINE T == {bound - n : n \in S}
<1>1. T \subseteq Nat /\ T # {}
  <2>1. \A n \in S : n \in Nat /\ bound - n \in Nat
    OBVIOUS
  <2> QED BY <2>1
<1>2. Min(T) \in T /\ \A d \in T : Min(T) <= d
  BY <1>1, LeastNumber
<1>3. PICK m \in S : Min(T) = bound - m
  BY <1>2
<1>4. ASSUME NEW n \in S PROVE n <= m
  <2>1. Min(T) <= bound - n
    BY <1>2
  <2>2. n \in Nat /\ m \in Nat /\ bound - m <= bound - n
    BY <1>3, <2>1
  <2> HIDE DEF T
  <2> QED BY <2>2
<1>5. \A n \in S : m >= n
  <2>1. \A n \in S : n \in Nat /\ m \in Nat
    OBVIOUS
  <2> QED BY <1>4, <2>1
<1>6. Max(S) \in S /\ \A n \in S : Max(S) >= n
  BY <1>5, Zenon DEF Max
<1>7. \A n \in S : n \in Nat
  OBVIOUS
<1> QED BY <1>6, <1>7

-----------------------------------------------------------------------------
(* The shape of the state.                                                 *)
PartEvents == Parts \X {"done", "failed", "timeout"}

Entry == [signal : Signals, value : Values, process : DOMAIN design.processes]
Collected == [signals : Seq(Entry), events : SUBSET PartEvents]
Entries(w) == ToSet(w.signals)

(* Places inside of a process.                                             *)
Busy == {"running", "calling", "filtering", "asking", "releasing", "refusing"}

Block(i, part) == IF part = "body" THEN design.processes[i].body ELSE design.processes[i].onTimeout

Within == IF frame.process = 0 THEN {} ELSE Code(Block(frame.process, frame.part))

Frames(code) ==
    [at : Places, process : DOMAIN design.processes \cup {0}, part : {"body", "on timeout"},
     todo : Seq(code), local : Collected, content : Values, asked : Nat]

FrameOk ==
    /\ frame \in Frames(Within)
    /\ frame.at \in Busy <=> frame.process # 0
    /\ frame.at = "calling" => frame.todo # <<>> /\ Statement.kind = "call"
    /\ frame.at \in {"filtering", "asking", "releasing", "refusing"} =>
          frame.todo # <<>> /\ Statement.kind = "declassify"

Histories ==
    [written : [Signals -> Nat], fired : [DOMAIN design.barriers -> Nat],
     ticks : [DOMAIN design.timers -> Nat],
     ran : SUBSET Nat, late : SUBSET Nat, owed : SUBSET DOMAIN design.processes,
     allowed : SUBSET (Nat \X Parts \X {"filter", "human"} \X Values)]

SeenOk ==
    /\ seen \in [DOMAIN design.barriers -> SUBSET Signals]
    /\ \A b \in DOMAIN design.barriers : seen[b] \subseteq ToSet(design.barriers[b])

OutcomeOk ==
    /\ outcome \in {"running", "quiescent", "exhausted", "failed", "completed"}
    /\ outcome # "running" => frame.at = "ended"
    /\ doubt \in BOOLEAN

Shape ==
    /\ design \in Designs
    /\ values \in [Signals -> Values]
    /\ status \in [Parts -> {"none", "done", "failed"}]
    /\ current \subseteq Events /\ events \subseteq Events
    /\ SeenOk
    /\ nextTick \in [DOMAIN design.timers -> Nat]
    /\ deltas \in Nat /\ now \in Nat
    /\ writes \in Collected
    /\ FrameOk
    /\ OutcomeOk
    /\ history \in Histories

(* During a delta there are no events for the next one yet.                *)
DeltaOk ==
    /\ frame.at \in Busy \cup {"committing"} => events = {} /\ deltas >= 1
    /\ frame.at = "sleeping" => events = {}

-----------------------------------------------------------------------------
(* Designs.                                                                *)
LEMMA HeadAndTail ==
    ASSUME NEW S, NEW s \in Seq(S), s # <<>>
    PROVE  Head(s) \in S /\ Tail(s) \in Seq(S)
OBVIOUS

(* Occurrences of statements: the recursive function exists, for every     *)
(* number of levels.                                                       *)
Outermost(block) == {[statement |-> s, under |-> {}] : s \in ToSet(block)}
Deeper(level) == level \cup UNION {Inner(outer) : outer \in level}
IsNested(f, block, levels) ==
    f = [depth \in 0..levels |-> IF depth = 0 THEN Outermost(block) ELSE Deeper(f[depth - 1])]

LEMMA NestedExists == ASSUME NEW block, NEW levels \in Nat PROVE \E f : IsNested(f, block, levels)
<1> DEFINE Bad == {n \in Nat : ~ \E f : IsNested(f, block, n)}
<1>1. SUFFICES ASSUME Bad # {} PROVE FALSE
  OBVIOUS
<1>2. PICK n \in Bad : \A m \in Bad : n <= m
  BY <1>1, LeastNumber
<1>3. CASE n = 0
  <2> DEFINE f == [depth \in 0..0 |-> Outermost(block)]
  <2>1. IsNested(f, block, 0)
    BY DEF IsNested
  <2> QED BY <1>2, <1>3, <2>1
<1>4. CASE n # 0
  <2>1. n - 1 \in Nat /\ n - 1 \notin Bad
    BY <1>2, <1>4
  <2>2. PICK f : IsNested(f, block, n - 1)
    BY <2>1
  <2> DEFINE g == [depth \in 0..n |-> IF depth = n THEN Deeper(f[n - 1]) ELSE f[depth]]
  <2>3. ASSUME NEW depth \in 0..n
        PROVE  g[depth] = IF depth = 0 THEN Outermost(block) ELSE Deeper(g[depth - 1])
    <3>1. CASE depth = n
      BY <1>4, <2>1, <3>1
    <3>2. CASE depth # n
      <4>1. depth \in 0..n - 1 /\ (depth # 0 => depth - 1 \in 0..n /\ depth - 1 # n)
        BY <3>2, <2>1
      <4>2. f[depth] = IF depth = 0 THEN Outermost(block) ELSE Deeper(f[depth - 1])
        BY <2>2, <4>1 DEF IsNested
      <4> QED BY <3>2, <4>1, <4>2
    <3> QED BY <3>1, <3>2
  <2>4. g = [depth \in 0..n |-> g[depth]]
    OBVIOUS
  <2> HIDE DEF g
  <2>5. IsNested(g, block, n)
    BY <2>3, <2>4 DEF IsNested
  <2> QED BY <1>2, <2>5
<1> QED BY <1>3, <1>4

(* Occurrences holds the block itself.                                     *)
LEMMA OutermostOccur == ASSUME NEW block PROVE Outermost(block) \subseteq Occurrences(block)
<1> DEFINE f == CHOOSE f : IsNested(f, block, MaxNesting)
<1>1. IsNested(f, block, MaxNesting)
  BY NestedExists, NestingAssumption
<1>2. Occurrences(block) = f[MaxNesting]
  BY DEF Occurrences, IsNested, Outermost, Deeper
<1> HIDE DEF f
<1>3. /\ f[0] = Outermost(block)
      /\ \A n \in 1..MaxNesting : f[n] = Deeper(f[n - 1])
  BY <1>1, NestingAssumption DEF IsNested
<1> DEFINE Bad == {n \in 0..MaxNesting : ~(Outermost(block) \subseteq f[n])}
<1>4. Bad = {}
  <2> SUFFICES ASSUME Bad # {} PROVE FALSE
    OBVIOUS
  <2>1. Bad \subseteq Nat
    BY NestingAssumption
  <2>2. PICK n \in Bad : \A m \in Bad : n <= m
    BY <2>1, LeastNumber
  <2>3. n # 0
    BY <1>3, <2>2
  <2>4. n \in 1..MaxNesting /\ n - 1 \notin Bad /\ n - 1 \in 0..MaxNesting
    BY <2>2, <2>3, NestingAssumption
  <2>5. f[n - 1] \subseteq f[n]
    BY <1>3, <2>4 DEF Deeper
  <2> QED BY <2>2, <2>4, <2>5
<1> QED BY <1>2, <1>4, NestingAssumption

LEMMA BlocksHold ==
    ASSUME NEW d, NEW block, BlockOk(d, block)
    PROVE  /\ block \in Seq(Code(block))
           /\ \A s \in Code(block) : \A inner \in Blocks(s) : inner \in Seq(Code(block))
<1>1. ToSet(block) \subseteq Code(block)
  <2> SUFFICES ASSUME NEW s \in ToSet(block) PROVE s \in Code(block)
    OBVIOUS
  <2>1. [statement |-> s, under |-> {}] \in Occurrences(block)
    BY OutermostOccur DEF Outermost
  <2> QED BY <2>1 DEF Code
<1>2. ASSUME NEW o \in Occurrences(block), NEW inner \in Blocks(o.statement)
      PROVE  ToSet(inner) \subseteq Code(block)
  <2> SUFFICES ASSUME NEW s \in ToSet(inner) PROVE s \in Code(block)
    OBVIOUS
  <2>1. [statement |-> s, under |-> o.under \cup Conditions(o.statement)] \in Inner(o)
    BY DEF Inner
  <2>2. [statement |-> s, under |-> o.under \cup Conditions(o.statement)] \in Occurrences(block)
    BY <2>1 DEF BlockOk, Nests
  <2> QED BY <2>2 DEF Code
<1>3. ASSUME NEW s, IsSequence(s), ToSet(s) \subseteq Code(block) PROVE s \in Seq(Code(block))
  BY <1>3 DEF IsSequence
<1>4. block \in Seq(Code(block))
  BY <1>1, <1>3 DEF BlockOk
<1>5. ASSUME NEW s \in Code(block), NEW inner \in Blocks(s) PROVE inner \in Seq(Code(block))
  <2>1. PICK o \in Occurrences(block) : s = o.statement
    BY DEF Code
  <2>2. IsSequence(inner)
    BY DEF BlockOk
  <2> QED BY <1>2, <1>3, <2>1, <2>2
<1> QED BY <1>4, <1>5

LEMMA ProcessNumbers ==
    ASSUME Shape
    PROVE  /\ DOMAIN design.processes \subseteq Nat \ {0}
           /\ \E n \in Nat : DOMAIN design.processes = 1..n
<1>1. design.processes \in Seq(ToSet(design.processes))
  BY DesignsAssumption DEF Shape, IsSequence, DesignOk
<1> HIDE DEF Shape
<1>2. DOMAIN design.processes = 1..Len(design.processes) /\ Len(design.processes) \in Nat
  BY <1>1
<1> QED BY <1>2

LEMMA BlocksAreOk ==
    ASSUME Shape, NEW i \in DOMAIN design.processes, NEW part \in {"body", "on timeout"}
    PROVE  BlockOk(design, Block(i, part))
BY DesignsAssumption DEF Shape, Block, DesignOk

(* The next statement is one of the block, and so is what is inside of it. *)
LEMMA StatementsAreOk ==
    ASSUME Shape, frame.at \in Busy
    PROVE  /\ frame.process \in DOMAIN design.processes /\ frame.todo \in Seq(Within)
           /\ Within = Code(Block(frame.process, frame.part))
           /\ frame.todo # <<>> =>
                 /\ Statement \in Within /\ Tail(frame.todo) \in Seq(Within)
                 /\ StatementOk(design, Statement)
                 /\ \A inner \in Blocks(Statement) : inner \in Seq(Within)
<1>1. frame.process \in DOMAIN design.processes /\ frame.process # 0
  BY DEF Shape, FrameOk, Frames
<1>2. frame.todo \in Seq(Within) /\ frame.part \in {"body", "on timeout"}
  BY DEF Shape, FrameOk, Frames
<1>3. Within = Code(Block(frame.process, frame.part))
  BY <1>1 DEF Within
<1>4. BlockOk(design, Block(frame.process, frame.part))
  BY <1>1, <1>2, BlocksAreOk
<1>5. frame.todo # <<>> => Statement \in Within /\ Tail(frame.todo) \in Seq(Within)
  BY <1>2, HeadAndTail DEF Statement
<1> QED BY <1>1, <1>2, <1>3, <1>4, <1>5, BlocksHold DEF BlockOk

(* What an expression evaluates to is a value.                             *)
LEMMA EvaluationStaysInRange ==
    ASSUME NEW e \in Expressions, NEW view, view.values \in [Signals -> Values], Evaluates(e, view)
    PROVE  ValueOf(e, view) \in Values
<1>1. \A s \in Signals : /\ view.values[s] \in Values
                         /\ view.values[s] # Null => view.values[s] \in 0..MaxInteger
  BY DEF Values
<1>2. CASE e \in [op : {"const"}, value : Values]
  BY <1>2 DEF ValueOf
<1>3. CASE e \in [op : {"read"}, signal : Signals]
  BY <1>1, <1>3 DEF ValueOf
<1>4. CASE e \in [op : {"plus"}, signal : Signals, value : 0..MaxInteger]
  <2>1. view.values[e.signal] \in 0..MaxInteger
    BY <1>1, <1>4 DEF Evaluates, NamesIn
  <2> QED BY <1>4, <2>1, MaxIntegerAssumption DEF Evaluates, ValueOf, Values
<1>5. CASE e \in [op : {"sum"}, signal : Signals, other : Signals]
  <2>1. view.values[e.signal] \in 0..MaxInteger /\ view.values[e.other] \in 0..MaxInteger
    BY <1>1, <1>5 DEF Evaluates, NamesIn
  <2> QED BY <1>5, <2>1, MaxIntegerAssumption DEF Evaluates, ValueOf, Values
<1> QED BY <1>2, <1>3, <1>4, <1>5 DEF Expressions

-----------------------------------------------------------------------------
(* Collected writes.                                                       *)
LEMMA NothingCollected == NoWrites \in Collected /\ Entries(NoWrites) = {}
BY DEF NoWrites, Collected, Entries, ToSet

LEMMA Driving ==
    ASSUME NEW w \in Collected, NEW s \in Signals, NEW v \in Values,
           NEW i \in DOMAIN design.processes
    PROVE  /\ Drive(w, s, v, i) \in Collected
           /\ Entries(Drive(w, s, v, i)) =
                 Entries(w) \cup {[signal |-> s, value |-> v, process |-> i]}
<1> DEFINE entry == [signal |-> s, value |-> v, process |-> i]
<1>1. entry \in Entry
  BY DEF Entry
<1>2. w.signals \in Seq(Entry) /\ Drive(w, s, v, i).signals = Append(w.signals, entry)
  BY DEF Collected, Drive
<1> HIDE DEF entry
<1>3. Append(w.signals, entry) \in Seq(Entry)
  BY <1>1, <1>2
<1>4. ToSet(Append(w.signals, entry)) = ToSet(w.signals) \cup {entry}
  <2>1. /\ DOMAIN Append(w.signals, entry) = 1..Len(w.signals) + 1
        /\ Append(w.signals, entry)[Len(w.signals) + 1] = entry
        /\ \A k \in 1..Len(w.signals) : Append(w.signals, entry)[k] = w.signals[k]
        /\ DOMAIN w.signals = 1..Len(w.signals) /\ Len(w.signals) \in Nat
    BY <1>1, <1>2
  <2> QED BY <2>1 DEF ToSet
<1> QED BY <1>2, <1>3, <1>4 DEF Collected, Drive, Entries, entry

LEMMA Raising ==
    ASSUME NEW w \in Collected, NEW E \in SUBSET PartEvents
    PROVE  Raise(w, E) \in Collected /\ Entries(Raise(w, E)) = Entries(w)
BY DEF Raise, Collected, Entries

LEMMA Merging ==
    ASSUME NEW w \in Collected, NEW local \in Collected
    PROVE  /\ Merge(w, local) \in Collected
           /\ Entries(Merge(w, local)) = Entries(w) \cup Entries(local)
<1>1. w.signals \in Seq(Entry) /\ local.signals \in Seq(Entry)
  BY DEF Collected
<1>2. w.signals \o local.signals \in Seq(Entry)
  BY <1>1
<1>3. ToSet(w.signals \o local.signals) = ToSet(w.signals) \cup ToSet(local.signals)
  <2> DEFINE a == w.signals
             b == local.signals
  <2>1. /\ DOMAIN a = 1..Len(a) /\ DOMAIN b = 1..Len(b)
        /\ Len(a) \in Nat /\ Len(b) \in Nat
    BY <1>1
  <2>0. /\ DOMAIN (a \o b) = 1..Len(a) + Len(b)
        /\ \A k \in 1..Len(a) : (a \o b)[k] = a[k]
        /\ \A k \in 1..Len(b) : (a \o b)[k + Len(a)] = b[k]
    <3>1. /\ Len(a \o b) = Len(a) + Len(b) /\ DOMAIN (a \o b) = 1..Len(a \o b)
          /\ \A k \in 1..Len(a) + Len(b) :
                (a \o b)[k] = IF k <= Len(a) THEN a[k] ELSE b[k - Len(a)]
      <4> HIDE DEF a, b
      <4>1. a \in Seq(Entry) /\ b \in Seq(Entry)
        BY <1>1 DEF a, b
      <4>2. a \o b \in Seq(Entry)
        BY <4>1
      <4> QED BY <4>1, <4>2, ConcatProperties
    <3> HIDE DEF a, b
    <3>2. \A k \in 1..Len(b) : /\ k + Len(a) \in 1..Len(a) + Len(b)
                               /\ ~(k + Len(a) <= Len(a)) /\ (k + Len(a)) - Len(a) = k
      BY <2>1
    <3>3. \A k \in 1..Len(a) : k \in 1..Len(a) + Len(b) /\ k <= Len(a)
      BY <2>1
    <3> QED BY <3>1, <3>2, <3>3
  <2> HIDE DEF a, b
  <2>2. \A k \in 1..Len(a) + Len(b) : k \in 1..Len(a) \/ k - Len(a) \in 1..Len(b)
    BY <2>0, <2>1
  <2>3. \A k \in 1..Len(b) : k + Len(a) \in 1..Len(a) + Len(b)
    BY <2>0, <2>1
  <2>4. ToSet(a \o b) \subseteq ToSet(a) \cup ToSet(b)
    <3> SUFFICES ASSUME NEW k \in 1..Len(a) + Len(b) PROVE (a \o b)[k] \in ToSet(a) \cup ToSet(b)
      BY <2>0, <2>1 DEF ToSet
    <3>1. CASE k \in 1..Len(a)
      BY <2>0, <2>1, <3>1 DEF ToSet
    <3>2. CASE k - Len(a) \in 1..Len(b)
      <4>1. (a \o b)[(k - Len(a)) + Len(a)] = b[k - Len(a)] /\ (k - Len(a)) + Len(a) = k
        BY <2>0, <2>1, <3>2
      <4> QED BY <2>0, <2>1, <3>2, <4>1 DEF ToSet
    <3> QED BY <2>2, <3>1, <3>2
  <2>5. ToSet(a) \subseteq ToSet(a \o b)
    <3>1. \A k \in 1..Len(a) : k \in 1..Len(a) + Len(b)
      BY <2>1
    <3> QED BY <2>0, <2>1, <3>1 DEF ToSet
  <2>6. ToSet(b) \subseteq ToSet(a \o b)
    BY <2>0, <2>1, <2>3 DEF ToSet
  <2> QED BY <2>4, <2>5, <2>6 DEF a, b
<1> QED BY <1>2, <1>3 DEF Merge, Collected, Entries

-----------------------------------------------------------------------------
(* The invariant.  The processes of a delta run in the order of their      *)
(* numbers, each at most once; one that was timed out is at its handler.   *)
TurnOk ==
    frame.at \in Busy =>
        /\ \A w \in Entries(writes) : w.process < frame.process
        /\ \A w \in Entries(frame.local) : w.process = frame.process
        /\ \A i \in history.late : i <= frame.process
        /\ frame.process \in history.late => frame.part = "on timeout"

(* A process that was timed out has written nothing but what its handler   *)
(* writes.                                                                 *)
MayWrite(i, part, s) == \E statement \in Code(Block(i, part)) : Writes(statement, s)

LateOk ==
    /\ \A w \in Entries(writes) :
          w.process \in history.late => MayWrite(w.process, "on timeout", w.signal)
    /\ frame.at \in Busy =>
          \A w \in Entries(frame.local) : MayWrite(frame.process, frame.part, w.signal)

(* A process that is owed a run is triggered, and had it if its turn is    *)
(* over.                                                                   *)
Triggered(i, raised) == design.processes[i].sensitivity \cap raised # {}

WakeOk ==
    /\ frame.at \in {"top", "admitting"} => \A i \in history.owed : Triggered(i, events)
    /\ frame.at = "sleeping" => history.owed = {}
    /\ frame.at \in Busy => \A i \in history.owed :
                               Triggered(i, current) /\ (i < frame.process => i \in history.ran)
    /\ frame.at = "committing" => history.owed \subseteq history.ran
    /\ outcome = "quiescent" => history.owed = {}

(* On its way a release is only passed on by who allows it.                *)
AskedOk ==
    /\ frame.at = "asking" =>
          /\ Declassifier.approval
          /\ Declassifier.filter # {} =>
                <<deltas, Statement.using, "filter", frame.content>> \in history.allowed
    /\ frame.at = "releasing" => Allows(Statement.using, deltas, frame.content)

(* What is written where only releases write has been allowed.             *)
WrittenOk ==
    \A d \in DOMAIN design.declassifiers, s \in Signals :
        OnlyReleasedBy(d, s) =>
            /\ values[s] # Null => Allows(d, history.written[s], values[s])
            /\ \A w \in Entries(writes) \cup Entries(frame.local) :
                  w.signal = s => Allows(d, deltas, w.value)

(* What a barrier has counted is what was written since it fired; it never *)
(* has counted everything.                                                 *)
BarrierOk ==
    /\ \A s \in Signals : history.written[s] <= deltas
    /\ \A b \in DOMAIN design.barriers :
          /\ history.fired[b] <= deltas
          /\ \E m \in ToSet(design.barriers[b]) : m \notin seen[b]
          /\ \A m \in seen[b] : history.written[m] >= 1 /\ history.written[m] >= history.fired[b]
          /\ \A m \in ToSet(design.barriers[b]) \ seen[b] :
                history.written[m] <= history.fired[b]

RunInv == Shape /\ DeltaOk /\ TurnOk /\ LateOk /\ WakeOk /\ AskedOk /\ WrittenOk
             /\ TicksKeepTime

-----------------------------------------------------------------------------
(* Steps inside of a process: at most one write is added, by the statement *)
(* at hand, and a release adds what is being released.                     *)
Adds(w) ==
    /\ Entries(frame'.local) = Entries(frame.local) \cup {w}
    /\ w.process = frame.process
    /\ Statement \in Within /\ Writes(Statement, w.signal)
    /\ Statement.kind = "declassify" => frame.at = "releasing" /\ w.value = frame.content

Works ==
    /\ frame.at \in Busy /\ frame'.at \in Busy
    /\ frame'.process = frame.process /\ frame'.part = frame.part
    /\ UNCHANGED <<design, values, current, seen, queue, writes, outcome, now>>
    /\ history' = [history EXCEPT !.allowed = history'.allowed]
    /\ history.allowed \subseteq history'.allowed
    /\ \/ Entries(frame'.local) = Entries(frame.local)
       \/ \E w \in Entry : Adds(w)

(* What such a step has to show for the shape.                             *)
LEMMA WorkFits ==
    ASSUME Shape, Works, frame' \in Frames(Within),
           status' \in [Parts -> {"none", "done", "failed"}], doubt' \in BOOLEAN,
           history' \in Histories,
           frame'.at = "calling" => frame'.todo # <<>> /\ Head(frame'.todo).kind = "call",
           frame'.at \in {"filtering", "asking", "releasing", "refusing"} =>
               frame'.todo # <<>> /\ Head(frame'.todo).kind = "declassify"
    PROVE  Shape'
<1>1. UNCHANGED <<design, values, current, seen, nextTick, events, deltas, writes, outcome, now>>
  BY DEF Works, queue
<1>2. Within' = Within
  BY <1>1 DEF Works, Within, Block
<1>3. /\ Frames(Within)' = Frames(Within) /\ Events' = Events /\ Collected' = Collected
      /\ Histories' = Histories
  BY <1>1, <1>2 DEF Frames, Collected, Entry, Events, Histories
<1>4. frame.process # 0
  BY DEF Works, Shape, FrameOk
<1>5. FrameOk'
  BY <1>3, <1>4 DEF FrameOk, Works, Statement
<1>6. outcome = "running" /\ OutcomeOk'
  <2>1. frame.at # "ended"
    BY DEF Works, Busy
  <2> QED BY <1>1, <2>1 DEF Shape, OutcomeOk
<1>7. SeenOk'
  BY <1>1 DEF Shape, SeenOk
<1> QED BY <1>1, <1>3, <1>5, <1>6, <1>7 DEF Shape

LEMMA StepFits ==
    ASSUME Shape, frame.at \in Busy, frame.todo # <<>>, NEW local \in Collected
    PROVE  /\ Step(local) \in Frames(Within)
           /\ Step(local).at = "running" /\ Step(local).local = local
           /\ Step(local).process = frame.process /\ Step(local).part = frame.part
<1>1. Tail(frame.todo) \in Seq(Within)
  BY StatementsAreOk
<1>2. frame \in Frames(Within)
  BY DEF Shape, FrameOk
<1> QED BY <1>1, <1>2 DEF Step, Frames, Places

LEMMA RunningStatement ==
    ASSUME Shape, NEW kind, Running(kind)
    PROVE  /\ frame.at = "running" /\ frame.at \in Busy /\ frame.todo # <<>>
           /\ Statement.kind = kind /\ Statement \in Within /\ StatementOk(design, Statement)
           /\ frame.process \in DOMAIN design.processes
           /\ frame \in Frames(Within) /\ frame.local \in Collected
<1>1. frame.at \in Busy /\ frame.todo # <<>> /\ Statement.kind = kind
  BY DEF Running, Busy, Statement
<1>2. frame \in Frames(Within)
  BY DEF Shape, FrameOk
<1>3. frame.local \in Collected
  BY <1>2 DEF Frames
<1> QED BY <1>1, <1>2, <1>3, StatementsAreOk DEF Running

LEMMA ViewFits ==
    ASSUME Shape, NEW e \in Expressions, Evaluates(e, View) PROVE ValueOf(e, View) \in Values
BY EvaluationStaysInRange DEF View, Shape

LEMMA AssignWorks ==
    ASSUME Shape, AssignSignal PROVE Works /\ Shape'
<1>1. /\ Running("assign") /\ Evaluates(Statement.value, View)
      /\ UNCHANGED <<design, values, status, current, seen, queue, writes, outcome, doubt, now, history>>
  BY DEF AssignSignal, store
<1> DEFINE v == ValueOf(Statement.value, View)
           w == [signal |-> Statement.target, value |-> v, process |-> frame.process]
           local == Drive(frame.local, Statement.target, v, frame.process)
<1>2. frame' = Step(local)
  BY DEF AssignSignal
<1>3. /\ frame.at \in Busy /\ frame.todo # <<>> /\ Statement.kind = "assign"
      /\ Statement \in Within /\ Statement.target \in Signals /\ Statement.value \in Expressions
      /\ frame.process \in DOMAIN design.processes /\ frame.local \in Collected
  BY <1>1, RunningStatement DEF StatementOk
<1>4. v \in Values
  BY <1>1, <1>3, ViewFits
<1>5. local \in Collected /\ Entries(local) = Entries(frame.local) \cup {w} /\ w \in Entry
  BY <1>3, <1>4, Driving DEF Entry
<1> HIDE DEF v, local
<1>6. /\ frame' \in Frames(Within) /\ frame'.at = "running" /\ frame'.local = local
      /\ frame'.process = frame.process /\ frame'.part = frame.part
  BY <1>2, <1>3, <1>5, StepFits
<1>7. Adds(w)
  BY <1>3, <1>5, <1>6 DEF Adds, Writes
<1>8. Works
  BY <1>1, <1>3, <1>5, <1>6, <1>7 DEF Works, Busy, Shape, Histories
<1> QED BY <1>1, <1>6, <1>8, WorkFits DEF Shape, OutcomeOk

(* Steps that only go on: to the next statement, into a block, to a wait.  *)
LEMMA GoesOn ==
    ASSUME Shape, frame.at \in Busy,
           frame' \in Frames(Within), frame'.at \in Busy,
           frame'.process = frame.process, frame'.part = frame.part,
           Entries(frame'.local) = Entries(frame.local),
           frame'.at = "calling" => frame'.todo # <<>> /\ Head(frame'.todo).kind = "call",
           frame'.at \in {"filtering", "asking", "releasing", "refusing"} =>
               frame'.todo # <<>> /\ Head(frame'.todo).kind = "declassify",
           UNCHANGED <<design, values, current, seen, queue, writes, outcome, now>>,
           history' = [history EXCEPT !.allowed = history'.allowed],
           history.allowed \subseteq history'.allowed, history' \in Histories,
           status' \in [Parts -> {"none", "done", "failed"}], doubt' \in BOOLEAN
    PROVE  Works /\ Shape'
<1>1. Works
  BY DEF Works
<1> QED BY <1>1, WorkFits

LEMMA SameHistory ==
    ASSUME Shape, history' = history
    PROVE  /\ history' = [history EXCEPT !.allowed = history'.allowed]
           /\ history.allowed \subseteq history'.allowed /\ history' \in Histories
BY DEF Shape, Histories

LEMMA AssertWorks ==
    ASSUME Shape, CheckAssertion PROVE Works /\ Shape'
<1>1. /\ Running("assert") /\ frame' = Step(frame.local)
      /\ UNCHANGED <<design, values, status, current, seen, queue, writes, outcome, doubt, now, history>>
  BY DEF CheckAssertion, store
<1>2. frame.at \in Busy /\ frame.todo # <<>> /\ frame.local \in Collected
  BY <1>1, RunningStatement
<1>3. /\ frame' \in Frames(Within) /\ frame'.at = "running" /\ frame'.local = frame.local
      /\ frame'.process = frame.process /\ frame'.part = frame.part
  BY <1>1, <1>2, StepFits
<1>4. frame'.at \in Busy /\ status' \in [Parts -> {"none", "done", "failed"}] /\ doubt' \in BOOLEAN
  BY <1>1, <1>3 DEF Busy, Shape, OutcomeOk
<1> QED BY <1>1, <1>2, <1>3, <1>4, SameHistory, GoesOn

LEMMA ChosenFits ==
    ASSUME Shape, Running("if")
    PROVE  Chosen(Statement, View) \in Blocks(Statement) /\ Chosen(Statement, View) \in Seq(Within)
<1> DEFINE branches == Statement.branches
           taken == {i \in Reached(branches, View) : Holds(branches[i].condition, View)}
<1>1. /\ \A inner \in Blocks(Statement) : inner \in Seq(Within)
      /\ branches \in Seq(ToSet(branches)) /\ Statement.kind = "if"
  BY RunningStatement, StatementsAreOk DEF StatementOk, IsSequence
<1>2. Blocks(Statement) = {Statement.otherwise} \cup {b.body : b \in ToSet(branches)}
  BY <1>1 DEF Blocks
<1>3. DOMAIN branches = 1..Len(branches) /\ Len(branches) \in Nat
  BY <1>1
<1>4. taken \subseteq DOMAIN branches
  BY DEF Reached
<1>5. Chosen(Statement, View) = IF taken = {} THEN Statement.otherwise ELSE branches[Max(taken)].body
  BY DEF Chosen
<1> HIDE DEF taken, branches
<1>6. taken # {} => Max(taken) \in DOMAIN branches
  <2>1. taken \subseteq Nat /\ \A n \in taken : n <= Len(branches)
    BY <1>3, <1>4
  <2> QED BY <1>3, <1>4, <2>1, GreatestNumber
<1>7. taken # {} => branches[Max(taken)] \in ToSet(branches)
  BY <1>6 DEF ToSet
<1> QED BY <1>1, <1>2, <1>5, <1>7

LEMMA EntersBlock ==
    ASSUME Shape, frame.at = "running", frame.at \in Busy, frame.todo # <<>>,
           NEW block \in Seq(Within), frame' = [frame EXCEPT !.todo = block \o Tail(@)],
           UNCHANGED <<design, store, queue, writes, outcome, doubt, now, history>>
    PROVE  Works /\ Shape'
<1>1. Tail(frame.todo) \in Seq(Within) /\ frame \in Frames(Within)
  BY StatementsAreOk DEF Shape, FrameOk
<1>2. block \o Tail(frame.todo) \in Seq(Within)
  BY <1>1
<1>3. /\ frame' \in Frames(Within) /\ frame'.at = "running" /\ frame'.local = frame.local
      /\ frame'.process = frame.process /\ frame'.part = frame.part
  BY <1>1, <1>2 DEF Frames
<1>4. frame'.at \in Busy /\ status' \in [Parts -> {"none", "done", "failed"}] /\ doubt' \in BOOLEAN
      /\ UNCHANGED <<values, current, seen>>
  BY <1>3 DEF Busy, Shape, OutcomeOk, store
<1> QED BY <1>3, <1>4, SameHistory, GoesOn

LEMMA BranchWorks ==
    ASSUME Shape, Branch PROVE Works /\ Shape'
<1>1. Running("if") /\ frame.at = "running" /\ frame.at \in Busy /\ frame.todo # <<>>
  BY RunningStatement DEF Branch
<1>2. Chosen(Statement, View) \in Seq(Within)
  BY <1>1, ChosenFits
<1> QED BY <1>1, <1>2, EntersBlock DEF Branch

LEMMA ParallelWorks ==
    ASSUME Shape, ParallelCalls PROVE Works /\ Shape'
<1>1. /\ frame.at = "running" /\ frame.at \in Busy /\ frame.todo # <<>>
      /\ Statement.kind = "parallel"
  BY RunningStatement DEF ParallelCalls
<1>2. Blocks(Statement) = {Statement.calls}
  BY <1>1 DEF Blocks
<1>3. Statement.calls \in Seq(Within)
  BY <1>1, <1>2, StatementsAreOk
<1> QED BY <1>1, <1>3, EntersBlock DEF ParallelCalls

LEMMA CallDeviceWorks ==
    ASSUME Shape, CallDevice PROVE Works /\ Shape'
<1>1. /\ Running("call") /\ frame' = [frame EXCEPT !.at = "calling"]
      /\ UNCHANGED <<design, values, status, current, seen, queue, writes, outcome, doubt, now, history>>
  BY DEF CallDevice, store
<1>2. /\ frame.at \in Busy /\ frame.todo # <<>> /\ Head(frame.todo).kind = "call"
      /\ frame \in Frames(Within)
  BY <1>1, RunningStatement DEF Statement
<1>3. /\ frame' \in Frames(Within) /\ frame'.at = "calling" /\ frame'.local = frame.local
      /\ frame'.process = frame.process /\ frame'.part = frame.part /\ frame'.todo = frame.todo
  BY <1>1, <1>2 DEF Frames, Places
<1>4. frame'.at \in Busy /\ status' \in [Parts -> {"none", "done", "failed"}] /\ doubt' \in BOOLEAN
  BY <1>1, <1>3 DEF Busy, Shape, OutcomeOk
<1> QED BY <1>1, <1>2, <1>3, <1>4, SameHistory, GoesOn

(* At a wait the statement is the one that waits.                          *)
LEMMA WaitingStatement ==
    ASSUME Shape, frame.at \in Busy \ {"running"}
    PROVE  /\ frame.todo # <<>> /\ Statement \in Within /\ StatementOk(design, Statement)
           /\ frame.at = "calling" => Statement.kind = "call"
           /\ frame.at # "calling" => Statement.kind = "declassify"
           /\ frame.process \in DOMAIN design.processes
           /\ frame \in Frames(Within) /\ frame.local \in Collected
<1>1. /\ frame \in Frames(Within) /\ frame.todo # <<>>
      /\ frame.at = "calling" => Statement.kind = "call"
      /\ frame.at # "calling" => Statement.kind = "declassify"
  BY DEF Shape, FrameOk, Busy
<1>2. frame.local \in Collected
  BY <1>1 DEF Frames
<1> QED BY <1>1, <1>2, StatementsAreOk

LEMMA CallSucceedsWorks ==
    ASSUME Shape, NEW result \in Results, CallSucceeds(result) PROVE Works /\ Shape'
<1> DEFINE device == Statement.device
           w == [signal |-> Statement.output, value |-> result, process |-> frame.process]
           raised == Raise(frame.local, {<<device, "done">>})
           local == Drive(raised, Statement.output, result, frame.process)
<1>1. /\ frame.at = "calling" /\ status' = [status EXCEPT ![device] = "done"]
      /\ frame' = Step(local)
      /\ UNCHANGED <<design, values, current, seen, queue, writes, outcome, doubt, now, history>>
  BY DEF CallSucceeds
<1>2. /\ frame.at \in Busy /\ frame.todo # <<>> /\ Statement.kind = "call"
      /\ Statement \in Within /\ Statement.output \in Signals /\ device \in Parts
      /\ frame.process \in DOMAIN design.processes /\ frame.local \in Collected
  BY <1>1, WaitingStatement DEF StatementOk, Busy
<1>3. result \in Values
  BY ResultsAssumption
<1>4. raised \in Collected /\ Entries(raised) = Entries(frame.local)
  BY <1>2, Raising DEF PartEvents
<1>5. local \in Collected /\ Entries(local) = Entries(frame.local) \cup {w} /\ w \in Entry
  <2> HIDE DEF raised
  <2> QED BY <1>2, <1>3, <1>4, Driving DEF Entry
<1> HIDE DEF local
<1>6. /\ frame' \in Frames(Within) /\ frame'.at = "running" /\ frame'.local = local
      /\ frame'.process = frame.process /\ frame'.part = frame.part
  BY <1>1, <1>2, <1>5, StepFits
<1>7. Adds(w)
  BY <1>2, <1>5, <1>6 DEF Adds, Writes
<1>8. Works
  BY <1>1, <1>2, <1>5, <1>6, <1>7, SameHistory DEF Works, Busy
<1>9. status' \in [Parts -> {"none", "done", "failed"}] /\ doubt' \in BOOLEAN
  BY <1>1, <1>2 DEF Shape, OutcomeOk
<1> QED BY <1>1, <1>6, <1>8, <1>9, SameHistory, WorkFits

(* The statement is over, and only events are left of it.                  *)
LEMMA OnlyRaises ==
    ASSUME Shape, frame.at \in Busy \ {"running"}, NEW E \in SUBSET PartEvents,
           frame' = Step(Raise(frame.local, E)),
           status' \in [Parts -> {"none", "done", "failed"}], doubt' \in BOOLEAN,
           UNCHANGED <<design, values, current, seen, queue, writes, outcome, now, history>>
    PROVE  Works /\ Shape'
<1> DEFINE local == Raise(frame.local, E)
<1>1. frame.todo # <<>> /\ frame.local \in Collected /\ frame.at \in Busy
  BY WaitingStatement
<1>2. local \in Collected /\ Entries(local) = Entries(frame.local)
  BY <1>1, Raising
<1> HIDE DEF local
<1>3. frame' = Step(local)
  BY DEF local
<1>4. /\ frame' \in Frames(Within) /\ frame'.at = "running" /\ frame'.local = local
      /\ frame'.process = frame.process /\ frame'.part = frame.part
  BY <1>1, <1>2, <1>3, StepFits
<1>5. frame'.at \in Busy
  BY <1>4 DEF Busy
<1> QED BY <1>1, <1>2, <1>4, <1>5, SameHistory, GoesOn

LEMMA CallEndsWorks ==
    ASSUME Shape, CallFails \/ CallTimesOut PROVE Works /\ Shape'
<1>1. PICK raised \in {{"failed"}, {"failed", "timeout"}} : CallEnds(raised)
  BY DEF CallFails, CallTimesOut
<1>2. /\ frame.at = "calling" /\ status' = [status EXCEPT ![Statement.device] = "failed"]
      /\ frame' = Step(Raise(frame.local, {<<Statement.device, what>> : what \in raised}))
      /\ doubt' \in MayDoubt(Statement.device)
      /\ UNCHANGED <<design, values, current, seen, queue, writes, outcome, now, history>>
  BY <1>1 DEF CallEnds
<1>3. frame.at \in Busy \ {"running"} /\ Statement.device \in Parts
  BY <1>2, WaitingStatement DEF StatementOk, Busy
<1>4. {<<Statement.device, what>> : what \in raised} \in SUBSET PartEvents
  BY <1>3 DEF PartEvents
<1>5. status' \in [Parts -> {"none", "done", "failed"}] /\ doubt' \in BOOLEAN
  BY <1>2, <1>3 DEF Shape, OutcomeOk, MayDoubt
<1> QED BY <1>2, <1>3, <1>4, <1>5, OnlyRaises

LEMMA RefuseWorks ==
    ASSUME Shape, RefuseRelease PROVE Works /\ Shape'
<1>1. /\ frame.at = "refusing" /\ status' = [status EXCEPT ![Statement.using] = "failed"]
      /\ frame' = Step(Raise(frame.local, {<<Statement.using, "failed">>}))
      /\ UNCHANGED <<design, values, current, seen, queue, writes, outcome, doubt, now, history>>
  BY DEF RefuseRelease
<1>2. frame.at \in Busy \ {"running"} /\ Statement.using \in Parts
  BY <1>1, WaitingStatement, DesignsAssumption DEF StatementOk, Busy, Shape, DesignOk
<1>3. {<<Statement.using, "failed">>} \in SUBSET PartEvents
  BY <1>2 DEF PartEvents
<1>4. status' \in [Parts -> {"none", "done", "failed"}] /\ doubt' \in BOOLEAN
  BY <1>1, <1>2 DEF Shape, OutcomeOk
<1> QED BY <1>1, <1>2, <1>3, <1>4, OnlyRaises

LEMMA ReleaseWorks ==
    ASSUME Shape, Release PROVE Works /\ Shape'
<1> DEFINE w == [signal |-> Statement.target, value |-> frame.content, process |-> frame.process]
           raised == Raise(frame.local, {<<Statement.using, "done">>})
           local == Drive(raised, Statement.target, frame.content, frame.process)
<1>1. /\ frame.at = "releasing" /\ status' = [status EXCEPT ![Statement.using] = "done"]
      /\ frame' = Step(local)
      /\ UNCHANGED <<design, values, current, seen, queue, writes, outcome, doubt, now, history>>
  BY DEF Release
<1>2. /\ frame.at \in Busy /\ frame.todo # <<>> /\ Statement.kind = "declassify"
      /\ Statement \in Within /\ Statement.target \in Signals /\ Statement.using \in Parts
      /\ frame.process \in DOMAIN design.processes /\ frame.local \in Collected
  BY <1>1, WaitingStatement, DesignsAssumption DEF StatementOk, Busy, Shape, DesignOk
<1>3. frame.content \in Values
  BY DEF Shape, FrameOk, Frames
<1>4. raised \in Collected /\ Entries(raised) = Entries(frame.local)
  BY <1>2, Raising DEF PartEvents
<1>5. local \in Collected /\ Entries(local) = Entries(frame.local) \cup {w} /\ w \in Entry
  <2> HIDE DEF raised
  <2> QED BY <1>2, <1>3, <1>4, Driving DEF Entry
<1> HIDE DEF local
<1>6. /\ frame' \in Frames(Within) /\ frame'.at = "running" /\ frame'.local = local
      /\ frame'.process = frame.process /\ frame'.part = frame.part
  BY <1>1, <1>2, <1>5, StepFits
<1>7. Adds(w)
  BY <1>1, <1>2, <1>5, <1>6 DEF Adds, Writes
<1>8. Works
  BY <1>1, <1>2, <1>5, <1>6, <1>7, SameHistory DEF Works, Busy
<1>9. status' \in [Parts -> {"none", "done", "failed"}] /\ doubt' \in BOOLEAN
  BY <1>1, <1>2 DEF Shape, OutcomeOk
<1> QED BY <1>1, <1>6, <1>8, <1>9, SameHistory, WorkFits

(* The statement stays at hand, on the way to its release or refusal.      *)
LEMMA TravelsOn ==
    ASSUME Shape, frame.at \in Busy, frame.todo # <<>>, Statement.kind = "declassify",
           NEW place \in {"filtering", "asking", "releasing", "refusing"},
           NEW content \in Values, NEW asked \in Nat,
           frame' = [frame EXCEPT !.at = place, !.content = content, !.asked = asked],
           history' = [history EXCEPT !.allowed = history'.allowed],
           history.allowed \subseteq history'.allowed, history' \in Histories,
           UNCHANGED <<design, store, queue, writes, outcome, doubt, now>>
    PROVE  Works /\ Shape'
<1>1. frame \in Frames(Within)
  BY DEF Shape, FrameOk
<1>2. /\ frame' \in Frames(Within) /\ frame'.at = place /\ frame'.local = frame.local
      /\ frame'.process = frame.process /\ frame'.part = frame.part /\ frame'.todo = frame.todo
  BY <1>1 DEF Frames, Places
<1>3. /\ frame'.at \in Busy /\ frame'.at # "calling"
      /\ status' \in [Parts -> {"none", "done", "failed"}] /\ doubt' \in BOOLEAN
      /\ UNCHANGED <<values, current, seen>>
  BY <1>2 DEF Busy, Shape, OutcomeOk, store
<1> QED BY <1>2, <1>3, GoesOn DEF Statement

LEMMA AskingFits ==
    ASSUME Shape, NEW content \in Values, frame' = AskOrRelease(content)
    PROVE  \E place \in {"asking", "releasing"} :
              frame' = [frame EXCEPT !.at = place, !.content = content, !.asked = now]
BY DEF AskOrRelease

LEMMA DeclassifyWorks ==
    ASSUME Shape, Declassify PROVE Works /\ Shape'
<1> DEFINE content == ValueOf(Statement.value, View)
<1>1. /\ Running("declassify") /\ Evaluates(Statement.value, View)
      /\ UNCHANGED <<design, store, queue, writes, outcome, doubt, now, history>>
      /\ \/ frame' = AskOrRelease(content)
         \/ frame' = [frame EXCEPT !.at = "filtering", !.content = content]
  BY DEF Declassify
<1>2. /\ frame.at \in Busy /\ frame.todo # <<>> /\ Statement.kind = "declassify"
      /\ Statement.value \in Expressions
  BY <1>1, RunningStatement DEF StatementOk
<1>3. content \in Values
  BY <1>1, <1>2, ViewFits
<1>4. frame.asked \in Nat /\ now \in Nat
  BY DEF Shape, FrameOk, Frames
<1> HIDE DEF content
<1>5. CASE frame' = AskOrRelease(content)
  <2>1. PICK place \in {"asking", "releasing"} :
            frame' = [frame EXCEPT !.at = place, !.content = content, !.asked = now]
    BY <1>3, <1>5, AskingFits
  <2>2. place \in {"filtering", "asking", "releasing", "refusing"} /\ history' = history
    BY <1>1
  <2> QED BY <1>1, <1>2, <1>3, <1>4, <2>1, <2>2, SameHistory, TravelsOn
<1>6. CASE frame' = [frame EXCEPT !.at = "filtering", !.content = content]
  <2>1. frame' = [frame EXCEPT !.at = "filtering", !.content = content, !.asked = frame.asked]
    BY <1>6 DEF Shape, FrameOk, Frames
  <2> QED BY <1>1, <1>2, <1>3, <1>4, <2>1, SameHistory, TravelsOn
<1> QED BY <1>1, <1>5, <1>6

(* Someone allows the release.                                             *)
LEMMA AllowingFits ==
    ASSUME Shape, frame.at \in {"filtering", "asking"}, NEW means \in {"filter", "human"},
           NEW content \in Values,
           history' = [history EXCEPT !.allowed = @ \cup {<<deltas, Statement.using, means, content>>}]
    PROVE  /\ history' = [history EXCEPT !.allowed = history'.allowed]
           /\ history.allowed \subseteq history'.allowed /\ history' \in Histories
<1>1. Statement.using \in Parts /\ deltas \in Nat
  BY WaitingStatement, DesignsAssumption DEF StatementOk, Busy, Shape, DesignOk
<1>2. <<deltas, Statement.using, means, content>> \in Nat \X Parts \X {"filter", "human"} \X Values
  BY <1>1
<1>3. history \in Histories
  BY DEF Shape
<1> QED BY <1>2, <1>3 DEF Histories

LEMMA FilterWorks ==
    ASSUME Shape, NEW pass \in BOOLEAN, FilterAnswers(pass) PROVE Works /\ Shape'
<1>1. /\ frame.at = "filtering" /\ UNCHANGED <<design, store, queue, writes, outcome, doubt, now>>
      /\ pass => /\ frame' = AskOrRelease(frame.content)
                 /\ history' = [history EXCEPT !.allowed =
                                   @ \cup {<<deltas, Statement.using, "filter", frame.content>>}]
      /\ ~pass => frame' = [frame EXCEPT !.at = "refusing"] /\ history' = history
  BY DEF FilterAnswers
<1>2. /\ frame.at \in Busy /\ frame.todo # <<>> /\ Statement.kind = "declassify"
      /\ frame.content \in Values /\ frame.asked \in Nat /\ now \in Nat
  BY <1>1, WaitingStatement DEF Busy, Shape, FrameOk, Frames
<1>3. CASE pass
  <2>1. PICK place \in {"asking", "releasing"} :
            frame' = [frame EXCEPT !.at = place, !.content = frame.content, !.asked = now]
    BY <1>1, <1>2, <1>3, AskingFits
  <2>2. place \in {"filtering", "asking", "releasing", "refusing"}
    OBVIOUS
  <2>3. /\ history' = [history EXCEPT !.allowed = history'.allowed]
        /\ history.allowed \subseteq history'.allowed /\ history' \in Histories
    BY <1>1, <1>2, <1>3, AllowingFits
  <2> QED BY <1>1, <1>2, <2>1, <2>2, <2>3, TravelsOn
<1>4. CASE ~pass
  <2>1. frame' = [frame EXCEPT !.at = "refusing", !.content = frame.content, !.asked = frame.asked]
    BY <1>1, <1>4 DEF Shape, FrameOk, Frames
  <2> QED BY <1>1, <1>2, <1>4, <2>1, SameHistory, TravelsOn
<1> QED BY <1>3, <1>4

LEMMA HumanWorks ==
    ASSUME Shape, NEW granted \in BOOLEAN, NEW echo \in Results, HumanAnswers(granted, echo)
    PROVE  Works /\ Shape'
<1> DEFINE valid == granted /\ echo = frame.content /\ now <= frame.asked + Ttl
<1>1. /\ frame.at = "asking" /\ UNCHANGED <<design, store, queue, writes, outcome, doubt, now>>
      /\ frame' = [frame EXCEPT !.at = IF valid THEN "releasing" ELSE "refusing"]
      /\ valid => history' = [history EXCEPT !.allowed =
                                 @ \cup {<<deltas, Statement.using, "human", echo>>}]
      /\ ~valid => history' = history
  BY DEF HumanAnswers
<1> HIDE DEF valid
<1>2. /\ frame.at \in Busy /\ frame.todo # <<>> /\ Statement.kind = "declassify"
      /\ frame.content \in Values /\ frame.asked \in Nat /\ echo \in Values
  BY <1>1, WaitingStatement, ResultsAssumption DEF Busy, Shape, FrameOk, Frames
<1>3. /\ history' = [history EXCEPT !.allowed = history'.allowed]
      /\ history.allowed \subseteq history'.allowed /\ history' \in Histories
  BY <1>1, <1>2, SameHistory, AllowingFits
<1>4. PICK place \in {"filtering", "asking", "releasing", "refusing"} :
          frame' = [frame EXCEPT !.at = place, !.content = frame.content, !.asked = frame.asked]
  <2>1. frame \in Frames(Within)
    BY DEF Shape, FrameOk
  <2>2. PICK place \in {"releasing", "refusing"} : frame' = [frame EXCEPT !.at = place]
    BY <1>1
  <2>3. frame' = [frame EXCEPT !.at = place, !.content = frame.content, !.asked = frame.asked]
    BY <2>1, <2>2 DEF Frames
  <2> QED BY <2>3
<1>5. UNCHANGED <<design, store, queue, writes, outcome, doubt, now>>
  BY <1>1
<1> QED BY <1>2, <1>3, <1>4, <1>5, TravelsOn

-----------------------------------------------------------------------------
(* Steps between processes.                                                *)
Halts ==
    /\ frame' = At("ended")
    /\ UNCHANGED <<design, store, queue, writes, doubt, now, history>>
    /\ outcome' \in {"quiescent", "exhausted", "failed"}
    /\ outcome' = "quiescent" => frame.at = "top" /\ events = {}

Stays ==
    /\ UNCHANGED <<design, store, queue, writes, frame, doubt, history>>
    /\ now' \in Nat /\ now <= now'
    /\ \/ outcome' = outcome
       \/ frame.at = "ended" /\ outcome' \in {"failed", "completed"}

LEMMA PlaceFits ==
    ASSUME Shape, NEW place \in Places \ Busy, frame' = At(place), design' = design
    PROVE  FrameOk' /\ frame'.at = place /\ frame'.local = NoWrites /\ frame'.process = 0
<1>1. /\ frame'.at = place /\ frame'.process = 0 /\ frame'.todo = <<>>
      /\ frame'.local = NoWrites
  BY DEF At
<1>2. Within' = {} /\ Collected' = Collected
  BY <1>1 DEF Within, Collected, Entry
<1>3. At(place) \in [at : Places, process : DOMAIN design.processes \cup {0},
                     part : {"body", "on timeout"}, todo : Seq({}), local : Collected,
                     content : Values, asked : Nat]
  BY NothingCollected DEF At, Values
<1>4. frame' \in Frames(Within)'
  BY <1>2, <1>3 DEF Frames
<1> QED BY <1>1, <1>4 DEF FrameOk, Busy

(* The shape when neither the frame nor the store is in question.          *)
LEMMA RestFits ==
    ASSUME Shape, FrameOk', OutcomeOk', design' = design,
           UNCHANGED <<store, queue, writes, history>>, now' \in Nat
    PROVE  Shape'
<1>1. UNCHANGED <<values, status, current, seen, nextTick, events, deltas, writes, history>>
  BY DEF store, queue
<1>2. Events' = Events /\ Collected' = Collected /\ Histories' = Histories
  BY DEF Events, Collected, Entry, Histories
<1>3. SeenOk'
  BY <1>1 DEF Shape, SeenOk
<1> QED BY <1>1, <1>2, <1>3 DEF Shape

LEMMA HaltsFits ==
    ASSUME Shape, Halts PROVE Shape'
<1>1. /\ frame' = At("ended") /\ design' = design /\ doubt' = doubt
      /\ outcome' \in {"quiescent", "exhausted", "failed"} /\ now' = now
      /\ UNCHANGED <<store, queue, writes, history>>
  BY DEF Halts
<1>2. FrameOk' /\ frame'.at = "ended"
  BY <1>1, PlaceFits DEF Places, Busy
<1>3. OutcomeOk' /\ now' \in Nat
  BY <1>1, <1>2 DEF OutcomeOk, Shape
<1> QED BY <1>1, <1>2, <1>3, RestFits

LEMMA StaysFits ==
    ASSUME Shape, Stays PROVE Shape'
<1>1. /\ frame' = frame /\ design' = design /\ doubt' = doubt /\ now' \in Nat
      /\ UNCHANGED <<store, queue, writes, history>>
      /\ \/ outcome' = outcome
         \/ frame.at = "ended" /\ outcome' \in {"failed", "completed"}
  BY DEF Stays
<1>2. Within' = Within /\ Collected' = Collected
  BY <1>1 DEF Within, Block, Collected, Entry
<1>3. FrameOk'
  BY <1>1, <1>2 DEF Shape, FrameOk, Frames, Statement
<1>4. OutcomeOk'
  BY <1>1 DEF OutcomeOk, Shape
<1> QED BY <1>1, <1>3, <1>4, RestFits

LEMMA GoesFits ==
    ASSUME Shape, Sleep \/ HasEvents PROVE Shape'
<1>1. /\ frame.at = "top" /\ design' = design /\ doubt' = doubt /\ outcome' = outcome
      /\ now' = now /\ UNCHANGED <<store, queue, writes, history>>
  BY DEF Sleep, HasEvents
<1>2. FrameOk'
  BY <1>1, PlaceFits DEF Sleep, HasEvents, Places, Busy
<1>3. OutcomeOk' /\ now' \in Nat
  BY <1>1 DEF OutcomeOk, Shape
<1> QED BY <1>1, <1>2, <1>3, RestFits

-----------------------------------------------------------------------------
(* The next process, if any, is the first triggered one.                   *)
LEMMA NextIsFirst ==
    ASSUME Shape, NEW i \in Nat, NEW raised
    PROVE  LET next == NextTriggered(design, i, raised) IN
           /\ \/ next = 0
              \/ next \in DOMAIN design.processes /\ i < next
           /\ \A j \in DOMAIN design.processes :
                 Triggered(j, raised) /\ i < j => next # 0 /\ next <= j
<1> DEFINE S == {j \in DOMAIN design.processes :
                    j > i /\ design.processes[j].sensitivity \cap raised # {}}
<1>1. S \subseteq Nat /\ 0 \notin S
  BY ProcessNumbers
<1>2. S # {} => Min(S) \in S /\ \A n \in S : Min(S) <= n
  BY <1>1, LeastNumber
<1>3. NextTriggered(design, i, raised) = IF S = {} THEN 0 ELSE Min(S)
  BY DEF NextTriggered
<1>4. \A j \in DOMAIN design.processes : Triggered(j, raised) /\ i < j => j \in S
  BY ProcessNumbers DEF Triggered
<1>5. \A j \in S : j \in DOMAIN design.processes /\ i < j
  BY ProcessNumbers
<1> HIDE DEF S
<1> QED BY <1>1, <1>2, <1>3, <1>4, <1>5

LEMMA FrameAfterFits ==
    ASSUME Shape, NEW i \in Nat, NEW raised, frame' = FrameAfter(i, raised), design' = design
    PROVE  /\ FrameOk' /\ frame'.local = NoWrites /\ frame'.part = "body"
           /\ \/ /\ frame'.at = "committing" /\ frame'.process = 0
                 /\ \A j \in DOMAIN design.processes : Triggered(j, raised) => j <= i
              \/ /\ frame'.at = "running" /\ frame'.process \in DOMAIN design.processes
                 /\ i < frame'.process
                 /\ \A j \in DOMAIN design.processes :
                       Triggered(j, raised) /\ i < j => frame'.process <= j
<1> DEFINE next == NextTriggered(design, i, raised)
<1>1. /\ \/ next = 0
         \/ next \in DOMAIN design.processes /\ i < next
      /\ \A j \in DOMAIN design.processes :
            Triggered(j, raised) /\ i < j => next # 0 /\ next <= j
  BY NextIsFirst
<1>2. frame' = IF next = 0 THEN At("committing") ELSE Body(next)
  BY DEF FrameAfter
<1> HIDE DEF next
<1>3. CASE next = 0
  <2>1. FrameOk' /\ frame'.at = "committing" /\ frame'.local = NoWrites /\ frame'.process = 0
    BY <1>2, <1>3, PlaceFits DEF Places, Busy
  <2>2. frame'.part = "body"
    BY <1>2, <1>3 DEF At
  <2>3. \A j \in DOMAIN design.processes : Triggered(j, raised) => j <= i
    BY <1>1, <1>3, ProcessNumbers
  <2> QED BY <2>1, <2>2, <2>3
<1>4. CASE next # 0
  <2>1. next \in DOMAIN design.processes /\ i < next
    BY <1>1, <1>4
  <2>2. /\ frame'.at = "running" /\ frame'.process = next /\ frame'.part = "body"
        /\ frame'.todo = design.processes[next].body /\ frame'.local = NoWrites
    BY <1>2, <1>4 DEF Body, At
  <2>3. BlockOk(design, Block(next, "body"))
    BY <2>1, BlocksAreOk
  <2>4. Within' = Code(Block(next, "body")) /\ frame'.todo = Block(next, "body")
    BY <1>4, <2>2 DEF Within, Block
  <2>5. Collected' = Collected
    BY DEF Collected, Entry
  <2>6. frame' \in Frames(Within)'
    <3> DEFINE todo == design.processes[next].body
    <3>1. todo \in Seq(Within')
      BY <2>2, <2>3, <2>4, BlocksHold
    <3>2. frame' = [at |-> "running", process |-> next, part |-> "body", todo |-> todo,
                    local |-> NoWrites, content |-> Null, asked |-> 0]
      BY <1>2, <1>4, <2>2 DEF Body, At
    <3> HIDE DEF todo
    <3>3. "running" \in Places /\ Null \in Values /\ NoWrites \in Collected
      BY NothingCollected DEF Places, Values
    <3>4. frame' \in Frames(Within')
      BY <2>1, <3>1, <3>2, <3>3 DEF Frames
    <3> QED BY <2>5, <3>4 DEF Frames
  <2>7. FrameOk'
    BY <1>4, <2>2, <2>6 DEF FrameOk, Busy
  <2> QED BY <1>1, <1>4, <2>1, <2>2, <2>7
<1> QED BY <1>3, <1>4

(* What the end of a delta makes of the writes.                            *)
LEMMA LastWriteCounts ==
    ASSUME NEW w \in Collected, NEW old \in [Signals -> Values]
    PROVE  /\ Driven(w.signals) \subseteq Signals
           /\ Applied(old, w.signals) \in [Signals -> Values]
           /\ \A s \in Signals \ Driven(w.signals) : Applied(old, w.signals)[s] = old[s]
           /\ \A s \in Driven(w.signals) : \E e \in Entries(w) :
                 e.signal = s /\ Applied(old, w.signals)[s] = e.value
<1> DEFINE signals == w.signals
           last(s) == Max(WritesOf(signals, s))
<1>1. signals \in Seq(Entry)
  BY DEF Collected
<1> HIDE DEF signals
<1>2. /\ DOMAIN signals = 1..Len(signals) /\ Len(signals) \in Nat
      /\ \A k \in DOMAIN signals : signals[k] \in Entry
  BY <1>1
<1>3. \A k \in DOMAIN signals : signals[k].signal \in Signals /\ signals[k].value \in Values
  BY <1>2 DEF Entry
<1>4. ASSUME NEW s \in Driven(signals)
      PROVE  last(s) \in DOMAIN signals /\ signals[last(s)].signal = s
  <2>1. WritesOf(signals, s) # {} /\ WritesOf(signals, s) \subseteq DOMAIN signals
    BY <1>4 DEF WritesOf, Driven
  <2>2. WritesOf(signals, s) \subseteq Nat /\ \A k \in WritesOf(signals, s) : k <= Len(signals)
    BY <1>2, <2>1
  <2>3. Max(WritesOf(signals, s)) \in WritesOf(signals, s)
    BY <1>2, <2>1, <2>2, GreatestNumber
  <2> QED BY <2>3 DEF WritesOf
<1>5. Driven(signals) \subseteq Signals
  BY <1>3 DEF Driven
<1>6. Applied(old, signals) =
          [s \in Signals |-> IF s \in Driven(signals) THEN signals[last(s)].value ELSE old[s]]
  BY DEF Applied
<1> HIDE DEF last
<1>7. Applied(old, signals) \in [Signals -> Values]
  BY <1>3, <1>4, <1>6
<1>8. ASSUME NEW s \in Driven(signals)
      PROVE  \E e \in ToSet(signals) : e.signal = s /\ Applied(old, signals)[s] = e.value
  <2>1. signals[last(s)] \in ToSet(signals)
    BY <1>4 DEF ToSet
  <2> QED BY <1>4, <1>5, <1>6, <2>1
<1> QED BY <1>5, <1>6, <1>7, <1>8 DEF signals, Entries

LEMMA FireTimersFits ==
    ASSUME Shape, FireTimers PROVE Shape'
<1>1. /\ frame.at = "sleeping" /\ design' = design /\ doubt' = doubt /\ outcome' = outcome
      /\ now' = now /\ UNCHANGED <<values, status, current, seen, deltas, writes>>
      /\ frame' = At("admitting") /\ nextTick' = Advance(design, nextTick)
      /\ events' = {<<t, "tick">> : t \in DueTimers(nextTick)}
      /\ history' = [history EXCEPT !.ticks =
                      [t \in DOMAIN @ |-> IF t \in DueTimers(nextTick) THEN @[t] + 1 ELSE @[t]]]
  BY DEF FireTimers, store
<1>2. FrameOk' /\ OutcomeOk'
  BY <1>1, PlaceFits DEF Places, Busy, OutcomeOk, Shape
<1>3. /\ design.timers \in [DOMAIN design.timers -> Nat]
      /\ nextTick \in [DOMAIN design.timers -> Nat] /\ history \in Histories
  BY DesignsAssumption DEF Shape, DesignOk
<1>4. nextTick' \in [DOMAIN design.timers -> Nat]
  BY <1>1, <1>3 DEF Advance
<1>5. events' \subseteq Events
  <2>1. DueTimers(nextTick) \subseteq DOMAIN design.timers
    BY <1>3 DEF DueTimers
  <2> QED BY <1>1, <2>1 DEF Events
<1>6. history' \in Histories
  <2>1. history.ticks \in [DOMAIN design.timers -> Nat]
    BY <1>3 DEF Histories
  <2>2. history'.ticks \in [DOMAIN design.timers -> Nat] /\ history' = [history EXCEPT !.ticks = history'.ticks]
    BY <1>1, <1>3, <2>1 DEF Histories
  <2> QED BY <1>3, <2>2 DEF Histories
<1>7. Events' = Events /\ Collected' = Collected /\ Histories' = Histories /\ SeenOk'
  BY <1>1 DEF Events, Collected, Entry, Histories, Shape, SeenOk
<1> QED BY <1>1, <1>2, <1>4, <1>5, <1>6, <1>7 DEF Shape

LEMMA BeginDeltaFits ==
    ASSUME Shape, BeginDelta PROVE Shape'
<1>1. /\ frame.at = "admitting" /\ frame' = FrameAfter(0, events)
      /\ deltas' = IF deltas < MaxDeltas THEN deltas + 1 ELSE deltas
      /\ current' = events /\ events' = {} /\ writes' = NoWrites
      /\ history' = [history EXCEPT !.ran = {}, !.late = {}]
      /\ UNCHANGED <<design, values, status, seen, nextTick, outcome, doubt, now>>
  BY DEF BeginDelta
<1>2. FrameOk' /\ frame'.at # "ended"
  BY <1>1, FrameAfterFits
<1>3. OutcomeOk'
  BY <1>1, <1>2 DEF OutcomeOk, Shape
<1>4. Events' = Events /\ Collected' = Collected /\ Histories' = Histories /\ SeenOk'
  BY <1>1 DEF Events, Collected, Entry, Histories, Shape, SeenOk
<1>5. deltas' \in Nat /\ writes' \in Collected
  BY <1>1, NothingCollected DEF Shape
<1>6. history' \in Histories
  BY <1>1 DEF Shape, Histories
<1> QED BY <1>1, <1>2, <1>3, <1>4, <1>5, <1>6 DEF Shape

LEMMA ProcessEndsFits ==
    ASSUME Shape, ProcessEnds PROVE Shape'
<1>1. /\ frame.at = "running" /\ writes' = Merge(writes, frame.local)
      /\ frame' = FrameAfter(frame.process, current)
      /\ history' = [history EXCEPT !.ran = @ \cup {frame.process}]
      /\ UNCHANGED <<design, values, status, current, seen, nextTick, events, deltas, outcome, doubt, now>>
  BY DEF ProcessEnds, store, queue
<1>2. frame.process \in DOMAIN design.processes /\ frame.process \in Nat /\ frame.local \in Collected
  BY <1>1, StatementsAreOk, ProcessNumbers DEF Busy, Shape, FrameOk, Frames
<1>3. FrameOk' /\ frame'.at # "ended"
  BY <1>1, <1>2, FrameAfterFits
<1>4. OutcomeOk'
  BY <1>1, <1>3 DEF OutcomeOk, Shape
<1>5. writes' \in Collected
  BY <1>1, <1>2, Merging DEF Shape
<1>6. /\ Events' = Events /\ Collected' = Collected /\ Histories' = Histories /\ SeenOk'
      /\ history' \in Histories
  BY <1>1, <1>2 DEF Events, Collected, Entry, Histories, Shape, SeenOk
<1> QED BY <1>1, <1>3, <1>4, <1>5, <1>6 DEF Shape

LEMMA TimesOutFits ==
    ASSUME Shape, ProcessTimesOut PROVE Shape' /\ frame'.at = "running"
<1>1. /\ frame.at \in {"calling", "filtering", "asking"}
      /\ frame' = Handler(frame.process, NoWrites)
      /\ doubt' \in IF frame.at = "calling" THEN MayDoubt(Statement.device) ELSE {doubt}
      /\ history' = [history EXCEPT !.late = @ \cup {frame.process}]
      /\ UNCHANGED <<design, store, queue, writes, outcome, now>>
  BY DEF ProcessTimesOut, MayTimeOut
<1> DEFINE i == frame.process
           todo == design.processes[i].onTimeout
<1>2. i \in DOMAIN design.processes /\ i \in Nat /\ i # 0
  BY <1>1, StatementsAreOk, ProcessNumbers DEF Busy
<1>3. BlockOk(design, Block(i, "on timeout")) /\ todo = Block(i, "on timeout")
  BY <1>2, BlocksAreOk DEF Block
<1>4. frame' = [at |-> "running", process |-> i, part |-> "on timeout", todo |-> todo,
                local |-> NoWrites, content |-> Null, asked |-> 0]
  BY <1>1 DEF Handler, At
<1> HIDE DEF todo, i
<1>5. Within' = Code(Block(i, "on timeout")) /\ Collected' = Collected
  <2>1. frame'.process = i /\ frame'.part = "on timeout" /\ design' = design
    <3>1. design' = design
      BY DEF ProcessTimesOut
    <3>2. frame'.process = i /\ frame'.part = "on timeout"
      BY <1>4
    <3> QED BY <3>1, <3>2
  <2>2. Within' = Code(Block(i, "on timeout"))
    BY <1>2, <2>1 DEF Within, Block
  <2> QED BY <2>1, <2>2 DEF Collected, Entry
<1>6. todo \in Seq(Within')
  BY <1>3, <1>5, BlocksHold
<1>7. "running" \in Places /\ Null \in Values /\ NoWrites \in Collected
  BY NothingCollected DEF Places, Values
<1>8. frame' \in Frames(Within')
  BY <1>2, <1>4, <1>6, <1>7 DEF Frames
<1>9. frame' \in Frames(Within)'
  BY <1>1, <1>5, <1>8 DEF Frames
<1>10. FrameOk' /\ frame'.at = "running"
  BY <1>2, <1>4, <1>9 DEF FrameOk, Busy
<1>11. outcome = "running" /\ doubt' \in BOOLEAN
  BY <1>1 DEF Shape, OutcomeOk, MayDoubt
<1>12. OutcomeOk'
  BY <1>1, <1>11 DEF OutcomeOk
<1>13. UNCHANGED <<values, status, current, seen, nextTick, events, deltas>>
  BY <1>1 DEF store, queue
<1>14. /\ Events' = Events /\ Histories' = Histories /\ SeenOk' /\ history' \in Histories
  BY <1>1, <1>2, <1>13 DEF Events, Histories, Shape, SeenOk, i
<1> QED BY <1>1, <1>5, <1>10, <1>12, <1>13, <1>14 DEF Shape

(* What a commit does, spelled out.                                        *)
Committed == Applied(values, writes.signals)

CommitHistory ==
    [history EXCEPT
        !.written = [s \in Signals |-> IF s \in Driven(writes.signals) THEN deltas ELSE @[s]],
        !.fired = [b \in DOMAIN @ |->
                      IF <<b, "ready">> \in BarrierEvents(design, seen, Driven(writes.signals))
                      THEN deltas ELSE @[b]],
        !.owed = Owed({s \in Signals : Committed[s] # values[s]})]

LEMMA CommitSteps ==
    ASSUME Commit
    PROVE  /\ frame.at = "committing" /\ values' = Committed /\ current' = {}
           /\ seen' = [b \in DOMAIN seen |->
                          SeenAfter(design.barriers[b], seen[b], Driven(writes.signals))]
           /\ events' = writes.events \cup ChangeEvents(values, Committed)
                           \cup BarrierEvents(design, seen, Driven(writes.signals))
           /\ history' = CommitHistory
           /\ \/ frame' = At("top") /\ outcome' = outcome
              \/ frame' = At("ended") /\ outcome' = "failed"
           /\ UNCHANGED <<design, status, nextTick, deltas, writes, doubt, now>>
BY DEF Commit, End, Committed, CommitHistory

LEMMA CommitHistoryFits ==
    ASSUME Shape
    PROVE  /\ CommitHistory \in Histories
           /\ CommitHistory.written =
                 [s \in Signals |-> IF s \in Driven(writes.signals) THEN deltas
                                    ELSE history.written[s]]
           /\ CommitHistory.fired =
                 [b \in DOMAIN design.barriers |->
                    IF <<b, "ready">> \in BarrierEvents(design, seen, Driven(writes.signals))
                    THEN deltas ELSE history.fired[b]]
           /\ CommitHistory.owed = Owed({s \in Signals : Committed[s] # values[s]})
           /\ CommitHistory.ticks = history.ticks /\ CommitHistory.allowed = history.allowed
           /\ CommitHistory.ran = history.ran /\ CommitHistory.late = history.late
<1> DEFINE driven == Driven(writes.signals)
           ready == BarrierEvents(design, seen, Driven(writes.signals))
           written == [s \in Signals |-> IF s \in driven THEN deltas ELSE history.written[s]]
           fired == [b \in DOMAIN design.barriers |->
                       IF <<b, "ready">> \in ready THEN deltas ELSE history.fired[b]]
           owed == Owed({s \in Signals : Committed[s] # values[s]})
<1>1. /\ history \in Histories /\ deltas \in Nat /\ DOMAIN history.fired = DOMAIN design.barriers
      /\ history.written \in [Signals -> Nat] /\ history.fired \in [DOMAIN design.barriers -> Nat]
  BY DEF Shape, Histories
<1>2. written \in [Signals -> Nat] /\ fired \in [DOMAIN design.barriers -> Nat]
  BY <1>1
<1>3. owed \in SUBSET DOMAIN design.processes
  BY DEF Owed
<1>4. CommitHistory = [history EXCEPT !.written = written, !.fired = fired, !.owed = owed]
  BY <1>1 DEF CommitHistory
<1> HIDE DEF written, fired, owed
<1>5. /\ CommitHistory \in Histories
      /\ CommitHistory.written = written /\ CommitHistory.fired = fired
      /\ CommitHistory.owed = owed
      /\ CommitHistory.ticks = history.ticks /\ CommitHistory.allowed = history.allowed
      /\ CommitHistory.ran = history.ran /\ CommitHistory.late = history.late
  BY <1>1, <1>2, <1>3, <1>4 DEF Histories
<1> QED BY <1>5 DEF written, fired, owed

LEMMA CommitFits ==
    ASSUME Shape, Commit PROVE Shape'
<1> DEFINE driven == Driven(writes.signals)
<1>1. /\ values' = Committed /\ current' = {}
      /\ seen' = [b \in DOMAIN seen |-> SeenAfter(design.barriers[b], seen[b], driven)]
      /\ events' = writes.events \cup ChangeEvents(values, Committed)
                      \cup BarrierEvents(design, seen, driven)
      /\ history' = CommitHistory /\ frame.at = "committing"
      /\ UNCHANGED <<design, status, nextTick, deltas, writes, doubt, now>>
  BY CommitSteps
<1>2. \/ frame' = At("top") /\ outcome' = outcome
      \/ frame' = At("ended") /\ outcome' = "failed"
  BY CommitSteps
<1>3. FrameOk' /\ frame'.at \in {"top", "ended"}
      /\ (frame' = At("ended") => frame'.at = "ended")
  BY <1>1, <1>2, PlaceFits DEF Places, Busy
<1>4. OutcomeOk'
  BY <1>1, <1>2, <1>3 DEF OutcomeOk, Shape
<1>5. values' \in [Signals -> Values]
  BY <1>1, LastWriteCounts DEF Committed, Shape
<1>6. design.barriers \in [DOMAIN design.barriers -> Seq(Signals) \ {<<>>}]
  BY DesignsAssumption DEF Shape, DesignOk
<1>7. SeenOk'
  <2>1. seen \in [DOMAIN design.barriers -> SUBSET Signals]
        /\ \A b \in DOMAIN design.barriers : seen[b] \subseteq ToSet(design.barriers[b])
    BY DEF Shape, SeenOk
  <2>2. ASSUME NEW b \in DOMAIN design.barriers
        PROVE  /\ SeenAfter(design.barriers[b], seen[b], driven) \subseteq ToSet(design.barriers[b])
               /\ ToSet(design.barriers[b]) \subseteq Signals
    <3>1. design.barriers[b] \in Seq(Signals)
      BY <1>6, <2>2
    <3>2. ToSet(design.barriers[b]) \subseteq Signals
      BY <3>1 DEF ToSet
    <3> QED BY <2>1, <3>2 DEF SeenAfter
  <2> QED BY <1>1, <2>1, <2>2 DEF SeenOk
<1>8. events' \subseteq Events
  <2>1. writes.events \subseteq PartEvents
    BY DEF Shape, Collected
  <2> QED BY <1>1, <2>1 DEF PartEvents, Events, ChangeEvents, BarrierEvents
<1>9. history' \in Histories
  BY <1>1, CommitHistoryFits
<1>10. Events' = Events /\ Collected' = Collected /\ Histories' = Histories
  BY <1>1 DEF Events, Collected, Entry, Histories
<1> QED BY <1>1, <1>3, <1>4, <1>5, <1>7, <1>8, <1>9, <1>10 DEF Shape

(* Every step is of one of these kinds.                                    *)
LEMMA Moves ==
    ASSUME Shape, [Next]_vars
    PROVE  /\ Shape'
           /\ \/ Works \/ Halts \/ Stays \/ Sleep \/ HasEvents
              \/ FireTimers \/ BeginDelta \/ ProcessEnds \/ ProcessTimesOut \/ Commit
<1>1. CASE OutOfWallTime \/ Quiesce \/ SleepOut \/ OutOfIterations \/ Conflict \/ Fail \/ AuditFails
  <2>1. Halts
    BY <1>1 DEF OutOfWallTime, Quiesce, SleepOut, OutOfIterations, Conflict, Fail, AuditFails,
                End, Halts
  <2> QED BY <2>1, HaltsFits
<1>2. CASE Judge \/ Tick \/ UNCHANGED vars
  <2>1. now \in Nat
    BY DEF Shape
  <2>2. Stays
    BY <1>2, <2>1 DEF Judge, Judged, Tick, vars, Stays
  <2> QED BY <2>2, StaysFits
<1>3. CASE ProcessStep \/ CallStep \/ ReleaseStep
  <2>1. CASE Fail
    BY <1>1, <2>1
  <2>2. CASE ProcessEnds
    BY <2>2, ProcessEndsFits
  <2>3. CASE ~Fail /\ ~ProcessEnds
    BY <1>3, <2>3, AssignWorks, AssertWorks, BranchWorks, ParallelWorks, CallDeviceWorks,
       CallSucceedsWorks, CallEndsWorks, DeclassifyWorks, ReleaseWorks, RefuseWorks,
       FilterWorks, HumanWorks
       DEF ProcessStep, CallStep, ReleaseStep
  <2> QED BY <2>1, <2>2, <2>3
<1>4. CASE Sleep \/ HasEvents
  BY <1>4, GoesFits
<1>5. CASE FireTimers
  BY <1>5, FireTimersFits
<1>6. CASE BeginDelta
  BY <1>6, BeginDeltaFits
<1>7. CASE Commit
  BY <1>7, CommitFits
<1>8. CASE ProcessTimesOut
  BY <1>8, TimesOutFits
<1> QED BY <1>1, <1>2, <1>3, <1>4, <1>5, <1>6, <1>7, <1>8 DEF Next, Progress, LoopStep

-----------------------------------------------------------------------------
(* The initial states.                                                     *)
LEMMA AtFields ==
    ASSUME NEW place
    PROVE  /\ At(place).at = place /\ At(place).process = 0 /\ At(place).todo = <<>>
           /\ At(place).local = NoWrites
BY DEF At

LEMMA ShapeInitially == Init => Shape
<1> SUFFICES ASSUME Init PROVE Shape
  OBVIOUS
<1>1. /\ design \in Designs /\ status = [p \in Parts |-> "none"] /\ current = {}
      /\ seen = [b \in DOMAIN design.barriers |-> {}] /\ nextTick = design.timers
      /\ deltas = 0 /\ now = 0 /\ writes = NoWrites /\ frame = At("top")
      /\ outcome = "running" /\ doubt = FALSE
  BY DEF Init
<1>2. /\ design.initial \in [Signals -> Values] /\ design.inputs \subseteq Signals
      /\ design.timers \in [DOMAIN design.timers -> Nat]
  BY <1>1, DesignsAssumption DEF DesignOk
<1>3. PICK given \in SUBSET design.inputs : \E input \in [given -> Results] :
          /\ values = [s \in Signals |-> IF s \in given THEN input[s] ELSE design.initial[s]]
          /\ events = {<<s, "changed">> : s \in given}
          /\ history = [NoHistory(design) EXCEPT !.owed = Owed(given)]
  BY DEF Init
<1>4. values \in [Signals -> Values] /\ events \subseteq Events
  BY <1>2, <1>3, ResultsAssumption DEF Events
<1>5. history \in Histories
  BY <1>3 DEF NoHistory, Owed, Histories
<1>6. FrameOk
  <2>1. Within = {}
    BY <1>1, AtFields DEF Within
  <2>2. At("top") \in Frames({})
    BY NothingCollected DEF At, Frames, Places, Values
  <2> QED BY <1>1, <2>1, <2>2, AtFields DEF FrameOk, Busy
<1>7. OutcomeOk /\ SeenOk
  BY <1>1 DEF OutcomeOk, SeenOk
<1> QED BY <1>1, <1>2, <1>4, <1>5, <1>6, <1>7, NothingCollected DEF Shape

-----------------------------------------------------------------------------
(* The invariant is kept.                                                  *)
LEMMA BeginsDelta ==
    ASSUME Shape, BeginDelta
    PROVE  /\ deltas' >= 1 /\ events' = {} /\ current' = events
           /\ writes' = NoWrites /\ frame'.local = NoWrites /\ frame'.part = "body"
           /\ history' = [history EXCEPT !.ran = {}, !.late = {}]
           /\ \/ /\ frame'.at = "committing"
                 /\ \A j \in DOMAIN design.processes : ~Triggered(j, events)
              \/ /\ frame'.at = "running" /\ frame'.process \in DOMAIN design.processes
                 /\ \A j \in DOMAIN design.processes :
                       Triggered(j, events) => frame'.process <= j
           /\ UNCHANGED <<design, values, seen, nextTick, outcome, now>>
<1>1. /\ frame' = FrameAfter(0, events) /\ current' = events /\ events' = {} /\ writes' = NoWrites
      /\ deltas' = IF deltas < MaxDeltas THEN deltas + 1 ELSE deltas
      /\ history' = [history EXCEPT !.ran = {}, !.late = {}]
      /\ UNCHANGED <<design, values, seen, nextTick, outcome, now>>
  BY DEF BeginDelta
<1>2. deltas' >= 1
  BY <1>1, LimitsAssumption DEF Shape
<1>3. \A j \in DOMAIN design.processes : j \in Nat /\ 0 < j
  BY ProcessNumbers
<1>4. /\ frame'.local = NoWrites /\ frame'.part = "body"
      /\ \/ /\ frame'.at = "committing"
            /\ \A j \in DOMAIN design.processes : Triggered(j, events) => j <= 0
         \/ /\ frame'.at = "running" /\ frame'.process \in DOMAIN design.processes
            /\ \A j \in DOMAIN design.processes :
                  Triggered(j, events) /\ 0 < j => frame'.process <= j
  BY <1>1, FrameAfterFits
<1> QED BY <1>1, <1>2, <1>3, <1>4

LEMMA EndsProcess ==
    ASSUME Shape, ProcessEnds
    PROVE  /\ frame.at = "running" /\ frame.at \in Busy
           /\ frame.process \in DOMAIN design.processes /\ frame.process \in Nat
           /\ Entries(writes') = Entries(writes) \cup Entries(frame.local)
           /\ frame'.local = NoWrites /\ frame'.part = "body"
           /\ history' = [history EXCEPT !.ran = @ \cup {frame.process}]
           /\ \/ /\ frame'.at = "committing"
                 /\ \A j \in DOMAIN design.processes : Triggered(j, current) => j <= frame.process
              \/ /\ frame'.at = "running" /\ frame'.process \in DOMAIN design.processes
                 /\ frame.process < frame'.process
                 /\ \A j \in DOMAIN design.processes :
                       Triggered(j, current) /\ frame.process < j => frame'.process <= j
           /\ UNCHANGED <<design, values, current, seen, queue, outcome, now>>
<1>1. /\ frame.at = "running" /\ writes' = Merge(writes, frame.local)
      /\ frame' = FrameAfter(frame.process, current)
      /\ history' = [history EXCEPT !.ran = @ \cup {frame.process}]
      /\ UNCHANGED <<design, values, current, seen, queue, outcome, now>>
  BY DEF ProcessEnds, store
<1>2. frame.at \in Busy
  BY <1>1 DEF Busy
<1>3. frame.process \in DOMAIN design.processes /\ frame.process \in Nat /\ frame.local \in Collected
  BY <1>2, StatementsAreOk, ProcessNumbers DEF Shape, FrameOk, Frames
<1>4. Entries(writes') = Entries(writes) \cup Entries(frame.local)
  BY <1>1, <1>3, Merging DEF Shape
<1> QED BY <1>1, <1>2, <1>3, <1>4, FrameAfterFits

LEMMA TimesOut ==
    ASSUME Shape, ProcessTimesOut
    PROVE  /\ frame.at \in Busy /\ frame'.at = "running"
           /\ frame'.process = frame.process /\ frame'.part = "on timeout"
           /\ frame'.local = NoWrites
           /\ history' = [history EXCEPT !.late = @ \cup {frame.process}]
           /\ UNCHANGED <<design, values, current, seen, queue, writes, outcome, now>>
BY DEF ProcessTimesOut, MayTimeOut, Busy, Handler, At, store

LEMMA DeltaKept ==
    ASSUME Shape, DeltaOk, [Next]_vars PROVE DeltaOk'
<1>1. CASE Works
  BY <1>1 DEF Works, DeltaOk, queue, Busy
<1>2. CASE Halts \/ Sleep \/ HasEvents \/ FireTimers
  BY <1>2, AtFields DEF Halts, Sleep, HasEvents, FireTimers, DeltaOk, queue, Busy
<1>3. CASE Stays
  BY <1>3 DEF Stays, DeltaOk, queue
<1>4. CASE BeginDelta
  BY <1>4, BeginsDelta DEF DeltaOk
<1>5. CASE ProcessEnds
  BY <1>5, EndsProcess DEF DeltaOk, queue, Busy
<1>6. CASE ProcessTimesOut
  BY <1>6, TimesOut DEF DeltaOk, queue, Busy
<1>7. CASE Commit
  BY <1>7, CommitSteps, AtFields DEF DeltaOk, Busy
<1> QED BY <1>1, <1>2, <1>3, <1>4, <1>5, <1>6, <1>7, Moves

LEMMA EntriesTyped ==
    ASSUME NEW w \in Collected
    PROVE  Entries(w) \subseteq Entry
<1>1. w.signals \in Seq(Entry)
  BY DEF Collected
<1> QED BY <1>1 DEF Entries, ToSet

LEMMA HistoryFields ==
    ASSUME Shape
    PROVE  /\ \A x : LET h == [history EXCEPT !.allowed = x] IN
                /\ h.allowed = x /\ h.written = history.written /\ h.fired = history.fired
                /\ h.ticks = history.ticks /\ h.ran = history.ran /\ h.late = history.late
                /\ h.owed = history.owed
           /\ LET h == [history EXCEPT !.ran = {}, !.late = {}] IN
                /\ h.allowed = history.allowed /\ h.written = history.written
                /\ h.fired = history.fired /\ h.ticks = history.ticks /\ h.ran = {} /\ h.late = {}
                /\ h.owed = history.owed
           /\ LET h == [history EXCEPT !.ran = @ \cup {frame.process}] IN
                /\ h.allowed = history.allowed /\ h.written = history.written
                /\ h.fired = history.fired /\ h.ticks = history.ticks
                /\ h.ran = history.ran \cup {frame.process} /\ h.late = history.late
                /\ h.owed = history.owed
           /\ LET h == [history EXCEPT !.late = @ \cup {frame.process}] IN
                /\ h.allowed = history.allowed /\ h.written = history.written
                /\ h.fired = history.fired /\ h.ticks = history.ticks /\ h.ran = history.ran
                /\ h.late = history.late \cup {frame.process} /\ h.owed = history.owed
           /\ history.written \in [Signals -> Nat]
           /\ history.fired \in [DOMAIN design.barriers -> Nat]
           /\ history.ticks \in [DOMAIN design.timers -> Nat]
           /\ history.late \subseteq Nat /\ history.owed \subseteq DOMAIN design.processes
BY DEF Shape, Histories

LEMMA OnlyAllowing ==
    ASSUME Shape, history' = [history EXCEPT !.allowed = history'.allowed]
    PROVE  /\ history'.written = history.written /\ history'.fired = history.fired
           /\ history'.ticks = history.ticks /\ history'.ran = history.ran
           /\ history'.late = history.late /\ history'.owed = history.owed
<1> DEFINE x == history'.allowed
<1>1. history' = [history EXCEPT !.allowed = x]
  OBVIOUS
<1> HIDE DEF x
<1> QED BY <1>1, HistoryFields

(* No process runs after these.                                            *)
LEMMA NobodyRuns ==
    ASSUME Shape, Halts \/ Sleep \/ HasEvents \/ FireTimers \/ Commit
    PROVE  /\ frame'.at \notin Busy /\ design' = design
           /\ frame'.local = NoWrites /\ writes' = writes
           /\ history'.late = history.late /\ history'.allowed = history.allowed
           /\ history'.ran = history.ran /\ deltas' = deltas
           /\ (Halts \/ Sleep \/ HasEvents \/ FireTimers) =>
                 /\ history'.written = history.written /\ values' = values
                 /\ history'.owed = history.owed
<1>1. CASE Commit /\ ~(Halts \/ Sleep \/ HasEvents \/ FireTimers)
  <2>1. frame' = At("top") \/ frame' = At("ended")
    BY <1>1, CommitSteps
  <2>2. frame'.at \notin Busy /\ frame'.local = NoWrites
    BY <2>1, AtFields DEF Busy
  <2> QED BY <1>1, <2>2, CommitSteps, CommitHistoryFits
<1>2. CASE Halts \/ Sleep \/ HasEvents
  <2>1. frame' = At("ended") \/ frame' = At("sleeping") \/ frame' = At("admitting")
    BY <1>2 DEF Halts, Sleep, HasEvents
  <2>2. frame'.at \notin Busy /\ frame'.local = NoWrites
    BY <2>1, AtFields DEF Busy
  <2>3. UNCHANGED <<design, store, queue, writes, history>>
    BY <1>2 DEF Halts, Sleep, HasEvents
  <2> QED BY <2>2, <2>3 DEF store, queue
<1>3. CASE FireTimers
  <2>1. frame'.at \notin Busy /\ frame'.local = NoWrites
    BY <1>3, AtFields DEF Busy, FireTimers
  <2>2. UNCHANGED <<design, values, deltas, writes>>
    BY <1>3 DEF FireTimers, store
  <2>3. history' = [history EXCEPT !.ticks = history'.ticks]
    BY <1>3 DEF FireTimers, Shape, Histories
  <2>4. history \in Histories
    BY DEF Shape
  <2> QED BY <2>1, <2>2, <2>3, <2>4 DEF Histories
<1> QED BY <1>1, <1>2, <1>3

LEMMA TurnKept ==
    ASSUME Shape, TurnOk, [Next]_vars PROVE TurnOk'
<1>0. /\ writes \in Collected /\ frame.local \in Collected
      /\ DOMAIN design.processes \subseteq Nat
  BY ProcessNumbers DEF Shape, FrameOk, Frames
<1>1. CASE Works
  <2>1. /\ frame.at \in Busy /\ frame'.process = frame.process /\ frame'.part = frame.part
        /\ writes' = writes /\ history'.late = history.late
        /\ \A w \in Entries(frame'.local) : w \in Entries(frame.local) \/ w.process = frame.process
    BY <1>1, HistoryFields DEF Works, Adds
  <2> QED BY <2>1 DEF TurnOk
<1>2. CASE Halts \/ Sleep \/ HasEvents \/ FireTimers \/ Commit
  BY <1>2, NobodyRuns DEF TurnOk
<1>3. CASE Stays
  BY <1>3 DEF Stays, TurnOk
<1>4. CASE BeginDelta
  <2>1. writes' = NoWrites /\ frame'.local = NoWrites /\ history'.late = {}
    <3>1. /\ writes' = NoWrites /\ frame'.local = NoWrites
          /\ history' = [history EXCEPT !.ran = {}, !.late = {}]
      BY <1>4, BeginsDelta
    <3> QED BY <3>1, HistoryFields
  <2> QED BY <2>1, NothingCollected DEF TurnOk
<1>5. CASE ProcessEnds
  <2>0. /\ frame.at \in Busy /\ frame.process \in Nat
        /\ Entries(writes') = Entries(writes) \cup Entries(frame.local)
        /\ frame'.local = NoWrites
        /\ history' = [history EXCEPT !.ran = @ \cup {frame.process}]
        /\ \/ frame'.at = "committing"
           \/ /\ frame'.at = "running" /\ frame'.process \in DOMAIN design.processes
              /\ frame.process < frame'.process
    BY <1>5, EndsProcess
  <2>1. history'.late = history.late /\ history.late \subseteq Nat
    BY <2>0, HistoryFields
  <2>2. \A w \in Entries(writes') : w.process \in Nat /\ w.process <= frame.process
    <3>1. Entries(writes) \subseteq Entry /\ Entries(frame.local) \subseteq Entry
      BY <1>0, EntriesTyped
    <3>2. \A w \in Entry : w.process \in Nat
      BY <1>0 DEF Entry
    <3>3. /\ \A w \in Entries(writes) : w.process < frame.process
          /\ \A w \in Entries(frame.local) : w.process = frame.process
      BY <2>0 DEF TurnOk
    <3>4. \A w \in Entries(writes) : w.process \in Nat /\ w.process <= frame.process
      BY <2>0, <3>1, <3>2, <3>3
    <3> QED BY <2>0, <3>3, <3>4
  <2>3. \A i \in history.late : i \in Nat /\ i <= frame.process
    BY <2>0, <2>1 DEF TurnOk
  <2>4. CASE frame'.at = "running" /\ frame'.process \in DOMAIN design.processes
              /\ frame.process < frame'.process
    <3>1. frame'.process \in Nat
      BY <1>0, <2>4
    <3>2. Entries(frame'.local) = {}
      BY <2>0, NothingCollected
    <3>3. \A w \in Entries(writes') : w.process < frame'.process
      BY <2>0, <2>2, <2>4, <3>1
    <3>4. \A i \in history'.late : i <= frame'.process /\ i # frame'.process
      BY <2>0, <2>1, <2>3, <2>4, <3>1
    <3> QED BY <3>2, <3>3, <3>4 DEF TurnOk
  <2>5. CASE frame'.at = "committing"
    BY <2>5 DEF TurnOk, Busy
  <2> QED BY <2>0, <2>4, <2>5
<1>6. CASE ProcessTimesOut
  <2>1. /\ frame.at \in Busy /\ frame'.process = frame.process /\ frame'.part = "on timeout"
        /\ frame'.local = NoWrites /\ writes' = writes
        /\ history' = [history EXCEPT !.late = @ \cup {frame.process}]
    BY <1>6, TimesOut
  <2>2. frame.process \in Nat /\ Entries(frame'.local) = {}
    BY <1>0, <2>1, StatementsAreOk, NothingCollected
  <2>3. history'.late = history.late \cup {frame.process}
    BY <2>1, HistoryFields
  <2>4. /\ \A w \in Entries(writes) : w.process < frame.process
        /\ \A i \in history.late : i <= frame.process
    BY <2>1 DEF TurnOk
  <2>5. \A i \in history'.late : i <= frame'.process
    <3>1. frame'.process = frame.process
      BY <2>1
    <3>2. \A i \in history'.late : i \in history.late \/ i = frame.process
      BY <2>3
    <3>3. frame.process \in Nat /\ frame.process <= frame.process
      BY <2>2
    <3> QED BY <2>4, <3>1, <3>2, <3>3
  <2> QED BY <2>1, <2>2, <2>4, <2>5 DEF TurnOk
<1> QED BY <1>1, <1>2, <1>3, <1>4, <1>5, <1>6, Moves

LEMMA LateKept ==
    ASSUME Shape, TurnOk, LateOk, [Next]_vars PROVE LateOk'
<1>0. ASSUME design' = design, NEW i, NEW part, NEW s
      PROVE  MayWrite(i, part, s)' = MayWrite(i, part, s)
  BY <1>0 DEF MayWrite, Block
<1>1. CASE Works
  <2>1. /\ frame.at \in Busy /\ frame'.process = frame.process /\ frame'.part = frame.part
        /\ writes' = writes /\ history'.late = history.late /\ design' = design
        /\ \A w \in Entries(frame'.local) : w \in Entries(frame.local) \/ Adds(w)
    BY <1>1, HistoryFields DEF Works, Adds
  <2>2. ASSUME NEW w, Adds(w) PROVE MayWrite(frame.process, frame.part, w.signal)
    BY <2>1, <2>2, StatementsAreOk DEF Adds, MayWrite
  <2>3. \A w \in Entries(frame'.local) : MayWrite(frame.process, frame.part, w.signal)
    BY <2>1, <2>2 DEF LateOk
  <2>4. \A w \in Entries(frame'.local) : MayWrite(frame.process, frame.part, w.signal)'
    BY <1>0, <2>1, <2>3 DEF MayWrite, Block
  <2> QED BY <2>1, <2>4 DEF LateOk, MayWrite, Block
<1>2. CASE Halts \/ Sleep \/ HasEvents \/ FireTimers \/ Commit
  <2>1. /\ frame'.at \notin Busy /\ writes' = writes /\ history'.late = history.late
        /\ design' = design
    BY <1>2, NobodyRuns
  <2> QED BY <2>1 DEF LateOk, MayWrite, Block
<1>3. CASE Stays
  BY <1>3 DEF Stays, LateOk, MayWrite, Block
<1>4. CASE BeginDelta
  BY <1>4, BeginsDelta, NothingCollected DEF LateOk
<1>5. CASE ProcessEnds
  <2>1. /\ frame.at \in Busy /\ history'.late = history.late /\ design' = design
        /\ Entries(writes') = Entries(writes) \cup Entries(frame.local)
        /\ Entries(frame'.local) = {}
    BY <1>5, EndsProcess, HistoryFields, NothingCollected
  <2>2. ASSUME NEW w \in Entries(frame.local), w.process \in history.late
        PROVE  MayWrite(w.process, "on timeout", w.signal)
    BY <2>1, <2>2 DEF LateOk, TurnOk
  <2> QED BY <2>1, <2>2 DEF LateOk, MayWrite, Block
<1>6. CASE ProcessTimesOut
  <2>1. /\ frame.at \in Busy /\ history'.late = history.late \cup {frame.process}
        /\ writes' = writes /\ Entries(frame'.local) = {} /\ design' = design
    BY <1>6, TimesOut, HistoryFields, NothingCollected
  <2>2. \A w \in Entries(writes) : w.process # frame.process
    <3>1. Entries(writes) \subseteq Entry /\ frame.process \in Nat
      BY <2>1, EntriesTyped, StatementsAreOk, ProcessNumbers DEF Shape
    <3>2. \A w \in Entries(writes) : w.process \in Nat /\ w.process < frame.process
      BY <2>1, <3>1, ProcessNumbers DEF TurnOk, Entry
    <3> QED BY <3>1, <3>2
  <2> QED BY <2>1, <2>2 DEF LateOk, MayWrite, Block
<1> QED BY <1>1, <1>2, <1>3, <1>4, <1>5, <1>6, Moves

LEMMA WakeKept ==
    ASSUME Shape, DeltaOk, WakeOk, [Next]_vars PROVE WakeOk'
<1>0. history.owed \subseteq DOMAIN design.processes /\ DOMAIN design.processes \subseteq Nat \ {0}
  BY ProcessNumbers, HistoryFields
<1>1. CASE Works
  <2>1. /\ frame.at \in Busy /\ frame'.at \in Busy /\ frame'.process = frame.process
        /\ history'.owed = history.owed /\ history'.ran = history.ran
        /\ UNCHANGED <<design, current, outcome>>
    <3>1. /\ frame.at \in Busy /\ frame'.at \in Busy /\ frame'.process = frame.process
          /\ history' = [history EXCEPT !.allowed = history'.allowed]
          /\ UNCHANGED <<design, current, outcome>>
      BY <1>1 DEF Works
    <3> QED BY <3>1, OnlyAllowing
  <2> QED BY <2>1 DEF WakeOk, Busy, Triggered
<1>2. CASE Halts
  <2>1. /\ frame'.at = "ended" /\ history' = history /\ events' = events
        /\ outcome' = "quiescent" => frame.at = "top" /\ events = {}
    BY <1>2, AtFields DEF Halts, queue
  <2>2. outcome' = "quiescent" => history.owed = {}
    BY <1>0, <2>1 DEF WakeOk, Triggered
  <2> QED BY <2>1, <2>2 DEF WakeOk, Busy
<1>3. CASE Stays
  BY <1>3 DEF Stays, WakeOk, Triggered, queue, store
<1>4. CASE Sleep \/ HasEvents
  <2>1. /\ frame.at = "top" /\ UNCHANGED <<design, events, outcome, history>>
        /\ frame'.at = "admitting" \/ (frame'.at = "sleeping" /\ events = {})
    <3>1. CASE Sleep
      BY <3>1, AtFields DEF Sleep, queue
    <3>2. CASE HasEvents
      BY <3>2, AtFields DEF HasEvents, queue
    <3> QED BY <1>4, <3>1, <3>2
  <2>2. events = {} => history.owed = {}
    BY <1>0, <2>1 DEF WakeOk, Triggered
  <2> QED BY <2>1, <2>2 DEF WakeOk, Busy, Triggered
<1>5. CASE FireTimers
  <2>1. /\ frame.at = "sleeping" /\ frame'.at = "admitting" /\ history'.owed = history.owed
        /\ outcome' = outcome
    BY <1>5, AtFields, NobodyRuns DEF FireTimers
  <2> QED BY <2>1 DEF WakeOk, Busy
<1>6. CASE BeginDelta
  <2>1. /\ frame.at = "admitting" /\ current' = events /\ history'.owed = history.owed
        /\ UNCHANGED <<design, outcome>>
    <3>1. history' = [history EXCEPT !.ran = {}, !.late = {}]
      BY <1>6, BeginsDelta
    <3>2. current' = events /\ UNCHANGED <<design, outcome>>
      BY <1>6, BeginsDelta
    <3> QED BY <1>6, <3>1, <3>2, HistoryFields DEF BeginDelta
  <2>2. /\ \A i \in history.owed : Triggered(i, events) /\ i \in DOMAIN design.processes /\ i \in Nat
        /\ outcome = "quiescent" => history.owed = {}
    BY <1>0, <2>1 DEF WakeOk
  <2>3. \/ /\ frame'.at = "committing"
           /\ \A j \in DOMAIN design.processes : ~Triggered(j, events)
        \/ /\ frame'.at = "running" /\ frame'.process \in DOMAIN design.processes
           /\ \A j \in DOMAIN design.processes : Triggered(j, events) => frame'.process <= j
    BY <1>6, BeginsDelta
  <2>4. CASE frame'.at = "committing" /\ \A j \in DOMAIN design.processes : ~Triggered(j, events)
    <3>1. history.owed = {}
      BY <2>2, <2>4
    <3> QED BY <2>1, <2>4, <3>1 DEF WakeOk, Busy
  <2>5. CASE /\ frame'.at = "running" /\ frame'.process \in DOMAIN design.processes
             /\ \A j \in DOMAIN design.processes : Triggered(j, events) => frame'.process <= j
    <3>1. frame'.process \in Nat
      BY <1>0, <2>5
    <3>2. \A i \in history.owed : Triggered(i, events) /\ ~(i < frame'.process)
      BY <2>2, <2>5, <3>1
    <3> QED BY <2>1, <2>2, <2>5, <3>2 DEF WakeOk, Busy, Triggered
  <2> QED BY <2>3, <2>4, <2>5
<1>7. CASE ProcessEnds
  <2>1. /\ frame.at \in Busy /\ frame.process \in Nat
        /\ history'.owed = history.owed /\ history'.ran = history.ran \cup {frame.process}
        /\ UNCHANGED <<design, current, outcome>>
    <3>1. /\ history' = [history EXCEPT !.ran = @ \cup {frame.process}]
          /\ frame.at \in Busy /\ frame.process \in Nat /\ UNCHANGED <<design, current, outcome>>
      BY <1>7, EndsProcess
    <3> QED BY <3>1, HistoryFields
  <2>2. /\ \A i \in history.owed : /\ Triggered(i, current) /\ i \in DOMAIN design.processes
                                   /\ i \in Nat /\ (i < frame.process => i \in history.ran)
        /\ outcome = "quiescent" => history.owed = {}
    BY <1>0, <2>1 DEF WakeOk
  <2>3. \/ /\ frame'.at = "committing"
           /\ \A j \in DOMAIN design.processes : Triggered(j, current) => j <= frame.process
        \/ /\ frame'.at = "running" /\ frame'.process \in DOMAIN design.processes
           /\ \A j \in DOMAIN design.processes :
                 Triggered(j, current) /\ frame.process < j => frame'.process <= j
    BY <1>7, EndsProcess
  <2>4. \A i \in history.owed : i <= frame.process => i \in history'.ran
    BY <2>1, <2>2
  <2>5. CASE /\ frame'.at = "committing"
             /\ \A j \in DOMAIN design.processes : Triggered(j, current) => j <= frame.process
    <3>1. history.owed \subseteq history'.ran
      BY <2>2, <2>4, <2>5
    <3> QED BY <2>1, <2>2, <2>5, <3>1 DEF WakeOk, Busy
  <2>6. CASE /\ frame'.at = "running" /\ frame'.process \in DOMAIN design.processes
             /\ \A j \in DOMAIN design.processes :
                   Triggered(j, current) /\ frame.process < j => frame'.process <= j
    <3>1. frame'.process \in Nat
      BY <1>0, <2>6
    <3>2. \A i \in history.owed : i < frame'.process => i \in history'.ran
      BY <2>1, <2>2, <2>4, <2>6, <3>1
    <3> QED BY <2>1, <2>2, <2>6, <3>2 DEF WakeOk, Busy, Triggered
  <2> QED BY <2>3, <2>5, <2>6
<1>8. CASE ProcessTimesOut
  <2>1. /\ frame.at \in Busy /\ frame'.at = "running" /\ frame'.process = frame.process
        /\ history' = [history EXCEPT !.late = @ \cup {frame.process}]
        /\ UNCHANGED <<design, current, outcome>>
    BY <1>8, TimesOut
  <2>2. history'.owed = history.owed /\ history'.ran = history.ran
    BY <2>1, HistoryFields
  <2> QED BY <2>1, <2>2 DEF WakeOk, Busy, Triggered
<1>9. CASE Commit
  <2>1. /\ history'.owed = Owed({s \in Signals : Committed[s] # values[s]})
        /\ ChangeEvents(values, Committed) \subseteq events' /\ design' = design
        /\ frame.at = "committing"
        /\ \/ frame'.at = "top" /\ outcome' = outcome
           \/ frame'.at = "ended" /\ outcome' = "failed"
    BY <1>9, CommitSteps, CommitHistoryFits, AtFields
  <2>2. outcome = "running"
    BY <2>1 DEF Shape, OutcomeOk
  <2>3. \A i \in history'.owed : Triggered(i, events')
    <3> SUFFICES ASSUME NEW i \in history'.owed PROVE Triggered(i, events')
      OBVIOUS
    <3>1. PICK s \in {t \in Signals : Committed[t] # values[t]} :
              <<s, "changed">> \in design.processes[i].sensitivity
      BY <2>1 DEF Owed
    <3>2. <<s, "changed">> \in ChangeEvents(values, Committed)
      BY <3>1 DEF ChangeEvents
    <3> QED BY <2>1, <3>1, <3>2 DEF Triggered
  <2> QED BY <2>1, <2>2, <2>3 DEF WakeOk, Busy, Triggered
<1> QED BY <1>1, <1>2, <1>3, <1>4, <1>5, <1>6, <1>7, <1>8, <1>9, Moves

LEMMA WakeInitially == Init => WakeOk
<1> SUFFICES ASSUME Init PROVE WakeOk
  OBVIOUS
<1>1. frame.at = "top" /\ outcome = "running"
  BY AtFields DEF Init
<1>2. PICK given \in SUBSET design.inputs :
          /\ events = {<<s, "changed">> : s \in given}
          /\ history = [NoHistory(design) EXCEPT !.owed = Owed(given)]
  BY DEF Init
<1>3. history.owed = Owed(given)
  BY <1>2 DEF NoHistory
<1>4. \A i \in history.owed : Triggered(i, events)
  BY <1>2, <1>3 DEF Owed, Triggered
<1> QED BY <1>1, <1>4 DEF WakeOk, Busy

LEMMA Periods == \A p, k \in Nat : p * (k + 1) + p = p * ((k + 1) + 1) /\ p * (k + 1) \in Nat
OBVIOUS

LEMMA TicksKept ==
    ASSUME Shape, TicksKeepTime, [Next]_vars PROVE TicksKeepTime'
<1>0. /\ history \in Histories /\ now \in Nat /\ nextTick \in [DOMAIN design.timers -> Nat]
      /\ history.ticks \in [DOMAIN design.timers -> Nat]
      /\ design.timers \in [DOMAIN design.timers -> Nat]
  BY DesignsAssumption DEF Shape, Histories, DesignOk
<1>1. ASSUME UNCHANGED <<design, nextTick>>, history'.ticks = history.ticks, now' \in Nat, now <= now'
      PROVE  TicksKeepTime'
  <2>1. \A t \in DOMAIN design.timers : design.timers[t] * history.ticks[t] \in Nat
    BY <1>0
  <2> QED BY <1>0, <1>1, <2>1 DEF TicksKeepTime
<1>2. CASE Works
  <2>1. /\ UNCHANGED <<design, nextTick, now>>
        /\ history' = [history EXCEPT !.allowed = history'.allowed]
    BY <1>2 DEF Works, queue
  <2>2. history'.ticks = history.ticks
    BY <2>1, OnlyAllowing
  <2> QED BY <1>0, <1>1, <2>1, <2>2
<1>3. CASE Halts \/ Sleep \/ HasEvents
  BY <1>0, <1>1, <1>3 DEF Halts, Sleep, HasEvents, queue
<1>4. CASE Stays
  BY <1>0, <1>1, <1>4 DEF Stays, queue
<1>5. CASE BeginDelta
  <2>1. /\ history' = [history EXCEPT !.ran = {}, !.late = {}]
        /\ UNCHANGED <<design, nextTick, now>>
    BY <1>5, BeginsDelta
  <2> QED BY <1>0, <1>1, <2>1, HistoryFields
<1>6. CASE ProcessEnds
  <2>1. /\ history' = [history EXCEPT !.ran = @ \cup {frame.process}]
        /\ UNCHANGED <<design, nextTick, now>>
    BY <1>6, EndsProcess DEF queue
  <2> QED BY <1>0, <1>1, <2>1, HistoryFields
<1>7. CASE ProcessTimesOut
  <2>1. /\ history' = [history EXCEPT !.late = @ \cup {frame.process}]
        /\ UNCHANGED <<design, nextTick, now>>
    BY <1>7, TimesOut DEF queue
  <2> QED BY <1>0, <1>1, <2>1, HistoryFields
<1>8. CASE Commit
  BY <1>0, <1>1, <1>8, CommitSteps, CommitHistoryFits
<1>9. CASE FireTimers
  <2>1. /\ now >= Earliest(nextTick) /\ UNCHANGED <<design, now>>
        /\ nextTick' = Advance(design, nextTick)
        /\ history' = [history EXCEPT !.ticks =
                      [t \in DOMAIN @ |-> IF t \in DueTimers(nextTick) THEN @[t] + 1 ELSE @[t]]]
    BY <1>9 DEF FireTimers
  <2>2. history'.ticks = [t \in DOMAIN design.timers |->
            IF t \in DueTimers(nextTick) THEN history.ticks[t] + 1 ELSE history.ticks[t]]
    BY <1>0, <2>1 DEF Histories
  <2>3. SUFFICES ASSUME NEW t \in DOMAIN design.timers
                 PROVE  /\ nextTick'[t] = design.timers[t] * (history'.ticks[t] + 1)
                        /\ design.timers[t] * history'.ticks[t] <= now
    BY <2>1 DEF TicksKeepTime
  <2> DEFINE p == design.timers[t]
             k == history.ticks[t]
  <2>4. /\ p \in Nat /\ k \in Nat /\ nextTick[t] = p * (k + 1) /\ p * k <= now
        /\ nextTick[t] \in Nat
    BY <1>0 DEF TicksKeepTime
  <2>5. CASE t \in DueTimers(nextTick)
    <3>1. nextTick[t] <= now
      BY <1>0, <2>1, <2>4, <2>5 DEF DueTimers
    <3>2. history'.ticks[t] = k + 1 /\ nextTick'[t] = nextTick[t] + p
      BY <1>0, <2>1, <2>2, <2>5 DEF Advance
    <3> HIDE DEF p, k
    <3>3. p * (k + 1) + p = p * ((k + 1) + 1)
      BY <2>4, Periods
    <3> QED BY <2>4, <3>1, <3>2, <3>3 DEF p
  <2>6. CASE t \notin DueTimers(nextTick)
    <3>1. history'.ticks[t] = k /\ nextTick'[t] = nextTick[t]
      BY <1>0, <2>1, <2>2, <2>6 DEF Advance
    <3> QED BY <2>4, <3>1
  <2> QED BY <2>5, <2>6
<1> QED BY <1>2, <1>3, <1>4, <1>5, <1>6, <1>7, <1>8, <1>9, Moves

LEMMA TicksInitially == Init => TicksKeepTime
<1> SUFFICES ASSUME Init PROVE TicksKeepTime
  OBVIOUS
<1>1. design.timers \in [DOMAIN design.timers -> Nat]
  BY DesignsAssumption DEF Init, DesignOk
<1>2. history.ticks = [t \in DOMAIN design.timers |-> 0] /\ nextTick = design.timers /\ now = 0
  BY DEF Init, NoHistory
<1> QED BY <1>1, <1>2 DEF TicksKeepTime

-----------------------------------------------------------------------------
(* Releases.                                                               *)
LEMMA OthersPassNothingOn ==
    ASSUME Shape, [Next]_vars, frame'.at \in {"asking", "releasing"}
    PROVE  \/ UNCHANGED <<design, deltas, frame, history>>
           \/ Declassify
           \/ \E pass \in BOOLEAN : FilterAnswers(pass)
           \/ \E granted \in BOOLEAN, echo \in Results : HumanAnswers(granted, echo)
<1>1. ASSUME NEW local PROVE Step(local).at = "running"
  BY DEF Step, Shape, FrameOk, Frames
<1>2. frame'.at # "running"
  OBVIOUS
<1>3. ~AssignSignal /\ ~CheckAssertion /\ ~Release /\ ~RefuseRelease
  BY <1>1, <1>2 DEF AssignSignal, CheckAssertion, Release, RefuseRelease
<1>4. /\ ~CallFails /\ ~CallTimesOut
      /\ \A result \in Results : ~CallSucceeds(result)
  BY <1>1, <1>2 DEF CallFails, CallTimesOut, CallEnds, CallSucceeds
<1>5. ~Branch /\ ~ParallelCalls /\ ~CallDevice
  <2>1. frame \in Frames(Within)
    BY DEF Shape, FrameOk
  <2> QED BY <2>1 DEF Branch, ParallelCalls, CallDevice, Running, Frames
<1>6. ~Halts /\ ~Sleep /\ ~HasEvents /\ ~FireTimers /\ ~Commit
  BY NobodyRuns DEF Busy
<1>7. ~BeginDelta
  BY BeginsDelta, Zenon
<1>8. ~ProcessEnds
  BY EndsProcess, Zenon
<1>9. ~ProcessTimesOut
  BY TimesOut, Zenon
<1>10. CASE Stays
  BY <1>10 DEF Stays, queue
<1>11. CASE Works
  <2>1. frame.at \in Busy
    BY <1>11 DEF Works
  <2>2. frame.at \notin {"top", "sleeping", "admitting", "committing", "ended"}
    BY <2>1 DEF Busy
  <2>3. ~OutOfWallTime /\ ~Quiesce /\ ~SleepOut /\ ~OutOfIterations /\ ~Conflict /\ ~Judge
    BY <2>2 DEF OutOfWallTime, Quiesce, SleepOut, OutOfIterations, Conflict, Judge
  <2>4. ~Fail /\ ~AuditFails
    BY <1>11, AtFields DEF Fail, AuditFails, End, Works, Busy
  <2>5. CASE Tick \/ UNCHANGED vars
    BY <2>5 DEF Tick, vars, queue
  <2>6. CASE LoopStep
    BY <1>6, <1>7, <2>3, <2>6 DEF LoopStep
  <2>7. CASE ProcessStep
    BY <1>3, <1>5, <1>8, <2>4, <2>7 DEF ProcessStep
  <2>8. CASE CallStep
    BY <1>4, <1>5, <2>8 DEF CallStep
  <2>9. CASE ReleaseStep
    BY <1>3, <2>9 DEF ReleaseStep
  <2> QED BY <1>9, <2>4, <2>5, <2>6, <2>7, <2>8, <2>9 DEF Next, Progress
<1> QED BY <1>6, <1>7, <1>8, <1>9, <1>10, <1>11, Moves

LEMMA AskedKept ==
    ASSUME Shape, AskedOk, [Next]_vars PROVE AskedOk'
<1> SUFFICES ASSUME frame'.at \in {"asking", "releasing"} PROVE AskedOk'
  BY DEF AskedOk
<1>1. CASE UNCHANGED <<design, deltas, frame, history>>
  BY <1>1 DEF AskedOk, Allows, Declassifier, Statement
<1>2. frame \in Frames(Within)
  BY DEF Shape, FrameOk
<1>3. ASSUME NEW content, frame' = AskOrRelease(content), UNCHANGED <<design, deltas>>,
             history' = history \/ history \in Histories,
             Declassifier.filter # {} =>
                 <<deltas, Statement.using, "filter", content>> \in history'.allowed
      PROVE  AskedOk'
  <2>1. /\ frame'.at = IF Declassifier.approval THEN "asking" ELSE "releasing"
        /\ frame'.content = content /\ frame'.todo = frame.todo
    BY <1>2, <1>3 DEF AskOrRelease, Frames
  <2>2. Statement' = Statement /\ Declassifier' = Declassifier
    BY <1>3, <2>1 DEF Statement, Declassifier
  <2>3. /\ frame'.at = "releasing" => ~Declassifier.approval
        /\ frame'.at = "asking" => Declassifier.approval
    BY <2>1
  <2> QED BY <1>3, <2>1, <2>2, <2>3 DEF AskedOk, Allows, Declassifier
<1>4. CASE Declassify
  <2> DEFINE content == ValueOf(Statement.value, View)
  <2>1. /\ UNCHANGED <<design, deltas, history>>
        /\ frame' = IF Declassifier.filter = {} THEN AskOrRelease(content)
                    ELSE [frame EXCEPT !.at = "filtering", !.content = content]
    BY <1>4 DEF Declassify, queue
  <2> HIDE DEF content
  <2>2. Declassifier.filter = {}
    BY <1>2, <2>1 DEF Frames
  <2> QED BY <1>3, <2>1, <2>2
<1>5. CASE \E pass \in BOOLEAN : FilterAnswers(pass)
  <2>1. PICK pass \in BOOLEAN : FilterAnswers(pass)
    BY <1>5
  <2>2. pass
    BY <1>2, <2>1 DEF FilterAnswers, Frames
  <2>3. /\ frame' = AskOrRelease(frame.content) /\ UNCHANGED <<design, deltas>>
        /\ history' = [history EXCEPT !.allowed =
                          @ \cup {<<deltas, Statement.using, "filter", frame.content>>}]
        /\ history \in Histories
    BY <2>1, <2>2 DEF FilterAnswers, queue, Shape
  <2>4. <<deltas, Statement.using, "filter", frame.content>> \in history'.allowed
    BY <2>3 DEF Histories
  <2> QED BY <1>3, <2>3, <2>4
<1>6. CASE \E granted \in BOOLEAN, echo \in Results : HumanAnswers(granted, echo)
  <2>1. PICK granted \in BOOLEAN, echo \in Results : HumanAnswers(granted, echo)
    BY <1>6
  <2> DEFINE valid == granted /\ echo = frame.content /\ now <= frame.asked + Ttl
  <2>2. /\ frame.at = "asking" /\ UNCHANGED <<design, deltas>>
        /\ frame' = [frame EXCEPT !.at = IF valid THEN "releasing" ELSE "refusing"]
        /\ valid => history' = [history EXCEPT !.allowed =
                                   @ \cup {<<deltas, Statement.using, "human", echo>>}]
    BY <2>1 DEF HumanAnswers, queue
  <2>3. valid
    BY <1>2, <2>2 DEF Frames
  <2>4. /\ frame'.at = "releasing" /\ frame'.content = frame.content /\ frame'.todo = frame.todo
        /\ echo = frame.content
    BY <1>2, <2>2, <2>3 DEF Frames
  <2> HIDE DEF valid
  <2>5. Statement' = Statement /\ Declassifier' = Declassifier
    BY <2>2, <2>4 DEF Statement, Declassifier
  <2>6. history'.allowed =
            history.allowed \cup {<<deltas, Statement.using, "human", frame.content>>}
    BY <2>2, <2>3, <2>4 DEF Shape, Histories
  <2>7. Declassifier.filter # {} =>
            <<deltas, Statement.using, "filter", frame.content>> \in history.allowed
    BY <2>2 DEF AskedOk
  <2> QED BY <2>2, <2>4, <2>5, <2>6, <2>7 DEF AskedOk, Allows, Declassifier
<1> QED BY <1>1, <1>4, <1>5, <1>6, OthersPassNothingOn

LEMMA AllowedStays ==
    ASSUME design' = design, history.allowed \subseteq history'.allowed,
           NEW d, NEW delta, NEW content, Allows(d, delta, content)
    PROVE  Allows(d, delta, content)'
BY DEF Allows

LEMMA SameReleasers ==
    ASSUME design' = design, NEW d, NEW s PROVE OnlyReleasedBy(d, s)' = OnlyReleasedBy(d, s)
BY DEF OnlyReleasedBy

LEMMA AddsAllowed ==
    ASSUME Shape, AskedOk, frame.at \in Busy, NEW w, Adds(w),
           NEW d, OnlyReleasedBy(d, w.signal)
    PROVE  Allows(d, deltas, w.value)
<1>1. /\ frame.process \in DOMAIN design.processes
      /\ Statement \in Code(Block(frame.process, frame.part)) /\ Writes(Statement, w.signal)
      /\ Statement.kind = "declassify" => frame.at = "releasing" /\ w.value = frame.content
  BY StatementsAreOk DEF Adds
<1>2. Statement.kind = "declassify" /\ Statement.using = d
  BY <1>1 DEF OnlyReleasedBy, Block
<1> QED BY <1>1, <1>2 DEF AskedOk

LEMMA WrittenKept ==
    ASSUME Shape, AskedOk, WrittenOk, [Next]_vars PROVE WrittenOk'
<1>0. /\ writes \in Collected /\ frame.local \in Collected /\ values \in [Signals -> Values]
  BY DEF Shape, FrameOk, Frames
<1>1. ASSUME UNCHANGED <<design, values, deltas>>, history'.written = history.written,
             history.allowed \subseteq history'.allowed,
             \A w \in Entries(writes)' \cup Entries(frame'.local) :
                \/ w \in Entries(writes) \cup Entries(frame.local)
                \/ frame.at \in Busy /\ Adds(w)
      PROVE  WrittenOk'
  <2> SUFFICES ASSUME NEW d \in DOMAIN design.declassifiers, NEW s \in Signals, OnlyReleasedBy(d, s)
               PROVE  /\ values[s] # Null => Allows(d, history.written[s], values[s])'
                      /\ \A w \in Entries(writes') \cup Entries(frame'.local) :
                            w.signal = s => Allows(d, deltas, w.value)'
    BY <1>1, SameReleasers, Zenon DEF WrittenOk
  <2>1. /\ values[s] # Null => Allows(d, history.written[s], values[s])
        /\ \A w \in Entries(writes) \cup Entries(frame.local) :
              w.signal = s => Allows(d, deltas, w.value)
    BY DEF WrittenOk
  <2>2. values[s] # Null => Allows(d, history.written[s], values[s])'
    BY <1>1, <2>1 DEF Allows
  <2>3. ASSUME NEW w \in Entries(writes') \cup Entries(frame'.local), w.signal = s
        PROVE  Allows(d, deltas, w.value)'
    <3>1. w \in Entries(writes) \cup Entries(frame.local) \/ (frame.at \in Busy /\ Adds(w))
      BY <1>1, <2>3
    <3>2. Allows(d, deltas, w.value)
      BY <2>1, <2>3, <3>1, AddsAllowed
    <3> QED BY <1>1, <3>2 DEF Allows
  <2> QED BY <2>2, <2>3
<1>2. CASE Works
  <2>1. /\ frame.at \in Busy /\ UNCHANGED <<design, values, deltas, writes>>
        /\ history' = [history EXCEPT !.allowed = history'.allowed]
        /\ history.allowed \subseteq history'.allowed
        /\ \A w \in Entries(frame'.local) : w \in Entries(frame.local) \/ Adds(w)
    BY <1>2 DEF Works, queue, Adds
  <2>2. history'.written = history.written
    BY <2>1, OnlyAllowing
  <2> QED BY <1>1, <2>1, <2>2
<1>3. CASE Halts \/ Sleep \/ HasEvents \/ FireTimers
  <2>1. /\ frame'.local = NoWrites /\ UNCHANGED <<design, values, deltas, writes>>
        /\ history'.written = history.written /\ history'.allowed = history.allowed
    BY <1>3, NobodyRuns
  <2>2. Entries(frame'.local) = {}
    BY <2>1, NothingCollected
  <2> QED BY <1>1, <2>1, <2>2
<1>4. CASE Stays
  BY <1>1, <1>4 DEF Stays, queue, store
<1>5. CASE BeginDelta
  <2>1. /\ design' = design /\ values' = values /\ writes' = NoWrites /\ frame'.local = NoWrites
        /\ history' = [history EXCEPT !.ran = {}, !.late = {}]
    BY <1>5, BeginsDelta
  <2>2. /\ history'.written = history.written /\ history'.allowed = history.allowed
        /\ Entries(writes') = {} /\ Entries(frame'.local) = {}
    BY <2>1, HistoryFields, NothingCollected
  <2> QED BY <2>1, <2>2, SameReleasers DEF WrittenOk, Allows
<1>6. CASE ProcessEnds
  <2>1. /\ UNCHANGED <<design, values, deltas>> /\ frame'.local = NoWrites
        /\ Entries(writes') = Entries(writes) \cup Entries(frame.local)
        /\ history' = [history EXCEPT !.ran = @ \cup {frame.process}]
    BY <1>6, EndsProcess DEF queue
  <2>2. /\ history'.written = history.written /\ history'.allowed = history.allowed
        /\ Entries(frame'.local) = {}
    BY <2>1, HistoryFields, NothingCollected
  <2> QED BY <1>1, <2>1, <2>2
<1>7. CASE ProcessTimesOut
  <2>1. /\ UNCHANGED <<design, values, deltas, writes>> /\ frame'.local = NoWrites
        /\ history' = [history EXCEPT !.late = @ \cup {frame.process}]
    BY <1>7, TimesOut DEF queue
  <2>2. /\ history'.written = history.written /\ history'.allowed = history.allowed
        /\ Entries(frame'.local) = {}
    BY <2>1, HistoryFields, NothingCollected
  <2> QED BY <1>1, <2>1, <2>2
<1>8. CASE Commit
  <2>1. /\ UNCHANGED <<design, deltas, writes>> /\ values' = Committed
        /\ history' = CommitHistory /\ frame'.local = NoWrites
    BY <1>8, CommitSteps, NobodyRuns
  <2>2. /\ history'.allowed = history.allowed /\ Entries(frame'.local) = {}
        /\ history'.written = [s \in Signals |-> IF s \in Driven(writes.signals) THEN deltas
                                                 ELSE history.written[s]]
    BY <2>1, CommitHistoryFits, NothingCollected
  <2> SUFFICES ASSUME NEW d \in DOMAIN design.declassifiers, NEW s \in Signals, OnlyReleasedBy(d, s)
               PROVE  /\ values'[s] # Null => Allows(d, history'.written[s], values'[s])
                      /\ \A w \in Entries(writes) : w.signal = s => Allows(d, deltas, w.value)
    BY <2>1, <2>2, SameReleasers DEF WrittenOk, Allows
  <2>3. /\ values[s] # Null => Allows(d, history.written[s], values[s])
        /\ \A w \in Entries(writes) : w.signal = s => Allows(d, deltas, w.value)
    BY DEF WrittenOk
  <2>4. CASE s \in Driven(writes.signals)
    <3>1. \E e \in Entries(writes) : e.signal = s /\ Committed[s] = e.value
      BY <1>0, <2>4, LastWriteCounts DEF Committed
    <3> QED BY <2>1, <2>2, <2>3, <2>4, <3>1
  <2>5. CASE s \notin Driven(writes.signals)
    <3>1. Committed[s] = values[s]
      BY <1>0, <2>5, LastWriteCounts DEF Committed
    <3> QED BY <2>1, <2>2, <2>3, <2>5, <3>1
  <2> QED BY <2>4, <2>5
<1> QED BY <1>2, <1>3, <1>4, <1>5, <1>6, <1>7, <1>8, Moves

LEMMA WrittenInitially == Init => WrittenOk
<1> SUFFICES ASSUME Init PROVE WrittenOk
  OBVIOUS
<1>1. Entries(writes) = {} /\ Entries(frame.local) = {}
  <2>1. writes = NoWrites /\ frame = At("top")
    BY DEF Init
  <2> QED BY <2>1, NothingCollected, AtFields
<1>2. PICK given \in SUBSET design.inputs : \E input \in [given -> Results] :
          values = [t \in Signals |-> IF t \in given THEN input[t] ELSE design.initial[t]]
  BY DEF Init
<1>3. ASSUME NEW d, NEW s \in Signals, OnlyReleasedBy(d, s) PROVE values[s] = Null
  BY <1>2, <1>3 DEF OnlyReleasedBy
<1> QED BY <1>1, <1>3 DEF WrittenOk

-----------------------------------------------------------------------------
(* The inductive invariant of every run of every design.                   *)
LEMMA RunInvInitially == Init => RunInv
<1> SUFFICES ASSUME Init PROVE RunInv
  OBVIOUS
<1>1. /\ frame = At("top") /\ writes = NoWrites
      /\ history.late = {}
  <2>1. frame = At("top") /\ writes = NoWrites
    BY DEF Init
  <2>2. history.late = {}
    BY DEF Init, NoHistory
  <2> QED BY <2>1, <2>2
<1>2. frame.at = "top" /\ Entries(writes) = {}
  BY <1>1, AtFields, NothingCollected
<1>3. DeltaOk /\ TurnOk /\ LateOk /\ AskedOk
  BY <1>2 DEF DeltaOk, TurnOk, LateOk, AskedOk, Busy
<1> QED BY <1>3, ShapeInitially, WakeInitially, WrittenInitially, TicksInitially DEF RunInv

THEOREM RunInvariant == Spec => []RunInv
<1>1. Init => RunInv
  BY RunInvInitially
<1>2. RunInv /\ [Next]_vars => RunInv'
  BY Moves, DeltaKept, TurnKept, LateKept, WakeKept, AskedKept, WrittenKept, TicksKept DEF RunInv
<1> QED BY <1>1, <1>2, PTL DEF Spec

(* The type invariant, for all designs and limits.                         *)
LEMMA ShapeIsTyped == Shape => TypeOK
<1> SUFFICES ASSUME Shape PROVE TypeOK
  OBVIOUS
<1>1. /\ frame \in Frames(Within) /\ frame.local \in Collected /\ writes \in Collected
      /\ frame.todo \in Seq(Within) /\ frame.part \in {"body", "on timeout"}
  BY DEF Shape, FrameOk, Frames
<1>2. Collected \subseteq WritesType
  BY DEF Collected, Entry, WritesType, PartEvents, Events
<1>3. ASSUME NEW k \in DOMAIN frame.todo PROVE frame.todo[k].kind \in Statements
  <2>1. frame.todo[k] \in Within
    <3>1. \A S : \A s \in Seq(S) : \A j \in DOMAIN s : s[j] \in S
      OBVIOUS
    <3> QED BY <1>1, <1>3, <3>1
  <2>2. frame.process \in DOMAIN design.processes /\ Within = Code(Block(frame.process, frame.part))
    BY <1>1, <2>1 DEF Within, Frames
  <2>3. BlockOk(design, Block(frame.process, frame.part))
    BY <1>1, <2>2, BlocksAreOk
  <2> QED BY <2>1, <2>2, <2>3 DEF BlockOk, StatementOk
<1>4. /\ frame.at \in Places /\ frame.process \in DOMAIN design.processes \cup {0}
  BY <1>1 DEF Frames
<1> QED BY <1>1, <1>2, <1>3, <1>4 DEF Shape, SeenOk, OutcomeOk, TypeOK

THEOREM TypesHold == Spec => []TypeOK
<1>1. RunInv => TypeOK
  BY ShapeIsTyped DEF RunInv
<1> QED BY <1>1, RunInvariant, PTL

(* Nobody who waits for a change is forgotten: it runs before the delta    *)
(* that follows the change is committed, and no run is quiescent before.   *)
THEOREM NobodyIsForgotten == Spec => []NoLostWakeup
<1>1. RunInv => NoLostWakeup
  BY DEF RunInv, WakeOk, NoLostWakeup
<1> QED BY <1>1, RunInvariant, PTL

(* What a dropped body had written never reaches a delta.                  *)
THEOREM DroppedBodiesWriteNothing == Spec => []OnlyHandlersOfLateProcesses
<1>1. RunInv => OnlyHandlersOfLateProcesses
  <2> SUFFICES ASSUME RunInv, NEW k \in DOMAIN writes.signals,
                      writes.signals[k].process \in history.late
               PROVE  \E statement \in Code(design.processes[writes.signals[k].process].onTimeout) :
                         Writes(statement, writes.signals[k].signal)
    BY DEF OnlyHandlersOfLateProcesses
  <2>1. writes.signals[k] \in Entries(writes)
    BY DEF Entries, ToSet
  <2>2. MayWrite(writes.signals[k].process, "on timeout", writes.signals[k].signal)
    BY <2>1 DEF RunInv, LateOk
  <2> QED BY <2>2 DEF MayWrite, Block
<1> QED BY <1>1, RunInvariant, PTL

(* Nothing is released but what every means has allowed, as it is, in the  *)
(* delta that wrote it.                                                    *)
THEOREM ReleasesWereAllowed == Spec => []ReleasesAreAllowed
<1>1. RunInv => ReleasesAreAllowed
  BY DEF RunInv, WrittenOk, ReleasesAreAllowed
<1> QED BY <1>1, RunInvariant, PTL

(* Timers never tick early, and never lose or move a tick.                 *)
THEOREM TimersKeepTime == Spec => []TicksKeepTime
<1>1. RunInv => TicksKeepTime
  BY DEF RunInv
<1> QED BY <1>1, RunInvariant, PTL

-----------------------------------------------------------------------------
(* A delta is a simultaneous assignment.                                   *)
Announced == {s \in Signals : <<s, "changed">> \in events}

LEMMA OnlyChangesAnnounce ==
    ASSUME Shape, Commit
    PROVE  Announced' = {s \in Signals : values'[s] # values[s]}
<1>1. /\ values' = Committed
      /\ events' = writes.events \cup ChangeEvents(values, Committed)
                      \cup BarrierEvents(design, seen, Driven(writes.signals))
  BY CommitSteps
<1>2. writes.events \subseteq PartEvents
  BY DEF Shape, Collected
<1>3. \A s \in Signals : /\ <<s, "changed">> \notin PartEvents
                         /\ <<s, "changed">> \notin BarrierEvents(design, seen, Driven(writes.signals))
  BY DEF PartEvents, BarrierEvents
<1>4. \A s \in Signals : <<s, "changed">> \in ChangeEvents(values, Committed)
                            <=> Committed[s] # values[s]
  BY DEF ChangeEvents
<1> QED BY <1>1, <1>2, <1>3, <1>4 DEF Announced

(* Every step of the interpreter is a step of a delta cycle, or none.      *)
THEOREM DeltasAreSimultaneous == Spec => CommitsAreDeltas
<1>1. Init => Cycle!Init
  BY ShapeInitially DEF Shape, Cycle!Init
<1>2. RunInv /\ [Next]_vars => [Cycle!Assign \/ Cycle!TakeUp]_<<values, Announced>>
  <2> SUFFICES ASSUME RunInv, [Next]_vars
               PROVE  Cycle!Assign \/ Cycle!TakeUp \/ UNCHANGED <<values, Announced>>
    OBVIOUS
  <2>0. Shape /\ DeltaOk
    BY DEF RunInv
  <2>1. CASE Commit
    <3>1. values' \in [Signals -> Values]
      BY <2>0, <2>1, CommitFits DEF Shape
    <3> QED BY <2>0, <2>1, <3>1, OnlyChangesAnnounce DEF Cycle!Assign, Announced
  <2>2. CASE BeginDelta
    <3>1. values' = values /\ events' = {}
      BY <2>0, <2>2, BeginsDelta
    <3> QED BY <3>1 DEF Cycle!TakeUp, Announced
  <2>3. CASE FireTimers
    <3>1. events = {} /\ values' = values /\ events' = {<<t, "tick">> : t \in DueTimers(nextTick)}
      BY <2>0, <2>3 DEF DeltaOk, FireTimers, store
    <3> QED BY <3>1 DEF Announced
  <2>4. CASE Works \/ Halts \/ Stays \/ Sleep \/ HasEvents
    <3>1. UNCHANGED <<values, events>>
      BY <2>4 DEF Works, Halts, Stays, Sleep, HasEvents, queue, store
    <3> QED BY <3>1 DEF Announced
  <2>5. CASE ProcessEnds \/ ProcessTimesOut
    <3>1. UNCHANGED <<values, events>>
      BY <2>5 DEF ProcessEnds, ProcessTimesOut, queue, store
    <3> QED BY <3>1 DEF Announced
  <2> QED BY <2>0, <2>1, <2>2, <2>3, <2>4, <2>5, Moves
<1> QED BY <1>1, <1>2, RunInvariant, PTL DEF Spec, CommitsAreDeltas, Cycle!Spec, Announced

-----------------------------------------------------------------------------
(* Barriers.  They count members by number, so they are right only where   *)
(* no barrier names a member twice.                                        *)
MembersAreNamedOnce ==
    \A d \in Designs : \A b \in DOMAIN d.barriers : IsInjective(d.barriers[b])

LEMMA MembersCounted ==
    ASSUME NEW members \in Seq(Signals), IsInjective(members), NEW S \in SUBSET ToSet(members)
    PROVE  Cardinality(S) = Len(members) <=> S = ToSet(members)
<1> DEFINE M == ToSet(members)
           n == Len(members)
<1>1. n \in Nat /\ DOMAIN members = 1..n
  OBVIOUS
<1>2. M = {members[i] : i \in 1..n}
  BY <1>1 DEF ToSet
<1>3. members \in [1..n -> M] /\ \A x \in M : \E i \in 1..n : members[i] = x
  <2>1. members \in [1..n -> Signals]
    BY <1>1
  <2> QED BY <1>2, <2>1
<1>4. members \in Surjection(1..n, M) /\ members \in Injection(1..n, M)
  BY <1>3 DEF Surjection, Injection
<1>5. IsFiniteSet(1..n) /\ Cardinality(1..n) = n
  BY <1>1, FS_Interval
<1>6. IsFiniteSet(M) /\ Cardinality(M) = n
  BY <1>4, <1>5, FS_Surjection
<1> HIDE DEF M, n
<1>7. S \subseteq M
  BY DEF M
<1>8. Cardinality(S) = n <=> S = M
  BY <1>6, <1>7, FS_Subset
<1> QED BY <1>8 DEF M, n

(* The last of some signals in the order of names.                         *)
LEMMA LastSignal ==
    ASSUME NEW S \in SUBSET Signals, S # {}
    PROVE  \E s \in S : ~(Position(s) > Max({Position(t) : t \in S}))
<1>1. \A s \in Signals : Position(s) \in DOMAIN SignalOrder
  <2> SUFFICES ASSUME NEW s \in Signals PROVE Position(s) \in DOMAIN SignalOrder
    OBVIOUS
  <2>1. \E i \in DOMAIN SignalOrder : SignalOrder[i] = s
    BY DEF Signals, ToSet
  <2> QED BY <2>1 DEF Position
<1>2. DOMAIN SignalOrder = 1..Len(SignalOrder) /\ Len(SignalOrder) \in Nat
  BY OrderAssumption
<1> DEFINE P == {Position(t) : t \in S}
<1>3. P \in SUBSET Nat /\ P # {} /\ \A k \in P : k <= Len(SignalOrder)
  BY <1>1, <1>2
<1>4. Max(P) \in P /\ \A k \in P : k <= Max(P)
  BY <1>2, <1>3, GreatestNumber
<1>5. PICK s \in S : Max(P) = Position(s)
  BY <1>4
<1>6. Position(s) \in Nat
  BY <1>1, <1>2
<1>7. ~(Position(s) > Max(P))
  BY <1>5, <1>6
<1> QED BY <1>7

(* What a delta does to what a barrier has counted.                        *)
LEMMA Counting ==
    ASSUME NEW members \in Seq(Signals), IsInjective(members), NEW driven,
           NEW counted \in SUBSET ToSet(members), counted # ToSet(members)
    PROVE  LET after == SeenAfter(members, counted, driven) IN
           /\ after \subseteq ToSet(members) /\ after # ToSet(members)
           /\ Fires(members, counted, driven) =>
                 /\ \A m \in ToSet(members) : m \in counted \/ m \in driven
                 /\ after \subseteq driven
           /\ ~Fires(members, counted, driven) =>
                 after = counted \cup (driven \cap ToSet(members))
<1> DEFINE M == ToSet(members)
           arrived == driven \cap M
           last == Max({Position(s) : s \in M \ counted})
<1>1. counted \cup arrived \subseteq M
  OBVIOUS
<1>2. Cardinality(counted \cup arrived) = Len(members) <=> counted \cup arrived = M
  BY <1>1, MembersCounted
<1>3. Fires(members, counted, driven) <=> arrived # {} /\ counted \cup arrived = M
  BY <1>2 DEF Fires
<1>4. SeenAfter(members, counted, driven) =
         IF Fires(members, counted, driven) THEN {s \in arrived : Position(s) > last}
         ELSE counted \cup arrived
  BY DEF SeenAfter
<1>5. M \subseteq Signals
  BY DEF ToSet
<1>6. \E s \in M \ counted : ~(Position(s) > last)
  BY <1>5, LastSignal
<1> HIDE DEF last, M
<1>7. counted \subseteq M /\ counted # M
  BY DEF M
<1>8. CASE Fires(members, counted, driven)
  BY <1>3, <1>4, <1>6, <1>7, <1>8 DEF M
<1>9. CASE ~Fires(members, counted, driven)
  BY <1>3, <1>4, <1>7, <1>9 DEF M
<1> QED BY <1>8, <1>9

(* A commit, barrier by barrier.                                           *)
LEMMA CommitCounts ==
    ASSUME MembersAreNamedOnce, Shape, DeltaOk, BarrierOk, Commit,
           NEW b \in DOMAIN design.barriers
    PROVE  LET M == ToSet(design.barriers[b])
               fires == <<b, "ready">> \in events'
           IN /\ history'.fired[b] = IF fires THEN deltas ELSE history.fired[b]
              /\ \E m \in M : m \notin seen'[b]
              /\ \A m \in seen'[b] : /\ history'.written[m] >= 1
                                     /\ history'.written[m] >= history'.fired[b]
              /\ \A m \in M \ seen'[b] : history'.written[m] <= history'.fired[b]
              /\ fires => \A m \in M : /\ history'.written[m] >= 1
                                       /\ history'.written[m] >= history.fired[b]
<1> DEFINE members == design.barriers[b]
           M == ToSet(members)
           driven == Driven(writes.signals)
           ready == BarrierEvents(design, seen, driven)
<1>1. /\ seen' = [c \in DOMAIN seen |-> SeenAfter(design.barriers[c], seen[c], driven)]
      /\ events' = writes.events \cup ChangeEvents(values, Committed) \cup ready
      /\ history' = CommitHistory /\ frame.at = "committing"
  BY CommitSteps
<1>2. /\ history'.written = [s \in Signals |-> IF s \in driven THEN deltas ELSE history.written[s]]
      /\ history'.fired = [c \in DOMAIN design.barriers |->
                              IF <<c, "ready">> \in ready THEN deltas ELSE history.fired[c]]
  BY <1>1, CommitHistoryFits
<1>3. members \in Seq(Signals) /\ IsInjective(members)
  BY DesignsAssumption DEF Shape, MembersAreNamedOnce, DesignOk
<1>4. M \subseteq Signals
  BY <1>3 DEF ToSet
<1>5. /\ deltas \in Nat /\ deltas >= 1
      /\ history.written \in [Signals -> Nat] /\ history.fired \in [DOMAIN design.barriers -> Nat]
      /\ seen[b] \subseteq M /\ DOMAIN seen = DOMAIN design.barriers
  BY <1>1, HistoryFields DEF Shape, DeltaOk, SeenOk
<1>6. /\ \A s \in Signals : history.written[s] <= deltas
      /\ history.fired[b] <= deltas
      /\ \E m \in M : m \notin seen[b]
      /\ \A m \in seen[b] : history.written[m] >= 1 /\ history.written[m] >= history.fired[b]
      /\ \A m \in M \ seen[b] : history.written[m] <= history.fired[b]
  BY DEF BarrierOk
<1>7. <<b, "ready">> \in events' <=> Fires(members, seen[b], driven)
  <2>1. writes.events \subseteq PartEvents
    BY DEF Shape, Collected
  <2>2. <<b, "ready">> \notin PartEvents /\ <<b, "ready">> \notin ChangeEvents(values, Committed)
    BY DEF PartEvents, ChangeEvents
  <2>3. <<b, "ready">> \in ready <=> Fires(members, seen[b], driven)
    BY DEF BarrierEvents
  <2> QED BY <1>1, <2>1, <2>2, <2>3
<1>8. <<b, "ready">> \in ready <=> Fires(members, seen[b], driven)
  BY DEF BarrierEvents
<1>9. seen'[b] = SeenAfter(members, seen[b], driven)
  BY <1>1, <1>5
<1>10. seen[b] # M
  BY <1>6
<1>11. /\ seen'[b] \subseteq M /\ seen'[b] # M
       /\ Fires(members, seen[b], driven) =>
             /\ \A m \in M : m \in seen[b] \/ m \in driven
             /\ seen'[b] \subseteq driven
       /\ ~Fires(members, seen[b], driven) => seen'[b] = seen[b] \cup (driven \cap M)
  BY <1>3, <1>5, <1>9, <1>10, Counting
<1> HIDE DEF M, members, driven, ready
<1>12. \E m \in M : m \notin seen'[b]
  BY <1>11
<1>13. \A s \in Signals : /\ history.written[s] \in Nat /\ history'.written[s] \in Nat
                          /\ s \in driven => history'.written[s] = deltas
                          /\ s \notin driven => history'.written[s] = history.written[s]
                          /\ history'.written[s] <= deltas
  BY <1>2, <1>5, <1>6
<1>14. history.fired[b] \in Nat
  BY <1>5
<1>15. CASE Fires(members, seen[b], driven)
  <2>1. history'.fired[b] = deltas /\ <<b, "ready">> \in events'
    BY <1>2, <1>7, <1>8, <1>15
  <2>2. \A m \in seen'[b] : history'.written[m] = deltas
    BY <1>4, <1>11, <1>13, <1>15
  <2>3. \A m \in M \ seen'[b] : history'.written[m] <= deltas
    BY <1>4, <1>13
  <2>4. \A m \in M : history'.written[m] >= 1 /\ history'.written[m] >= history.fired[b]
    <3> SUFFICES ASSUME NEW m \in M
                 PROVE  history'.written[m] >= 1 /\ history'.written[m] >= history.fired[b]
      OBVIOUS
    <3>1. CASE m \in driven
      BY <1>4, <1>5, <1>6, <1>13, <3>1
    <3>2. CASE m \notin driven
      BY <1>4, <1>6, <1>11, <1>13, <1>15, <3>2
    <3> QED BY <3>1, <3>2
  <2> QED BY <1>5, <1>12, <2>1, <2>2, <2>3, <2>4 DEF M, members
<1>16. CASE ~Fires(members, seen[b], driven)
  <2>1. history'.fired[b] = history.fired[b] /\ <<b, "ready">> \notin events'
    BY <1>2, <1>7, <1>8, <1>16
  <2>2. \A m \in seen'[b] : history'.written[m] >= 1 /\ history'.written[m] >= history.fired[b]
    <3> SUFFICES ASSUME NEW m \in seen'[b]
                 PROVE  history'.written[m] >= 1 /\ history'.written[m] >= history.fired[b]
      OBVIOUS
    <3>0. m \in Signals
      BY <1>4, <1>11
    <3>1. CASE m \in driven
      BY <1>5, <1>6, <1>13, <3>0, <3>1
    <3>2. CASE m \notin driven
      BY <1>6, <1>11, <1>13, <1>16, <3>0, <3>2
    <3> QED BY <3>1, <3>2
  <2>3. \A m \in M \ seen'[b] : history'.written[m] <= history.fired[b]
    BY <1>4, <1>6, <1>11, <1>13, <1>16
  <2> QED BY <1>12, <2>1, <2>2, <2>3 DEF M, members
<1> QED BY <1>15, <1>16

LEMMA BarrierKept ==
    ASSUME MembersAreNamedOnce, Shape, DeltaOk, BarrierOk, [Next]_vars PROVE BarrierOk'
<1>0. /\ history.written \in [Signals -> Nat] /\ history.fired \in [DOMAIN design.barriers -> Nat]
      /\ deltas \in Nat
  BY HistoryFields DEF Shape
<1>1. ASSUME UNCHANGED <<design, seen>>, history'.written = history.written,
             history'.fired = history.fired, deltas' \in Nat, deltas <= deltas'
      PROVE  BarrierOk'
  <2>1. \A n \in Nat : n <= deltas => n <= deltas'
    BY <1>0, <1>1
  <2>2. \A s \in Signals : history.written[s] <= deltas'
    BY <1>0, <2>1 DEF BarrierOk
  <2>3. \A b \in DOMAIN design.barriers : history.fired[b] <= deltas'
    BY <1>0, <2>1 DEF BarrierOk
  <2> QED BY <1>1, <2>2, <2>3 DEF BarrierOk
<1>2. CASE Works
  <2>1. /\ UNCHANGED <<design, seen, deltas>>
        /\ history' = [history EXCEPT !.allowed = history'.allowed]
    BY <1>2 DEF Works, queue
  <2>2. history'.written = history.written /\ history'.fired = history.fired
    BY <2>1, OnlyAllowing
  <2> QED BY <1>0, <1>1, <2>1, <2>2
<1>3. CASE Halts \/ Stays \/ Sleep \/ HasEvents
  <2>1. UNCHANGED <<design, seen, deltas, history>>
    BY <1>3 DEF Halts, Stays, Sleep, HasEvents, queue, store
  <2> QED BY <1>0, <1>1, <2>1
<1>4. CASE FireTimers
  <2>1. UNCHANGED <<design, seen, deltas>>
    BY <1>4 DEF FireTimers, store
  <2>2. history' = [history EXCEPT !.ticks = history'.ticks] /\ history \in Histories
    BY <1>4 DEF FireTimers, Shape, Histories
  <2>3. history'.written = history.written /\ history'.fired = history.fired
    BY <2>2 DEF Histories
  <2> QED BY <1>0, <1>1, <2>1, <2>3
<1>5. CASE BeginDelta
  <2>1. /\ UNCHANGED <<design, seen>>
        /\ history' = [history EXCEPT !.ran = {}, !.late = {}]
    BY <1>5, BeginsDelta
  <2>2. deltas' \in Nat /\ deltas <= deltas'
    BY <1>0, <1>5 DEF BeginDelta
  <2>3. history'.written = history.written /\ history'.fired = history.fired
    BY <2>1, HistoryFields
  <2> QED BY <1>1, <2>1, <2>2, <2>3
<1>6. CASE ProcessEnds
  <2>1. /\ UNCHANGED <<design, seen, deltas>>
        /\ history' = [history EXCEPT !.ran = @ \cup {frame.process}]
    BY <1>6, EndsProcess DEF queue
  <2>2. history'.written = history.written /\ history'.fired = history.fired
    BY <2>1, HistoryFields
  <2> QED BY <1>0, <1>1, <2>1, <2>2
<1>7. CASE ProcessTimesOut
  <2>1. /\ UNCHANGED <<design, seen, deltas>>
        /\ history' = [history EXCEPT !.late = @ \cup {frame.process}]
    BY <1>7, TimesOut DEF queue
  <2>2. history'.written = history.written /\ history'.fired = history.fired
    BY <2>1, HistoryFields
  <2> QED BY <1>0, <1>1, <2>1, <2>2
<1>8. CASE Commit
  <2>1. /\ design' = design /\ deltas' = deltas
        /\ history'.written = [s \in Signals |-> IF s \in Driven(writes.signals) THEN deltas
                                                 ELSE history.written[s]]
    BY <1>8, CommitSteps, CommitHistoryFits
  <2>2. \A s \in Signals : history'.written[s] <= deltas
    BY <1>0, <2>1 DEF BarrierOk
  <2>3. \A b \in DOMAIN design.barriers : history'.fired[b] <= deltas
    <3>1. ASSUME NEW b \in DOMAIN design.barriers
          PROVE  history'.fired[b] \in {deltas, history.fired[b]}
      BY <1>8, CommitCounts
    <3>2. \A b \in DOMAIN design.barriers : history.fired[b] <= deltas
      BY DEF BarrierOk
    <3> QED BY <1>0, <3>1, <3>2
  <2>4. ASSUME NEW b \in DOMAIN design.barriers
        PROVE  /\ \E m \in ToSet(design.barriers[b]) : m \notin seen'[b]
               /\ \A m \in seen'[b] : /\ history'.written[m] >= 1
                                      /\ history'.written[m] >= history'.fired[b]
               /\ \A m \in ToSet(design.barriers[b]) \ seen'[b] :
                     history'.written[m] <= history'.fired[b]
    BY <1>8, CommitCounts
  <2> QED BY <2>1, <2>2, <2>3, <2>4 DEF BarrierOk
<1> QED BY <1>2, <1>3, <1>4, <1>5, <1>6, <1>7, <1>8, Moves

LEMMA BarrierInitially == Init => BarrierOk
<1> SUFFICES ASSUME Init PROVE BarrierOk
  OBVIOUS
<1>1. /\ seen = [b \in DOMAIN design.barriers |-> {}] /\ deltas = 0 /\ design \in Designs
  BY DEF Init
<1>2. /\ history.written = [s \in Signals |-> 0]
      /\ history.fired = [b \in DOMAIN design.barriers |-> 0]
  BY DEF Init, NoHistory
<1>3. ASSUME NEW b \in DOMAIN design.barriers
      PROVE  ToSet(design.barriers[b]) # {} /\ ToSet(design.barriers[b]) \subseteq Signals
  <2> DEFINE members == design.barriers[b]
  <2>1. members \in Seq(Signals) /\ members # <<>>
    BY <1>1, DesignsAssumption DEF DesignOk
  <2> HIDE DEF members
  <2>2. 1 \in DOMAIN members /\ \A i \in DOMAIN members : members[i] \in Signals
    BY <2>1
  <2>3. ToSet(members) # {} /\ ToSet(members) \subseteq Signals
    BY <2>2 DEF ToSet
  <2> QED BY <2>3 DEF members
<1> QED BY <1>1, <1>2, <1>3 DEF BarrierOk

(* Where no barrier names a member twice, a barrier is ready exactly when  *)
(* every member was written since it last was.                             *)
THEOREM BarriersCount == MembersAreNamedOnce => (Spec => BarrierCounts)
<1> SUFFICES ASSUME MembersAreNamedOnce PROVE Spec => BarrierCounts
  OBVIOUS
<1>1. Init => BarrierOk
  BY BarrierInitially
<1>2. RunInv /\ BarrierOk /\ [Next]_vars => BarrierOk'
  BY BarrierKept DEF RunInv
<1> DEFINE Counts(b) ==
      \A members \in {ToSet(design.barriers[b])} :
          /\ Readied(b) => \A m \in members : history'.written[m] >= Max({1, history.fired[b]})
          /\ frame.at = "committing" /\ frame'.at # "ended" /\ ~Readied(b) =>
                \E m \in members : history'.written[m] <= history.fired[b]
<1>3. ASSUME RunInv, BarrierOk, [Next]_vars, NEW b \in DOMAIN design.barriers
      PROVE  Counts(b)
  <2> DEFINE M == ToSet(design.barriers[b])
  <2>0. Shape /\ DeltaOk /\ history.fired[b] \in Nat
    BY <1>3, HistoryFields DEF RunInv
  <2>1. CASE Commit
    <3>1. /\ Readied(b) <=> <<b, "ready">> \in events'
      BY <2>0, <2>1, CommitSteps DEF Readied
    <3>2. /\ history'.fired[b] = IF Readied(b) THEN deltas ELSE history.fired[b]
          /\ \E m \in M : m \notin seen'[b]
          /\ \A m \in M \ seen'[b] : history'.written[m] <= history'.fired[b]
          /\ Readied(b) => \A m \in M : history'.written[m] >= 1 /\ history'.written[m] >= history.fired[b]
      BY <1>3, <2>0, <2>1, <3>1, CommitCounts
    <3>3. Max({1, history.fired[b]}) \in {1, history.fired[b]}
      <4> DEFINE n == history.fired[b]
      <4>1. {1, n} \in SUBSET Nat /\ {1, n} # {} /\ n + 1 \in Nat /\ \A k \in {1, n} : k <= n + 1
        BY <2>0
      <4> HIDE DEF n
      <4>2. Max({1, n}) \in {1, n}
        BY <4>1, GreatestNumber
      <4> QED BY <4>2 DEF n
    <3>4. Readied(b) => \A m \in M : history'.written[m] >= Max({1, history.fired[b]})
      BY <3>2, <3>3
    <3>5. ~Readied(b) => \E m \in M : history'.written[m] <= history.fired[b]
      BY <3>2
    <3> QED BY <3>4, <3>5
  <2>2. CASE Stays \/ Halts
    <3>1. UNCHANGED <<events, history>> /\ (frame' = frame \/ frame'.at = "ended")
      BY <2>2, AtFields DEF Stays, Halts, queue
    <3>2. ~Readied(b)
      BY <2>0, <3>1 DEF Readied, DeltaOk
    <3>3. \E m \in M : history.written[m] <= history.fired[b]
      BY <1>3 DEF BarrierOk
    <3> QED BY <3>1, <3>2, <3>3
  <2>3. CASE Works \/ Sleep \/ HasEvents \/ FireTimers \/ BeginDelta \/ ProcessEnds \/ ProcessTimesOut
    <3>1. frame.at # "committing"
      <4>1. CASE Works
        BY <4>1 DEF Works, Busy
      <4>2. CASE ProcessEnds \/ ProcessTimesOut
        BY <4>2 DEF ProcessEnds, ProcessTimesOut, MayTimeOut
      <4>3. CASE Sleep \/ HasEvents \/ FireTimers \/ BeginDelta
        BY <4>3 DEF Sleep, HasEvents, FireTimers, BeginDelta
      <4> QED BY <2>3, <4>1, <4>2, <4>3
    <3> QED BY <3>1 DEF Readied
  <2> QED BY <1>3, <2>0, <2>1, <2>2, <2>3, Moves
<1>4. RunInv /\ BarrierOk /\ [Next]_vars => [\A b \in DOMAIN design.barriers : Counts(b)]_vars
  BY <1>3
<1> QED BY <1>1, <1>2, <1>4, RunInvariant, PTL DEF Spec, BarrierCounts

-----------------------------------------------------------------------------
(* Conflicts.  Each write is compared with the one before it of the same   *)
(* signal, which is enough where no process writes a signal twice.         *)
LEMMA NeighboursSuffice ==
    ASSUME NEW signals, DOMAIN signals \subseteq Nat, NEW bound \in Nat,
           \A k \in DOMAIN signals : k <= bound, ~Clash(signals),
           \A j, k \in DOMAIN signals : /\ signals[j].signal = signals[k].signal
                                        /\ signals[j].process = signals[k].process
                                        => j = k,
           NEW s, NEW j \in WritesOf(signals, s), NEW k \in WritesOf(signals, s)
    PROVE  signals[j].value = signals[k].value
<1> DEFINE W == WritesOf(signals, s)
           first == Min(W)
           odd == {i \in W : signals[i].value # signals[first].value}
<1>1. W \subseteq DOMAIN signals /\ W \in SUBSET Nat /\ W # {} /\ \A i \in W : signals[i].signal = s
  BY DEF WritesOf
<1>2. first \in W /\ \A i \in W : first <= i
  BY <1>1, LeastNumber
<1> HIDE DEF first
<1>3. odd = {}
  <2> SUFFICES ASSUME odd # {} PROVE FALSE
    OBVIOUS
  <2> DEFINE b == Min(odd)
             earlier == {i \in WritesOf(signals, signals[b].signal) : i < b}
             p == Max(earlier)
  <2>1. b \in odd /\ \A i \in odd : b <= i
    BY <1>1, LeastNumber
  <2> HIDE DEF b
  <2>2. b \in W /\ b \in Nat /\ first \in Nat /\ first <= b /\ first # b /\ signals[b].signal = s
    BY <1>1, <1>2, <2>1
  <2>3. first \in earlier /\ earlier \subseteq W /\ \A i \in earlier : i < b
    BY <1>2, <2>2
  <2>4. p \in earlier
    <3>1. earlier \in SUBSET Nat /\ earlier # {} /\ \A i \in earlier : i <= b
      BY <1>1, <2>2, <2>3
    <3> HIDE DEF earlier
    <3> QED BY <2>2, <3>1, GreatestNumber
  <2>5. b \in DOMAIN signals /\ earlier # {}
    BY <1>1, <2>2, <2>3
  <2>6. signals[p].process = signals[b].process \/ signals[p].value = signals[b].value
    BY <2>5 DEF Clash
  <2> HIDE DEF p
  <2>7. p \in W /\ p \in Nat /\ p < b /\ p # b
    BY <1>1, <2>2, <2>3, <2>4
  <2>8. p \notin odd
    BY <1>1, <2>1, <2>2, <2>7
  <2>9. signals[p].value # signals[b].value
    BY <2>1, <2>7, <2>8
  <2>10. signals[p].signal = signals[b].signal /\ p \in DOMAIN signals
    BY <1>1, <2>2, <2>7
  <2> QED BY <2>5, <2>6, <2>7, <2>9, <2>10
<1> QED BY <1>3

LEMMA CleanKept ==
    ASSUME Shape, [Next]_vars, frame'.at = "top"
    PROVE  \/ UNCHANGED <<frame, writes>>
           \/ writes' = writes /\ ~Clash(writes.signals)
<1>1. ~Works /\ ~ProcessTimesOut
  BY TimesOut, Zenon DEF Works, Busy
<1>2. ~Halts /\ ~Sleep /\ ~HasEvents /\ ~FireTimers
  BY AtFields DEF Halts, Sleep, HasEvents, FireTimers
<1>3. ~BeginDelta
  BY BeginsDelta, Zenon
<1>4. ~ProcessEnds
  BY EndsProcess, Zenon
<1>5. Stays => UNCHANGED <<frame, writes>>
  BY DEF Stays
<1>6. Commit => writes' = writes /\ ~Clash(writes.signals)
  BY DEF Commit
<1> QED BY <1>1, <1>2, <1>3, <1>4, <1>5, <1>6, Moves

(* What docs/RUNTIME_SPEC.md says of conflicts, where it is true: if no    *)
(* process writes a signal twice in a delta, all drivers of a committed    *)
(* delta agree.                                                            *)
THEOREM SingleWritesAgree == Spec => []SingleDriversAgree
<1> DEFINE Clean == frame.at = "top" => ~Clash(writes.signals)
<1>1. Init => Clean
  <2> SUFFICES ASSUME Init PROVE ~Clash(writes.signals)
    OBVIOUS
  <2>1. writes = NoWrites
    BY DEF Init
  <2>2. DOMAIN writes.signals = {}
    BY <2>1 DEF NoWrites
  <2> QED BY <2>2 DEF Clash
<1>2. RunInv /\ Clean /\ [Next]_vars => Clean'
  BY CleanKept DEF RunInv
<1>3. RunInv /\ Clean => SingleDriversAgree
  <2> SUFFICES ASSUME Shape, ~Clash(writes.signals), WrittenOnce,
                      NEW s, NEW p \in DriversOf(s), NEW q \in DriversOf(s)
               PROVE  LastWrite(p, s) = LastWrite(q, s)
    BY DEF RunInv, SingleDriversAgree, DriversAgree
  <2> DEFINE signals == writes.signals
             Of(r) == {k \in WritesOf(signals, s) : signals[k].process = r}
  <2>1. signals \in Seq(Entry)
    BY DEF Shape, Collected
  <2> HIDE DEF signals
  <2>2. /\ DOMAIN signals \subseteq Nat /\ Len(signals) \in Nat
        /\ \A k \in DOMAIN signals : k <= Len(signals)
    BY <2>1
  <2>3. ASSUME NEW r \in DriversOf(s)
        PROVE  \E k \in WritesOf(signals, s) : LastWrite(r, s) = signals[k].value
    <3>1. Of(r) \in SUBSET Nat /\ Of(r) # {} /\ \A k \in Of(r) : k <= Len(signals)
      BY <2>2, <2>3 DEF WritesOf, DriversOf, signals
    <3>2. Max(Of(r)) \in Of(r)
      BY <2>2, <3>1, GreatestNumber
    <3> QED BY <3>2 DEF LastWrite, signals
  <2>4. /\ ~Clash(signals)
        /\ \A j, k \in DOMAIN signals : /\ signals[j].signal = signals[k].signal
                                        /\ signals[j].process = signals[k].process
                                        => j = k
    BY DEF WrittenOnce, signals
  <2>5. \A j, k \in WritesOf(signals, s) : signals[j].value = signals[k].value
    BY <2>2, <2>4, NeighboursSuffice
  <2> QED BY <2>3, <2>5
<1> QED BY <1>1, <1>2, <1>3, RunInvariant, PTL DEF Spec
=============================================================================
