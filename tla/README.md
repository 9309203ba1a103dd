# AWHDL / AI Conductor: a TLA+ verification project

AI Conductor runs workflows of language models and MCP tools. A planner model
(or a compiled AWHDL design) proposes steps; a trusted runtime written in Rust
checks them, runs them, and keeps a durable record so that a write to the
outside world is neither repeated nor forgotten when something fails. This
directory models that runtime (`src/crates/aiconductor-runtime`) and the static
side of the language (`awhdl-checker`, `awhdl-graph`), checks the models with TLC
and proves theorems about them with TLAPS.

All paths below are relative to `src/crates/aiconductor-runtime/src` unless
they say otherwise.

## 1. Inventory

| Component | State it keeps | Operations | Hard behaviours | What makes it correct |
|---|---|---|---|---|
| Invocation identity `execution.rs` | generation, records (operation, parent, cause, attempt, status, result) | `begin_caused`, `finish_result`, `cancel`, `advance_generation`, `barrier_ready`, `restore` | results arrive late, twice or after a revision; retries; parents | one end per invocation; serial attempts; a barrier has one answer; every reachable state restores |
| Values and events `dataflow.rs` | event history, latest values, consumed ids | `assign`, `publish`, `consume`, `validate_dataflow` | revisions restart per generation; consumption before hand-over | history only grows; at-most-once delivery; a valid history stays valid |
| Effect journal `effect.rs` | effects: descriptor, state, invocation | `reserve_effect`, `start_effect`, `finish_effect`, `reconcile_effect` | ambiguous errors, lost and late requests, crash in flight | no remote write is performed twice; what the journal says is true; unresolved writes can be settled |
| Approvals `approval.rs` | approvals: action hash, state, lifetime, consumer | `request_approval`, `decide_approval`, `consume_approval` | expiry racing the answer; retries; crash after the answer | one answer releases one request; only on a grant in force |
| Run store and audit `audit.rs` | the execution state in memory and in `execution.json`, the poisoned flag, `state.json`, audit lines | every operation above, cloned, written, then made visible; `open` | a write fails with either file content; the process dies between any two steps | the file is always restorable; settled facts stay settled |
| Action state machine `state_machine.rs` | status and attempts of every action | `start`, `succeed`, `fail`, `eligible_actions`, `next_workflow_action` | retries, dependencies, repeatable actions | an action never stands on a dependency that was taken back |
| Completion policy `completion.rs` | none (a verdict on the states, the journal and the typed outputs) | `evaluate` | judged before polishing runs | completed runs have their evidence |
| Budget `budget.rs` | counters | `iteration`, `model_call`, `mcp_call`, ... | counted before the check; refusals do not end the run | calls that leave stay within the limits |
| Planner loop `engine.rs` | loop position, typed outputs, calls already made | `run`, `decide_next`, `plan`, `execute_action`, `obtain_approval` | every `?` is an exit; model fallback; duplicate suppression; polishing after the verdict | the verdict is earned; one action runs; the run ends |
| Decision model client `decider.rs` | none | `choose` | unsure answers abstain | narrows the offer, never widens it |
| Approver adapter `approver.rs` | a connection per question | `ask`: initialize, tools/list, human.request, human.await polled once a second | a late or mismatched answer; expiry racing an answer; a server that could answer itself | an approved call leaves after the human's answer and before the expiry |
| AWHDL design interpreter `design.rs` | signal values, pending events, timers, barriers, fired deltas | `run`, `delta`, `block`, `call`, `declassify` | delta-cycle order, timeouts that drop calls, conflicting drivers, budgets, releases waiting for a human | a delta is one simultaneous assignment; no change goes unnoticed; only allowed content is released; runs end |
| Capabilities `capability.rs` | grants | `authorize`, `permits`, `narrow`, validation | overlapping grants of different classes; wildcard patterns | the severest grant that covers a call decides; narrowing never widens |
| Configuration `config.rs` | none | `load`, `validate`, `authorize_route` | cross-references between routes, grants, locations, approvals | what the load accepted is what every later step relies on |
| Model hosts `model.rs`, `llm.rs` | connections | `ensure`, `complete` | availability, launch, tunnels | none beyond success or failure of a call |
| MCP client `mcp.rs` | the outstanding request, the unread lines | `connect`, `request`, `receive_response`, `call_tool` | late and repeated responses, notifications, silence, a closed pipe | a success is the answer to the request; a call ends |
| Adapters `adapters.rs` | none | `prepare`, `resolve_tool`, `normalize` | they replace the tool after the configuration was validated | no call does more than the class of its route |
| Checker `awhdl-checker` | none | `check`: names, types of declarations, explicit and implicit flows | classes of events and contexts depend on each other (a fixpoint) | no accepted design moves a value to a weaker place |
| Compiler `design.rs` (`compile`, `bind`) | none | accepted source to runnable design | what the checker assumed about a device must hold for its route | the design that runs is the one that was checked |
| Graphs `awhdl-graph` | none | `project` into structure, behavior, Petri, activity and security views | cycles, parallel blocks, outcomes of calls | the drawing leaves out no run, no cause, no loop and no forbidden flow |
| Parser, syntax tree, renderer, command line | none | parse, render, print | none | text processing |

How they interact. `engine.rs` owns one `RunStore` per run and calls it from a
single task; the store owns the execution state. For a device call the engine
authorizes (capabilities), counts (budget), asks for an approval if the effect
needs one, and calls `invoke` or `invoke_effect`, which writes the identity to
disk before the device is polled and the result before it is returned. The
planner loop reads the action state machine and the journal to judge completion.
The design interpreter calls the same store through a dispatcher, and drops the
call's future on a timeout. Nothing else is shared; the concurrency is that of
the single task with the providers, the human, the clock, the disk, and the
next process that opens the same run.

## 2. Modules

| Module | Models |
|---|---|
| `Dataflow` | `dataflow.rs` as operators on an execution state `x` |
| `Invocation` | `execution.rs`: begin, terminate, generations, barrier, record checks of `restore` |
| `Approval` | `approval.rs` |
| `Effect` | `effect.rs`, the whole of `restore`, and the shape of an execution state |
| `Execution` | the in-memory state machine: any order of `begin`, `finish`, `cancel`, `advance_generation`, `assign`, `publish`, `consume` |
| `RunStore` | the store with failed checkpoint writes, crashes, reopening, providers, the human and the clock |
| `WriteOnce` | the abstract promise about remote writes, implemented by `RunStore` |
| `ActionStateMachine`, `Completion` | `state_machine.rs`, `completion.rs` as operators |
| `PlannerLoop` | `Engine::run` with its planner, decision model, actions and budgets |
| `Design` | a compiled design as data, evaluation, and what the end of a delta does with its writes (`design.rs`) as operators |
| `DesignRun` | `DesignRun::run` and `Engine::run_design`: delta cycles, process bodies, device calls, releases, timers, timeouts, budgets |
| `DeltaCycle` | the abstract promise about signals, implemented by `DesignRun` |
| `Checker` | `awhdl-checker/src/lib.rs`: a source as data, every diagnostic as a set of codes, sites and contexts, the fixpoint of event classes |
| `Compile` | `compile`, `bind` and `declassifier` of `design.rs`: which accepted sources become designs, and which design |
| `Net` | `awhdl-graph/src/project/petri.rs`: the Petri view, and its firing rule |
| `FlowView` | `awhdl-graph/src/project.rs`: the security view, ordinary flows and denied ones |
| `Drawing` | `awhdl-graph/src/project.rs`: the edges of the behavior view, `mark_loops` |
| `LabeledRun` | composition: a source that `Checker` accepts and `Compile` binds runs in `DesignRun`; an observer follows classes |
| `CheckedRun` | `LabeledRun` with a second observer, which plays the net along and holds the behavior view |
| `Capability`, `Configuration` | `capability.rs`, the rules of `config.rs` about routes and grants, as operators |
| `Session` | one stdio MCP connection and what its server may say (`mcp.rs`) |
| `Dispatch` | one MCP action from its preparation to its answer: adapters, authorization, approver, call (`engine.rs`, `adapters.rs`, `approver.rs`, `mcp.rs`) |
| `MCExecution`, `MCRunStore`, `MCPlannerLoop`, `MCDesignRun`, `MCCheckedRun`, `MCDispatch` | instances for TLC |
| `EffectProofs` | lemmas about the operators on an execution state: they keep it well formed, its settled facts, and restorable |
| `ExecutionProofs` | theorems about `Execution` |
| `RunStoreProofs`, `JournalProofs` | theorems about `RunStore`: types, delivery, settled facts, grants; restorability, the journal, `WriteOnce` |
| `PlannerLoopProofs` | theorems about `PlannerLoop` |
| `DesignRunProofs` | theorems about `DesignRun`, `DeltaCycle` among them |
| `LabeledRunProofs` | theorems about `Checker`, `Compile`, `FlowView`, and about `LabeledRun` |
| `DispatchProofs` | theorems about narrowing and about `Dispatch` |

Every method of `ExecutionState` is a pure update of the state guarded by its
error returns, because the store clones the state, applies the method, writes
the clone and only then replaces its copy (`audit.rs`, `update_execution`). So a
method `m` is a pair of operators, a guard `CanM(x, ...)` and an update
`M(x, ...)`; `Execution` and `RunStore` make actions of them. In `RunStore`,
`Update(next, then)` is `update_execution`: `Commit` writes and shows `next`;
`WriteFails` leaves the old or the new content in the file, poisons the store and
returns an error to the caller, who goes back to `Idle`. `call` is the position
of the one caller inside `invoke`, `invoke_effect` or `obtain_approval`.

Abstractions. UUIDs are creation positions (fresh, never reused). Payload
hashes, resources and arguments are opaque values that equality tells apart;
the SHA-256 of an action is the tuple it is computed from. The result stored
with an invocation is present exactly when its status is Completed, so only the
status is kept. Audit lines are left out except where writing one can fail
between two steps. Wall-clock time is a tick counter; approval lifetimes are
counted in ticks. A provider is the pair `wire`, `landed`: a request that left
may be performed later (also after the caller gave up), or never. The trusted
reconciler answers only what the provider proves, which is what the code
requires of it; it is external to the repository, as are provider, crash and
clock.

In `PlannerLoop` every answer a model may give that the parser accepts is a
nondeterministic choice, and so is a failing one. What device calls leave in the
journal is reduced to the set of actions with an unresolved write, because that
is all `Evaluate` reads. What the instruction of a run selects (a workflow, a
policy, the cloud opt-in) is chosen once, in `Init`. The loop is sequential, so a step of the model is the
stretch of code between two calls to the outside.

`DesignRun` interprets a design, which is a constant-like variable chosen from
`Designs` in `Init`: `MCDesignRun` writes down designs after the tutorial
examples and the unit tests of `design.rs`. `frame` is the position of the
interpreter: at the top of the loop, asleep, inside the statement of a process
(`todo` holds the rest of the body, nested blocks unfolded), at a wait
(`calling`, `filtering`, `asking`), or committing. `local` are the writes of the
process, `writes` those of the delta (`DeltaWrites`). `x` and `x.changed` are
raised together and are one event, as are a barrier and its `.ready`. All JSON
values are small integers or `Null`; one arithmetic and one ordering operator
stand for their kinds because each has the error path of its kind. The bound
route of a call is reduced to its outcome: an answer, an error, a timeout, and
for a write possibly an unresolved effect (`doubt`), which is what
`run_design` asks the completion policy about. Which calls the effect journal
refuses is the matter of `Effect`. `history` only records what properties read.
Time is a tick counter that may advance at any point, so that deltas take
arbitrarily long.

`Checker` works on sources as trees: entities with labelled ports, declarations
with generics, processes with their triggers. A diagnostic is its code, so
`Check(source)` is a set of codes and an accepted source has none. `LabeledRun`
starts from a source that compiles, runs `Compiled(source)` in `DesignRun`, and
adds an observer that changes nothing. `flow` carries the class of every value and
event, of what woke the process, of the conditions it is under and of the calls
its body made: what the static analysis over-approximates. The drawings and the
net walk statement trees by recursion, so what observes them is a module of its own:
in `CheckedRun`, `net` plays the Petri view (a process takes its token when it
begins, the events and changes of a delta are emitted at its end) and `drawn` holds
the behavior view. The checker and the security view look at the set of statements
of a process (`Occurrences`), each with the conditions that it is under, and
depend on no recursion. All properties are checked in one run, of `CheckedRun`.

In `Dispatch` a step runs to the next await; between two the clock ticks, the
human answers, and a server writes a line. One poll of `human.await` waits one
tick. A server answers only what it was asked, possibly twice; a notification or
a repeated answer is a stray line, and a line that does not parse ends the
stream as a closed pipe does. `Authorize` returns the class of the severest grant
that covers a request; which of two equal grants answers is only audited, and
left open. Resources are paths of segments; a segment pattern with a star is the
set of segments it stands for.

## 3. Runs

All runs switch deadlock checking off because every model ends: a run of the
planner loop, of a design or a dispatch returns, and the store's models stop at
their bounds.

| Run | Question | Bounds, and why they suffice |
|---|---|---|
| `exec` | Does every reachable state restore, are attempts serial, barriers unambiguous and stable, and is what arrives late inert? | two operations, two generations, one name with two payloads, one topic; four records and events together: a retry beside its parallel branch, a value changed, carried into the next generation and changed again |
| `store_writes` | Is a remote write performed at most once, does the journal tell the truth, do settled facts survive, is every unresolved write settled in the end? | one remote and one local variant, three invocations, one event, one crash or failed write: dispatch, ambiguous end, crash, reconcile, retry |
| `store_approvals` | Does one answer release one request, while it is in force? | one approved external and one destructive write, two approvals, two dispatches, three instants, one crash |
| `loop` | Are verdicts, dependencies and budgets safe under any planner, and does the run end? | four actions in a dependency chain with two attempts each; a free run, one that follows a workflow, one with the cloud opt-in; completions that soft conditions reject, a model fallback, a polishing action that others depend on, a write that can repeat an earlier call, limits that do and do not bind |
| `design_run` | Are delta cycles simultaneous assignments, does every reader of a change run, do barriers and timers count, is only released what was allowed, does every run end? | ten designs over five signals: a feedback loop left by its condition, one left by its budget or an overflow, parallel calls joined by a barrier with a retry, process and call timeouts, several drivers of a signal; a release by filter, by human and by both, with denial, stale echo, expiry (lifetime 1) and process timeout; two timers of periods 2 and 3 with a slow call, stopped by wall time or iterations. 9 instants, 9 deltas, statements nested two deep |
| `design_checked` | Is the static flow analysis right about runs, and are the drawn views? | nine process patterns with their variants of devices and declassifiers, under all 27 labellings of three signals and the unlabelled one; of these 504 sources TLC runs the 133 that the checker accepts and the compiler binds, from every choice of given inputs. Three classes, a cloud and a cleared local device, conditions, succession of events, handlers, a barrier, releases, a retry loop: every rule of the analysis decides some labelling. 5 iterations: two more than the longest chain without a loop, and one more than `LoopFreeDesignsSettle` allows |
| `dispatch` | Is what reaches a server guarded as its severest grant asks, is an approval fresh, and does every dispatch end? | every combination of class, approval setting, reconciliation, adapter, tool and two overlapping grants that loads; approval lifetime and device timeout of one tick, time up to three: an answer before, at and after the expiry; one stray line; a file resource under a revoked and a live grant |
| `store_timeout`, `store_variants`, `design_drivers`, `design_barrier`, `dispatch_loaded` | Where code and documentation disagree (section 6) | the smallest instance that shows it |

`CheckpointsRestore` and `RestoreAccepts` apply the validation of `restore` to
every state: a checkpoint that the code itself wrote is never refused.
`RemoteWritesHappenOnce` is a refinement: with `claim` read from the file and
`applied` counted at the provider, every step of `RunStore` is a step of
`WriteOnce` or leaves it unchanged. `DispatchNeedsLiveGrant`,
`SettledStaysSettled`, `LateResultsAreInert` and `BarrierStable` are action
properties. `CommitsAreDeltas` is a refinement too: every step of a design run
that touches a signal is one simultaneous assignment of `DeltaCycle` that
announces exactly the signals it changed; timeouts, failures and conflicts
between processes leave no trace in the signals. `ReleasesAreAllowed` speaks of
every signal that nothing but the releases of one declassifier writes, and
`OnlyHandlersOfLateProcesses` of every write of a process that timed out; both
look through nested statements, which `Code` collects down to `MaxNesting`.
`DriversAgree` is false of the code (section 6); `SingleDriversAgree` is the part
of it that holds, and is proved: if no process writes a signal twice in a delta,
all drivers of a committed delta agree.

`FlowsStayLabeled` is the soundness of the checker against an observer that
knows the run: whatever woke a process, branched, timed out or was released on
the way, no value is stronger than its signal declares. `CallsStayCleared` says
the same of call statements, the circumstances of a call included, against the place
and the clearance of the device, and of releases against the range of the
declassifier: filter and human see only content within it, a human is asked only in
circumstances within it, and no filter is in the cloud against the floor. It
does not bound what a filter is told by the filter's clearance, because the code
never asks for that (section 6). `RunsAreFirings`, `CausesAreDrawn` and `LoopFreeDesignsSettle` tie drawings to runs: a run is a
firing sequence of its net, every process that another one wakes is drawn after
it, and a design without a drawn loop (and without timers) comes to rest by
itself. `DenialsMatchTheChecker` compares two computations of one rule,
`awhdl-graph`'s denied edges and the checker's E301 and E302.

In `dispatch`, the classes in `WritesAreGuarded` and `ClassIsACeiling` are those
of all grants that cover the call, so the order and overlap of grants cannot
matter. `SuccessIsAnswered` is an action property about the connection.

### Fairness

Only the runs with a liveness property assume any. `store_writes`: a process
that died, or whose store is poisoned, is started again (an operator does this;
without it nothing can be promised); a provider performs a request or drops it;
a call in flight returns or is abandoned, because every client has a timeout; and
the reconciler, if it can keep asking, is told something definite infinitely
often (strong fairness, since a crash can interrupt it). `loop`: weak fairness of
the whole next-state relation, because every await of the loop is bounded by a
timeout and the loop runs in one task. `design_run`: weak fairness of the
interpreter's steps, for the same reason (routes have timeouts, the approver
stops at the expiry), and of the clock. A process timeout and a failing audit
line are never owed. `dispatch`: weak fairness of the client's steps and of the
clock, and HumanPort answers every request in the end (`human.await` answers
"wait" while nobody decides), because that conversation has no timeout of its
own. The human need not decide, and the server of the tool may stay silent.

## 4. Proofs

TLAPS proves, for all values of the constants, the following theorems. Where a
theorem states a property that a run checks, the property is named; the other
properties are explained where they stand.

| Component | Theorem | Property |
|---|---|---|
| Execution state (`ExecutionProofs`) | `EveryStateRestores` | `RestoreAccepts` |
| | `AttemptsAreSerial` | `SerialAttempts` |
| | `BarriersAreUnique` | `BarrierUnique` |
| | `LateResultsChangeNothing` | `LateResultsAreInert`, an action property |
| | `BarriersAreStable` | `BarrierStable`, an action property |
| Run store (`RunStoreProofs`) | `TypeCorrect` | `TypeOK`: both copies of the execution state keep their shape |
| | `DeliveryIsOnce` | `DeliveredAtMostOnce` |
| | `SettledForGood` | `SettledStaysSettled`, an action property |
| | `GrantsAreSpentOnce` | `EachRequestSpentAGrant` |
| Run store (`JournalProofs`) | `CheckpointsAlwaysRestore` | `CheckpointsRestore` |
| | `JournalTellsTheTruth` | `JournalIsTrue` |
| | `RequestsNeedGrants` | `DispatchNeedsLiveGrant`, an action property |
| | `WritesHappenOnce` | `RemoteWritesHappenOnce`, the refinement of `WriteOnce` |
| Planner loop (`PlannerLoopProofs`) | `LoopInvariant` | the inductive invariant |
| | `VerdictsAreEarned` | `CompletionIsEarned` |
| | `DependenciesStandFirm` | `DependenciesStand` |
| | `ActionsRunAlone` | `OneActionRuns` |
| | `LimitsHold` | `BudgetsHold` |
| Design interpreter (`DesignRunProofs`) | `RunInvariant` | the inductive invariant |
| | `TypesHold` | `TypeOK` |
| | `NobodyIsForgotten` | `NoLostWakeup` |
| | `DroppedBodiesWriteNothing` | `OnlyHandlersOfLateProcesses` |
| | `ReleasesWereAllowed` | `ReleasesAreAllowed` |
| | `TimersKeepTime` | `TicksKeepTime` |
| | `DeltasAreSimultaneous` | `CommitsAreDeltas`, the refinement of `DeltaCycle` |
| | `BarriersCount` | `BarrierCounts`, under `MembersAreNamedOnce` |
| | `SingleWritesAgree` | `SingleDriversAgree`: the part of `DriversAgree` that is true of the code |
| Checker and compiler (`LabeledRunProofs`) | `ClassesSettle` | the iteration over event classes reaches a fixed point |
| | `CompiledDesignsAreOk` | `DesignOk` of what is compiled: the premise of the theorems about the interpreter |
| Labelled runs (`LabeledRunProofs`) | `LabeledInvariant` | the inductive invariant |
| | `NoValueLeaks` | `FlowsStayLabeled` |
| | `NoCallLeaks` | `CallsStayCleared` |
| | `GuardIsRedundant` | `GuardNeverRefuses` |
| | `DenialsAreExact` | `DenialsMatchTheChecker` |
| Dispatch (`DispatchProofs`) | `GuardedWrites` | `WritesAreGuarded` |
| | `ClassCeiling` | `ClassIsACeiling` |
| | `FreshApprovals` | `ApprovalsAreFresh` |
| | `SuccessHasAResult` | `SuccessIsAnswered`, an action property |
| | `NarrowingIsSafe` | `NarrowedGrantsPermitNoMore`, from `NarrowingPermitsNoMore` for any two patterns |

### Assumptions

They are declared with the constants, and TLC evaluates them on every instance.

- Execution state and store: `RequestsAssumption` (what `EffectRequest::new` and
  `with_approval` enforce), `NoPayloadAssumption`, `TtlAssumption`,
  `MaxTtlAssumption`. The bounds are arbitrary numbers.
- Planner loop: `RoutesAssumption`, `PolicyAssumption`, `LoopAssumption`, which
  say what kind of thing each constant is. The dependency relation may have
  cycles, and limits may be zero.
- Interpreter: `DesignsAssumption` and `OrderAssumption` are what checker and
  compiler see to (`CompiledDesignsAreOk` proves it of them): a name is declared, and used as what it is; every expression is
  one of `Expressions`; periods are positive; a barrier has a member; signals come
  in one order. Statements nest no deeper than `MaxNesting`, which is arbitrary:
  every design has such a number. `ResultsAssumption`, `LimitsAssumption` and
  `MaxIntegerAssumption` are about ranges.
- Labelled runs: `SourcesAssumption` is what the parser yields (lists are lists,
  statements are of the known kinds, nest to some depth and have blocks, periods are
  numbers, a barrier has a member, what computes a value reads signals), and that
  `SignalOrder` and `Parts` list the names declared. Nothing in it says that a name is
  declared, used as what it is, or used once: that is proved of accepted sources. What the
  checker makes of a source, and where it is bound, is computed by `Checker` and
  `Compile` and not assumed. Sources, routes and answers are arbitrary.
- Dispatch: `PatternAssumption` (a pattern stands for a set of segments, a segment
  for itself), `ConfigurationsAssumption` (the dispatched route is an MCP route and
  classes are classes), `ShapesAssumption` (the fields of a grant are what the
  parser makes of them) and `TimesAssumption`.

Two theorems have a condition of their own, and a run shows that each is needed.
`BarriersCount` holds of designs whose barriers name a member once
(`MembersAreNamedOnce`); `design_barrier` violates `BarrierCounts` with one that
names it twice. `SingleDriversAgree` is about deltas in which no process writes a
signal twice (`WrittenOnce`); `design_drivers` violates `DriversAgree` without it.

### Execution state

`TypeOK` is not inductive: `NextAttempt` picks the least number above all attempts
of the operation, which exists within its search range only because attempts
never run ahead of the number of records. So `WellFormed(x)` adds
`AttemptsNumbered(x)`, and `LeastUpperBound` proves that the number exists
(`EffectProofs`, one lemma per operator).

`Restorable(x)` is what makes restorability inductive: `Valid(x)`, which is the
code's own validation, and three facts it does not look for. `ParentsFirst`: a
record is created after its parent, from which `ParentsEnd` gets that parent
chains end. `PendingIsNewest`: a pending attempt has no newer one, which is also
what `SerialAttempts` says. `OneEffectEach`: an invocation serves one effect, so
an effect can end without touching the records of another. `EffectProofs` has
one lemma per operator of `Invocation`, `Dataflow`, `Approval` and `Effect`,
restart included. The barrier theorems follow from serial attempts: the results
of a barrier are the newest completed attempts, and there is one newest of each
operation. The action properties follow from `Progresses(x, y)`: only a pending
record of the current generation changes, and only its status.

### Run store

At-most-once delivery needs `DeliveredIsConsumed`: what was delivered is
consumed in memory **and** on disk, since a failed write may leave either and a
restart continues from the file. `MemoryIsDisk` says that a usable store shows
exactly what it wrote. `StoreStep` carries this through `update_execution`, so
that each action only needs the lemma of the operator it commits.

`Evolves(x, y)` says that y keeps the settled facts of x and the approval needs
of its effects. It is transitive, every operator evolves the state, and
`StepsEvolve` lifts this to the file: whichever snapshot a failed write leaves,
the file has evolved. `SettledForGood` is that lemma read as an action property.
`EachRequestSpentAGrant` is not inductive, because a later step could forget the
effect or the approval; `GrantInv` adds that the effect of every sent request is
on disk, `GrantsOutlast` carries it along, and `StartEvolves` shows that
`start_effect` spends the grant of the request it releases.

`CheckpointInv` (both copies are restorable, approvals were issued in the past,
the invocation that `invoke` waits for is a plain one) uses those lemmas. The
journal is harder, because a request in the air may land at any time, after a
retry or a restart too. `JournalInv` adds to `JournalIsTrue` that one dispatch has
one request (`OneRequestEach`). Each step is a `JournalMove`: nothing of
the journal moves; a file write that carries the effects over (`Carries`); an effect
starts and its request leaves; a request lands or is dropped; an effect ends or is
reconciled as the provider did. `JournalStaysTrue` handles the moves, and a lemma
per action of `RunStore` shows which move it is.
`WritesHappenOnce` maps the same moves to steps of `WriteOnce` or to stutters.

### Planner loop

`LoopInv` relates the position of the loop to the states of the actions.
`ChosenAreOpen` says that what the planner, the decision model, a retry or
polishing has chosen is still startable, so no second attempt starts beside the
first. `VerdictsComeLast` says that a verdict is written or returned only after the loop,
and `VerdictStands` that it stands when it is: while polishing runs an action after
the verdict, it stands for the states with that action succeeded, and the run fails
if the action does. Budgets need `Counted`, which ties the calls that left to the counters;
the counters themselves may exceed the limits, because a refused call is counted.

### Design interpreter

`RunInv` has one part per concern. `Shape`: types, and the statements that remain
are statements of the process at hand, of its body or its handler. `DeltaOk`: the
events of the next delta are raised only at the end of this one. `TurnOk`: processes run in
their declared order, each at most once in a delta, so the writes of the delta
belong to processes that had their turn. `LateOk`: of a late process only what its
handler writes is in the delta. `WakeOk`: who is owed a run is triggered until it
ran. `AskedOk` and `WrittenOk`: what is being asked about is the content of the
release at hand, and what only a release writes was allowed in the delta that
wrote it. A step either works within a process (`Works`), halts it (`Halts`), keeps
the frame of the delta (`Stays`) or is one of the actions in which a delta, a
process or the run begins or ends; `Moves` proves this, and most parts need only
the class of a step. The timeout of a process is treated apart in every part,
because it can strike at any wait.

`DeltasAreSimultaneous` shows that a commit assigns to each signal the last value
written and announces the signals that differ, and that no other step touches
signals. For `BarriersCount` the writes of a delta are walked in the order of
`SignalOrder`, and `BarrierOk` ties what a barrier has counted to what was written since it
fired. A set as large as the list of members is the set of them all; that the
converse holds takes a list that names no member twice.
`SingleWritesAgree` takes the neighbour comparison of `delta()` to all pairs:
of the writes to a signal that differ from its first one, take the earliest; the
write before it is by another process, so they clash (`NeighboursSuffice`).

### Checker, compiler and labelled runs

The argument has a static and a dynamic half, which meet in what the checker
computed: `DeviceClasses`, the class of the events of each device, and from it the
context of each body (`BodyContext`) and handler (`LateContext`).

`ClassesSettle` is the static half's centre. `RaisedClasses` is monotone
(`RaisedRise`, from one lemma for each rule: contexts, sites, outcomes, timeouts,
triggers), so the iteration from public rises, and a round that is not the last
raises the class of some device. `Risen` is the set of pairs of a device and a class
that it has reached; it has at most two elements for each device and gains one each
round (`RisenGrows`, `RoundsSuffice`). Hence what the checker judged sites by is a
fixed point of its own rules, and an outcome tells no more than the class of its
device's events. `SitesAreChecked` says that every statement that can
run was judged in its context; `StoresAreRight`, `CallsAreRight`, `ReleasesAreRight`
and `GuardIsChecked` turn the absence of each diagnostic into the inequality it stands
for; `TriggersAreBounded` bounds the events that wake a process by its context,
which takes that no name means two things (`NamesAreUnique`, from E204 and E205).
`RoutesAgree` is the compiler's part: a bound route is where its device was declared.

`FlowInv` is the invariant of the observer, because `FlowsStayLabeled` alone does not
survive a step. `FlowOk`: values are no stronger than their signals declare, events
than their sources (`EventBound`), and the collected writes than their targets.
`ContextOk`: what woke the running process is no stronger than the context of its
body or handler, and what its calls have told so far no stronger than the
context its handler was checked in, which is why a timeout may strike at any wait.
`ScopesOk`: each statement that is still to run is an occurrence whose static
conditions cover the ifs that enclose it at run time (`InnerIsCovered`,
`BlockIsCovered`: unfolding a block keeps this). `StatementDone` and `GoingOn`
treat what all statements have in common, and there is one lemma for each action
of the interpreter (`AssignFlows` to `CommitFlows`); `LabeledSteps` splits the
next-state relation into them. `LabeledInv` is `FlowInv` with the `Shape` of the
interpreter and the tie between source and design.

`NoCallLeaks` reads this at the places where a device or a human waits:
`CallsAreRight` for call statements; for releases `DeclassifiersAreRight` gets from
E219 and `RoutesAgree` that filters are local, `ReleasesAreRight` the range from E307
and E304, and `AskedOk` of the interpreter that a human is asked only where the
declassifier says so.

`DenialsAreExact` compares the edges that `FlowView` draws with E301 and E302 edge by
edge (`DeniedEdges`, `ForbiddenCalls`), and follows an ordinary edge back to the
statement that drew it, which was checked (`OrdinaryIsChecked`).

### Dispatch

Nothing in the state says why a dispatch got as far as it did, so the invariant
`Inv` says it of each stage: while the human is asked, the tool is permitted and
no expiry lies further away than the lifetime; a call under way is `Cleared`, that
is permitted under a grant within the class of the route and, where that grant
asks, approved by the human, in time. Approval comes over a connection, so
`Inv` also says that no line on it, read or unread, says "approve" unless the
human did (`TrustedLines`); repeated lines keep this. `SeverestExists` shows that
a nonempty set of grants has a severest (there are five classes, whatever the
number of grants), hence that `Authorize` is defined and that what clears its
class clears the class of every grant that covers the call
(`GrantedIsSeverest`, `ClearedIsGuarded`). `AnswerInv` adds, for
`SuccessHasAResult`, that a line with a number was said by the server in answer to the request of that
number, and that the connection to a tool carries only initialize and tools/call.

`NarrowingPermitsNoMore` splits the containment rule of `resource_within` into
its cases: the same pattern, a literal (`LiteralMatchesItself`), and a tree,
where the cut that matches the child is cut again below the literal prefix.

### Only model-checked

Liveness (`UnresolvedIsSettled`, `Termination`, `RunEnds`, `DispatchEnds`): fairness
and ENABLED are beyond the prover used here. Four invariants of `CheckedRun`
(`RunsAreFirings`, `NetsAreSound`, `CausesAreDrawn`, `LoopFreeDesignsSettle`): net
and drawings number the places of statement trees and walk graphs with recursive
operators, and what those compute for every tree takes induction over
data, which the prover cannot do either. The inductive invariants of this section
hold in TLC, too, on the instances of section 3.

## 5. Not modelled

Text processing (the AWHDL grammar, argument preparation, normalization of tool
results, prompts, rendering of graphs), the text of the protocols (JSON-RPC,
HTTP, SSH), process launching, and the command line. Of the graphs, the structure
and activity views, labels, groups and lanes: they list what is declared. Model
switches, network requests and, in the planner loop, the wall time of the budget
are reduced to a step that may fail, as are availability, launch and fallback of
model hosts. `state.json` is represented by the phase it names. Of the checker,
the name and type rules that no source of an instance can break are left out.
The validation of effects and approvals on `restore` is modelled without its presence
checks of result and decision time (`effect.rs:439`, `approval.rs:287`): the model
does not keep these fields. `Drawing` walks the edges of a node in one order where the code has
another: that decides which edge of a loop is marked, not whether one is.
The count of device calls of a design is only reported, and left out. An audit
line that fails in the middle of a commit leaves some signals assigned in memory;
the run has failed and nothing reads them, so the model leaves the signals alone.
The journal of a dispatched write is `RunStore`'s subject: in `Dispatch` the
effect is new.

## 6. Findings

- `store_timeout`: `docs/RUNTIME_SPEC.md:187` says an error or timeout of a
  remote write makes it UNCERTAIN. A design's call timeout (`design.rs:796`)
  drops the future of `invoke_effect` before `finish_effect` runs; the effect
  stays STARTED and its invocation Pending until the run is reopened.
- `store_variants`: `reserve_effect` looks for unresolved variants only when it
  creates an instance (`effect.rs:217`). One that was reserved before, or that
  failed, is dispatched while another variant is unresolved.
- `design_barrier`: a barrier fires when the set of seen members is as large as
  the declared list (`design.rs:575`), so one that names a member twice, which
  the checker accepts (`awhdl-checker/src/lib.rs:329`), never fires, although
  `docs/RUNTIME_SPEC.md:312` says it does when all members were written.
- `dispatch_loaded`: the load authorizes sandbox and network of a Codex route only
  when the route names the adapter (`config.rs:101`). A route that reaches Codex
  by its tool name loads without them and is denied at every dispatch, although
  `docs/SECURITY_SPEC.md:214` says the load authorizes every route's static needs.
- `design_drivers`: a write is compared with the previous write of its signal
  only (`design.rs:552`), and a process may overwrite its own. If one process
  writes 1 and the next writes 1 and then 0, the conflict that
  `docs/RUNTIME_SPEC.md:310` calls an error goes unnoticed.

Observations that no run states as a property:

- A plain invocation left pending by a crash or by a dropped future blocks its
  operation for good: `RunStore` has no call that ends it.
- `advance_generation`, `begin_caused`, `cancel` and `barrier_ready` belong to
  the library; `RunStore` does not offer them. `Execution` models them,
  `RunStore` does not.
- An approver that fails leaves a pending approval, and every retry of the
  action is refused until it expires.
- A polishing action that cannot start or fails makes a run fail after its
  completion was judged COMPLETE.
- The slot in which variants are compared is operation and action, where the
  document says operation.
- Configuration validation accepts dependency cycles and a dependency on the
  controller; such an action is never eligible.
- A barrier sees the writes of a delta one at a time, in the order of signal
  names, and restarts in the middle (`design.rs:575`). A member written in the
  delta that fires it counts for the next firing or not, depending on its name.
- The status of a device is read live (`design.rs:855`), so a process sees what
  an earlier process of the same delta did, while signals are those of the start
  of the delta (`docs/RUNTIME_SPEC.md:309`).
- A process timeout discards the writes and events of the body, not the device
  statuses that its finished calls have set.
- A loop of signal events starves timers until a budget ends the run.
- The concurrent assertions are first evaluated after the first delta, not on
  the given inputs.
- Completion counts unresolved effects of all generations, reconciliation only
  reaches those of the current one.
- An action whose dependency is exhausted is reported INCOMPLETE
  (`completion.rs:208`), though `docs/RUNTIME_SPEC.md:270` reserves that verdict
  for reachable conditions; the run goes on until a budget ends it.
- The member places of the Petri view get tokens from the "changed" form of a
  write only, while the barrier of the runtime counts every write; the net also
  commits the output of a parallel call that failed. `RunsAreFirings` allows for
  both.
- The filter of a declassifier is called on the content to be released
  (`design.rs:686`) without the checks that precede a call statement, and the checker
  asks of it only that it is deterministic and local
  (`awhdl-checker/src/lib.rs:763`). A filter that declares `clearance => internal`
  is thus given restricted content, although `docs/SECURITY_SPEC.md:50` bounds an
  argument by the clearance of its device and line 57 has the checks "run again
  before each device call". In the pattern `Publications` of `MCCheckedRun` this
  happens: `CallsStayCleared` leaves just the filter's clearance out.
- A declassifier may carry a clearance, which the checker ignores: the security
  view would then draw a release that is allowed as denied. `DenialsMatchTheChecker`
  leaves out just these flows, and `DenialsAreExact` proves that there are no others.
- The status of a device that a condition reads counts as public; the events of
  the same calls carry the class of their circumstances. `flow` follows the checker
  in this: `NoValueLeaks` does not speak of what such a condition may tell.
- The conversation with HumanPort has no timeout (`approver.rs:112`), and the
  expiry is looked at only between two answers: a silent server blocks the run.
  An error in answer to `tools/list` reads as a server without answering tools
  (`approver.rs:95`).
- After a timeout the client reads the standard error of the killed server to its
  end (`mcp.rs:56`); a process it left behind can hold the pipe open.

## 7. Plan

Done: execution state, run store, planner loop; design interpreter; capabilities,
configuration and dispatch; checker, compiler and drawn views; the theorems of
section 4. What a continuation would take up, in this order:

1. Approvals that expire while an approver fails, and the retries after it, under
   fairness.
2. Model hosts: candidates, availability, launch and fallback as a module between
   `PlannerLoop` and the routes.
3. The activity view, against the same runs as the Petri view.
