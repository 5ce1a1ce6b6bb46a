# jaeb verification

TLA+ specifications of [jaeb](../src/README.md), an in-process event bus for
async Rust, with the model-checking configurations and the machine-checked
proofs that go with them.  Everything below is about the workspace at
`src/`: the library (`src/src`), its macros (`src/jaeb-macros`), its
integration with the summer framework (`src/summer-jaeb`,
`src/summer-jaeb-macros`) and the one example that is a program of its own,
the visualizer (`src/examples/jaeb-visualizer`).  `PROJECT.json` ties every definition to the lines
it translates.

    tlc -workers 2 -config gate.cfg MCDispatchGate.tla
    tlapm DispatchGateProofs.tla

## 1. The system

| Part | State | Operations | Correct when |
|---|---|---|---|
| Dispatch gate (`bus.rs`) | one `AtomicUsize`: publish calls in flight and a closed bit; a `Notify` | `begin_dispatch`, `DispatchGuard::drop`, `close_dispatches`, `wait_for_dispatches_to_drain` | the count is the number of guards, one shutdown call closes, nobody enters a closed gate, a drained gate is and stays empty, the drain is never slept through |
| Task tracker (`registry/tracker.rs`) | `in_flight`, `rejecting_new_tasks`, a map of abort handles under a lock, a `Notify` | `spawn_tracked`, `finish_task`, `reject_new_tasks`, `shutdown` | the counter is exact, no handle is left behind, a timeout aborts what runs |
| Shutdown (`bus.rs` `shutdown`) | the two above | gate, then tracker, under one deadline | `Ok` means silence; a timeout tells every task to stop; it returns |
| Registry (`registry/mutable.rs`, `bus/subscribe.rs`, `bus.rs`) | slots by event type, dead-letter listeners, global middlewares, an index by id, under an async mutex; an `ArcSwap` snapshot read without it | `subscribe_*`, `add_*middleware*`, `unsubscribe`, `stats` | the snapshot is what the registry holds, index and entries agree, a granted subscription is active, a removed one gone, and after the stop only calls that had looked before it change anything |
| Subscription guard (`subscription.rs`) | an id | `drop`: `try_lock`, else a spawned task | a dropped guard withdraws its listener |
| Sync lane, dead-letter lane (`registry/dispatch.rs`) | a gate in each slot, one gate for dead letters | run the sync listeners of an event; deliver a dead letter from inside a lane or from a task | listeners of a type run one publish at a time, dead letters one at a time, nobody waits for ever |
| Async lane (`registry/dispatch.rs`, `types.rs`) | a semaphore of permits, per task: attempts, retries left, back-off | `execute_async_listener`, `delay_for_attempt` | permits are conserved, attempts and dead letters exact, delays in bounds, tasks end |
| Dispatch pipeline (`registry/dispatch.rs`, `bus/publish.rs`) | none: a function of the snapshot | three dispatch paths and `deliver_dead_letter` | the fast paths do what the full one does |
| Builder, dependencies (`bus/builder.rs`, `deps.rs`, `handler.rs`) | lists of handlers and dead-letter handlers, dependencies by type | setters, `build` | a built bus has the listeners that were written, or `build` fails |
| Macros (`jaeb-macros`, `summer-jaeb-macros`), plugin (`summer-jaeb`) | parsed attributes; the inventory of registrars | `#[handler]`, `#[dead_letter_handler]`, `#[event_listener]`, `Plugin::build` | the attributes written are in force; the two crates agree |
| Test utilities (`test_utils.rs`) | a buffer for each captured type | `capture`, `published` | no event is seen twice, none is missed |
| Errors, middleware traits, metrics | none | – | not modelled: data types and instrumentation |
| Visualizer: form and application (`ui/config_screen.rs`, `app.rs`, `config/types.rs`) | two lists that refer to each other by position, a cursor, a text being typed, the phase | every key, `validate`, start, again, quit | every position kept is one that exists, a text goes where it was begun, a deletion moves nobody else's target |
| Visualizer: simulation and metrics (`sim/`, `metrics/`) | the publishing task, an unbounded channel, the collector's counters, a target and a clock | publish tick by tick, report, count, drain, freeze, leave | the counters make sense in every order of the reports, are exact when a timed run is done, then stand still; every simulation gets done |
| Other examples, benches | – | – | not modelled |

How they interact.  `publish` passes the gate and holds a guard until it
returns.  It loads the snapshot once, runs the middlewares, spawns the async
listeners through the tracker, and then runs the sync listeners under the
gate of their slot.  A failed listener becomes a `DeadLetter` at once, which
loads the *current* snapshot and runs under the dead-letter gate; an async
task does the same after its last retry, outside every publish call.  The
registry is changed under its mutex by tasks that looked at the closed bit
before and after they got it, and `shutdown` sets that bit without the mutex.
A middleware that sees the dead letter runs inside the lane of the listener
that failed, and may publish again from there.  The visualizer is a client:
its task publishes and in the end shuts the bus down, its handlers report to
a collector, and the counters the collector keeps decide when the task stops.

What is hard.  The gate is lock-free: every read of the packed word is stale
when the compare-and-swap tries to use it, and the `Notify` must be armed before the word
is read.  The tracker mixes a lock with atomics that are read outside it.
Publish calls work on snapshots, slots and gates that the registry has
replaced meanwhile.  The simulation reads back counters that lag behind what
they count.  Drops of futures and guards, aborts and timeouts can
come at every await.  `PROJECT.json` lists the hazards line by line.

## 2. The modules

| Module | What it models | State ↔ code | Actions ↔ code |
|---|---|---|---|
| `Lifecycle` | abstract: publish calls are inside or not, a closed bus admits nobody, a drain is reported when nobody is inside | – | – |
| `DispatchGate` | the gate, one action for each atomic operation | `word` = `dispatch_state`, `waiter` = the `Notified` future, `pubSeen`/`shutSeen` = the loaded word of a CAS loop | `BeginLoad`/`Enter`/`EnterRetry` = `begin_dispatch`, `Leave`/`NotifyDrained` = drop of the guard, `CloseLoad`/`Close`/`CloseRetry` = `close_dispatches`, `Precheck`/`Arm`/`Check`/`Wake`/`Expire`/`Cancel` = the wait |
| `DispatchGateProofs` | theorems about `DispatchGate` | | |
| `TaskTracker` | the tracker, one action for each atomic operation or lock section | `inFlight`, `rejecting`, `handles`, `mapOwner` = the lock of `tasks`, `tracked` = is there a map | `SpawnCall`…`SpawnInsert` = `spawn_tracked`, `Finish`/`RemoveHandle`/`NotifyIdle` = `finish_task`, `ShutdownCall`…`GiveUp` = `shutdown`, `Panic` = a panic outside the catch of a handler |
| `TaskTrackerProofs` | theorems about `TaskTracker` | | |
| `Quiescence` | abstract: what the caller of `shutdown` is promised | – | – |
| `BusShutdown` | composes `DispatchGate` and `TaskTracker`; a publish call spawns only while it holds its guard | all of both | `TrackerShutdown`, `RejectNewTasks` = the end of `EventBus::shutdown` |
| `BusShutdownProofs` | theorems about `BusShutdown`, on top of those about its two parts | | |
| `Registry` | `MutableRegistry` as operators on a record | slots, deadLetters, globals, index | `AddListener`, `RemoveSubscription`, `RegistrySnapshotOf`, `SubscriptionsByEvent`; `ProperRegistry` says which registries calls can make |
| `BusRegistry` | concurrent callers of the registry | `owner` = the mutex, `snapshot` = the `ArcSwap`, `stopped` = the closed bit | `Call*`, `Acquire`, `Recheck`, `Apply*`; `DropGuard`/`TryLock`/`TryApply`/`Fallback` = the guard, which reads the closed bit in one step and tries the lock in another |
| `BusRegistryProofs` | theorems about `BusRegistry` and about `SyncLane`, which runs over it | | |
| `SyncLane` | extends `BusRegistry`: publish calls and failed tasks in the lanes while listeners come and go | `laneOwner` = `sync_gate` of each slot, `deadOwner` = the dead-letter gate, `slot` and `letters` = the snapshots at hand, `caller` = whose middleware awaits a publish call | `PublishStart`, `EnterLane`, `RunListener`, `Fail`, `Republish` = an async middleware on a dead letter that publishes, `EnterDeadLane`, `Deliver`, … |
| `RetryStrategy` | `delay_for_attempt` with its integer widths as parameters | – | `Delays` |
| `AsyncListener` | extends `RetryStrategy`: tasks in `execute_async_listener` | `permits` = `async_limit`, `attempts`, `retriesLeft`, `delay` | `Begin`, `Acquire`, `Succeed`, `Fail`, `TimeOut`, `Wake`, `Finalize`, `Abort` |
| `AsyncListenerProofs` | theorems about `AsyncListener` | | |
| `Pipeline` | extends `Registry`: one publish as a function of its snapshot, with a trace of what it runs | – | `Publish` and the operators named after the functions |
| `PipelineProofs` | theorems about `Pipeline` | | |
| `TestBus` | `capture` and `published` of one type | `current` = the map's entry, `handlers`, `content` | `Check`, `Insert`, `Subscribe`, `PublishStart`, `Handle` |
| `HandlerMacros` | both macro crates as functions of a signature and its attributes | – | `Expand*`, `*Policy`, `*Descriptor`, `*Registrar` |
| `BusBuilder` | extends `HandlerMacros`: from the attribute to the bus with its listeners | `eventHandlers` and `deadLetterHandlers` = the builder's two lists (the plugin's inventory is the first), `queue`, `bus`, `visible`, `stage` | `HandlerAttrs`, `ListenerAttrs`, `Expand`, `Add`, `Build`, `Register`, `Return` |
| `SetupProofs` | theorems about `TestBus` and about `BusBuilder` with `HandlerMacros` | | |
| `ConfigForm` | the visualizer's form and application | `eventTypes`, `listeners`, `stop` = `SimConfig`; `tab`, `field`, `selType`, `selListener`, `editing` = `ConfigState`; `phase` = `AppPhase` | one action for each key: `PressTab`, `AddEventType`, `DeleteEventType`, `CommitEdit`, `CycleField`, `Start`, … |
| `Simulation` | one simulation: publisher, deliveries, collector | `channel` = the mpsc channel, `viz` = `VisualizationState`, `tasks` = async deliveries, `todo` = the sync listeners of the event at hand, `closer` = which shutdown came first, `truth` = history of what happened | `SimTask` = the steps of `run_simulation`, `StartSync`/`EndSync` = a sync listener before and after its sleep, `Delivery` = an async delivery, `Collect` = the collector, `Leave` = the user goes back to the form |
| `VisualizerProofs` | theorems about `ConfigForm` and `Simulation` | | |

`MC*` are the instances that TLC checks.  Definitions such as `EnterStore`,
`LeaveOffByOne` or `ApplyAddStale` stand before the definition they are a
wrong version of; nothing uses them except the mutation runs that
`PROJECT.json` lists: with the mutant in place of the definition, TLC must find the property of
the run violated.

Main abstractions.  Handlers, middlewares and payloads are only what they
decide (accept or not, fail or not).  A listener `Vec` that is always sorted
before use is a set.  A thread performs one atomic operation or one critical
section in a step; code between two of them that touches nothing shared
belongs to the step before it.  The atomics are sequentially consistent in
the model: every decision rests on one location at a time, the packed word
or, in the tracker, a counter and a flag that are `AcqRel`/`Acquire`.
Durations are numbers; time itself is not modelled, a timer may fire whenever
it is armed.

## 3. The runs

| Run | Instance | States | Question |
|---|---|---|---|
| `gate` | 3 publishers, 2 shutdown calls, `CountMask` 2, with and without a deadline | 50,450 | Is the packed word right under every interleaving, is the drain answered, does the gate implement `Lifecycle` with its fairness? |
| `shutdown` | 2 publishers, 1 shutdown, 2 tasks, deadline at any point or none | 249,922 | Does `Ok` mean silence, what does a timeout leave, does shutdown return, is `Quiescence` implemented? |
| `shutdown_straggler` | the same | violation | Does a timeout abort *every* task? |
| `registry` | 2 callers, 2 ids, all 8 kinds of addition, stop at any point | 170,452 | Are snapshot, index and statistics right, what may still change after the stop, do guards withdraw? |
| `registry_async_dead_letter` | 3 ids, sync listener or async dead-letter listener | violation | Can the registry hold a dead-letter listener that its snapshot cannot represent? |
| `lane` | 1 event type, 1 caller, 2 publish calls and 1 failing task while listeners come and go; or 2 event types, 4 publish calls and 3 listeners that stay; middlewares on dead letters that publish | 202,302 | Do the gates exclude, is a removed listener left alone, in which ways can publish calls wait for each other for ever? |
| `async` | 3 tasks, 2 permits or no limit, 7 strategies, widths 2/3/2/5 bits | 134,934 | Are permits, attempts, letters and delays right, does every task end? |
| `pipeline` | up to 2+2 middlewares, 6 sets of listeners, all verdicts with up to 2 objections, all failures | 931,392 | Do the dispatch paths agree with the plain pipeline? |
| `testbus_capture` | 3 captures, 2 events, stop at any point | 31,392 | Is a capture complete and free of duplicates? |
| `construction` | 29 signatures in both front ends, every subset of attributes, 2 companions, 2 registrations | 127,853 | Is what is built what was written; do the macro crates agree? |
| `config_form` | up to 3 event types and 3 listeners, 3 names that collide with others, 1 change of a field | 285,749 | Do positions stay in range, does a text go where it was begun, whom does a deletion retarget? |
| `simulation` | 3 configurations of 2 listeners, 2 events: retries, timeouts, a target | 365,531 | Do the counters make sense, are they exact and final when done, does a simulation get done? |

The stronger properties of these runs, in words.  `SnapshotSound`: outside
the mutex the snapshot is what the registry holds; a granted subscription is
in force until somebody asks to remove it, also across the stop; what was
removed or refused is not there.  `QuietOnReturn`: `Ok` leaves nobody inside
and no task, `ShutdownTimeout` at most one task that was not aborted.
`StopEndsChanges`: once the bus is stopped, only calls that had taken their
last look at the closed bit change the snapshot, each of them once.  Those that
look under the mutex are one at most; of dropped guards, which look before they
try the lock, there may be any number, so that the routes of a stopped bus may
shrink for a while.
`LanesExclusive`: who is in a lane owns the gate of its slot to the end, so
that two that overlap found different slots; dead letters are one at a time.
`OneGatePerListener`: publish calls with a listener in common queue at the same
gate, so that no listener is in two lanes at once.
`PublishReturns`: a publish call gets through its lane and the dead letters it
causes, unless it waits, directly or by way of others, for a circle (`Stuck`).
A circle needs a middleware on a dead letter that awaits a publish call while
the failed publish holds its sync gate (`dispatch.rs:303`, `:322`, `:102`,
`:122`): of the same type; of another type that publishes the first again; or
two failed publishes of different types, each of which publishes the other's.
The code does not prevent them; the property says that there is no other way.
`LettersExact`: a failure that is final makes exactly one dead letter if its
policy wants one, and its task was not aborted before that; no other is made.

Why the bounds are enough.

- `CountMask` 2 with three publishers makes the count overflow (the third is
  refused with a panic) while every pair of them races; two shutdown calls
  are needed for two to race for the closed bit, a third would only repeat
  the loser.  The proofs cover every other instance.
- In `shutdown` two publishers spawn, so that one is in `spawn_tracked`
  while the other queues for the lock, and two tasks are needed for one to be last.  The single
  shutdown call is the one that closed the gate; `gate` shows that others
  return at once.  `MaxTasks` bounds the ids drawn; `Room` stops calls, never
  a task that exists.
- In `registry` two ids suffice for a slot to be shared, emptied and made
  again, two callers for a call to be overtaken between its two checks.  The
  third id of `registry_async_dead_letter` shows that the panic also hits
  listeners of other types.
- In `config_form` three entries have a first, a middle and a last, which is
  what deletion and selection tell apart; one change of a field is enough for
  a name to be blank or a duplicate, and the deletions and additions, which
  need no change, are not bounded.  The proofs cover every other limit.
- In `simulation` two listeners are one of each mode, two events let one be
  reported while the other is published; the three configurations have a retry,
  timeouts, and each way to stop, and one type with two listeners.
- In `lane` two ids are what it takes to remove the only listener of a type
  and to add another; gates are numbered by the slot that made them.
  The third id is that of a dead-letter listener, which in the first case has
  come and gone.  The second case leaves the listeners alone and has four
  publish calls, which make the circle by way of another type (three calls) and
  the one of two failed publishes (four).  A longer circle only repeats these
  edges, as every sync gate is taken and held by the same code.
- The widths of `async` stand in the relation of the code's (attempt and
  factor of one width, shift and nanoseconds wider), and the strategies
  put base and maximum below, at and above each edge; six attempts
  run past all of them.
- `pipeline` takes two global and two typed middlewares so that the order inside and
  between the lists and the first of several objections matter; listeners
  include ties and an order turned by priority.
- `construction` has for each attribute one value that is not its default (for
  `dead_letter` both), since only written or not, and in force or not, matters.

### Fairness

- `gate`, `shutdown`: weak fairness of the next atomic step of a thread that
  is past one, and of timers.  A publish call or a handler is assumed to end
  only where no `shutdown_timeout` is configured (`~timed`): without a
  deadline shutdown waits for them by design; with one it must return even
  if they never end.  A task may panic outside the catch of its handler
  (`Panic`, `types.rs:97`): it is never counted down, so that without a deadline
  shutdown then waits for ever, which `ShutdownReturns` excepts.  With one it
  returns `ShutdownTimeout`.  Nobody is obliged to call, to win a compare-and-swap or
  to drop a future.
- `registry`: weak fairness of a call past its first check; strong fairness
  of `Acquire`, because `tokio::sync::Mutex` serves its waiters in order.
- `lane`: handlers return, weak fairness of every step.  Each actor is a
  single call, so a gate is contended for finitely often and weak fairness is
  enough.  Dropping a future, which alone opens a circle of publish calls,
  is nobody's obligation.
- `simulation`: the task is polled and its ticks come, the collector is
  scheduled, handlers end.  The user is not obliged to leave.  With a target,
  `SimulationFinishes` is checked where every final failure makes a dead letter:
  the target counts successes and dead letters, so without one it may never
  be reached.
- `async`: tasks are polled and timers fire.  Handlers are assumed to end
  only where there is no `handler_timeout`.
- `pipeline`, `construction`, `testbus_capture`, `config_form` have no
  liveness property and no fairness.  Their calls simply end, as does a
  simulation, which is why deadlock is not checked in these runs and in
  `simulation`; in every other run it is.

### Where the code does not do what its documentation says

- `shutdown_straggler`: when the gate times out, `reject_new_tasks` does not
  take the map lock and the zero-timeout `shutdown` returns at once if nothing is in
  flight.  A dispatch that is past its check in `spawn_tracked` then starts a
  task that nobody aborts, after `ShutdownTimeout` was returned
  (`tracker.rs:83`; `bus.rs:245-247` promises that remaining tasks are aborted).
  `QuietOnReturn`, checked in `shutdown` and proved, says that it is never
  more than one.
- `registry_async_dead_letter`: the general `subscribe` takes an async
  handler of `DeadLetter`; the snapshot then panics, at this and every later
  change of the registry.

Seen while modelling, with no run of its own:

- Removing the last entry of an event type drops its slot and gate
  (`registry/mutable.rs:151`), the next subscription makes new ones, and a
  publish call still in the old lane overlaps one in the new lane: the lane of
  an event type (`handler.rs:70`, `src/README.md:146`) is one for each slot that
  was made.  `OneGatePerListener` says that no listener is part of both.
- Two concurrent captures of a type both register a handler
  (`test_utils.rs:72`); `testbus_capture` shows that `published` is right all
  the same.
- The visualizer's README has the simulation start with Enter; the code
  starts it with `s`.  Quitting does not wait for the shutdown it spawns.
- The visualizer's gauge of async tasks in flight may still move after the
  simulation is done (`collector.rs:112`), a rate of `inf` passes `validate`,
  and the dead letters that the collector shows have no listener name to be
  found by, since its listeners give none.
- A guard dropped on a thread without a Tokio runtime while the registry is locked, or
  while the bus is stopped, leaves its listener registered
  (`subscription.rs:163`); `DroppedGuardRemoves` speaks of threads of a runtime.
- The back-off factor is capped at `u32::MAX` (`types.rs:74-76`), so from
  attempt 32 on the delay is below the documented `min(base * 2^n, max)`; and
  a jittered delay of `u64::MAX` nanoseconds, which `Duration::MAX` is once
  truncated to 64 bits, panics (`types.rs:97`) and ends the task before
  `finish_task`.
  `DelayFollowsPolicy` states exactly that.
- A second `capture` may return `Ok` before the first one has subscribed
  (`test_utils.rs:74`).
- Both macro crates accept `bus: &EventBus` ahead of a `Dep` or `Component`,
  or twice, but the code they generate passes the dependencies first and the
  bus once, so that the compiler rejects it (`validate.rs:65-84`, `codegen.rs:136-158`; `Typechecks`).
  `#[event_listener]` also accepts a tuple-struct pattern of any name.
- `retry_max_ms` with `retry_strategy = "fixed"` is accepted and ignored; a
  type alias of `DeadLetter` is not recognised by the macros; a policy
  attribute starts from the default of the policy's type, not from the
  defaults of the bus.

## 4. The proofs

`DispatchGateProofs`, for any finite set of publishers (`PublishersAssumption`),
any set of shutdown calls and any positive `CountMask` (`CountMaskAssumption`):
`TypeCorrect`, `CountCorrect`, `CloserUnique`, `DrainSound`, `WakeupKept`
(the invariants of the run `gate`), `Admission` (its action property) and
`Refinement` (the gate implements `Lifecycle`).  The invariants are not
inductive as they stand, because `Enter` trusts a word that was checked
earlier.  `IInv` adds `SeenWasOpen`: a compare-and-swap in flight was
prepared from an open word with room in the count; when it succeeds, the word
of now has these properties too.  `HoldersFinite` and `HoldersChange` count
the guards; `StepInv` goes through the actions; `Refinement` maps every step
of the CAS loops and of the wait to a step of `Lifecycle` or a stutter.

`AsyncListenerProofs`, for any finite set of tasks, any positive limit, any
policies of the right shape and any widths: `PermitsAccounted`,
`AttemptsCounted`, `LettersCounted`, `DelaysFollow`.  `AttemptsExact` is not inductive; `Budget` is: attempts and
retries left add up to `max_retries` before the head of the loop and to one
more after it, and a final failure has none left.  `RunningChange` counts the
permits, `LettersCounted` is `LettersExact`, `FailureKeeps` is the step that a handler's error, a panic and a
timeout share.  `DelaysFollow` proves `DelayFollowsPolicy`: `DelaysGiven` ties the delay of a
sleeping task to the attempt it has made last, `FactorBounds`, `CappedBounds` and
`JitterBounds` say what `delay_for_attempt` returns.  The prover knows nothing of
`2^n`, so that the powers are a recursive function, `Pow2`; `Pow2Defined` shows
that its recursion has a solution, put together from finite tables
(`TableExists`, `TableUnique`), and `Pow2Grows` is the only fact of it that the
bounds need.

`TaskTrackerProofs`, for any finite set of dispatches, any number of tasks
and with or without abort handles (`Assumptions`, which `BusShutdown` meets):
`TrackerSound`.  `IInv` says who may be where while the map lock is held
(`LockHeld`), that a task cannot have removed a handle that is still to come
(`HandleAwaited`), where the handle of a running task is (`HandleFound`), that ids are
drawn once (`IdsFresh`), and that once a shutdown collects the handles nobody
is past the check (`Collecting`).

`BusShutdownProofs`, under `ShutdownAssumption` (finitely many publish calls):
`TasksCorrect`, `AbortsAll`, `WakeupKept`, `Quiet` and
`Refinement`.  A step of the composition is a step of the gate and of the
tracker, or leaves it alone (`BusIsGate`, `BusIsTracker`), so that the
invariants of the two parts hold of it without being proved again
(`Components`).  `Bridge` is what only the composition knows: who spawns is
inside the gate, the tracker's shutdown begins after the gate's wait, a drain
leaves the counter at zero, and of the dispatches that were past their check
when the gate timed out at most one can still start a task.  `Quiet` follows
from it; `PhaseKnown` reads the phase of `Quiescence` off the two program
counters, and `Refinement` maps every step to one of `Quiescence` or a
stutter.

`BusRegistryProofs` has two parts.  The first is about `BusRegistry`, for any
finite set of callers, any bound on ids and any additions of the right shape
(`AdditionsAssumption`).  `MutexHolds`, `ChangesEnd`, which is
`StopEndsChanges`, and `GatesWithinIds` need no more.  The last counts the additions under way: a gate is numbered by an
addition that has drawn an id, so `nextGate` plus the additions under way never
pass the next id (`GateRoom`).  `SubscriptionsInForce`, `IndexIsExact` and
`StatsTellDispatch` are the three invariants of the run `registry`, and
`ListenersInOrder` says in which order a snapshot has its listeners.  They have
the hypothesis `SyncDeadLetters`, that nobody adds an asynchronous dead-letter
listener: without it they are false, as the snapshot panics, and that is what
the run `registry_async_dead_letter` shows.  None of the three is inductive.
`Bookkeeping` is: it ties the registry, the snapshot, the next id, the requests under
way and what callers were told, and holds `RegistryExact` of the registry,
which says of every collection that its entries are listeners or middlewares
with ids of their own, that the index names exactly that collection for each of
them, and that no slot is vacant.  `AddExact` and `RemoveExact` are the two
lemmas it rests on.  Sorting is `Sorted`, some order of the set that respects
the comparison: `OrderExists` builds one for every strict total order, and
`SortedByPriority` and `SortedByRegistration` follow.  `RegistryIsProper` draws
the conclusion that `Pipeline` starts from.

The second part is about `SyncLane`.  `GatesExclude` proves `LanesExclusive`,
since the gate a publish call finds is one of those that `laneOwner` has an
owner for (`GateRoom`, `LaneInv`).  `RemovedIsNotRun` proves
`NoDeliveryAfterRemoval`: what a publish call or a failure finds is published,
by the books nothing that is published was removed, and each step only takes
the head of what is left (`LaneLists`, `Withdrawn`).

`PipelineProofs`, for any event type, verdicts, failures and any inputs whose
registries are proper (`InputsAssumption`; `RegistryIsProper` is the
theorem that all of them are): `FastPathsAreFull`, which is about `Publish` as a
function and says that both fast paths give the trace and the result of the
full one; `PathsAgreeHolds`; `LettersFollow`.  Traces are put together by \o and
`FlattenSeq` and read by `EventSteps` and `Occurrences`.  What these do to lists
of any length is proved without an induction theorem: the numbers up to the
length for which the claim holds are a set that has 0 and with a number the
next (`UpTo`), as otherwise there would be a least one that is missing
(`LeastOf`, from the well-foundedness of the natural numbers).  `InterceptConcat`
says that two lists of middlewares in turn are one list, `FullIsPlain` that the
full path is the plain pipeline, `FullLetters` counts the letters.  An event
type that is `DeadLetter` itself is not excluded.

`SetupProofs` has two parts.  The first is about `TestBus`, for any captures and
events (`CapturesAssumption`):
`NoDuplicates` and `Complete`.  A buffer has one handler, which an event runs
once (`AtMostOnce`); once the captures are quiet the buffer in the map is the
last one for good, and every event that is due is in it or on its way
(`QuietForGood`).

The second part is about `BusBuilder` with `HandlerMacros`, for any signatures,
any literals, components and defaults, and any number of declarations
(`DeclarationsAssumption`: a function is async or not, a literal is an option,
`dead_letter` takes Booleans and `retry_strategy` the three names that both
parsers take).  `MacrosAgreeHolds` needs of the state only that attributes were
parsed one by one (`AttributesParsed`); the rest are facts about the two crates'
functions: `SameRules`, `SamePolicy`, `SameRegistration`.  `BuildsAsWritten` is not
inductive: `BuilderInv` says that the bus has the first of the collected
declarations and the queue the others (`BusAndQueue`), that dead-letter handlers
are in the list of their own (`Collected`), and `ListenerAsWritten` that the
listener of an accepted declaration has the policy that was written, since what
is accepted has the delays that its strategy needs (`StrategyWritten`).

`VisualizerProofs` has two parts.  The first is about `ConfigForm`, for any limits
of the lists and any names: `PositionsHold`, `EditsHold`, `TargetsKept`.  `Removal` says what deleting an entry does to
the positions after it.  The two invariants depend on each other: a text can
only be committed to an entry that exists because the cursor has not moved
since it was begun (`FormInv`).

The second part is about `Simulation`, for any configurations whose listeners are
listeners, any number of events and any size of a tick (`ConfigsAssumption`):
`MetricsAreSound`, `FrozenCountsAreExact` and `CountersGrowThenFreeze` state the
three safety properties of the run `simulation`, and `BooksOfSimulation` the
inductive invariant `SimInv` that they follow from.  None of the first two is
inductive, since the counters lag behind the reports in the channel.
`CountsBalance` says that what is shown and what is on its way add up to what
happened, and for the gauge, that they add up to the handlers at work and those
that were cut short.  That a gauge is never negative needs it of every prefix of
the channel, because the collector may have come as far as any of them
(`StartsComeFirst`).  `EndsOnce` counts a delivery as at work, as on its way, or
as processed.  `EndAnnounced` says that `done` comes last, after a drained bus
(`DeliveriesBegun`), so that a simulation that ran for a duration has nothing
left to count when it is frozen; with a target it may, and `CountsBalance` then
stops with the collector.  The lemmas `CountAppend`, `CountTail` and `OneMore` say
how the number of messages of a kind changes when some are sent and one is
received.

The inductive invariants of the gate, the tracker, shutdown, the registry, the
lanes, the async lane, the builder and the simulation were also checked by TLC on the instances of the runs.

Model-checked only:

- Liveness and everything about fairness: `ShutdownAnswered`,
  `ImplementsFairLifecycle`, `ShutdownReturns`, `PublishReturns`, `TaskEnds`,
  `DroppedGuardRemoves`, `SimulationFinishes`.  The prover does not handle it.

## 5. Not modelled

- Handlers and middlewares that call `subscribe`, `unsubscribe` or `shutdown`
  from inside a lane.  The registry calls take no gate and `BusRegistry` lets them
  come at any moment; a shutdown that waits for the publish call it runs in is
  the case without fairness of publish calls in `BusShutdown`.  Only a publish from a dead letter's
  middleware is modelled as such, because it is what can close a circle of waiting calls.
- Publishing a `DeadLetter` as an ordinary event has no run.  It meets its
  middlewares and no listener, because dead-letter listeners are in no slot
  (`mutable.rs:94`); the theorems about `Pipeline` include it.
- The `once` flag and `remove_once`: no public call sets the flag.
- Values of dependencies, names, error texts, tracing, spans, and the metrics
  timers of the library: they record and decide nothing.
- The order in which the summer framework builds plugins.
- The overflow of 64-bit subscription ids, of the 63-bit count in the width of the code
  (`CountMask` stands for it), and weak memory.
- Of the visualizer: the sampler and its charts, latencies and rates, the list
  of dead letters, scrolling and drawing, and the fields of the form that nothing depends
  on.  What rates and patterns do to a tick is that it publishes any number of events up to a bound.
- The other examples and the benches: sequential demonstrations of the
  library's calls.

## 6. Plan

Done: the gate, the tracker, shutdown and their abstraction, with proofs of
the invariants and of both refinements; the registry with proofs of its books
(what is published, what the index and the statistics say of it, the order of
the lists, the shape of a registry); the lanes with proofs of exclusion and of
what a removal guarantees; the async lane with its proofs; the pipeline with
proofs that its paths agree and that every failure has its letter; test
utilities, builder and macros, the form and the simulation, each with their
proofs.

Next:

- Direct publish of `DeadLetter` in a run of its own.
