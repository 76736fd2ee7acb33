# Formal models of the shard controller

TLA+ models of the Kubernetes shard controller in this repository, the TLC runs
that check them and machine-checked proofs about them. Every definition is
translated from the Go source; `PROJECT.json` maps it to its lines.

## The system

A manager process runs controllers that keep a number of *shards* alive; every
shard is a worker process that owns an object `ShardInstance` in the Kubernetes
API server. The controllers and the workers communicate through these objects
only: each reads an object, computes, and writes the object's status back, and
the API server refuses a write whose resourceVersion is not the stored one.

| Component | State it keeps | Operations | What is hard about it | What makes it correct |
|---|---|---|---|---|
| `ShardInstance` (types.go) | phase, health, heartbeat, assigned resources | `TransitionTo`, `IsHealthy`, `UpdateHeartbeat` | the object is shared by every other component | phases move along the transition table only |
| ShardManager (shard_manager.go) | a shared mutex, `lastScaleTime`; everything else is in the API server | scaling loop, health loop, `ScaleUp`, `ScaleDownGracefully`, `HandleFailedShard` | three loops list, think and write; 30 s sleeps between steps; partial failure of a scale-down | count within the bounds; a dead shard is failed; a shard is removed only when drained and empty |
| HealthChecker (health_checker.go) | `shardStatuses`, shared with the ShardManager's loop | `CheckHealth`, own loop, `OnShardFailed`, `OnShardRecovered`, `ReportHeartbeat` | read under one lock and write under another; pointers shared with the copies being written; writes racing heartbeats | a dead shard becomes unhealthy; Failed is not undone by an old copy |
| WorkerShard (worker.go) | flags, mutex, assigned resources, queue, migration channel | `Start`, `ProcessResource`, `AcceptMigratedResources`, `MigrateResourcesTo`, `Drain`, `Shutdown`, `Stop` | four goroutines and any number of callers; `Stop` waits with the mutex held; checks before sends | no accepted resource is lost; calls return |
| ResourceMigrator (resource_migrator.go) | active executions and history by plan id | `ExecuteMigration`, `CancelMigration`, `RollbackMigration` | a goroutine per execution, retries, cancellation at any point, plan ids that clash | one execution per id; final records; every execution ends |
| MigrationScheduler (same file) | priority queue, number of running plans | `AddPlan`, `GetNextPlan`, `MarkCompleted` | insertion by priority, slots to give back | priority first, then order of arrival; a free slot is used |
| LoadBalancer, ConsistentHash (load_balancer.go, hash.go) | strategy, hash ring (a map and a sorted slice), round-robin index | `GetOptimalShard`, `AssignResourceToShard`, `UpdateShardNodes`, `AddNode`, `RemoveNode`, `GetNode` | the ring changes one node at a time while keys are looked up; resources are assigned from a list read before; nodes added twice | map and slice agree; the nearest node answers; few keys move; every shard gets its turn |
| ConfigManager (config_manager.go) | current configuration, callbacks, cache and watchers | `LoadConfig`, `StartHotReload`, `ValidateAndApplyConfig` | loads hold the mutex across API calls on a cache that lags; two watches; one goroutine per callback | only valid configurations are in force; the user's object is never replaced; the newest one wins |
| ErrorHandler, CircuitBreaker (error_handler.go, error_handler_integration.go) | active errors, history, breakers | `HandleError`, recovery handlers, manual intervention, `OnShardRecovered` | concurrent recoveries share breakers, history and ids; a read lock is given up and taken again | retries are bounded; breakers open in time; no error is dropped unrecovered |
| Leader election, controller manager (shard_manager.go, manager.go) | leader flag, contexts of the loops | `onStartedLeading`, `onStoppedLeading`, `Start`, `Stop` | lost leases, a process that never campaigns again | loops run on at most one manager |
| Metrics, logging, alerting | counters | — | output only | — |

## Modules

| Module | Models | Extends / instantiates |
|---|---|---|
| `ShardInstance` | the object, its transition table and what each writer does to a copy | — |
| `ShardPhases` | abstract: what the phase field promises | `ShardInstance` |
| `ShardLifecycle` | the API server, both health loops, the scaling loop, heartbeats, drains, status reports, recoveries, crashes and restarts, interleaved | `ShardInstance`; instance of `ShardPhases` |
| `ResourceMigration` | executions of migrations, cancel, rollback, scheduler | instance of `PlanLanes` |
| `PlanLanes` | abstract: one FIFO lane per priority | — |
| `WorkerProcess` | goroutines, mutex, queue and calls of one worker | — |
| `ErrorRecovery` | calls of `HandleError`, circuit breakers, recovery attempts, active errors, history, recovered shards | — |
| `HashRing` | the consistent-hash ring as operators on a record, and what consistent hashing means | — |
| `ShardAssignment` | the load balancer and its callers while shards come, go and report | instance of `HashRing` |
| `ConfigReload` | ShardConfig, ConfigMap, cache, loads, watches, callbacks | — |
| `ShardLifecycleProofs`, `WorkerProcessProofs`, `ResourceMigrationProofs`, `ErrorRecoveryProofs`, `ConfigReloadProofs`, `ShardAssignmentProofs` | theorems | the module they are named after, TLAPS |
| `SetSums` | lemmas about least elements, sums over finite sets and orders, used by the proofs | TLAPS |
| `MC...` | model values, plans and symmetry for TLC | the module they are named after |

### ShardLifecycle

*Actors.* The constant `Actors` says which activities run, so that a run can
look at one wiring. `cmd/manager` starts neither `ShardManager.Start` nor
`HealthChecker.StartHealthChecking` itself; the tests and the leader-election
callbacks do, and the runs check the wirings separately and together:
`sm` is `runHealthCheckLoop`, `hc` is `StartHealthChecking`, `scale` is
`runScalingDecisionLoop`, `beat`, `drain` and `report` are calls of the workers,
`recover` is a caller of `OnShardRecovered`, `crash`/`start` are worker
processes and `time` makes heartbeats stale.

*API server (external).* `store` holds the objects. Resource versions are not
numbers: `current[h]` is the set of shards whose stored version is still the one
that `h` read. `UpdateStatus` succeeds exactly for those and takes the shard out
of everybody's set; a refused update is, as in the code, only logged. The CRDs
declare no status subresource; the model assumes what the tests' fake client
does, namely that `Create` keeps the status and `Status().Update` works.

*Steps.* Every read, every write and every lock section of `CheckHealth` that
another actor can see between is a step of its own (`StartPass`,
`ReadPrevious`, `SmCheck`/`HcCheck`, `SmReread`, `SmMarkFailed`, `WriteStatus`;
`Decide`, `CountMissing`, `CreateShard`, `Select`, `DrainVictim`, `Handoff`,
`RemoveShard`; `BeatGet`, `BeatReportHealth`, `BeatUpdate`; ...). A loop handles
one shard at a time on the copies it listed at the start of its pass. The order
of the list is not fixed. `CheckHealth` stores a pointer that the loops put into
the object they write, so `TransitionTo` changes `shardStatuses` too; `Proceed`
models that. The second lock section of `CheckHealth` and the local work after
it are one step. A worker's `Get` and `Create` in `initializeShardInstance`
are one step. The delete at the end of a removal can fail (`RemoveFails`), which
ends the scale-down with the shard still there.

*Reads.* A `List` or `Get` sees the objects as they are stored at that moment.
The manager's client reads through an informer's cache (manager.go:62), so that
a copy can be older than its read already; in the model a copy grows old only
after it was read. For the status writes this is the same hazard, because the
API server refuses both kinds of copy; for the scaling loop's counts and its
deletes, which no version guards, it is not, and `CountWithinBounds` holds for
reads that are current.

*Data.* Load is an input (a tick may find it above or below either threshold;
the two-minute cool-down only removes ticks). A heartbeat is fresh or not, the
assigned resources are some or none, and error counts saturate at the
threshold, the only number they are compared with. `selectShardsForRemoval`
orders by health only (the comment also says "least loaded", which it does not
do), and so does `Selections`.

*Initial states.* Shards left behind by an earlier life of the controllers:
created (Pending) or recovered (Running), with their workers up.

### ResourceMigration

An execution is a record with its goroutine's position `at`; `active` and
`history` map plan ids to executions as the two Go maps do. Transfers only
decorate local copies (`transferResource` simulates) and the shards are copies
that are never written back, so a batch is its accounting. Batch sizes are the
code's: 11 resources make two batches. What `ListShards` returns is an input of
`Attempt`; an overloaded target is `BatchFails`. `Status` is written without
lock by the goroutine and under the lock by `CancelMigration`: either order is
an interleaving. `RollbackMigration` has two steps because it releases the lock
before it starts the reverse plan.

### WorkerProcess

A critical section is one step, except that `Stop` keeps the mutex while it
waits for the heartbeat loop (`locked`). `StopTimesOut` assumes that the 30 seconds are enough for a heartbeat loop that
can move at all. `Start` is called once and succeeds, as in `cmd/worker/main.go`
where a failed start ends the process.

`Incoming` are the resources that other shards may hand over with
`AcceptMigratedResources`. Whoever hands one over, and the migration loop after a
migration, reports the assigned resources (`updateShardStatus`): it gets the
object, reads the map under the mutex and puts the list, three steps (`GetStatus`,
`ReadAssigned`, `PutStatus`) of any number of writers at once. `fresh` are the
writers whose copy the API server would still accept. `snap` and `published` hold
beside the list the resources that had left by then, which is history: it tells
an older list from a newer one. The loop that computes the load metrics is left
out: the heartbeat makes one number of them, the load, which is an input of
`ShardLifecycle` and `ShardAssignment`. So is a caller's own context that ends
while it waits for a response.

### ErrorRecovery

Every error is one call of `HandleError`, a process with a position `at`. Each
critical section of `eh.mu` and of a breaker's mutex is a step: looking a
breaker up and creating it are two (`HandleError`, `CreateBreaker`), and so are
the two locks of `IsOpen` (`IsOpen`, `HalfOpen`). Breakers are objects: a call
that has looked one up keeps using it although another one may stand in the map
by then, which is why `breaker` maps keys to objects and `box` holds the
objects. A kind of error is a type, a component and a shard; the component is
what the caller passes for some types (error_handler_integration.go:127) and
fixed for the others. The key of a breaker is component and type. An error's id
is component, type and a time stamp in seconds (the operation it also has follows
from the type), so that two errors can have the same one.

What the handlers do to the system is an input where the code asks the system
(`CanSucceed`, `CanFail`). A restart assigns Failed (`FailShard`) and then looks
at the health of the shard. The shards of the model start, fail and recover by
themselves; a recovery (`ShardRecovers`) calls `OnShardRecovered`, which takes a
copy of the active errors (`CopyActive`) and removes from them, one lock at a
time, the ids that the copy had for the shard (`ClearRecovered`). The health
checker's loop calls it for one shard after the other.

The one-hour window of `isRepeatedErrorPattern` always holds: all of a behaviour
lies within one hour. A breaker's timeout is a flag that a `Tick` may set.
`NewErrorHandler` is called by tests only and `manager.go` does not wire it; the
module models the calls it is made for.

### HashRing and ShardAssignment

A ring is a record: `owner` is the map `hashRing` and `copies` says how often
the sorted slice holds a hash; in the code they are two structures that have to
agree. The positions of virtual nodes are a constant, `PointsOf`. `Owners`
defines what the lookup has to find without a slice, by the distance clockwise,
and `RingOf` what the ring of a set of nodes is.

`ShardAssignment` is the load balancer in use: shards come, go and report,
`UpdateShardNodes` takes the ring's lock once per node, `AssignResource` picks
from a list it made before. That list comes from a cache and has no order that
one could rely on: `AssignInTurn` takes the shards in any. Loads are in tenths.
`round` is history for a property: the list round robin last chose from, in its
order, and what it has picked since. `BeginUpdate` takes the difference to the
shards of that moment; the list a caller passes may be older, which for the
ring is the same as shards that change right after.
`UpdateShardNodes` has no caller in the manager; `Updaters` are its callers. One
of them is what the tests have; two at once could both add the same node, which
duplicates its virtual nodes (`AddNode` does not ask). Two nodes with the same
hash are excluded as well.

### ConfigReload

`crd` and `configMap` are the objects at the API server, `wire` and `mapWire` the
changes the cache has not seen, `cached` and `cachedMap` the cache, `events` what
each registered handler has still to handle. A call of `LoadConfig` holds the mutex from its first read
to the store (`holder`), with the API calls in between as steps of their own;
the handlers of the watches validate before and store with the mutex. Every
accepted change is a goroutine for the callback (`pending`), and these run in
any order. A create of the object can be refused, and it can take effect and
return an error all the same (`CreateTimesOut`). `ConfigMap` events start a load. A configuration is three numbers: a
minimum, a maximum that is checked against it, and a field that must be
positive, which stands for all of its kind; 0 is a field that is not set.

## Runs

Passing runs, with the distinct states TLC finds:

| Run | Question | Bounds | States |
|---|---|---|---|
| `LifecycleScaling` | do count and phases hold against the scaling loop, the checker's loop and heartbeats? | 2 shards, 1..2, threshold 2: both a create and a removal happen, with a second shard left to interfere | 1,356,506 |
| `LifecycleFailed` | can an outdated copy undo a failure, or bring a shard back to Running? | 1 shard, 0..1; the actors `sm`, `scale`, `beat`, `drain`, `recover`, `crash` and `start`, that is without `hc`, `report` and `time` | 621,340 |
| `LifecycleDetection` | is a dead shard failed by the manager's loop? | 1 shard, threshold 2; the actors `sm`, `beat`, `drain`, `report`, `time`, `crash` and `start` (callers of `OnShardRecovered` without end could bring the shard back for ever); liveness | 203,228 |
| `LifecycleBothLoops` | is a dead shard stored as unhealthy when both loops write? | 1 shard, threshold 2; liveness | 131,044 |
| `MigrationExecutions` | registration, accounting, retries and final records | 2 plans with the same id, 3 executions, 1 retry: a plan can be run, rolled back and run again | 1,509,775 |
| `MigrationScheduling` | priorities and order of arrival; does every execution end? | 4 plans, queue of 3, 2 slots, 1 execution with 2 retries; refinement and liveness | 358,470 |
| `WorkerResources` | is every accepted resource in one place, are reports in order, and do queue, migrations and `Stop` progress? | 2 resources, one of which another shard may hand over, 1 caller, queues of 1 (they fill up): two writers of the status; liveness | 414,988 |
| `ErrorHandling` | breakers, failures, dropped errors | 2 calls of 7 kinds, 2 components, 2 shards, threshold 2, history of 1 (it is trimmed), 2 seconds | 2,477,747 |
| `Assignment` | ring, lookups, movement of keys, round robin, rebalance | 3 shards, 8 hashes, 2 virtual nodes each, 2 loads, 1 updater, every strategy, lists in every order | 541,125 |
| `ConfigReload` | what is in force, what is replaced, what is reported | 2 loaders, 1 watch, 2 edits, a valid, a partial and a contradictory specification; liveness | 265,831 |

One shard suffices where the property is about one object: the actors share
nothing between objects but the order in which a loop handles them, which the
two-shard run covers. A threshold of 2 distinguishes "first failure" from
"threshold reached". Two calls of `HandleError` of one component and type share a breaker and,
within a second, an id, and two of one type but two components share neither; with three retries one of them alone passes the
threshold. Two loaders suffice for `ConfigReload`: the mutex admits one, and the
other is the one that waits. In `Assignment` three shards with two virtual nodes
each give a node two neighbours, and the first and the last hash have different
owners, so that the ring wraps. The migration, worker, error and configuration
runs end when their bounded inputs are used up, so they do not check for
deadlock.

Violation runs each show one statement of a comment or a document that the code
does not keep; the findings in `PROJECT.json` quote it:

| Run | Shows |
|---|---|
| `FindThreshold` | the checker's loop alone never fails a dead shard when the threshold is above 1, because only the first failure can reach the threshold test |
| `FindSlotLeak` | `MarkCompleted` is called only when an execution is refused, so a slot that was used is never given back |

### Disagreements without a run

Reading and modelling the code showed more places where it does not do what a
comment or a document says. The actions of the models contain them, and no
property above claims the contrary:

* A Pending shard stays Pending: `updateHeartbeat` never writes the phase
  (worker.go:567; the comment at worker.go:432 says it will run). Only a call of
  `OnShardRecovered` makes a shard Running (`RunningOnlyByRecovery`).
* A Failed shard stays Failed: `CheckHealth` (health_checker.go:88) calls every
  shard unhealthy that is not Running, so the recovery branches of both loops
  cannot be taken.
* `OnShardFailed` (health_checker.go:389) assigns Failed from whatever phase it
  finds, Draining included. Therefore the runs of `ImplementsPhases` leave out
  `sm` and `recover`, and so does its theorem.
* A drain that was cancelled by a recovery still ends in the deletion of the
  Running shard (shard_manager.go:723), and so does one whose shard got
  resources after the handoff looked at it.
* `Drain` loses its phase update when a heartbeat is faster (worker.go:318) and a
  second `Drain` returns before it would repeat it. The draining worker goes on
  to report itself unhealthy (worker.go:581). If it dies then, the manager's loop
  compares unhealthy with unhealthy (shard_manager.go:614), sees no change and
  leaves the shard Running for good. `DeadShardDetected` excludes this one case.
* The status RolledBack of a cancelled migration is overwritten by its goroutine
  (resource_migrator.go:263); a migration that fails after its first batch keeps
  that batch moved and cannot be rolled back (resource_migrator.go:557); a retry
  counts the batch again, so progress can pass 100 percent
  (resource_migrator.go:372). `Accounting` states what does hold.
* `Stop` can only time out when the heartbeat loop waits for the mutex that
  `Stop` holds (worker.go:129): `StopReturns` holds because of the timer.
* A resource can be accepted by a draining worker (worker.go:171), `Shutdown` can
  stop a worker with resources in its queue (worker.go:355), and resources that
  are migrated away are handed to nobody (worker.go:523). `Conserved` accounts
  for them in `queue` and `gone`.
* A refused update of the assigned resources is not repeated (worker.go:614) and
  the processing of a resource reports nothing (worker.go:504), so that the
  stored list can stay behind the worker's map. `StatusInOrder` says that it does
  not go back.
* The scale-down selects unhealthy shards first (shard_manager.go:815), Failed
  ones among them, and the transition table forbids to drain a Failed shard:
  `ScaleDownGracefully` (shard_manager.go:684) ends with an error before it removes
  anything as long as there is one.
* With both health loops `DeadShardDetected` fails even with a threshold of 2: the
  loops share `shardStatuses`, so that one of them takes the first failure away
  from the other (a trace of 44 steps). What holds is `DeadShardUnhealthy`.
* `IsOpen` (error_handler.go:736) gives up its read lock before it sets the
  breaker half open, so that a failure that is counted in between is overridden:
  the breaker is half open without a timeout ("Check if timeout has passed",
  error_handler.go:742). Two calls that create a breaker for one key at once
  leave two, and what was counted on the replaced one is forgotten
  (`EveryFailureCounted` counts both). Attempts after the first do not ask the
  breaker at all.
* Two errors of one component and type within a second have the same id
  (error_handler.go:506): the second takes the first one's place among the active
  errors, and the end of either removes it. So does the recovery of the shard of
  either: the active error of another shard that has failed in the same second
  can be dropped with it. `DropsOnlyRecovered` excludes every other loss. The
  history holds recovered
  errors only, so that `isRepeatedErrorPattern` never counts an error that failed.
  An error whose recovery gives up stays active.
* The restart recovery assigns Failed and then asks whether the shard is healthy
  (error_handler.go:935), which a Failed shard never is: it succeeds only if
  something else makes the shard Running in these five seconds.
* Resources are not hashed (docs/configuration.md:53): the manager creates the
  load balancer without shards (manager.go:191) and nothing calls
  `UpdateShardNodes`, so that the ring stays empty and every resource goes to the
  least loaded shard. `GetOptimalShard` does not ask the ring at all.
* Round robin is an index into the list of this call (load_balancer.go:127), and
  the list comes from a cache in no fixed order: the same shards can come in
  another order, so that one of them has two turns and another none
  (docs/api-reference.md:97 says "Distributes resources evenly in round-robin
  fashion"). `RoundRobinVisitsAll` is about lists that are the same.
* The hash ranges of new shards (shard_manager.go:1003) overlap those of the
  shards that exist; nothing reads them.
* Edits of the ConfigMap have no effect once the ShardConfig exists, because the
  ShardConfig replaces the whole configuration (docs/architecture-zh.md:281).
* The watch ignores a ShardConfig with fields that are not set, which
  `LoadConfig` would complete with defaults and accept. In
  `ValidateAndApplyConfig` the defaults come after the validation and change
  nothing: theorem `DefaultsAfterValidation`.
* Callbacks run in goroutines of their own: the last one to run need not have the
  last configuration (config_manager.go:529). `StopHotReload`
  (config_manager.go:367) cancels contexts that nobody listens to.
* A ConfigMap created from a configuration writes thresholds with two decimals;
  two thresholds that are closer than that come back equal, which is invalid.

Every property of a passing run has a mutant of the code (named in
`PROJECT.json`, defined next to the definition it changes) that violates it.

### Fairness

The loops are goroutines driven by tickers and the API server answers, so each
loop is weakly fair as a whole; a call that has begun goes on. Calls from
outside (drain, migrate, cancel, recover, process) and crashes and restarts are
not fair. A heartbeat in the store grows stale when its worker stays down
because time passes. In `WorkerProcess`, `main` stops the worker after a signal
and the timer of `Stop` fires. In `ConfigReload` the cache receives what was
written, goroutines of callbacks run and a load that has begun goes on; the
handler of a watch is strongly fair, because loads may keep taking the mutex it
needs and a Go mutex does not starve whoever waits for it. `ErrorRecovery` and
`ShardAssignment` state no liveness.

## Proofs

For every value of the constants that their named assumptions allow:

| Module | Theorem | States |
|---|---|---|
| `ShardLifecycleProofs` | `TypeCorrect`, `NoStaleWrites`, `FailedSticky`, `OnlyRecoveryRuns` | `[]TypeOK`, `[]CopiesCurrent`, `FailedIsSticky`, `RunningOnlyByRecovery` |
| | `PhasesImplemented` | `ImplementsPhases`, without the actors `sm` and `recover`, which assign phases unasked |
| | `CountBounded` | `[]CountWithinBounds`, without the actor `start`, which re-creates objects |
| `WorkerProcessProofs` | `TypeCorrect`, `ResourcesConserved`, `ReportsInOrder` | `[]TypeOK`, `[]Conserved`, `StatusInOrder` |
| `ResourceMigrationProofs` | `TypeCorrect`, `AlwaysRegistered`, `AccountsAddUp`, `HistoryKept` | `[]TypeOK`, `[]Registered`, `[]Accounting`, `HistoryFinal` |
| | `EveryExecutionRunsOut` | `RetriesRunOut`: the steps before an execution's end are bounded |
| | `QueueImplementsLanes` | `ServesByPriority`: the queue implements `PlanLanes` |
| `ErrorRecoveryProofs` | `TypeCorrect`, `BreakersOpenInTime`, `FailuresCounted` | `[]TypeOK`, `[]ClosedBelowThreshold`, `[]EveryFailureCounted` |
| | `ErrorsDropLawfully` | `DropsOnlyRecovered` |
| `ConfigReloadProofs` | `TypeCorrect`, `AlwaysValid`, `NothingReplaced` | `[]TypeOK`, `[]OnlyValidInForce`, `UserConfigKept` |
| | `DefaultsAfterValidation` | a valid configuration is its own completion |
| `ShardAssignmentProofs` | `RingAlwaysExact`, `AlwaysNearest`, `KeysStay`, `ResourceGoesToOwner` | `[]RingExact`, `[]OwnerIsNearest`, `MinimalMovement`, `OwnerGetsResource`, with one updater (`OneUpdater`) and no hash shared by two shards (`NoCollisions`) |
| | `DistributionIsExact` | `[]SpaceIsShare`, under the same two conditions |
| | `TypeCorrect` | `[]TypeOK`, with `NoCollisions`, for any number of updaters |
| | `EveryShardHasItsTurn`, `RebalanceAgrees` | `RoundRobinVisitsAll`, `[]RebalanceLawful` |

The arguments, and why the invariants are stronger than what is stated:

* `ShardLifecycle`: `IInv` is `TypeOK /\ CopiesCurrent /\ Bookkeeping`. The phases
  alone are not inductive: a step that writes a copy is safe only because the
  copy's phase is the stored one, or the API server refuses it. That is what
  `CopiesCurrent` says for every holder of a copy. `Bookkeeping` ties the shard
  that is being removed to the stage of the scaling loop. The lemmas `...Good`
  show for each group of actions that a step either leaves the stored phases
  alone or changes one lawfully (`PhaseStep`), and keeps the copies current.
  `CountBounded` needs in addition `ScalingOnTarget`, which relates the number
  of objects to the loop's target, missing creations and remaining victims.
* `WorkerProcess`: `Conserved` needs to know where a resource can be when the
  processing or the migration loop stands between two critical sections; `Places`
  says it. `StatusInOrder` orders what was read of the map (`Older`): `Reported`
  says that what is stored is not newer than the map, and that a writer whose
  copy is still current has read the map after the stored list was. Both follow
  from the order in `updateShardStatus`, object first and map second.
* `ResourceMigration`: `Registered` alone does not exclude that a `Finish` puts an
  older execution over a newer one in the history. `ActiveLives` says that what
  is active has not ended and is newer than what the history has for its plan
  id. `Accounting` follows from `Consistent`, which knows for every position of
  the goroutine what the attempts so far can have moved: only a failed attempt
  is repeated, and it moved all but one resource at most.
* `EveryExecutionRunsOut` is the part of `ExecutionEnds` that does not need
  fairness: `StepsLeft` gives every execution a number of steps it can still make
  (an attempt is worth three more than the plan has resources), and whatever
  moves its goroutine lowers it. That the goroutine is scheduled stays a question
  of fairness, which TLC answers.
* `QueueImplementsLanes`: the queue is always sorted by priority (`Sorted`), so
  that `AddPlan`, which inserts before the first plan of a lower priority, cuts
  it in two (`AddPlanSplits`): no plan before the cut is less urgent than the new
  one and every plan behind it is. The lane of a concatenation is the
  concatenation of the lanes (`LaneOfConcat`) and the part behind the cut has no
  plan of the new one's priority, so its lane grows at the end (`AddPlanLane`).
  The head of a sorted queue has the highest priority that waits (`HeadLane`).
  `LanesStep` maps every step to a step of `PlanLanes` or a stutter.
* `ErrorRecovery`: the proof of `DropsOnlyRecovered` follows what identifies an
  error: whoever is active under an id has that id (`OwnId`), and a copy that
  `OnShardRecovered` works through has ids of its shard only (`WasOfShard`).
  `EveryFailureCounted` compares two sums over the calls of a key, of which a
  failed attempt raises each by one (`FailureCountedOnce`) and a success lowers
  the first (`SuccessTakesBack`). `CInv` adds that the breaker of a key was
  created by a call with that key, that a call which has passed the lookup finds
  one in the map, so that no result goes uncounted (`Mapped`), and that a call
  with the result of an attempt in its hands has made one (`Tried`).
* `ConfigReload`: whatever is stored has passed `Valid`, on each of the two ways.
  `UserConfigKept` rests on the API server refusing to create what exists.
* `ShardAssignment`: `Exact` says of map and slice that every virtual node of the
  ring's nodes is there once. It is kept because what an updater still adds is
  not in the ring (`RInv`), for which there must be one updater. That the nearest
  node is found needs least elements of sets of numbers (`LeastOf`, from the
  well-foundedness of the order) and the value of the distance modulo the size
  of the ring (`DistanceValue`). `DistributionIsExact` cuts the keys of a node into the
  arcs that end at its virtual nodes and counts each of them; the counts add up
  because the arcs are disjoint (`CardinalityOfParts`). `EveryShardHasItsTurn` keeps in
  `RoundInv` that what was picked from the last list, in its order, are the
  places up to the index, counted backwards around the list.
* `SetSums`: what a recursive function or a fold computes is shown by a least
  counterexample: a set of numbers that is not empty has a least element
  (`LeastOf`), and a sum over a finite set is the one function of its subsets
  that adds one element at a time (`SumsExist`, `SumsUnique`).

Assumptions are those named in the modules: the sets of shards, errors and
resources are finite, thresholds, sizes and limits are numbers in their ranges,
the default configuration is valid, virtual nodes lie on the ring.

Only model-checked: the liveness properties (`DeadShardDetected`,
`DeadShardUnhealthy`, `ExecutionEnds`, `QueuedIsProcessed`, `StopReturns`,
`RequestsAnswered`, `ShardConfigWins`, `EveryChangeReported`), which rest on
fairness and so on `ENABLED`, which the prover does not reach. Every invariant,
every action property and both refinements of the passing runs are proved; the
theorems that need conditions on the wiring name them above.

## What could follow

* `Leadership`: the loops of two managers that both believe they lead, on one
  store with a `shardStatuses` each.
* Repeated `Start` and `Stop` in `WorkerProcess`; `ReportHeartbeat` and
  `HandleFailedShard` from other callers in `ShardLifecycle`.
* `ErrorRecovery` composed with the phases of `ShardLifecycle`: here a restart
  fails a shard of its own model.
* Reads from a cache that lags in `ShardLifecycle`.
* Two updaters of the ring, and what is left of `OwnerIsNearest` then.
* The safety parts of the other liveness properties, as `EveryExecutionRunsOut` is
  that of `ExecutionEnds`.

## Not modelled

* Leader election: the lease is client-go's; the repository starts the loops in
  one callback and cancels them in another.
* Metrics, logging and webhooks (output only), defaults and construction of
  clients, generated code, demos, the performance tool and the deployment files.
* Within the modelled components: the monitoring loop and the hash ranges of the
  ShardManager, `CreateMigrationPlan` and statistics of the migrator, a second
  `Start` of a worker, `SetStrategy` of the load balancer (nothing calls it),
  `StopHotReload` and the file of defaults, the worker's loop that computes load
  metrics and the contexts of its callers, notifications of the error handler,
  and setters that nothing calls.

`PROJECT.json` lists each with its reason.
