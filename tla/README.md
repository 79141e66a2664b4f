# TLA+ verification of fluo

This directory models the parts of fluo whose correctness depends on the order
in which asynchronous steps happen, checks them with TLC on small instances, and
proves the most important results for every instance with TLAPS. Paths are
relative to the repository; `PROJECT.json` maps every definition to the lines it
models.

All modelled code is JavaScript on one thread. A model action is one
*synchronous segment*: what runs between two `await`s. Concurrency is the
interleaving of segments of different calls; what the host supplies (factories,
hooks, adapters, transports, stores) settles at any time, either way.

## 1. Inventory

### Components that keep state and interact

| component | state | operations | hard behaviour |
|---|---|---|---|
| `packages/di` container | registrations, singleton cache of promises, pending-resolution links, stale disposal tasks, disposal state | `resolve`, `register`, `override`, `dispose`, request scopes | calls share promises under construction; cycles across calls; override and dispose during construction; retry of failed hooks |
| `packages/runtime` application shell | public state, close gate, startup and closing promises, completed teardown phases, connected microservices | `listen`, `close`, `connectMicroservice`, `startAllMicroservices` | listen against close, partial failure and retry of teardown, rollback |
| `packages/runtime` microservice shell | state, listen and closing promises | `listen`, `close`, `send`, `emit` | first close result is final; late listen |
| `packages/runtime` platform shell | started flag, ordered components, components still to be stopped, active transition | `start`, `stop`, probes | overlapping transitions, failed rollback, retry |
| `packages/runtime` bootstrap, application context | acquired resources, lifecycle instances, ready signal | `create*`, `get`, `close` | failure in any phase, cleanup that fails |
| `packages/cache-manager` | in-flight loads, reset version, invalidation marks, operation queue | `get`, `set`, `del`, `remember`, `reset`, `close`, `update` | invalidation during a load, reset and close against queued writes, store failures |
| `packages/cron` | tasks, running flags, owned leases, renewal chains | ticks, schedule changes, shutdown | lost and late Redis replies, lease expiry, shutdown timeout |
| `packages/queue` | lifecycle, queues, workers | `enqueue`, start, shutdown | shared start that fails, workers against shutdown |
| `packages/event-bus`, `packages/cqrs` | handlers, active dispatches, subscriptions | `publish`, discovery, drain | drain against timeout, messages while stopping |
| `packages/microservices` | pending requests, inbound work, transport state | `send`, `emit`, `listen`, `close` | timeout against late reply, redelivery, close during work |
| `packages/jwt` refresh rotation | token families in a store | issue, rotate, revoke | two-step rotation, reuse detection |
| `packages/config` reload | current snapshot, watch timer, pending reload | `reload`, watch, `close` | reload during reload, timer after close |
| `packages/persistence`, `prisma`, `drizzle`, `mongoose` | active transactions | run, track, shutdown | transactions that begin while shutdown waits |
| `packages/throttler` | window counters | `consume` | window boundaries, sweep |
| `packages/websockets`, `socket.io` | connections | upgrade, message, shutdown | shutdown against open connections |

The rest (HTTP pipeline, decorators and metadata, validation, serialization,
OpenAPI, GraphQL, i18n, platform adapters, React, CLI, studio, testing,
diagnostics, delivery packages) is sequential, a pure transformation, or a
binding to external software; `PROJECT.json` lists each with its reason.

### How they interact

`bootstrap.ts` compiles modules, fills the container, starts the platform shell
and runs lifecycle hooks; the application shell then owns these resources and
tears them down in a fixed order in `close()`: readiness, cleanup callbacks,
shutdown hooks, adapter, container. Services (cache, queue, cron, event bus,
microservices) are singletons of the container and take part through lifecycle
hooks. Connected microservices are shells of their own that the application
closes before its own resources.

### What makes each modelled component correct

* container: no resolution waits for itself; no false cycle error; a singleton
  is built once; a failure does not poison a token; nothing cached is built from
  a replaced instance; hooks run once, dependents first; everything settles;
* application: closed means everything is down; children first; teardown phases
  in order and never repeated; a failed group start is undone, as far as the
  logger lets it; nothing becomes
  ready once a close has begun; `listen()` and `close()` never deadlock;
* platform shell: no running component is forgotten; starts and stops respect
  the dependencies although any of them may fail;
* cache: an invalidated load does not repopulate its key, unless the store fails
  it or the service is closed before it has noticed; a reset is final; one
  load per key; the store is torn down alone; updates are atomic, also across
  processes, and are given up after an invalidation; everything settles;
* cron: a task body runs under a lease it was granted and nobody gives that
  lease back meanwhile; ticks of one task do not overlap; no scheduler handle is
  lost; the shutdown ends although Redis or a task hangs;
* messaging: a well-formed entry is acknowledged only when it was handled and answered; a
  reply tells the truth; `send()` settles; a close drains what was admitted;
* event bus and queue: the drain sees all admitted work or times out; a job is
  accepted only by a started queue; dead letters are written before the close;
* configuration: between reloads the service shows the last accepted content; no
  edit of a watched file is missed without anybody being told;
* CQRS: executions of a saga are handled one at a time and in order; a
  publication waits for the continuations it caused; nothing waits for itself.

The hazards behind these properties are listed in `PROJECT.json`, each at its
line, with the properties that would catch it.

## 2. Modules

| module | models | run by |
|---|---|---|
| `DiContainer` | `di/src/container.ts` | `MCDiResolve`, `MCDiDispose`, `MCDiOverride` |
| `LifecycleShell` | abstract: public state and shutdown gate of a shell | instantiated by `Application` |
| `Application` | `runtime/src/internal/application.ts`, `microservice-application.ts`, `closeRuntimeResources()` | `MCApplication` |
| `PlatformOrder` | `runtime/src/platform-component-registry.ts` | through `Platform` |
| `PlatformShell` | `runtime/src/platform-shell.ts` | through `Platform` |
| `Platform` | the two composed | `MCServices` |
| `LeaseLock` | abstract: a lock that leases run out of | instantiated by `CronLease` |
| `CronLease` | `cron/src/distributed-lock-manager.ts`, ticks and shutdown of `service.ts` | `MCServices` |
| `CronRegistry` | tasks, handles and ticks of `cron/src/service.ts` | `MCServices` |
| `ConfigReload` | reloads of `config/src/load.ts` and `module.ts` | `MCServices` |
| `EventBus` | `event-bus/src/service.ts` | `MCMessaging` |
| `QueueService` | `queue/src/service.ts`, `dead-letter-manager.ts` | `MCMessaging` |
| `RedisStreams` | `microservices/src/transports/redis-streams-transport.ts` | through `Microservice` |
| `Microservice` | `microservices/src/service.ts` over the transport | `MCMessaging` |
| `Messaging` | the promises of `EventBus`, `QueueService` and `Microservice` together | `MCMessaging` |
| `CacheService` | `cache-manager/src/service.ts`, `store-operation-scheduler.ts` | `MCCacheSagas` |
| `AtomicCell` | abstract: a key whose updates are atomic | instantiated by the next two |
| `CacheUpdate` | `update()` over `cache-manager/src/stores/memory-store.ts` | `MCCacheSagas` |
| `RedisUpdate` | `update()` over `cache-manager/src/stores/redis-store.ts` | `MCCacheSagas` |
| `Cache` | the promises of `CacheService`, `CacheUpdate` and `RedisUpdate` together | `MCCacheSagas` |
| `SagaBus` | `cqrs/src/buses/event-bus.ts`, `saga-*.ts`, `publish-drain-tracker.ts` | `MCCacheSagas` |
| `DiContainerProofs`, `ApplicationProofs`, `PlatformProofs`, `CronProofs`, `CacheProofs`, `MessagingProofs`, `ConfigProofs`, `SagaProofs` | proofs | |

`MCServices`, `MCMessaging` and `MCCacheSagas` each run several modules that
share no variable. A variable `focus`, chosen at the start, names the one that
moves, so the states of the modules add up instead of multiplying.

Operators commented "a mutated form" are plausible bugs of the definition next
to them. No action uses them; they show that the properties notice such a bug.

### DiContainer

A `resolve()` call is a member of `Call`. `pc` says where its async function is
suspended; while it is `visiting` it holds the thread and nothing else moves
(`Quiet`), so a descent through first dependencies is one segment although it is
several actions. `stack` is the chain of tokens under construction, innermost
first, each frame with the dependencies still to be injected and the cached
instances already injected. A cached promise is a number in `Promise`; `status`,
`owner` and `tokenOf` describe it. `Linked` and `PendingPath` are
`linkPendingResolution()` and its search; reachability is stated by closed sets
instead of recursion. `stale` and `consumed` are `staleDisposalTasks`, `phase`
and the following variables the current `dispose()` attempt. `destroyed`, `late`,
`evicted`, `uses` and `settledAt`'s numbering record history for the properties (the
code keeps the order in a Set). `DisposalComplete` excepts the promises created after
`dispose()` had begun (`late`) and the replacements that the rejection of the promise
they replaced has taken out of the cache before (`evicted`): no `dispose()` sees
either, which `di_late_instance` and `di_evicted_replacement` show.

Left out: request-scope containers and their hierarchy, multi providers, scope
validation, instances shared between registrations (and the
`attemptedStaleInstances` filter for them), factories that call `resolve()`
themselves, several overrides in one call. A hook that calls `resolve()` on the
container that waits for it would break the fairness assumption below.

### Application and LifecycleShell

`startup` follows `listen()` from the readiness check over `adapter.listen()` to
the tail of `startListening()`; `Listening` is the *raw* startup that `close()`
waits for, as opposed to the public promise with its cleanup. `closing`, `step`,
`turn` and `at` follow the close attempt; `done` are the phases complete in
`RetryableShutdownState`, `tried` those ever entered. Each child has
`mstate`, `mClosing`, `mListening` and `transport`; `spc`, `si` and `undo` follow
the loops of `startAllMicroservices()`. `tried` and `closes` are history and bound.

The application's logger may throw wherever the code calls it unguarded. The rollback
of `startAllMicroservices()` logs the error of a child's `close()` (`RollbackThrows`);
when that throws, the rollback ends there (`"aborted"`) and the logger's error takes
the place of the startup's. `RollbackComplete` says what is closed in either case. A
child logs after it has become ready (`ChildBound`); when that throws, its `listen()`
rejects although the child is ready, and a group start reports it as failed.

`LifecycleShell` states what both shells promise: `bootstrapped`, `ready`,
`closed`; ready only while the gate is open; a close attempt that fails may be
retried (application) or is final (child). `AppGate` and `ChildGate` are the
refinement mappings.

Left out: `get()`, `dispatch()`, `send()`, `emit()`, which read the gate and
change nothing; applications without an HTTP adapter; the
`closeContextOnClose = true` variant of a standalone microservice; two wrappers
over one transport. The microtask between the settling of a child's listen and
the clearing of its `listenPromise` is part of the settling step; the readiness
reset, which is synchronous, has a step of its own, which only adds behaviours.

### PlatformShell and PlatformOrder

`PlatformShell` takes the component order as a constant with `OrderAssumption`
(every component once, after its dependencies); `PlatformOrder` models the code
that computes it and `OrderIsCorrect` proves the assumption for it. In the shell,
`todo`, `kept` and `then` are the locals of `stopStartedComponents()` and what
its caller does next; `running` is the host's truth. `PlatformOrder` gives the
recursive `visit()` an explicit stack of frames.

Left out: probes, snapshots and diagnostics retention, which only read. The
`validate()` loop is one step, since it changes nothing until it fails or ends.
Calls rejected because of an active transition change nothing and have no action.

### CacheService

A call owns at most one store operation, which is queued, starts, takes effect
and settles; a store may reject it before or after the effect. A loaded value is
abstracted to the reset version it was loaded under and the number of
invalidations its loader had seen. `invs`, `lastDel`, `lastReset`, `unsure` (keys for
which the store failed a `remember()`) and `abandoned` (keys for which a `close()`
kept one from deleting its stale value) are history; the last two are the exceptions
of `StaleIsTransient`. `Expire` stands for time to live and for the entry limit.

Left out: jitter, observers, keys of HTTP responses. `invalidatedInflight`,
which is written and never read, has no variable. Calls refused by a closed
service change nothing and have no action.

### CacheUpdate, RedisUpdate and AtomicCell

`AtomicCell` states what an update promises: it takes effect at one instant, at
most once, on what the key holds then. The content of an entry is the set of
calls it is made of, so a lost update is visible as a missing member.

`CacheUpdate` has several services over one memory store. `tail` is the store's
queue of updates, `line` each service's scheduler, `phase` where a call is
suspended. A reducer runs across an await; `set()`, `del()`, `reset()`, expiry
and `close()` of any service go on meanwhile. Reducers are assumed to settle: an
update that hangs holds its key, in the code as in the model.

`RedisUpdate` has an update watch the data key, the epoch and the invalidation
marker, read, reduce and EXEC, each a command of its own, on a connection that
may be lost with or without the command having taken effect; the commands of
`set()`, `del()` and `reset()` may be reported as failed either way too. An entry expires
for the clock of the process and for Redis at the same instant.

### CronLease, LeaseLock and CronRegistry

`CronLease` has the ticks of several nodes compete for one key. A Redis command
is sent, runs and is answered in three steps; it or its reply may be lost, and a
release whose caller gave up may run later. The lease may run out at any time,
which is why `LeaseLock` grants the key to one owner at a time but is no fence
for a body that outlives its lease. The reply to a renewal is attributed to the
claim it was sent for (`TrueLoss`). The refinement mapping forgets requests and
replies.

`CronRegistry` has one task name. A schedule handle is numbered when it is
created; `live` are the handles that may still fire, `Stoppable` those the task
knows. Creating and stopping a handle may throw, and every such path of
`service.ts` is an alternative of its action.

Left out: the rollback of a failed bootstrap, the choice of the Redis client,
discovery of decorated tasks, the status snapshot.

### ConfigReload

The code is synchronous; what interleaves with it is the env file, which others
edit at any moment, and the listeners, which call back into the manager. `thread`
says where the code is that holds the thread. A content of the file is the number
of edits that led to it, so a hash identifies it and no content returns. `told`
(the content of the last failed attempt that reached a caller or an error
listener), `seen` (the last edit was made under watch), `asked` and `committed`
are history.

Left out: several files and the directories they are in (one content stands for
the list), the parsing and merging of sources, managers without `watch`, a
listener of the error subscription that calls back.

### RedisStreams and Microservice

`RedisStreams` has the operations of the transport and no next-state relation;
`Microservice` composes them with the service. A request entry belongs to the
shared group and is owned by whoever reads or reclaims it; an event has an entry
per node. Every command may fail with or without effect, handlers run twice when
an entry is reclaimed, and a peer in `MayCrash` may stop between any two steps. A
consumer group whose creation was reported as failed may exist.

The entries of the calls in `Unreadable` are malformed (`Malformed`): `parseFields()`
turns them down, or they are of a kind their stream does not carry or a request
without `requestId`. The poll loop acknowledges them without handler or answer
(`Discard`), and the sender of such a request only sees its timeout; `AckedAnswered`
is about the other entries. The branches of `handleInboundRequest()` and
`handleInboundEvent()` for a missing handler are not taken: `listen()` sets the handler
before the loops start and `close()` clears it when they have ended.

Left out: the other transports, streaming calls, the routing to decorated
handlers, the reference count of the request group.

### EventBus and QueueService

A dispatch of `EventBus` is tracked while it waits for the discovery and while
its work runs; a piece of work outlives the timeout of its caller. Handlers may
hang. The drain takes snapshots until none is left or its timer fires.

Starts of `QueueService` are numbered; every start builds one instance per job
name, and `held` is what each closer has taken out of the maps. Callers wait for
the shared start and each runs the rollback of a failed one. Continuations that
are ready run before the next reply of BullMQ or Redis (`Quiet`).

Left out: payload isolation, channel names, the Redis transport of the event
bus; replay of dead letters and discovery of the queue.

### SagaBus

A publication (`pubs`) runs handlers, sagas and the delegated event bus; an
execution (`runs`) is a call of `dispatchWithOrdering()`, for the publication its
`event` names. `chains` is `executionChains`. The tasks a publication schedules
together (`InOrder`) are numbered (`Numbered`) and become executions
(`Execution`), each behind the last one of its token (`LastOf`). A context is the set of active routes, the execution whose
scope collects continuations, and the drain token. `PromisesIdle` makes ready
promise continuations run before the next event of the outside.

The bus starts discovered. The event handlers of a publication are one step that
succeeds or fails. `handle()` publishes at most once and awaits it, and may catch
its failure; an awaited subscriber publishes at most once, without a context,
which it has no way to receive. The delegated event bus reports failures as
outcomes and does not reject. The shutdown hooks run in reverse provider order.

Left out: `publishAll()`, which repeats the pipeline, discovery, the isolation of
events, and the command and query buses, which route one call to one handler.

## 3. Runs

| run | instance | shows |
|---|---|---|
| `di_resolve` | 3 calls; two-cycle, ring, diamond, cycle past a leaf, missing leaf | `NoCircularWait`, `NoSpuriousCycle`, `SingletonShared`, `ResolveSettles` under every interleaving and construction failure |
| `di_dispose` | 2 calls, 1 override, 2 dispose attempts, failing hooks, an instance that reaches its consumer directly and through an alias | `NoStaleDependency`, `DeliveredOnce`, `DestroyOnce`, `DisposalComplete`, `DependentsFirst`, `DisposalSettles` |
| `di_late_instance` | expected violation | an instance created after the disposal snapshot is never destroyed |
| `di_evicted_replacement` | expected violation; 3 calls, 1 override, a transient | the rejection of an overridden construction evicts its replacement |
| `app_lifecycle` | 2 children, 1 group start, 1 close of the host and the one of a failed `listen()` | `ClosedMeansDown`, `TeardownSound`, `RollbackComplete`, the refinements `AppIsShell` and `ChildIsShell`, `ShellSettles` |
| `services` | platform: every list of up to 3 registrations over 3 ids, and a diamond of 4 components with 2 callers; lease: 2 ticks on 1 or 2 nodes; registry: 2 registrations, 4 handles; configuration: 3 edits, 2 queued reloads | `ShellSound`, `OrderSound`; `LeaseSafe`, `ImplementsLease`; `SchedulesKept`, `TicksCurrent`; `ConfigInForce`; `ServicesEnd` |
| `messaging` | bus: 2 dispatches, 2 recipients; queue: 1 job name, 2 callers, 3 starts; microservice: 2 peers; 1 of two requests, or 2 event entries, one of either kind malformed | `MessagingSafe`, `ShutdownsEnd`; `AcceptedWhileStarted`; `RepliesSound`, `SendSettles` |
| `cache_sagas` | service: 1 key, 3 calls of any kind; update: 3 calls of 2 services; redis: 1 update and 2 calls of 2 processes; sagas: 2 sagas, 3 event classes, 3 publications, 2 of them from outside | `StaleIsTransient`, `Coalesced`, `ResetsFinal`, `CacheSafe`; `AtomicUpdates`, `InvalidatedGivenUp`; `HandledInOrder`, `OuterWaits`, `SagaShutdownQuiet`, `PublicationsSettle`; `CallsEnd` |
| `cron_reenable` | expected violation | a timeout task enabled again during its run loses the new schedule |
| `streams_blank_error` | expected violation | an error without a message is taken for a result |
| `queue_orphan` | expected violation | a late rollback resets a newer start, whose workers outlive the application |
| `saga_deadlock` | expected violation | a saga waits for a subscriber whose event queues behind it |

Some of these are conjunctions of named parts, each with a comment of its own:

| property | parts, besides the type invariants of the modules concerned |
|---|---|
| `SingletonShared` | `SharedInstance`, `NoPoisonedCache` |
| `DisposalSettles` | `DisposeEnds`, `ResolveSettles` |
| `TeardownSound` | `ChildrenFirst`, `TeardownOrder` |
| `ShellSettles` | `ListenSettles`, `CloseSettles`, `StartAllSettles` |
| `ShellSound` | `Accounting`, `StartSound`, `StopSound` |
| `OrderSound` | `OrderCorrect`, `CycleReal`, `NeverMissing` |
| `LeaseSafe` | `HeldWhileRunning`, `Remembered`, `TrueLoss` |
| `SchedulesKept` | `JobsKept`, `EnabledRuns` |
| `TicksCurrent` | `NoOverlap`, `BodyCurrent` |
| `ConfigInForce` | `LastCommitted`, `EditsNotMissed`, `QueuedReloadServed` |
| `ServicesEnd` | `Ends`, `TransitionsEnd`, `ShutdownEnds` |
| `ResetsFinal` | `ResetIsFinal`, `ResetForgets` |
| `CacheSafe` | `TeardownRunsAlone`, `CloseCoversUpdates` |
| `AtomicUpdates` | the refinements `UpdatesAtomic`, `DistributedAtomic` |
| `InvalidatedGivenUp` | `InvalidatedNeverCommits`, `StaleNotRetried` |
| `SagaShutdownQuiet` | `QuietSagas`, `GraphReleased` |
| `CallsEnd` | `CallsSettle`, `UpdateCallsSettle`, `SagasStop` |
| `RepliesSound` | `AckedAnswered`, `TruthfulReply` |
| `MessagingSafe` | `QuietClose`, `DeadLettersDrained`, `DrainedClose`, `ClosedIsFinal` |
| `ShutdownsEnd` | `BusStops`, `QueueStops`, `CloseEnds` |

### Bounds, and why they are enough

* Three tokens hold every shape that matters to the link search: a cycle of two,
  a ring, a shared leaf, an indirect path. Three calls let two wait while a third
  closes the circle. `MaxPromise` does not restrict the runs: raising it by one
  leaves their numbers of states as they are.
* One override with two calls puts a consumer before, across and after it; two
  dispose attempts are one failure and one retry, and further ones repeat that.
* Two children give a teardown an order and a rollback one child to undo, which is
  closed or ends the rollback; what is left open or closed in a longer list rests on
  the theorem, which has any number of children. The close of the
  host and the one of a failed `listen()` are a failure and a retry.
* The platform shell's calls are reused, so any number of transitions happens;
  the theorems remove the bound on components.
* Two ticks are the owner of a lease and its competitor; `MaxRenewals = 1` leaves
  one renewal in flight when the task ends. One of the nodes may stop
  (`MayStop`). Two registrations of a name and four handles allow a replaced
  schedule whose handle could not be stopped, and its replacement.
* Three edits are one before, one during and one after a reload; two queued
  reloads are one that a queued one queues.
* Two dispatches let one be admitted while the other is drained. Two callers wait
  for one start; three starts are one that fails, one whose state a late rollback
  resets, and one that replaces it. The workers of a start do not interact, so one
  job name stands for them in `messaging`; the theorems have any number.
* Of the two peers one may crash and one may close, the other listens
  (`MayCrash`, `MayClose`, `Listening`). Requests and events are read by
  different loops that do not interact, so one kind travels at a time: one request,
  well-formed or malformed (`Unreadable`), or two event entries, of one event for both
  nodes or of a well-formed and a malformed event for the same node. In the second case
  no node crashes, as nobody else reads the events of its group.
* One key is enough because calls on different keys share only the scheduler,
  `reset()` and `close()`; three calls are a load, an invalidation and a reset or
  a second load. Updates try twice (`MaxAttempts`, `MaxTries`): a conflict and
  its repetition; one clock tick (`MaxTime`) separates before and after expiry.
  Calls that are alike are used in one order.
* Three publications are one from outside, one by its saga and one by a
  subscriber, or two from outside and a nested one; `MaxNested = 2` makes the
  depth limit bite. One saga may hang (`MayHang`).

Symmetry is used in expected violations only. Deadlock checking is off: every
system here may come to rest, all calls settled and no further one made.

### Fairness

Weak fairness of the continuations: the event loop runs every continuation whose
promise has settled. No fairness is assumed of callers: nobody has to call
`resolve()`, `close()` or `publish()`. Each continuation, once enabled, stays
enabled until it runs, so weak fairness suffices. What the host supplies is
assumed to settle or not, part by part:

* container, application, platform shell, cache and reducers: factories, hooks,
  adapters, loaders and stores settle, so the results say that the code's own
  waiting is never circular;
* `CronLease`: only the timers of the shutdown are fair; tasks and Redis may hang;
* `EventBus`: only the timer of the drain and the close of the transport are
  fair; handlers may hang;
* `QueueService`, `Microservice`: the steps of the code, timers, and the replies
  of Redis and BullMQ, which report an error at the latest when the connection
  ends; handlers settle;
* `SagaBus`: promises, timers, and handlers except those in `MayHang`.

`MCCacheSagas` states its fairness as one condition on the module in focus, which
is the conjunction of the modules' own because the focus never changes.

### Disagreements with the documentation, and defects

* `di_late_instance`: `resolve()` checks `disposed` before the stale disposal
  barrier and not after it, and a construction in flight goes on creating
  dependencies; such instances miss the disposal snapshot and `dispose()`
  succeeds without running their hooks.
* `di_evicted_replacement`: the rejection handler in
  `resolveScopedOrSingletonInstance()` deletes the token's cache entry without
  checking that it is its own. No `dispose()` destroys the replacement it evicts.
* `cron_reenable`: `executeTask()` disables a timeout task when its run ends,
  also when the task was enabled again with a new timer meanwhile.
* `streams_blank_error`: `handleInboundResponse()` tests the error message for
  truth, so `new Error()` in a handler makes `send()` resolve.
* `queue_orphan`: every waiter of a failed start runs the rollback; a late one
  resets the state of a newer start, which runs on unseen. Its workers may then be
  closed by nobody, a dead-letter write of theirs may begin after `shutdown()` has
  reported the service stopped, and such workers may keep a drain busy for ever.
  `overtaken` records that this has happened; `DeadLettersDrained` and
  `QueueStops` are stated unless it has, and no other exception is made.
* `saga_deadlock`: a saga awaits an event that has no saga; a subscriber that the
  publication awaits publishes an event of that saga, which queues behind it.
  With the routing of `cache_sagas`, where the awaited event re-enters the saga,
  the continuation prevents this and `PublicationsSettle` holds.

Observed while modelling, without a run:

* `rollbackStartedMicroservices()` calls `logger.error()` unguarded
  (`application.ts:133`): a logger that throws while the failed `close()` of a child is
  reported ends the rollback, leaves the children started before that one open, and
  hides the error of the startup. A child whose `logger.log()` throws after it has
  become ready (`microservice-application.ts:112`) is reported as failed, stays ready
  with its transport up, and is not rolled back;
* an entry that cannot be parsed is acknowledged and dropped
  (`redis-streams-transport.ts:514`): its sender is not told and runs into its timeout;
* when the service is closed while the write of a load that a `del()` invalidated is
  under way, the compensating delete is skipped (`cache-manager/src/service.ts:261`)
  and the stale value stays, in Redis until it expires. `StaleIsTransient` excepts it;
* overlapping `startAllMicroservices()` calls can leave one resolved while the
  other has rolled back the same child;
* a `remember()` after `del()` may join the invalidated load and return its value
  (without caching it); a leftover invalidation mark makes one later load
  uncached; when a store rejects a write it has applied, the compensating delete
  is skipped, which is why `StaleIsTransient` excepts keys with a reported store
  failure;
* `runDispatch()` of the CQRS sagas rejects at the first failing saga
  (`saga-bus.ts:201`) while its siblings run on, and an execution that fails drops
  the continuations it owns while their re-entrant tasks run on; neither drain
  sees them, so a shutdown can end before they do although
  `packages/cqrs/README.md:182` says it waits. `QuietSagas` is therefore stated
  for shutdowns before which no saga failed. The same siblings may be under way
  when the stopped saga service forgets its chains (`saga-bus.ts:278`): one of
  their continuations then starts beside an execution of the same token, so
  `HandledInOrder` is stated for as long as the graph is kept. Two contexts whose sagas publish to
  each other's tokens can wait for each other like the saga of `saga_deadlock`;
* when the body of a cron task throws, nobody awaits its renewal chain: renewals
  that were queued run after the release and count an ownership that was given
  back as lost;
* a `listen()` of the Redis Streams transport that failed at the response group
  fails again at its own event group, which exists by then;
* `book/intermediate/ch03-redis-transport.md:136` says that an entry whose
  handler throws is not acknowledged; a failed *request* is answered with the
  error and acknowledged;
* the scan of a Redis `reset()` deletes the invalidation markers too, so a `del()`
  beside a reset may leave no trace for an update under way, which is then tried
  again; `StaleNotRetried` excepts it, and `packages/cache-manager/README.md:253`
  warns that a reset is no global snapshot;
* an edit of an env file between the first load and the start of the watchers is
  missed until the next one, and silently so when it falls before the first hash
  is taken (`load.ts:707`): an unchanged save does not bring it in either. A
  manual `reload()` does not move the watch baseline (`load.ts:640`), so a file
  that is edited, reloaded by hand and reverted within the debounce time leaves
  the edited values in force. `EditsNotMissed` is stated for edits under watch and
  contents that do not return. A listener that calls `reload()` on every
  notification keeps `applyReload()` in its loop for ever;
* `runCleanupCallbacks()` iterates a live array: a callback that unregisters
  itself makes it skip the next one.

## 4. Proofs

The eight proof modules are checked by tlapm to the last leaf (more than 17,000 obligations),
for every value of the constants that satisfies the assumptions named in the
modules. Those say of the code no more than it has: sets of nodes, keys,
services and workers are not empty, the values that stand for "none" are not
elements of the sets they are added to, bounds are natural numbers, the
dependency order of the platform is one. `RepliesAreSound` assumes `~BlankErrors`
as well, since `streams_blank_error` shows the property fails otherwise.

Every invariant, action property and refinement of a passing run is a theorem,
with the exceptions named at the end. The inductive invariants behind them are
definitions of the proof modules, in named parts:

* **DiContainer.** `ChainInv` adds to the type invariant the shape of a chain at
  each suspension point (`ChainOK`), that the cache holds no unused promise
  (`CachedStarted`), and that a pending promise is under construction in its
  creator's chain (`PendingOnStack`); types alone are not inductive because
  `Head` and `Tail` of a chain must be defined. Over it:
  * `NeverCircularWait`: only a visit that awaits a cached promise adds an edge
    to the wait relation. If it made a set S of calls wait in a circle, the new
    waiter `c` and the promise's creator would be in S. The search did not find
    `c`, so some set T of calls holds the creator, not `c`, and is closed under
    links; the members of S in T that have a chain had formed a circle before
    (`LinkWait`).
  * `SingletonsAreShared` by `SharedInv`: a promise in a chain is pending there
    for the frame's token, what the cache offers is pending or ok, and until an
    override or a dispose the cache keeps every promise that has not failed.
  * `NothingStaleOffered` and `CyclesAreReal` by `GraphInv`. A frame is anchored
    when the cache still holds its promise, so that its instance will be offered.
    Above such a frame the chain follows the dependencies of its token
    (`PathsSound`), which is exactly what an override invalidates
    (`OverrideSpares`): an override that leaves the entry alone leaves alone all
    that was injected above it. `ClosedCycle` follows a cycle across calls: the
    calls that construct something the token needs are closed under links.
  * `DependentsDestroyedFirst` by `SettledSound`: an instance completes before
    those it is injected into, and hooks run by decreasing completion time.
  * `DestroyedOnce` and `DisposedCompletely` by `DisposalInv`: the state of the
    stale task says whether the hook has completed (`DestroyedSound`), queued and
    retained hooks have not (`HooksSound`), the drain settles and delivers all
    (`LedgerSound`), and every instance that `dispose()` found is still to be
    collected, collected, retained or destroyed (`CoveredSound`), late and evicted ones
    aside: until `dispose()` the cache keeps what is neither failed nor replaced (`KeptSound`).
  * `FailuresDeliveredOnce` by `BlameSound`: what a call throws is consumed.
* **Application.** `AppInv` has one named part per concern: `ShellOK` (promise,
  flags and public state agree), `StartupOver` (past its wait, startup is over
  for good), `PhasesOK`, `ChildOK`, `ConnectedOK`, `StarterOK`. From it follow
  `ClosedIsDown`, `TeardownIsSound`, `RollbackIsComplete`, and the refinements
  `AppImplementsShell` and `ChildImplementsShell`: initial states map to initial
  states and every step to a step of `LifecycleShell` or a stutter.
* **PlatformShell.** `ShellInv`: one owner (`OneOwner`), what runs between
  transitions (`FieldsOK`) and what runs during one, as its locals record it
  (`TransitionOK`). The lists of components to be stopped are `Sorted` by the
  dependency order, which carries `StopsAreSound` through failed rollbacks and
  retries. `ShellIsSound` collects what follows.
* **PlatformOrder.** `OrderInv`: the stack is a path of unfinished components,
  each frame at the dependency the next one visits (`StackOK`), and the finished
  ones are listed after their dependencies (`OrderedOK`, `RootOK`). It yields
  `OrderIsSound` for every registration list.
* **Cron.** `LeaseInv` gives `LeasesAreSafe` and the refinement
  `SchedulerImplementsLease`, for any number of nodes and ticks. A lease that was
  granted and has not run out holds the key (`GrantsSound`), and only leases
  whose task is over are released, whenever the release arrives
  (`ReleasesSound`, `AnswersSound`); so no two tasks run within their leases.
  `BooksSound` counts the running tasks of a node. `RegistryInv` gives
  `SchedulesAreKept` and `TicksAreCurrent`: a task is busy with its one tick
  (`BusySound`), only the registered task has handles (`TasksSound`), and a
  handle is a job that runs, a timer that is set or the one that began the tick
  (`HandlesSound`).
* **Cache.** `ServiceInv` (operations: `OpsSound`, `ExclusiveAlone`,
  `TeardownSound`; loads: `GenerationsSound`, `LoadsSound`, `ResetOrder`,
  `StampsSound`, `StaleSound`) gives `ResetsFinal`, `Coalesced` and
  `StaleIsTransient`: a load writes only for its own generation, is ordered
  before a reset of an older one, and a deletion it missed is one it will notice
  after the write, unless `unsure` or `abandoned` says why not. `UpdateInv` (queues: `LineSound`, `TailSound`, `ClosesSound`;
  values: `EntrySound`, `MetSound`) gives `MemoryImplementsCell`: only the head of
  the store's queue runs its reducer, so its snapshot is still the entry when it
  commits. `DistInv` gives `RedisImplementsCell`: what an attempt read is what the
  key holds unless EXEC will refuse it (`WatchSound`, `FencedSound`), across
  resets whose scan is under way (`MarksSound`, `ScanSound`). `CacheIsSafe`,
  `UpdatesAreAtomic` and `InvalidatedUpdatesGiveUp` put them together.
* **Messaging.** Bus: `BusInv`, the tracked set is the work under way (`Tracked`)
  and a stopping bus admits none (`StopSound`). Queue: `QueueInv`, one start runs
  at a time and either the service or the shutdown waits for it (`StartsSound`),
  registered instances are open (`RegisteredSound`), and whoever closes reaches
  every worker that runs (`WorkersKnown`). Microservice: `ServiceInv`, loops run
  only while the node listens and what is acknowledged was answered or handled
  (`LoopsSound`, `PeersSound`, `AnswersSound`), and a frame that reads as a result
  answers a handled request (`FramesSound`, `CallsSound`).
* **Configuration.** `ConfigInv`: outside the notification of the listeners the
  service shows what was committed last (`CommitSound`), an edit is in force,
  noticed or hashed as seen (`EditsSound`), and a queued reload is served or still
  to come (`QueueSound`).

* **Sagas.** Each step is of one of a few kinds (`StepKinds`), described field by
  field, so that the invariants are proved for the kinds. `BaseOK` holds the
  types, what contexts refer to (`PubContextOK`, `RunContextOK`) and who drains
  (`DrainsOK`). `OrderOK` gives `SagasHandledInOrder`: the chain of a token ends in
  its last execution or all of them are handled (`ChainsOK`), no execution of the
  token lies between one and its predecessor (`PrevOK`), and one that has started
  found the earlier ones handled (`TurnOK`, `StartedOK`). `WorkOK` gives
  `OuterPublishWaits` and the sagas' part of `ShutdownLeavesNothing`: what is
  resolved is handed over or left to the continuation of its scope (`PubsOK`), each
  execution is the task of its event and awaits what it published (`RunsOK`), and
  an execution that owns a scope ends after all of it (`ScopesOK`). For the last,
  the first execution of the scope that is not done would be the task of a
  publication which an earlier execution has awaited (`ScopeEnds`). `LifeOK` says
  what a drain that was not cut short leaves, and `ReleasedHolds` that the graphs
  are forgotten as soon as they may be, and not before (`ForgettableGrows`).

Only model-checked: the liveness properties `ResolveSettles`, `DisposalSettles`,
`ShellSettles`, `ServicesEnd`, `CallsEnd`, `PublicationsSettle`, `ShutdownsEnd` and
`SendSettles`, which rest on fairness and `ENABLED` and are beyond the prover.

## 5. Plan

Next, in this order:

1. Active transactions of `persistence` and connections of the gateways against
   shutdown.
2. Request scopes over the container.

## 6. Not modelled

`PROJECT.json` gives the reason for each component. In short: the HTTP pipeline,
decorators and metadata, validation, serialization, OpenAPI, GraphQL, the CLI,
studio, React and the tooling are sequential transformations, most of the
repository's lines among them, in which no order of steps can go wrong; platform
adapters, delivery packages and the other transports bind external software; the
bootstrap runs its phases one after the other in one call; token rotation and the
throttler take their decisions in one call over a store that is not theirs. The
components named in the plan have interleavings of their own and come next.
