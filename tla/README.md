# agentic-paasd in TLA+

A verification project for the control plane in this repository: one Go process
(`cmd/ah`) that deploys tenants' services and databases as Docker containers,
keeps its records in SQLite, and repairs the difference between the two with
two background loops. In front of it stand the HTTP middleware and the tenant and
key handlers. The modules model what the code does, the TLC runs check
it on small instances, and the proof modules prove nearly all of the safety
properties, and the refinement, for every value of the constants.

Paths below are relative to the repository root (`internal/...`, `cmd/...`).

## 1. The system

| Component | State it keeps | Operations | Talks to |
|---|---|---|---|
| Service manager (`internal/services`) | `services` rows; per manager a deploy queue and a semaphore | Create, Deploy, DeployImage, Stop, Start, Restart, Delete, ResetCircuitBreaker, StopAllForTenant, environment variables | SQLite, Docker |
| Reconciler (`internal/reconciler`) | locals of one tick | steps 1 (crashed), 1a (unhealthy), 1b (circuit recovery), 2 (stale deploys), 3 (lost databases), 4 (split-brain, logged only) | SQLite, Docker |
| Garbage collector (`internal/gc`) | locals of one tick | containers, volumes, build directories, dangling images | SQLite, Docker, file system |
| Database manager (`internal/databases`) | `databases` rows with a partial unique index on the port | Create, Delete, ReconcileStale, List, GetConnectionString | SQLite, Docker |
| Build manager and builder (`internal/builds`, `internal/builder`) | `builds` rows, queue, slots, tenant lock, tracked systemd units, log subscribers | StartBuild, runBuild, CancelBuild, reconcileStaleBuilds, log streaming | SQLite, systemd, service manager |
| Docker client (`internal/docker`) | none of its own | create, start, stop, remove, inspect, list, volumes, networks | Docker engine |
| API (`internal/api`, `internal/middleware`) | `tenants` and `api_keys` rows; in memory the auth cache, the idempotency store, the registration limiter and token buckets, each with a sweeper | authentication, idempotent replay, registration, key creation and revocation, tenant deletion, the handlers of the managers | SQLite, all managers |
| Process (`cmd/ah`) | flags, background loops | start, shutdown | all of the above |
| Backup command (`cmd/ah/backup.go`) | the files of the backups directory | snapshot of two databases, retention | SQLite, file system |
| Schema (`internal/db`) | migrations | migrate | SQLite |

Nothing serialises these processes. A handler, a deploy goroutine and the two
loops each run a sequence of single SQL statements and Docker calls, and
anything may happen between two of them. What makes this hard:

* a row read before a slow call (a pull, an inspection, a health wait) and used
  after it;
* Docker and SQLite changed by separate steps, with a failure, an expired
  context or a restart in between;
* errors that are only logged, after which the caller goes on;
* decisions by age (a deploy is stale, a container is old enough) while the
  goroutine they are about may still be at work;
* lists taken once and worked off later (both loops, the tenant suspension, the
  subscribers of a build log);
* maps with a TTL and a capacity that are read in one critical section and
  written in another, with a database statement or a whole handler in between
  (auth cache, idempotency store).

## 2. The modules

| Module | Models | Composed by |
|---|---|---|
| `PaasState` | the `services` and `tenants` tables, Docker's containers, the clock; every SQL statement and Docker call as one operator | the three below |
| `ServiceManager` | deploy goroutines (`worker`) and request handlers (`client`) | `Platform` |
| `Reconciler` | steps 1, 1a, 1b, 2 of a tick (`rec`) | `Platform` |
| `GarbageCollector` | the service containers of a collection (`gc`) | `Platform` |
| `Hosting` | abstract specification: what the control plane promises of a service | instantiated by `Platform` |
| `Platform` | the composition, restarts of the process, fairness, properties, the mapping to `Hosting` | `MCPlatform`, `MCScenarios`, `Platform_proofs` |
| `CircuitBreaker` | the crash-window columns and the statements on them | `MCCircuitBreaker` |
| `Databases` | provisioning, Delete, startup pass, step 3, database containers and volumes | `MCDatabases` |
| `Builds` | builds, cancellation, startup pass | `MCBuilds` |
| `BuildLogs` | the log of one build: appenders, subscribers, size limit, followers | `MCBuildLogs` |
| `ApiState` | `tenants`, `api_keys`, auth cache, idempotency store, registration limiter; every statement and critical section as one operator | `Api` |
| `Api` | requests through authentication, idempotency and the tenant and key handlers, sweepers, restarts | `MCApi` |
| `Backup` | the backup command and its retention | |
| `Platform_proofs` | inductive invariant and theorems of the service side | `Platform_refinement` |
| `Platform_refinement` | `Platform` implements `Hosting`, and what that gives | `Platform_splitbrain` |
| `Platform_splitbrain` | split-brain needs a failure, an expiry or a suspension | |
| `CircuitBreaker_proofs`, `Databases_proofs`, `Builds_proofs`, `BuildLogs_proofs`, `Api_proofs` | inductive invariant and theorems of the component | |

### State and steps

Every process is a record with a program counter `pc` and the locals that
survive from one step to the next. One action is one SQL statement or one
Docker call together with the branch taken on its result, so the interleavings
of the model are those of the code. The labels follow the code:

* a deploy (`Deploy`, `deploy_image.go`): `check` tenant active, `queue`, `sem`,
  `read` the row, `mark` it deploying, `pull` (Deploy) or `net`, `image`
  (DeployImage), `reread`, `clean` the old container, `create`, `start`,
  `commit`, `undo`; `rejected` and `failing` write `failed`. The ten-minute
  context is `Live(w)`: past the deadline every call fails without effect, which
  is the single action `DeployExpires`.
* handlers: `check`, `count`, `insert` (Create); `read`, `stop`, `start`,
  `remove`, `byname`, `write`, `delete`, `reset` in the order of their code;
  `suspend`, `labels`, `purge`, `rows`, `settle` for `StopAllForTenant`.
* `Reconciler` keeps the list of container ids and of running rows it took at
  the start of the tick, as the code does, and visits them one by one.
* `GarbageCollector` decides for every listed container first and removes the
  batch afterwards.

A row has the status, the container id, `updated_at` and the two circuit
columns the control flow reads. `"absent"` and `"deleted"` tell a row not yet
inserted from one that is gone; ids are random and never reused. A container has
the service of its name and labels, its state, whether it was stopped by a call
(which switches `unless-stopped` off), its health and its creation time.

`Fault` is one failure of the environment: a Docker or SQLite error, a container
that exits or turns unhealthy, an abandoned request, an aborted tick, a restart
of the process. `MaxFaults` bounds how many a behaviour has.

`mark` in a worker, `cancelled` in `Builds` and `log` in `CircuitBreaker` are
history: no guard reads them.

`CircuitBreaker` keeps the columns that `Platform` leaves out. The two agree on
the one fact `Platform` needs, that no tick opens a circuit (section 6); rows
with an open circuit therefore come from the initial state, as rows an earlier
release or an operator left (`LegacyRow`).

`Databases` identifies a database with its one volume and its one container,
since an id belongs to one `Create`. `row[d].container` says whether
`container_id` is still NULL, which two scans cannot read.

`Builds` has the three tracked phases of a build (clone, nixpacks, push). A unit
is in `procMap` only while a phase runs, so a cancellation finds one at `"unit"`
and none at `"between"`. `owner` is `builds.tenant_id`.

`BuildLogs` looks at one build from its log's side. `stage` is where `runBuild`
is, `proc` what each goroutine that calls `appendLog` is doing: `runBuild` itself,
the `streamLines` goroutines, which nobody waits for, and `CancelBuild`. One line
goes through `CapLine` (the size under `logMu`), `StoreLine` (the UPDATE),
`CopySubs` (the subscriber list under `logMu`) and one `SendLine` per channel.
`closeLogSubs` is `DetachSubs` and one `CloseSubs` per channel. A send on a closed
channel or a second close sets `panic`, after which nothing moves.

`Api` follows a request: `auth` and `fill` (cache miss: the row is read in one
step and cached in the next), `idem`, `handle`, `save` (the idempotency
middleware around any other handler), `count`, `insert` (handleKeyCreate),
`revoke`, `evict` (handleKeyRevoke), `suspend`, `evictAll` (handleTenantDelete,
whose StopAllForTenant is in `ServiceManager`), `allow`, `tenants`, `create`
(handleTenantRegister). A mark is method, URI and Idempotency-Key together.
`raced`, `allowed` and the `due` of a request are history; `allowed` is kept over
restarts, with the process that allowed each registration. The token is checked
outside the model, and the token buckets are a refusal that may happen (`Admit`).
A behaviour starts with any registered tenants and issued keys that are within
the limits.

`Backup` runs follow one another; a name is its kind, its time and its suffix, and
`NameBefore` is the order of `sort.Strings` on such names.

### The abstract specification

`Hosting` states what a client of the service side may rely on without knowing of
rows, deploys, ticks and requests: a service has at most one container at a time,
a container is made for one service and never handed to another, a record names
only containers of its own service and names one whenever it says running, and a
deleted record never comes back. It deliberately does not promise that a recorded
container still exists. `Platform!Host` instantiates it with the mapping

| `Hosting` | `Platform` |
|---|---|
| `state[s]` | `absent` and `deleted` as they are, `running`, everything else `idle` |
| `recorded[s]` | `row[s].container` |
| `owner[c]` | the service label of the container |
| `existing` | the containers Docker has |

and `ImplementsHosting` is the temporal formula `Host!Spec`: every step of every
goroutine, handler and loop is one of `Register`, `Provide`, `Withdraw`, `Adopt`,
`Resume`, `Pause`, `Unregister` or changes nothing of this.

## 3. The runs

States and times are with two workers. Every cfg switches deadlock checking off:
the system may rest, when the clock has reached its bound and nobody sends
requests.

| Run | Instance | Properties |
|---|---|---|
| `services` | two scenarios of `MCScenarios`: (races) both kinds of deploy, Delete, collector, 2 deploys, 1 request, 3 containers, 3 instants, no fault; (requests) all handlers, 1 deploy, 2 containers, reconciler, 1 fault (1.2 M states, 130 s) | `TypeOK`, `CollectedIsGarbage`, `StaleIsDead`, `NoSplitBrain`, `RunningHasContainer`, `ImplementsHosting` |
| `circuits` | image deploys on a row with an open circuit, reconciler, 2 faults, fair (94 k, 10 s) | `CircuitRecovers` |
| `liveness` | Create, Delete, both loops, 1 fault, fair (355 k, 105 s) | `OrphansCollected`, `DeploySettles`, `GhostDetected` |
| `breaker` | one row, 7 instants, window of 2, 4 crashes (63 k, 1 s) | `TypeOK`, `CountIsCrashesInWindow` |
| `databases` | two databases, two ports, one Delete, both loops; delays and 2 faults in behaviours of one database, fair (385 k, 100 s) | `TypeOK`, `DeletedIsClean`, `CollectedBoxIsGarbage`, `RacingCreatesSucceed`, `ReadyVolumeKept`, `LostDatabaseDetected`, `LostContainerCollected` |
| `builds` | three builds of two tenants, one slot; a cancellation, a database error and a restart in behaviours of two builds, fair (491 k, 105 s) | `TypeOK`, `OneBuildPerTenant`, `FailedIsFinal`, `BuildsSettle` |
| `build_logs` | `runBuild`, a stream, a cancellation, a follower; a log of one line, channels of one, 1 fault, fair (973 k, 110 s) | `TypeOK`, `ClosedOnce`, `LogLimited`, `FollowerSeam`, `SubscribersReleased` |
| `api` | two requests in flight, three tenants of which two may be registered, three keys, capacities of one, three instants, a restart, four mixes of operations (384 k, 60 s) | `TypeOK`, `StaleEntryRaced`, `AnsweredNotRepeated`, `QuotaOvershoot`, `RegistrationBurst` |
| `suspend_race` | Create and Suspend, no fault | `SuspendStopsAll` is violated |
| `breaker_opens` | crashes of one row | `CrashLoopOpensCircuit` is violated |
| `build_cancel` | one build, one cancellation | `CancelledNotDeployed` is violated |
| `backup_retention` | four runs, four files kept | `OwnBackupKept` is violated |

What they show:

* `CollectedIsGarbage`: the collector takes its decision before the first
  removal and never repeats it. It is still right, because a container old
  enough for the age gate was created by a deploy whose context is over, so
  nobody can record it any more. The argument needs
  `DeployTimeout <= MinResourceAge`, two constants in two files.
* `StaleIsDead`: step 2 fails rows by age only. No deploy that wrote the
  `deploying` is then alive. It needs `DeployTimeout <= StaleAfter`.
* `NoSplitBrain`: two deploys of one service are kept apart only by Docker's
  unique container names. Without a failure, an expired context or a suspension
  this is enough; with a suspension it is not (its purge removes the name holder
  between two deploys and both commit).
* `RunningHasContainer`: step 1 selects `running` rows with a container id; a
  `running` row without one would never be looked at again.
* `OrphansCollected`, `DeploySettles`, `GhostDetected`, `CircuitRecovers`: what
  the loops are for, with ticks that abort and processes that die.
* `CountIsCrashesInWindow`: counter and window agree with the history of crashes
  for any order of crashes, resets and recoveries, at the boundary of the window
  included.
* `DeletedIsClean`, `ReadyVolumeKept`: Delete and the clean-ups of Create, of
  the startup pass and of the collector all act on the same container and
  volume; the order container, volume, row, and Docker's refusal to remove a
  volume in use, keep them from each other's resources.
* `RacingCreatesSucceed`: the port search is not protected; the unique index and
  the retries are. A Create runs out of attempts only when at least as many other
  Creates got their rows in as it had attempts, or as the range has ports.
* `FailedIsFinal`: a cancelled build's goroutine goes on for a while, and its
  final `UPDATE ... AND status = 'running'` must not undo the cancellation.
* `ImplementsHosting`: the promises above survive every interleaving, failure and
  restart; in particular no late status write brings a deleted record back.
* `ClosedOnce`: `runBuild` and `CancelBuild` both close the followers' channels,
  at any time of one another. Taking the list out of the map under the lock is
  what keeps a channel from being closed twice. (A send on a closed channel is
  another matter: section 6.)
* `LogLimited`: the limit is kept in memory and forgotten with `runBuild`; the
  stragglers get at most one more limit's worth.
* `FollowerSeam`: read-then-subscribe may lose lines, and shows at most one line
  of each writer twice, never two out of order.
* `SubscribersReleased`: no path out of a build at work leaves its follower
  waiting. (Followers that come too early or too late do wait: section 6.)
* `StaleEntryRaced`: a revoked key or a suspended tenant is let in by the cache in
  exactly two windows, the handler's own between its UPDATE and its eviction, and
  a lookup that read the row before and caches it after.
* `AnsweredNotRepeated`: a request that arrives while an answer to its mark is
  kept never runs the handler before that answer expires, with any body, whatever
  is stored, evicted for others or swept meanwhile.
* `QuotaOvershoot`, `RegistrationBurst`: how far the limits really go. Count and
  insert are separate statements, so a limit is exceeded by at most the requests
  in flight less one. Fixed windows kept in memory allow, in one window's time, the
  limit of the window it starts in and of one more for each process that allows
  something in it: twice the limit without a restart, three times with one. The
  history is kept over restarts, and an eviction, which forgets an address's own
  count, does not matter. In the run five registrations are allowed within one
  window's time around a restart, with a limit of two.

### Bounds, and why they are enough

`DeployTimeout`, `StaleAfter` and `MinResourceAge` are ten minutes in three
files. One instant of the model is one such span (half of one in `suspend_race`);
what counts is that events fall before, on and after each boundary, and at most
two instants after the last request (`LastStart`) every age condition has become
true. Two deploys and a request are the smallest instance in which a third party
can act between the two, three containers let both of them replace a first one.
One tenant is enough because no statement relates two tenants, except in
`Builds`, where two tenants share the slots. One fault reaches every error branch
once; two let the clean-up after a failure fail as well (`databases`,
`circuits`). Three builds are needed to see a refused build release somebody
else's lock to a third one. Symmetry is used for containers, deploys, requests,
services, keys, addresses and tenants, in runs without liveness only.

Some instances are kept small by bounding combinations rather than sizes.
`MCScenarios` lets a behaviour keep to one of two scenarios, each with its own
bounds on deploys, containers, faults and loops; the scenario is chosen at the
start and only removes behaviours. `Disturbed` in `Databases` and `Builds` names
the entities whose behaviours may have delays (in `Builds` cancellations), faults
and restarts; once another one is there too, none happens. `Mixes` in `Api` lists the kinds of requests
that occur together: revocation with deletion, idempotent requests, key creation
with deletion, registrations. Two requests in flight are enough for each of the
races of `Api`, because each pairs one reader with one writer, and a capacity of
one makes every insertion an eviction. A log of one line and channels of one make
both limits be reached by the second line.

### Fairness

`Platform!Fairness` and `Databases!FairSpec` assume that time passes, that Docker
applies its restart policy, and that the two loops go on: `main()` starts each
once with a ticker, and every tick has a context with a timeout. `Databases` also
assumes that the startup pass finishes (it runs before the server listens). No
request is assumed to be sent or to finish, and no deploy to make progress: the
liveness properties hold even when a deploy hangs until its deadline or dies
with the process. In `Builds`, `runBuild` is fair because each command and each
wait in it has a timeout. In `BuildLogs` the goroutines are fair, none of their
steps blocks, and a follower reads what it is sent; no command need print and no
follower need leave. Faults are bounded by `MaxFaults`, so the liveness
results are about a system whose environment fails finitely often.

## 4. The proofs

Every theorem holds for all sets of services, containers, deploys, requests,
tenants, keys, builds, writers and followers, all clocks, limits and timeouts
the assumptions admit, and any number of failures and restarts.

| Module | Theorem | Statement |
|---|---|---|
| `Platform_proofs` | `InductiveInvariant` | `Spec => []IInv` |
| | `TypeCorrect` | `Spec => []TypeOK` |
| | `RunningNamesContainer` | `Spec => []RunningHasContainer` |
| | `CollectorSafe` | `Spec => []CollectedIsGarbage` |
| | `StaleDeploysAreDead` | `Spec => []StaleIsDead` |
| `Platform_refinement` | `PlatformImplementsHosting` | `Spec => ImplementsHosting` |
| | `PromiseHolds` | `Spec => []Promise` |
| | `DeletionIsFinal` | `Spec => DeletedIsFinal` |
| `Platform_splitbrain` | `SplitBrainNeedsDisturbance` | `Spec => []NoSplitBrain` |
| `CircuitBreaker_proofs` | `BreakerInvariant`, `BreakerTypeCorrect` | `Spec => []IndInv`, `Spec => []TypeOK` |
| | `CountsTheWindow` | `Spec => []CountIsCrashesInWindow` |
| `Databases_proofs` | `DatabasesInvariant`, `DatabasesTypeCorrect` | `Spec => []IndInv`, `Spec => []TypeOK` |
| | `DeletedStaysClean` | `Spec => []DeletedIsClean` |
| | `CollectorTakesGarbage` | `Spec => []CollectedBoxIsGarbage` |
| | `ReadyDataKept` | `Spec => ReadyVolumeKept` |
| | `RacesSucceed` | `Spec => []RacingCreatesSucceed` |
| `Builds_proofs` | `BuildsInvariant`, `BuildsTypeCorrect` | `Spec => []IndInv`, `Spec => []TypeOK` |
| | `TenantsBuildOneAtATime` | `Spec => []OneBuildPerTenant` |
| | `FailuresAreFinal` | `Spec => FailedIsFinal` |
| `BuildLogs_proofs` | `BuildLogsInvariant`, `BuildLogsTypeCorrect` | `Spec => []IndInv`, `Spec => []TypeOK` |
| | `ChannelsCloseOnce` | `Spec => []ClosedOnce` |
| | `LogStaysLimited` | `Spec => []LogLimited` |
| | `FollowersSeeOrder` | `Spec => []FollowerSeam` |
| `Api_proofs` | `ApiInvariant`, `ApiTypeCorrect` | `Spec => []IndInv`, `Spec => []TypeOK` |
| | `StaleEntriesRaced` | `Spec => []StaleEntryRaced` |
| | `AnswersNotRepeated` | `Spec => []AnsweredNotRepeated` |
| | `LimitsOvershoot` | `Spec => []QuotaOvershoot` |
| | `RegistrationBursts` | `Spec => []RegistrationBurst` |

Assumptions, besides the types of the constants: requests come from the known
operations (`OpsAssumption`); a deploy lives no longer than the age gate and the
stale cutoff (`TimingAssumption`), and a request that creates a database no longer
than the age gate (`DatabasesAssumption`), all true in the code; there are finitely
many databases, ports, followers, tenants, keys and requests at a time, where
something is counted; at least one request can be in flight (`MixesAssumption`).

All the inductive invariants were checked by TLC on the runs' instances before they
were proved. Every proof has the same shape: what a step keeps of the parts it
does not touch, one lemma per action, one for `Next`, and the temporal theorem.

### The service side

None of the properties is inductive. `IInv` adds to them:

* `WorkerOK(w)`: a deploy at work has a service and started in the past; from
  `start` to `undo` it holds a container that exists or existed and was created
  not before the deploy started; a deploy that wrote `deploying` did not start
  after its row's `updated_at`.
* `ClientOK(k)`: `running` is only about to be written by Start and Restart, and
  a handler past the "no container" check acts on a row that, while it exists,
  names a container.
* `ReconcilerOK`: a tick about to mark or stop has picked a service.
* `CollectorOK`: the cutoff is in the past, and every container of the batch is
  named by no row and was created `MinResourceAge` ago or earlier.
* `RunningHasContainer`.

The heart of `CollectorSafe` is arithmetic: a container of the batch has
`createdAt + MinResourceAge <= now`, the deploy that could still record it has
`start <= createdAt`, and `DeployTimeout <= MinResourceAge`, so `start +
DeployTimeout <= now` and the context of that deploy is over. A row comes to name
a container only by the commit of a live deploy, so the batch stays unreferenced.
The proof first shows what every step keeps of the shared state (`Kept`,
`RowsKept`, `BoxesKept`: ages do not change, `updated_at` never goes back, a row
keeps a container once it has one) and that this preserves the parts of the
processes the step leaves alone; then there is one lemma per action.

### The refinement

`RInv` says that a container nobody has created has no owner, that a row not yet
inserted is blank, and that a deploy that holds a container holds one made for the
service it deploys, which has been inserted (`Aimed`). Under `IInv` and `RInv`
each action is shown to be one named step of `Hosting` or to leave `state`,
`recorded`, `owner` and `existing` alone: the commit of a deploy is `Adopt`,
Docker's `create` is `Provide`, which takes Docker's refusal of a name in use, and
so on. A batch of removals is one `Withdraw` each, because the model removes one
container per step. `PromiseHolds` then reads off the consequences for the
platform itself: at any time a service has at most one container, and a row names
only containers of its own service; `DeletionIsFinal` is the action property that
no late write revives a deleted row.

### Split-brain

`NoSplitBrain` speaks of quiet states only; what carries it there is `SInv`, for
every state in which nothing has failed and no deploy can have expired:

* `Apart`: what somebody has read from a row and may still remove (a deploy about
  to clean up, a request, a tick: `Old`) is never what a deploy is building, and
  no two deploys build the same container;
* `Owned`, `UndoGone`, `Suspended`: a created container belongs to an inserted
  service, a deploy undoes itself only where the row is gone, a suspension works
  on a suspended tenant;
* `Whole(s)`: unless the service is lost (its row gone or its DELETE the next
  statement, or its tenant suspended), what is being built for it exists and what
  exists for it is recorded or being built.

Two steps change what is built: the creation takes an unused id, which nobody can
have read, and the commit records the one container of the service, which is where
`PromiseHolds` (Docker's unique names) is used. Every other step is shown to be
`Calm`: it reads containers only from rows, removes only what it read or what
belongs to a lost service, and starts or ends no building; one lemma
(`CalmCloses`) takes all of these. The collector has no batch yet, by its age gate.

### The other components

* `CircuitBreaker`: the counter is the number of recorded crashes in the window
  (`CountFits`); it stays so because no recorded crash lies behind the end of the
  current window (`HistoryFits`), so that a new window starts with one crash.
* `Databases`: `CreateFits` relates a row, container and volume to where their
  `Create` is. A container id is recorded, and a row deleted, only when `Create`
  will make nothing any more, so what Delete removes stays removed. `GcFits` is the
  age argument of the service side, for containers, and for volumes the fact that
  a volume listed without a row belongs to a `Create` that is past its insert.
  `BootFits`: the startup pass has the process to itself. For the race for ports,
  `CalmInv` holds while nothing has failed and no time has passed: `Stage` says
  where row and container are for every step of a `Create`, `PortsUnique` is the
  unique index, and `Tries` counts. Every port a `Create` has lost, or holds in hand
  while another row has it, went to a different row that was inserted meanwhile
  (`Rivals`), so the attempts used never exceed the rivals, and a search that finds
  no port has as many rivals as there are ports. A container leaves only with a
  Delete that has the row removed or will (`Doomed`), so that a `Create` past its
  insert fails only where the database was deleted. The property is a statement
  about states in which no Delete is at work; `Doomed` is what it becomes while
  one is.
* `Builds`: a running build has its tenant's entry in `tenantBuilds`
  (`BuildingHoldsTenant`), so a second one is refused; a row exists exactly from
  the insert of its `StartBuild` on, with its tenant (`RowsMatchRuns`), and a
  cancellation names such a row (`CancelsNameRows`).
* `BuildLogs`: a channel is in the map or in exactly one detached list while it is
  open, and in neither once it is closed (`ChanFits`); the counter covers the
  stored lines and those about to be stored (`SizeFits`); a follower's table, its
  received and its buffered lines are each in the writer's order, each line once,
  and overlap in one line at most (`SeamFits`).
* `Api`: an entry that lets in a key that is no longer good has an eviction to
  come or raced one (`StaleFits`, and `FillFits` for what is read and not yet
  cached); a promised answer is kept until it runs out (`DueFits`); the excess over
  a limit is bounded by the requests between count and insert, by counting both
  sets (`QuotaOvershoot` is inductive with the types). That proof
  needs a start within the limit; an initial state over it had been admitted.
  For `RegistrationBurst`, `WindowFits` says that the count covers what the process
  has allowed in the current window, that what it allowed in the `RegWindow` before
  fits one limit too, and that the history without the current window fits the
  bound as well. A window is only replaced after its end, so a stretch of
  `RegWindow` into which a new attempt falls meets either earlier windows of the
  same process, which fit one limit, or those of earlier processes, for which the
  bound holds with one process less. An eviction changes an address's entry and
  never the count of all addresses.

### Only model-checked

* All liveness: `CircuitRecovers`, `OrphansCollected`, `DeploySettles`,
  `GhostDetected`, `LostDatabaseDetected`, `LostContainerCollected`,
  `BuildsSettle`, `SubscribersReleased` (fairness is outside this prover's reach).

Every invariant and every safety action property of the passing runs, and the
refinement, are proved. The properties of the four runs that end in a violation are
false of the code and have nothing to prove.

## 5. Abstractions

* Images, ports of services, environment variables, names and messages are left
  out; a disk check, a network call or a pull is a call that may fail.
* Stop and removal of one container are one step where the code ignores both
  errors; the intermediate outcome (stopped, not removed) is one of its results.
* The collector's list and its cutoff are taken in one step: a container created
  between the two is too young for the cutoff, one removed between them is
  skipped at its inspection.
* A handler whose request context ends simply stops (`RequestCancelled`): every
  later call of it fails. The status of the tenant is not looked at again after
  the middleware, except where the code does.
* Log lines have one size, and a log is its sequence of lines. In `BuildLogs` the
  build's phases are just its lines; in `Builds` a build has no log.
* A cached key that has expired is found and dropped in one step, where the code
  takes the lock twice; what is cached between the two is dropped with it.
* `last_used_at` is not kept: nothing reads it.
* `builds` rows cascade-deleted with their service, and systemd units that
  survive a restart of the process, are not modelled.

## 6. Where the code and the documents disagree

With a run each:

* `breaker_opens`: the statement that should open a circuit has seven
  placeholders and is given eight arguments (`internal/reconciler/reconciler.go`
  207, and again in step 1a). The driver binds the first seven in order, the row
  id is compared with a time, no row matches, and no circuit ever opens.
* `suspend_race`: a deploy that passed its tenant check before the suspension
  goes on and leaves a container running under a suspended tenant.
* `build_cancel`: a build cancelled while it tracks no unit is answered
  "cancelled", goes on, and is deployed.
* `backup_retention`: retention sorts the names of both kinds together
  (`cmd/ah/backup.go` 69), and `ah-2...` comes before `ah-metering-...`. With ten
  files kept, state backups are pruned while older metering ones stay, and from the
  tenth run on every run deletes the state backup it has just made (`README.md`
  300: "Keeps last 10 backups").

Met while modelling, seen in the model, without a run of their own:

* `internal/services/services.go` 488: a deploy may create its container between
  Delete's clean-up by name and its DELETE; if it expires before its undo, the
  container outlives the service until the collector finds it
  (`OrphansCollected`).
* `internal/reconciler/reconciler.go` 184: the UPDATE to `crashed` does not
  repeat `status = 'running'`, so a service stopped or redeployed after the list
  was read becomes `crashed`.
* `internal/reconciler/reconciler.go` 225: "Stopping the container allows the
  RestartPolicy to restart it": a stop by call switches `unless-stopped` off, and
  nothing restarts a crashed row.
* `internal/reconciler/reconciler.go` 316: a recovered circuit leaves the row
  `stopped`, and no tick looks at stopped rows, although
  `docs/implementation/self-healer-2026-03-10.md` 46 has the next tick restart it.
* `internal/services/services.go` 764: reset removes the container and keeps its
  id, so the `/start` that `AGENT_RUNBOOK.md` 699 asks for has nothing to start.
* `internal/services/services.go` 523-534: the suspension removes containers by
  label first; the second pass then takes "not found" for a failed clean-up and
  writes `failed`.
* `internal/services/services.go` 46: the "global" deploy limit is per manager,
  and `cmd/ah/main.go` builds a second manager for builds.
* `internal/services/services.go` 186, `internal/databases/databases.go` 145: the
  quotas are counted before, not together with, the insert.
* `internal/databases/databases.go` 84: the startup pass scans `container_id`
  into a string; a row interrupted before line 228 has NULL there and stays
  `provisioning`.
* `internal/services/services.go` 285: a deploy whose context ends in the queue
  leaves its row `created`.
* `internal/builds/builds.go` 309: the subscriber list is copied and used after the
  unlock, so a stream or `runBuild` itself may send on a channel that `CancelBuild`
  or `runBuild` has closed; the panic in a goroutine ends the process. `BuildLogs`
  reaches it (`panic = "send"`).
* `internal/builds/builds.go` 442: the UPDATE of a cancellation that read the build
  as running is not conditional; a build that succeeded in between, and may be
  deployed, ends up `failed`.
* `internal/builds/builds.go` 408: a follower that subscribes after the list was
  taken, or to a build that is cancelled before it starts and whose cancellation
  closed the list already, is never let go and its entry in `logSubs` stays; a
  follower that left stays subscribed until the build closes its channel. Lines
  written between the read and the subscription are lost to the follower, lines
  over the limit are streamed and not stored.
* `internal/builds/builds.go` 293: a straggler's or a late cancellation's line
  creates the `logSizes` entry again, and nobody deletes it.
* `internal/middleware/auth.go` 244: `docs/implementation/build-log.md` 176 has
  "revocation latency under 30s" and `internal/api/auth.go` 173,
  `internal/api/tenants.go` 368 "takes effect immediately"; a lookup that races the
  revocation caches the key after the eviction, for a whole TTL from then.
* `internal/middleware/idempotency.go` 184: two requests with one key that overlap
  both miss the store and both run, where `AGENT_RUNBOOK.md` 383 says the second
  "returns the original response without starting a new build"; and POST
  /v1/databases is outside the group that has the middleware
  (`internal/api/server.go` 152-157), where `AGENT_RUNBOOK.md` 410 says it is
  deduplicated. A tenant with 50 stored answers, expired ones included, gets no
  further one until the sweeper runs.
* `internal/api/server.go` 142, 152: "no 30s timeout" for build logs and database
  creation; the timeout is on the root router and applies to both.
* `internal/api/tenants.go` 105: at capacity an entry is evicted even for an
  address that has one, which may be that address's own count. The windows are
  fixed and kept in memory (68), so "20 per hour" and "5 per hour" of
  `AGENT_RUNBOOK.md` 712-713 are exceeded at the boundary of two windows and
  again by a restart, which starts with empty counts (`RegistrationBurst` bounds
  what is left for all addresses together).
* `internal/api/tenants.go` 198, `internal/api/auth.go` 63: tenants and keys are
  counted before the insert (`QuotaOvershoot` bounds the excess).
* Numbers and wording: the retry backoff is always the first step (30 minutes)
  where `CHANGELOG.md` 15 has three; the reconciler runs every 30 seconds
  (`cmd/ah/main.go` 178), documented as 60 (`README.md` 290); ten queued builds
  (`internal/builds/builds.go` 68), documented as 20; idempotency covers POST and
  PUT, documented with DELETE (`README.md` 313, `AGENT_RUNBOOK.md` 718); the label `ah.tenant` is said to
  be on database containers (`internal/reconciler/reconciler.go` 90) and is not
  (`internal/docker/client.go` 463).

## 7. Not modelled, and the plan

Out of scope: encryption and key derivation (no state, out of TLC's reach),
response formatting and header checks, the health endpoint (reads only), `statfs`
thresholds, test doubles. Token buckets are a library's. Migrations run once, each
in its own transaction, before anything else of the process. Build directories and
dangling images are files the collector removes by name and age; nothing modelled
reads them. Environment variables, a tenant's name and `last_used_at` are columns
no guard of the modelled operations reads. The order in which the images of two
builds of a service are deployed (`internal/builds/builds.go` 242: the tenant lock
is released before the deploy) would need image versions in `PaasState` and in its
invariants.

No invariant of the runs is left to prove. The liveness properties stay with TLC.
