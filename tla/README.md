# A verification project for asab

TLA+ models of asab, the microservice framework of TeskaLabs, the TLC configurations that check them
on small instances, and proofs that the TLA+ proof system checks for instances of any size. The models are of the code
under `src/asab`; the line numbers below, in the comments of the modules and in `PROJECT.json` are of the same commit.

- [The system](#the-system): its parts, their state and operations, what is hard about them and what makes them correct.
- [The modules](#the-modules): which module models what, and how its state and actions correspond to the code.
- [The runs](#the-runs): what TLC checks, the bounds, the fairness.
- [What is proved](#what-is-proved), and what is only model-checked.
- [Where code and documentation disagree](#where-code-and-documentation-disagree).
- [Not modelled](#not-modelled).

To check a run: `tlc -workers 2 -config Runtime.cfg Runtime.tla`; to check the proofs of a module:
`tlapm LeaderElectionProofs.tla`.

## The system

An asab application is one process with one asyncio event loop. `Application` takes it through init-time, run-time and
exit-time; `Module`s and `Service`s register with it; `PubSub` carries messages between them synchronously, and
`TaskService` runs coroutines that nobody awaits. Blocking calls go to the thread pool of `ProactorService`. Two more
kinds of threads call back: those of kazoo, the ZooKeeper client, and those of applications, which log. So there are
four sources of interleaving, and most of what is hard in this code comes from them:

1. *awaits*: whatever a coroutine has read before an `await` may have changed after it;
2. *threads*, which share fields of services with the loop, often without a lock;
3. *ZooKeeper*: a connection is suspended, resumed or lost with its session, calls fail although they took effect, and
   watches are silent while the connection is broken;
4. *other processes*: instances of the same application, editors of the library, authorization servers, mirrors, and
   crashes that leave files on the disk as they are.

| Component | State | Operations | What is hard | What makes it correct |
|---|---|---|---|---|
| Leader election (`zookeeper/leader_svc.py`) | the claim `_leader_zxid`, `_participating`, `_election_key`, the ephemeral znode | ticks, connection events, watch, `StepDown()`, `SetUp()` | three parties act on the claim: threads under a lock, the loop without it, the server | nobody shares a claim; a connected leader holds the znode; who resigned never claims; somebody leads in the end |
| Advertisement (`zookeeper/container.py`) | data, version and path of each advertisement, `AdvertismentsLock` | `advertise()`, tick/300, connection events, publication in a thread | the main loop changes data while a thread publishes it | no publication writes older data; all is published in the end |
| PubSub (`pubsub.py`) | lists of weak references by message type | `subscribe()`, `unsubscribe()`, `publish()` | lists change while publications, which nest, walk them | nobody is called after `unsubscribe()`; misses are bounded |
| Task service (`task.py`) | `NewTasks`, `PendingTasks`, the main task | `schedule()`, the main task, its restart, `finalize()` | the main task dies in any step; `finalize()` meets its restart | no task runs unseen; each is started and reported once; none runs after `finalize()` |
| Application (`application.py`) | queues of modules and services, stop event, exit code, schedule of housekeeping | `run()`, `stop()`, `restart()`, `set_exit_code()`, registration | calls come in any phase; registration meets the governors; the machine sleeps | what is registered is initialized, in the end finalized in reverse; a stop stops; housekeeping once a day |
| Configuration (`config.py`) | options, files that were included | `_load()`, `_traverse_includes()` | files include each other, and nodes of ZooKeeper | each file that is named is read once |
| Timer, alerts (`timer.py`, `alert.py`) | a task; a queue and a main task | start, stop, restart; trigger, finalize | a job starts its successor before its handler ends; a failed main task is replaced by a callback | one job may call the handler and `stop()` reaches it; every alert is taken |
| Metrics (`metrics/`) | metrics, the storage of their fields | create, update, delete, flush, expiration | series share keys; fields expire; the flush swaps what is counted | what a flush exports is what was counted in its interval |
| Logging (`log.py`, `api/log.py`) | the queue and socket of the syslog handler; the buffer and web sockets of the log API | `emit()` in any thread, `_on_write()`, streams | threads against the loop; lists and sets change across awaits | no record vanishes or overtakes; a stream misses only what is accounted for |
| Discovery (`api/discovery.py`) | the cache of what is advertised | scans, watch, `locate()`, `discover()`, sessions, resolver | updates are applied while a scan reads | the cache has nothing wrong when all is applied, and agrees with the cluster in the end |
| Internal authorization (`api/internal_auth.py`) | the shared key, the token | ticks, connection events, creation of the key | several services create the key at once; connections break in between | a service signs with what it trusts; all agree in the end; tokens are renewed in time |
| Authentication, authorization (`web/auth/`) | public keys, kept authorizations, the request's context | authenticate, wrappers, `require_…`/`has_…` | keys are replaced under way; wrappers are installed in any order | who is served is entitled, who is entitled is served |
| Tenants (`web/tenant/`) | a list per provider, readiness | update, `is_tenant_known()`, wrapper | readings overlap and are resumed in any order | a known tenant is found; what is announced is so |
| Library (`library/service.py`) | layers, readiness, disabled items, favorites, subscriptions | open, list, find, export, metadata, subscribe, readiness | reads of the lists overlap; layers and scopes merge | changes of readiness are announced; what is listed is what is opened |
| Library providers (`library/providers/`) | digests, counter, repository, archive, watches, cache | pull, synchronize, watch, digest, download | content changes while it is looked at; crashes between two steps | a subscriber learns of every change; nothing torn is served |
| Storage (`storage/`) | objects with versions | get, upsertor, delete, bulk writes, encryption | components read, compute and write at once | a version that was read is a soft lock |

The components interact by messages (`Application.tick…!`, `Application.stop!`, `ZooKeeperContainer.state/…!`,
`Library.ready!`, `Library.change!`, `Tenants.ready!`, `LeaderService.state/…!`), by tasks they schedule in `TaskService`, by
calls they give to `ProactorService`, and by znodes. Where a message comes late, a task is started after others, or a
call ends at any later moment, the model of the component has it so; it has no model of the whole of `TaskService` in it.

`PROJECT.json` lists the hazards of the code, each at its line, with the properties that would catch it.

## The modules

An action is what one party does between two points at which another may interleave: the code between two awaits on the
loop, or between two calls of a thread. Environment actions (ZooKeeper, MongoDB, the network, editors) are external and
say what the code has to expect from them. Data are abstracted to what the properties tell apart; the number of a call
stands for what it wrote, and a set of such numbers for what was computed from it.

### Leader election: `LeaderElection`

`todo` holds the jobs that wait for a thread or for `_election_lock`, `pc` where the thread that holds the lock is,
`reply` and `mine` its local variables, `loop` the callbacks queued on the main loop. `ElectBegin … ElectRecheck …
ElectAnnounce` are the steps of `_election_thread` (lines 271–332), the actions of `StepDown` and `SetUp` those of
lines 126–208, the handlers of SUSPENDED and LOST act on the loop without the lock. A call waits until the client is
connected, takes effect in one step, and may fail whether it was applied or not. `_election_key` is a BOOLEAN ("is what
the running election has stored still there"), for elections are serialised by the lock. The callback of the watch does
what a tick/60 does and is merged with it; `_on_zk_ready` and the set-up of the watch are part of `Connect` and
`Reconnect`.

### Advertisement: `Advertisement`

Workers of the pool run `_publish_adv_at_proactor_thread`; only one gets past `AdvertismentsLock`. Data is the number of
the `advertise()` call it comes from. `overlapped` is a history: a change met a running publication, which loses it
(see below).

### What every application runs: `Runtime` and its parts

`Runtime` composes ten modules. They share the loop and no state, so one *part* is chosen in the initial state and the
others rest; the state space is the sum of theirs, not the product, and one run answers for all.

- `TaskService`: `NewTasks`, `PendingTasks`, the state of the main task and of every task; the batch that the main task
  is reporting is a sequence in an order of its choice (`asyncio.wait()` returns a set).
- `PubSub`: `frames` is the stack of nested publications, each with its place in the list that it walks; `lists` are
  lists with an identity, for an emptied one is replaced and the old one may still be walked.
- `AppLifecycle`: `phase`, the queues, the governor and the hook of each phase; everything else is called by anybody at
  any moment. A `stop()` in the constructor is like one of init-time; the wait of three seconds at exit is abstracted;
  the tick is counted modulo `TicksPerTen`.
- `Housekeeping`: the schedule of lines 758–836. Time is counted so that ticks are at odd moments and the schedule at
  even ones; two units are ten minutes. `OnTick(slept)` lets the loop sleep for any time.
- `Configuration`: `stack` holds the calls of `_traverse_includes()`; what was read, in its order, is all there is to
  know of the values, for later ones override earlier ones and defaults fill what the first file leaves.
- `Timer`, `Alerts`: each await of the job or the main task is a step. Handlers of `Timer` end only for the sake of the
  bound on jobs.
- `Metrics`: `Storage` is the set of the owners of entries; each class of metrics is a `Kind` with its fields of `actuals`
  and `values`, by tags. The history is a set of numbered updates and one of the times of flushes, with which what a flush
  makes is compared (`RightValues`, `FieldsAreRight`, `DutyOf`). `int()` of `EPSCounter` drops the fraction toward zero (`Quotient`).
- `SyslogHandler`: `emit()` in two steps, between which the loop may empty the queue.
- `LogStream`: `stream` has the place of each request in `Buffer`, `senders` the tasks `_send_ws()`, each with the sockets
  it found and has served. CPython raises when the size of a set has changed under an iteration; so does `SendRaises`.

### Meeting others: `Discovery`, `ServiceCalls`, `ApiService`

`ApiService` composes `Advertisement` and `Discovery`, the two sides on which an application meets others through ZooKeeper, in the
same way as `Runtime`. `Discovery` has the cache: a scan in a thread, updates of the watch in kazoo's thread, both applied by tasks in order.
`_advertised_raw` and `_advertised_cache` are one variable, for nothing is awaited between them. An update may be lost
while the connection is suspended. A scan comes to nothing when a call raises, connected or not (343–345), and its swap then
empties the cache; one whose thread cannot run raises. `disturbed` and `outcome` are histories: the items that changed during the
last scan, and how it ended.
`ServiceCalls` has `session()`, the resolver of its URLs, `locate()` and `discover()` on a cache that changes at any moment.

### Who may use a service: `Web` and its parts

`Web` composes five modules in the same way as `Runtime`.

- `InternalAuth`: the calls of kazoo in its task block the loop of the service, so only other services and the cluster
  interleave; `Tick` comes when the tasks of the last one are done. A tick of the model stands for two of tick/300; the run
  has a lifetime of two and a leeway of one. Services in `Early` may be connected before their `initialize()`.
- `Tenants`: `call` is the reading of a list that each task awaits for each provider; `owed` and `denied` are histories.
- `Authentication`: signatures are the numbers of keys. The providers are asked one after the other without suspension
  in between; a reading of the keys suspends.
- `Authorization` (operators only): the two families `has_…` and `require_…` are translated separately, as in the code,
  and compared.
- `WebRequests`: containers and services are made and installed in any order; what the start applies last sees a request
  first (`layers`). `exempt` are the installers that pass a route over: both of them an OPTIONS route or a handler that is no
  coroutine, that of the tenants a path of `NO_TENANT_ROUTES`. `strict` is that of the installer, for `install()` may be given
  another than the service has. One container, one route and one request are enough, since context variables belong to a task.
  Tokens expire at `now = 1`.

### Library: `LibraryReadiness`, `LibraryChanges`, `LibraryReading`, `DisabledItems`, `LibraryDisabled`, `LibraryTargets`

- `LibraryReadiness`: all layers are ZooKeeper providers with containers of their own. A `task` is a coroutine with the
  call it waits for; handlers of CONNECTED, ticks and watches overlap at will. kazoo's DataWatch swallows
  ConnectionClosedError. Favorites only delay handlers here.
- `LibraryChanges`: one directory stands for all; the digest is made item by item while editors go on; an item that is removed
  under the eyes of a check makes the digest None (`Vanish`, `CheckGone`). The provider is
  ready exactly while it is connected (the rest is the matter of `LibraryReadiness`), and tick/60 comes only when no
  counter is under way.
- `LibraryReading`: one item in a directory below the root (whose name has a dot in ZooKeeper only, where it matters), in the upper of two layers for a tenant, for a person or
  for all, in the lower for all, in ZooKeeper, in a file system with scopes, or in one without. Of the two lists, one is
  edited in a behaviour.
- `DisabledItems` (operators only) has the form of the list of disabled items and the question whether an item is disabled;
  `LibraryReading` asks it, and `LibraryDisabled` has the readings of the list side by side, those that publish and those that do
  not, with an empty or malformed file, and with or without subscriptions of the provider. `silent` is its history.
- `LibraryTargets`: several places of one path, with digests made in one step; subscriptions to all targets from all
  contexts. A place may get back a content that it had before; one that was changed and changed back between a digest
  and a subscription looks like one that nobody touched, and is `hidden` until a digest differs from it.

### Library providers: `LibraryProviders` and its parts

It composes, again one at a time, `GitProvider` (threads, pull, HEAD and tree moved one after the other; the checkout of
a clone is one step; a tick while all `Inits` are busy is left out), `RegistryProvider` (mirrors that differ, the archive
synchronized in two halves, the entity tag stored after it), `FileSystemProvider` (watch descriptors, the kernel's
queue, the reader and its timer; a directory is watched first and listed afterwards, by a walk that goes into one
subdirectory before it watches the next; `Layered` selects one of the two readers), `AzureProvider` (a blob of one or two chunks,
reads side by side, whose answers come at any later moment; what is served is a step of its own), `LibraryReading`,
`LibraryDisabled` and `LibraryTargets`. Each has a history of the cases it excepts: `torn`, `lost`, `spoilt`, `silent`, `hidden`.

### Storage: `SoftLock`, `MongoStorage`, `InMemoryStorage`, `ElasticStorage`, `Storage`

`SoftLock` is the abstract specification, of what `storage/service.py:70` promises: a client that presents the version it
has read succeeds exactly when nobody else has written since (`Refuse` only then). The content of an object is the set
of the writes that made it, and a copy has the set that its reader saw, so that a write that undoes another one is a set
without it. `MongoStorage` is the detailed one: `find_one_and_update()` is one step, `execute()` of a new object two,
`get()` with decryption two. Objects of `Guarded` change by upsertors alone; on them `MongoStorage` implements
`SoftLock` (`SoftLocked`, an `INSTANCE … WITH` of the objects and copies). `InMemoryStorage` and `ElasticStorage` are mapped to
`SoftLock` in the same way (`Locked`) and do not implement it. In memory, what an upsertor increments, pushes or pulls is applied to
the object as it is, what it sets or unsets comes from what was read, and an object that is there has a version; on ElasticSearch, all the
fields of one request are merged at once. `Storage` selects the storage by its `type`. Webhooks are off; `get()` and the construction of the upsertor with its version are
one step; documents of bulk writes have no `_v`.

### Proofs

`LeaderElectionProofs`, `AdvertisementProofs`, `DiscoveryProofs`, `RuntimeProofs`, `WebProofs`, `LibraryChangesProofs` and
`StorageProofs` extend the modules they are about; `LibraryProofs` is about `LibraryReadiness` and `LibraryProviders`. Those about
compositions prove something of each part first, from the specification of the part alone, and then that a step of the
composition is a step of the part or leaves it as it is.

## The runs

There are twelve; the number of distinct states is that of the present bounds.

| Run | Module | States | Properties | What it shows |
|---|---|---|---|---|
| LeaderFaults | LeaderElection | 364 000 | ClaimsDistinct, LeaderHoldsNode, AnnouncementsSettle | with either instance suspended, expired or crashed, no two instances share a claim, a connected leader holds the znode, and what was announced out of order is put right in the end |
| LeaderResign | LeaderElection | 75 000 | NoClaimAfterStepDown, EventuallyLed | while an instance resigns, returns or crashes, no claim outlives the resignation, and somebody leads in the end and has said so |
| LeaderNever | LeaderElection | – | EventuallyLed (violated) | a connection that is suspended at the wrong moment leaves the cluster without a leader |
| ApiService | ApiService | 1 058 000 | NeverOlder, SettledAgrees, MirroredInTheEnd | nothing older is published; the cache of the others has nothing wrong when it has settled; in the end everything is published, and mirrored |
| Runtime | Runtime | 748 000 | RunningHeld, FinalizedIsFinal, MissedAreShifted, FinalizedInReverse, NothingSlips, OncePerInterval, ScheduledRuns, DoneReported, OnlySubscribed, StopEnds, RestartHappens, RegisteredInitialized, LoopsGoOn | what every application runs, ten parts, each on its own |
| Web | Web | 1 189 000 | OneKey, KeysConverge, ServedAreEntitled, EntitledAreServed, ToldIsTrue | who may use a service, five parts |
| LibraryReady | LibraryReadiness | 223 000 | ReadinessAnnounced, Converges | the library announces its readiness and reads its lists |
| LibraryLearns | LibraryChanges | 787 000 | DigestIsKnown, Learns | a subscriber learns of every edit in ZooKeeper |
| LibraryProviders | LibraryProviders | 453 000 | SubscribersKnow, ServedWhole, ListedIsOpened, ChangesArrive, DisabledKnown | the other providers, and two layers together |
| StorageWrites | Storage | 196 000 | SoftLocked | each of the three storages under concurrent writers; on MongoDB the version is a soft lock |
| StorageUnlocked | Storage | – | OthersLocked (violated) | in memory and on ElasticSearch it is none |
| FilesUntold | FileSystemProvider | – | FilesReported (violated) | a layered file system provider reports nothing |

A property of a composition is the conjunction of the properties of its parts, where those answer one question:
`MirroredInTheEnd` of `ApiService`, `NothingSlips`, `OncePerInterval` and `LoopsGoOn` of `Runtime`, `SubscribersKnow` and `ChangesArrive` of
`LibraryProviders`, and those of `Web`. The comment at each names its parts, and they are stated, with the reasons, in the
modules of the parts.

### Bounds

- Two parties are enough for each race of the code: two instances, two services, two clients, two digests, two readers
  of a blob, two streams. A third one is there where an overlap needs a bystander: a third task (one is reported, one is
  cancelled, one waits behind them), a third callback (one is called, one goes, one is missed), a third job of a timer
  (the one that `stop()` cannot reach), a third file (one names another that names the first).
- Each kind of disturbance happens at least once in a behaviour, at any moment, and twice where the second meets the
  repair of the first: connections break once (`MaxBreaks`) or twice (`MaxSuspends`, `MaxDisturbances` of ApiService and
  LeaderResign); calls fail, clones and downloads break, processes crash once or twice.
- Data change twice or three times (`MaxData`, `MaxChanges`, `MaxEdits`, `MaxVersions`, `MaxCommits`, `MaxBlob`): one
  change before something is read, one after, one while it is written. `MaxWrites = 4` lets two clients write twice;
  `MaxVersion = 1` of LibraryLearns lets the counter be incremented once, before an edit, after it, or not at all.
- A day of `Housekeeping` is eight moments, with the schedule, the window before and after it at 2, 4 and 6; three days
  let one be slept through and the next begin late. Tokens of `InternalAuth` live two ticks, with a leeway of one.
- `Metrics` has two metrics with one key, which is the smallest number that shares, and two updates. Of the classes, the aggregation and the
  histogram are checked with tags only, which have the same fields and the expiration besides. `LogStream` has a buffer of two records and three records, so that one is pushed out.
- `SyslogHandler` has two threads, four records and one error; `Alerts` three alerts: one posted, one in the queue when
  the main task fails, one after it.
- `LibraryDisabled` has two readings side by side and lists of one entry (`MaxEntries`), which is one more than nothing: a change is
  compared entry by entry. The proof has lists of any entries.
- In `Configuration` the main file has a list of two items, others of one; a glob may match a file, another, or two.

The counters that a bound caps appear in the guard of the action, never in a `CONSTRAINT`. One path of the container, one
tenant, one resource, one item and one directory are enough where the code treats them independently of each other.

Deadlock is checked in LeaderFaults and ApiService. Elsewhere `CHECK_DEADLOCK FALSE` is said because the
system really may stop: an application exits, a request is answered, a configuration is loaded, and callers are never
obliged to call again when their bounded number of calls is used up.

### Fairness

Nobody has to call an API, edit a file, break a connection or crash. What is fair is what the scheduling of the code
guarantees:

- a thread of the pool goes on, and so does every task or callback that the event loop has ready (weak fairness of each
  step: asyncio runs ready callbacks in order, and no step of these components waits for ever);
- ticks come again and again (weak fairness of `OnTick…`), since `Application` schedules them from its run-time on;
- kazoo reconnects or loses a session in the end, and the ZooKeeper server expires a session whose process is gone;
- kernel events are read, tasks that were scheduled are started, hooks of modules return.

Strong fairness is assumed where the model makes an action wait for something that is free again and again rather than for
ever: a slot for another coroutine (`StartScheduled`, `OnTick60`, `OnTick600`, `OnConnected` of the library, where the code
has no bound on tasks), and the end of a clone (`CloneDone` of `GitProvider`: not every clone is slower than the next tick,
whose initialization begins another).

## What is proved

Thirty-four theorems, for all values of the constants that the assumptions in the modules admit (instances, tasks, clients and
items are any sets, the bounds any natural numbers; the absent value is none of them). The assumptions with names say no more
than that: what stands for "none" or "unset" is no member of the set it is used with (`NobodyAssumption`, `TaskAssumption`,
`TimerAssumption`, `ContextAssumption`, `CallsAssumption`, `ConfigAssumption`, `InitsAssumption`), a buffer has room for one record
(`StreamAssumption`), metrics are of the classes that there are (`MetricAssumption`), a tick is two units of a day and there are no
more days than ticks in one (`HouseAssumption`: with a tick of a minute, 1440 days), a token lives for some time (`TokenAssumption`), configured tenants are tenants (`TenantAssumption`), and
bounds are numbers. TLC evaluates them in the runs.

| Theorem | In | Establishes |
|---|---|---|
| TypeCorrect, ClaimsCorrect, StepDownIsFinal | LeaderElectionProofs | types; ClaimsDistinct; NoClaimAfterStepDown |
| LeaderHolds | | LeaderHoldsNode, assuming `Resigning = {}` |
| UnbrokenAgree | | an instance whose connection never breaks leads when the last event it has published or queued is LEADER! |
| AdvTypeCorrect, NeverOlderHolds | AdvertisementProofs | types; NeverOlder |
| SettledIsRight | DiscoveryProofs | SettledAgrees of Discovery (`Cache!SettledAgrees` in ApiService) |
| TaskTypeCorrect, RunningTasksHeld, TaskReportedOnce, NothingRunsAfterFinalize | RuntimeProofs | types of the task service; RunningHeld; that no task is reported twice or early; FinalizedIsFinal |
| MissedOnlyByShifts, CalledAreSubscribed | | MissedAreShifted; OnlySubscribed |
| FinalizedBackwards | | FinalizedInReverse |
| NothingSlipsThrough | | NothingSlips |
| DoneOncePerInterval | | OncePerInterval |
| AuthTypeCorrect, OneKeyHolds | WebProofs | types of the keys; OneKey |
| ServedEntitled, EntitledServed, ToldTrue | | ServedAreEntitled; EntitledAreServed; ToldIsTrue |
| LibraryTypeCorrect, ReadinessIsAnnounced | LibraryProofs | types; ReadinessAnnounced |
| ChangesTypeCorrect, DigestKnown | LibraryChangesProofs | types; DigestIsKnown |
| NothingIsHidden, ServedIsWhole, ListedCanBeOpened, DisabledIsKnown | LibraryProofs | SubscribersKnow; ServedWhole; ListedIsOpened; DisabledKnown |
| MongoTypeCorrect, MongoSoftLock, StorageTypeCorrect, StorageSoftLock | StorageProofs | types, of the other storages too; SoftLocked as an implementation of `SoftLock`, of MongoDB alone and of the storage that was configured |

Along which argument:

- *Leader election.* ClaimsDistinct is not inductive, for a claim is written from what a call has returned.
  `ClaimInv` adds that what a thread is about to believe was created by itself, and that the server hands out no czxid
  twice. `LeaderHoldsNode` needs `HoldInv`, of five parts: `Peace` (nobody deletes, since nobody resigns), `Session` (no two
  instances have one session, and a znode of a session is its owner's), `Won` (a successful `create()` whose key nobody has
  invalidated is still true), `Held` (the claim of an instance that has its session is true), `Told` (once the loss of a
  session has been told, no claim and no key are left). The key is needed because a thread may be arbitrarily late, and
  nothing else tells it so. With resignations the formula does not hold: see `leader_svc.py:188` below.
  UnbrokenAgree is proved instance by instance: `Calm` says of one whose connection never breaks that the *last* of what
  is queued on its main loop, or what is announced when nothing is queued (`Last`), is LEADER! only if it has the claim,
  and that a thread between its two looks at the key still finds it. Nothing another instance does touches that.
- *Advertisement.* `AdvInv`: whoever is inside holds the lock (`Exclusive`, with `Placed` for the types), a znode has an
  identity, and the one an advertisement remembers is of its path (`Identified`), no znode is ahead of what is advertised
  (`NotAhead`), and what a worker is about to write is neither newer than what is advertised nor older than what it replaces
  (`Ready`).
- *Discovery.* `CacheInv`: what is wrong in the cache has its correction on its way. An update in the queue of tasks is true,
  or an event waits that will have a newer one made (`Fresh`), or a later update or a scan comes behind it (`Superseded`;
  `UpdatesFit`). A scan that nothing has spoilt has what is there, or another one is to come, by a request, a task,
  CONNECTED or the connection's return (`ScanFits`, `Coming`); one that comes to nothing has read nothing that is wrong. When it has ended, the cache is right for each item that has
  neither an update nor an event (`CacheFits`). `GoneStay` and `WatchedSoon` say what the events and requests can be.
- *Task service.* `TaskInv`: a running task is pending (`RunningHeld`), what is held or queued has not been
  reported (`ReportedOnce`, `ReportInv`), and from the first step of `finalize()` on the main task is gone and what runs is
  on the list of what is still to be cancelled (`FinalizeInv`).
- *PubSub.* `MessageInv`, for publications that nest to any depth: for each frame of the stack, those whom it should have
  called, has not, and has *passed* in its list are no more than what was removed from the list at or before its place
  (`PassedInv`; a removal shifts one subscriber under the place at most); and lists that are no longer that of the message
  type are empty (`OthersEmpty`), so that a publication that still walks one calls nobody.
- *Application.* `AppInv`: what has been finalized is the reverse of a part of the services, then of the modules, the parts being
  those that the governor has walked (`Taken`, `ExitInv`); items that are registered under way only append to the lists.
- *Timer.* The types and `OneArmed` are inductive together (`TimerInv`).
- *Syslog handler.* `LogInv`: what was sent, what is queued and what a thread has in hand are together what was logged
  (`KeptInv`); in that order the numbers grow, and while the socket is ready and nothing drains there is nothing queued
  (`OrderInv`).
- *Log streams.* `StreamInv`: records in the buffer are consecutive (`BufferInv`), those who listen are in the set of sockets
  (`SocketInv`), and at each stage of a stream what it has missed of what is behind it is at most what was pushed out of the
  buffer meanwhile (`Within`).
- *Configuration.* `ConfigInv`: each file is read as often as its being included says (`TimesInv`), only files that one read
  before names are read (`SoundInv`, `AfterInv`), and what a file names that was read is included or on the stack
  (`CompleteInv`). That all of them are read when loading is done, and no others, is then the least fixed point of
  inclusion, which is defined without recursion as what every closed set has (`Reached`).
- *Housekeeping.* `HouseInv` names the day `e` whose turn is next (`Turn`): its time, its limit and its identifier are those in
  the variables. What was published is in windows of days before `e`, one in each (`PublishedOnce`). Each turn of a day that
  is over takes one tick, so a service that slept is behind; but whoever was awake at each tick from some moment on has
  caught up by a day per tick since (`CaughtUp`), so that a day whose window and the day before it were not slept through finds
  its turn taken in time (`DaysServed`). The assumption that there are no more days than ticks in a day is needed: a service
  that slept for longer may need more than the day before to catch up.
- *Metrics.* `MetricsInv`: updates are numbered in the order of time (`HistoryInv`); what a metric is counting is what the
  updates amount to that came since the flush its next interval begins with (`CountInv`, from the lemma `TallyOneMore` that
  counting one update more is what `Counted` does); tags expire with their last update (`ExpiryInv`), so that a flush forgets
  exactly what `Forgotten` defines; and the last cycle of a duty cycle knows for how long it was on until it was switched, and
  what it is since (`LastInv`). A flush then makes the values of the interval that it ends (`Flushes`), and an update changes
  none of them, for it comes after the flush.
- *Keys.* `AuthInv`: a service that is not initialized has no key (`NothingBefore`), and OneKey holds within a task,
  too (`OneKeyAlways`). Services of `Early`, connected before their `initialize()`, are excepted from the half about the
  public key: see below. `RenewInv`: as long as nobody deletes the key a service that has one finds one (`KeyStays`), so that
  only a call that fails can keep it from renewing its token.
- *Tenants.* `TenantsInv`: what is owed to a task is in the copy of the list from the moment its reading ends (`OwedInv`), and
  the service says what it knows of its providers (`ReadyInv`).
- *Authentication.* `AuthenticationInv`: no key is trusted or kept that the server never had (`KeptInv`), and a request that
  waits is at a provider of its kind of token; if it is entitled it has the key of the server, the session, or an answer
  that is about to bring them (`Waiting`).
- *Requests.* `RequestInv`: the layers that are yet to come are in the order of their ranks (`Layered`), in whatever order containers
  and services were made, and each layer that has been passed has done its work (`Passed`): the tenant is that of the URL, the
  authorization is set, and has what the handler requires (`Allowed`). That methods which answer agree with those which raise
  is a fact about their definitions (`AnswersAgree`).
- *Calls by name.* `CallsInv`: the hosts that were resolved and those that are still to be resolved are together those
  that were offered (`ResolveInv`).
- *Library.* ReadinessAnnounced is inductive together with the types. `ChangesInv`: digests under way are made of versions
  that were there (`MadeOfPast`), there is one subscriber (`OneSubscriber`), and the digest was made before the subscriber
  read, so that an item that still has its version in the digest has the text that was read (`KnownAgrees`); all that as
  long as no version has come back.
- *Git.* `GitInv`: a tree is that of HEAD but while a worker resets it (`TreeStays`), whoever does not know the tree is about to be told
  of it by the periodic pull (`MissedArePublished`), or has met the pull of an initialization (`MetAreUntold`).
- *Registry.* `RegInv`: before the archive is synchronized, what subscribers know is its content and the tag is that of it
  (`BeforeSync`); afterwards the tag that is about to be stored differs from the one before, so they will be told (`AfterSync`).
- *Azure.* `AzureCache`: while a download writes, the tag and what it has got are of one version, it is the only one, and the cache
  has what it has written (`Alone`); the cache without a download is whole (`CachedWhole`); or what went wrong is among the `spoilt`.
  What is served next is then as `ServedWhole` says, and what was served stays so.
- *Targets.* `ScopesInv`: a subscriber knows of each place what its digest was made of, or the place is `hidden` (`KnownByDigest`).
- *File system.* `FilesInv`: under a subscription that overlaps no other, every path that exists is watched, or the walk of the reader is
  on its way to it, or an event in a queue announces a directory on the way to it (`AllReached`); around that, what the descriptors stand for (`WatchesFit`),
  that a descriptor's events end with the one that it is gone (`EventsFit`), where the walk is (`WalkFits`) and that paths are a
  tree (`Tree`).
- *Layers.* ListedIsOpened is a fact about one state, given the kind of the providers (`LayersInv`). Both providers with scopes read
  from the same one, though one tries paths and the other looks for the first candidate that is a node (`First`, `FilesReadFirst`,
  `NodesReadFirst`); in one layer what is listed first is what is read, or nothing is listed (`LayerReads`); and two layers are
  joined as they are read (`FirstIsOpened`).
- *Disabled items.* `DisabledInv`: the subscriber, when told last, saw the item as it does now. A change that is neither told nor
  passed over is not seen (`UntoldIsUnseen`): whoever sees an entry differently compares it too, and an entry above the
  item that is not strictly above the subscribed path is at it or below it.
- *Storage.* `LockInv`: a copy whose version is the current one has read the current content. From it each step of
  `MongoStorage` is a step of `SoftLock` or leaves it unchanged; in memory, a version is at most the number of writes (`MemoryInv`), without which it would have no type.

The parts of a composition share no variable, so its invariant is the conjunction of theirs (`RuntimeInv`, `WebInv`,
`ProvidersInv`), and a step of one part is a stutter of the others (`PartSteps`).

Only model-checked is:

- liveness under fairness (AnnouncementsSettle, EventuallyLed, MirroredInTheEnd, ScheduledRuns, DoneReported, StopEnds,
  RestartHappens, RegisteredInitialized, LoopsGoOn, Converges, KeysConverge, Learns, ChangesArrive), which is out of the prover's
  reach like ENABLED and induction over data.

## Where code and documentation disagree

Three disagreements have runs of their own, which TLC finds violated, and are findings in `PROJECT.json`:

- **LeaderNever**, EventuallyLed (`zookeeper/leader_svc.py:313`). SUSPENDED invalidates the key after `create()` succeeded,
  and the same session is resumed: the creator publishes FOLLOWER! and keeps no claim, and nothing removes the znode. All
  later elections, its own too, meet NodeExistsError and follow, as long as the session lives. The comment at line 274 calls
  the tick "a last resort recovery mechanism". LeaderResign checks the same property without suspensions, where it holds.
- **FilesUntold**, FilesReported (`library/providers/filesystem.py:646`). The reader of inotify events of a layered library
  records none, so the timer finds nothing to publish; `library/providers/abc.py:51` promises "When change occurs, publish
  PubSub signal "Library.change!"". LibraryProviders checks the other reader, which records them.
- **StorageUnlocked**, OthersLocked (`storage/inmemory.py:37`). The upsertors in memory and on ElasticSearch compare no version, so
  one with a version succeeds although another component has written meanwhile, and undoes what that one set; for
  `storage/service.py:70` see Storage, below.

The others were met while modelling. The models contain the behaviour, and the properties except it by a history variable
or a premise, or say something weaker; the exception is named at the property.

**Leader election** (`zookeeper/leader_svc.py`)

- 332: LEADER! is published without another look at the key, so a LOST in between leaves LEADER! as the last event of an
  instance that does not lead; the comment at 106: "in-flight elections observe the stale key before publishing LEADER!". AnnouncementsSettle says that it does not stay so.
- 188: `delete(path)` names no version and may delete the znode that another instance has created since `get()`; the
  docstring at 129: StepDown "deletes this instance's ephemeral election znode when it is" the leader. The deposed
  instance sees it through its watch or tick; LeaderHoldsNode is therefore stated without resignations.
- 152: the jobs of `SetUp()` and `StepDown()` reach the lock in either order; the docstring at 133: "This instance remains a
  non-participating follower until `SetUp()` is" called.

**Advertisement** (`zookeeper/container.py`)

- 279: the version that the worker stores overwrites the -1 of an `advertise()` that came meanwhile, so the change counts as
  published and is lost until the next one; the comment at 218: "Re-publish all existing advertisements every 300 seconds".
  `overlapped` in MirroredInTheEnd.

**PubSub, tasks, application**

- `pubsub.py:145`: a callback that unsubscribes itself makes the next one be skipped, for the live list is walked;
  `docs/reference/pubsub.md:106`: "It will be delivered to each subscriber synchronously". MissedAreShifted says that no
  other subscriber is missed.
- `pubsub.py:161`: a dead reference that a nested `publish()` has removed raises ValueError out of the outer one, in the
  middle of its subscribers; pubsub.md:107: "the method returns after each subscribed `callback` is called".
- `task.py:161`: the CancelledError of a cancelled task ends the main task in the middle of a batch, whose rest is
  neither logged nor published; `task.py:19`: "The result of the task is collected (and discarded) automatically."
- `application.py:448`: a stop of init-time is forgotten; `docs/reference/application.md:115` promises a graceful
  termination. StopEnds is about stops of run-time and exit-time.
- `application.py:662`: items that were registered but never initialized are finalized; 703 promises initialization "for
  modules&services added during aplication lifecycle".
- `application.py:662`: a service registered while the services are finalized raises RuntimeError out of `run()`; the rest
  is never finalized, though `abc/module.py:11` says "Every module provides asynchronous methods `initialize()` and
  `finalize()`".
- Housekeeping (`application.py:758–836`): the check of the identifier never refuses; each day that was slept through takes
  a tick of its own; the list of missed days is never emptied, so the error is logged again each day; a limit shorter than ten
  minutes from the schedule may miss every day.

**Configuration** (`config.py`)

- `docs/reference/configuration.md:121` says that paths are separated by `os.pathsep`; the code (186) and line 139 of the same
  page have newlines or spaces.
- The docstring at 184 says "Nested including is supported."; what a ZooKeeper node includes is never traversed. A node may
  also be read more than once, and a "$" in it raises IndexError, since the stack of directories is empty then, and ends
  the process; a missing section `[zookeeper]` raises KeyError.
- The main file is read a second time when a file names it (IncludedOnce allows two reads of it).

**Alerts, logging, metrics**

- `alert.py:120`: the alert in hand is lost when posting raises, and at `finalize()`; LoopsGoOn says that each is *taken*.
- `log.py:521–572`: `_on_write()` runs once, for it removes itself as a writer, so a record that is queued after a
  failed send, or by a thread that looked at an empty queue before, waits for ever (`spoilt`); a connect that failed is
  never tried again (477–480); a partial `sendall()` counts as unsent.
- `api/log.py:149`: "Sends historical buffered logs first, then live log entries as they occur". The buffer shifts under the
  walk (191) and records are skipped; one may come twice, in the history and from a task that was made before the stream
  joined; order is not guaranteed; a send that raises, or a set that changes size (208), loses the record for the sockets
  behind. Logging in a thread while a socket listens raises out of the logging call (87). At `Application.stop!` streams
  still in their history are not closed, and a socket that is closed already stops the closing of the others. The buffer holds one
  record more than `buffer_size`. RecordsStreamed counts exactly what is lost so.
- `metrics/service.py:104`: deleting a metric that another one has replaced under its name and tags removes the storage entry of the
  replacement, which is exported no more. ListedOnce and ExportsAreRight are about metrics that have their entry.
- `metrics/metrics.py:250–266`: `DutyCycle.flush()` stores outside of its loop: of several names only the last is
  exported, and without names it raises UnboundLocalError (caught and logged). Counts of dynamic tags that expire before a
  flush are lost; `MetricToNameAndTags` never shrinks.

**Discovery** (`api/discovery.py`)

- 261: the swap writes what the scan has read over newer updates; the comment at 250: "Fetch outside the cache lock so watch
  updates can proceed; the subsequent swap is atomic under the cache lock." What is undone so stays wrong until the next scan
  (`disturbed`).
- 257: a scan that raises forgets the request for another one; the comment at 240: "Coalesce overlapping rescans into one
  in-flight scan (+ one follow-up)." The next tick asks again.
- `session()` fixes its headers when it is opened, so a token that is renewed meanwhile is not used by it; a scan that fails
  at first leaves an empty cache, which `locate()` takes for an answer.
- 343: an exception in the scan of a connected client, as one lost call, is logged and nothing is returned; the swap then empties the cache,
  and until the next tick/600 nobody is found who has not changed since.

**Internal authorization** (`api/internal_auth.py`)

- 153: whoever loses the race to create the key adopts its own, until its next tick or CONNECTED; the comment at 134:
  "avoiding race condition with other ASAB services". KeysConverge says that it heals.
- 117: a service that is connected before its `initialize()` never tells the provider its key;
  `docs/reference/services/web/authorization.md:133`: "This will automatically set up shared keys necessary for internal
  auth". `Early` in OneKey.

**Authentication, tenants, web requests** (`web/auth/`, `web/tenant/`)

- An open session whose kept authorization has expired is refused once before its token is looked at again; a token within
  the leeway of the library passes at first and is refused from the kept authorization.
- Answers that arrive late may replace newer ones, so that a known tenant is denied until the next reading (`owed`
  is what no such answer explains); a provider that raises makes the reading of all fail.
- A `StaticTenantProvider` alone announces its readiness only when somebody asks `is_ready()`; the ZooKeeper provider
  raises TypeError when the node vanishes between two calls.
- OPTIONS routes and handlers that are no coroutines are wrapped by neither installer, and the paths of `NO_TENANT_ROUTES` not by that
  of the tenants (`tenant/installer.py:30–42`, `auth/service.py:258–265`), whatever their handlers declare: `@require` on such a route answers
  500, for there is no authorization to look at. ServedAreEntitled names them.
- `web/tenant/service.py:206`: readiness is published before it is set, so a handler of `Tenants.ready!` that calls `is_ready()` has the
  message published again, to itself too, until the limit of recursion.
- `web/auth/service.py:352`: the error about the order of the wrappers never arises: the position is compared only in containers
  with both wrappers, in which `install()` has put them right.

**Library** (`library/service.py`, `library/providers/`)

- `providers/zookeeper.py:234`: `_on_zk_connected()` sets readiness without looking at the connection after its awaits;
  `docs/reference/services/library.md:136`: "If some of the providers is disconnected, the Library switches to `not-ready` state
  again".
- `service.py:572`: a failing read of the list of disabled items is only logged, and readiness announced; library.md:172: "Those
  files are reloaded from the first provider on readiness transitions". `service.py:215`: until the first read returns
  nothing is disabled; 274: "`None` is returned if the item is not found or if it is disabled".
- `service.py:572–633`: an empty or malformed list resets what is disabled and returns before the comparison (585–590, which also make
  lists where sets are expected); a list that a tick or the readiness of the layer has read, mostly before the watch does, is compared
  with nothing and the watch finds no difference; a reading that another has overtaken compares with what it remembers; and a provider
  without `Subscriptions`, as all but ZooKeeper, tells nobody. The comment at 613: "If requested, compare old and new disables to notify
  subscribers". And 656, 676: entries *above* the subscribed path are not compared, nor are personal subscriptions, though the
  docstring at 619 says "if any subscribed path is affected for the specific subscription target". `silent` in DisabledKnown.
- `providers/zookeeper.py:541`: versions start at zero again when a node is created again, so a digest may come back
  (`returned`); 501: a second `subscribe()` takes an unseen change for known. library.md:145: "the content of the Library has
  changed."
- `providers/zookeeper.py:519`: paths of personal subscriptions are kept by target and path, so one from another context
  replaces those of the first, which is told nothing any more; a change that a later subscription to the same place took
  for known is not told to the first (`hidden`); a tenant of "all tenants" whose items all vanish is not
  told (the premises of TargetsKnown). The documentation of the file system provider says that "personal"
  watches all persons, that of the service, like the code for ZooKeeper, the current one.
- Reading: the file system provider raises KeyError for a listing whose global directory is missing though a
  personal one is readable (`Hidden`); `find()` in ZooKeeper does not enter directories with a dot (676) and the file system
  does; "//" is accepted by the service and refused by assertions of the providers; exports contain disabled items.
- Git: a crash, or an error of git, between moving HEAD and resetting the tree (`providers/git.py:526`) leaves a tree that later
  pulls take for fetched (`torn`); what an initialization's pull has to publish is discarded; a subscriber that comes
  between diff and reset has read the old tree and is not told (`untold`); a clone slower than a tick is removed by the
  initialization of the next.
- Registry: a crash between synchronizing the archive of an older mirror and storing its tag (`libsreg.py:241–250`) leaves the old
  tag, with which a mirror answers "not modified" (`torn`); the docstring at 137 promises "to fetch the latest version".
- File system: overlapping subscriptions, removal of a subscribed directory itself, and a file that vanishes under `os.stat()`
  in `_list()` (204) leave changes untold or raise (`lost`); a failed `subscribe()` leaves its watches. `subscribe()` ignores its
  target, as its docstring says.
- Azure: the tag is stored before the content, so a broken download, or one beside another, is served as whole later
  (`spoilt`); a read that is answered "not modified" while another downloads gets the part that is there (205–220); what is returned is the
  open file of the cache itself, which a later download truncates; with `azure_cache=false` each read raises TypeError at the path of the tag; a blob that is named like a directory stops
  the loading of the model.

**Storage** (`storage/`). `storage/service.py:70`: "if the object is updated by other component in meanwhile, your upsertor will
fail and you should retry the whole operation."

- MongoDB: versions start again after a deletion (`mongodb.py:294`); bulk writes leave `_v` alone (184); `get()` with
  decryption stores the object again and returns the version from before (216), and raises KeyError if it was written meanwhile
  (`service.py:92`: "Raised if `obj_id` is not found"); without identifier and version any object is modified (291; the
  comment at 290: "We are going to insert a new object without explicit Id"); the creation time is set by a second call, and
  nobody sets it any more if that fails (318; the comment at 317: "If the object is new (version is 1), set the creation
  datetime"). Hence `Guarded`, and SoftLocked for its objects only.
- In memory: `execute()` compares no versions (`inmemory.py:38`, StorageUnlocked); `get()` returns the stored dictionary itself; `get()` with decryption leaves the stored field plain (119),
  though `docs/reference/services/storage.md:276` says that encrypted data "can be identified by the prefix".
- ElasticSearch: no version is sent with an update (`elasticsearch.py:677`, StorageUnlocked), which also brings back a document that was deleted;
  version 0 changes a document that exists (629;
  `service.py:64`: "`execute()` method will fail on `DuplicateError`"). `get()` returns None for what is missing, and
  `ModInc`, `ModPull` and `ModUnset` are ignored by every upsertor, `ModPush` by one with an identifier; without one it raises (648-650).

## Not modelled

The map covers about a third of the lines of the implementation. Of the rest, much has no state to speak of: the
generation of API documentation and manifests, formatters, transports of metrics and alerts, parsing of arguments and
URLs, and the set-up of aiohttp, Sentry, SSL and logging. In detail:

- *Proactor* (`proactor/`): a wrapper of a thread pool. The models have each `execute()` as a call that ends at any later moment.
- *REST API service* (`api/service.py`, `web_handler.py`, `doc.py`): formats what other components hold.
- *ZooKeeper service* (`zookeeper/service.py`): a list of containers; what a container does is in the models that use it.
- *Web container and service* (`web/container.py`, `web/service.py`): set-up. Noticed: `Addresses` gets the addresses of the runner
  once for each site (`container.py:169`), and `finalize()` stops containers one after another.
- *Web sockets* (`web/websocket.py`): one handler for each socket, and aiohttp does the concurrency. Noticed: an identifier that
  `register()` returns twice replaces a socket, and its second removal raises KeyError.
- *Web sessions* (`web/session/`): `Session` derives from `collections.MutableMapping`, which Python 3.10 has removed.
- *JSON REST helpers, library directory schema, Sentry, utilities*: without state that changes.
- Of *Configuration*: values, their expansion and conversions, and `Configurable`. Of *Application*: the watchdog
  thread, the daemon, the command line. Of *PubSub*: asynchronous delivery and the queue of `Subscriber`, which are
  asyncio's. Of the *library*: `finalize()`, the cache provider (a file system provider with a derived path), moves and
  overflows of inotify; `Library.change!` of disabled items is in LibraryDisabled and left out of LibraryReadiness. Of *housekeeping*: `run_at_startup`,
  which publishes once more before the schedule begins. Of
  *metrics*: targets and their formats, metrics of the process, initial values. Of *authentication*: static keys, headers,
  claims other than expiration and tenants. Of *storage*: webhooks, transactions, listing, templates and policies of
  indexes. Cryptography is the identity of a key everywhere.
