# Pondoknusa in TLA+

Pondoknusa is a web framework written in TypeScript, a monorepo of packages
under `packages/`. Most of a framework is sequential: a request comes in,
objects are built, a response goes out. Some packages coordinate what runs at
the same time - processes that may die, requests of one process between two
awaits, sockets, timers, files that change - and these carry the promises that
tests hardly reach: a queued job is not lost, a lock has one holder, a value is
computed once, a request in flight is answered before the server closes. This
directory models those packages in TLA+, checks them with TLC on small
instances and proves the properties that matter most with TLAPS for every
instance.

Paths below are relative to `src/packages/` unless they begin with `src/`.

## The system

### Components, their state and how they interact

| Component | State it keeps | Operations | Talks to |
|---|---|---|---|
| Database queue driver (`queue/src/database-queue.ts`) | rows of the `jobs` table | `pushRaw`, `later`, `pop`, `deleteJob`, `release` | the database, one statement at a time and no transaction |
| Redis queue driver (`queue/src/redis-queue.ts`) | an envelope per job, the ready list, the delayed set, the reserved set | the same | redis, one command at a time |
| Worker loop (`queue-processor.ts`, `worker.ts`) | the popped record, `processed`, `shouldQuit` | `run`, `process`, the SIGTERM handler | a driver, the failed jobs, the batch repository, the process hook |
| Failed jobs (`failed-job-repository.ts`, `cli/src/commands/queue-failed.ts`) | rows of `failed_jobs` | `record`, `retry`, `forget` | the database, the queue |
| Chains and dispatch (`chain.ts`, `dispatcher.ts`) | the `chain` in a payload | `dispatch`, `dispatchLater`, `chain` | a driver |
| Batches (`batch.ts`) | one cache entry per batch | `create`, `recordSuccessfulJob`, `recordFailedJob`, `cancel`, `PendingBatch.dispatch` | a cache store, the queue |
| Sync driver (`sync-queue.ts`) | none | `pushRaw` runs the job | the worker |
| Cache stores (`array-store.ts`, `file-store.ts`, `redis-store.ts`) | entries with a time to live | `get`, `put`, `add`, `forget`, `flush` | memory, files, redis |
| Cache locks (`cache-lock.ts`) | one cache entry per lock, a token per object | `acquire`, `release`, `get`, `block` | a cache store |
| `remember()` (`cache-repository.ts`) | the map `pendingRemember` of each process | `remember`, `rememberWithLock` | a lock, a cache store |
| Tagged cache (`tagged-cache.ts`, the index in `cache-repository.ts`) | a list of keys per tag | `put`, `forget`, `flush` of tags | a cache store |
| Redis connections (`redis/src/redis-manager.ts`) | a client, a connect under way | `connection`, `close` | redis |
| Redis subscriber (`redis-node/src/client-factory.ts`, `broadcasting-websocket/src/register.ts`) | a duplicate connection, listeners per channel | `subscribe`, `quit`, `startRedisSubscriber` | redis |
| WebSocket hub (`broadcasting-websocket/src/websocket-hub.ts`) | clients, their channels, presence members | upgrade, subscribe, unsubscribe, broadcast, close | sockets |
| Echo connector (`echo/src`) | socket, socket id, channels, pending subscriptions, bindings | connect, listen, subscribe, leave, disconnect | the hub, the authorization endpoint |
| SQLite connection (`database/src/sqlite-connection.ts`) | one handle and its open transaction | `query`, `transaction` | SQLite |
| Pooled transactions (`database-manager.ts`, `database-pg`, `database-mysql`) | clients of a pool | `transaction`, also nested | the database |
| Migrator (`database/src/migrator.ts`) | the table of migrations | `run` | the database |
| Sessions (`auth/src/session-store.ts`) | a row per session | `read`, `write`, `destroy`, `pruneExpired` | the database |
| Throttle (`http/src/throttle.ts`) | a counter per key | one per request; sweep, evict | a store |
| Node and Bun servers (`core/src/adapters/node-server.ts`, `server.ts`) | connections, requests in flight | requests, `close`, signals | the kernel |
| Application and lazy providers (`core/src/application.ts`, `http-kernel.ts`) | which providers are booted | `boot`, booting on request | the providers' hooks |
| Router (`http/src/router.ts`, `json-fast-path.ts`, `route-prefix-trie.ts`) | routes, the compiled table | add, throttle, compile, dispatch, reset | the middleware |
| Request pool (`http/src/request-pool.ts`, `request.ts`) | request objects | acquire, release | the router |
| Hot reload (`core/src/dev-hot-reload.ts`) | a timer, a flag | watch, reload | the router, files |
| HTTP client (`http/src/client.ts`) | attempts, timers | `send` | a server |
| View caches (`views/src/view-engine.ts`, `compiled-cache.ts`, `parallel-compile.ts`) | a template in memory and one on disk | load, preload, warm, invalidate, clear | files |
| View compiler (`views/src/compiler.ts`, `conditional-folding.ts`, `view-lint.ts`) | none | `compile`, `foldTemplateOps`, the linter | the caches, the renderer |
| Telegram polling (`telegram/src/polling.ts`) | offset, a flag | `start`, `stop`, the loop | Telegram |
| Debug trail (`debug/src/store.ts`, `watch.ts`) | the newest entries, a file | `push`, `clear`, watch | files |
| The rest | request-scoped objects | | |

`PROJECT.json` lists every component with the reason when it is not modelled.

### What is hard

* **Statements of several processes interleave.** No queue driver uses a
  transaction. `pop()` of the database driver is a SELECT and an UPDATE that
  repeats none of the SELECT's conditions; `promoteDelayed()` removes an id and
  pushes it whether or not it was there to remove; batch counters, throttle
  counters and lists of tags are read, changed and written. Running several
  workers is a documented deployment
  (`src/docs/guide/deployment/docker.md:128`, `fly.md:119`).
* **Requests of one process interleave** at every await: on one SQLite handle,
  in the maps of connects and computations under way, in the sets of booted
  providers, in pooled request objects.
* **Processes die between two statements**, and what they reserved stays
  reserved: nothing reads redis's reserved set, and the SELECT of `pop()`
  skips reserved rows whatever `retryAfter` says. Migrations, files and offsets
  are left half done.
* **One step of several fails**: the job ran but `deleteJob()` failed; a
  connect, a hook or a subscription fails after it was noted as made.
* **State is used after an await**: the attempts in a popped record, the
  entry that `release()` of a lock compared, the time a template's file had.
* **Events come in another order**: sockets open, greet and close while
  others still do; a file changes while it is read; a timer fires while what
  it starts is under way.
* **Nesting**: the blocks of a template are cut out of its lines by searches
  that count, compare columns or stop at the first hit, each in its own way.
* **Time**: delayed jobs, leases that end while their holder works, grace
  periods, timeouts of requests that may have been carried out.

### What makes each component correct

* Queue drivers under the worker loop: a job pushed is never out of everybody's
  reach except where a process died holding it; it is given up only after
  `maxAttempts` failed runs; a chain keeps its order; a graceful shutdown
  abandons nothing; chains end.
* Batches: one that says it finished has; none that ran successfully stays
  unfinished; a cancelled batch is left alone.
* Locks: one holder at a time; a lock with a lease is freed. `remember()`: one
  computation at a time; no call waits for ever.
* Stores: what was put stays until it is forgotten or expires; the list of a
  tag names all that is stored under it; a flush by tags is complete.
* Transactions take effect all or not at all and end; the table of migrations
  names only migrations that ran; sessions are not lost to each other's writes;
  the throttle errs on neither side.
* Broadcasting: members hear of each other, listeners hear each event once and
  across reconnects.
* Servers: what is in flight is answered, nothing new is taken, the process
  ends. A request has its providers, its own object, the route the order of
  registration gives and the middleware that route was given, of which the JSON
  fast path may leave out what keeps state.
* Views are as fresh as the times of their files say; a template compiles to
  what its blocks mean, folded or not, and the linter agrees with the compiler.
  No update of a bot is
  skipped; a call of the HTTP client ends with the last answer there was; the
  watcher of the debug trail catches up.

## The modules

| Module | What it is |
|---|---|
| `Table` | the effect of one INSERT, UPDATE and DELETE by id on a table |
| `JobQueue` | what a queue promises whoever dispatches: an abstract specification |
| `LossyQueue` | the same queue where what a process has in hand may be lost with it; EXTENDS `JobQueue` |
| `DatabaseQueue` | the database driver, the worker loop, failed jobs, `queue:retry`; shown to implement `JobQueue` |
| `DatabaseQueueProofs` | its types, reservations and attempts, that no job is lost, the order of chains, the refinement of `JobQueue`, and what holds of one worker, proved |
| `RedisQueue` | the redis driver under the same loop; shown to implement `LossyQueue` |
| `RedisQueueProofs` | its invariants under any workers, the refinement of `LossyQueue`, and what holds of one worker, proved |
| `Batch` | batches over a cache store, with workers or the sync driver |
| `BatchProofs` | its counters, proved |
| `Mutex` | what a lock promises: an abstract specification |
| `CacheLock` | the lock over a store, shown to implement `Mutex` |
| `Remember` | `remember()`, which EXTENDS `CacheLock` and takes its steps: the composition of the two |
| `CacheProofs` | the refinement, the stampede protection and the sharing of computations, proved |
| `TaggedCache`, `FileStore` | the lists of tags; the file of one key |
| `SqliteTransaction`, `PooledTransaction`, `Migrator` | the database below the models |
| `SessionStore`, `Throttle`, `DebugTrail` | one session; one counter; the entries of the debug bar |
| `StoresProofs` | the invariants of the modules of the last three rows, proved |
| `WebSocketHub`, `EchoConnector` | both ends of the websockets |
| `RedisManager`, `RedisSubscriber` | connections to redis and what is subscribed on them |
| `NodeServer`, `BunServer` | requests in flight and how a server closes |
| `Providers`, `RouteTable`, `RequestPool` | what a request meets on its way |
| `HotReload`, `ViewCache` | route modules and views that are edited |
| `Template`, `StaticFold` | the lines of a template as they are written, and what the linter says of them; the conditions that are decided before a template runs |
| `ViewCompiler` | what a template compiles to; EXTENDS `Template` |
| `TelegramPolling`, `HttpClient` | calls to the outside |
| `Services` | the modules from `WebSocketHub` on but the compiler, with their invariants joined |
| `TemplateProofs` | what the linter tells and folding changes, proved |
| `ServicesProofs` | the invariants of `Services`, proved; EXTENDS `TemplateProofs` |
| `MCDatabaseQueue`, `MCRouteTable` | the instances TLC checks |
| `MCRedis`, `MCStores`, `MCServices` | the same for many components that share nothing |

One action is one request to the outside (a SQL statement, a redis command, a
request to a cache store, one access to a file) together with the code up to
the next `await`; that is the grain at which processes and calls interleave.
Variables whose comment says "history" are written by actions and read by
properties. `ledger`, `dropped`, `forgotten` and `lapsed` of the queues and the
lock are histories too: actions read them only to number a new row (as
AUTOINCREMENT and INCR do), to dispatch each payload once, and in a bound.

### The harnesses

`MCRedis`, `MCStores` and `MCServices` extend the modules of components that do
not touch each other. `part`, chosen in the initial state, names one of them: a behaviour
is a behaviour of that part, and all others stay as they began. The reachable
states are the sum and not the product of the parts, one run checks each part
as a run of its own would, and an invariant of another part is true of its
initial state. Where two parts answer one question their invariants are joined:
`StoredInv` and `TransactionsInv` in `MCStores`; `BroadcastInv`, `ServersInv`,
`DispatchInv`, `RoutingInv` and `ClientsInv` in `Services`, which `MCServices`
extends by the compiler with `CompilerInv`. `DispatchInv` is also about the
views a request meets: their caches, what the linter says of them
(`TemplateInv`) and their folding (`FoldsOnlyWhatIsKnown`). A queue is there
with workers one at a time under every fault ("alone") and two at once ("crowd"),
the lock alone ("lock") and with `remember()` on it ("remember"). In the same
way `setting` in `MCDatabaseQueue` chooses between "alone" and "crowd"; a third
setting, "calm", is what `database_queue_workers` checks.

### DatabaseQueue and JobQueue

`jobs` and `failedJobs` are the two tables, functions from ids to rows. Of a
row the model keeps queue, payload, attempts, whether `reserved_at` is set and
whether `available_at` lies in the future. A payload is the sequence of jobs
it carries: the job and its `chain`. `pc[w]` is where worker `w` is:

    stopped -> loop -> reserve -> run -> (chain) -> delete -> loop
                 |                  `-> record -> discard -> loop     given up
                 `-> asleep         `-> release -> rewrite -> loop    retried

`Select` and `Reserve` are the two statements of `pop()`; `ReleaseRead` and
`ReleaseWrite` those of `release()`. `Succeed`, `Fail` and `HookFails` are the
outcomes of `QueueWorker.process`. `FinishFails` is a failure of the chain's
push or of `deleteJob()`, which the loop's catch takes for a failure of the
job; `CatchFails` one inside the catch, which ends `run()`. A worker that
stops may be started again, as its supervisor does. `Operator` runs
`queue:retry`: `RetryFind`, `RetryPush`, `RetryDelete`.

`ledger[i]` remembers of the i-th row inserted how many of its runs failed,
whether one succeeded and whether it was declared permanently failed.

`JobQueue` says what whoever dispatches may expect of any driver: an entry is
pushed because it was dispatched, is the rest of a chain whose last job ran, or
was given up and is retried; it is run, perhaps more often than once; it is
given up after `MaxAttempts` failed runs and no sooner; and it leaves the queue
only when a run succeeded and the rest of its chain was pushed, or when it was
given up. `entries` is a table by id, of which an entry is never removed.
`ImplementsQueue` maps `entries` to `ledger` and `queued` to the ids
of the rows in `jobs`: reservations, releases, popping the same row, dying and
failing statements are internal steps. TLC checks it on an instance and
`TheTableIsAQueue` proves it.

### RedisQueue

`envelopes` are the `job:<id>` keys, `ready` the list, `delayed` the sorted
set with whether each score has passed. The actions follow the commands:
`FindDue`, `Undelay`, `Promote` are `promoteDelayed()`; `Pop`, `Load`,
`Reserve`, `Index` are `pop()`; `FindForDelete`, `Delete`, `Clear` are
`deleteJob()`; `FindForRelease`, `Rewrite`, `ReleaseDelayed` are `release()`;
`TakeId`, `SaveNew`, `Link` are `pushRaw()` and `later()`. The reserved set is
written and never read, and an envelope's dates are never compared: both are
left out. The two ZREMs of `deleteJob()` are one step and so are SET and ZREM
in `release()`, because of that. An id is `Recorded` when it was given up and
its payload is in `failed_jobs`. The process hook and `queue:retry` behave as
in `DatabaseQueue` and are modelled there only.

`LossyQueue` says what is left of the promise of `JobQueue` on this driver.
Processes have a `hand`; one that dies, or is refused a command, may take what
is in its hand out of the queue with it (`Lose`), and an entry that left comes
back into a hand when a process writes an envelope it loaded before another
deleted it (`Return`, of an entry that was finished or lost). All else is as in
`JobQueue`: an entry that is in nobody's hand leaves only when it ran and the
rest of its chain was pushed, or when it was given up and no sooner than after
`MaxAttempts` failures. `ImplementsLossyQueue` maps `entries` to the ids whose
push has come to its end (`Entries`), `queued` to those with an envelope that
are in a list or in somebody's hand (`Waiting`), `hand` to `element` and `lost`
to `dropped`; the commands by which an id moves between the lists, `release()`,
and a push until its last command are internal steps.

### Batch

`batch` is the cache entry. `Find` and `RecordSuccess` or `RecordFailure` are
the two requests of a recording; `Found` says what the code works on after the
first: the stored object itself on the array store, whose `get()` returns it,
and a copy on the file and redis stores. `setup` says which of them, and
whether the jobs go to workers or through the sync driver, which runs each
inside `dispatch()`; it is chosen in `Init` and never changes. Each job is
taken by one worker at a time: the races of the queue itself are in the queue
modules. The framework's `queue:work` builds its worker without a batch
repository (`queue/src/queue-service-provider.ts`): the module is about an
application that passes one, as the tests do.

### CacheLock, Mutex and Remember

`entry` is the lock's cache entry, `stage` where each `CacheLock` object is.
`AtomicAdd` says how the store's `add()` works: one request on redis (`Add`,
SET NX EX), two on the array and file stores (`AddHas`, then `AddPut` after
the await). `Expire` ends the lease of the entry's owner. When that may happen
is a matter of `Faults`: an owner that is gone loses it in any case; one whose
callback runs, with "overrun"; one between the two requests of `release()`,
with "stall". `Holders`, the clients that hold the lock and whose lease has
not run out, is what `Mutex` sees of all this.

In `Remember` a client of `CacheLock` is one call of `remember()`. `at` says
where the call is and `pending` is the map of each repository. Each step that
touches the lock is a `CacheLock` action conjoined with the call's own step:
`GetLock` is `Add` or `AddPut`, `Unlock` is `ReleaseGet`, `Forget` is
`ReleaseForget`, `LockTimesOut` is `TimeOut`. `Kill` ends a process and all its
calls.

### What keeps state outside a request (MCStores)

* `TaggedCache`: `tagged` are the keys that have a value, `tagIndex` the list
  of each tag, `tagOp` the call of each user. `ReadIndex` and `WriteIndex` are
  the two requests by which a list is changed; `TaggedFlush`, `Collect`,
  `DropKey`, `ClearTag` are a flush. A key whose last `put()` met another call
  is `unsure`: its entry may be missing from a list, and the properties are
  about the others. What an `unsure` key can lose is what `tag_flush` shows, on
  the behaviours of `CalmTagSpec`, in which nothing fails and only `put()`s
  meet.
* `FileStore`: `file` is what the file of one key holds. Opening it for writing
  empties it (`Open`, `WriteFile`); `GetExpired` and `RemoveFile` are the two
  steps of a `get()` that finds it expired. `FlushFiles` changes no file, since
  `rm()` rejects the directories they are in (`file_flush`).
* `SqliteTransaction`: `owner` is whose BEGIN opened the transaction the one
  handle is in, `uncommitted` its rows and those of others that fell into it.
* `PooledTransaction`: `lent` is the client each transaction has of the pool. A
  nested `transaction()` takes another.
* `Migrator`: `done` counts the statements of each `up()` that took effect;
  `log` is the table; `todo` are the migrations a run found pending, of which
  it takes the smallest next.
* `SessionStore`: `UpdateSession`, `InsertSession` and `RetryUpdate` are the
  statements of `write()`, `Look` and `DestroyExpired` those of `read()`.
  `recognised`, chosen at the start, says whether the database's error for a key
  that exists is one `isUniqueOrPrimaryKeyConflict()` knows: SQLite's and
  Postgres' are, MySQL's is not.
* `Throttle`: `GetEntry` is what comes before the await of the store's `get()`,
  `OpenWindow`, `Count` and `TurnAway` what follows; `handsOut` says whether
  the store hands out its object or a copy. An entry goes by the request that
  opened its window.
* `DebugTrail`: `entries` in memory, `trailFile` on disk. `Directory`,
  `OpenTrail`, `WriteTrail` are one `persist()`, of which several may be under
  way; `Refresh`, `ReadTrail` and `ShowEntries` are `debug:watch`.

### What serves requests and events (MCServices)

* `WebSocketHub`: one action per callback of a socket. `counted` and `heads`
  are histories: the members a client knows, and how many, when it adds up the
  list and the joining and leaving it was sent.
* `EchoConnector`: `link` is each socket, `current` the connector's, `task` the
  async calls under way (subscriptions, resubscriptions, the flush of what was
  pending), `atHub` what the hub makes of the messages of each socket, without
  the rest of the hub. `Revisit` keeps the loops of `resubscribeChannels()` in
  step with the map they walk, which grows and shrinks under them.
* `RedisManager`: an attempt is the promise of one connect and the client it
  ends with; a promise that failed stays in the map. `StartClose` sends QUIT,
  `EndClose` empties the map after the answer, `CloseThrows` is a `quit()` that
  was rejected.
* `RedisSubscriber`: `subscribe()` lists the listener first and then asks the
  duplicate connection; the hub's `startRedisSubscriber()` is one of the
  callers.
* `NodeServer`: connections (`peer`) and the requests on them (`exchange`), some
  pipelined behind others (`ahead`). `Respond` decides whether the response will
  say Connection: close, `Finish` is when Node writes it, in the order of the
  requests, and ends the connection if it does; `BreakOff` is a body that cannot
  be read to its end. `CloseServer`, the timer of its grace period, and a second
  signal.
* `BunServer`: requests in flight, calls of `close()` with the one slot for
  whoever waits, the signal handler.
* `Providers`: `boot()` with its hooks, and calls that boot lazy providers on
  their way, whose hooks may fail or outlast other calls.
* `RouteTable`: routes, the compiled table and the three ways a path is matched
  as operators; `AddRoute`, `ThrottleRoute`, `Compile`, `ResetRoutes`. `given` is
  all the middleware a route was given, `labels` what of it was given by name,
  `inputs` what the next compilation resolves; `Pipeline` is what of it runs,
  after the JSON fast path, which `Qualifies` decides. A path
  is a sequence of words, a pattern one of words and parameters; `Captures` is
  what the regular expression that a pattern becomes contains of slashes.
* `RequestPool`: an object wraps the request of a dispatch and holds what that
  set; `Release` gives it back while the handler may still be using it.
* `HotReload`: edits of route modules, the debounced timer, and
  `reloadRoutes()` one await at a time.
* `ViewCache`: one view, its entry in memory and on disk, loads, a preload and
  the worker pool. `edition` stands for the text of the file and for its time
  of modification; `engine` says whether there is a directory of compiled views
  and whether it is trusted without a comparison of times.
* `Template`: a writer adds lines to a template and remembers which blocks and
  branches each is meant to be in (`blocks`, `meant`). A line is what it is
  (text, an opening, a branch, an end), the directive it belongs to and its
  column. `LintPasses` is the linter's stack: at no line more ends than
  openings, and as many in the end. Whether a component line opens a block is
  told by `ComponentEnd` from columns, for the linter and the compiler alike.
* `ViewCompiler`: `CompileSource` has to find what was meant from the lines.
  `ParseOps` is the loop of `parseOps()`; `NestedEnd`, `BranchBoundary`,
  `EmptyBoundary`, `SwitchBoundary` and `ComponentEnd` are its five ways to find
  where something ends; `ParseBranches`, `ParseCases` and `ParseSlots` split a
  body. A compiled template is the set of its lines, each with the conditions
  around it.
* `StaticFold`: the mode of a conditional, the environment, and a condition that
  is written token by token: every kind of literal the folder knows, a path, and
  operators. `Static` is `evaluateStaticBoolean()`, whose calls within each other
  are written out as `Static1` to `Static5`: no condition of these tokens nests
  them deeper. `FoldedTruth` is what the compiler decides; `Renders` what the
  renderer makes of the same directive, where a word by itself is looked up in
  the context and all else is JavaScript.
* `TelegramPolling`: `loop` are the runs of `poll()`, `confirmed` is what
  Telegram has forgotten.
* `HttpClient`: one call of `send()`, the timers of its attempts, and a server
  that may carry out what nobody waits for.

## What the runs show

Bounds are chosen for the smallest instance in which the hazard occurs: two
workers race for one row; a chain of two has a next job; two attempts make a
retry and a giving up; with three jobs two recorders overwrite each other's
counts while a third job is to come; three calls make two in one process and
one in another; three sockets exceed a limit of two; three calls of a lock or
three requests to the throttle make one more than may pass.

| Run | Instance | Shows |
|---|---|---|
| `database_queue_workers` | two workers, a chain of two, SIGTERM | `ReservedRowsAreHeld`: a graceful shutdown leaves no row reserved without a worker that will settle it, although both may have popped it. `ChainsRunInOrder`. `EveryChainSettles`: the chain ends, run or given up |
| `database_queue_faults` | one worker at a time with `maxJobs`, a chain of two, every fault; or two workers and an operator with one retry, crashes | `NoJobLost` and `GivenUpOnlyAfterMaxAttempts` with failing statements, a throwing hook and crashes at any step, where copies of a job can be in `jobs` and `failed_jobs`; `AloneRunsAtMostMaxAttempts`; `OrphansStay`: a row a dead worker reserved is never handed out again; `HandledJobsDoNotRunAgain`; `ImplementsQueue` |
| `redis` | the parts of `MCRedis`: two workers, one job now or later, crashes, refused commands; one worker at a time, a chain of two, SIGTERM too; three jobs of a batch, two workers, every setup, every fault; three clients of a lock, leases, crashes, overruns; three calls of `remember()` in two processes, crashes, refused requests, throwing callbacks | `DeliveryInv` (`OnlyHeldJobsAreLost`, `GivenUpOnlyAfterMaxAttempts`) and `ImplementsLossyQueue` although two workers can promote, run, release and delete one id at once; with one worker `PlacesInv` and `HandledJobsDoNotRunAgain`. `BatchInv`: lost updates can only make a batch finish late, and on the array store every run is counted; `CancelledIsFinal` and `SuccessFinishes`. `ImplementsMutex`, `LocksInv`, `NoStampede`, `EveryCallReturns` |
| `stores` | the parts of `MCStores`, among them the lock and `remember()` on a two-request `add()` under every fault | `NoStampede` in one process through the map alone; `AlwaysFreed`; `StoredInv`; `TransactionsInv` and `TransactionsEnd`; `MigratorInv`; `SessionsAreKept`; `ThrottleInv`; `WatcherCatchesUp` |
| `services` | the parts of `MCServices` | `BroadcastInv`, `EchoInv`, `ConnectionsAreKept`, `ServersInv` and `ShutdownEnds`, `DispatchInv`, `RoutingInv`, `CompilerInv`, `ClientsInv` and `SendEnds` |
| `cache_lock_array`, `file_flush`, `tag_flush`, `echo_listeners`, `bun_shutdown`, `hot_reload`, `view_branches` | | violations, see below |

What the properties of the two large runs say in detail stands above each of
them in its module. Most of them hold with an exception that the module names,
often by a history variable, and the exception is part of what they show:

* `PutsStay` but for a `put()` that meets another or a `get()` about to remove
  the file. `StoredKeysAreIndexed` and `FlushLeavesNothing` but for keys whose
  last call met another, or was interrupted (`unsure`).
* `WritesGetThrough`: a write of a session throws only if the row it collided
  with went before its second update, or, where the database's error is not
  recognised, if another write was first.
* `LimitHolds` but for one excess pass per request that was counted at once with
  others.
* `ChannelsSurvive` is about the moments when no call is under way, no reconnect
  is due and the last greeting or close was not that of another socket than the
  one in use; and not about a channel whose authorization was refused, or came
  for another socket with nothing left that would ask again, or that was left
  while it was subscribing (`marred`).
* `StoredIsLive` but for a client whose `quit()` is under way or was rejected;
  `LeaksWereOvertaken`: no client of redis leaks but one per connect that a
  `close()` overtook. `FailureSticks` states what the code does, not what one
  would wish: a connect that failed stays.
* `RequestsDrain` but for a request behind a response that says Connection:
  close, and one on a connection that a body broke, which was too long or could
  not be read.
* `RequestsAreTheirOwn` but for what a handler sets on its object after its
  response was out: the next dispatch on that object finds it, and nothing in
  the code prevents it.
* `GivenMiddlewareRuns` but for a route that was throttled after it was compiled,
  and for what the JSON fast path leaves out, which keeps state and is of routes
  that do without (`src/docs/guide/performance.md:41` documents that).
* `EntriesAreHonest` but for a template of the worker pool; `NestsAsMeant` but
  for the kinds of `trouble`, `LintTells` but for one of them ("component"), and
  `FoldsOnlyWhatIsKnown` but for what is `Misread`, all described below.

Named bounds: `MaxRetries` (retries operators start; one is enough to have a
job in both tables), `MaxFailures` (failed runs of one id in `RedisQueue`),
`Link`, `Attempt` (sockets and connects there may be), `MaxRoutes`, `MaxEdits`,
`MaxChanges`, `MaxUpdates`, `MaxStarts`, `MaxCrashes`, `MaxDestroys`,
`MaxLines` (of a template; six hold two blocks with their ends in each other or
one after the other, with a branch and a line of text), `MaxTokens` (of a
condition; five hold three operands that operators join, or two with both
negated, and all pairs of operators);
a template mixes the directives of one of `Dialects`, each a pair that shares a
way to search for ends, with components indented and all else at the margin;
in conditions a string holds no operator, a comparison is not compared again,
`@empty` is given one operand, a negation is not negated, numbers are 0 and 1,
and there are no parentheses and no other operators, of which the folder knows
none (it leaves them to the renderer, but for what is within quotes or literals
as above); compiler and renderer are told the same environment
(`views/src/view-engine.ts:793`);
of the connector, three sockets are what an ordinary reconnect needs: the one
that closed, the one the timer makes, and the one its first resubscription makes
while that is still connecting; a behaviour of the run ends with the first
channel that is `marred`;
`RedisManager` has one `close()` under way at a time; `throttle()` is called
once per route; a request, a call or an entry is made once by each member of its
set. `MaxFailures` cuts real behaviour: two workers that hold the same id can
undo each other's count of attempts for ever, since `pop()` writes back the
envelope it loaded, so runs of one id have no bound in the code. With
`MaxFailures` at twice `MaxAttempts` every such undoing occurs and the
invariants are about any number of them; no claim of termination is made for
the redis driver. `TracksFailures` is TRUE in every run; the branch without a
repository of failed jobs is covered by the theorems only.

Symmetry is used on workers in `database_queue_faults` and nowhere else.
Deadlock checking is off where the system ends: all jobs, calls or requests
have ended, or the template is full. The database queue never ends, and is
checked for deadlock; `redis` has parts that end beside its queue.

`HandledJobsDoNotRunAgain`, `AloneRunsAtMostMaxAttempts` and the places of an
id are about a single worker: with two workers that popped the same row a job
may run more often than `maxAttempts` and again after it succeeded. That is the
at-least-once delivery of this queue, and what is left of the guarantees then
is what the same runs check with two workers.

### Fairness

* `DatabaseQueue`: each `queue:work` process takes steps and is restarted when
  it exits (the deployment guides run it under a supervisor), `available_at` of
  a delayed row comes, and signals end. Nothing is assumed of producers,
  operators or of how jobs end. No other fault is enabled: a worker that dies
  leaves its row reserved for good, and the chain with it (`OrphansStay`).
* `Batch`: `dispatch()` goes on, and workers take steps. Crashes, refusals and
  a cancel may come at any time; the property says what happens otherwise.
* `CacheLock`: time passes (`Expire`), and a `release()` that began goes on.
  A client may keep the lock for ever: its lease ends.
* `Remember`: each call's process takes steps while it lives and a callback
  ends. No fairness of leases is needed: a lock that stays taken makes
  `block()` time out.
* `PooledTransaction`: the database answers and callbacks end.
* `DebugTrail`: what was begun goes on, and the system tells the watcher of
  changes. `HotReload` assumes the same of its watcher and its timer.
* `NodeServer`: timers fire, and the callback of `server.close()` is called
  once no connection is left. Nothing is assumed of handlers and clients.
* `HttpClient`: the call goes on after its delay and the timers of its attempts
  fire. The server may never answer.

## Where the code and what is said of it differ

* **Locks on the array and file stores are not exclusive** (`cache_lock_array`).
  `add()` awaits `has()` and then puts, so two `acquire()` calls that overlap
  both succeed. `src/ROADMAP.md:199` speaks of "cache-backed atomic locks";
  `cache/src/cache-lock.test.ts:8` of locks that array stores acquire
  "exclusively".
* **A listener added before the socket is open is called twice**
  (`echo_listeners`): `listen()` binds it at once and the subscription binds it
  again (`echo/src/channel.ts:38`, `:99`).
* **Under Bun SIGTERM cuts requests off** (`bun_shutdown`): the handler calls
  `process.exit(0)` without the drain of `close()` (`core/src/server.ts:84`).
  `src/docs/cookbook/observability.md:82` says in-flight requests drain.
* **A file cache that holds anything cannot be flushed** (`file_flush`):
  `FileStore.flush()` calls `rm()` without `recursive` on what lies in the
  cache's directory, and these are directories (`cache/src/file-store.ts:65`,
  `:69-72`), so it rejects and every file stays. `src/docs/guide/cache.md:43`
  says of `Cache.flush()` "Clear the entire cache" and lists the file driver at
  `:52`.
* **A flush of a tag misses keys** (`tag_flush`): of two `put()` calls under one
  tag that overlap, the second to write the tag's list drops the key of the
  first (`cache/src/cache-repository.ts:137-139`), and flushing the tag leaves
  it. `cache/src/tagged-cache.test.ts:18` expects it to be gone, and
  `src/ROADMAP.md:447` lists `Cache.tags(...).flush()`.
* **A change during a reload is not loaded** (`hot_reload`): a timer that fires
  while `reloadRoutes()` runs returns and nothing runs later
  (`core/src/dev-hot-reload.ts:27`). `src/ROADMAP.md:628` says route files are
  reloaded on change.
* **A nested `@if` with a branch is reported as unclosed** (`view_branches`):
  the search for branches stops at the first `@else` or `@elseif` of any `@if`
  (`views/src/compiler.ts:1684`), and what is before it is compiled without its
  end. The error says "Unclosed directive" of a template that has all its ends.

Remarks on behaviour no run reports, because nothing in the repository says
otherwise or because a property makes an exception for it:

* Batches: `recordSuccessfulJob()` finishes a batch only if no job failed,
  `recordFailedJob()` whatever else happened: a batch whose last job succeeds
  after another failed has nothing pending and never finishes (`batch.ts:64`,
  `:79`). A job that is retried is recorded as failed once per attempt
  (`batch.ts:78`), so with `maxAttempts` above one a batch on queue workers
  finishes while jobs are still to run; the run has `MaxAttempts = 1` for that
  reason. `cancel()` stops none of the jobs, and on file and redis stores a
  recording under way undoes it.
* Locks: `release()` compares the owner and deletes the entry in a second
  request; if the lease ends in between ("stall") it deletes the next owner's.
  A `remember()` callback that takes longer than the lock's ten seconds lets a
  second process compute ("overrun"). `ImplementsMutex` and `NoStampede` over
  processes are checked and proved without the one and the other.
* Queues: `retryAfter` delays a released job; it does not free the row of a
  worker that died.
* Sessions: `write()` inserts a row that is not there and, if another write was
  first, updates once more. It knows the other write by the text of the error
  (`session-store.ts:77`, `:167-182`), and MySQL's, "Duplicate entry ... for key
  'sessions.PRIMARY'", is not among the texts: on MySQL, one of the drivers of
  `src/docs/guide/database.md:26`, the slower of two first writes throws.
* A nested `DatabaseManager.transaction()` takes a second client and commits by
  itself; as many nesting callers as the pool has clients wait for each other.
* Hub: an error event of a socket leaves its client in the hub, and it counts
  against the limit for good. Echo: `connect()` opens another socket while one
  is connecting, and every channel `resubscribeAll()` comes to calls it, so that
  an ordinary reconnect with n channels makes n sockets more than the one it
  needs. They stay open, and a later greeting or close of one of them sets or
  clears the id the others are authorized with: private channels that subscribe
  then are signed for a socket that is not in use, or wait for a greeting that
  does not come. An authorization that returns after a reconnect marks its
  channel subscribed though the hub refuses it; a resubscription sends no channel
  data.
* Redis: a connect that failed stays in the map, so every later call gets its
  error (`FailureSticks`). A `quit()` that is rejected makes `close()` throw
  before the map is emptied (`redis-manager.ts:50-57`), and callers go on getting
  a client that was sent QUIT.
* Node: after `close()` every response says Connection: close
  (`core/src/node-server.ts:51-53`), so Node ends the connection behind it and a
  request that was pipelined there, and may be in its handler, gets no answer. A
  response whose body fails destroys the connection (`:352-353`).
* Request pool: an object goes back when the dispatch is over
  (`http/src/router.ts:471`). What a handler sets on it after that is found by
  the next request that is given the object.
* Providers: two calls that need the same lazy provider do not wait for each
  other, and the second is dispatched without it.
* Router: `throttle()` on a route that was compiled drops the route's other
  middleware. The trie finds no route with a parameter: it is built from patterns
  whose parameters are regular expressions already (`http/src/router.ts:675`),
  and the slash in these splits them; the scan of all routes answers instead.
  Whether a GET takes the JSON fast path is decided by the names its middleware
  is given by (`json-fast-path.ts:38-58`), and what it leaves out by tags
  (`:79-84`): a `csrf` or an `auth` that is given as a function has no name and
  does not keep the session in.
* Views: the worker pool of `view:cache` reads a file before it takes its time
  (`parallel-compile.ts:63`, `:67`), so an edit in between stores an old
  template under the new time.
* View compiler, the kinds of `trouble`: a line that begins with `{{` at the
  margin inside an `@if` is taken for a branch and skipped ("echo"); a
  `@switch` in a `@case` never stops compiling ("switch"); the slots of a
  component in another go to the outer one ("slot"); and the branches of a nested
  `@if` ("branch"). The kind "component" is two things. The search for the end of
  a component looks at the column of the next `@component` wherever that is
  (`views/src/compiler.ts:1502-1519`), so that one at the same column makes the
  first self-closing: its body is rendered outside of it and its `@endcomponent`
  as text. And the body of a template that has slots of its own (`DefinesSlots`,
  `:334-356`) is cut at every `@slot`, those of a component it opens included
  (`:1572-1574`), so that a component with slots loses its end; `trouble` takes
  every component such a template opens, those without slots too.
* Folding, what is `Misread`. Of the compiler
  (`views/src/conditional-folding.ts`): `'a' === 'b'` is read as one string,
  `!a && b` as the negation of `a && b`, and `a || b && c` is split at `&&` first
  (`:146`); `[]` and `{}` that are not compared fold to false, which JavaScript
  takes for true; `@local` is folded to true in development, where the renderer
  shows it in local only. Of the renderer: a word by itself is looked up in the
  context (`views/src/evaluate.ts:65`), `true` and `1` as well, and is not
  there, so that `@if(true)` and `@if(1)` are folded to true and would not be
  shown, and `@empty` of `true`, `false`, `0` or `1` is folded to false and would
  be shown. An environment that is empty leaves `@env`, `@production` and
  `@local` to the renderer; `setEnvironment()` after a configuration with `env`
  changes the renderer's only (`views/src/view-engine.ts:197`, `:793`).
* Telegram: a `stop()` followed at once by `start()` lets two loops run; the
  409 one of them gets ends all polling.
* HTTP client: a call that fails may have been carried out as often as it has
  attempts, a POST too; the response of an earlier attempt is returned when a
  later one had none.
* Debug: overlapping writes may leave older or torn text in the file;
  `load()` keeps the last entries of the file, which are the oldest. The audit
  log of `admin` and the store of correlations write their files in the same
  way.

## What is proved

Of every invariant and action property the passing runs check, but for
`CompilerInv` and the type invariants of the harnesses, there is a theorem. All
theorems are about every value of the constants: any number of workers, any
jobs, clients, calls, routes and limits, under every combination of faults
unless one is excluded by name, and under the assumptions the modules state
(`LimitAssumption`, `WorkerAssumption` and so on, which TLC evaluates in every
run). The assumptions ask for no more than that limits are numbers, that sets
which are counted are finite, and that a null value is not one of the values
it stands beside.

Each proof has the same shape: an invariant that is inductive, with one lemma
per action or per kind of action; that it implies the property; and one
temporal step. What follows says what had to be added to the property to make
it inductive, which is why it holds.

**DatabaseQueueProofs.**

* `TypeCorrect`: `Spec => []TypeOK`. The invariant is `TypeInv`, which adds
  `Linked`: a popped record names a row that was inserted with that payload.
  Without it `ledger[record[w].id]` may be anything.
* `ReservedRowsHeld`: `Spec => []ReservedRowsAreHeld`. Inductive on top of
  `TypeInv`: a step that ends a worker's responsibility deletes or releases the
  row it answers for, and a step that reserves a row makes its worker
  responsible. The lemma `HeldFrame` covers the steps that change neither.
* `GivenUpTooSoonNever`: `Spec => []GivenUpOnlyAfterMaxAttempts`. The property
  is far from inductive: a decision is made on a number read long ago while
  releases overwrite each other. The strengthening is `AttemptsEarned`: each
  number of attempts anybody may act on (the row's, a popped record's, one read
  by `release()`) *plus the number of workers that still have to release that
  row* is at most the number of failed runs. Overwriting loses counts and
  never invents them. The proof counts with `Cardinality`, through
  `FewerReleasing`.
* `NoJobIsLost`: `Spec => []NoJobLost`. `EveryJobSafe` says it of each job and
  of what workers are about to do: a worker that is to push the next job of a
  chain has run the one before, one that is to delete has pushed it, one that
  is to discard has recorded the failure. The lemmas `KeepsNotes` say that the
  ledger only grows, so a worker's grounds for removing a row outlast any other
  worker's doing.
* `ChainsKeepTheirOrder`: `Spec => []ChainsRunInOrder`, with the pushes that
  are still to come.
* `TheTableIsAQueue`: `Spec => ImplementsQueue`, the refinement of `JobQueue`.
  Every action of every process maps to a step of the abstract queue or to
  none; `EveryJobSafe` gives the guards of the abstract `Settle` and `GiveUp`,
  `AttemptsEarned` that giving up is not too soon.
* `OrphansRemain`: `Spec => OrphansStay`.
* `OneWorkerKeepsCount`, `OneWorkerRunsOnce`: over `MCSpec`, whose part "alone"
  has one worker at a time. `AloneSafe` says that the worker has the row as it
  is in the table (`HoldsRow`), that a row in the table has an attempt left
  (`RowsCount`) and that no job failed too often (`RunsCount`).

**RedisQueueProofs.**

* `RedisTypes`, with `Linked` as above: ids in lists and hands were taken.
* `OnlyHeldJobsGetLost`: `Spec => []OnlyHeldJobsAreLost`. `EveryJobSafe` says
  where an id is between each two commands, for a job that may be in the list
  twice and in two workers' hands, and whose envelope one of them may have
  deleted because it ran.
* `RedisGivesUpLate`: `Spec => []GivenUpOnlyAfterMaxAttempts`, by the argument
  of `AttemptsEarned`. Here `pop()` writes back a whole envelope it loaded
  before, so the copies in workers' hands are counted as well.
* `RedisDelivers`: the two as the run checks them, `Spec => []DeliveryInv`.
* `RedisIsALossyQueue`: `Spec => ImplementsLossyQueue`, under every fault. A
  step is an abstract push when the last command of `pushRaw()` or `later()`
  returns; `EveryPushKept` says that an id before that was neither run nor
  dropped, and that what a worker pushes is the rest of a chain it ran.
  `EveryJobSafe` gives the guards of `LeaveQueue`, `Return` and `Lose`,
  `AttemptsEarned` that of giving up. The lemmas `EntryOf...` say what each
  kind of step does to `Entries`, those ending in `Refined` which abstract step
  an action is.
* `IdsAreInOnePlace` and `OneWorkerRunsOnceInRedis`, over `KeptSpec` of
  `MCRedis`, where workers of the part "alone" run one at a time. `AloneSafe`
  adds to `PlacesInv` that what is in a list may be run once more
  (`QueuedMayRun`) and what the one worker holds is nowhere else (`HoldsId`).

**BatchProofs.**

* `BatchTypes`; `CancelIsFinal`: `BatchSpec => CancelledIsFinal`.
* `BatchCounts`: where jobs have one attempt, `BatchSpec => []BatchInv`.
  `ClaimsHold` is about whatever counters there are, those in the cache and
  those in the hands of a recording: each *claims* no more ends of jobs than
  there were. With the array store the counters are exact but for the
  recordings under way. One attempt is needed because the code records a
  retried job as failed at each attempt (see the remarks above).

**CacheProofs.**

* `LockTypeCorrect`, for any store and fault.
* `LockIsMutex`: under `Orderly` (an atomic `add()`, neither "stall" nor
  "flush") `LockSpec => ImplementsMutex`, with the refinement mapping
  `holders <- Holders`. Its invariant is `HoldersOwnEntry`. Crashes,
  overruns and refused requests are included.
* `LockIsExclusive`: under `Orderly` two clients never rely on the lock.
* `StampedesAreKeptOut`: under `Sheltered` (an atomic `add()`, no faults but
  "crash" and "refuse") `RememberSpec => []NoStampede` for any number of calls
  and processes. The invariant `Guarded` ties where a call is to where its lock
  is, the lock to its entry, and a computation to the second look at the cache.
* `SharedComputationsEnd`: under `Orderly`, with callbacks that throw, time out
  or outlast their lease, `RememberSpec => []LocksInv`. `Led` says that each
  entry of `pendingRemember` has a call behind it that is on its way to settle
  it, and so has each call that joined one.

**StoresProofs** has a theorem per part (`SessionsKept`, `SqliteIsSafe`,
`PutsAreKept`, `TrailFollows`, `PooledIsSafe`, `MigrationsAreKept`,
`ThrottleIsSafe`, `TagsAreKept`) over the part's own specification, and from
these the theorems over `StoresSpec` that state what the run `stores` checks:
`WhatIsStoredIsKept`, `TransactionsAreWhole`, `MigrationsAreRecorded`,
`ThrottleErrsLittle`, `LiveSessionsAreKept`. The invariants:

* `SessionsSafe`: a row that is there was written by its writer, and a write
  that is to update once more is one whose error was recognised and whose row, if
  it is gone, was taken from it.
* `SqliteSafe`: the transaction the handle is in belongs to the one request
  that is inside its block, and holds what this one wrote so far.
* `PooledSafe`: clients in a transaction are lent, each to one transaction, and
  hold what that one wrote; a transaction that is saved resolved, or its COMMIT
  took effect and the answer was lost.
* `MigrationsSafe`: what a run is at is the smallest of what it has to do, all
  others it found pending are done, and a run that met no other has its batch
  number for itself.
* `ThrottleSafe`: the number in an entry, and in the hands of a request, lies
  between the passes that were not raced and all passes. It counts with
  `Cardinality` over requests, for stores that hand out their object and
  stores that hand out copies.
* `TagsSafe`: a key that met no other call is in the lists of its tags, in
  every copy of a list that is about to be written back, and among what a
  flush that read the list is about to drop.
* `FilesSafe`, `TrailSafe`: what the one write under way has in
  hand, and why a removal may be under way.

**ServicesProofs.** Theorems per part and then, over the conjunction of the
parts' specifications (each part is free to move with any other), the joined
invariants: `BroadcastsArrive`, `ServersAnswer`, `DispatchFindsItsOwn`,
`RequestsAreRouted`, `ClientsAreServed`. They are not stated over the harness,
since `MCServices` reaches the RECURSIVE operators of the compiler.

* `PresenceAddsUp`: `HubInv` is inductive as it stands. The work is in the
  lemmas about `Census` and `Heads`: what joining and leaving does to the
  members of a channel is what the messages say of it.
* `ListenersAreCalled`: `SubscriberSafe` says who will still ask redis for a
  channel that has listeners and is not heard.
* `ChannelsComeBack`: `EchoSafe` is the largest of the invariants. Of each
  channel the connector knows it says which asynchronous call will tell the hub
  (`Attended`, `Covered`), that no call is about a channel that was left
  (`Forgotten`), and where an authorization or a loop over channels has got to
  when the socket changes under it. All of it is about sockets that are made
  beside each other, in any number: what it asks of them is that the last
  greeting was that of the one in use.
* `RedisConnectionsAreKept`: `RedisSafe` counts: the connects under way and
  the live clients are at most one more than the connects a `close()` overtook.
  A stored client that was sent QUIT is the one a `close()` awaits, or that of a
  `close()` that threw (`QuitIsAwaited`).
* `ServersDrain`, `ClosersComeBack`: which requests run on which connection in
  which order, which response was the last of its connection (`final`) and
  therefore cut off what was behind it, and which of the `close()` calls is the
  one that is woken.
* `ProvidersAreReady`: the number of times a hook ran is at most the number of
  `boot()` calls beyond it; each lazy provider noted as booted is ready, broken
  or in the hands of a call.
* `RequestsStayTheirOwn`: objects in the pool are distinct and in nobody's
  hands.
* `RegistrationRules`: for any patterns the trie finds no route for a path of
  words, so the scan answers and the order of registration decides; what the
  table runs for a route is what the route was given, through `Pipeline`, which
  drops what the JSON fast path goes without (`RoutesSafe`).
* `ReloadsDoNotMix`: one reload at a time, and what has been registered is what
  was listed but for what is still to do.
* `ViewsStayFresh`: every entry, cached or in the hands of a call, is honest
  about its time and belongs to the directives its holder saw.
* `NoUpdateIsLost`, `LastAnswerIsGiven`: no loop of a bot asks beyond what was
  handled; the last response is that of the last attempt that had one.

**TemplateProofs.** Over the modules `Template` and `StaticFold` alone.

* `LinterTells`: `CompilerSpec => []TemplateInv`, for templates of any length.
  What the linter takes for the opening of a block depends on lines that are
  not written yet. `LinterInv` therefore says of each component line whether it
  will be taken for one (`ComponentsKnown`): an open one has no end yet and
  lies less deep than any component after it (`LintTells` excepts the kind of
  trouble in which it does not), any other is told already by the
  column of the next. And it says that every prefix is balanced and the whole
  has as many openings more than ends as there are blocks open, and one more if
  an end was forgotten (`EndsShort`). There is a lemma for each kind of line.
* `FoldingChangesNothing`: `FoldSpec => []FoldsOnlyWhatIsKnown`, for conditions
  of any length. The invariant `WellWritten` is that operands and operators
  take turns; given that, there is a lemma for each form of condition the folder
  knows, which says that the pieces it splits off are those the renderer splits
  off, and that each has the truth the renderer gives it, for every literal the
  folder knows. `@empty` and the modes of the environment are cases of their own.

**Only model-checked.** Liveness (`EveryChainSettles`, `SuccessFinishes`,
`AlwaysFreed`, `EveryCallReturns`, `TransactionsEnd`, `ShutdownEnds`,
`SendEnds`, `WatcherCatchesUp`): fairness and ENABLED are out of the prover's
reach. `CompilerInv`: the compiler is a set of RECURSIVE operators, what they
compute is a matter of induction over data, and it is checked for every
template within the bounds.

## Not modelled

Most of the framework's lines do nothing at the same time as anything else:
the renderer of views, validation, models and the query grammar, mail
and its MIME parts, notifications, the methods and types of Telegram's API,
responses, the adapters of databases, storage and AI services, command line
tools, generators and their templates. They turn one value into another for one
request, or pass a call on; a model of them would be their text again, and unit
tests reach them.

Within the components that are modelled: the encoding of payloads and the
registry of job classes (an exception of either is `Fail`); frames of
websockets; groups, names, urls and bindings of routes; view names and
namespaces; wording, logging and the texts of exceptions; statements whose
result is lost although they took effect, but for COMMIT; `load()` of the debug
store; directives within a line of a template, those that stand for a single
operation, the leading `@props`, `@aware` and `@memo`, and the linter's other
checks. The SMTP transport (`mail/src/smtp-transport.ts`) runs one conversation
per message and is left out, as is the scheduler, which runs what is due one
command after the other.

`PROJECT.json` gives the reason for each component.

## Plan

What is left, in this order:

1. Abstract specifications for the stores where a promise is plain: a
   transaction is one step, a session is a register.
2. The hub and the connector composed over one connection instead of the
   connector's own `atHub`, with `PresenceAddsUp` and `ChannelsComeBack` as
   what each end contributes.
3. The scheduler's `cronMatches` as a pure operator.
