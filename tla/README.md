# Contember Engine: a TLA+ model of its concurrent core

The repository is Contember Engine 1.x: an HTTP server that serves the GraphQL APIs
of many projects from PostgreSQL. Almost all of its 65 000 lines translate: a
schema to GraphQL, a query to SQL, a migration to DDL. What can go wrong in
an order nobody wrote a test for is concentrated in a few places: the connection pool,
transactions and savepoints on one connection, the queue of action events and its workers, the loops
that supervise workers, the caches of project containers and schemas, the migrations beside them, the
events a mutation collects and the order in which a nested mutation touches its rows. This project
models those, checks them with TLC, and proves with TLAPS every safety invariant and action property the passing
runs check, for any number of clients, rows, workers and calls.

Paths below are relative to `src/packages`.

## Inventory

| component | state | operations | talks to | hard behaviour | what makes it correct |
|---|---|---|---|---|---|
| connection pool (`database/src/client/Pool.ts`, `Connection.ts`) | idle stack, lent set, waiting queue, slots and rate tokens of connection attempts, five kinds of timers and immediates, the server's connections | acquire, release, dispose, connect outcomes, idle, retry, rate and acquire timers, error events, closeIdle, end | PostgreSQL client, every query of the server | callbacks racing for one connection; limits checked before an await; shutdown with work in flight | never over `maxConnections`; one borrower per connection; FIFO service; no slot lost; no connection forgotten; shutdown closes everything |
| connections, transactions, mutex (`database/src/client/AcquiredConnection.ts`, `Transaction.ts`, `utils/Mutex.ts`) | open transaction and savepoints, FIFO of waiters | scope, transaction, savepoint, commit, rollback, query, retry | pool, database | nested and concurrent use of one client; failed COMMIT; reentrance | statements of a transaction run inside it; no waiter is stuck; every transaction is closed |
| action event queue (`engine-actions/src/model/EventsRepository.ts`, `dispatch/EventDispatcher.ts`) | rows of `actions_event`; in each worker a batch and its copies | fetch, mark failed on unknown target, handle, persist, crash | triggers, webhooks, the schema | several workers, crashes, timeouts, late answers, schema changes | one handler at a time; bounded attempts; no event lost while a dispatcher is awake |
| project dispatcher (`engine-actions/src/dispatch/ProjectDispatcher.ts`, `database/src/utils/listen.ts`) | position of the loop, LISTEN, pending error, sleep | start, process batch, sleep, notification, timer, connection loss, end | queue, one connection, supervisor | notifications that come while the loop does not sleep; end() at any point | nobody sleeps past work; errors surface; end() ends |
| supervisor (`engine-common/src/runnable/Supervisor.ts`) | loop, restart counter, inner runnable | run, restart, backoff, end | any Runnable | end() racing a restart; counters | bounded restarts, growing backoff, no start after end() |
| dispatch worker supervisor (`engine-actions/src/dispatch/DispatchWorkerSupervisor.ts`) | map of running workers per project | start, reload on `project_updated`, destroy, endAll | containers, supervisor, dispatcher | reloads and destroys that overlap | one worker per project, none lost |
| project containers (`engine-http/src/project`, `engine-common/src/utils/PromiseMap.ts`) | map of promises of containers, aliases, timestamps | get, create, destroy | tenant database, content caches, worker supervisor | requests that find the same outdated container | create and destroy events match; no stale container served |
| content schema cache (`engine-http/src/content`) | base schema and one per stage | getSchema, clearCache | system API | concurrent builds, migrations in between | a schema is never older than what the caller could know |
| migrations (`engine-system-api/src/model/migrations`, `database-migrations`) | executed migrations, schema tables, advisory lock | migrate, force, modify, delete, truncate | database, schema cache | concurrent migrate, failure halfway, operations outside the lock | all or nothing, in order, the cache agrees with the tables |
| content mapper (`engine-content-api/src/mapper`) | the rows of a mutation, planned deletes | insert, update, upsert, delete with cascades and orphan removal, junctions | database, ACL, triggers | order of plans and events, partial permission | no row deleted without permission; events match changes |
| tenant API (`engine-tenant-api`) | people, sessions, API keys, tokens, memberships | sign in, prolong, reset, invite, OTP, IdP | database, mail | one-time tokens used twice, prolongation after disable | a token works once; disabled stays disabled |
| variables, triggers (`engine-actions/src/model/VariablesManager.ts`, `triggers`) | variables; changes collected during a mutation | setVariables; payload building | database, content mapper | read-modify-write; listeners that are not awaited | no lost update; an event for every change |
| HTTP server (`engine-http`) | configuration, middlewares | requests, transfer of content | all APIs | | |
| pure libraries (`authorization`, `schema*`, `graphql-utils`, query builders, `typesafe`, `dic`, `logger`, `queryable`) | none | functions | | | tested by tables in the repository |
| tools and plugins (`cli*`, `create`, `config-loader`, `migrations-client`, `*-plugin`, `engine-server`, testers) | none of interest | I/O | | | |

`PROJECT.json` lists the same components with the status of each, and under
`hazards` the lines where they can go wrong.

## Modules

| module | models | composed with |
|---|---|---|
| `Lending` | what a pool promises its clients: arrival order, one borrower per connection, nothing after the end | abstract specification of `Pool` |
| `Pool` | the connection pool and the borrowers of `Connection.scope` | refines `Lending` |
| `Transactions` | one transaction of a connection with its savepoints, the mutex of each handle, the server's session | |
| `EventQueue` | the rows of `actions_event`, any number of workers, the schema | |
| `ProjectDispatcher` | one dispatcher's loop, its listener, its connection and the mutex of it | |
| `Supervisor` | `Supervisor.run` over a Runnable | |
| `ProjectContainers` | `ProjectContainerResolver` over its store of promises, the project's row | |
| `DispatchWorkers` | `DispatchWorkerSupervisor.run` | extends `ProjectContainers`, whose steps it makes; proved to implement `ContainersSpec` |
| `Migrations` | `migrate`, `forceMigrate`, `migrationModify`, `migrationDelete` on `schema_migration` | |
| `SchemaCache` | `ContentSchemaResolver` and the queries of `SchemaVersionBuilder` | extends `Migrations`, beside which it reads |
| `OneHasOne` | the four one-has-one input processors over one `Mapper` and the rows of two entities | |
| `Triggers` | the listeners of a watch trigger, the events they collect, the payloads stored before COMMIT | |
| `PoolProofs`, `TransactionsProofs`, `EventQueueProofs`, `SupervisorProofs`, `DispatchWorkersProofs`, `SchemaCacheProofs`, `OneHasOneProofs`, `TriggersProofs` | theorems and proofs | extend the module they are about; `DispatchWorkersProofs` holds those of `ProjectContainers` too, `SchemaCacheProofs` those of `Migrations` |
| `MC...` | small instances for TLC | |

Definitions whose comment starts with `Mutant:` are not part of a specification.
Each is a definition as it would be with a plausible bug, kept to show that the property
named with it in `PROJECT.json` notices.

JavaScript runs one callback at a time, so in every module an action is a stretch of code between two
awaits that really wait, together with everything it calls. A statement of SQL that commits on its own,
or the part of a transaction nobody else can see, is one action too.

### Pool

`idle`, `active`, `queue`, `connectingCount`, `remainingRateLimit`,
`ended`, `uses` and `disposed` are the fields of the code; what the event loop and the
server hold for the pool are variables of their own: attempts in flight
(`connecting`), armed timers (`retryTimers`, `rateTimers`, `idleTimers`), scheduled
`setImmediate` calls (`immediates`), connections open on the server (`open`).
`holder` is what each borrower was given.

`maybeCreateNew` is `MaybeCreateNew`, a part of the actions that call it. Its
guards `MayConnect` read the variables after the caller's changes. The body of
`handleAvailableConnection` is shared by `release` and by a successful connect.
`disposeConnection` sets `poolError` where the code throws. Identities in `Conns` are
reused as soon as nothing refers to a connection, so a run of any length
fits a small set. Time is not modelled: a timer may fire as soon as it is armed and
a connection may be too old at any time (`HasMaxAge`).

Every query of `Connection.scope` ends in `release` or, when the callback throws, in
`dispose`; the model lets a borrower do either. A borrower whose pool has ended gives
back in vain (`GiveBackAfterEnd`), as the code returns early.

### Transactions

A node is a call of `transaction()`: the root, on an `AcquiredConnection`, or a savepoint, on the handle its
callback was given. `queue[n]` is the mutex of a handle, its holder first: a query holds it while it is carried
out, a nested transaction from its SAVEPOINT until it settles, and `commit` or `rollback` for their command.
`closed` is `isClosed` of the code, asked in `Issue` before the mutex is waited for, as in
`Transaction.ts:48`. `AfterCallback` and the actions after it are `executeTransaction`: COMMIT
or RELEASE when the callback resolved, ROLLBACK when it threw or when the closing command failed, nothing when the
callback called `rollback()` itself. A callback may also use the handle around its own (`IssueOuter`):
the mutex recognizes its holder and throws `MutexDeadlockError`.

The server is its session: whether a transaction is open and aborted, the log of what was carried out in
it, and where each savepoint starts. `durable` is what COMMIT made of the log. `Break` loses the connection at any
step, `CommitRefused` also between COMMIT and its answer. A callback awaits the calls it makes, as all callers in the
repository do, several at a time included (`Promise.all`). Queries not used yet are interchangeable, so the next one is
taken (`NextStmt`).

### EventQueue

Each SQL statement that commits on its own is an action, and so is the transaction of
`persistProcessed`. A worker is one call of `processBatch` at a time, of any engine
instance: of a `ProjectDispatcher` (`Dispatchers`), which calls it in a loop, or of the mutation of that
name. `fetchBatch` is three steps: the primary row, its target in the schema the
worker has read, the rest of the batch. `FOR UPDATE SKIP LOCKED` makes every
`fetchInternal` an atomic choice among the rows nobody else is updating. `visible`
replaces `visible_at`: a row leaves it when it is taken or put off, and
`AckTimeout` or `BackoffOver` bring it back. `Handle` is the webhook with
any answer; what the response parser makes of an answer is abstracted to the set of events
it reports as ok. `HandleThrows`, `PersistThrows` and `Crash` are the failures of
the three phases. The rows are written by id, and `num_retries` of a failed event from
the worker's copy (`snap`), as in the code.

A dispatcher that finds nothing to take asks in a query of its own when the next row becomes visible (`Backoff`). With a row
that is still to be processed, by anybody, it looks again, at once or by its timer. Without one it goes to sleep
without a timer, in two steps: from the answer until the promise of the sleep is there (`drowsy`) a notification is
dropped, afterwards (`asleep`) it wakes. `Create` is the insertion with its notification, which goes to all dispatchers; `Wake` is a
notification that comes late or for an event that somebody else has processed. `ProjectDispatcher` below has
the loop in more detail, with its connection, its errors and its end. A crashed dispatcher is one that its supervisor, or its process, has started again.

The constant `LateWorkers` says whether a batch may take longer than
`ACK_TIMEOUT_MS` (ten minutes; a webhook's own timeout is thirty seconds by default but
configurable, and a process can be suspended). The code is only correct when it may not;
the properties that need the assumption are checked and proved under `LateWorkers = FALSE`, and without
it neither `OneHandler` nor `Progresses` holds: a late worker overwrites by id the row that another worker
has made final.

Two facts about the limits that the model makes visible: `maxAttempts` is compared with the
retries before the attempt, so an event is sent up to `maxAttempts + 1` times; and
`EventsRepository.requeue` is not called by anything.

### ProjectDispatcher

The loop, the promise of the sleep, and the `Listener` share one connection, whose
mutex is the sequence `conn`: its first command is at the server. A query has three
steps: it is queued, executed (`Execute...`), answered (`Fetched`, `BatchDone`,
`EndDone`, `CatchDone`). Between an answer and the loop's next query nothing else runs, so
that stretch is one action. `Notified` resolves the sleep, or is
lost when there is none. `pendingError` and `rejectPending` are separate as in the
code. A lost connection fails the command at the server and is noticed by the
listener (`NoticeLost`): by its event or by the periodic health check.

### Supervisor

`limited` says whether the caller gave `options.max`, as the tests do and the engine's own
workers do not. `loop` is the position of the loop of `run`. Each call of the Runnable's `run()` is an
instance. `Counted` and `ShouldRestart` are the short-circuit condition with its
increment; `Backoff` is the formula of the timeout with its rounding. An instance calls `onError` or `onClose` after
its `run()` was resolved (`Crash`, `Close`), or neither, ever: `Closing` is the set of the instances that
call `onClose` once they are ended. The listener does; the dispatcher does unless it is about to sleep without
a timer when it is ended; `DispatchWorkerSupervisor` does not call it at all. Nothing is assumed of an instance that is not in
`Closing`, and the run has instances of both kinds. `failures` is a history variable that stops at `FailureBound`.

### ProjectContainers

One project, its row in the tenant database (`row`: is it there, its `updated_at`, has it the alias), the
store (`entry` under the slug, `aliased`), the containers that were made (`cont`), and the calls of
`getProjectContainer` and `createProject` (`call`), each at one of its awaits. `found` and `joining` await
the promise somebody else has put into the store, `creating` one's own, `state` and `row` a query.
`StateReads` and `StateAnswer` are two steps, as the row may change on the way. `Destroying` is
`destroyContainer`: destroy is fired and the entry of the slug deleted, without a look at what
it is by then. A promise that is settled resumes its awaiters before any other I/O is handled
(`Pending`), which is how JavaScript orders microtasks, and which the store's correctness depends on. `Commit` is the end of the
transaction of `ProjectManager.createProject`, whose initializer makes the container before the row is visible.

### DispatchWorkers

It extends `ProjectContainers`: `ResolverStep`, `Initializes`, `ProjectChanges` and `Fetches` are steps of that module with the
destroy listener and the notification added. A handler is one execution of `startWorkers`: that
of the boot and one per `project_updated` notification, which are not serialized. `running` is
the map's entry for the project, `doomed` the workers on which `end()` was called (it takes effect when the worker runs, as
the code awaits its promise first). `Refresh` is `refreshProjectWorker`, with the map set
before the old worker has ended; `WorkerFails` its catch, which deletes the entry, whatever it holds by then. A worker is the
Runnable `Supervisor` models, seen from outside: starting, running, ended, or failed in its first start. Only a worker of the boot has a limit of
attempts (`mayFail`); one of a reload is started again and again (`startupMax` is `Number.MAX_VALUE`), so that its
start either succeeds or never settles, and fairness is assumed of the former alone (`BootWorkerStarts`).

### Migrations and SchemaCache

A call of `migrate` waits for the advisory lock, opens a REPEATABLE READ transaction whose first query fixes what it sees
(`snapshot`), validates the whole input (`Valid`) and then executes what is left of it, sorted by version
(`ToExecute`, `Before`). Each executed migration is a step, after which anything can fail (`Fail`, `Lose`). `rows` is
`schema_migration`, with the `id` that `SaveMigrationCommand` computes from the maximum; unique keys are checked at
COMMIT against what the session could not see. `ddl` is what the schemas of the stages went through, a
history. `Alter` is the two mutations of debug mode, which take no lock: a row is deleted, or is given other content and another version that no
row has; id and type stay. A
checksum is the field `sum`.

`SchemaCache` reads the rows meanwhile. A call of `getSchema` remembers the cached schema (`Ask`), sends the query for migrations after
its version (`Answer`), and writes both caches when the answer comes (`Finish`), in any order with the others. A schema is the set
of versions it was built from. `doubtful` and `regressed` are histories that say when the code's cache
really may be old: rows that were altered behind the cached version, and a base schema that a late call has put back.

### OneHasOne

A mutation with its one nested operation is one action: it runs in one database transaction, each processor awaits its
statements in order, and the mutations of a `transaction` block follow each other. `mapper` is the rows as the transaction sees them and what the
`Mapper` memoizes: the owner of a row once it was asked for, the rows found or missed, the rows deleted. That memory is never
updated: `Truthful` says that it still agrees with the rows, as that of a new mapper does, and the properties are about mutations that
start from such a memory, the first of a transaction or any later one. The operators `SetOwn`, `InsertOwner`,
`DeleteInverse`, ... are the mapper's statements with the errors of PostgreSQL; `OwningConnect`, `InverseCreate`, ... the methods of
the four input processors, in the order of their lookups and statements; an operation is offered only
where `UpdateEntityRelationAllowedOperationsVisitor` offers it. The relation itself is a variable (`rel`: the sides' nullability,
orphan removal, deletion rule), so one run checks every kind.
`OwningDisconnect` has the one branch that does not do what it says: `KeepsSilently`, below.

### Triggers

A transaction of up to `Batch` mutations; a mutation changes the rows and fires the events of `EventManager` to the listeners that
`TriggerListenersBuilder` derives from the watched tree. `fired` is the list `TriggerHandler` keeps. `Commit`
is `BeforeCommitEvent`: the payload of each root is built from its events and from the selection
fetched then, and stored in the same transaction. `PersistFails` is the path of an error in that listener. `touched` is a
history: the roots in whose tree a row was really changed.

## Runs

Passing runs, with the number of distinct states TLC finds:

| run | states | instance | shows |
|---|---|---|---|
| `pool` | 158,385 | 3 borrowers, 3 connections, 2 of them at a time, 2 connecting, 1 idle, 1 rate token, any age | limits, no leak, the pool implements `Lending`; waiting items are served or rejected; end() closes everything |
| `queue` | 230,833 | 2 events, 1 dispatcher and 1 other worker, 2 targets, batches of 2, 1 failure, 1 migration, no late worker | one handler, fresh copies, bounded attempts, resolved stays resolved, a dispatcher that is awake resolves what is pending |
| `dispatcher` | 102,335 | 2 events, 2 retries, connection loss, 1 failed query, end() | retried events are looked at; errors surface; end() settles |
| `supervisor` | 1,005 | `max` 4 or not defined, `startupMax` 3, instances that close when ended and one that does not | limited restarts are bounded, back off and recover; no start after end(), and where end() stops the loop |
| `containers` | 903,985 | 3 calls, 3 containers, 2 versions of the project, alias or slug | the store holds what lives, no outdated container is served, no project is hidden |
| `workers` | 77,055 | the boot, 1 reload, 1 request, 3 containers, 2 workers | no worker is forgotten; calls settle; if the starts of reloads do, a reload restores its worker, and run() and end() settle |
| `transactions` | 325,899 | 2 savepoints, nested or side by side, 3 queries | all or nothing; savepoints are exclusive; every transaction() settles |
| `schema` | 1,192,429 | 2 migrate calls of 3 inputs, 1 alteration, 2 readers, 1 stage | replay matches, a failed call leaves nothing, readers get what was committed |
| `content` | 103,006 | 3 rows a side, 2 mutations, every kind of relation | a mutation does what it was asked and no more, one disconnect nothing at all; orphans go; required sides stay; no spurious error |
| `triggers` | 158,023 | 2 roots, 2 nodes, 2 mutations, every kind of relation | no change unnoticed, none made up, the committed selection |

Why the bounds are enough. Races in the pool are between two borrowers and one
connection, or a borrower and a timer; two that both wait are a queue in which order matters, and a third
comes while the first is served. With three connection objects two can be lent while a third
is being disposed. `MaxIdle` is below `MaxConnections` so that the overflow of idle
happens. In the queue two workers and two targets give every pair of statements, and
attempts of one and two reach the limits of the two targets and the default. Each failure (crash,
exception of the handler, failed transaction) can happen once, at every step; liveness needs a bound, as with failures
for ever nothing is resolved. The dispatcher has at most one batch, so two events give
the interesting case, one handled while the other arrives. The supervisor has at
most two instances that matter, the one that ends and the one that starts. In the store of containers
the interesting races are of a call that found an outdated container, a second that found the same, and a third
that makes the new one between them; with three containers there is one for each. The workers need a reload that runs while the boot does,
and a request whose destruction takes a worker. Two savepoints can be nested, side by side or
concurrent, and three queries give one before, one in and one beside them. Migrations need two calls that
are allowed to submit the same versions out of order with a content migration and an empty one
among them; two readers write the caches in either order. Two rows a side are what a swap of owners takes,
and the third is the row created or left alone; with two mutations the second starts from what the first remembered.
Three of them in one transaction (`Batch = 3`) pass as well, 858,099 states, and are not kept for their time: what the third adds are
memories that are no longer true, which the properties do not speak of. A trigger needs two roots to show the
events of one at the other, and two mutations to fire in either order.

`CHECK_DEADLOCK FALSE` is set where the system may stop for good: an ended pool, a queue whose
events are resolved, a dispatcher or a supervisor that has ended, calls that all have answered.

Symmetry: over the calls in `containers`, which has invariants only; over calls and readers in `schema`, over the rows of each
entity in `content` and `triggers`, whose properties are action properties and treat the members alike. No
run with a liveness property uses it.

### Runs that find a violation

Each checks one claim of the code's own interface, or of a test, against the code.

| run | claim | what happens |
|---|---|---|
| `queue_own_target` | an event is sent to the target it names | the rest of a batch is fetched without the target's name |
| `triggers_selection` | the selection of a payload is that of its row | a root deleted first in a transaction lends its selection to the payloads of all others |

### Fairness

Weak fairness, always of single operations, for what the event loop and the server
do by themselves: armed timers fire, scheduled immediates run, a connect attempt
settles, a query is answered, a callback finishes. Nothing is assumed of clients
(new borrowers, new events, notifications, `end()`), of failures, or of which way a choice
goes. `WaitersServed` assumes that recoverable connect errors do not go on for ever, in the
property itself: the code retries them without limit. It does not
use the timeout of a waiting item, since with it the promise would be empty.
In `queue` each live worker finishes the `processBatch` it is in, a dispatcher that does not sleep calls it again (its loop,
restarted by the supervisor), and time passes; neither a notification nor another call of the mutation is assumed. So `EventsResolved` promises
nothing for an event that comes when every dispatcher lies down or sleeps: without its second premise TLC shows the
notification that is lost between the last query and the sleep. In `supervisor` a start settles, a backoff passes, and an instance of `Closing`
closes after it was ended; nothing of the others. In `dispatcher` a lost connection is noticed because the listener
polls its health. In `workers` a start of a worker of the boot settles, as
`startupMax` limits its attempts, and a running worker that is told to end ends. The start of a worker of a reload is retried without
limit, and both `end()` and the handlers await it; `ReloadRestores` and `RunSettles` therefore have the premise that such starts do not hang for
ever (`ReloadsStart`), in the property itself, and without it TLC finds `end()` and `run()` waiting. `CallsSettle` needs no such premise. In `transactions` the server answers
or the query fails, and a callback that has nothing left to await settles.
`containers`, `schema`, `content` and `triggers` state safety only and assume nothing.

## Proofs

TLAPS proves the following for all values of the constants that satisfy the named
assumption of the module (`ConfigAssumption`, `QueueAssumption`, `SupervisorAssumption`, `ContainersAssumption`,
`WorkersAssumption`, `MigrationsAssumption`, `SchemaCacheAssumption`,
`TransactionsAssumption`, `OneHasOneAssumption`, `TriggersAssumption`), all of which TLC evaluates in the runs. Every invariant
and every action property of a passing run is the conclusion of a theorem, and so is the refinement of `Lending`; what is left to TLC is
liveness.

* `PoolProofs`: `TypeCorrect`, `AccountingCorrect`, `CapacityCorrect`. `Capacity` is not inductive: a
  connection attempt that succeeds moves from `connectingCount` to `active` or `idle`, and
  the sum only stays if `connectingCount` really counts the attempt, which is
  `Accounting`; and a sum of cardinalities needs finite sets, which is in
  `TypeOK`. The inductive invariant `Bounded` is the conjunction of the three. `MaybeCreateNew` is the
  only place where the sum grows, and a lemma on it serves every action that calls it.
  `ExclusiveCorrect`, `PooledUsableCorrect`, `NoLeakCorrect`: none of the three is
  inductive either: a connection that has just been established can only be handed out if it is nowhere else, and
  one that is disposed by a `setImmediate` must not have been lent again. `WellPlaced` says it for the whole
  life of a connection: the places are disjoint, an attempt in flight is in none of them, what is scheduled for
  disposal is neither lent nor idle before `end()`, everything pooled is disposed after it; nobody
  waits twice, with a connection, or next to an idle one. The proof takes a connection in hand
  (`TakeIdle`, `TakeBack`, `TakeConnected`) and puts it down (`PutToBorrower`, `PutToIdle`, ...), as the code's
  helpers do, with the fields as parameters, because `handleAvailableConnection` and
  `maybeCreateNew` run in the middle of a step.
  `LendingCorrect` is the refinement: every step is a step of `Lending` or a stutter. That no more than
  `MaxConnections` are lent needs `Bounded`, and that a connection is lent once needs `WellPlaced`.
* `EventQueueProofs`: `QueueTypeCorrect`, and, assuming `~LateWorkers`, `OneHandlerCorrect`,
  `CopiesFreshCorrect` and `AttemptsBoundedCorrect`. The inductive invariant
  `Safe` adds to them that what a worker reports as ok is part of its batch (`Reported`), and that a row nobody has
  taken yet has no attempts (`Fresh`). `AttemptsBounded` needs `CopiesFresh`, because the
  limit is compared with the worker's copy, and `CopiesFresh` needs `OneHandler`,
  because only then nobody else writes the row. `QueueTypeCorrect` holds with late workers too.
  `ProgressesCorrect` is the action property: from `Safe`, every step leaves resolved events and recorded attempts alone.
* `SupervisorProofs`: `RestartsBoundedCorrect`, from `Counting`: while a limit applies, the
  history `failures` never exceeds the code's `restartCount`, and
  `restartCount` exceeds the limit, by one, only once the loop has given up. Without a limit, after a
  healthy start, nothing is bounded and nothing claimed. `AloneCorrect`: the runs of a Runnable do not overlap, which is the part
  of the module's `TypeOK` that says more than types. `BacksOffCorrect`: with `options.max` the delay is the formula of the
  restart counter at every position of the loop (`Delayed`), the counter grows by one with each failure in a row, and the powers of two grow.
  The last is an induction, which the provers cannot make; `PowersGrow` takes it from the number of subsets of `1 .. n`
  (`FS_SUBSET` of the library, whose own proof rests on a fact of arithmetic the library states without a proof, `2^(n+1) = 2^n + 2^n`).
* `DispatchWorkersProofs`, first of the containers: `ContainersTypeCorrect`, `StoreHoldsLiveCorrect`, `ServedFreshCorrect`, `AbsentJustifiedCorrect`.
  `StoreHoldsLive` alone is not inductive: `destroyContainer` deletes whatever the store holds, so it must be
  known that this is the container it destroyed or nothing. `AwaitedInStore` says so: while a call awaits a
  container, the store holds that one or none. It is preserved because whoever replaces an entry first waits for I/O, and those who await a
  settled promise go before that (`Pending`).
  The other two theorems take the second invariant, `History`: one `createProject` at a time is under way and the project
  is not there before it commits (`Creator`, `OneCreator`); what a call has read of an absent project was so during the call (`KnowsAbsent`); a
  container that was outdated when the call began stays outdated, and is destroyed before the call goes on to another (`Avoids`).
  Then of the workers: `ComposedContainers`, every behaviour of the workers beside the requests is a behaviour of `ContainersSpec`,
  so (`ComposedStore`) what is proved of the containers holds in the composition without a proof of its own.
  `NoneForgottenCorrect`, with `Mapped`: the worker in the map was made and nobody has told it to end, and only workers that were made
  are ended; so a new worker is never one somebody already ends, and the entry it replaces is.
* `SchemaCacheProofs`: `SchemaTypeCorrect`, `FailedLeavesNothingCorrect`, `BaseFreshCorrect`, `StageFreshCorrect`. `FailedLeavesNothing`
  needs that a call that has not committed is nowhere in `ddl` (`Unpublished`). `BaseFresh` rests on two facts. Of the
  migrations: no version is committed below the latest that was there, unless forced or altered (`Ahead`: what the holder of the lock still has to execute is above all rows, which only the holder adds to), so asking for versions after the cached one misses nothing. Of the cache:
  what is cached, remembered and about to be built holds every committed version up to its own latest (`Coherent`), and each stage holds
  what the base held as long as the base has not gone back (`Steady`). `Latest`
  picks the greatest of a set; that it exists is proved by the well-foundedness of cardinalities (`GreatestExists`).
  `ReplayMatchesCorrect` needs `Ahead` as well: what a call has executed is in the order of the versions and before what it
  still has to execute (`Sorted`), all of it is above the committed rows, and each version is executed once (`UniqueVersions`). So a commit appends
  to `ddl` an ascending list that begins above the last one, and adds the same migrations to the rows.
* `TransactionsProofs`: `TransactionsTypeCorrect`, `RejectedLeavesNothingCorrect`, `SavepointsExclusiveCorrect`. The argument is the tree of nested
  transactions. The savepoints that are entered and not settled form one path of it (`Chain`, `Upwards`), each at the head of the queue of
  the handle around it (`Holder`, `Path`). So whoever's turn it is stands at the innermost of them, what is appended to the server's
  log belongs to all of them, and the marks of the savepoints cut the log in the order of the path (`Marks`), which is what
  makes `ROLLBACK TO` undo a transaction's own queries only. `RejectedLeavesNothing` is `Committed`: only COMMIT makes anything durable, and
  afterwards the root is resolved or the answer was lost.
  `ResolvedLeavesAllCorrect` takes a second invariant, `KeptInv`, which says what the log of an open transaction is: the queries that
  succeeded in savepoints all of which stand, that is run, or were released and not rolled back (`LogStands`). For that, what precedes the mark of
  a savepoint is not its own (`Before`), nothing but nested transactions waits on a closed handle (`Commands`, `OpenAround`),
  and a transaction the server has aborted is one in which a query of the root failed or a savepoint that is still open will undo it (`Aborts`).
* `TriggersProofs`: `TriggersTypeCorrect`, `CompleteCorrect`, `NoFalseAlarmCorrect`, `SelectionFreshCorrect`. Every mutation is
  `Sound`: a tree that changes under it has an event of its root, and every event has a cause. One lemma for each
  mutation says so, and one lemma that a sound mutation keeps the invariant: what changed since the transaction began has
  an event (`Noticed`), what has an event was touched (`Caused`), and a root whose own deletion fired stays gone (`OwnGone`).
* `OneHasOneProofs`: `OneHasOneTypeCorrect`, `ExactCorrect`, `OrphansRemovedCorrect`, `RequiredKeptCorrect`,
  `NoSpuriousErrorCorrect`. The inductive invariant, `InvCorrect`, holds whatever the mapper remembers: the rows it sees and those committed
  keep the keys of the database, and what it has deleted is not there (`Valid`). The rest is a calculus of the mapper: each statement has a lemma
  that says what it does when it succeeds and which errors it can give; each method of the input processors is a composition of statements, and
  its lemma follows from theirs (`OwningConnects`, `InverseDisconnects`, ...); each action offers a method to the rows it may be
  called with, and its lemma gives what the four properties ask (`Promised`); the disconnect of `KeepsSilently` is the exception `Exact` names, and `StaysLinked` is when it leaves the rows alone. `Truthful` is what the lookups need; `Opens` shows that every new
  mapper has it, so no theorem is about a state that does not occur.

Only model-checked: every liveness property (`WaitersServed`, `EndDrains`, `EventsResolved`, `Retried`, `ErrorSurfaces`,
`EndSettles`, `Recovers`, `EndStops`, `CallsSettle`, `ReloadRestores`, `RunSettles`, `Settles`), as TLAPS has no ENABLED. The module
`ProjectDispatcher` states nothing else, so nothing is proved of it yet.
Out of the prover's reach altogether are liveness and inductions over
recursive data; no module that is proved about uses a RECURSIVE operator. The type invariants, and `Accounting` and
`Exclusive` of the pool, are proved where a theorem names them and are not listed in the runs, which they would only repeat.

## Where the code departs from what one would expect

These are behaviours that the models contain or that were read while modelling; the properties are stated so that they hold of the
code as it is, and what they leave out is here.

Pool and connections:
* An idle timer during `end()`, or an error event before the scheduled `setImmediate`, disposes a connection twice;
  the second disposal throws (`Pool.ts:475`) out of a promise nobody awaits.
* A connection that breaks while it is lent is released into `idle` and lent again (`Pool.ts:314`).
* "Transaction is already closed" is asked before the mutex (`Transaction.ts:48`), so a query that waits behind a COMMIT is carried out
  after it, outside the transaction. Callbacks that await their calls never get there.
* `ROLLBACK TO SAVEPOINT` leaves the savepoint on the server. `commit()` of a transaction the server has aborted answers without an
  error and rolls back. When the answer to COMMIT is lost, the caller is told of a failure of a
  durable transaction; `RejectedLeavesNothing` excepts it.

Workers:
* A notification between the last query and the sleep is dropped; the dispatcher then sleeps until its timer, or the next one (`ProjectDispatcher.ts:95`).
* `end()` during a batch that turns out empty: the wake-up comes before the sleep, and the loop sleeps on (`ProjectDispatcher.ts:88`), so its `onClose` is
  never called. `DispatchWorkerSupervisor.run` ignores `onClose` altogether. A supervisor whose instance does not close stays in its loop after `end()`.
* A worker of a reload is started with `startupMax: Number.MAX_VALUE` (`DispatchWorkerSupervisor.ts:56`), and `end()` awaits the promise of
  that start (`DispatchWorkerSupervisor.ts:118`): as long as it fails, neither `end()` nor the next reload gets on.
* Without `options.max` the restart counter stays as it is after a healthy start, so restarts do not back off (`Supervisor.ts:46`).
* `end()` during a restart ends the instance before, or none (`Supervisor.ts:78`); the new instance runs on.
* 'Project dispatch workers terminated' (`DispatchWorkerSupervisor.ts:128`) is logged while a worker that is being started can still come up. Updates
  that the project tracker's listener misses while it reconnects are not made up for.
* An event of a target that a migration adds between a worker's reading of the schema and of the queue is failed for good.
* `ActionsWebsocketControllerFactory` collects promises that may reject before anybody awaits them.

Containers and schemas:
* Of two calls that find the same outdated container, the second destroys the fresh one of the first. With three calls destroy is fired
  twice for one container. No call is served wrongly by it (`ServedFresh`, `AbsentJustified`), but a worker is restarted without need.
* A call by an alias that is not mapped yet asks no state: it joins, or returns, an outdated container. A mapped alias stays mapped when
  the project has given it up. Two updates in one millisecond count as one.
* `clearCache` (`SystemApiMiddlewareFactory.ts:54`) does not stop a `getSchema` in flight from putting back what it remembers, and a stage schema
  cached from such a base stays until something new is found (`regressed` in `StageFresh`).
* Content migrations do not count for the order (`ProjectMigrator.ts:143`): an older schema migration may follow a newer content one. As long as the
  latest migration is a content migration, every `getSchema` rebuilds the schema.
* `id` of a migration is the maximum plus one, so ids are used again after a deletion.

Content API:
* The owner of a row is looked up once per mapper (`Mapper.ts:324`). In one `transaction` block, `updateA(a2) { b: { connect: b1 } }` followed by
  `updateB(b1) { a: { delete } }` deletes the row a1 that owned b1 before. With a third mutation, a later connect or disconnect of the inverse row releases the
  remembered owner and, with orphan removal, leaves the row that owner has by then as an orphan. The four properties of `OneHasOne` are therefore about mutations that start
  from a memory that is still true (`Truthful`); the keys of the database hold without it.
* An owner that may be without its inverse side, but whose inverse side may not be without an owner, cannot be disconnected; the code finds that out too late.
  `disconnect` does not await `addFieldValue` (`OneHasOneOwningUpdateInputProcessor.ts:212`): without orphan removal it returns the list of results before the
  callback has pushed the `notNull` error, and `prependPath` (`Result.ts:190`) has copied it by then. The update is aborted (`UpdateBuilder.ts:71`, `Updater.ts:79`), the other fields of
  the mutation with it, and the mutation reports success. The pair stays linked: `Exact` says that nothing changes there (`KeepsSilently`).
* Connecting the inverse side never checks that the row which loses its owner may be without one (`OneHasOneInverseUpdateInputProcessor.ts:40`), while
  creating it does (`OneHasOneInverseCreateInputProcessor.ts:74`); `RequiredKept` leaves that operation and the plain deletion of an owner out.
* The creation of an inverse row deletes the orphan before it moves the owner: with a cascade the owner is gone, and the mutation fails.
* `onDelete: setNull` on a column that is not nullable fails in the database.

Triggers:
* A disconnect under an ACL predicate compares `inserted`, which its query does not return (`JunctionTableManager.ts:286`), so it fires events when nothing was deleted.
  `NoFalseAlarm` leaves such relations out.
* The payloads of a transaction whose first event is a deletion all show the deleted row (a finding); conversely the payload of a root that is deleted
  later has no selection.
* `EventManager.fire` swallows the errors of listeners (`EventManager.ts:150`). When storing the payloads fails, the transaction is aborted, COMMIT rolls it back, and
  the mutation is reported as done (`PersistFails`).

## Not modelled

Statistics, logging, wording, the text of SQL. Time as a number: timers fire in any
order. In the queue, the order in which
eligible rows are taken (the code orders by `visible_at` and none of the properties
depends on it, so every order is allowed). The webhook's request itself. More than one project: containers, workers and caches of
different projects share no state but the tenant database. Retries of serialization failures (`retryTransaction`): a call of the
callback again, in a new transaction. One-has-many and many-has-many input processors; ACL predicates and validation of the content API; GraphQL and
SQL generation; schema migrations and their SQL. `AcquiringListener`. `ProjectGroupContainerResolver`. The tenant API's commands, variables
and stages: one statement, or one read and one write, each. All components the table of
`PROJECT.json` marks `not_modelled`, most of them because they are pure or one
statement per operation: nine tenths of the repository's lines.

## Plan

In order of what each would add.

1. `DeletePlan`: the delete planner over small graphs of relations, against a reference definition of
   what a cascade reaches; the other input processors of nested mutations.
2. The composition of `ProjectDispatcher` with `Pool` and `EventQueue`: that its connection is given back only when no
   command is queued on it.
3. A proof of the dispatcher's types with its exclusion of two unanswered queries of the loop.
4. `Tokens`: API keys, password reset, one-time passwords, each as a row with competing commands. `Variables`: concurrent `setVariables`.
5. Retry of serialization failures around `Transactions`.
6. Algorithms as operators: evaluation of permissions, interpretation of a webhook's response.
