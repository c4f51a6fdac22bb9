# A verification of Stingerloom ORM

Stingerloom is a TypeScript ORM for MySQL, PostgreSQL and SQLite. This directory
holds TLA+ models of its stateful parts, the TLC configurations that check them
on small instances, and TLAPS proofs of their central properties for instances
of every size. `PROJECT.json` is the index: components, runs, the source lines
behind every definition, hazards, findings and theorems.

1. How the models read the code
2. The system and its parts
3. The modules
4. The runs: what they show, bounds, fairness
5. The proofs
6. Disagreements and observations
7. What is not modelled
8. Plan

## 1. How the models read the code

JavaScript runs one stretch of code at a time: from the moment a function
resumes until it awaits, returns or throws, nothing else runs. An action is such
a stretch. Everything that may happen at an await (another request, a timer, a
driver's answer, a failure) is another action. The stretches that only resume a
promise whose answer nobody else can see are joined to the one before.

Data is abstract. A row, a statement, a tenant or a migration is a model value;
the rows of a table are a version number; a schema is the set of migrations
applied to it. Control is kept: guards, early returns, `catch` and `finally`
blocks, and their order.

A definition whose name carries a suffix (`PassTurn_Freed`, `Drop_TimerKept`) is
a faulty variant of the operator after it. No action uses it. It says which
mistake in the code a property would catch: with it in place of the original,
TLC finds that property violated (`mutants` in `PROJECT.json`).

## 2. The system and its parts

| component | state | operations | who it meets | what is hard |
|---|---|---|---|---|
| SQLite connection gate (`SqliteTransactionGate`, `SqliteDataSource`, `TransactionFlow`) | one handle, who holds it, queue of waiters, the flow a call runs in | begin, end, run, the waiter's timeout | every session and statement of a SQLite EntityManager | turns lost or given twice when a timeout meets a grant; statements of another flow; nesting that waits for itself |
| Managed transactions (`TransactionRunner`, `Transactional`, `TransactionSessionManager`, the pooled data sources) | per call: connection, open or not, end callbacks, retry counter | acquire, BEGIN, COMMIT, ROLLBACK, close, retry, hooks | the driver's pool; subscribers; the cache and the write buffer through end callbacks | every step may fail, and the cleanup after it too |
| Savepoints and restored objects (`TransactionSessionManager`, `rollback-restore`) | undo list, savepoint marks | savepoint, rollbackTo, onRollback, commit, rollback | writes, cascades, NESTED transactions | undo order follows returns of calls, rows follow the server |
| Query result cache (`QueryResultCache`, `EntityManager.finishWrite`) | entries, LRU order, tag index, reads in flight, tags held per transaction | get, set, invalidate, hold, clear | reads, writes, ends of transactions | a read that overlaps a COMMIT |
| Migration runner (`MigrationRunner`) | advisory lock, tracking table, the runner's list | runAll, run(list), revertLast, rollback | the database, other processes | concurrent runners, crashes, schema and record apart |
| Tenant connection router (`TenantConnectionRouter`, `DatabaseClient`, `MultiTenantEntityManager`) | entries, provisionings in flight, eviction timers, pools | resolve, provision, release, evict, releaseAll | every call of a multi-tenant EntityManager | first calls at once, evictions against resolves, partial failures, shutdown |
| Write buffer (`WriteBuffer`, `FlushExecutor`, `IdentityMapManager`, `CascadeProcessor`) | identity map with snapshots and states, queues of inserts, deletes and bulk statements | persist, remove, delete, merge, detach, findOne, bulk updates and deletes, flush | managed transactions, in its own, a joined or a nested one | memory and rows after a flush that failed, or whose transaction was rolled back later; cascades that write an object before its turn |
| Replication (`ReplicationManager`, `ReplicationRouter`) | a pool per node, rotation, health counters | initialize, shutdown, read session, health check, marking by hand | managed reads | pools that open on demand against shutdown and a second initialize; checks of an old router |
| PostgreSQL tenant schema queue (`PostgresDataSource`) | the search_path in force, that of each savepoint, a queue behind a switch | query, savepoint, rollbackTo, commit, rollback | managed transactions | statements of several tenants issued at once in one transaction |
| Ambient sessions (`TransactionRunner`, `Transactional`, `AsyncLocalStorage` frames) | the frames a callback runs in | em.transaction and @Transactional of every propagation, writes that join | everything that writes | several managers and connections nested in each other; work that outlives its transaction |
| Pagination (`CursorKeyset`, `findWithCursor`, `getCursor`, `RawPipeline`, `streamBatch`) | the cursor or offset between two pages | next page | tables others change meanwhile | ties, NULLs, composite keys, old cursors; `limit`, `skip` and `take` together |
| Relation closures of the cache | none (functions of metadata) | visitReadClosure, visitWriteClosure | the cache | a table missed |
| Metadata layers, scanners, multi-tenant forwarding | copy-on-write layers | synchronous reads and writes | start-up, tenants | none concurrent |
| Plugins, events, subscribers, query tracker, leak detector | registries, counters | register, emit, log | transactions call them | a hook that throws |
| Readers, writers, query builders, schema diff, generators, introspection, framework glue | none between calls | SQL text and row shaping | the database | data, not control |

The parts meet in few places. A call of an `EntityManager` resolves its tenant
through the router, joins a session of its async context or opens a transaction
through `TransactionRunner`, and that session takes a connection from the
driver's pool or, on SQLite, a turn of the gate. A write tells the session what
to undo (`onRollback`) and the cache what to drop; the cache waits for the end of
the session's transaction (`onTransactionEnd`). A migration runner uses a
connection of its own and only meets the others in the database. A read outside a
transaction may go to a replica, through a pool of `ReplicationManager`.

What makes each correct, in one line each: the handle serves one transaction at
a time and forgets no waiter; no connection leaks or is shared, and work is
durable exactly when its caller is told so; an object holds what its surviving
writes left; a cached read is not older than what its caller already knows; a
migration is applied and recorded once, by one runner at a time; a tenant has one
pool, which is open whenever it is handed out and closed when nobody uses it; a
flush stores what was asked for or leaves it asked for; a replica that is down gets
no reads, one that is up does, and its pools are closed in the end; a statement runs
under its own tenant's schema and inside its transaction; work joins the transaction
its code is in, and a nested call that fails undoes its own work only; a walk over
pages neither skips nor repeats a row that stayed.

## 3. The modules

Every modelled component has a module with its state as `VARIABLES`, one action per
operation or stretch, and its properties; an `MC` module that gives the constants
values for TLC; and, where proved, a `Proofs` module, which two components may share.
A constant's assumptions are a named `ASSUME` of the module that declares it. Where two
components share one, the names of at least one of them carry a prefix
(`MigrationsSpec`, `RouterSpec`, `SavepointsSpec`). `Lists` has the list operators that
several modules use, as recursive functions, which can be reasoned about.

### SqliteGate and SerialConnection

`SqliteConnector` has one database handle. Every session and every statement of
the ORM shares it, so `SqliteTransactionGate` hands it out in turns. `taken`,
`holder` and `waiters` are the gate's fields, `inTx` is `inTransaction` of each
`SqliteDataSource`, `dbTx` is SQLite's own state. A task is a transaction, named
by its flow, or a single statement. `Outer` and `FlowOf` are the async contexts
of `TransactionFlow`.

| action | code |
|---|---|
| `RequestBegin`, `ResumeBegin` | `begin()`, before and after its turn is granted |
| `ExecBegin`, `ExecEnd`, `FinishEnd` | BEGIN, COMMIT or ROLLBACK, and their `finally` |
| `EndAgain` | the `rollback()` and `close()` that come after, which must not reach the handle |
| `RunStatement`, `ResumeStatement` | `run()` at once, or `runInTurn()` |
| `TimeOut` | the timer of `waitForTurn()` |

A turn granted is not a turn taken: `passTurn()` resolves the waiter's promise
and the waiter resumes later (`granted`). The gate stays taken in between.

`SerialConnection` is the abstract specification, the promise of the gate's comment
(`SqliteTransactionGate.ts:10-22`): transactions and single statements stand in one line
and are served in the order they asked; whoever is at its head has the connection until
he is done, or leaves the line from behind when his wait times out; a statement of the
transaction served runs without standing in it. There are no turns in it, no grants, no
holder and no `taken`. `SqliteGate` implements it with `line <- Line` (who has the turn,
granted or taken, followed by `waiters`), `open <- dbTx`, `ran <-` the statements done and
`Family <-` the flows a statement is part of. What it takes beyond `NoForeignStatement` is
that nobody comes between the end of a turn and the waiter it was given to, and that
nobody behind overtakes him, which a gate that looked at `holder` in place of `taken`
would let happen without one foreign statement.

### Transactions

`em.transaction()` and every write that opens one (`TransactionRunner`), and
`@Transactional`, on a pool of PostgreSQL or MySQL connections. Per call: `pc`,
the connection of its data source (`conn`), `transactionActive` (`active`), the
`onTransactionEnd` callbacks (`ends`, `told`), the retry counter. Of the server:
`tx[k]`, whose work is in the transaction open on `k` (a set, since PostgreSQL
goes on in a transaction left open), `aborted`, and `commits[c]`, how often c's
work was made durable. `cause` and `refused` are history.

The actions follow `runInNewSession` and the decorator step by step, each with
the way it can fail: `Acquire`/`AcquireFails`, `StartHookThrows`,
`Begin`/`BeginFails`, `BodyThrows`, `Commit`/`CommitFails`, `Fire`,
`AfterCommit`, `RollbackHookThrows`, `Rollback`/`RollbackWithoutConnection`,
`AfterRollback`, `Close`, `Retry`. `CommitFails` has both endings: the connector
rolls back and drops the connection, or the connection breaks after the COMMIT
took effect. What joins an open transaction (REQUIRED) is part of its callback.

### Savepoints

One session, its savepoints and the objects its writes put generated keys,
foreign keys and timestamps on. `log` is what happened to the objects, write after
write and assignment after assignment, and `rolledBack` says which of the writes the
server has taken back; a value is named by its place in `log`. `mem` is what the objects
hold; `undos` and `marks` are the session's `rollbackUndos` and `savepointMarks`;
`points` are the server's savepoints, with the length of `log` when each was taken. What
the server does with a savepoint (`Kept`, `RollBackAfter`) is external.
A call has its effect on the server when it is issued and in memory when its
caller goes on, so `Write`, `Savepoint` and `RollbackTo` have a `...Done` action
each. `Assign` is the caller changing an object between them.

### QueryCache

The cache with its in-memory store. A table's rows are its version; a row set is
the versions of the moment it was read; a user tag has a version too. Reads go
`Hit` or `Miss`, `Fetch`, `Read`, `Return`, as `runQuery()` awaits the store, the
database and the store again. Writers go `Begin`, `Write`, `Settle`
(`finishWrite`) or `InvalidateTables` (`invalidate()` after raw SQL), `Commit`,
`End`; `Settle` may come before or after the end of the transaction. `returned`
is what some caller has been told is in place, `floor[r]` is that at the start of
read `r`: the property a caller relies on compares the two.

### Migrations

Runners in several processes on one database. `applied` is the schema,
`records` the tracking table, `lock` the calls that hold the advisory lock, which is one
unless they share a session: a runner of `OneConnection` has a pool of one and takes the
lock on it (`MySqlDriver.ts:510`), and a server grants a session its own lock again
(`Grants`). `Call`, `Acquire`,
`GiveUp`, `ReadExecuted`, `Start`, `Stop`, `Migrate`, `Track`, `Release` follow
`runAll`, `run`, `revertLast` and `rollback`; `revertLast` may release the lock
while its migration runs, as the code does. `Crash` ends a process and the
session that holds its lock; `Orphan` is the statement the server may still be
running for it. `lost` names the migrations whose record the code can no longer
vouch for: tracking failed (the desync it logs as critical) or was cut off.

### TenantRouter

A provisioning is known by its number, and so are the EntityManager, the entry,
the timer and the pool it makes. `entry` and `inFlight` are the router's maps,
`timer` and `age` its eviction clocks in ticks, `pool` the state of each pool at
`DatabaseClient`, `userOpen` the connections the user registered under a name
that mapped tenants use. `ResolveCached`, `ResolveShared` and `ResolveFirst` are
the three branches of `resolve()`; `Target`, `Connected`, `ProvisionFails` and
`Provisioned` follow `provision()`; `Release`, `PoolCloses`, `Evict`, `Shutdown`
and `ReleaseAll` the ways out. `leaked` is history: pools whose set-up, or whose
close, failed.

The first await of a waiter after `entries.set()` is joined to `Provisioned`: the
waiters' continuations are microtasks and run before any timer or answer.

### WriteBuffer

Two entities stand for a schema: parents with a collection of kids (`@OneToMany`
with cascade), kids with a foreign key, each with a generated key and a column.
`obj` is what the caller's objects hold, `snap` and `idmap` and `st` the buffer's
snapshots, identity map and states, `queue` its queues; `rows` are the committed rows
and `work` the rows as the buffer's connection sees them.

| action | code |
|---|---|
| `Edit`, `AddKid`, `DropKid` | the caller changes an object or a collection |
| `PersistNew`, `PersistKnown`, `PersistTracked` | `persist()` of an object without a key, with one, and already tracked |
| `RemoveQueued`, `RemoveStored`, `DeleteByKey` | `remove()` of a queued or stored object, `delete(Entity, id)` |
| `MergeObject`, `Detach`, `LoadKnown`, `LoadRow`, `QueueBulk` | `merge()`, `detach()`, `findOne()` from the map and from the database, `updateMany()`/`deleteMany()` |
| `OuterBegin`, `OuterCommit`, `OuterRollback` | the caller's transaction around flushes, with the callbacks they registered |
| `FlushBegin`, `RunJob`, `FlushDone`, `FlushFails` | `flush()`: what it captures, its statements one at a time, the end |

A flush is a sequence of sets of jobs (`Batches`): sets in the order the code gives
entities, the jobs of one set in any order. A job may put jobs in front of the rest, as
a save does for the kids it cascades to. `Goal` says, from the calls alone, what rows
the flush owes; `flush.goal` keeps it for the comparison at the end.

### Replication

`initialize()` and `shutdown()` release what was there; release number `k` also
numbers the router (`rt[k]`) and the pools (`<<k, n>>` is node n's) made after it, so
an old pool and a new one of a node can be told apart where the code only has an object.
`nodePools` is the manager's map, `closing` the pools a release has taken out of it,
`checks` the health checks under way by router and slave, `reads` the read sessions.
`Release` takes everything out of the map at once; `NodePool` opens pools on demand;
`PoolOpens`, `PoolFails`, `CloseBegins`, `CloseEnds` are what the driver does with one.
`Tick` starts a cycle over all slaves, `Check...` its answers, `Passed` and `Missed` the
counters. `blamed` is history: the slaves that have been down or marked by hand.

### TenantSchema

One PostgreSQL transaction under the strategy `search_path`. `searchPath`,
`savepointPaths` and `queue` are fields of `PostgresDataSource`; `wire` is the command
queue of the `pg` client, in whose order the server runs. `Issue` is
`inTenantSchema()` and `inOrder()`: at once when nothing is queued and the path is
right, behind the queue otherwise. `Succeeds` and `Fails` run the first command on the
wire, and handle its answer (`AnswerHead`, `AnswerDirect`, `AnswerEnd`) in the same
step, which loses nothing: between the two the client could only add to the end of the
wire. The server's side (`tx`, `path`, `saves`, `MustFail`, `Runs`) is external.

### Ambient

Calls of `em.transaction()` and `@Transactional`, with their callbacks: nested, next to
each other, and, in a top-level callback, outliving it. `calls[i].frames` is the async
context of a callback, innermost session first; `AmbientFor` is `ambientSessionFor()`.
A session is named by the call that opened it, and `log[s]` is what it has written and
not undone, with its savepoints. `EnterNew`, `EnterNested` and `EnterJoined` are the
three things a propagation comes to; `Return` is the end of a callback with its COMMIT,
ROLLBACK or ROLLBACK TO; `WorkJoins` and `WorkAlone` are writes. `works` is history.
While a NESTED call runs, nothing it does not await uses its session (`Alone`):
Savepoints is about what happens otherwise. Failures of the connection are in
Transactions.

### Paging

A row is its key (a sequence, with the discriminator of a table-per-class root at its
end) and the value of the order column, which may be NULL. The two halves of a keyset
page are translated from two places in the code and must fit each other: `SortKey` from
the ORDER BY it builds, `Past` from its predicate. A page is one statement
(`ReadPage`); a walk may start with a cursor of an earlier version, which has fewer keys
to break ties with or none. `StreamBatch` is `streamBatch()`; the batches of
`SelectQueryBuilder.streamBatch` and of `RawPipeline` by offset are the same loop with
fewer options. `FindWindow` is the window `find()` reads with the same options,
`StreamStart`, `StreamBound` and `BatchOptions` what the stream makes of them. `got`,
`again` and `steady` are history: what was delivered, what twice, and which rows were
there from the start and did not change. `Carried` is what is left of an order value
once a driver has read it and a cursor has carried it.

## 4. The runs: what they show, bounds, fairness

Distinct states are those of one run of TLC with the configuration here.

| run | distinct states | checks |
|---|---|---|
| `SqliteGate` | 10 049 | turns are unique and never lost, no session ends another's transaction, no foreign statement, nobody waits for himself or for ever, `ImplementsSerial` |
| `Transactions` | 281 395 | a sound pool, all or nothing, end callbacks, every call ends |
| `Savepoints` | 418 259 | objects follow rows, marks pair up with savepoints |
| `QueryCache` | 943 106 | index and store agree within capacity, no stale entry, no stale read |
| `Migrations` | 73 421 | one runner at a time, decisions hold, records match the schema, calls end |
| `TenantRouter` | 344 093 | one provisioning, no orphan pool, open pools handed out, idle ones evicted, everything ends |
| `WriteBuffer` | 1 258 325 | a flush stores what was asked, or leaves it asked; memory agrees with rows; foreign keys; evictions |
| `Replication` | 216 555 | every pool has one owner and closes in the end, the rotation follows the checks |
| `TenantSchema` | 125 768 | every statement under its tenant's schema, inside the transaction, and answered |
| `Ambient` | 694 189 | writes join the right transaction, NESTED undoes its own |
| `Paging` | 411 641 | walks by keyset skip and repeat nothing, streams read what `find()` would |
| `Migrations_revert` | | finds the violation of section 6 |

**SqliteGate.** Three transactions, one nested in another, and three statements,
one in the outer flow, one in the nested and one in none. This is the least
instance with a queue of two behind a holder, a self-nesting, and work that
outlives its flow (a promise nobody awaited). Timeouts may fire at any time.

**Transactions.** Three calls on two connections; one is a REQUIRES_NEW
(decorated) inside another's callback, the third competes and may retry once.
Two connections are the least on which a connection can be handed to a wrong
second owner while a third call waits. Acquiring, BEGIN, the statement after
BEGIN, COMMIT, ROLLBACK and four hooks may fail, and one callback swallows the
error of a statement. What a throwing `beforeTransactionRollback` leaves behind is
excluded from the safety properties by name (`Abandoned`; see section 6), and
nothing else is. With as many connections as transactions open at once,
`CallsFinish` holds; with fewer, nested REQUIRES_NEW calls that hold the whole pool
wait for each other for ever, which the code does not claim to prevent.

**Savepoints.** Two objects, two savepoint names, up to four values and three
savepoints, both ways a server treats a reused name, one call at a time
(`Overlap = FALSE`). Four values are enough for a write before and after an outer
and an inner savepoint.

**QueryCache.** Two queries over two tables (one reads both), a user tag,
a writer through the EntityManager and one in raw SQL, `clear()`, and room for
one entry so that entries displace each other. Each writer commits or rolls back
once; readers repeat without bound. The cache is configured at `register()`
(`Configured = TRUE`).

**Migrations.** Two processes with different lists (two releases of one
application), three migrations, a `runAll`, a `run(list)`, a `revertLast` and a
`rollback(2)`, two failures and a crash. Calls that the lock does not protect
from each other are kept apart (`Apart`, `Overlap = FALSE`): any call next to
`revertLast`, and two calls of one runner object one of which is `run(list)` or whose pool
has a single connection, as that of one of the two processes (`docs/migrations.md:294`
says that the lock does nothing between calls that share it).
`Migrations_revert` shows the first kind of overlap failing.

**TenantRouter.** Two tenants, one mapped to a connection of the user's, three
calls, a TTL of two ticks, one release by the application, a shutdown that closes
connections. Three calls are the least with an entry, an eviction and a second
provisioning of the same tenant while the first one's timer would still run.

**WriteBuffer.** A parent and its kid in the database and tracked, a parent and a kid
that are new; two values, an identity map for two objects, a bulk update and a bulk
delete; up to four calls of the caller spread over two flushes; one fault anywhere;
orphan removal on and off; a flush in a transaction of its own, in the caller's, or in a
savepoint of it. Four calls are enough to move a kid, edit
it and delete its old parent before one flush, or to put two of them behind it. Two constants leave out what is known to go wrong, and
each is one line of `WriteBuffer.tla` to look at:

- `Mixed = FALSE`: the caller does not entangle calls the code has no answer for: a kid
  with a key put under a parent that is itself queued (`Entangled`) or moved, by several
  calls, to one this flush inserts (`Tangled`, the first observation on the write buffer in
  section 6, which takes six calls), a queued kid put into a tracked
  parent's collection or one whose row is gone into any, a parent persisted under its own key
  whose collection holds queued kids, a bulk statement next to queued objects of the same
  entity.
- `LateFaults = FALSE`: a flush does not fail after one of its statements has
  re-baselined or evicted an object.

With either TRUE, TLC finds the observations of section 6. A caller that catches the
error of a joined flush and commits anyway is outside the model.

**Replication.** One slave whose config is registered twice or shut down, and two slaves
registered once with a mark by hand; thresholds of two; one read at a time; slaves break
and come back without bound. Both thresholds above one are the least with a counter that
can be left half way, two releases the least with an old opening failing after a new one
has begun. Every node answers (`Hung = {}`).

**TenantSchema.** A tenant's schema and the default one, two savepoint names, six calls, one statement the server
refuses; every savepoint name is used once and nothing is issued after the end was asked
for (`Reuse`, `Late`: section 6). Six are enough for a savepoint under one schema, two
switches, a rollback to the savepoint and a statement of either tenant behind it; a third
schema would be one more that differs from the one in force.

**Ambient.** Two managers on two connections, five kinds of call (either manager plain,
one redirected to the other connection, the decorator on either), every propagation,
three calls and one write. The properties speak of single writes, and a write never
steers where others go, so more would only multiply states; three calls are the least
with an outer transaction, one of another connection in it, and one that must look past
both.

**Paging.** Three keys of two columns, order values 0, 1 and NULL, so that ties, NULLs and
keys that share their first column meet at page boundaries of pages of one and two rows;
two changes by others; every order and direction; cursors of both earlier versions; every
combination of `limit` (none, one and two numbers), `skip` and `take`, zero included.
Streams are ordered by key, since the docs ask for a stable order of them.

Deadlock is not checked where the instance ends: tasks and calls run once, and
`CHECK_DEADLOCK FALSE` says so in the configuration.

**Fairness** is only assumed of what the runtime does by itself. A promise that
is resolved is resumed; the database answers or the connection breaks; the
callback of a transaction returns or throws; a timer that is set fires. It is
not assumed that a caller calls, that a lock or queue timeout fires
(`EveryWaiterServed` needs none), that a migration process crashes or does not,
or that a step succeeds: fairness is on the disjunction of a step's outcomes.
`CallsFinish` of Migrations stands with crashes: the server frees the lock of a
session that ended. In Replication the interval fires, openings settle, pools close
once they are empty, and what was given a connection is answered; nobody need read,
and no slave need come back. In TenantSchema the server answers and the caller ends its
transaction. WriteBuffer, Ambient and Paging claim no liveness: there a caller who goes
on is all that would be assumed.

## 5. The proofs

Eight modules hold theorems for every value of the constants that satisfies the
assumption of the component's module (`GateAssumption`, `TenantRouterAssumption` and so
on): any number of tasks, calls, tenants, rows, slaves, objects and statements.

| module | proves about |
|---|---|
| `ListsProofs` | `Lists` and sequences: the lemmas the others cite |
| `LockProofs` | `SqliteGate`, its refinement of `SerialConnection`, and `Migrations` |
| `SessionProofs` | `Transactions` and `Savepoints` |
| `TenantProofs` | `TenantSchema` and `TenantRouter` |
| `ReadProofs` | `QueryCache` and `Paging` |
| `WriteBufferProofs` | `WriteBuffer` |
| `ReplicationProofs`, `AmbientProofs` | the module of that name |

They use no fairness: each theorem is `Spec => ...`, and a fair specification implies
`Spec`. Where a theorem has a hypothesis, it is one that the run's configuration
satisfies, and section 6 says what goes wrong without it:

| theorem | hypothesis | what it leaves out |
|---|---|---|
| `PoolSound`, `DurableOnce`, `EndsTold`, `LeftoversAborted` | `NoLateDeadlock` | a post-commit hook that throws a deadlock error |
| `PoolSound` | `SetFails \cap Decorated = {}` | `@Transactional` closing without ROLLBACK when a statement after BEGIN fails |
| `OwnSchema` | `Reuse = FALSE` | a savepoint name used twice |
| `Inside` | `Late = FALSE` | statements issued after the end was asked for |
| `CacheFresh`, `CacheCurrent` | `Configured = TRUE` | a cache created by the first read |
| `CacheCurrent` | `OneTagPerQuery` | a query cached under two user tags |
| `StoreStaysSound` | `MaxEntries >= 1` | a cache for no entry at all, which keeps the one just set |
| `MigrationsTakeTurns`, `RecordsStayTrue`, `DecisionsStayTrue` | `Overlap = FALSE` | calls the lock does not keep apart (`Migrations_revert`, a pool of one connection) |
| `DecisionsStayTrue` | `NoRepeats` | a list that names a migration twice, which `runAll` then runs twice |
| `ObjectsStayTrue` | `Overlap = FALSE` | calls of one session under way at the same time (`Promise.all`) |
| `KidsKeepParents` | `KidBulks`: no `deleteMany()` of parents | a bulk delete of parents, which leaves their kids |
| `CacheStaysHonest` | `Careful`: `Mixed = FALSE`, `LateFaults = FALSE` | calls that get in each other's way; a flush that fails after it re-baselined or evicted an object |
| `FailuresKeepWork` | `LateFaults = FALSE` | a flush that fails after it re-baselined or evicted an object |
| `PredicateIsOrder`, `WalksAreSound` | `Exact` | a driver or cursor that rounds an order value |

In every module the property is not inductive. What is added to it is, in a sentence,
what the code relies on without saying so.

**SqliteGate.** That a turn is not lost
depends on where every transaction is and on who is queued: `GateInv` adds
`QueueInv` (the queue holds exactly waiting tasks, each once) and `HolderInv`
(`holder`, `inTx` and `dbTx` are functions of the program counters) to the
properties. Each action preserves it; the work is in `PassTurn` (the head of the
queue leaves and gets the turn) and `TimeOut` (an element leaves the middle, for
which `RemoveAtFacts` is proved first). From it: `TurnsStaySound` (`TurnsAreSound`,
with `TypeCorrect`, `TurnIsUnique` and `OpenTransactionHolds` for its parts),
`StatementsStayOutside` (`NoForeignStatement`) and `HolderNeverWaitsForItself`
(`NoSelfWait`). Flows nest one deep in the model (the last conjunct of
`GateAssumption`).

`GateImplementsSerial` is the refinement. `LineStands` is what it rests on: as long as the
gate is taken somebody has the turn, one task only, and he is not among the waiters. So the
abstract line is well defined (`LineIs`), a step that leaves `taken`, the turn and
`waiters` alone leaves it alone (`LineStays`), and each step of the gate is one step there
or a stutter: a request joins the line at its end (`LineJoined`), the end of a turn takes
the head off and makes the first waiter the head in one step, though he resumes later
(`LinePassed`), a timeout takes a task out of the middle (`LineLeft`). Who opens, closes or
executes is at the head, or runs inside the transaction of him who is (`TurnIsServed`).

**Transactions.** What a session may have left behind is not to be seen in the pool: it
depends on how far the call has come and on the error it carries. `TransactionsInv` has
`SessionInv` (what a session holds and knows at each place of a call), `WorkInv` (a
transaction on the server that has a call's work is on one connection, which the call
holds, or the call has ended without ROLLBACK and the transaction was abandoned or is
aborted), `DurableInv` (what is durable, and who knows of it) and `EndsInv` (the
callbacks told so far). From it: `PoolSound` (`PoolIsSound`), `DurableOnce`
(`AllOrNothing`) and `EndsTold` (`EndsToldOnce`). `LeftoversAborted` says what is left of
`PoolSound` when a statement after BEGIN may fail under `@Transactional`: the
transaction the next borrower finds is aborted, so its work can never become durable.

**Savepoints.** What an object should hold is said of a rest, when no call is under way;
`SavepointsInv` says at every moment which events memory stands for (`View`): those that
survive, and those rolled back whose undos are still to run, but for a write that has not
returned. `MemoryFits` is that every object holds what the last of them left, `UndosFit`
that every undo puts back what those before its write had left, and that the undos are in
the order of their writes. So running the undos past any of them takes exactly their
writes out of `View` (`UndoingRight`, by induction over the undos run, from `UndoOne`; it
is there that an undo must leave a value assigned since alone). What a partial rollback
needs is `Paired`: the server's savepoints correspond, in their order, to marks of the
same names, so that the last savepoint of a name has the last mark of that name (a server
that replaces a savepoint leaves marks behind that have none), and a mark divides the
undos where its savepoint divides the log. That survives a new pair (`PairedMore`), a
rollback (`PairedCut`) and a name taken again (`PairedWithout`). `CallsAt` says what a
call under way has done to one side and still owes the other. From it `ObjectsStayTrue`
(`SavepointsAgree`).

**Migrations.** Who works is decided by who holds the advisory lock, but for
`revertLast()`, which has given it up: `LockHeld` has both, and with `Overlap = FALSE`
nothing else is under way next to it. `MigrationsTakeTurns` (`OneAtATime`) follows.
`TrackAt` says of the migration a call is at that its schema change is in place, and
`OrphansLost` that what a dead process left running is among `lost`: so
`RecordsStayTrue` (`RecordsMatchSchema`), the migrations at that place aside.
`ListsInPlace` follows a runner's own list through `run(list)`, which lends it another
and puts it back. For `DecisionsStayTrue` (`DecisionsHold`), `Reading` keeps what a call
read next to what the tracking table has become: the table still begins with what an
upward call read; what a downward call read begins with the table, and what the call has
still to revert is the end of the table, newest first. `StillDue` says that nothing it
has still to do is done. All lists are compared without the names in `lost`, of which nothing is promised (`Without`, `Begins`).

**TenantSchema.** The client's belief about `search_path` is true of the server only when
everything it sent has run. `ForecastInv` runs the wire ahead: a forecast names for each
command on the wire the schema the server will be on when the command runs, if it runs
inside an open transaction, and for each savepoint name the schema a rollback to it leads
back to; `searchPath` and `savepointPaths` are where the forecast ends. A command that
fails leaves an aborted transaction, in which the forecast promises nothing until a
rollback to a savepoint. `QueueInv` says how queue and wire share a command, `NamesInv`
that a name not yet used is nowhere. From them `OwnSchema` (`RunsInOwnSchema`). `Inside`
(`StaysInside`) needs only `EndInv`: the end is the last command of the queue, then of
the wire, then nothing is left.

**QueryCache.** What callers were told is in place (`returned`) moves only in a step that
drops the tags it moves for; a dropped tag takes along the entries under it and the reads
under way that would store one. So `CacheInv` bounds the rows of every entry (`EntryAt`),
and of every read that may still store its rows (`ReadAt`), from below by `returned`;
`WriteAt` says that a tag with a settled write of an open transaction is held. From it:
`CacheFresh` (`NoStaleEntry`) and `CacheCurrent` (`ReadsAreCurrent`), the second as an
invariant next to `CacheInv`. The store itself is a matter of lists: the order of use has
every key of an entry once, an eviction takes the keys in front, and the tags let go of
what left. `StoreInv` adds to `StoreIsSound` only that a read which goes to store its rows
has some; the work is in what `Without` does to a list with no element twice. From it
`StoreStaysSound`.

**TenantRouter.** `RouterInv` ties the router's maps to the provisionings they
name (`Routes`: what `inFlight` names is running for that tenant, what `entry`
names is ready, a timer belongs to an entry in place), the pools to the places
that account for them (`Pools`), and the number of provisionings to the requests
that asked (`Counted`, by cardinality: the model's provisioning numbers cannot
run out). From it: `TypeCorrect`, `SharedProvision` (`OneProvision`),
`PoolsAccounted` (`NoOrphan`), and the
action properties `ResolvesToLivePool` (`GivenLivePool`) and `EvictsOnlyIdle`
(`EvictedOnlyIdle`). The last is why `Routes` speaks of timers: a timer is set
only while its own entry is in place, so releasing by tenant id hits the right one.

**Replication.** `PoolInv` follows a pool from the map to a release to its end: a pool
that opens or is open is in the map or with a release and never both (`Owned`), the map
has pools of this registration only (`Mapped`), a release has older ones (`ClosingInv`).
That a failed opening drops its own entry and not its successor's is in there. From it
`PoolsHaveOwners` (`PoolsAreOwned`). `CheckInv` ties a check under way to the router and
the pool it is of, so an answer that comes after a release counts in a router nobody
reads from; `RouterInv` says what the counters of the router in use stand for.
`RotationHolds` (`RotationIsSound`) also needs arithmetic: from any position, and with
any slaves left out, as many reads as slaves are in the rotation reach them all
(`RotationFacts`, by the slave the fewest steps ahead that would be missed).

**Ambient.** *Where work lands* is a matter of the frames of a callback. `FrameInv`: every
frame has the session of a call around the callback, and one that redirects a manager was
pushed by a call of that manager which named the connection; the session of every call
around the callback has its frame there, and all that lies on top of it are sessions of
calls inside that call. The innermost frame that fits can then lie no further out than the
nearest call that asked: `WorkLands` (`WorkLandsWhereAsked`). *What NESTED undoes* is a
matter of the log. `LogInv`: savepoint names are unique, though two counters give them out
(`NamesApart`), and the savepoint of a running NESTED call divides the log of its session
into what is not in the call and what is (`Divides`), because while it runs only what it
awaits uses the session (`Alone`). ROLLBACK TO cuts there (`UndoneFacts`, `LogCut`), so
`KeptInv` holds: a write is in the log unless a NESTED call around it has thrown. `RunInv`
(what is around a running call runs, top-level calls aside) makes sure that no work is
added for a call that has. `NestedUndoes` is `NestedUndoesItsOwn`.

**Paging.** The instance has keys of two columns and three rows; the theorems are about
keys of any width, any set of values and any number of changes. `PredicateIsOrder`: for a
cursor that was made of row `c`, the predicate `buildKeysetPredicate()` writes (with its
cases for NULL, direction and key order) selects exactly the rows that
`buildKeysetOrderBy()` sorts after `c`. `WalksAreSound` is `Spec => []KeysetWalk`. The
argument: the order is a strict total order on rows with different keys (`LexTotal`, by
the least place two sequences differ, through `LeastExists`; `LexPrefixed` for the two
columns in front of the key), so a page that ends with its last row in order has
delivered a prefix of what is past the cursor (`FirstFacts`, `ShortIsAll`, `LastFacts`).
`WalkInv` adds to the property what makes it inductive: rows delivered are not past the
cursor (`Passed`), and the rows a walk still owes and has not delivered are past it
(`Missing`).

`BoundsAgree`: from any options `streamBatch()` works out the window `find()` works out.
`StreamsAreSound` is `Spec => []OffsetWalk`: a row's `Rank` is how many rows sort before
it, a slice is the rows of an interval of ranks, and `StreamInv` says that what was
delivered is the interval from the start of the window to the offset.

**WriteBuffer.** Whether an object's key is real is decided when a transaction ends, which
may be long after the flush that gave it the key. `BufferInv` says the same (`RealIn`:
who has a key has the row of that key, alone, and foreign keys name rows) of three
moments: of objects and rows as they are while a flush runs (`RunInv`, with what makes it
keep: it writes only objects it has captured); of what a failure of the flush would leave
(`ThenInv`: `Restore` of the capture, with the rows the flush began with); and of what the
callbacks at the end of the caller's transaction would leave of that, with the committed
rows (`EndInv`). A job moves the first and leaves the other two alone, because what goes
back overwrites what it changed (`RestoreFacts`, `RunEndsFacts`); a failure turns the
second into the first; a joined flush that ends puts its capture in front of the callbacks
(`RunEndsAppend`: the last one registered runs first, which is what makes the third stay);
a rollback turns the third into the first. That gives `KeysStayReal` (`KeysAreReal`), for
every mixture of calls and faults (`Mixed` and `LateFaults` either way).

The identity map is a buffer by itself (`IsBuffer`: the objects in the map
are those with a snapshot), and every call grows it in a way that leaves edited
objects alone (`Grown`, through `track`, `merge` and eviction): so `NoEditEvicted`
(`EvictionKeepsEdits`), again for every mixture. That the map may be served from is a
property of a moment between flushes, `Honest`, and of the middle of a flush it is false:
an object that is edited is not what its row holds until its UPDATE has run, and what a
DELETE still to come will remove is in the map. `CacheInv` says what each entry waits for.
While a flush runs, an entry agrees with its row, or its baseline does and its UPDATE is
among the jobs left (`EntryFits`); a queued object has a row like itself, or its INSERT is
left (`QueuedFits`); the jobs left are in order (`InOrder`: writes, the expansion of
deletes, deletes of kids, of parents, bulk statements), so that no write is left when a
DELETE or a bulk statement comes and changes rows and memory alike; a DELETE meets no
object that is queued. `MapInv` says `Honest` of what a failure or the end of the caller's
transaction would leave, `QueueInv` that what is queued has no key, then or at that end.
The last job gone, nothing is waited for, which gives `Honest` again (`CacheDone`). From it
`CacheStaysHonest` (`CacheIsHonest`), under `Careful`, which is `Mixed = FALSE` and
`LateFaults = FALSE`: TLC violates the property with either of them TRUE.

That foreign keys hold at every statement needs neither, but an invariant of its own,
`RefersInv`, since it is about mixtures `CacheInv` leaves out. `Refers`: a live row that
names another names a live one, a parent's; only kids are orphans. What could break it is
a kid written under a parent that is not there, or a parent deleted before its kids. So
each job left says what it relies on (`JobRefers`): a cascade or an added kid has a parent
with a live row, because the parent was just written or is in the map, whose parents all
have live rows (`Stands`), now and after a failure (`StandsInv`); the DELETE of a parent
has that of its kids before it (`Home`, from `collectCascadeDeletes`), or no kid is left
and nothing that writes one (`InOrder`). A queued parent meets no queued delete, because
it gets its key only now (`ParentFits`). Bulk statements are not ordered by that rule:
`KidBulks` says that `deleteMany()` is not called for parents, and then
`KidsKeepParents` is `ForeignKeysHold` for every mixture of calls and faults.

That a failed flush can be called again (`RetryKeepsWork`) compares what it was to store,
computed when it began, with what a flush would be to store after it failed, many
statements later. `GoalOf` is `Goal` as an operator of the objects, snapshots, queues and
rows it reads, and `RetryInv` says that the goal of the flush under way is `GoalOf` those a
failure would leave: objects with the columns captured before the flush (`Then`), the rows
it began with, snapshots as they are. Each job keeps it because it writes only objects that
were captured (`ThenSame`), or it has altered a snapshot, after which only a late failure
could come. The deletes of kids that the flush derived and leaves in the queue change
nothing, since each takes only what the delete of its parent takes (`DeletesAgain`). So
`FailuresKeepWork` needs `LateFaults = FALSE` and nothing of how the caller mixes calls.

**Only model-checked:**

- all liveness (`EveryWaiterServed`, both `CallsFinish`, `RouterSettles`,
  `HealthFollows`, `ReleasedPoolsClose`, `WorkDrains`): fairness and ENABLED are out of
  this prover's reach;
- of WriteBuffer, `FlushStores`: that the rows a flush ends with are its goal is a claim
  about every order of its jobs at once, and needs an account of what each order has left
  to do.

Induction over data deserves a word. The library's induction theorems take a predicate as
a parameter, which the provers cannot instantiate; `ListsProofs` has induction over
numbers and over lists as statements about sets (`NumbersIn`, `ListsIn`: a set that has
the empty list, and every list of it with one element more, has all lists), from the fact
that a set of numbers has a least element. With them, what a recursive function returns
is proved for every list (`WithoutAppend`, `WithoutFacts`, `UndoingRight`). What stays
out of reach are `SelectSeq`, folds and `RECURSIVE` operators, which the provers cannot
unfold; `Lists` and the modules proved about use recursive functions instead.

## 6. Disagreements and observations

One run ends in a counterexample to what a document, comment or test says:

- **`revertLast()` releases its lock at once** (`Migrations_revert`). It returns the
  promise of `runDown()` without awaiting it (`MigrationRunner.ts:298`).

Others were seen while modelling. Where a constant of the model, or a property, leaves
one out, that is said: with the other value TLC finds it.

Transactions and savepoints

- A failed COMMIT hides its error. The data source has dropped the connection when COMMIT
  fails, so the rollback of the `catch` block throws, and its error replaces the first
  (`TransactionRunner.ts:114-126`). A deadlock reported at COMMIT is not retried.
- A throwing `beforeTransactionRollback` hook skips ROLLBACK (`TransactionRunner.ts:113`,
  against `docs/transactions.md:23`). The connection returns to the pool inside the
  transaction; on MySQL the next BEGIN commits the failed work (`Abandoned`).
- A post-commit hook that throws a deadlock error makes the retry loop run
  committed work again (`TransactionRunner.ts:304` with `:108-110`). `HookErrors`
  contains "deadlock" when one wants to see it.
- When a statement after BEGIN fails, `@Transactional` closes the session without
  ROLLBACK (`Transactional.ts:239-244`, against `:153`).
- PostgreSQL answers COMMIT of an aborted transaction with a ROLLBACK, which the
  driver reports as success: end callbacks are told `true`
  (`TransactionSessionManager.ts:230`, `:321`; `CatchesError`).
- A write next to a NESTED transaction under `Promise.all`, which the savepoint does not
  cover, can return after it; when the savepoint rolls back, the object loses the key of
  a row that is still there (`TransactionSessionManager.ts:339`; `Overlap = TRUE` of
  Savepoints).
- Inside a REQUIRES_NEW call, an `em.transaction()` of a manager that an outer call has
  redirected goes back to the outer session, and takes along the work of others in its
  callback: the innermost frame is the outer one again (`WorkLandsWhereAsked` names the
  exception). A NESTED call that fails after the session around it has ended finds nothing
  to roll back to.

Query cache

- A cache created by the first read: a write that returned before that read, in a
  transaction still open, is never held; rows the read stored before the COMMIT stay
  until the TTL (`EntityManager.ts:676`; `Configured = FALSE`).
- A custom cache store whose `set()` settles after `invalidateTags()` keeps a stale
  entry (`QueryResultCache.ts:352`, `:360`, against `docs/caching.md:89`). User tags
  are not part of the key, so a hit serves rows stored under another caller's tags
  (`docs/caching.md:68`). `maxEntries: 0` stores one entry (`:132`).
- `visitWriteClosure` follows the relations declared on the entity it starts from. A child
  whose foreign key cascades and whose parent declares no inverse, join rows of a
  many-to-many declared on the other side (`SchemaRegistrar.ts:1659`) and relations of
  subclasses are missed: cached reads of them stay until the TTL, against
  `docs/caching.md` ("child tables reachable through ON DELETE CASCADE foreign keys").

Migrations

- `rollback(0)` reverts everything, for `slice(-0)` is the whole list
  (`MigrationRunner.ts:345`). `run(list)` swaps the runner's own list until it ends
  (`:312-318`). A server that closes the idle lock session frees the lock under a
  runner at work (`MySqlDriver.ts:527`).

Tenants

- A tenant's idle time counts from its last `resolve()`: a longer query has its pool
  closed under it (`TenantConnectionRouter.ts:286`, against "unused", `:41`).
  `register()` that fails after the pool was opened leaves it open (`:241`). A timer
  that fires before its TTL by the wall clock is not set again (`:287`).
- `propagateShutdown({closeConnections: true})` also closes connections the user
  registered (`MultiTenantEntityManager.ts:738`, against the comment at `:732`), and
  a provisioning under way during it leaves its pool open until the TTL, if there is
  one (`:722`). This is why `GivenLivePool` speaks of the time before a shutdown.
- A statement issued while COMMIT or ROLLBACK is in flight is sent behind it, and runs
  after the transaction, on its own (`PostgresDataSource.ts:71`, `:97-105`, against
  `docs/multi-tenancy.md:480`; `Late = TRUE` violates `StaysInside`). A SAVEPOINT that
  fails is remembered all the same: when its name is used again, ROLLBACK TO restores the
  path of the one the server does not have (`Reuse = TRUE`).

Write buffer, with `Mixed` or `LateFaults` TRUE or, where neither is named, by reading

- A kid moved to a parent that is persisted in the same flush is deleted as an orphan
  (`WriteBuffer.ts:1188`, against `docs/write-buffer.md:430`, "sparing reparented
  children"; without the conjunct `Tangled` of `FlushBegin`, six calls violate
  `FlushStores`). An edited kid so moved does
  not get its foreign key written.
- A flush that fails late keeps what it had done to the buffer: an edit cascaded to a kid
  is taken for stored, and the retry does not write it (`CascadeProcessor.ts:171`, against
  `docs/write-buffer.md:413`; `LateFaults = TRUE` violates `RetryKeepsWork`). Likewise
  evictions and what bulk statements changed in memory.
- A failed flush leaves the deletes it derived from cascades in the queue: persisting the
  parent again cancels only the parent's own, and the kids are deleted.
- `onFlush` throwing after the COMMIT takes the `catch` path: the queues are restored,
  generated keys taken off again, and the next flush inserts a second time
  (`WriteBuffer.ts:1568`). Work queued while a flush awaits is cleared with the queues
  (`:1534-1539`).
- Persisting what another call has in hand: a new kid queued and also put into a tracked
  parent's collection never gets its foreign key; a generated-key object removed, flushed
  and persisted is only tracked again; an assigned-key one removed and persisted in one
  flush is neither; edited, removed and persisted, its edit becomes the baseline; a bulk
  statement that matches a row inserted in the same flush leaves a stale object or a
  phantom.
- `deleteMany()` of parents is one DELETE (`FlushExecutor.ts:463`) that takes no kids
  along, as `remove()` does (`WriteBuffer.ts:1438`): with such a call among the `Bulks`,
  TLC violates `ForeignKeysHold`, where a database would refuse the statement.
- An orphan that was deleted stays in the identity map, and adding it again is silently
  lost. An object whose only change is its collection may be evicted, and one just tracked
  at once. `findOne()` serves an object that an automatic flush has just deleted.
- A cycle of entities is written kids first, so a new kid's row misses its parent's key. A
  flush that does not batch writes every column, not the changed ones
  (`docs/write-buffer.md`, "only changed").

Replication

- A slave that accepts its check and never answers it stops all checks: the next cycle
  waits for this one (`Hung`; `docs/configuration.md:485`).
- `shutdown()` resolves before the pools of an earlier `initialize()` are closed
  (`ReplicationManager.ts:35` with `:108-110`).
- `docs/configuration.md:450` counts `count()` among the reads that are distributed; only
  `find`, `findAndCount`, `findWithCursor` and `explain` ask for a node.
- `markSlaveFailed()` and `markSlaveRecovered()` leave the counters as they are, so the
  next check may undo a mark at once, or not for a full threshold.

Pagination

- A PostgreSQL TIMESTAMP has microseconds, a Date in the cursor milliseconds. With a
  `Carried` that loses digits TLC finds both outcomes: ascending, the row at the boundary
  comes again (with pages of one row for ever); descending, rows are skipped
  (against `docs/express.md:453`, "does not skip or duplicate rows").
- An entity without a primary key has no tie-breaker: ties are skipped, and a page that
  ends on NULL starts over (`CursorKeyset.ts:117-121`). A descending cursor of the oldest
  version runs into rows before it, for NULLs always match.

## 7. What is not modelled

Of the components with a module: SqliteConnector's statement cache; sessions a
caller drives by hand outside any flow; `executeReadOnly`; cloning
and key building of the cache, custom stores that answer later; `runUp` and `runDown` called directly,
and migrations on SQLite, whose lock does nothing; retries of a first connect; the
metadata layer `release()` drops. Of the write buffer: pivot rows of many-to-many,
cascades of one-to-one, read-only and explicit tracking, batched statements, lazy
injection, `preview()`, `refresh()`, listeners, automatic flushes. Of pagination: entities
without a primary key, `findWithPage()` and its counts, a cursor's text and its
validation, the filters every page repeats. The random strategy of replication, of which
only "a healthy slave" would be left.

A migration's statements are one step of the server, so a migration that fails
half-way is one that failed: on MySQL, where DDL commits, part of it may stay, and
the runner has nothing to say about it.

The write buffer and the transactions it flushes in are composed in `WriteBuffer` through
what a flush sees of a transaction (its statements, its end, its callbacks); that these
come as said is checked in `Transactions` and `Savepoints`. `QueryCache` takes the tables
a read or a write reaches as constants.

Components without a module are listed in `PROJECT.json` with the reason. Most are
data rather than control (SQL text, row shaping, schema diff) or only log. The text
builders and the readers and writers that use them are by far the larger part of the
source: what they mean is decided by the database, and a model of them would be one of SQL.

## 8. Plan

Modules:

1. `RelationClosure`: the cache's walks over relations as functions, against a
   reachability definition, over all relation graphs of three entities; then the
   constants `TablesOf` and `Writes` of `QueryCache` get their values from it.
2. Seeders, as a small instance of what `Migrations` describes; the query tracker's wait
   at shutdown; metadata layers.

Runs: one per question. A new component's run takes the place of a pair of properties
that one can state together.

Bounds: two or three actors, one failure more than the code handles at once, and the
limit (pool, capacity, retries) one below what the actors ask for.

Proofs:

- `WriteBuffer`: `FlushStores`, from what each job left is still to make of the rows.
- the lemmas a module of `RelationClosure` would need about paths in a graph.
