# Database Jones in TLA+

This directory holds TLA+ modules for Database Jones (`mysql/mysql-js`), the
JavaScript object mapper for MySQL and MySQL Cluster (NDB): models of its
concurrent core and of its algorithms, TLC configurations that check them on
small instances, and proofs checked by TLAPS. Names are those of the source
where TLA+ allows it.

## 1. Inventory

Everything runs in one JavaScript thread, turn by turn. What is concurrent is
what happens between turns: native calls run in libuv worker threads, or in the
listener thread of the NDB asynchronous API, and their callbacks arrive in any
order the native side produces. User code runs inside callbacks and may call
back into the module that is calling it. Most of the hazards come from this:
state that is read before a callback and used after it, and calls made by a
callback in the middle of an operation. The rest come from the algorithms
between an object and a row: predicates to index bounds, fields to columns,
joined rows to object graphs.

| Part | State it keeps | Operations | What makes it correct | Module |
|---|---|---|---|---|
| `common/QueuedAsyncCall.js` | an array of calls | `enqueue`, `wrappedCallback` | one call at a time, in order, none twice, none lost | `QueuedAsyncCall` |
| `AsyncNdbContext.cpp` | wait group, sent queue, shutdown flag | executeAsynch, listener thread, completeCallbacks | every sent transaction calls back once | `AsyncNdbContext` |
| `jones-promises` | state and value of a promise, its listeners | then, fulfill, reject, resolve | settled once; all listeners told the same, in order | `Promises` |
| `jones-ndb/impl/ndb/NdbSession.js`, `NdbTransactionHandler.js` | current handler, `execQueue`, `seizeTxQueue`, open contexts; `impl`, `execCount`, `retries`, `error` | begin, execute, commit, rollback, scans with retry, seize and release of contexts | contexts exclusive and accounted for, waiters in order, a commit covers what was executed | `NdbSession` |
| `SessionImpl.cpp`, `TransactionImpl.cpp` | free list, `ndbTransaction`, accountant | seize, release, start, execute, close | a context given back has no open transaction; concurrency is counted | `NdbSession`, `TransactionAccountant` |
| `NdbConnection.js`, `NdbConnectionPool.js` | table of connections, reference counts, linger timers, free list of sessions | connect, close, getDBSession, closeNdbSession, prefetch | a connection in use is never closed; a session has one place; callbacks are called | `NdbConnection`, `SessionPool` |
| `jones-mysql/impl/MySQLConnection.js`, `MySQLConnectionPool.js` | pooled connections, `pendingBatches`, transaction state | connect, execute, begin, commit, rollback | batches in order, a transaction ends as asked, all are called back | `MySQLSession` |
| `api/UserContext.js`, `Session.js`, `Batch.js`, `Transaction.js` | a context per call, batch list, transaction state | the public API | every call answered once; a batch whole; Idle after the end | `UserSession` |
| `api/SessionFactory.js`, `api/jones.js` | registry of connections, factories, slots of sessions | connect, openSession, close | pool shared and closed as counted, slots reused only when free | `SessionFactory` |
| `common/DictionaryCall.js`, getTableHandler | caches of handlers and of metadata, callback lists | table handlers, CREATE TABLE | one read per burst; everybody told; handlers agree | `TableHandlers` |
| `loader` | job, source, controller, writer, logger | read, skip, store in batches, end | rows shared among workers and counted, one end | `Loader` |
| `api/Query.js`, `common/IndexBounds.js`, `BitMask.js`, `DBTableHandler.js`, `NdbScanFilter.js` | query trees, marks, buffers | where, chooseIndex, scans | the answer is what the predicate says | `QueryExecution` and the modules below it |
| `api/Projection.js`, joins of `MySQLConnection.js` | projections, sectors, cached statements | validate, read | a graph as the tables have it, never by a stale statement | `Projections`, `ProjectionResults` |
| `api/TableMapping.js`, `DBTableHandler.js`, `NdbAutoIncrement.js` | mappings, column lists, cached keys | map, persist, save, update, remove, find | a map from keys to objects | `ObjectStore`, `ObjectMapping` |
| `NdbMetadataManager.js`, `DBDictionaryImpl.cpp`, converters, serializers, `Adapter/impl/common` templates, `jones-test`, `shell`, `perftest`, `samples`, `unified_debug` | | input and output, glue, conversions, tools | | not modelled |

How they interact: an API call makes a `UserContext`, which obtains a
`SessionFactory` (and with it a DBConnectionPool), a `DBSession` and a table
handler, builds operations, and gives the list to the session's current
`DBTransactionHandler`. For NDB the handler seizes a `TransactionImpl` from the
session, and sends every native call through the session's `execQueue`.
`AsyncNdbContext` or a libuv worker completes the call; `wrappedCallback`
advances the queue and calls back the handler, which calls the operations'
callbacks, releases the context and calls the user. For MySQL the handler hands
the operations to a pooled connection one by one. In the models one level takes
the level below as calls that complete once, in any order the lower module
allows: `NdbSession` has `execQueue` as a queue that works (which
`QueuedAsyncCall` shows), `UserSession` has the adapter as something that
answers (which `NdbSession` and `MySQLSession` show).

`PROJECT.json` lists the components with their status and, under "hazards", the
places of this code that are hard to test.

## 2. The modules

An action is a JavaScript turn, or the part of one between two places where
user code runs. User code is not modelled: wherever it may run it may make any
call the interface allows, or none. Native calls are the steps that complete
them. A failed assertion or an exception that nobody catches ends the process
(`panic`, `failed`, `typeError`, `dead`), after which no action is enabled.
Definitions under a comment "Mutant:" are one-line bugs; each property of a
passing run is violated when one of them takes the place of the definition
beside it (`PROJECT.json`, "mutants"). They are not part of any specification.

### Queues and callbacks

`QueuedAsyncCall` is one `execQueue`. `queue` is the array, `running` the native
calls in progress. `wrappedCallback` runs in three steps because user code runs
between them: `Complete` (shift, and note the next call), `Advance` (after the
preCallback, run what was noted), `EndTurn` (after the main callback).
`Enqueue` is enabled in every phase, as the callbacks may enqueue again; this
is the recursion that the comment in the source calls tricky. `SerialExecutor`
is what the queue promises: calls submitted, started one at a time in the order
of submission, and returned. The refinement maps the waiting part of the array
to `pending` and the running call to `active`.

`AsyncNdbContext` has the worker threads (`ExecuteAsynch`, `Push`), the
listener (`Listen`, `WaitEnds`), the coalescing signals to the main thread
(`IoCompleted`, `CompleteCallbacks`), `Shutdown` and the destructor. The wait
group is external, modelled from how the code uses it.

`Promises` is `Promise.js`: `outcome` (resolved, with result or error),
`listeners` (its arrays of callbacks) and the immediates of the event loop. A callback is what it returns: a value, a
promise, a foreign thenable, or an exception. Results are not thenables
themselves.

### NDB transactions

`NdbSession`:

| Model | Code |
|---|---|
| `tx`, `openTxContexts`, `execQueue`, `seizeTxQueue` | fields of `NdbSession` |
| `autocommit`, `sentSeizeImpl`, `impl`, `execCount`, `retries`, `txError` | fields of `DBTransactionHandler` |
| `freeList`, `allocated`, `ndbOpen` | `SessionImpl` free list, `TransactionImpl::ndbTransaction` |
| `kind`, `mode`, `status`, `result`, `opCtx` | a user call, its exec mode, where it is, what it was answered, the context its operations were prepared with |
| `nativeOk`, `work` | history: what NDB really did with a call |
| `Begin` | `NdbSession.begin` |
| `Execute`, `ExecuteSpecific`, `Send` | `execute`, `executeSpecific`, `run` |
| `SeizeTransactionContext`, `ReleaseTransactionContext` | the functions of these names in `NdbSession.js`, with `seizeTransaction` and `releaseTransaction` of `SessionImpl` |
| `EndTransaction` | `commit` and `rollback`, with the stubs for a handler that has executed nothing |
| `AutoIncDone` | the auto-increment values of a list have arrived |
| `ExecDone`, `Reply` | `onExecute`, before and after the operations' callbacks |
| `ScanStarted` ... `ScanFailed`, `QueryDone` | `executeScan`, `gather`, `getScanResults`, `getQueryResults`, the close and retry of a scan |
| `RunHead`, `Enqueue` | `execQueue`; that the queue itself works is `QueuedAsyncCall`'s business |

`Kinds` and `Faults` select what the user executes and what NDB may report;
`Pipelined` says whether the user calls a begun transaction again before it has
answered; `AsyncApi` is `use_ndb_async_api`, under which the second and later
executes of a transaction must find its NdbTransaction open. Rows, keys and
filters are abstracted: an operation list is its kind.

`TransactionAccountant` is `CachedTransactionsAccountant` of `SessionImpl.cpp`:
`concurrency` with its 16 bits, the bitmap (`tally`) as a set of nodes, tokens
as sets of nodes with Nil for -1. `Execute` is a first execute of a context
(the intent is registered before the transaction starts), `ExecuteScan` one by
a scan or query, which registers none, `Close` is `closeTransaction` with
`registerClose`. `idle` are the connect records of the Ndb object; they are
external code, modelled from what the comments of `SessionImpl.h` say of them.

### NDB connections

`NdbConnection` has the table `baseConnections` for one connect string
(`base`), every NdbConnection made for it, the pools that use one, and two sets
of timers: `lingering` (`closeReally` of `releaseNdbConnection`) and `shutting`
(the 100 ms of `NdbConnection.close`). `Connect` is `DBConnectionPool.connect`
down to `NdbConnection.connect`; `NativeDone` its two native calls; `Callback`
one turn of the loop of `runCallbacks`, in which users may call again; `Close`
and `Release` are the two ends of `DBConnectionPool.close`; `LingerExpired`,
`ShutdownDone`, `DeleteDone` are what follows.

`SessionPool` is one pool: the free list and its prefetch (`Prefetched`,
`Timer`), `GetDBSession` and `Fetched`, the three ways of `closeNdbSession`
(`Close`, `CloseAgain`), and `ClosePool` with what the connection's `execQueue`
destroys (`Destroyed`), one session or table after the other.

### MySQL sessions

`MySQLSession`: a handler gives the operations of a batch to its connection one
by one; `turn` says what it does next and splits the turns in which callbacks
of operations and batches run. `conn` is the connection a session holds, `wire`
what was sent to each and is not answered; `trx`, `begun`, `ended`, `work` are history: what the
server keeps or has undone. Of a batch, `waited` says that it came while
another was executed, and `failed` that an operation of its own failed.

The server is external, modelled from what the code says of it: `begin`, an
operation, a commit or a rollback may fail; on an error of an operation it may
have rolled back the whole transaction (`RollsBack`, MySQLConnection.js:149),
and DDL commits the open one (`CommitsImplicitly`); it tells of neither. A
failed commit may have been carried out or not. Only a transaction that comes
before every batch of its session is begun at the server: `firstTime` is set
where a handler is made (180) and cleared for good by the answer of `begin`
(221), so that later transactions of the session send no `begin` and run in
autocommit mode. `EndDecides` says so. `Patient` is a user who waits for the
answer of `begin`.

### The API

`UserSession` has one context per call of the user: its phase (table handler,
operation, adapter), its answers, and the promise as what settles once and
throws when it is settled again. `batchList`, `state` and `wire` (what the
adapter has been given and not answered) are the session's.

`SessionFactory` is `getSessionFactory` with the registry, the slots of a
factory's sessions, and `SessionFactory.close` with `deleteFactory`. A slot
holds 0 (null), `c` (the session of call `c`) or `-c` (its placeholder).
`TableHandlers` is `getTableHandler` over `DictionaryCall`: caches of handlers
and metadata per session and factory, the list of those who wait for a read,
told one by one, and the creation of a missing table. A mapping may be
ill-formed, so that the constructor is refused at once (`refused`), or not fit
the table (`bad`).

### Loader

`Loader` is one job. The calls between source, controller and writer are
synchronous, so each is an operator from a state of the job to the next
(`ld` is a record), and an action is a turn of the event loop. `loaded`,
`rejected`, `logged` and `lost` are history: the rows by what became of them.
`rash` says that the job met one of the orders of calls of section 3 for which
the code does not keep its promises, `dead` that it ended by an exception or in
an endless loop. FileDataSource never gives a record the row it has scanned
(DataSource.js:294, 315): a job of a file goes on only with a plugin whose
`onReadRecord` sets `record.row` (the field `parses` of a job), or refuses the
row; without it the first row dies in `persist(undefined)`.

### Queries, objects, projections

`BitMask`, `Predicates`, `IndexBounds`, `AccessPaths` and `ScanFilter` are
operators: the masks, the marks of `QueryHandler` and the SQL text as a
condition, the interval algebra, the choice of an index, and what NDB is given.
`QueryExecution` executes a query, again and again with other parameters, on
either adapter. Its reference is `Answer`, the rows for which the predicate is
true. The rows of each table are fixed, and such that they keep the unique keys
and NOT NULLs that the table declares. A scan has an order of its own: that of
the index with NDB; for MySQL one of two (`ReadingOrders`), which an `ORDER BY`
sorts by the first index column. NDB's scan filter is evaluated with the logic of
null of SQL. `AnswerIsExact` says of three things what the code does instead of
the answer: rows below an exclusive bound that was cut off (`ShutOut`), a scan
that is cut by an error after its first rows and answered as a success
(`scan.cut`), and the order, which is that of the first column for MySQL
(`InOrder`).

`ObjectMapping` is `TableMapping` and the conversion of `DBTableHandler`,
`ObjectStore` the operations on a table through either adapter, with the
auto-increment cache of NDB. `ObjectMap` is the abstract specification: a map
from keys to objects; `ObjectStore` implements it with the rows read back as
objects. A list of objects is persisted one by one, and each may fail by
itself, in the model as in the code: NDB executes the list with AO_IGNORE,
which passes over the rows that fail and commits the others
(NdbTransactionHandler.js:416), MySQL sends one autocommit statement after
another and stops at the first error. A key that was to be fetched and was not
obtained is inserted as 0. `Told` is what the user hears: with NDB, the
operations behind one that failed are told of an error although their rows are
stored.

`Projections` is the validation of a graph of projections, which waits for
table handlers while other calls run, and the reads that follow;
`ProjectionResults` the join of the MySQL adapter and the fold of its rows into
objects, against the graph that the tables have.

### MC and proof modules

The `MC` modules define the small sets. `MCQueuedAsyncCall`,
`MCNdbConnection`, `MCSessionFactory` and `MCReads` put several instances in
one run: the parts share no state, and a behaviour shows one or the other. The
`Proofs` modules hold the theorems of the module they are named after;
`NdbConnectionProofs` those of `SessionPool`, too, and
`QueuePromiseAccountantProofs` those of `QueuedAsyncCall`, `Promises` and
`TransactionAccountant`.

## 3. The runs

Each `.cfg` bears the name of its run.

| Run | Instance | States | What it shows |
|---|---|---|---|
| `queue` | four calls; three Ndb objects that send twice; four promises | 147,255 | one call at a time, its own completion, run once, no stall, refines `SerialExecutor`; listeners told the same in order; every call, execute and listener is called back |
| `session` | three handlers, four calls, two contexts, auto-increments and scans, all faults, one retry and two timeouts, asynchronous API, a user who waits | 275,124 | contexts exclusive and accounted for; a call uses the context of its handler; a commit covers its work; contexts come back |
| `session_live` | three handlers, three calls, one context, keys and queries that time out | 163,729 | contexts are granted in the order asked for; every call is answered |
| `session_execute_early` | as above, a user who does not wait | violated | see below |
| `accountant` | three contexts, two nodes, two scans | 565,147 | the drift of the counter is that of scans; what is established stays bounded |
| `connection` | three pools, two connections; three users and four sessions of a pool | 353,420 | counts, one connection, open while used, deleted once; a session has one place; a closed pool has closed all; everybody is answered |
| `mysql` | two sessions, one connection, two batches, one dictionary call; a server that may end a transaction by itself | 778,113 | batches in order and told of their own errors; what the end decides; autocommit keeps; every batch is called back |
| `api` | three calls of every kind, two transactions | 389,549 | one answer; batches whole; Idle means ended; a failure forbids commit; all are answered |
| `registry` | four calls, two databases, two connections; three callers for a table | 349,325 | registry exact; slots kept; reads shared; handlers agree; all are answered |
| `loader` | jobs with random data and files, with and without a plugin that parses, all faults | 567,129 | rows shared and counted; one end; none forgotten; the job finishes |
| `reads` | some 200 predicates on four tables, twice, either adapter; two reads by projections and one change | 233,807 | the answer is exact, but for the rows that the code loses, which are named; find() uses its keys; graphs as the tables have them; validity current |
| `objects` | mappings of up to two calls over three tables, lists of two rows that may fail, either adapter | 214,271 | values fetched as announced and given once; the table is a map of objects |

### The bounds and why they are enough

*Queue.* Four calls are the completing one, the noted one, one enqueued in a
callback and one behind it. Three Ndb objects that send twice are one being
collected, one sent meanwhile and one that waits. Four promises are a root and
a chain or fan of three.

*Session.* Handlers and calls are interchangeable (symmetry in the safety runs,
in no passing run with a liveness property). Three handlers over one or two
contexts are a holder, a waiter and a third that arrives during the hand-over;
the fourth call lets a begun transaction execute twice before it ends.
`MaxRetries` (10 in the code) and `MaxTimeouts` bound the timeouts of scans: in
`session` a scan is retried once and gives up at its second timeout; in
`session_live` one timeout is retried, and no start of a transaction fails, as
that ends the process.

*Accountant.* `MaxScans` bounds the transactions without intent: after one
closes the counter stands at 65535 and the next intent wraps to 0, after two
the next intent fails the assertion.

*Connection.* Three pools are one that closes, one that takes over while the
connection lingers, and one that comes after. Four sessions with `PoolMin` 2
are two on the list, one prefetched and one of a user.

*MySQL, api, registry, handlers, loader.* Two sessions over one connection
force the pool to hand it over; a batch has up to two operations, so that one
can fail before another. Three calls are a transaction's begin, an operation
and its end, or three at once. `MCKindsOf` orders the four calls of the
registry as two that connect and two that use what they got. Jobs have at most
two workers and up to six lines in up to three chunks; `MaxLead` and `MinLead` are the flow control
bounds.

*Queries.* Two columns, one in each word of the masks, three values and null.
NOT is over a comparison, groups are at most one below the root; the predicates
are those whose ranges the code handles, see below. The composite indexes have
a nullable and a NOT NULL second column, unique and not. *Objects.* Every
mapping that up to two calls can make; lists of two objects, of which either
may meet a key that is taken, a value that a column refuses or a key that was
not obtained. *Projections.* The shop of the tests: customers,
carts, lines, discounts, with one-to-one, one-to-many and many-to-many.

Deadlock is not checked: the user may stop calling, and each object has a last
call after which nothing is left to do.

### Fairness

Weak fairness of steps that the platform completes: native calls return, a turn
of JavaScript runs to its end, timers fire, a server answers. `FetchDone("end")`
of a scan has strong fairness: a scan has finitely many rows, so fetching cannot
go on for ever; without it the loop of `gather` could. Of the user, only that a
user of the session pool closes his session, as the pool's close waits for it.
Nothing is assumed of which outcome a call has.

### What the models take as given

These exclusions are preconditions in the modules, not facts of the code.

- *Session.* In the runs the user of a transaction waits for answers
  (`Pipelined` FALSE). The first invariant of section 4 holds without it.
- *MySQL.* The user waits for `begin`, commits no empty transaction and ends his
  transaction before he closes (`Patient`). Sessions are not closed with calls in
  flight, nor while the handler works after an error of `begin`. An end that
  fails leaves no transaction open at the server. `EndDecides` claims of a
  transaction that was never begun, or that the server has ended by itself, only
  what it says of those.
- *Connections.* The properties hold until two linger timers of one connection
  overlap (`overlap`), and until somebody closes a session twice (`twice`).
- *Registry.* Until somebody closes a factory that others rely on (`rash`).
- *AsyncNdbContext.* One transaction in flight per Ndb object.
- *Promises.* Users do not settle the promises returned by `then`.
- *Queries.* NOT only over a comparison, and not over a BETWEEN with low > high;
  OR over an AND only with ranges that do not overlap on the first column;
  parameters are not null; an order is claimed of index scans only; mapping in the order of columns; an `indexRange` is not left over
  from an earlier execution on a composite index (`Fresh`); a query is regular
  (`Regular`): IS NULL not on a column that is never null.
- *Loader.* What is rash: the orders of calls of the section that follows.
- *Objects.* `Careful`: columns of a toMany field used by no other field; no
  non-persistent or excluded name that is a column or mapped; a shared column
  has a converter; none on a NOT NULL column with a default; keys mapped plain.
  No null or partial values of a toMany field. The converter of a field of
  several columns makes an object with a part for each: with one that makes a
  text, as JSONConverter does, no part is stored. Objects are not modified between
  a call and its execution (NDB encodes at execution, MySQL at the call).
- *Projections.* No cycles of identity; a child is of the class of its
  relationship; nothing unmapped or related is added while a validation runs;
  fewer than 26 validations (`2^24` in the code is XOR, so ids wrap at 26).

### What the code does not keep

One run checks a statement of the sources and finds a behaviour that violates
it: `session_execute_early`. NdbTransactionHandler.js:372 says that an execute
can be created before the context has come; a second execute then prepares its
operations with a null context.

Seen while modelling, with no run of their own. *NDB transactions:*

- A fetch error in a scan releases a context whose NdbTransaction is open;
  `assert(didRelease)` fails (NdbTransactionHandler.js:248, NdbSession.js:144).
- A scan that cannot be started never releases its context; the waiters wait
  for ever (NdbTransactionHandler.js:290).
- Closes of scans count down what no intent has counted up; 0 - 1 is 65535 and
  a later assertion fails (TransactionImpl.cpp:122, SessionImpl.cpp:85). Tallies
  given back by two contexts count a record that is in use, so that
  `startTransaction` may block the main thread (SessionImpl.cpp:92).
- NDB may refuse to start a transaction: `ndbTransaction` is then NULL, which
  `tryImmediateStartTransaction` reports as a start (TransactionImpl.cpp:71) and
  the calls that follow dereference or assert on (137, 144, 162). The process
  ends (`notStarted`); `NoPanic` names it, and that only the first call of a
  transaction can meet it.
- A rollback of a handler whose only execute waits for a context is answered at
  once by the stub, and the execute then runs NoCommit in a transaction that
  nobody ends (NdbTransactionHandler.js:457). `handler.error` is set by one
  execute and reported by all later ones (136). `fetchAllResults` runs outside
  of `execQueue` (NdbOperation.js:728).

*NDB connections:*

- The linger timer that finds a new client drops the callback of the pool's
  close (NdbConnectionPool.js:116; SPI-documentation/DBConnectionPool:34).
- Results that the final wait of 200 ms misses, or that are ready when the
  context is deleted 100 ms after shutdown, never call back (NdbConnection.js:198).
- Two linger timers of one connection may run at once; the second empties the
  table entry of a newer connection or deletes the connection again.
- `pendingConnections` is never emptied after a failed connect.
- A prefetched session that arrives while disconnecting is not closed; sessions
  that arrive after the pool's close leak and keep prefetching; the free list
  may hold more than its maximum; a session closed twice may get two users.

*Promises:* the check of 2.3.1 compares with the wrong promise (Promise.js:72);
after a reject with a falsy reason later listeners are told fulfilled
(Promise.js:144); a deferred resolve with a thenable is not resolved further (94).

*MySQL (MySQLConnection.js unless named):*

- A second execute before `begin` has answered loses the first batch (226); an
  error of `begin` calls the execute callback twice and executes anyway (217).
- `firstTime` is set when a handler is made and never again (180, 221): the
  second transaction of a session, and any that comes after a batch, sends no
  `begin`. Its operations are kept at once, its rollback undoes nothing. A begun
  handler that has executed nothing leaves `firstTime` set.
- A stale `error` is kept when no batch is pending (272): the next batch stops at
  its first answer and is told of an error of another. A commit in the middle of
  a batch lets the rest run after it. Rollback does not go through the DBSession
  (UserContext.js:2067), whose autocommit mode stays off.
- A session closed inside a transaction returns its connection with the
  transaction open (MySQLConnectionPool.js:394); a failed charset leaks the
  connection (370).
- The ErrorOperation of a scan is a TypeError; find's notFound aborts the batch;
  scans of projections ignore order, skip and limit; updates with only key
  columns have an empty SET.

*API (UserContext.js unless named):*

- With two ends in flight the second answer sets Idle (2036). A batch with an
  operation that cannot be defined is never executed nor called back.
- `Batch.clear` throws at a context already answered and leaves the list;
  findWithProjection ignores `clear`; load and find pass `err`, so an error only
  in the result is told as success; save and update with no index handler are
  TypeErrors; an operation whose table handler arrives late runs in the next
  transaction.

*Registry and handlers:*

- A Connection that failed to connect stays registered and unusable; errors of
  getDBSession leave a placeholder, mapping errors an open session.
- A factory shared by two users and closed twice throws or deletes a later one;
  the first user who closes in his callback leaves the others with a closed
  pool; closeSession empties the slot of whoever is in it by then.
- Two calls for a missing table both create it, and the second fails. A
  constructor's handler is invalidated only when `udebug.is_detail()`
  (SessionFactory.js:412).

*Loader:* FileDataSource never assigns `row` (DataSource.js:294, 315): without
a plugin that sets `record.row` the first row of a file is persisted as
undefined, a TypeError that ends the process; skipped and rejected rows count as lead (Controller.js:128, 211); a
row that meets InsufficientSpace is never counted (DbWriter.js:123), one with a
TemporaryError meets a null `this` (128); a failed commit recurses without end;
`end()` while a read is pending never finishes unless at EOF; a paused source
that is resumed may end twice; a partial last line loops for ever. An atomic
job of a file whose read fails while the source is paused counts as finished,
but its outstanding rows still resume it: once it has committed what was stored
it may load further rows, which may fail. `AllOrNothing` excludes it, as
`TheEndIsTheEnd` does (`rash`).

*Queries:* an exclusive low bound that is cut off at the null of a NOT NULL column
loses the rows that equal the rest: of `a = 1 AND b <= 5` on an index (a, b)
with `b` NOT NULL all rows (NdbOperation.js:368, where the comment says that
such a bound becomes -Infinity); a scan that fails after its first rows is
answered as a success with the rows so far (NdbOperation.js:691); the MySQL
adapter sorts by the first column of an index only (MySQLConnection.js:1404),
so that skip and limit may choose other rows, and ignores the order of a query
without predicate; the mask of equal columns of an AND is always empty (Query.js:511);
NOT mutates its child's bounds, so NOT over BETWEEN high, low and NOT over IS
NULL lose rows; an OR whose ranges share a key prefix loses rows; `a = p OR a IS
NULL` on a NOT NULL column reads the whole index; nodes below the root share
one `sql` object per kind; `indexRange` is never cleared; QueryIn has no operation code
in the NDB adapter and QueryLe has code 0, which `||` drops; `_grow` of BitMask
is off by one at multiples of 24; null literals are TypeErrors.

*Objects:* of a list that fails NDB commits the rows that did not, and tells
errors of some of these, too; MySQL has committed those before the failure; a
key that could not be obtained is inserted as 0, as the error of getAllValues is
not looked at and the count of errors is misspelt (`erorrs`); a null in a field
of several columns is a TypeError; JSONConverter on such a field stores none of
its parts; mapSparseFields on a column that is not a container is silently
never set; excludeFields has no effect on a column mapped by default; update
and save replace shared and sparse columns as a whole; NULL in a shared column
and null in a toMany field are TypeErrors; an error of the mapping never makes
the handler invalid, and that of encodeKeyBuffer is ignored; explicit keys do
not move NDB's counter.

*Projections:* a field added while a validation waits is marked validated, and
the cached MySQL statement is stale (MySQLConnection.js:1326); invalidateAll
stops at the first projection in error; cycles recurse for ever; ids wrap at
26; self many-to-many joins and Date keys give wrong graphs; in NDB, children
of pruned results are attached to the wrong parent.


## 4. The proofs

The theorems are for any values of the constants that meet the named
assumptions of the modules: `NoneIsNoCall`, `ConstantsOK`,
`AccountantConstants`, `ConnectionConstants`, `PoolAssumption`,
`PromiseConstants`, `ConstantsAssumption`, `HandlersAssumption`,
`StoreAssumption`. These say that sets are finite where something is counted,
that numbers are numbers, and that None is none of the values it stands beside;
no bound of a run is assumed.
Every proof rests on an inductive invariant, with a lemma for each action, and
TLC has checked each invariant before it was proved. `PROJECT.json` lists the
theorems with the properties of the runs that they state.

**The queue** (`QueuePromiseAccountantProofs`). That the running call is the head does
not follow from itself: between the preCallback and the run of the noted call
nothing runs, and user code may enqueue. `IInv` says who will run the head at
that point (`HeadRuns`), that a call is in the array once (`Distinct`), and
which calls have been run (`CountsRuns`). `QueueIsSafe` and the safety part of
the refinement of `SerialExecutor` follow.

**The session** (`NdbSessionProofs`). Accounting alone is not inductive: a
release must give back a context that its handler holds, exactly once. `IInv`
adds that one request at most closes the transaction of a handler
(`OneCloser`), that this request finds a context when it gets there
(`CloserHasContext`), that waiters are handlers without a context and wait only
when all are open (`WaitersOK`), what is on `execQueue` (`QueueOK`), and that a
scan in progress, or one that has failed, has its NdbTransaction open
(`ScansOpen`): such a handler cannot release, it ends the process. From it
`ContextsAreSafe`, `AnswersAreFinal` and `GrantsInOrder`, with no assumption on
the user.

A second invariant (`EInv`) is for a user who waits for the answers of a begun
transaction (`~Pipelined`, a hypothesis of its theorems; the run
`session_execute_early` shows that they need it). A handler has one call in
progress, and no call once it has a closer; the context a call works on is that
of its handler; and the NdbTransaction of a context is open exactly while a
call in the queue or an answer counts on it. As contexts are exclusive, the
head of `execQueue` disturbs no other handler. A handler without a context has
executed nothing, which is why the stubs of commit and rollback may answer
success; one that is no longer current has a closer, and when that is done it
has given back its context, unless a scan never started. A start that NDB
refuses ends the process in the step that makes it, so that the invariant need
only say what it left: at the head of `execQueue` a call that was to open its
transaction. From it `CallsAreSound` (no assertion fails but in the two ways
that `NoPanic` names), `EndsAreSound` and `NoLeak`.

**The accountant** (`QueuePromiseAccountantProofs`, too). `ConcurrencyDrift` is modulo
2^16, and modulo is hard for the provers; `AccountantInv` has an integer number of wraps
instead (`Drift`). `EstablishedBound` is inductive with it: a new established
record needs `concurrency` to reach the present bound, and a larger one fails
the assertion first. With no scans the assertion never fails.

**Connections** (`NdbConnectionProofs`). The reference count is the number of
pools that hold the connection, whatever the callbacks do in their turns. That
the linger timer closes the connection it was set for, and that the table's
entry is the one that is open, need who owns each timer: a lingering one is of
the connection in the table, a shutting one is not. `ConnectionsAreSafe`
follows, and that a timer finds its connection, until two linger timers of one
connection overlap (`overlap`).

**Pools of sessions** (in `NdbConnectionProofs`, too). `SessionsHaveTheirPlace` needs how a
session of a user is told from one in the free list: by `isOpen` and by its user. `ClosedIsClosed`
needs that the first entries of `execQueue` are those that close() waits for,
which is so because the queue is empty when the pool closes. Both hold until a
session is closed twice (`twice`).

**Promises** (`QueuePromiseAccountantProofs`). A promise is settled by one hand: the callback
that ran, the promise that it returned, or the thenable; the invariant says
which, and that the listeners called and to be called are, in this order, those
of the calls of `then`. `PromisesAreSound` follows.

**Registry and handlers** (`SessionFactoryProofs`). For the registry: only the
registered Connection connects and others only wait for it; a factory is
deleted once, by the one call that closes it, and until then its connection
counts it; the placeholder or the session in a slot is told from all others by
its call. `RegistryIsExact` and `SessionsKeepTheirSlots` follow, until somebody
closes a factory that others rely on (`rash`).

For the handlers: one read is in progress, or being told, exactly while the
list of callers is not empty; from the caller who is told next on, the list has
exactly those who wait, each once (`ListOK`). A caller who joins while the others are told is
therefore told as well, and the list may be emptied at the end. Until the
factory is closed everybody who asked by the constructor has the handler that
the constructor has; the factory is closed when no call is under way, so that a
call under way was made since it was opened (`AgreeOK`). `ReadsAreShared` and
`HandlersAgree` follow.

**MySQL sessions** (`MySQLSessionProofs`). A step of one session is not seen by
another: `ConnsOK` says who holds a connection, `UnheldOK` that one which no
session holds carries only dictionary calls and no server transaction. Of a
session, `RunOK` and `PlaceOK` say where the handler is in its batch (what has
been answered, what has been sent, what the turn does next), `FirstOK` that
before the answer of `begin` there is nothing but the batch that waits for it,
`WireOK` that of each kind one query at most is in flight, and in which order:
an operation sent in a transaction before its end, one sent while the end was
already in flight behind it (`OrderOK`). Then what an operation meets at the
server is known when it is sent, and `WorkOK` follows each to the end of its
transaction: in one that the server began, in one that was never begun, and in
one that the server has ended by itself. `LossOK` says that work undone by the
server has left a trace: an operation whose error is on its way, or an error
the user was told of, which forbids the commit. `ErrorOK` says whose error the
handler carries (of a batch that has waited, its own), and `DoneOK` that the
execute callback was told last, in a transaction or not. From these
`OneAfterTheOther`, `EndDecides` and `AutocommitKeeps`.
The theorems have `Patient` as a hypothesis: a user who executes again before
`begin` is answered loses a batch, one who closes inside a transaction leaves
it on the connection (section 3). The proof also needed a guard of `Close`: after
an error of `begin` the batch is called back while its operations are still
executed, and the model's user does not close then.

**The public API** (`UserSessionProofs`). That a cleared call is not executed
does not follow from Batch.clear: it stops at the first call that was answered
before, and leaves the list as it is with the calls before that one cleared.
The invariant says that the list then has a call that has ended without an
operation (`Spoilt`), that a list keeps such a call when Batch.execute takes
it, and that therefore it is never given to the adapter; a list that is given
has no cleared call. For the callback of the batch, `EntryOK` relates what the
adapter still has of a list to what was answered of it. `EndsOK` says that the
one end in flight is of the transaction begun last, so that its answer may set
Idle; `FailOK`, that an active transaction has no failure: every callback of an
operation that can fail takes an active transaction to rollback-only
(`SaysIs`). From these `AnsweredOnce`, `BatchIsExecutedWhole`,
`IdleMeansEnded` (until two ends overlap, as the property says) and
`FailureForbidsCommit`.

**The loader** (`LoaderProofs`). As the calls of a turn are operators, the
lemmas are about a state and what an operator makes of it, from the logger up to
the actions. The invariant is `Good`, in these parts. `Flow`: the rows that wait
are in the batch, in a batch that was sent, or being called back, in the order
of their numbers, so that each is in one place and the next to be answered is
the smallest. `Count`: `Left` is the number of those and of the lost ones. It is
an equality between a counter of the controller and a set kept by the writer, and
what makes `commitIfComplete` mean what its name says. `Shared`: which rows were loaded,
and that `skipping` is right for the next row; modulo is in two lemmas on
consecutive numbers. `Logger`: a row that failed is in the queue of the logger
or was written, and one write is in progress, that of the head. `Whole`: while a
transaction is active no row has failed. `Stage`: the end begins only when the
source has finished and nothing is outstanding, and goes once through its
stages: commit or rollback called, CLOSE queued behind the bad records, the
file being closed, the final callback. `Source`: a source that has finished has
left its loop and is not in a position to finish again. `Sharing`
(`RowsAreShared`), `Ending` (`TheEndIsTheEnd`) and `Remembering`
(`NoRowIsForgotten`) follow for any jobs, leads and faults; the bound
`MaxTicks` does not matter. `Stage` and the exact state of the logger hold
while the job is not `rash`; `Flow`, `Count`, `Shared` and that rejected rows
are kept hold always. The proof needed an assumption
that the run's jobs met and nobody had written down: a control file with data in it
has a first buffer. It also showed that `AllOrNothing` was claimed of jobs for
which it fails (section 3); TLC finds the case with a job of two buffers, which
the run now has.

**Auto-increment values** (`ObjectStoreProofs`). That no list needs a second
round trip (`ValuesAreBatched`) does not follow from the batch size being right:
asks of several lists are mixed in `execQueue`, and a range that was fetched for
one is used up by others. What makes it so is an inequality about positions in
the queue: the batch size that an ask carries is at least the distance to any
later ask of its list (`Sizes`), so that the range fetched when it is at the
head reaches to the last of them, and goes on to do so as both get shorter
(`Fetched`). With `Served` (as many asks as a list lacks), `Announced` (the
batch size counts the asks that have not started) and `Once` (values held and
values given are below the next one, and each is in one place) this is
inductive; the value 0 of a fetch that failed is no value. A list lacks at least
one value, because `NdbTransactionHandler.js:345` makes asks only then.
`Batching` states `ValuesAreShared` for any sessions, lists and interleavings
of asks, failed fetches, other clients and explicit keys.

**Model-checked only.**

- Liveness (`EveryCallReturns` and its like in all runs) and ENABLED: outside of
  what the prover does.
- That every job of the loader ends (`EveryJobFinishes`): liveness.
- Queries and projections: what a recursive definition computes is by induction
  over the data (predicates, rows, graphs), and the modules have RECURSIVE
  operators, for which the prover has no SMT backend.
- That the table is a map of objects (`IsAnObjectMap`): what columns and objects
  a mapping makes is computed by folds over its calls, and is by induction, too.
- That `AsyncNdbContext` calls back: its property is a liveness one.

## 5. What is not modelled

`PROJECT.json` lists every part with its status and the reason. In short:

- Metadata of NDB and DDL (`NdbMetadataManager.js`, `DBDictionaryImpl.cpp`),
  errors and the set-up of modules: input and output, without state of their
  own beyond what `TableHandlers` has.
- The glue between V8, libuv and the NDB API (`Adapter/impl/common`): templates
  that wrap calls. What they do to the order of things (a call runs in a worker
  thread and its callback is a later turn) is in every module.
- Converters and serialization of values: formatting. That a converter is
  applied, and where, is in `ObjectMapping`.
- Buffers and encoding of operations in `NdbOperation.js` and the C++ classes
  below it: the control is in `NdbSession` and `QueryExecution`, the data is not.
- Parsing of control files and of data in the loader (`Scanner.js`).
- Metadata objects, proxies and statistics of the API; tests, samples, shell,
  benchmarks, debug output.

## 6. Plan

Done: the parts of section 1, in the order of its table, and the proofs of
section 4.

Next, by what says most:

1. `Loader`: several workers in one model, so that their rows together are the
   rows of the source; `Sharing` says which rows each of them loads.
2. A refinement by `TableHandlers` of an abstract shared read: each caller gets
   one answer, of a read that ended after he asked.
