# EtherDB client and monitor: a TLA+ verification project

EtherDB's repository holds the C++ client SDK (`src/client`), the monitoring
subsystem of the server (`src/monitor`), tests that run against a live server,
and the server itself as binaries. This directory models the parts of the SDK
and the monitor in which the order of events decides whether they are right,
checks the models with TLC on small instances and proves the central
properties with TLAPS for all values of the constants.

Paths below are relative to the repository root; `cpp` is
`src/client/EtDBClient.cpp`.

## 1. The system

| Part | State | Operations | Talks to |
|---|---|---|---|
| Connection core (`EtDBConnection`) | socket, receiver thread, batch ids, sent/received/consumed counters, result map, sync slot | `connect`, `close`, `sendRecv`, `executeInsertAsync`, `waitAllAsync`, `waitAsyncResult`, `getAsyncResult`, `setMaxAsyncPending`, `recvLoop` | server over TCP; callers through `_respMutex`/`_respCond` |
| Streaming results (`EtDBResult`, `etdb_fetch_*`) | current batch, cursor, stream id, ended/error flags; row and block access of the C handle | `fetchRow`, `fetchBlock`, `fetchStreamRows` | the dbnode's stream, through `sendRecv` |
| Metadata caches and routing (`EtDBClient`, `EtDBMetaCache`) | table metadata, uid cache, dbId cache, selected database | `query`, `getTableMeta`, `fetchTableMeta`, `invalidate`, `resolveDBdbId`, `resolveTableUidFromServer` | server catalogue; statements |
| Prepared statements (`EtDBStmt`) | state, uid, dbId, batch | `prepare`, `bindParam`, `bindParamBatch`, `addBatch`, `execute`, `executeAsync`, `close` | caches, connection core |
| SQL INSERT packing, keyword dispatch (`EtDBConnection::query`) | rows of the message being built | scanner, converters, row layout, message type | caches, connection core |
| Result decoding (`EtDBResult::deserialize`, `get`, `column`) | raw block, or a buffer and offsets per column | two layouts of an answer, three kinds of access | streaming results |
| Authentication handshake | none beyond the call | challenge, SHA-256, reply | server |
| C API (`etdb.cpp`) | handles, row/block access | forwards to the classes above | all of the above |
| Slow-query log (`SlowLog.h`) | ring buffer | `add`, `setCapacity`, `snapshot` | request path, HTTP page |
| Metrics (`Metrics.h`, `MonitorHooks.h`) | atomic counters, histograms | `recordCompletion`, `recordRequest`, `renderPrometheus` | request threads, HTTP page |
| Request hooks (`MonitorHooks.h`) | none beyond the call | `isCountedRequest`, `classifyRequest`, `sniffSql`, `recordSlowFromCont` | metrics, slow log |
| Monitor agent (`MonitorServer.cpp`) | `_running`, collector thread, HTTP server | `start`, `stop`, `collectLoop`, servlets | metrics, slow log |
| Shell input (`EtDBShell.h`: `LineReader`, `readCommand`, `run`, `runScript`) | line, cursor, history; quote, comment and statement of every open script | edit a line, gather and cut a command, scan a script, `source` | statements |
| Shell statements (`executeSQL`) | current database, precision and group caches | datetimes of INSERT and answer, added LIMIT, total, note | `EtDBClient` |
| Logging, socket wrapper, SHA-256, LZ4, server binaries | | | |

What is hard, and what makes each part right:

* **Connection core.** Application threads, the receiver and the server
  interleave; the connection can break at any point; the flag and the counters
  are atomics outside the mutex of the condition variable. Right means: an
  answer reaches the request it belongs to, the counts are exact, nobody sleeps
  for ever, and closing always ends.
* **Streaming.** Several results and other statements share one connection,
  rows and blocks can be fetched in turn from one batch, and a fetch can fail
  half way. Right means: every row once, in order, and no early end.
* **Caches, routing, statements.** Three caches with different keys answer the
  same question, tables come and go, a statement keeps what an earlier
  `prepare` found. Right means: a row never lands in another table than the
  one its INSERT names.
* **Packing and decoding.** Numbers pass through 64-bit converters, casts, two
  byte orders and two layouts; the text may end anywhere. Right means: what
  fits a column comes back as written, whichever way it is read.
* **Monitor.** Lock-free figures are read while they are written, a thread is
  started and stopped, a page reads a log that is being configured. Right
  means: nothing counted is lost, counters never fall, a statement is counted
  as what it is, restart and stop are clean.
* **Shell.** Text is cut into statements by four pieces of code that each know
  quotes and comments differently, scripts run scripts, and two caches are
  cleared only by what the shell itself does. Right means: what was written is
  what is run, failures are told, and a time is shown as it was entered.

`PROJECT.json` lists all components, the hazards of the code at their lines and
the properties that cover them.

## 2. Modules

| Module | Models | How |
|---|---|---|
| `AsyncBatches` | what asynchronous inserts promise | ids in order; each batch gets at most one result, taken at most once |
| `AsyncConn` | the connection core | see 3.1; refines `AsyncBatches` (`ImplementsBatches`) |
| `AsyncConnInv` | the parts of its inductive invariant for one requester | |
| `FetchStream` | streaming results and their C access | see 3.2 |
| `RecentLog` | a list of the latest entries | |
| `SlowLog` | the ring buffer | refines `RecentLog` (`ImplementsRecent`) |
| `TableInsert` | caches, routing of USE/SELECT/INSERT, prepared statements | see 3.3 |
| `InsertText` | an INSERT's text into the rows of a message | see 3.4 |
| `RowPath` | those rows through the server and both layouts to the program | extends `InsertText`, see 3.4 |
| `MonitorAgent` | `start`, `stop`, `collectLoop` | see 3.5 |
| `RequestHooks` | message type, counted or not, class, text logged: functions of a statement | see 3.5 |
| `Monitor` | agent, slow log, requests and the slow-log servlet together | composes `MonitorAgent`, `SlowLog` (INSTANCE) and `RequestHooks`, see 3.5 |
| `Metrics` | histogram, slow and error counters, the Prometheus page | see 3.6 |
| `LineEditor` | what editing a line promises | a caret in a text, a place among earlier lines |
| `LineReader` | the line editor of the shell | refines `LineEditor` (`ImplementsEditor`), see 3.7 |
| `ShellInput` | prompt and scripts, down to the statements they run | extends `LineReader`, see 3.7 |
| `ShellSession` | the statements of the shell against a server others change | see 3.8 |
| `Sums` | the sum of a function over a finite set (`Total`) and of the first n of a list (`Added`) | used by `MonitorAgent`, `Metrics` and `InsertText` |
| `Numerals` | powers (`Power`) and the number a sequence of digits stands for (`Number`) | used by `InsertText` and `RowPath` |
| `MC*` | instances for TLC | who calls what, small sets, symmetry |
| `*_proofs` | theorems: `AsyncConn`, `FetchStream`, `TableInsert` (with those of `InsertText` and `RowPath`), `Metrics`, `ShellSession`, `ShellInput`, `Sums`, and `Monitor` with its agent and slow log | see section 6 |

In every module an operator marked `mutant` stands before the definition it is
a faulty variant of. No specification uses it: it is there to be put in the
place of that definition, and the property it is meant for then fails.

## 3. How the models correspond to the code

### 3.1 AsyncConn

One process per application thread, one for `recvLoop`, one for the server.
Steps are the critical sections of `_respMutex` and single accesses to atomics
or the socket; `pc[t]` names the next one. A thread blocked in `_respCond` is a
member of `asleep`; `notify_all` empties the set and each thread tests its
predicate again, so a wake-up that comes before the predicate is true is lost
exactly as in the code.

| Code | Action |
|---|---|
| `executeInsertAsync` | `InsertCall` (validity test and the compare-and-swap of `ensureAsyncRecv`), `Spawn` or `SpawnFails` (the thread is created or refused), `Reserve` (backpressure), `Alloc` (id), `Count`, `InsertSend` |
| `sendRecv` with a receiver | `SyncCall`, `Drain`, `Claim`, `SyncSend`, `SyncWait` |
| `sendRecv` without | `SyncCall`, `DirectSend`, `DirectRecv` |
| `waitAllAsync`, `waitAsyncResult` | `WaitAllCall`, `WaitOneCall`, `Wait`, `Timeout` |
| `getAsyncResult`, `setMaxAsyncPending` | `GetResult`, `SetMaxPending` |
| `close` | `CloseCall`, `CloseShut`, `CloseJoin`, `CloseReset` |
| `connect` | the `close` steps, then `Handshake` |
| `recvLoop` | `RecvCheck`, `RecvTimeout`, `RecvRead`, `RecvEof`, `Dispatch`, `RecvExit`, `RecvDone` |
| server, network | `ServerReply` (one answer per request, in order), `Lose` |

A frame carries the thread and batch id it belongs to; the client's steps only
use the echoed id, the properties use the rest. Abstractions: frames are read
whole; the handshake is one step; a validity test and the compare-and-swap that
follows it are one step, and so are the last critical section of `close` and
the closing of the socket, and the last critical section of `recvLoop` and its
`notify_all` (the store to `_recvRunning` after it is a step of its own).
`received` and `consumed` are natural numbers; `sent`, which the code
decrements, wraps at `MaxU64`. `pollAsyncResult` and `peekAsyncResult` change
nothing.

### 3.2 FetchStream

`res[r]` is an `EtDBResult` (batch, `_rowCursor`, `_streamQId`,
`_streamEnded`, `_streamError`), `api[r]` the access flags of `EtDBResult_Impl`,
`stream[r]` the server's side, `lastDb` the `_lastdbId` by which FETCH is
addressed. A chunk is a range of rows of an answer. `Query`, `Statement`,
`FetchRow`, `FetchBlock` are whole calls of one application thread, each with
the round trip it makes; `AsyncConn` has the concurrency of round trips.
Fetches may be refused, be rejected by `deserialize` before or after it drops
the old batch, or fail with the connection. A first answer rejected at its head
leaves nothing (`QueryFails`); one rejected among its rows has left its stream
behind (`QueryStreams` without `ok`), so a fetch goes on with the second batch,
and `dropped` counts the rows lost. The dbnodes hand out ids of their own, which
may be equal or differ only beyond the bits a FETCH carries, and any stream with
the id asked for serves it (`Serves`); `Reconnect` opens a broken connection
again under the results of before. `astray` notes the results a FETCH of which
may have been mixed up that way. The server is assumed never to send an empty
batch before the last one.

### 3.3 TableInsert

A `TableMeta` is represented by its uid; uids are unique on the server and
determine table and dbId. `meta`, `uids`, `dbIds` are the three caches with
their actual keys (the empty database name included), `stmt` one `EtDBStmt`,
`last` the latest request: the table it names, where it was sent, which table
its rows were stored in, and whether it was addressed by a guess of the client
(`guess`): a uid cached under a bare name, one kept from an earlier `prepare`
(`kept` of a statement), or the selected database in the place of a prefix it
did not see. Every metadata request may fail, and a statement may be prepared
again at any time, with rows in its batch. `Create` and `Drop` are other clients' or one's own
DDL, at any moment. Calls are atomic steps of one thread; `executeAsync` is
`Execute` when it gets its batch id and nothing otherwise. Column layouts, row
packing and counters are left out; databases keep their dbId.

### 3.4 InsertText and RowPath

The author of the text writes it group by group (`WriteText`), closing the last
value, leaving a comma or ending in the middle; `Pack` (`PackValue`, `EndRow`,
`EndText`) is the loop of `query()` over `scanInsertValue`, a value a step.
`fastAtoi64`, `fastAtou64`, `fastTsParse` and `storeInsertValue` are functions
on sequences of characters. `Store` is the server's (rows that do not match the
table are not stored), `ReturnRaw` and `ReturnTagged` its two layouts;
`StoreValue` is `storeValue()` and `parseWireValue()`, `get`, `RawValue` and
`Column` the three ways to read. Bytes have `Byte` values and numbers are
written in base `Base`, so that the limits of 8, 32 and 64 bits and the saturation
before them come up with numerals of a few digits. A timestamp that is not the
first column has no case in `storeInsertValue` and is stored as the bits of a
double (`DoubleBits`, any function of the text). Left out: FLOAT and DOUBLE columns,
column names, the list of columns of an INSERT.

### 3.5 MonitorAgent, RequestHooks, Monitor

`start` is `Start`, `Config`, `Publish`, `Spawn`; `stop` is `Stop`, `Join`,
`Teardown`; `collectLoop` is `FirstSum`, `Check`, `Wake`, `Sample`, with the
sum over the statement types read one counter a step while `Query` counts on.
One thread starts and stops. The interval between two samples is taken to be
positive, as the code tests. `counted` is a history variable.

A request is its first two words in capitals, the blanks before them and the
length of the text; `MsgType` is the chain of tests in `query()`,
`classifyRequest` and `sniffSql` are the hooks', which see the payload with its
binary length in front.

`Monitor` adds to the agent's steps: `Configure`, the step of `start` that sets
the capacity of the log; `Serve` and `Finish` of any number of requests, at any
moment of the life cycle; `Ask` and `Answer` of the slow-log servlet, which
reads the capacity and then the entries; and `Close`, after which the HTTP
server accepts nothing more and `stop` waits for the page being written. Any
request may have been slow, since the threshold may be whatever `start` wrote.

### 3.6 Metrics

`recordCompletion` step by step: bucket, load of the sum, compare-and-swap that
may fail spuriously, count, error, slow. `ReadLine` reads one figure of the
page; the line of a bucket is the bucket's own counter. One page is written at a time (the registry's mutex). The error types are
one counter; durations are integers; gauges, the other families and the JSON
page, which are read in the same way, are left out.

### 3.7 LineReader and ShellInput

One action per key, with the string, the cursor, `histIdx` (oldest first, -1
for none) and `savedLine` of the code; a token stands for a character, a word
or a mark. `EnterLine` and `Continue` are `readCommand()`, `Split` and `Run`
what `run()` does with the command. A call of `runScript()` is a member of
`frames`; the scan takes a token a step (`InQuote`, `InBlock`, `OpenQuote`,
`OpenBlock`, `LineComment`, `Terminator`, `Plain`, `EndLine`), `NextLine` is
`getline` with `handleSourceLine`, `EndFile` the return with the number of
failures. A statement may fail or not (`RunSql`); `Source` opens a file unless
it is missing or the system has no more to open. The script on the standard
input is written piece by piece by `Write` while the shell waits for its next
line; `open` and `written` record what its author meant. In a script that is by
quotes and comments; at the prompt every semicolon ends a statement and comments
are kept, as `run()` has it. Blanks are left out of the comparison (`NoBlanks`),
so tokens that only a comment kept apart count as the same text. The author keeps a
quoted text within a line, writes no semicolon or comment mark inside quotes at
the prompt, and begins no line of a statement with `source`; section 4 says
what happens otherwise.

### 3.8 ShellSession

A statement of the shell goes through `lookupPrecision`, `lookupGroups`, the
query, the count and the display, each round trip a step, and other clients
create, drop and write between them. `DdlAnswered` clears the caches, `DdlLost`
does not; a lookup that fails is cached as milliseconds, or as no group. Times
are integers of the unit of a database's precision, with C's division. A literal
is a number of seconds and a fraction; `Parsed` counts it in the finest unit,
within `Half` either way (2^63 in the code), and the second before 1970 is the
one `mktime` cannot tell from an error (`Refused`);
`tainted` records for which databases the caches may rightly be wrong.

## 4. Runs

All runs are small instances; each cfg names its bounds. Two threads suffice for
every race of the core, since each involves one caller, one other caller or the
receiver, and the server; two or three batches fill a window of one or two and
let the next one wait. Two databases with one table name, two results, batches
of two in answers of three rows, a log of no or two entries with three kinds of
requests, two workers: the smallest sizes at which names collide, streams
interleave, a last batch is a short one, the ring wraps and a compare-and-swap
is lost. In `rows`, bytes of four values and digits in base three give widths
of one, two and three bytes whose limits have two to five digits; the literals
lie on both sides of every limit, and `MaxData` lets a second row of the widest
table be refused. In `shell_input`, `MaxKeys = 7` keys and lines are enough to
leave a line for the history and come back to it, `MaxPieces = 5` to put a
semicolon or comment mark within quotes within a statement of two lines, and
`MaxOpen = 3` scripts let a file that runs itself meet the limit. In
`shell_session`, `MaxStmts = 4` statements use, insert, drop and show, on
databases that may be there from the start, with one interference (`MaxOthers`),
`MaxRows = 2` over a limit of one, and integers of 32 values (`Half`) that one of
the datetimes exceeds. In `stream_faults`, `IdSpan = 2` cuts an id of three to
one that another dbnode's stream has. In `insert_tables` an application inserts
by SQL or by a prepared statement, not by both (`app` of `MCTableInsert`): either
kind meets whatever the other could have left in the caches, through `Refresh`,
`Invalidate` and its own lookups. In
`monitor`, one query of each type (`MaxQueries`) suffices for a window to count
it twice if it could.

| Run | Shows |
|---|---|
| `async_sole` | one requester and one consumer, loss and reconnect, ids echoed or not: correlation, accounting, no leftovers, nobody asleep on what has come, and the refinement of `AsyncBatches` |
| `async_calls` | liveness of insert, query, wait, get and close: every wait is answered on a standing connection, backpressure lets go, `close()` ends and releases everybody, also after a loss |
| `stream_faults` | order, block access, honest end under failures, reconnects and half-rejected answers, over two dbnodes with equal ids; an application that keeps fetching gets everything or an error |
| `insert_tables` | qualified caches stay sound, no INSERT strays but by a guess, prepared statements hold the uid of their table, SELECTs are routed, fresh INSERTs are stored, over DDL, USE, failing metadata requests and statements prepared again |
| `metrics` | nothing lost, counters monotone from page to page, sum and counters of quiet pages exact |
| `monitor` | start/stop/restart, QPS windows, `stop()` returns, statements counted as what they are, the log is the list of the latest entries over every configuration, whole pages |
| `rows` | rows as written, values back as written at the limits of every type (a timestamp in the first column), both layouts and all accesses agree |
| `shell_input` | statements run as written, with quotes and comments from scripts, up to each semicolon at the prompt; failures handed on; a script that runs itself ends; the editor refines `LineEditor` but for one key |
| `shell_session` | a datetime that can be represented is shown as it was inserted, no total of a group, rows left out are announced |
| `async_lost_wakeup` | violated: the receiver notifies before it clears `_recvRunning`; a waiter in between sleeps on |
| `async_terminate` | violated: an insert after a loss assigns to an unjoined `std::thread` |
| `metrics_buckets` | violated: the `le` lines of a page are not cumulative, which `histogram_quantile` in `src/monitor/README.md` needs |

The runs that TLC finds violated state what a comment or a document of the
repository says and the code does not do; `findings` in `PROJECT.json` quotes
each one.

`CHECK_DEADLOCK FALSE` stands where the application, the user or the author of
the text may simply stop, or a bound ends the run: all `async_*`, `stream_*`,
`insert_*` and `shell_*` runs and `rows`. `SYMMETRY` is used in runs without
temporal properties, over the workers of the `metrics*` runs, over the two uids of one
table in `insert_tables` and over the databases of `shell_session`.

### Known divergences without a run of their own

Each of these is why a run, a theorem or a property has the condition it has;
lifting the condition shows the behaviour.

| Condition | What happens without it |
|---|---|
| one thread that both inserts and queries (`SoleRequester`, for `SyncOwnReply`) | a batch submitted between a query's drain (cpp:964) and its slot (cpp:967) has its answer taken for the query's, against "responses never get misread" (cpp:960) |
| echoed ids with several submitters (`Echoes = {TRUE}`, for `Correlated`) | ids are taken (cpp:1127) in another order than frames are sent (cpp:1137); the fallback (cpp:1087) swaps the results |
| one thread that inserts and closes | `close()` resets the sent counter between an insert's count (cpp:1128) and its failed send, which decrements it below zero (cpp:1157) |
| no reconnect while others wait (`async_calls` has no `connect`) | a waiter woken by `close()` that tests its predicate only after the next `connect()` and insert sleeps again (cpp:937) |
| the window is compared with results received (`Reserve`) | batches on their way are not counted (cpp:1121), so the results held can exceed what `EtDBClient.h:358` calls a bound |
| results that are not `astray` (`InOrder`, `EndOrError`, `Delivered`) | FETCH follows `_lastdbId` (cpp:1957): a statement on another database between two fetches makes the next one fail, or hand out, and use up, the rows of a stream with the same id there; so does an id beyond 32 bits (cpp:1961), or a result kept over `close()` and `connect()` (`EtDBClient.h:272`) |
| an error counts as the end (`EndOrError`, `Delivered`) | after -1 the next `fetchBlock` returns 0 (cpp:789) |
| the rows of a rejected first answer do not count (`dropped`) | `query()` reports the error but leaves the stream (cpp:1937), and the next fetch hands out the second batch; `success()` is true once the columns are known (cpp:698), and the C API shows no error of a query |
| a batch belongs to the table prepared last (`named` in `StoredAsNamed`) | rows added before a second `prepare` go out under the new uid (cpp:2219), into a table they were not bound for |
| no uid kept by `prepare` (`kept`, in `PreparedForNamed` and `StoredAsNamed`) | `prepare` for a table that is not found succeeds with the uid of the one before (cpp:2178): the branch "prepare: failed to resolve table UID" (cpp:2190) is only reached by a first one |
| names with a database (in `PreparedForNamed`, `StoredAsNamed`) | without a database selected, `prepare` finds whatever namesake was cached last (`EtDBMeta.h:235`) |
| no uid of a bare name (`guess`, in `StoredAsNamed`) | when the metadata cannot be had, the uid cached under a bare name (cpp:1278) answers for another database, and the rows land in its table |
| values without a quote inside (`form # "mixed"` in `ReadsBack`) | the generic path of `scanInsertValue` sets neither pointer nor length (cpp:1520), against "or into `scratch`" (cpp:1490): the value is stored as 0 or as an empty string |
| a timestamp in the first column (`ReadsBack`) | in any other `storeInsertValue` has no case for it (cpp:1632): the bits of a double are stored and read back as an integer |
| a timestamp without a plus (`IsNumber`) | `+1` is stored as 0 in the first column (cpp:1358) and as 1 in any other |
| integers of a 64-bit column only saturate (`Claimed`) | beyond a narrower column they are cut to its low bytes (cpp:1321) |
| the server sends what belongs to the column, or the answer is given up (`Malformed`) | a raw or tag header that is cut short leaves `success()` true without rows |
| the text is an author's (`WriteText`) | text after a separator that begins no group is dropped silently, `(1,2,` at the end is a row of two values, and "empty trailing group at EOF -> ignore" (cpp:1805) is refused by the test of the number of values; BOOL `true` is stored as 0; blanks before INSERT make INTO the table's name (cpp:1671) |
| no ALTER USER of its own (`Rules`) | the test for "ALTER " (cpp:1871) comes before that for "ALTER USER" (cpp:1877), which is never reached |
| a verb that does not hide (`odd` in `CountedAsSent`) | a byte of the length that is a letter begins the word `sniffSql` compares, and more than 20 blanks put the verb out of its reach: the query counts as "other", although `MonitorHooks.h:62` says the prefix is skipped; the slow log shows the byte before the text |
| entries come from `recordSlowFromCont` (`Finish`) | `recordCompletion` adds none to the ring, against its comment (`MonitorHooks.h:190`) |
| a history to look at (`DownOnNothing`, in `ImplementsEditor`) | before the first line is entered the down key wipes what was typed, since -1 is the index of the last of no entries (`EtDBShell.h:674`), against "restore saved line" (675) |
| no semicolon or comment within quotes at the prompt (`Continue`, `EnterLine`) | `run()` cuts at every semicolon (`EtDBShell.h:1732`) and keeps comments |
| blanks do not count (`NoBlanks`, in `RunAsWritten`) | a comment between two words of a script is removed without leaving a blank: `a/* */b` is run as `ab` |
| a source line whose comment that begins with `#` holds no ` --` (`Tails`) | `handleSourceLine` looks for ` --` first (`EtDBShell.h:1527`) and takes the text before it, ` #` included, for the name |
| a quoted text within one line (`WriteLiteral`) | the quote state starts again with each line of a script |
| no continuation line that begins with `source` (`WriteWord`) | the statement before it is run unfinished |
| `\q` and `source` as commands of their own | a meta-command typed at the continuation prompt discards the lines before it; `\q` within a line still runs the rest of it |
| `result` is what `runScript` returns (`FailureReported`) | `run()` itself returns 0 in batch mode although statements failed (`EtDBShell.h:1715`) |
| databases nobody else has changed, lookups that succeed (`tainted`, for `RoundTrips`, `NoGroupTotal`) | a dropped and created database is shown in the unit of the one before; a DDL statement whose answer is lost, or that follows a comment, clears no cache |
| a SELECT of rows (`plain`, for `TruncationTold`) | DISTINCT and GROUP BY get the LIMIT and the total of all rows too; `LIMIT` followed by a line break gets a second one |
| plain names | an INSERT of `"db"."t"` is taken to be in milliseconds, a SELECT from a quoted name or from two tables is refused before it is sent |
| datetimes that can be represented (`Representable`, in `RoundTrips`) | `mktime`'s -1 is taken for an error (`EtDBShell.h:908`), so the second before 1970 is sent as it was typed and stored as 0; seconds are multiplied in 64 bits before they are cut to the unit (910), so far datetimes overflow in a database of milliseconds too; against "insert → select round-trips" (841) |
| equal up to the unit (`RoundTrips`) | fractions finer than the unit are cut toward zero, so before 1970 upward |
| a prefix behind keywords in capitals (`guess`, in `SelectRouted`) | `select * from db.t` goes to the selected database (cpp:2632), against "SELECT ... FROM other_db.tbl 必须落到 other_db 的 dbnode" (must land on the dbnode of other_db, cpp:2630) |

## 5. Fairness

* `FairSpec` of `AsyncConn`: weak fairness of application threads in the middle
  of a call, of the receiver and of the server, which the operating system
  schedules; the server answers what it has received. Nobody is obliged to
  call, no connection to break. `FairSpec` of `MonitorAgent` likewise, with an
  interval that ends.
* `ConsumingSpec` adds that the application takes results again and again, as
  the consumer thread of `tests/async_backpressure_test.cpp` does; without it
  backpressure rightly blocks for ever. This one is strong fairness, because a
  thread that also makes other calls can take a result only between them.
* `MonitorFairSpec`: the same for the agent inside `Monitor`, and a servlet
  thread that has begun a page writes it. Requests owe nothing.
* `FairSpec` of `ShellInput`: the shell goes on with what it has read. Nobody
  has to type or to write.
* `DrainingSpec` of `FetchStream`: the application goes on fetching, as the
  loops of `tests/c_streaming_test.cpp` do.

No step of the client itself needs strong fairness, since a woken thread
re-tests its predicate as one step. A timed wait is not assumed to time out.

## 6. Proofs

| Theorem | Statement |
|---|---|
| `AsyncConn_proofs!TypeCorrect` | `Spec => []TypeOK`, any threads and calls |
| `SoleInvariant` | the inductive invariant `SoleInv(r)`, if only thread `r` issues requests, opens and closes |
| `SoleAccounting`, `SoleCorrelated`, `SoleExclusive`, `SoleOwnReply` | from it: `Accounting`, `NoStaleResult`, `Correlated`, `SlotExclusive`, `WaitAllExact`, `SyncOwnReply` |
| `SoleImplementsBatches` | under the same condition the refinement of `AsyncBatches` (`ImplementsBatches`) |
| `NobodyOversleeps` | `AnswersWake`, any threads and calls |
| `EchoedCorrelated` | `Correlated` for any number of threads that submit, if the server echoes ids (`Submitters`) |
| `FetchStream_proofs!StreamTypeCorrect` | `TypeOK` |
| `StreamInvariant`, `StreamInOrder`, `StreamEnd` | `StreamInv`, `InOrder`, `EndOrError`, whatever the dbnodes' ids |
| `StreamBlockShown` | `BlockShown`, whatever the dbnodes' ids |
| `TableInsert_proofs!InsertTypeCorrect`, `CachesSound` | `TypeOK`, `CacheSound` |
| `PreparedRight`, `StoredRight` | `PreparedForNamed`, `StoredAsNamed`, prepared again and with failing requests as well |
| `SelectsRouted`, `FreshInsertsStored` | `SelectRouted`, `FreshInsertStored`, with failing requests as well |
| `PackedRows` | of `RowPath`: `RowsAsWritten`, for any schemas, texts and limit of a message |
| `ReadInvariant` | of `RowPath`: the inductive invariant `WrittenInv /\ Received` |
| `SameInBothLayouts`, `WrittenIsRead` | from it: `LayoutsAgree`, `ReadsBack` (timestamps in the first column), for any widths of the types, even number of values of a byte, base and text |
| `Monitor_proofs!SlowLogType`, `SlowLogRefines` | of the ring alone: `TypeOK`, the refinement of `RecentLog` |
| `AgentInvariant`, `AgentNoTerminate`, `AgentStoppedOrRunning` | of the agent alone: `NoTerminate`, `StoppedOrRunning` |
| `WindowInvariant`, `MonitorWindowsDisjoint` | no query is in two windows (`WindowsDisjoint`), any types and queries |
| `MonitorInvariant`, `MonitorNoTerminate`, `MonitorRefinesRecent`, `MonitorPageWhole` | of the composition: `NoTerminate`, `ImplementsRecent`, `PageWhole` |
| `MonitorCountedAsSent` | `CountedAsSent` |
| `Metrics_proofs!FiguresInvariant`, `MetricsNothingLost` | every figure balances with the workers that have not come to it; `NothingLost` |
| `MetricsPagesGrow`, `MetricsQuietPageExact` | `PagesGrow`, `QuietPageExact` |
| `ShellSession_proofs!SessionInvariant` | the inductive invariant `SessionInv` |
| `SessionRoundTrips`, `SessionNoGroupTotal`, `SessionTruncationTold` | `RoundTrips` (what is `Representable`, for any width of the integers), `NoGroupTotal`, `TruncationTold` |
| `ShellInput_proofs!InputInvariant`, `InputFailureReported` | the inductive invariant `InputInv`; `FailureReported` |
| `InputImplementsEditor` | the refinement of `LineEditor`, the down key before any history apart (`ImplementsEditor`) |
| `InputRunAsWritten` | `RunAsWritten`, for any words, literals, comments, files and lines typed |
| `Sums_proofs!TotalPick`, `TotalRemove` | a sum over a finite set is what its recursion says, in any order |

The conditions, and the exceptions a property names, are the ones under which the
code keeps its promise; section 4 says what happens without each of them. Besides
them the theorems rest on the assumptions about constants that the modules declare,
which TLC evaluates for the runs' values: for the shell, that the units of precision divide the finest one
(`SessionAssumption`), and that what the user types and the files hold are finite
texts of tokens, in which no word, literal or file name is itself one of the marks
the scanner looks for, and a file name is followed by nothing, a semicolon or a
comment (`InputAssumption`); for the rows, that a byte has an even number of values,
at least four, that no type is wider than 64 bits, that timestamps are that wide,
and that what stands in a text is no NUL (`TextAssumption`, `LiteralAssumption`).

*AsyncConn.* `Correlated` is not inductive: with the fallback, a result gets
the number of answers received so far, so it is right only if answers arrive in
the order of ids and none is counted for a synchronous call. `SoleInv` says so:
the frames on their way (`Way` of them, in the receiver's hand, in `toClient`
and in `toServer`) carry the ids that follow `received` (`InvWire`); while the
connection stands, they and the batch about to be sent account for all ids
handed out, and in any case never for more than `sent` (`InvCount`); a
synchronous request is sent with an empty wire and travels alone (`InvWire`,
`InvSlot`); where `_recvRunning` is set there is a
receiver or the requester is about to create it (`InvReceiver`); nothing
travels on a broken connection (`InvLink`). `InvResults` counts the map. There
is one lemma per action, with a step per conjunct. `SoleOwnReply` adds that the
answer in the slot is to the request of the thread that waits for it, and the
refinement maps each step under `SoleInv`: `Alloc` hands out the next id,
`Dispatch` gives the batch whose turn it is its one result, `GetResult` takes
it, a failed send and a loss drop what they should, and all else stutters.

*NobodyOversleeps.* A thread goes to sleep on a false predicate, and whatever step
makes part of it true (an answer, a result taken, a cap raised, a slot filled)
empties `asleep`. It holds of what `Served` names and not of the end of the
receiver, whose flag is cleared after the notify.

*EchoedCorrelated.* When ids are echoed and nobody makes a synchronous call, no
frame on its way has the id 0 (`EchoInv`), so the fallback by order is never
taken, whatever the order in which submitters send.

*FetchStream.* `StreamInv` relates the client's batch to the server's cursor
(`InvClient`, `InvStream`) for every result that is not astray. Two live streams of
one dbnode have different ids (`IdsUnique`, which `IdInUse` of the dbnode gives), so
a FETCH that goes to the database of its result with an uncut id is served by that
result's stream or refused (`ServedByOwn`); any other sends astray both the result
and the one whose stream served it, so that what remains is untouched
(`Others`). `BlockShown` needs only that a result whose block is
shown has been opened (`BlockInv`).

*TableInsert.* `Inv` is inductive as it stands (`TypeOK` and `CacheSound` in
parts). The statement's properties need `StmtOwn` (a statement without a uid is
unprepared, and the uid it has is one of its table's unless it was kept). A
qualified name whose metadata are missing can still find a uid, its own by
`UidsSound`; what is stored is what the uid owns, so `StoredAsNamed` follows where
no guess was made (`StoreLast`). A SELECT finds the dbId of its database or leaves
it unknown, since a failed lookup caches nothing (`SelectsRouted`), and an INSERT
that ends with its table's present metadata in the cache had them when it chose the
uid (`InsertFinds`).

*InsertText.* The packer compares a row with the first one and tests the size
before it stores a value, with the rows counted as equally wide. `PackInv` says
that this is so: every row has the length and the bytes of the first
(`PackEven`), so that what is sent is their number times the width of a row; the
groups scanned are packed, and of the present one the values so far
(`PackPlace`). A slot is as wide as its column (`SlotLen`) because the width of a
type is fixed and the first column is a timestamp (`TextAssumption`); what the
bytes of a slot say plays no part. The lists are summed by `Added`.

*RowPath.* `HoldInv` says that each slot packed is the value at its place in the
text, trimmed and converted; `KeptInv` that the image is the rows, in host byte
order; `Received` that each column of an answer has as many cells as rows have
come, with the number of the image in each that is not NULL, and for a string
column the piece of its characters between two offsets (`CellsIn`). That no tag
changes a number is arithmetic: what `Network` writes, `FromNetwork` reads modulo
the power of the width (`NetworkReads`, and `HostReads` for the other order), a
number within half of that power comes back with its sign (`SignedBack`,
`SignedRange`), and a tag is never narrower than its column (`Narrower`), so that
the clamping of `putSigned` and `putUnsigned` has nothing to clamp (`SignedCell`,
`UnsignedCell`). For `ReadsBack`, `NumberText` shows that the loop of the
converters, which tests a digit before it takes it, gives the smaller of the
limit and the number that the digits stand for (`OneMore` is one turn of it), and
`NumberKept` that cutting this to the width of the column gives the number back
whenever the column is as wide as a number or the number fits (`Claimed`). A
`ValueOf` is a sum of digits times powers and the loop multiplies as it goes:
that the two agree is by `AddedRuns`. Strings are a matter of padding
(`TrimmedPad`): a text has no NUL (`LiteralAssumption`), which ends a string where
it is read back. Powers and numerals are recursive functions over positions,
dealt with like `Added`. For the sake of these proofs `Power` stands for `^`, of
which the provers know nothing, and quotients only occur in lemmas without
anything else (`DivMod`, `DivDiv`, `ModTimes`).

*Monitor.* The ring's abstract log is `Snapshot(count)`; `AddShifts` shows that
an addition puts its entry in front and moves each other one up, through the
modular arithmetic of the slots. The agent's position, `_running` and the state
of the thread object determine each other (`AgentInv`). The collector reads one
counter at a time, so the sum it holds lies between what the counters it has
passed held then and hold now; `WindowInv` keeps `lastQueries` below what the
sum can still become, by the sums of `Sums_proofs`. The steps of the composition
are steps or stutters of the agent (`AgentSteps`) and of the log (`LogSteps`),
so both bring their theorems along. `PageWhole` needs `PageInv`: while a page is
being written there is an HTTP server, and there is none when `start` configures
the log, so the capacity the page has read is still that of the log.
`CountedAsSent` goes through the chain of tests of the client and of the hooks
word by word.

*Sums.* The library defines a sum by a fold over an arbitrary order. That it is
a function at all, and that the order does not matter, is proved by taking a
smallest subset on which it fails. `Added` recurs over the positions of a list:
`Recursion` proves that a machine run over positions exists and `OnePassage` that
it is unique, for `ShellInput_proofs` as well.

*Metrics.* `Recording` ties a worker's position to the figures it has already
raised; then each figure equals the recordings begun less those of workers that
have not come to it, each bucket too (`FiguresInv`), also across a
compare-and-swap that is repeated. `PagesInv` keeps a page between the one
before it and the figures, and equal to them while nothing is recorded.

*ShellSession.* For a database that is what the client last saw, the cached
precision and groups are the server's (`CachesRight`), on whatever step of the
statement the shell is (`Job`); the rows of a table are in the unit of its
database; an answer holds all rows of the table or at least the limit
(`AnswerRight`). That a datetime comes back as itself follows from facts about
C's truncating division, before 1970 as well as after (`Shows`), and from a count
within the width of the integers being left alone by the wrap (`Counts`); the
second that `mktime` refuses and what does not fit are outside `Representable`.

*ShellInput.* `InputInv` is about who is accountable for a failure: a read that
failed is counted in a call that has not returned, in the result it returned, or
in that of the call that asked for it (`Counted`). The refinement of the editor
shows for each key but one what it does to the two halves of the line, and that the
history read backwards is the abstract one with the latest line first.

*RunAsWritten.* The scanner's state is a place in a text, and what a text means
is a machine (`See`) that takes it token by token: the statements done, the one
in progress without its blanks, and whether it stands in code, a quote or a
comment. For a script `ScriptInv` says that what the outermost call has made of
its text so far (`Scanned`), continued over what it has still to read (`Seen`),
is what the author wrote (`Stands`, `SourceWritten`). Each step of the scan is
a step of the machine, one lemma each (`QuoteSees`, `PlainSees`, ...); the calls
above the outermost one read files nobody wrote at this prompt and leave it
alone; each piece the author adds moves both sides alike, one lemma each
(`WordWritten`, `LiteralWritten`, ...). For the prompt, `PromptInv` says that
what was written is what was executed and then the queue, and that the lines so
far mean what has been typed; `CutAgrees` is the fact that cutting a text at its
semicolons and trimming the pieces (`Split`) gives the statements it means. The
functions that take a text token by token are recursive functions over its
positions, so that what they do with a longer text follows by induction over
sets of texts (`Recursion` and `Along` of `Sums_proofs`); the induction theorems of
the library are not needed. The assumptions about words and names are what the
property needs and no more: a mark that is itself a word would be one the author
meant and the scanner removes.

Every safety property and every refinement that a passing run checks is stated
by a theorem. Only model-checked are the liveness properties, which are out of
the prover's reach: `WaitersAnswered`, `BackpressureReleased`, `AnswersArrive`,
`CloseTerminates`, `CloseReleasesWaiters`, `Delivered`, `StopReturns`, `SourceReturns`.

## 7. Not modelled, and the plan

Not modelled: the server (binaries; external operators say what the client
relies on), vendored LZ4, logging, the socket wrapper and SHA-256, the system
collectors and the status and health pages, which format or read without state
of their own; FLOAT and DOUBLE, whose conversion is that of the C library; the
drawing of tables and the settings of the shell.

Modelled in part, with what is left:

1. `connect()` message by message: the challenge, its timeouts and early
   returns. `AsyncConn` has it as one step that succeeds or fails.
2. DROP and CREATE DATABASE (a dbId that goes stale) and `fetchAllTableMeta` in
   `TableInsert`; the counters of affected rows and the 16-bit row count of
   statement batches.
3. The gauges and the JSON page in `Metrics`.

Worth proving next: what remains true of several submitters on a connection
that is lost, where the counts can be off (section 4), and that a whole column
of strings is the same sequence of characters in both layouts, which
`LayoutsAgree` states cell by cell.
