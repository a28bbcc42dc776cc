# TLA+ verification of the grannos server

grannos is a JSON-lines database server: an editor starts it, writes one
request per line to its standard input and reads one response per line from its
standard output. It keeps connections to databases open between requests, lets
its client cancel any request at any time, reconnects links that broke, closes
links that idle, caches what it learnt of a database's structure, answers what a
database is made of as one tree for ten kinds of database, and draws diagrams.

Its difficult behaviour is of two sorts. The first comes from what interleaves:
asyncio tasks on one event loop, worker threads of the default executor, databases
that drop links, and a client that cancels. The second is in what is computed: ten
drivers that answer the same thing by several queries of their own, a search over
their trees, and the algorithms of a diagram. The modules here model both; the SQL
texts, the parsing of parameters and the rendering of results are left out.

All paths below are relative to `src/grannos/` unless they begin with `src/`.

## 1. Inventory

| Component | State | Operations | What makes it hard | What makes it correct | Modules |
|---|---|---|---|---|---|
| JSON-lines server, `server.py` | reader buffer, table of tasks by request id, in-flight tasks | read and decode a line; start a task; cancel by id; answer; stop at end of input | cancels and requests in one burst, an id reused, a task cancelled before its first step, shutdown with tasks in flight; a line around the reader's limit | each line is answered exactly once; a cancel hits only what it names; the process exits | `LineReader`, `RequestServer`, `RequestContract` |
| Wire protocol, `protocol.py`; entry point, `__main__.py` | none | decode, encode; `asyncio.run` | what `json` raises or cannot express | every bad line is a `DecodeError` | in `RequestServer`, `Relational` |
| Dispatcher, `dispatcher.py` | registered connections; per connection a semaphore, an idle timer, a driver | connect, disconnect, enter and leave a connection, call, reconnect and retry, expire | cancel while queued, handover, timer against requests, two requests that lose one link, disconnect with requests in flight | no unit of the semaphore and no wakeup lost; no link left open; a retry is left alone; an idle link is closed | `ConnectionGate` |
| Driver base, `drivers/base.py` | per call a future and a cancelled flag; large values by reference | `run_blocking`, `open_blocking`, `check_cancelled`, LOB registration | event loop against worker thread; a statement between check and database; connects that outlive their cancel; a cache at its limit | the connection is idle when a call is over; at most one late statement; nothing left open; the last values can be fetched | `BlockingCall`, `OpenBlocking`, `LobCache` |
| Explore cache, `explore_cache.py` | three caches per connection; one JSON file per set of parameters | look up, store with fan-out, reset, load, persist | a reset while a fetch is under way; descriptions that embed each other; crashes, failing disk | nothing cached is older than its last reset, in memory and on disk; parts are not older than wholes | `ExploreCache` |
| PostgreSQL driver | link, metadata cache, SET statements to replay | execute, query metadata, reconnect and replay; list and describe | a fetch that overlaps a statement; a link lost during the replay, a replay that stops midway | no stale metadata; the session's settings survive | `PostgresSession`, `PostgresTree` |
| Oracle driver | session formats to replay; DBMS_OUTPUT | execute, LOAD, reconnect and replay; list, describe, search | LOAD sets formats and must put them back; a batch that fails in the middle; a replay that stops midway | formats as the user left them; the rejected line is named | `OracleSession`, `OracleTree` |
| SQL Server driver | connection and the socket below it | connect, sever, reconnect; list and describe | the ODBC driver does not tell its socket | only the socket of the cancelled call is severed | `SqlServerLink`, `SqlServerTree` |
| S3 driver | client | cp, mv, rm; list and describe | a move is a copy and a delete, object by object | nothing is deleted that was not copied | `S3Transfer`, `S3Tree` |
| SQLite, DuckDB, MongoDB, Neo4j, Elasticsearch, Prometheus drivers | connection or client | list and describe | one object described by several queries | they tell the same | `SqliteTree`, `DuckdbTree`, `MongoTree`, `Neo4jTree`, `ElasticTree`, `PrometheusTree` |
| Explore find, `explore_find.py` | a budget of listings per search | walk templates within scopes, prefer exact names | where the budget runs out | what is listed is found, or the search fails; it is never cut short | `FindWalk`, `Explorer` |
| Diagram, `diagram/` | none between requests | discover, lay out, place, route, compact, draw | a schema that changes between describes; graph algorithms with special cases | nothing missed of what is left, each path once, no edge within a column, no box on another | `Discovery`, `Diagram`, `Layout`, `Place` |
| `tabular.py`, `drivers/comments.py`, `log.py` | none | formatting, parsing | - | - | none |

How they interact: `server.py` starts one asyncio task per line and awaits
`Dispatcher.dispatch` in it; a `cancel` cancels that task, which surfaces as
`CancelledError` at whatever await the dispatcher or the driver is in. The
dispatcher lets a request through its connection's semaphore, stops the idle
timer on entering and restarts it on leaving, and calls the driver, through the
explore cache for `explore.*`. A search and a diagram are many calls of
`explore_list` and `explore_describe` within one such request. Blocking drivers
run each call in `run_blocking`. All shared state is on the event loop except the
worker's side of a call, the executor's queue, the sockets of the process and the
files of the explore cache.

## 2. The modules

### RequestServer, RequestContract and LineReader

`RequestServer` models `server.py` with `asyncio.run` around it. The event loop
is its FIFO queue of callbacks (`ready`): starting, waking and finishing a task
are separate entries, and so is the arrival of data and the resumption of the
reader. An action is what runs between two suspensions: `ReadRequest`,
`ReadCancel`, `ReadRejected`, `StopReading` and `ReadUndecodable` are the turns
of `Server.run`'s loop; `StartRequest`, `StartDoomed`, `StartCancel` and
`StartRejected` are first steps of tasks; `WakeProgress`, `WakeCancelled` and
`WakeDone` are what `_handle` does after its await; `RequestDone` is the done
callback with its closure over the loop variable `req`. `StopLoop`,
`CancelEverything` and `Exit` are the end of `asyncio.run`. What a method does
between its first await and its end belongs to the dispatcher and is an
environment action here (`DispatchProgress`, `DispatchEnds`,
`DispatchUnwound`). A line is what `_read_line` and `decode` make of it: a
request, a cancel, a rejected line, or bytes that are not UTF-8.

`RequestContract` is the abstract specification: a line once read is answered
exactly once, unless it is excused. It is refined through
`Contract == INSTANCE RequestContract WITH ...`. Two excuses exist, both the
code's own: a client may have cancelled an id before sending it (then the task is
cancelled before its first step and never reaches the `try` of `_handle`), and
a result may have no JSON form (`encode` raises in the task).

`LineReader` is one level below: `_read_line` and `_skip_line` over the buffer of
`StreamReader`, byte by byte. It shows what `RequestServer` takes as given, that
the input comes apart into its lines, an oversized one as one error.

### ConnectionGate

One connection: its entry in the store (`ConnectionStore.open`, `close`), the
`asyncio.Semaphore` with its FIFO queue and its handover (a granted waiter
stays queued until it runs; a cancelled one passes the unit on), `IdleTimer`,
the driver's link, and `_reconnect_and_retry` around each call. `Enter`,
`Resume`, `CancelQueued` and `Leave` are `Connection.__aenter__` and
`__aexit__`; `CallReturns`, `CallFails`, `CallLost`, `CloseOld`, `OpenNew`,
`OpenFails`, `RetryLost` are a call and its retry; `NextCall` is the loop of
`explore.diagram`, which makes many calls while it holds the semaphore. Links
are numbered, and a call uses the link that was current when it began: that is
how a link closed under a request can be told from one that it replaced. The
link's own operations are the Postgres driver's (`reconnect` closes, then opens);
`ReconnectCloses = FALSE` gives the S3 driver's, which opens only. `Undisturbed`
names each way in which the link of a retry may be closed: by the database, by a
disconnect, by the watchdog and by the reconnect of another request. The last two
are the races of `dispatcher.py:79` and `:441`; the property says when they can
happen, and that nothing else does it.

### BlockingCall, OpenBlocking, LobCache

`BlockingCall` is `run_blocking`: each call has a coroutine (`task`) and a worker
(`thread`), and they interleave at every step. A statement passes
`check_cancelled` (`Check`), is then in the gap before the database (`Reach`),
and only while it executes can an interrupt abort it. The interrupt is that of
`sqlite3` and `duckdb`, which acts on the connection. `Swallow` is a driver's
best-effort query that goes on after an error. `Ending` names the calls whose
statements end of themselves. `OwnStatementOnly` is what the docstring says of whose
statement is aborted, which is checked with one call at a time.

`OpenBlocking` is `open_blocking`: a connect that is cancelled returns at once and
leaves a callback that closes what the worker opens after all: on the executor, or
on the event loop itself once `asyncio.run` shuts the executor down. `LobCache` is
the cache of large values behind `explore.download_ref`.

### ExploreCache

The three caches of `ConnectionCache`, what `CachingDriver` does around a fetch,
and the file. A cached result is the version of the database it was read at,
so staleness can be expressed. `Sweep` is `reset`'s eviction (at the path, below
it, above it, and all searches), `Put` the store with its fan-out, `Save` the
replacement of the file, which may fail. `Start` is a request up to its first
await (reset, then look-up), `Store` what follows the fetch, `Retry` the second
pass through the cache after a reconnect, `Crash` the end of the process at any
moment. Sessions are connections with equal parameters, one after the other.
The JSON form of each record is abstracted away: a file that cannot be read, or is
of another version, is a file that loads as an empty cache.

### The drivers' sessions: PostgresSession, OracleSession, SqlServerLink, S3Transfer

`PostgresSession` has the metadata cache (`queries.py`), which a statement that
returns no rows replaces by a new dictionary while queries may still write to the
old one, and the SET statements, which are replayed in order on a new link that may
be lost again meanwhile. The link is assigned before the replay, so metadata queries
run on it already; a replayed statement that is refused, or a cancel, ends the replay
with the link in use (`ReplayStops`), and the next one starts over. `OracleSession` has the session's formats with their
replay, LOAD (formats applied, rows sent in batches, formats put back, whatever
happened in between) and the buffer of DBMS_OUTPUT, read in chunks up to a cap: each
chunk is a step (`GetLines`), so a failure, a cancel or a lost link can come between
two. Setting formats, putting them back and replaying them are a parameter at a time
too: Oracle may refuse one when it is set (`ApplyFails`) or put back
(`RestoreFails`, which is logged), and a cancel or a refusal ends a replay. `skipped`
and `unsure` record which formats the code itself then leaves open; both are emptied
as soon as it does not.
`SqlServerLink` has the sockets of the process as a function from descriptors to
identities: a connection's socket is the one that is in the listing after the
connect and not in that before. Sockets of others, and of connections of its own,
open and close at any time, also between the two listings. `S3Transfer` is one cp, mv or rm, call by call.

### The object trees: Relational, ten driver trees, ObjectTrees, FindWalk, Explorer

Each driver's module defines `FindPaths`, `List` and `Describe` over the content of
a small server: tables with columns, keys, indexes and foreign keys, collections of
documents, labelled nodes, mappings, series, or object keys. Each query of the
driver is an operator of its own, and so is each way a driver describes one thing:
`DescribeField` and the fields of `DescribeEntity` are different code in the source
and are different definitions here. `Relational` has what they share: the records,
the grouping of foreign keys by column (`drivers/base.py`), the exclusive and the
composite indexes of a column. A key that names no columns of the other table
(SQLite's `REFERENCES t`) has `NoColumn` there, as the catalog has it. Names in order (`InOrder`) are a recursive function, so
that the proofs about transfers, which list keys in order, can speak of it.
`ObjectTrees` dispatches on the driver, `FindWalk` is the search, and `Explorer` a
client that lists a path and goes down.

### Diagrams: Discovery, Diagram, Layout, Place

`Discovery` is `discover`, a queue of tables whose describes interleave with
`DropTable`. A describe lists the foreign keys of a schema by number, first those
that refer to the table and then its own; `Follow` is one turn of the inner loop, with
the `describe` it awaits. A table is not its path: the code compares paths as they are
spelled, and a catalog may name a table in several ways (`names`). A table that is gone
is described as the drivers do it: without columns, with foreign keys that still refer
to it (SQLite keeps them) or not, or, as a describe may also answer, as nothing, which
is drawn as unavailable. A describe may also raise, and ends the diagram
(`DescribeRaises`). `Diagram` adds what `explore.diagram` then draws, each of
its steps being one of `Discovery` (`Draw` once the graph is there): `Layout` (hub, components, the grown
partition with the Kernighan-Lin swaps, columns, the bumps of edges within a column,
row order), then `Place` (the grid, alignment sweeps with pushes, compaction) on the
ladder of spacings. Each loop of these two is a function from the number of its passes
to what they leave (`GrowBalanced`, `KlSwap`, `BumpSameColumnEdges`, `OrderColumns`,
`AlignRows` and so on, each with the operator of one pass beside it), with no recursive
operator, so that it can be proved about. Where the code loops until nothing changes,
the function has as many passes as it can take at most, and stands still after the last
one that is needed; that `MaxPasses` are enough for the bumps is proved. What is
connected is defined by the sets that no edge leaves (`Component`), where the code walks
a queue.
The routes stand for any choice: `NoRoute` may send any placement with edges to the
next rung, and `CompactRows` takes them to use any lines of the canvas that no box
takes (`FreeLines`: in the margin, in the gaps between boxes and in the channels
between columns), as many as `Lanes`.

### ConnectionParts, the MC modules and the two composites

`ConnectionParts` is the five small machines of a connection side by side: the link
of SQL Server, an Oracle session, a transfer of S3, the large values and the reader
of lines. They share nothing, so a behaviour of `PartsSpec` is of one of them, which
`kind` names; the variables of the others are 0. It declares what each assumes of its
constants, and states the property of each as `kind = ... => M!Property`.

`MC<Module>.tla` extends its module with small constant sets; each
`MC<Module>_<run>.cfg` gives one run its constants. `MCConnection` extends
`ConnectionGate` and `ConnectionParts` and adds `BlockingCall`; `MCExplorer` holds the
PostgreSQL session, the trees, the search and the diagrams in the same way, with the
trees' client in `x1` and `x2`. That keeps one run for one
question (does a connection keep what it promises; is what is explored told right)
rather than one for each small machine; the machines do not act on each other in
these runs.

## 3. The runs

Deadlock is checked in the server's runs. Elsewhere the system may really stop
(all requests over), so the configurations say `CHECK_DEADLOCK FALSE`.

| Run | Instance | Shows |
|---|---|---|
| `server_pipelined` | 3 lines, 2 ids that may be reused, reads of up to 2 lines, progress reports, 2 unanswered requests | `CancelledOnlyOnDemand`, `ImplementsContract` (exactly one answer, and an answer eventually), `StoppedServerExits` |
| `gate_serial` | 3 requests (one a diagram), 1 disconnect, 1 at a time, idle timer, 2 links, 1 drop | `NoStrayLink`, `NoLostWakeup`, `EveryRequestEnds`, `ReopenedLinkExpires` |
| `blocking_shared` | 3 calls at once, 2 workers, 2 statements each, which end of themselves in one call only | `IdleWhenOver`, `OneLateStatement`, `CancelCompletes` |
| `cache_serial` | 2 sessions in turn, 1 request at a time, a table, the group of its columns and a column both embed, one search, 2 database versions, failing writes, crashes | `FreshAfterReset`, `AnsweredFresh`, `PartsNotOlder`, `ResetSurvivesRestart`, `WarmRestart` |
| `open_cancel` | 3 connects, 2 workers, shutdown at any time | `NothingLeftOpen`, `CancelledCloses` |
| `connection`: gate | 3 requests, 1 disconnect, 2 at a time, idle timer, 3 links, 1 drop, a reconnect that closes the old link; symmetric in the requests | `SemaphoreAccounted`, `RetryUndisturbed` |
| `connection`: serial | 3 calls one at a time, 1 worker, statements that end, a backstop that may come at any time | `OwnStatementOnly` |
| `connection`: link | 2 connects, 3 descriptors, 5 sockets, all of which may close at any time | `SeversItsOwn` |
| `connection`: oracle | 3 requests, loads of up to 3 rows in batches of 2, a refused format, cancels, formats that are not put back, lost links, replays that stop, up to 2 printed lines of which 1 is kept | `SessionLeftClean`, `LoadNamesTheLine` |
| `connection`: transfer | every store of up to 4 keys, cp, mv and rm within a bucket, to another, to and from the disk, recursive or not | `NothingLost` |
| `connection`: lobs | 3 results of 2 values, 3 held | `LatestKept` |
| `connection`: lines | every input of up to 8 bytes, limit 3, cut anywhere | `LinesAnsweredOnce` |
| `explore`: postgres | 2 overlapping metadata queries, 2 settings, 2 catalog changes, 2 SETs, 1 lost link, a replay that may stop | `NoStaleMetadata`, `SettingsSurvive` |
| `explore`: tree | 288 shapes of a database for each relational driver (keys, indexes, foreign keys that are composite, double, to itself, across schemas, and for SQLite without columns), and small servers of the other five; every path | `PartsAgree`, `EdgesAgree`, `ListedIsFound`, `FoundIsListed` |
| `explore`: diagram | every set of 7 foreign keys among 4 tables, one of which may be dropped at any describe; every set of 5 of them where a dropped table is dangling or unresolved, and every set of 5 with two tables spelled in two ways; wheels of 6 with every set of 7 rim edges; routes that take 1 free line | `DiscoveredOnce`, `LaidOut`, `Placed` |

The `TypeOK` of the five modules with a run of their own is checked by it. Each
property is shown to be able to fail by a mutant, a plausible bug in one mapped
definition, kept beside that definition under a comment.

What the properties mean where their name does not tell: `PartsAgree`, that a
field, an index or a reference described on its own is what the description of its
table, or of its group, holds for it; `EdgesAgree`, that a foreign key is seen alike
from both of its ends, by the one column it is about, and by its own end alone where
it names no column of the other; `DiscoveredOnce`, that a diagram misses no table and
no foreign key of what is left of the schema, whatever was dropped meanwhile;
`RetryUndisturbed`, that a request which lost its link and opened another keeps it but
for the causes listed there; `ListedIsFound`, that a search within the ancestors of a node
answers that node, in any spelling of case, and nothing more where its type lives
in one place; `FoundIsListed`, that a search without scopes answers each node or
fails for want of budget, and only nodes of the tree; `PartsNotOlder`, that what is
cached of a column is never older than a cached description that embeds it. (It
cannot be that they are equal: the table and the group of its columns both embed a
column, and describing the second again leaves the first as it was.)

Five runs end in a counterexample, each against a sentence of the repository:

| Run | Property | What happens |
|---|---|---|
| `server_listed` | `InFlightListed` | Two requests are read in one burst. When one ends, its done callback pops the id of the last request read (`server.py:126` closes over the loop variable), so one in flight leaves the table and can no longer be cancelled. `server.py:77` calls the table the map of in-flight tasks. |
| `server_undecodable` | `OnlyEndOfInputStops` | Bytes that are not UTF-8 make `json.loads` raise `UnicodeDecodeError`, which is not the `DecodeError` of `protocol.py:924`; the read loop dies with every request in flight. |
| `gate_idle` | `NoExpiryWhileRunning` | Leaving restarts the timer although the next request was just let in; if that one runs longer than the timeout, its link is closed under it. A test is named `test_timer_does_not_fire_while_query_is_running`. |
| `gate_unwatched` | `IdleIsWatched` | `__aenter__` stops the timer before it waits; a request cancelled in the queue never reaches `__aexit__`. If no request holds the connection by then, it stays idle for good, against `src/README.md:123`. |
| `cache_concurrent` | `FreshAfterReset` | A fetch that was under way at a reset stores what it read before it, and that is served from then on, against `src/README.md:125`. |

Further behaviours met while modelling, which no run reports; where a property
would fail of one, its comment says what it excludes:

* A request in flight at a disconnect reopens a link on a connection that is
  registered no more (with an idle timer it is closed in the end, which is
  `ReopenedLinkExpires`; without one nothing closes it).
* With the default `--max-concurrency` of 5, an interrupt aborts the statement of
  a bystander on the same SQLite or DuckDB connection (hence `OwnStatementOnly`
  with one call at a time).
* Sessions with equal parameters that are open at once overwrite each other's cache
  file; `explore.find` never looks at `reset_cache`.
* A `float(idle_timeout)` that raises leaves the new link open
  (`ConnectBadTimeout`, which `NoStrayLink` excludes by name).
* Where requests overlap (`--max-concurrency` is 5 by default), two that lose one
  link both reconnect, and on PostgreSQL the second closes the link the first one
  retries on. `RetryUndisturbed` names that case.
* A cancelled call in the executor's queue is not taken out of it: behind statements
  of others that never end, on as many threads as there are, its cancel does not
  complete (`Crowded`, which `CancelCompletes` excuses).
* A replay that fails, or is cancelled, leaves the new link open and in use without
  the settings that were still to come, and no error but that of the one request
  (`drivers/postgres/driver.py:128`, `drivers/oracle/driver.py:164`).
  `SettingsSurvive` and `SessionLeftClean` hold such a setting to the server's
  default until it is set again or the next reconnect.
* `_connect_tracking_link` compares descriptors only. A socket that is closed
  during a connect gives its descriptor to the new link, which is then taken for none
  and cannot be severed; if another one opens meanwhile, that one is taken for the
  link, although the docstring promises that anything less certain yields none
  (`drivers/sqlserver/driver.py:850`). `SeversItsOwn` excepts just this, a connection
  whose descriptor was listed before it.
* Oracle's LOAD leaves its formats set when one of them is refused, or a cancel
  comes, before the `try` whose `finally` restores them, or during the restoring
  (`drivers/oracle/driver.py:273`), as it does a format Oracle refuses to put back;
  `SessionLeftClean` says nothing of those formats (`unsure`) until they are set again.
* On Neo4j a property searched within a label is found under relationship types
  too: a scope that no template passes is dropped (`explore_find.py:89`), where
  `protocol.py:174` says scopes of different types all have to hold.
* A PostgreSQL statement that changes the catalog and returns rows does not empty
  the metadata cache.
* An S3 key with an empty segment is listed by the name of its parent, and cannot be
  reached; `mv --recursive` of a prefix below itself, or of one that ends inside a
  segment, maps keys onto each other (`Apart`, which `NothingLost` assumes).
* An Oracle index owned by another user than its table is described without fields.
* A reference of SQLite that names no column (`REFERENCES t`) is shown by its own
  column only: the column it refers to is not told of it. `EdgesAgree` says so.
* Paths are compared as they are spelled. SQLite names a referred table as REFERENCES
  spelled it, and Oracle looks up in upper case what was asked for in lower case: a
  diagram then has two boxes of one table, where `diagram/graph.py:1` says that every
  table gets exactly one node. It also says so of a describe that fails, but one that
  raises ends the whole diagram. `DiscoveredOnce` claims one box for each path.
* The fallback of `_grow_balanced` (`diagram/layout.py`), whose comment says it
  should not happen, does: the smaller side may have no neighbor left.

### Bounds, and why they are enough

* Three lines are a request, a cancel that names it and a third of either kind
  between or after them; every order of them in one or several reads occurs, and
  two ids are enough for a cancel to miss or for an id to be reused.
  `MaxOutstanding` only limits what the client leaves unanswered.
* Three requests on a connection are one inside, one granted or waiting, and one
  behind it, which handover and lost wakeups need. `MaxLinks` is one for the
  connect and one for each reconnect; when it is used up a reconnect can only
  fail. One at a time, the second link is what a reconnect leaves or loses; two at a
  time, two requests lose one link and each opens its own, and the third is for a
  request that finds the link closed by the watchdog or by the other one.
* Two statements in a call suffice to have one before and one after a cancel;
  three calls on two workers leave one queued for a thread. One call whose
  statements end and two whose statements never do are the two kinds of neighbor
  an interrupted call may have.
* A reset at the group of a table's columns is at an entry, below one (the table) and
  above one (the column), which are the cases that `reset` treats differently
  (`ResetPaths`); two versions tell before from after. Lists are evicted by the same
  test as descriptions; they appear in `cache_concurrent`, and are left out of
  `cache_serial` to keep it small.
* Three connects on two workers leave one queued, behind two, when its cancel
  comes.
* Two connects and three sockets more use every order of listing and opening in
  which a descriptor is given out again. Loads of three rows in batches of two have
  a last batch that is not full, and rejections at its first row. A statement that
  prints two lines, read one at a time under a cap of one, has a chunk that is full, one
  that goes past the cap and one that is empty. Eight bytes with a
  limit of three have a line below, at and above the limit, with and without the
  newline in the buffer, and a line behind it.
* A database of three tables has what its queries tell apart: a single and a
  composite key, an exclusive and a composite index, foreign keys within a table,
  between two and across schemas, one or two of a column. `MaxListCalls = 6` lets
  some searches run out of budget and others not.
* Four tables are enough for a table at the limit of the depth, one beyond it, and
  two ways to one, also when one of them is dropped; two of them spelled in two ways
  give a second box to a table that is expanded and to one that is not; a wheel of six has a rest that stays connected without its hub,
  which the partition needs.

### Fairness

* Event loop: callbacks that are ready run (`WF` on the steps of the loop, of a
  woken task, of a timer that elapsed). asyncio's queue is FIFO and nothing in
  this code blocks the loop.
* Threads: a worker that runs makes progress (`WF`); a queued call is taken
  sooner or later (`SF`, since others may take the idle worker first, and the
  executor's queue is FIFO).
* Databases: in `RequestServer` a dispatch ends; in `ConnectionGate` a call, an
  open and a close end. That is an assumption, because drivers set no limit on a
  statement. `blocking_shared` does without it: the statements of two of its calls
  never end unless they are interrupted, and `PromptThreads` says that a thread
  needs less than `INTERRUPT_BACKSTOP` (0.1 s) from the check to the database, which
  is what the docstring of `run_blocking` counts on.
* Never assumed: that a client sends anything or ends its input, that a user
  cancels, that a database drops a link, that a connection is disconnected.

## 4. The proofs

All are for every value of the constants under the named assumption of each
module (`ConnectionGateAssumption` and so on: finite sets, natural bounds).

**ConnectionProofs, the gate.** `IInv == TypeOK /\ SemaphoreAccounted /\ NoLostWakeup`.
The three are inductive together: the counter stays within its type because
units are accounted for, and accounting needs the handover to take only
waiters. The lemma `Handover` covers every step that grants the semaphore (`Enter`,
`Resume`, `CancelQueued`, `Leave`): it counts holders before and after with
the theorems on cardinality. From it follow `TypeCorrect`,
`SemaphoreNeverLeaks` and `WakeupsNeverLost`. `NoLinkLeftBehind` needs
`MaxConcurrency = 1` (otherwise false: two reconnects leave one stray link) and
a further invariant: only the request that holds the semaphore is between
closing the old link and assigning the new one. `RetriesUndisturbed` assumes nothing
of the timer, the concurrency or what a reconnect closes. It rests on `TimerInv`: a
request that has been let in, or waits to be, while the timer runs or the watchdog
closes, has seen another one end, since each request stops the timer when it comes and
only one that ends starts it; one at a time, it had to queue for that one. And the old
link is closed by another request's reconnect only where two hold the semaphore
(`OneHolder`).

**BlockingCallProofs.** `IdleWhenOver` is not inductive: `Joined` puts the future
between the worker and the coroutine, and gives `ConnectionIdleAfterCall`.
`OneLateStatement` needs `FirstLate`, that a call in the gap has had no late statement:
`AtMostOneLateStatement`. `Attended`, that a worker only runs for a coroutine that waits
for it, gives `InterruptsItsOwn` for `MaxConcurrency = 1`.

**OpenBlockingProofs.** `Accounted` says what became of each connect (a
cancelled one that may still open something has its callback, and only
cancelled ones are given up), `Unwound` that no coroutine outlives the
cancelling of all tasks and no worker or callback the executor. Together they
are inductive and imply `NothingLeftOpen`: `NoConnectionLost`.

**PostgresSessionProofs.** `MetadataNeverStale` needs `InUse`: the dictionary in use
holds an answer no older than the last finished statement, and a query that may
still write to it began when no statement had finished since. A query that is older
holds a dictionary that was replaced. `SettingsAlwaysSurvive` needs three facts
together: `Tracked` (one entry for each parameter that was set, with the value
expected of it), `Replaying` (what has been replayed is set and nothing else) and
`Running` (a SET that was run and not yet recorded is all the session has more). One
entry for each parameter is also why a replay that stops leaves out just the parameters
of the entries still to come: none of them was set by an entry before.

**ExploreCacheProofs.** For any paths, relation of parts, searches, versions and
sessions. `TypeInv` and `Solo` (one session is open at a time, and what is in flight
is of it) give `RestartsWarm`, however many requests are under way. The others assume
`MaxConcurrency <= 1`, which `cache_concurrent` shows to be needed. `OneRequest` says
that no two requests are in flight, `ResetsKnown` that no reset is of the future or of
a session yet to open, `ReadFresh` that what was read and is to be stored is no older
than any reset, `MemoryFresh` that what is in memory is no older than its session's
resets and, where it may still be written, than those of the other sessions. With
`ResetSurvivesRestart` itself they are inductive and give `ResetsInvalidate`,
`ResetsSurvive` (the file, across a crash) and `ResetsAnswerFresh` (an answer, across
a retry). `PartsInv` adds that nothing in memory is newer than a result that is to be
stored, since storing it overwrites its parts: `PartsAreNotOlder`.

**RequestServerProofs.** For any number of lines, ids and bursts. `Queue` (a task
that is queued to start belongs to a line that was decoded) makes the types
inductive. `CancelsHitWhatTheyName` needs `Table` (an entry leads an id to a request
that has it, whatever entries the done callbacks removed), `Cancels` (a task that
shows any trace of a cancellation was named by a cancel that was read, or the server
is closing down) and `LoopInv`, on the callbacks that resume and stop the read loop:
one of each at most, without which the end of the server would not be final.
The same module proves `AnswersKeepTheContract`: initial states and steps of
`RequestServer` are those of `RequestContract` under the mapping of `Contract`, the
safety part of what `server_pipelined` checks. It rests on the order of the queue
(`Ordered`: tasks start in the order of their lines, and before the loop is stopped;
each is woken once) and on its agreement with the phases of the tasks (`Matches`);
from these, `Withdrawn` (a task cancelled before its first step was cancelled by an
earlier line) and `Begun` (none is left to start when everything is cancelled). The
lemmas `OrderKept` and `MatchKept` say so of a step in general, and each action is
an instance of them.

**ConnectionProofs, the parts.** The six properties of the parts that `connection` checks,
for any constants under the assumptions of `ConnectionParts`. Each part has an
inductive invariant of its own; only the part that a behaviour is of takes steps.

* `LinkSeversItsOwn`, for any descriptors, connections and other sockets, which open
  and close at any time. `Alive` says that the socket of a live connection is where it
  was opened and no other connection's. So, unless its descriptor was listed before, it
  is among the new ones; then one new socket can only be its own, and more than one is
  taken for none (`Identified`). It rests on a descriptor being given out only when it
  is free (`LowestIsFree`). The one exception is in the property itself.
* `LobsLatestKept`: the references that were given out are 1 to some `g`, and `order`
  and the cache are the last `LobCacheMax` of them (`GaveOut`); giving out one more is
  the same with `g + 1` (`OneMore`), whether or not one is dropped for it.
* `ReaderLinesAnsweredOnce`, for any input, limit and division into reads. The lines
  are counted by where they end (`Ends`). `LineInv` says that the reader is at the
  line that begins after the `s`-th byte, that as many lines were answered as end
  there (`EndsUpTo`), and what it knows of an oversized line: no newline in what it
  has skipped nor within the limit (`Reading`). A step that answers finds the next
  end and no other (`SeparatorFacts`, `EndsAtNewline`, `EndsWithInput`, `GotOne`).
* `OracleSessionLeftClean` is two invariants. `FormatsInv`: what the user's statements
  made is what is tracked (`ExpectedTracked`), and of each parameter that is not
  `unsure` (`Follows`): while a load runs, it either has the format the user's
  statements made or has it among those to put back (`PutsBack`), of those put back all
  before `step` are; and in a replay it has it unless it is still `skipped`. `OutputInv`: the
  lines fetched and those still printed are the lines there were, so that a chunk that
  is not full ends the count.
* `OracleLoadNamesTheLine`, for any file and batch: while rows are sent, the table is
  the first `sent` rows of the file (`LoadInv`), so the first bad row of a batch is at
  the line after those that went in.
* `TransferNothingLost`, for any places, keys, contents and batch of deletes. Before
  the deletes nothing is gone, which a copy never comes to (`NothingGone`); a move comes
  to them only when each key it matched has arrived, and no later copy overwrites what
  arrived, which is where the property's `Apart` is needed (`ArrivesFirst`). That what
  is matched are keys of its source, or the one it names, is `InOrderOfNames` and
  `MatchesAbout`.

**DiagramProofs, the discovery.** `DiscoveryIsRight` states `DiscoveredOnce` for any
schema, spelling of its paths, depth and table dropped meanwhile; the tables within a
distance are `Reached`, and of what is left `StillReached`, defined by the foreign keys
and not by the search. Two invariants are inductive.

* `GraphInv`: the boxes have different paths, each of a table within the depth, and only
  a table dropped is unavailable (`NodesRight`); an edge has the ends of its foreign key,
  begins at a table that is expanded, and no two have the same ends (`EdgesRight`); what
  is in the queue is a box at most as far as its depth, with references of its own
  (`EntryRight`). This half gives the two cardinalities.
* `CompleteInv`: of a box in the queue, or being expanded, each reference that is still
  live was followed or is among those left (`Covered`), unless its table is gone; the
  depths in the queue ascend, and are those of the table being expanded or one more
  (`QueueInOrder`). Each table that is still as near as the one being expanded has a
  box that was expanded, is, or waits no deeper (`Handled`), and so has every box as
  long as the next level is to be expanded (`NothingMissed`). That the next table is one
  level deeper is the hard step: then all that is as near was expanded, so all that is
  joined to it has a box (`OneFurther`). Without the order of the queue a table
  could first be found on a detour, at the last depth, and its own references be missed.
  A drop only takes away from what has to be followed: a reference that is live was
  so before (`LiveKept`), a table that is near was near (`StillNearKept`), and a box
  whose table is gone has nothing left to follow (`CoveredIsThen`). A table spelled in
  two ways has a box that is handled for each, of which one is enough. At the end
  `AllCovered` and `OneFurther` give all tables within the depth (`AllFound`) and each
  foreign key between two of them its edge (`AllJoined`): `NothingIsMissed`.

**LayoutProofs and DiagramProofs, the drawing.** `LayoutIsRight` and `PlacementIsRight`
state `LaidOut` and `Placed` for any schema, any table dropped meanwhile, any spacing of
the ladder the routes ask for, and any values of `KLMaxRounds`, `StubLen`, `AlignSweeps`
and `Lanes`. `LayoutProofs` has what the operators of `Layout` and `Place` compute for
any graph in one piece, with edges that join two different nodes; `DiagramProofs` has the
invariants of the behaviour and shows that it only ever lays out such graphs.

* `Hangs` (`GraphHangs`): each table found is joined by an edge to one found before it,
  hence every set of tables that no edge leaves is all of them (`GraphFound`). The layout
  needs it: of a graph in two pieces the code gives the second one column 0 throughout,
  the hub's. `GraphInv` gives the rest, that edges have ends, and two of them.
* `LaidInv` (`DiagramIsLaid`): from the layout on, the layout is one of the graph
  (`LayoutOf`: columns from 0, edges across columns, rows that list the tables of their
  column, each once) and `rung` is one of the five.
* That the bumps end (`PassesFacts`). From a distance of n columns on, none is left out
  up to the furthest, as a bump leaves the other end of its edge behind (`Bumps`,
  `BumpedFacts`); were a node further out than `2n`, there would be more than n
  distances with a node at each (`BumpsBound`). Nodes only move away from the hub (`Further`), so the
  pairs of a node and a distance it has reached, of which there are `2 * n * n`, grow
  with each pass that finds an edge within a column (`ReachFacts`, `PassFacts`): after
  `MaxPasses` there is none. Each node stays on its side and at least as far out as
  its distance in edges (`SignedColumnsFacts`).
* The sides, when the rest comes apart: as each part goes to the lighter side, the two
  are never further apart than the largest part (`LptSteps`, `LptFacts`), and a part is on
  one side since parts are disjoint (`ConnectedParts`).
* The sides, when it does not. A swap changes the number of edges across by exactly
  the gain the code computes for it (`GainFacts`), a gain that is positive; so no round
  adds an edge across, and each round that swaps takes one away at least. When there were
  no more than `KLMaxRounds` across, the swaps have therefore come to an end, and then
  no exchange spares an edge (`SwappedFacts`, `KlFacts`). With more across, the bound on
  the rounds may cut them short, and `Divided` claims only that they made nothing worse.
* Rows. `Standing` is the set of the rows in which the boxes of each column are in its
  order, apart by the gap. A nudge moves a box by no more than `NudgeLimit` allows, which
  is the nearest box that stays less the room for those in between (`LimitFacts`), and each
  box pushed keeps its gap from the one before (`PushDownFacts`, `PushUpFacts`); so
  a nudge keeps `Standing`, and a column pulled, a sweep of columns and all sweeps with it
  (`NudgeFacts`, `PullFacts`, `PullAllFacts`, `AlignFacts`). What the boxes are pulled
  toward does not matter for it, only that it is a whole number (`TowardFacts`).
* `DrawnInv` (`DiagramIsDrawn`): boxes are as far apart as `Placed` asks, in the columns
  (`PlaceBoxesFacts`) and between them (`ColumnXFacts`, from the sums of the widths and
  channels). Compacting keeps the lines a box takes next to each other and one line
  of those between two boxes (`CompactAxisFacts`, `AxisFacts`), whatever lines the routes
  take (`CompactFacts`).

Many of these need a recursive function to exist for every length, or a fact to hold of
all its values (`AmongExists`, `RecursionExists`, `RecursionKeeps`). The library's
induction takes an operator as a parameter, which no installed prover can instantiate;
where one particular fact has to be shown for all numbers, it is shown by its least
counterexample, which the library's theorem on well-founded orders gives
(`LeastElement`, `LeastNumber`, `AllNumbers`).

Only model-checked: every liveness property and the refinement's liveness, as
`ENABLED` and fairness are beyond the prover; and `PartsAgree`, `EdgesAgree`,
`ListedIsFound` and `FoundIsListed`. These four have no steps to reason about: they say
of each content of a server that queries of ten drivers, or a search, answer the same, and
`MCExplorer` evaluates them for one after the other. The trees and the search are
recursive operators over that content (the search calls itself for each object of a
listing), about which this prover cannot reason. `OwnStatementOnly` is checked of an
instance of `BlockingCall`, and `InterruptsItsOwn` proves it of any, one call at a time.
`DiscoveredOnce` is proved of `Discovery`, and a behaviour of `Diagram` is one of it
(`DiagramDiscovers`).

## 5. Not modelled, and why

* The routes of a diagram (`diagram/route.py`): a search for cheapest paths over a
  grid of cells, with a rip-up of what is in the way. `Diagram` takes any outcome for
  it, and only `compact` is modelled. Read but not expressed: the cells of stubs are
  not checked against those occupied, and taking a route up may take a mark of
  another with it. The canvas turns cells into characters.
* `tabular.py`, `drivers/comments.py`, `log.py`, the command line: formatting and
  parsing without state; a model would be their text again.
* SQL texts, and how rows and documents become the values of a result. The queries
  of the catalogs are modelled by what they select.
* COPY of PostgreSQL, samples and statistics, DDL by `DBMS_METADATA`: a statement
  whose result is passed on.
* The requests of Elasticsearch and Prometheus, and the commands of MongoDB: input
  and output with no state of their own. Their trees are modelled.
* In `PostgresSession`, a user's SET while another request replays the settings, and a
  SET that is cancelled although the server has run it (its Oracle counterpart is
  `CancelAlterSession`). A replayed statement that is cancelled although the server has
  run it needs no action of its own: it is a `ReplayStatement` followed by `ReplayStops`,
  or by `Replayed` when it was the last.
* In `Discovery`, a describe sees the catalog at one moment, although drivers answer it
  by several queries; one table is dropped, none is created or altered.
* Two server processes that share a cache directory: one process is modelled,
  in which the write and the replacement of the file run without suspension.

## 6. Plan

Done, in this order: the server with its contract, the connection gate, blocking
calls, the explore cache, blocking connects; the lines of the input, large values,
the sessions of PostgreSQL and Oracle, the socket of SQL Server, the transfers of
S3; the ten object trees and the search; diagrams up to their placement. The proofs
of the first five, of the PostgreSQL session, of the parts of a connection and of
diagrams from their discovery to their placement, and the step simulation of the
server's contract.

To come:

1. The routes of a diagram as a relation: paths that avoid boxes and each other,
   against which the search can be checked on small grids.
2. The trees and the search without recursive operators, so that what is listed can be
   proved to be found.
3. Composition in one behaviour: a gate whose calls are blocking calls, so that a
   cancel is followed from the dispatcher to the worker.
