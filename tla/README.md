# NAPASTAK in TLA+

A verification project for the gateway of NAPASTAK ("DataFlow OS"): a C server that keeps tables
in append-only logs, runs SQL over them, runs pipelines on a schedule or on events, talks to
external systems through connector plugins, and optionally replicates its logs to storage nodes.
Line numbers are those of the repository; `api.c` and `main.c` are in `src/gateway/`, the other
files in `lib/`.

## 1. Inventory

### The processes and threads

The gateway is one process. Its threads are: the accept loop; one detached thread for each HTTP
connection (at most a fixed number), which runs a handler of `api.c` from start to end; the worker
pool (`tp_create`), which runs pipelines handed over by handlers; the scheduler's cron loop; the
file watcher; the connection ticker (`conn_ticker_loop`); the materialized-view ticker; the audit
writer; the replicator's sender; the PostgreSQL wire server with a thread for each connection. They
share `g_app`: the transaction manager, the map of open tables, the registry of pipelines, the
connector pool and the catalog (SQLite behind one mutex). Other processes are the storage node, the
MCP server and the Arrow Flight server, the last two stateless clients of the HTTP interface.

### Components

| Component | State | Operations | What is hard | What makes it correct | Model |
|---|---|---|---|---|---|
| Transactions (`storage/txn.c`, handlers in `api.c`) | a fixed array of slots: id, status, entries, arena; `next_id`; gauge | begin, buffer insert/delete/update, commit, rollback, time-out check | commit works on the slot after it has released the mutex; ids are client input | an id is applied once, as it was buffered, or not at all; an open transaction keeps its slot | `TxnManager` |
| Connector pool (`connector/conn_pool.c`) | slots: connection, fingerprint, session, leased | acquire, release, invalidate, tick, destroy | sessions are opened and pinged with the mutex released; one condition variable | one user for a session, the right configuration, no stale session kept, no lost wake-up | `ConnPool` |
| Directory of connections (`api.c`) | records in the catalog: settings with secrets, a disabled flag | create, open, edit, save, enable, disable, delete, sweep | forms carry masks instead of secrets; load and save without a lock; the sweep works on a snapshot | a secret is one that was typed; a run's session is that of the directory | `Connections` |
| Worker pool (`core/threadpool.c`) | queue, active count, shutdown flag, two condition variables | submit, wait, destroy | two kinds of waiters on one condition variable; shutdown | no lost wake-up, no lost task, wait means quiet | `ThreadPool` |
| Pipeline runs and scheduler (`scheduler/*.c`, handlers) | array of pipelines with `run_status`; catalog copy; queued copies | run (async, wait), webhook, file arrival, cron, create, delete, finish | pointers into a compacted array kept after unlock; unlocked check of the status; runs under the mutex | a run is executed once, for the pipeline asked, and its end is recorded | `PipelineRuns` |
| Pipeline steps (`api.c`, `mssql`, `pg`) | stage tables, watermark files, the sink | connector, transform and sink steps, retries | failure and crash between any two writes; paging | rows are carried over once, in order; the sink gets the table | `PipelineSteps` |
| Dimensions and matching (`api.c`) | history table, scratch table; pairs | SCD2 step, match step | whole-table rewrites, ceilings, late rows; asymmetric metrics | one current version of a key; scores that do not depend on order | `Dimension`, `MatchStep` |
| Kafka connector (`plugins/kafka/`) | consumer, the group's offset | open, describe, read a page, commit | the commit comes before the append; sessions and offsets get lost | each message passed is in one successful run, or is accounted for | `KafkaSource` |
| Tables and their log (`storage/storage.c`, scan and DML in `api.c`) | `wal.bin` of each table, open handle, indexes | append, tombstones, scan, DML walk, compaction, recovery | appends are two writes without a lock of their own; DML scans the log it appends to; crashes | a query returns what the answered statements made of the table; answered rows survive | `TableLog` |
| B-tree index (`index/btree.c`, index path in `api.c`) | page file, `Index` of a table | create, insert, range, read through | splits, equal keys across siblings, tombstones, files reopened after a crash | a range is the set inserted; an answer by the index is the scan's | `IndexedTable` |
| Column compression (`storage/compress.c`, CSV lines in `storage.c`) | a batch of a log | encode, decode | bounds of the encodings; NULL and '' | what is read is what was written | `CellValues`, `StoredRows` |
| Query executor (`api.c`) | none between statements | SELECT with all its clauses | NULL as a text, joins that pad, slots of aggregates, ceilings | the relational definition, or a mark that the answer was cut | `SelectQuery` |
| SQL parser (`sql_parser/sql.c`) | none | parse, plan | precedences, what is dropped without an error | a tree comes back as printed | `SqlGrammar` |
| Query engine library (`qengine/qengine.c`) | operators over batches | build, next | empty batches, LIMIT at the edge of a batch | the relational definition | `VolcanoPlan` |
| PostgreSQL wire (`pgwire/pgwire.c`) | per connection: statements, portals, error flag | startup, simple and extended query | slots that are reused while portals point at them; message order after an error | the protocol | `PgWire` |
| Materialized views (`matview/matview.c`) | views, stale marks, a queue | refresh, invalidate, tick, drop | invalidation during a refresh; views over views | a view that is not stale is current; a stale one is refreshed | `MatView` |
| Replication (`cluster/*.c`, `storage_node/main.c`) | bounded ring of records, connections to replicas, replica's log | enqueue, send, acknowledge | overflow, lost connections, ignored error answers, restarts | a replica's log is a subsequence of the leader's; what is missing is known | `Replication` |
| Catalog (`storage/storage.c`) | SQLite | save/delete of schemas, pipelines, connections | handlers read, edit and save in separate calls | agrees with the registry | inside `PipelineRuns`, `ConnPool`, `Connections` |
| File watcher (`scheduler/file_watcher.c`) | inotify descriptor, watches | arrival, re-scan | non-blocking reads, pipelines added later | each arrival triggers once | triggers inside `PipelineRuns` |
| Cron expressions (`scheduler/scheduler.c`) | none | parse, next | calendar boundaries | next is the least matching minute | not modelled |
| HTTP server, WebSocket (`net/http.c`) | connection count, subscribers | accept, handle, broadcast | limit counter shared by threads | the limit holds, nobody is sent to after it left | not modelled |
| Gateway start and stop (`main.c`) | all of `g_app` | init, stop | detached threads during stop | nobody uses what is freed | the end of `ThreadPool` |
| Audit (`auth/audit.c`) | queue | enqueue, flush | full queue | nothing reported is lost | not modelled |
| Authentication, roles; metrics; templates; YAML; core data structures; other plugins; TLS; MCP; Flight; UI; SDKs; services and scripts | | | sequential computation, external clients, or wrappers | | not modelled |

`PROJECT.json` lists them all under "components", and under "hazards" the places, each at its line,
where this code is hard to test.

### How the modelled parts interact

A query handler calls `txn_*` and, outside a transaction, writes the table's log itself. A COMMIT
applies its entries to the logs. A run handler copies a pipeline into a task and gives it to the
worker pool; the task writes the result back through the scheduler's mutex. A step of a run takes
its connection's settings from the directory, lays them over its own and leases a session from the
connector pool; the pages it reads go into a stage table, and writing that table makes the views
that read it stale. The directory handlers save the catalog and then invalidate the pool; the ticker
warms up sessions from a list it has read. A statement of a PostgreSQL client is put together from
its portal and goes the way of an HTTP query: parser, executor, tables. Every append to a log is
handed to the replicator. `app_stop` ends the threads in order and then frees the pools.

## 2. Modules

| Module | Models | Kind |
|---|---|---|
| `TxnManager` | `storage/txn.c`, transaction branches of `h_query`, `h_ingest_csv`, `exec_stmt`, `apply_txn_entry` | state machine, theorems in `TxnManagerProofs` |
| `ConnPool` | `connector/conn_pool.c`, `step_conn_open/close`, directory handlers, ticker | state machine, theorems in `ConnPoolProofs` |
| `Connections` | the directory's handlers, `conn_save`, masking and merging, `step_effective_connector`, `api_conn_pool_maintain` | state machine, theorems in `FeedsProofs` |
| `ThreadPool` | `core/threadpool.c` | state machine, theorems in `ThreadPoolProofs` |
| `PipelineRuns` | `scheduler/scheduler.c`, `file_watcher.c`, run/webhook/create/delete handlers, `run_task_fn` | state machine, theorems in `PipelineRunsProofs` |
| `PipelineSteps` | `pipeline_execute_steps_internal`, connector, transform and sink steps, paging of `mssql` and `pg` | state machine, theorems in `StepsAndWireProofs` |
| `KafkaSource` | `kafka_connector.c`, Avro records, its runs | state machine, theorems in `FeedsProofs` |
| `Dimension` | `run_scd2_step`, `write_rs_to_table` | state machine, theorems in `FeedsProofs` |
| `MatchStep` | `run_match_step`, the metrics of `qengine.c` | algorithm, a step that asks it |
| `TableLog` | `wal_append*`, `table_append/delete/update/compact`, `load_tbl`'s full scan, `exec_stmt`'s DML walk, ingestion | state machine, theorems in `TableLogProofs` |
| `IndexedTable` | `btree.c`, `table_create_index`, index path of `load_tbl` | state machine |
| `CellValues`, `StoredRows` | cells of the executor; `compress.c`, CSV lines of a log | operators |
| `SelectQuery` | `exec_select` and what it calls | algorithm over `StoredRows` |
| `SqlGrammar` | `sql.c`: every rule of the descent | algorithm |
| `VolcanoPlan` | `sql_plan`, `qengine_build`, the operators, `eval_expr` | algorithm |
| `PgProtocol`, `PgWire` | what a client may rely on; `pgwire.c` with the callbacks of `main.c` and `api.c` | abstract, and its refinement, theorems in `StepsAndWireProofs` |
| `MatView` | `matview.c`, `matview_exec_fn`, the ticker | state machine, theorems in `FeedsProofs` |
| `AsyncShipping`, `Replication` | what shipping promises; `replicator.c`, `storage_client.c`, the storage node | abstract, and its refinement, theorems in `ReplicationProofs` |
| `MC*` | each of the above, for TLC; `MCFrontEnds` and `MCFeeds` put several into one run | instances, symmetry, mixes |

The modules that `MCFeeds` and `FeedsProofs` extend side by side give their specifications names of
their own: `KafkaSpec`, `DimSpec` and `DirectorySpec` stand where other modules have `Spec`. For the same reason
(`MCFrontEnds`, `StepsAndWireProofs`) those of `PgWire` are `WireInit`, `WireNext` and `WireSpec`.

### TxnManager

One action for each critical section of `tm->mu`. `Begin` takes any free slot (`FreeSlots`: every
slot that is not ACTIVE), `Buffer` appends an entry to the slot `FindSlot` finds, `Rollback` and
`TimeoutCheck` empty it. COMMIT is a small program of its connection thread: `Commit` marks the slot
COMMITTED and keeps its index (the code keeps a pointer), `ReadEntry` reads the entry of the slot
and looks up the table, `WriteEntry` applies it or fails, `Cleanup` destroys the arena and clears the
id of whatever is in the slot by then. Entries are abstracted to who buffered them, their place and
their table. Reading an entry of a slot whose arena another commit destroyed gives `Garbage`.
History variables record what each id buffered (`buffered`), what was applied on its behalf
(`applied`), how it ended (`fate`), and whether another transaction was put into its slot or a table
dropped under it (`exposed`).

### ConnPool

A slot is a record (connection, fingerprint, session, leased, used). `Acquire` is one scan under
`p->mu`: it frees out-of-date idle slots as it passes them, and then takes a live session, reopens a
dead one, opens a new one, evicts, gives up or waits. Opening (`SlotOpen`, `OpenDone`) and pinging
(`PingStart`, `PingDone`) are split where the code releases the mutex. `Resolve` reads the catalog
before the pool is asked, `EditConnection` and `Invalidate` are the two calls of the directory
handlers. A fingerprint is what `cfg_fingerprint` tells apart: the entry's version and the step's
overlay. Throttling, idle times and least-recently-used order are free choices, so every outcome of
the clock is covered.

### ThreadPool

`waiting` holds the threads inside `pthread_cond_wait`; a signal removes any one of those that wait
on that condition variable, a broadcast all. `Take` signals room, `Finish` broadcasts when the pool
is idle, `Block` and `Enqueue` are `tp_submit`, `WaitStep` `tp_wait`, `Shutdown` and `Free`
`tp_destroy`.

### PipelineRuns

The registry is the array with its count; a pointer is an index that stays readable after the array
was compacted. Every request or trigger is a thread with a place in its handler: `FindPipeline`
under `s->mu`, `Check` and `MarkRunning` through the pointer without it, `CopyAndSubmit`, `ExecStart`
and `ExecEnd` around the steps, `RunNow` which executes under `s->mu`, `FinishRun`, `Remove`, `Add`,
`Catalog`. Cron (`CronLock` to `CronUnlock`) executes its due pipelines one after another with `s->mu`
held. `owed[id]` counts accepted runs minus executions.

### TableLog

The log is the sequence of what `write(2)` put into it: a length, then a record. Two threads that
append at once can therefore tear each other's records, as in the code: `wal_append` has no lock, and
ingestion calls it without `tables_mu`. `WriteLength` and `WriteData` are the two writes. A
statement is a thread's record: what it wants (`want`), where its scan is (`pos`, `end`), the offsets
it found dead, what it has still to write. `DmlOpen` takes the log's size and the dead offsets,
`DmlRow` marks a matching row at once (debug format, one record for each row), `DmlBatch` queues a
batch's tombstone and its rows (release format), `DmlFlush` writes the queue under `tables_mu`. The
reader's two passes are `ReadTombstones` and `ReadRows`. `Compacted` is what `table_compact` makes of
a log. `Crash(n)` keeps any prefix of the log that contains what `fdatasync` made durable.

A row is an id, which WHERE selects, the statement that gave it its value, and the text its other
cells read as. `table_append` quotes a text that would read otherwise (`storage.c:303-362`), a DML does
not: it prints the rows it changes, and the untouched rows of their batch, with `%s` and commas between
(`api.c:3380-3389`, `3454-3462`), so that a comma cuts, an empty text or `NULL` reads as NULL and a quote
begins to count. `Printed` is that conversion, `Reread` what it makes of each text; the instance has a
text that is cut and one that is not read at all: a NULL is printed as its sentinel, whose first byte is
that of a batch, and a record that begins with it (`Mistaken`) is unpacked as a batch and yields
nothing. Readers also differ in the longest record they take: `load_tbl` 16 MiB (`api.c:1631`), the walk
of a DML and compaction 262143 bytes (`api.c:3245`, `3273`; `storage.c:427`, `465`). How long a batch's
record gets depends on its cells, so an ingestion chooses freely between "batch", "wide" and "huge".
`Loaded` and `Walked` say who understands what; compaction drops what its buffer does not hold.

Where lengths and records no
longer alternate, the code reads data as a length and skips by it; the model's reader stops there. So
the model does not show the rows such a reader may come upon farther on, and the invariants that
compare contents exclude torn logs, except `SyncedRowsSurvive`, which is about the records before the
tear.

### Connections

A setting is a function from keys to values; a key is a name with a spelling, because
`conn_cfg_get_canon` treats `sasl.password` and `sasl_password` as one. A request is a job that stops
where the code calls the catalog or the pool: `Ask`, `Load`, `Save` (the whole of `conn_save`, then
`InvalidateSessions`), `Reload`, `AcquireNow`, `Opened`, `Release`. `Sweep` takes its list once and `WarmUp`
goes on with the list it has. `Effective` is the merge of the directory's settings over those of a
step. `typed` is the history of what an operator entered for a connection. The pool is reduced to its
sessions: places and waiters are in `ConnPool`.

### PipelineSteps

A row is its key; tables, watermark files and the sink are sequences that survive a crash. A run is
one record that goes through `Dispatch`, the attempts of a step and their pages, with one action per
page read, per batch written, per statement. `MayFail` lets every call to an external system fail and
`Crash` falls between any two actions. The attempts, the delays and their budget, the dependencies'
topological order and the precedence of the fields of a step are the code's. `Edit` stands for the
statements of others on the tables a run uses.

### KafkaSource, Dimension, MatchStep

`KafkaSource`: one partition; a message is the fields it carries and the schema it names. `Describe`
consumes a message to see its fields, `ReadBatch` fetches a page, `Commit` commits the group's offset
behind it, and `AppendPage` writes it to the stage; between them a run may fail, the session be lost and retention
remove what is not read. `told`, `skipped` and `again` are history: in how many successful runs a
message was, and which the reader was moved past or back over. `Dimension`: a version is a key, its
values, its times, its number and its flag; a run reads the source into its scratch table, rebuilds
the history and writes it again, dropping the table first, in batches. The rebuilt history is a result,
and `rs_add` drops what is above `MAX_RS_ROWS` (`Capped`); that it did (`cut`) is not asked before the
target is dropped, and the run answers well. `MatchStep`: a text is a
sequence of code points; the edit distance is computed with two rows as `qe_levenshtein` does,
Jaro-Winkler greedily as `qe_jaro_winkler` does, trigrams of the first row only as
`qe_word_similarity` does. A fraction is a pair of integers. The pairs found are cut at the same ceiling
(`Matches` of `Found`).

### IndexedTable

An insertion is computed as the sequence of page writes the code makes, so that a process that dies
leaves a prefix of them. `LeafMax` and `IntMax` are the fan-out; two of each make leaves and inner
nodes split. The offsets of the log are places of records; the index path reads what the tree returns.

### StoredRows, CellValues, SelectQuery

A cell is a number, a text by its place in the order of `strcmp`, or NULL; the executor's conversions
between cell, text and number are those of `val_cell`, `val_str` and their like. `StoredRows` encodes
a column as `choose_encoding` picks and decodes it again, or writes and splits a line of CSV.
`SelectQuery` executes a statement, a record as the parser builds it, over stored tables in the order
of the code: the nested loops of joins, the streaming scan, groups with slots for their aggregates,
windows, DISTINCT, order, page, ceiling. The reference definitions at its end are set-theoretic.

### SqlGrammar, VolcanoPlan

`SqlGrammar` is the descent over tokens, with errors, and with what `lex_eat` silently passes over;
`Words` prints a tree, and the property is that parsing inverts it. `VolcanoPlan` gives each operator
as the batches it will deliver, cell memory and null bitmap apart, because the code writes one and
not always the other; a cell nobody wrote holds `leftover`. `Served` names the questions the engine is
up to, section 5 the others.

### PgWire, PgProtocol

`PgWire` has one action per message of the protocol, from the start-up packet and the password on.
Statements and portals stand in slots; a portal
points to the slot of its statement, as in the code, so that parsing a name again, or closing it,
changes what the portal will run. `PgProtocol` has maps by name and no slots, and allows a portal to
follow its statement, but never to change its values, nor to run anything while a batch is skipped; a
message that fails, an Execute the engine refuses included, has the rest of its batch skipped.
`handle_execute` does not look at what its callback answered (`pgwire.c:716`): that one step,
`BatchGoesOn`, is named beside the protocol in `KeepsTheProtocol`, and `FailureSkipsTheRest` in section 5
is the promise without it. The refinement reads a text as the SQL standard does, where a doubled quote
is one (`Undoubled`), since that is what the wire server hands over; that the engine's lexer does not
read it so is `BoundValuesArrive`. `Doubled` is what `xq_append_value` makes of a value. The refinement maps a name to the text of its slot (`TextUnder`), a portal to the text of the slot it
points at and its values (`BoundUnder`). `Texts` is any set of statements with a verb of `Verbs` and a
literal of `Forms` (`WireAssumption`).

### MatView

The content of a table is the number of the write that filled it, of a view the contents it was made
from. `StartWrite`, `RecreateTable`, `AppendRows`, `Invalidate` and `Enqueue` are the parts of a write that
calls `mvs_invalidate`, `OtherWrite` is one that does not (DML, ingestion, a connector's append). The
queue of refreshes, the stages of a tick and the steps of a refresh are separate actions, as they are
outside the mutex. `muddled` is history: views whose refresh overlapped a write, another refresh or a
crash.

### Replication, AsyncShipping

The ring is a sequence of bounded length, the worker goes from "ready" to "asleep", "sending" and
"waiting", a connection is the leader's end of it ("stale" when it is broken and nobody noticed yet), the
node appends and answers. A connection breaks when the node dies (`NodeCrash`), and also while both
processes live (`ConnectionBreaks`): its message and an answer on its way may each be lost or not. The
node runs a thread for each connection (`storage_node/main.c:211-220`), and the one of a broken connection
still reads what it was sent, so `wire` is a set of messages that the node may handle in any order. The
worker notices at its next call (`SendFails`): a record it could not send is in `missed`, one that it
gives up while the node can still read it is in `late`, and it reconnects with the next record.
`LeaderRestart` begins another life with an empty ring. The refinement maps the records a standby applied
to `AsyncShipping`'s deliveries: gaps, but no repetition, and no reordering within one life of the leader
but for a record that was given up (`GiveUp`), which may come after newer ones.

## 3. Runs

All runs use the specification of the module unchanged; constants are given in the `.cfg` or, for the
parser and the plans of `FrontEnds` and the match step of `Feeds`, in the instances of their MC module. Deadlock is not checked, because every
counter of the models is bounded and behaviours therefore end.

| Run | Instance | Shows | States |
|---|---|---|---|
| `TxnPool` | 2 threads, 2 slots, 2 ids, 2 entries, 1 table, ticker on | `OneCommitter`, `CommitAppliesWhatWasBuffered`, `OpenTxnIsKept`, `NoBufferingAfterCommit` | 430 thousand |
| `ConnPoolLease` | 2 threads, 2 slots, 2 connections, 2 overlays, 1 edit, 1 per connection, 2 requests | `LeaseIsExclusive`, `LeasedSessionIsTheOneAskedFor`, `InvalidatedLeaseIsNotPooled`, `EveryRequestEnds` | 133 thousand |
| `WorkerPool` | 2 workers, 3 submitters, 1 caller of `tp_wait`, queue of 2, 4 tasks | `WaitReturnsWhenQuiet`, `AcceptedAreExecuted`, `EveryCallReturns` | 38 thousand |
| `RunsSettle` | 2 pipelines, 2 connection threads, cron, watcher, registry of 3, 2 requests, three mixes | `NoPipelineStaysRunning`, `AcceptedRunsOnce`, `EveryRequestAnswered` | 48 thousand |
| `TableLogRows` | 2 threads, 2 rows, 4 texts, 3 statements, 1 crash, both builds | `OncePerStatement`, `TableIsWhatWasAnswered` (with `CompactionKeepsRows`), `SyncedRowsSurvive` | 118 thousand |
| `IndexRange` | fan-out 2, 5 keys, 5 records, 1 tombstone or crash, both builds | `RangeIsExact`, `IndexAnswersAsScan` | 103 thousand |
| `Replication` | 2 writers, 2 replicas, ring of 1, 3 records, 2 faults | `StandbysFollow` (`NothingVanishes` and `OffsetsMatch`), `ShipsInOrder` (refinement), `WorkerCatchesUp` | 678 thousand |
| `Steps` | 5 pipelines, batches of 1, sink pages of 2, 3 source rows, 2 runs, 2 faults, 1 edit | `EachRowOnce`, `StageIsWhatWasRead`, `SinkGotTheTable`, `EveryRunEnds` | 301 thousand |
| `Queries` | 2 tables, batches that meet every encoding at bounds of 2 to 4, 9 rows at most, statements of six kinds | `ReadsBack`, `AnswerIsTheReference` (rows, groups, windows), `PageOrSaysSo` | 3 thousand |
| `FrontEnds` | a PostgreSQL client with 3 names on 2 slots and 1 portal, a value with a quote; expressions of three operators and each clause; 18 plans over batches of 2 | `KeepsTheProtocol` (refinement), `ParsesWhatWasPrinted`, `VolcanoAgrees` | 73 thousand |
| `Feeds` | a view on a view; 3 Kafka messages, 2 troubles; 5 snapshots, ceiling 4, 1 crash; texts of up to 6 code points; 1 connection, 2 clients, 3 jobs | `FreshIsCurrent`, `OnWriteViewsCatchUp`, `MessagesAccounted`, `OneCurrentVersion`, `DimensionFollows`, `PairsScoredRight` (`DistanceIsLeast` and `AnyOrderMatches`), `SecretWasTyped`, `RunsUseTheDirectory` | 185 thousand |
| `TxnSharedSlot` | 1 thread, 2 slots | refutes `CommitUsesItsOwnCopy` | |

In `FrontEnds` and `Feeds` the parts do not interact: `part` is chosen at the start, and the others
rest. They are put together because each answers questions about one hand-over between a client or a
source and the tables, and each alone is small.

**The bounds and why they are enough.** Two threads suffice for every race here, because each race is
between the owner of a slot, a lease, a pointer or a scan and one other; two slots let one be reused
while another is in use, and the pool fill up. Two ids in `TxnPool` let the second BEGIN take the slot
of a transaction whose commit is under way. The connector pool needs two connections, for evictions,
two overlays and an edit, for fingerprints that differ in either. The worker pool needs two workers
(one signal, two sleepers), a queue of two (so that "not empty" and "not full" differ from "empty" and
"full") and submitters that fill it beside one that waits. Two requests on the registry are a run and
what disturbs it; `mix` restricts which kinds meet in one behaviour, chosen at the start. In
`TableLogRows` three statements are an ingestion and two that meet on it, two rows make a batch with a
row that matches and one that does not; one of the two has a text that is cut when it is printed, the
other one that is then not read, and each batch is of every length. A fan-out of two splits leaves and the root with the third key
and an inner node with the fifth. A ring of one overflows with the second record; two faults are a
node that dies and the leader that restarts, or a connection that breaks twice; one break and three
records are enough for an older record to come after a newer one. A history of more than four versions
is cut, and the snapshots make such. In `Steps` three source rows
are more than a page, a run of two pages and one more after it; two faults are a failed attempt and a
failed retry. `Queries` puts every bound of the code (256 codes, 65535 runs, 100000 rows) at 2 to 9, so
that the instance has columns on both sides. Two slots for three names make a client run out, one
portal makes a second one fail. Three messages are two pages. The counters `MaxTxn`, `MaxVersion`,
`MaxRequests`, `MaxTasks`, `MaxRows`, `MaxPerIngest`, `MaxStatements`, `MaxCrashes`, `MaxRecords`,
`MaxMishaps`, `MaxFaults`, `MaxSource`, `MaxRuns`, `MaxEdits`, `MaxBatches`, `MaxEvents`, `MaxTrouble`,
`MaxTime`, `MaxJobs` and `GaugeFloor` only bound behaviours; they stand for nothing in the code.
Symmetry is used for threads in `TableLogRows` and for names in `FrontEnds`, in runs without liveness.

**Fairness.** `ConnPool`: a step that leased a session returns it, an opening or a ping ends, the second
half of a directory edit is done; a thread that is woken up again and again while it could be served is
served (strong fairness: POSIX mutexes do not promise it, the schedulers under them provide it).
`ThreadPool`: each thread that can step does; tasks end. `PipelineRuns`: each thread goes on, and a
thread that finds `s->mu` free again and again gets it at last (strong fairness, for the same reason).
`Replication`: the worker and the threads of a node that is up go on; nothing is asked of a node that
died. This takes it that a broken connection is noticed: `connect` and `recv` have no time-out
(`storage_client.c:34-57`, `proto.c:28-41`), so the worker waits for ever on a host that vanishes without a
reset; the model has processes that die and connections that break, not such hosts. `PipelineSteps`: a run goes on, and an external call answers or fails. `MatView`: a thread goes on
and the ticker's loop comes round. No fairness is assumed of clients: nobody has to send a request.
`TxnManager` states fairness for the time-out check, which nothing in the repository calls; no run uses
it (section 5).

**Provisos in properties.** Some invariants hold with a proviso, because the code does not hold without
it; the proviso is a history variable or a named condition, and the stronger form stands in the module
with the divergences of section 5. `exposed` (TxnManager) excludes transactions whose slot was given
away during their commit: `TxnSharedSlot` shows that this happens. `raced` and `Sound` (TableLog) exclude
two DMLs that overlap on a row or batch, and logs torn by simultaneous appends. `Stored` is what the log
has, records that `load_tbl` is too small for included; `TextsAsFarAsPrinted` lets a row that a DML wrote
again read as its unquoted cells do, and no other; `Compactable` are the records that compaction's buffer
holds and that read the same on their own. `Untroubled` (Replication) excludes standbys that missed a
record, and those on the way to which one was given up (`late`). `EachRowOnce` is about runs without faults.
`PagesAsAsked` is about connectors that page by key when a step is incremental and by offset when it is
not, and that describe their columns; `SinkGotTheTable` says nothing of LIMIT 0, with which nothing is
written; `Feeds` names the pipelines `EachRowOnce` is about: a source by key and a sink that appends all.
`muddled` and `failed` (MatView), `skipped` and `again` (KafkaSource), `PicksAreOpen` and `cut`
(Dimension), `AllFit` (MatchStep, for the order of the candidates alone) and `Served` (VolcanoPlan) say what the code does not look after.

## 4. What is proved

Checked by TLAPS for every value of the constants that satisfies the named assumptions
(`PoolAssumption`, `ConnPoolAssumption`, `ReplicationAssumption`, `ThreadPoolAssumption`,
`PipelineAssumption`, `TableLogAssumption`, `StepsAssumption`, `KafkaAssumption`, `DimensionAssumption`,
`ConnectionsAssumption`, `WireAssumption`, and `MatViewAssumption`, for which see below: snapshots of a source are
sequences of rows whose times are naturals; the keys of a setting have one of the three spellings; a statement
of a PostgreSQL client has a verb and a literal of the model, and a loaded row is a sequence of cells; doubling
the quotes of a value is injective (`DoubledAssumption`); printing takes a text to a text, of which some
read as a batch; bounds are naturals, the null values are not members of the sets beside them, threads of different
kinds are different; where a proof counts, that workers, callers and connection threads are finitely many,
as threads of a process are, and that the array holds the pipelines loaded at the start). Each invariant
below is inductive; those of `TableLogProofs`, `StepsAndWireProofs` and `FeedsProofs` were checked by TLC
on small instances before they were proved.

`TxnManagerProofs`

- `TypeCorrect`: `Spec => []TypeOK`. `TypeOK` alone is not inductive: `WriteEntry` needs that a commit
  under way points into the pool and inside the entries array. `TypeInv` adds `CommitterInRange`.
- `OneCommitterHolds`: `Spec => []OneCommitter`. The inductive invariant `CommitInv` adds to `TypeInv`
  that an id stands in one slot only (`IdHasOneSlot`), that a slot marked ACTIVE belongs to an open
  transaction (`ActiveIsOpen`), and that ids not yet given out are nowhere (`IdsAreFresh`). Without the
  first, a second COMMIT could find a second slot of the same id.
- `NothingBufferedAfterCommit`: `Spec => NoBufferingAfterCommit`, an action property, from `CommitInv`
  and the lemma `FoundIsOpen`.
- `OpenTransactionIsKept`: `Spec => []OpenTxnIsKept`, and `CommitAppliesItsBuffer`:
  `Spec => []CommitAppliesWhatWasBuffered`. The inductive invariant `KeptInv` adds to `CommitInv` that the
  slot of an open transaction, and of one that is being committed, holds its id, its arena and every entry
  it buffered, unless the transaction is exposed (`OpenIsHeld`, `CommitterHolds`); that a committing thread
  has applied as many entries as its loop has passed and carries the one it is at (`Progress`); that an
  entry names who buffered it (`OwnEntries`), which is why the payload read is the payload written; and
  that what was applied is nothing before the commit and a prefix afterwards (`NotYetApplied`,
  `AppliedIsPrefix`). Where a slot was shared, both owners are in `exposed`: `CommitterHolds` says that
  nobody else's transaction can then be destroyed by the clean-up. The bounds of TLC on slots, threads,
  entries and ids are absent here.
- `DiscardedStaysOut`: `Spec => DiscardedNeverApplied`, an action property, from the same invariant: an
  entry applied names its committer (`AppliedIsPrefix` with `OwnEntries`), and nothing is applied for what
  is over without a commit (`NotYetApplied`). No run checks it.

`ConnPoolProofs`

- `TypeCorrect`: `Spec => []TypeOK`.
- `LeaseExclusive`: `Spec => []LeaseIsExclusive`. The inductive invariant `Inv` says that a holder's slot
  is leased, that a slot has one holder, a thread or the ticker, and that a leased slot has one
  (`Leases`), that a waiting or holding thread's request is complete (`RequestIsComplete`), and that a
  session's fingerprint is either dead or its own (`Sessions`). The last is needed because a scan decides
  by fingerprint and hands out the session.
- `LeasedSessionIsRight`: `Spec => []LeasedSessionIsTheOneAskedFor`, from the same invariant.
- `DoomedLeaseCloses`: `Spec => []InvalidatedLeaseIsNotPooled`. `Closed` says that the slot of a doomed
  lease carries no fingerprint and nobody pings it or opens a session in it, and the slot of a failed
  opening has no session: between the invalidation and the release others ping, open, scan and evict.

Each action has a lemma that it preserves the invariant; the slot and lease bookkeeping is in the lemmas
`LeasesKept`, `LeaseTaken`, `LeaseReturned`, so the action lemmas only say which of the three happens.

`ReplicationProofs`

- `ReplicationTypes`: `Spec => []TypeOK`; `ReplicationFollows`: `Spec => []StandbysFollow`, which is
  `NothingVanishes` and `OffsetsMatch`. The invariant says where each record handed to the callback is:
  applied, dropped, missed, or still awaited in the ring, in the worker's hands or on the wire
  (`Accounted`); that the ring and the worker's item carry records of this life in their order
  (`Queued`); that at most one message of a life is under way to a standby, and of this life only the
  one the worker waits for, unless it was given up (`Wired`); and that what a standby has is older than
  anything of the same life still to come that was not given up (`WireIsNewer`, `RestIsNewer`).
- `ReplicationShips`: `Spec => ShipsInOrder`: each step of `Replication` is a step of `AsyncShipping` or
  leaves its variables alone. `WireIsNewer` is what a delivery needs (`HandleDelivers`), and a record on a
  wire that its worker gives up follows all that the standby has (`FollowsAll`, `FailureGivesUp`).
  `ConnectionBreaksKeeps` is the case of two processes that live: what is lost is missed, what is not
  stays on the wire, and only the failure of the worker's next call makes it late.

`ThreadPoolProofs`

- `PoolTypes`, `WaitersSeeQuiet` (`Spec => []WaitReturnsWhenQuiet`), `AcceptedAreDone` (a freed pool has
  executed all it accepted) and `WakeupsAreNotLost`. The last is the safety behind `EveryCallReturns`:
  a signal of `cond_work` is sent for each task and one of `cond_idle` for each place, so while a worker
  sleeps there are at least as many workers awake at the top of their loop as tasks in the queue
  (`WorkCovered`), and while a caller of `tp_submit` sleeps and nobody drains, as many callers awake
  inside it as places (`RoomCovered`). `active` is the number of workers with a task (`ActiveCounts`), which
  `tp_wait` relies on.

`PipelineRunsProofs`

- `RunsTypes`; `NothingStaysRunning`: `Spec => []NoPipelineStaysRunning`; `RunsOnce`:
  `Spec => []AcceptedRunsOnce`. In behaviours without removals the place `scheduler_find` returned remains
  the first with that id (`Denoted`), each RUNNING place has a thread or a task that will set its status
  (`Settled`), and `owed` is the number of threads and tasks on their way to an execution (`Owing`).
  `Settled` says nothing of behaviours with `wait=true` runs or removals, `Owing` of those with webhooks
  or removals: there the code leaves pipelines RUNNING, or runs them twice (section 5).
- `OnlyDeletesRemove`: `Spec => OnlyItsDeleteRemoves`, an action property: the compaction of the array by
  a DELETE takes out entries of its id and no other, whatever pointers other threads hold. No run checks it.

`TableLogProofs`

- `LogTypes`: `Spec => []TypeOK`, with the shape of records (`LogRec`): of a row or an UPDATE's tombstone
  one row, of a batch no row twice.
- `RowsSurvive`: `Spec => []SyncedRowsSurvive`. `Debug` says that a row has one record (`OneRecord`), that
  each tombstone, in the log or still in a statement's hands, names a record before it, whose row it
  carries or a DELETE has counted (`Marked`), that an ingestion has each of its rows in the log or
  still to append (`Ingested`), and that an answered row has its record before `synced` (`Durable`). A
  crash cuts behind `synced`; a torn record stops a reader behind it; neither can therefore hide an
  answered row, and a tombstone that does is an UPDATE's, which gives the row itself, or a DELETE's.
  That a row of a reader's log is found through a chain of UPDATEs needs no induction: an UPDATE's
  tombstone names the row's one record. A row whose own text reads as a batch is excepted. `Worded` says
  what the rows of a record read as: as ingested in a record that no DML wrote, and otherwise as a text
  that printing makes of it, any number of times (`Rewritings`).
- `CountsOnce`: `Spec => []OncePerStatement`. In the debug build from `OneRecord`. In the release build,
  until two DMLs have overlapped: of two records of one row the earlier has a tombstone before the later
  (`Superseded`), so that every prefix of the log has one record of a row that is not marked; the scan
  has found the tombstones that were there when it opened, and the others are its own and name records
  it has passed (`TombstonesSeen`); what it has still to write gives each row once, behind the tombstone
  of its record (`RowsOnce`, `Behind`); and the record at the end of its range is complete or its own
  (`Began`). Ingestions may append between any two steps, and tear the log.
- `TableAnswers`: `Spec => []TableIsWhatWasAnswered`, in both builds. The entries of the table are the
  records a reader of the log finds and what the statements have still to append; every step maps the
  entries after it to those before it (`Carries`, `Onto`), a write by moving the head of a queue to the
  log, and only a step of an ingestion or of a DML's scan makes new ones (`IngestAdds`, `Remakes`).
  `Marking` holds until two DMLs overlap: a tombstone, written or queued, names a row record that a
  reader finds before it (`Named`) and that no other tombstone names (`OneTomb`), since each statement
  knows of the tombstones of all the rows it is after (`Seen`) and concurrent ones are after different
  rows (`Apart`). `AnsweredOnce` adds, without crashes and torn records, that a row is given by at most
  one entry (`OneBearer`), with the value that the DML which has counted it gives, or else the answered one
  (`Right`), and that a row that should be there is (`Total`). At rest all entries are in the log, and
  what they bear is what is stored (`QuietAnswers` about `Stored`); a query returns that of it which
  `load_tbl` reads (`Contents`), with texts as `Worded` has them (`TextsFollow`). That a DML passes over a
  record it cannot hold (`Walked`) is no obstacle: it counts no row of it, and so changes no answer.
  `Compacted` of a marked log has lengths and row records in turn, with the rows of those records that
  its buffer holds (`CompactionLemma`, `Compactable`); it is a recursive function, and how far it got is
  followed by the least place at which the claim would fail.
- The recursive function `Remake` (the survivors of a batch) is reasoned about by the least index at
  which a claim fails (`NatMin`, from the library's theorem that the order of finite subsets is
  well-founded), because the theorem of induction itself cannot be instantiated.

`FeedsProofs`, about the four parts of the run `Feeds` that keep a state

- `FreshViewsAreCurrent`: `Spec => []FreshIsCurrent`, for views that declare the tables their SQL reads and
  of which none is over itself (`MatViewAssumption`: the request that creates a view sends the SQL and the
  declaration, and nothing in the code compares them). `FreshIsCurrent` is not inductive: a
  refresh that has not read yet excuses a view that differs, and may then be lost. `Fresh` drops that
  excuse; `Works` says that of the refreshes of a view that is not muddled one is between its query and its
  outcome, has in hand what its sources have, and that the view has it from the append on. The start
  needs that the recursive function `Made` exists, which goes by the least rank at which it would not
  (`ViewsCanBeMade`).
- `MessagesAreAccounted`: `KafkaSpec => []MessagesAccounted`, for any topic, page size and settings. The
  commit comes before the append, so what makes the property true is not in any one action: `KafkaInv` says
  that the position of an assigned consumer has passed only offsets that are committed, skipped, dropped by
  a failed run or may be read again, and that an offset behind the committed one which it has still
  ahead is one that may be read again (`Passed`); that a message reported, or in a run's hands behind the
  commit, is committed or may be read again (`Once`); and that what a run holds is in the table it made
  and nowhere else (`Holds`). `KafkaInvariant` proves it. Nothing is claimed of a step without a group of
  its own: there two runs share the offset.
- `VersionsStayOrdered`: `DimSpec => []OneCurrentVersion`, and `DimensionIsFollowed`:
  `DimSpec => []DimensionFollows`, for any snapshots, either mode of each option, any batch size, ceiling,
  clock and number of crashes. The versions in the target are not ordered because an action keeps them so:
  the target is dropped and filled again. `DimInv` says that what is in it and what is still to be appended
  are together one rebuild (`Rebuilt`) of the history the step read, at a time that has passed; a rebuild
  of an ordered history is ordered (`WholeIsOrdered`), and so is a prefix of one (`PrefixIsOrdered`), which
  is what a crash or the ceiling leaves and the next run reads: what `rs_add` took is a prefix of the rebuild
  (`Capped`). `WholeFollows` is about the end of a run whose rebuild was not cut: when the
  versions picked by their time are the open ones, a key of the source is compared with its one current
  version. What `Added` appends (a recursive function over the source) is characterised by the least
  row at which the claim fails, as for `Remake` above.
- `SecretsWereTyped`: `DirectorySpec => []SecretWasTyped`, and `RunsUseWhatTheyLookedUp`:
  `DirectorySpec => []RunsUseTheDirectory`. A form comes back with masks for secrets, and two edits may
  load, merge and save in any order; `DirectoryInv` therefore says of the record in a request's hands
  what it says of those in the directory, that every secret in it was typed for that connection
  (`CarriesTyped`), of a run's settings that they have the secret and destination of the record looked
  up under every spelling (`HasDirectorys`), and of the sessions that a user has one, opened with its own
  settings (`SessionOf`).

`StepsAndWireProofs`, about two components that share no state

- `SourceStepStages`: `Spec => StageIsWhatWasRead`; `SinkStepDelivers`: `Spec => SinkGotTheTable`, two
  action properties, and `FeedCarriesEachRowOnce`: `Spec => []EachRowOnce`, for any pipelines (a step is a
  `StepRecord`), sizes of page and batch, failures and crashes. `RowsAreFollowed` is the invariant.
  `Placed` says which kind of step each phase belongs to. `Pushing`: between two batches the destination
  has a prefix of what the step selects, behind what was there or instead of it, and the page in hand is
  what follows up to the end of the page; between two pages the prefix ends at the offset, or at the
  LIMIT. `Pulling`: once an attempt has made its table, the table has the source's rows from the first
  cursor to the present one, and a page not appended yet is what follows; `RowsUpTo` turns a cursor into a
  place in the source. The rows that a failed attempt left play no part, because the next attempt recreates
  the table and takes the destination as it finds it.
- `Carrying` ties the watermark, the stage and the sink of a feed together: before the source step is done
  the sink has all up to the watermark; afterwards it has all up to the cursor the read started from, and
  the stage the rest (`Staged`).
- That Kahn's loop emits steps of the pipeline only, which makes `Step` a step at all, goes by the least
  round that does not (`OrderOfSteps`, `EmitsExist`), since `TopoOrder` is a recursive function.
- `TypeOK`'s bounds on the back-off, which no run lists either, are not proved: they need that `2 ^ n` is a natural number, and
  exponentiation is unknown to the provers.
- `WireKeepsProtocol`: `WireSpec => KeepsTheProtocol`: each handler of `PgWire` is a step of `PgProtocol` or
  leaves its variables alone, for any number of connections, names and slots and any texts. `WireInv` says
  that a name stands in one slot (`Apart`), that a released slot has no text and a used one has a text
  of `Texts`, that a portal in use points at a slot (`GoodSlots`, `GoodPortals`), and that a connection
  that has not logged in has empty slots and no error pending. With `Apart`, `TextAt` and `PortalAt` say what
  a name stands for, and three facts about slots are all the handlers need: filling one changes its name and
  the portals that point there (`ParsedSlot`, and `BoundPortal` for a Bind), releasing one takes its name
  away (`ClosedSlot`, `ClosedPortal`), and when none is free as many names are held as there are slots
  (`NoSlotLeft`, `NoPortalLeft`), which is when the protocol lets a Parse or a Bind fail. Values may have
  quotes: they are doubled on the way into the text, which reads back as the value because doubling is
  injective. The one step that is none of `PgProtocol` is `BatchGoesOn`, an Execute that the engine refuses
  and that does not set `batch_error`; the theorem says that there is no other.

What stays with TLC: the liveness properties (`OnWriteViewsCatchUp`, `WorkerCatchesUp` and the `Every...`
properties) and whatever depends on fairness or ENABLED, which the prover does not do; and these
invariants.

- `RangeIsExact` and `IndexAnswersAsScan` (`IndexedTable`), `ReadsBack`, `AnswerIsTheReference` and
  `PageOrSaysSo` (`SelectQuery`, `StoredRows`), `ParsesWhatWasPrinted` (`SqlGrammar`), `VolcanoAgrees`
  (`VolcanoPlan`) and `PairsScoredRight` (`MatchStep`) say what recursive operators compute for every input:
  an insertion down a tree, a descent over tokens, a join, an edit distance. These modules are recursive as
  their code is, and such statements are inductions over data.

## 5. Where the code and its own words differ

The modules keep, at their end, the promises of comments and docs that the models refute. One has a run
(`TxnSharedSlot`) and a finding in `PROJECT.json`. The others are listed here: named as INVARIANT, or as
PROPERTY where the formula is temporal, in the configuration of the module's run, TLC refutes each
(those of `Feeds` by their name in `Feeds.cfg`, except MatchStep's, which are reached through
the instance, as in `part = "match" => S!M!SqlScoresAlike` or `S!M!CutPairsAreTold`).

| Module, property | Says who | What happens |
|---|---|---|
| TxnManager `ArenaLivesWhileOpen` | `txn.h:52` "lives from BEGIN to COMMIT/ROLLBACK" | the clean-up of a commit (`txn.c:181-185`) destroys the arena of the transaction that took the slot |
| TxnManager `CommitIsAtomic` | `txn.h:4-5` applied atomically on COMMIT | the loop stops at the first failing entry and undoes nothing (`txn.c:171-178`) |
| TxnManager `GaugeCountsOpen` | `api.c:8060` "Currently open transactions" | ROLLBACK of an unknown id lowers the gauge, a failed COMMIT does not (`api.c:3600-3624`) |
| TxnManager `CountedRowsAreBuffered` | `api.c:3105-3108` number of affected rows | the result of `txn_buffer_delete/update` is ignored (`api.c:3433-3472`) |
| TxnManager `ForgottenTxnFreesSlot`, under `FairSpec` with `TimeoutTicker = FALSE` | `txn.c:260-261` called periodically | nothing calls `txn_manager_timeout_check` |
| ConnPool `InvalidatedOpeningIsNotPooled` | `conn_pool.c:332-333` closes on return | a session that is being opened gets its fingerprint afterwards, and the mark is gone |
| ConnPool `InvalidatedPingedIsNotPooled` | the same | the tick puts a pinged session back without looking at its fingerprint (`conn_pool.c:361-379`) |
| ConnPool `OutdatedLeaseClosesOnReturn` | `conn_pool.c:228` closes on return | a busy session of an old configuration is passed over and marked by nobody |
| ConnPool `DeletedHasNoSession` | `conn_pool.h:16` deletion closes all instances | a step that resolved the connection before the deletion opens a session after it |
| ConnPool `AtMostMaxPerConn` | `conn_pool.h:33-34` simultaneous instances for one connection | leased sessions of another fingerprint are not counted (`conn_pool.c:225-229`) |
| Connections `DisabledHasNoSession` | `api.c:9317-9321` disconnecting outlives the sweep | a sweep under way has read its list before, and a run does not look at the flag |
| Connections `SessionsAreCurrent` | `api.c:9162-9163` sessions of the former settings are torn down | whoever loaded the record before the save opens one after it |
| Connections `DisabledUntilConnected` | `api.c:9317-9321` | `conn_save` writes the record without the flag: saving a form connects what was disconnected |
| ThreadPool `TasksAreNotLost` | `threadpool.c:16` tasks are not lost | a task accepted during the shutdown may be queued after the last worker left |
| ThreadPool `NobodyInsideWhenFreed` | `main.c:705-706` reverse order of dependencies | `tp_destroy` waits for workers, not for callers inside `tp_submit` |
| PipelineRuns `OneRunAtATime` | `docs/TRIGGERS.md:58` 409 already running | check and mark are two steps without a lock; the watcher checks nothing |
| PipelineRuns `NoRunUnderTheMutex` | `scheduler.c:430-433` `on_run` must not work synchronously | `on_pipeline_run` executes the steps (`main.c:256-266`) |
| PipelineRuns `WebhookRunsOnce` | `api.c:7897` "fires it, returns 202" | the scheduler's callback executes the steps, and then the handler executes them again (`api.c:7932-7933`) |
| PipelineRuns `TaskIsThePipelineAsked` | `api.c:7756-7759` immune to concurrent add/remove | the copy is taken through a pointer into the array, after `s->mu` was released |
| PipelineRuns `RunsAreRegistered` | `api.c:7850-7851` refuse to delete while a run is in flight | check and removal are separate steps |
| PipelineRuns `OneEntryPerId` | `api.c:4746` the POST is also the update | `scheduler_add` appends a second entry |
| PipelineRuns `CatalogAgrees` | `api.c:4996-4997` "SAVES it (catalog + scheduler)" | a full registry drops the pipeline silently; two orders cross |
| PipelineRuns `WaitWritesTerminalStatus` | `api.c:7786-7788` "with the terminal status" | the status is read through the live pointer after another run set it to RUNNING |
| PipelineSteps `OnePortion`, pipelines `Portion` | `mssql_connector.c:852-855` the whole result is one portion | the plugin does not say that the portion is the last, so the step asks again and reads it again |
| PipelineSteps `NoRowIsReadTwice`, pipelines `Unsaid` | `mssql_connector.c:815` the caller keeps the cursor | the caller expects it of the plugin and falls back to a count of rows (`api.c:5895-5900`) |
| PipelineSteps `OverwriteEmpties`, pipelines `NoRows` | `api.c:6131-6132` overwriting empties the destination even if no row comes | with LIMIT 0 the loop ends before the first page is written (`api.c:6028`) |
| PipelineSteps `SchemasLive`, pipelines `NoSchema` | `api.c:4843-4846` the schema lives with its table | without a description the schema is copied to the arena of the run, which `api.c:7743` destroys |
| PipelineSteps `PagesDoNotOverlap` | `api.c:5990-5991` the pages do not overlap | they are read by LIMIT and OFFSET while another statement changes the table |
| PipelineSteps `EmptyReadEmptiesTheStage`, pipelines `NoSchema` | `api.c:5819-5823` recreated empty | an empty read recreates the table only when it knows the schema |
| TableLog `RowsReadCanBeChanged` | `api.c:3235-3236` an updated row is masked | a query returns the row that an UPDATE's tombstone carries, and the next DML passes over it and over the record it replaced; it also passes over records of more than 262143 bytes, which a query reads (`api.c:1631`, `3273`) |
| TableLog `SurvivorsAreRepresented` | `api.c:1640-1642` the survivors are written again | the tombstones are written before the survivors (`api.c:3477-3487`): a crash between them loses the survivors; and a survivor whose first cell is NULL is printed as a record that is taken for a batch |
| TableLog `TextsAreKept` | `api.c:261-264` quoted, because plain splitting lost such values | a DML prints the rows it writes again without quotes (`api.c:3380-3389`, `3454-3462`): a comma cuts, an empty text becomes NULL |
| TableLog `CompactionKeepsAllRows` | `storage.c:399-402` rewrites the live rows | records of more than 262143 bytes are not copied (`storage.c:427`, `465`); nothing calls `table_compact` |
| IndexedTable `EqualKeysAreFound`, with `Unique = FALSE`, leaves of 3, 3 keys, 7 records | `btree.h:24` keys need not be unique | a separator is placed after those equal to it, so a later larger key comes to stand between equal keys in the chain of leaves, and the walk ends at it |
| IndexedTable `IndexSeesLiveRows` | `api.c:1516` all live rows | the index path reads no tombstones (`api.c:1545-1582`) |
| IndexedTable `IndexSurvivesCrash` | `btree.h:22` opens existing | a row whose log record was written and whose entry was not is never found by the index |
| Replication `OverflowDropsTheOldest` | `docs/CLUSTER.md:75-76` | a full ring drops the newest |
| Replication `LagTellsTheTruth` | `replicator.c:7` | a dropped or refused record leaves the count as if it had been sent |
| Replication `LayoutMatches` | `storage_node/main.c:98` the primary's layout | a gap shifts every later offset |
| Replication `OnlyLags` | `docs/CLUSTER.md:73` a standby may lag | after a connection broke, the node's thread for it may append an older record after a newer one of the next connection |
| Replication `OrderAcrossLives` | | a record of the leader's former life may be applied after one of the next, from the kernel's buffer |
| PgWire `FailureSkipsTheRest` | `pgwire.c:80-81` | an error of the callback does not set `batch_error` |
| PgWire `BoundValuesArrive` | `pgwire.c:486` doubled quotes | `sql.c:140-155` does not undo the doubling; an UPDATE to NULL stores the text |
| MatView `FreshIsAlwaysCurrent` | `matview.h` a view of a written table is stale | DML, ingestion and appends of a connector do not call `mvs_invalidate` |
| MatView `StaleViewsCatchUp` | the same | `mvs_invalidate` queues only what is not stale (447-516), a tick takes scheduled views only when they are not stale (520-557), the queue is in memory |
| KafkaSource `CommittedWasRead` | | the offset is committed before the page is appended (`kafka_connector.c:2114`) |
| KafkaSource `RowsHoldTheirMessages` | | the first message's fields and types decide for all |
| KafkaSource `EveryRunReadsAll` | `docs/KAFKA.md:163-168` | the group of a step without one is shared by runs (`api.c:5714-5741`) |
| Dimension `EveryKeyIsCurrent` | `api.c:6832-6835` a version for each new or changed key | a key that comes back as it was stays closed; equal times (also when nothing is cut) |
| Dimension `CutIsRefused` | `api.c:605-607` SCD2 must refuse a truncated result | the rebuilt history is cut by `rs_add` (7157, 7209), `out->truncated` is not looked at, and the target is dropped and written from what is left (7213); the run answers well |
| Dimension `ScratchIsDropped` | `api.c:6876-6877` | an early return leaves the scratch table |
| MatchStep `AnyRuleMatchesInAnyOrder` | `docs/MATCH_RULES.md:33` every unordered pair | word similarity counts the trigrams of the first row only |
| MatchStep `SqlScoresAlike` | `api.c:754-756` ported from `qengine.c` | SQL's functions read bytes, those of a rule code points |
| MatchStep `CutPairsAreTold` | `api.c:605-607` whoever gets a truncated result must say so or refuse it | pairs above the ceiling are dropped (7398) and the step succeeds |
| MatchStep `UnknownNamesDoNotMatch` | `docs/MATCH_RULES.md:36-37` | a NULL name is the text of NULL, equal to another |

Seen while translating, in the definitions and not in a formula of their own:

- **Parser.** NOT binds tighter than a comparison (`sql.c:407`); IS, IN and BETWEEN are taken whatever
  the minimal precedence; `a NOT b` drops `a`; text after a whole statement is an error in some places and
  dropped in others (1018-1019); a CTE whose body is a set operation loses the body; INTERSECT has the
  precedence of UNION; ORDER BY and LIMIT bind to the last SELECT. `Words` prints only what survives.
- **Executor.** A derived table, CTE or subquery that was cut does not mark the answer (`api.c:629-633`); the
  second LEFT JOIN is not tried for a row the first did not match; `MAX(v) - MIN(id)` reads the first
  aggregate's slot (1866); aggregates over no rows and without GROUP BY give no row; ORDER BY by position
  is ignored beside aggregates; an index hint restricts the wrong table of a join (2898, 1480); FULL and
  RIGHT JOIN act as INNER (`docs/ARCHITECTURE.md:52` lists them); a SELECT without FROM ignores WHERE;
  GROUP BY merges NULL and ''; a frame of two PRECEDING bounds is clamped. The statements of `Queries` stay
  within what is defined; `SelectQuery` computes the others as the code does.
- **Query engine library.** Only tests call `qengine_build` and `eval_expr`
  (`tests/sql/test_aggregates.c`, `tests/unit/test_sql.c`). The scan ignores DELETE and UPDATE records and
  records of 64 KiB; rows of a window have no columns; the third table of a join loses the left columns; an
  OFFSET of a batch or more ends the result (comment at `qengine.c:722`); a join with an empty right side
  passes its left rows; the type of a join is ignored; sort and join lose null bitmaps; BOOL columns are
  scrambled (691-693); AVG counts NULLs; DISTINCT and set operations are not built; groups beyond
  `AGG_MAX_GROUPS` vanish. `Served` leaves these out of the question.
- **PostgreSQL wire.** `pgwire_destroy` frees the server while detached threads read `running`; BEGIN, COMMIT
  and ROLLBACK are answered and do nothing; INSERT is not supported.
- **Kafka.** Describing a topic consumes a message (1668-1760); four failures of OffsetFetch fall back to
  `offset_reset`.
- **Dimension.** The check that refuses a history above `MAX_RS_ROWS` (6959-6963) meets none that this step
  wrote: a rebuild is cut to the ceiling before it is written, so the versions above it are lost without an
  error, the new ones first, run after run (`CutIsRefused`). A crash between the drop and the last append
  loses history; NULL and '' differ although 6837-6839 says otherwise.
- **Directory.** A sweep always starts at the head of the list, so with more connections than
  `MAX_WARMUP_PER_TICK` that fail the rest is not warmed up (9238-9242 says otherwise); POST with an id that
  exists overwrites it; two edits of one record lose one.
- **Others.** Ingestion of CSV cuts records of 64 KiB (`api.c:4421`); nothing calls
  `replicator_add_replica`, `table_compact` or `btree_delete`; `last_run_failed` is not persisted (5165-5166).

## 6. Not modelled

YAML, templates, JSON and XML are sequential functions of their input; cron expressions too, and they
are in the plan. TLS, the protocols of the plugins other than Kafka, UI, SDKs, services and scripts are
clients or wrappers. The HTTP server, its WebSockets, the audit queue and the rest of `app_stop` are in the
plan. Memory exhaustion is left out everywhere.

`TableLog` takes it that a SET value has no comma, quote or line break, that the column of WHERE and of SET
stands before any cell that printing could cut, so that a row keeps its id, and that a printed row fits the
262144 bytes of its buffer; it leaves out a row that `table_append` refuses because it is longer. That
two threads of a storage node tear each other's appends is a case of `TableLog`'s appenders, not repeated in
`Replication`, whose node appends a record whole. `Replication` also leaves out hosts that vanish without
closing their connections (section 3, fairness).

`TableLog` and `IndexedTable` leave out dropping and recreating a table, the path of a transaction's
entries, schema changes, failing writes, and the window in which compaction renames files (nothing calls
it). `ConnPool` leaves out `conn_pool_destroy` and the status listing, `TxnManager` `txn_manager_destroy`,
`PipelineRuns` the steps, the calendar and the tables a deletion drops. `PipelineSteps` leaves out parallel
steps' threads beside their order, scripts' bodies and file formats; `KafkaSource` several partitions,
rebalancing within a session and the sink; `MatView` the parsing of sources, given as `Sources` and `Hits`;
`PgWire` TLS and the encoding of types; `SqlGrammar` the lexer's characters; `SelectQuery` the scalar
functions, dates, and texts as characters.

## 7. Plan

Done, in the order of what matters most to users' data: `TxnManager`, `ConnPool`, `ThreadPool`,
`PipelineRuns`, `TableLog`; then `Replication`, `IndexedTable`, `PipelineSteps`, `SelectQuery` over
`StoredRows`, `PgWire`, `SqlGrammar`, `VolcanoPlan`, `MatView`, `KafkaSource`, `Dimension`, `MatchStep`,
`Connections`.

Left, modules:

1. `Shutdown`: `app_stop` over the worker pool, the connector pool (`conn_pool_destroy` after five
   seconds), the scheduler and the detached connection threads.
2. `HttpServer`: the limit of connections, the list of a broadcast, the audit queue.
3. `Cron`: `cron_next` against "the least matching minute" on a small calendar.
4. `Table`, the abstract table (a function from rows to values, statements atomic), refined by `TableLog`
   for the debug build with one writer at a time; `TxnManager`'s commit composed with it.

No theorem of the plan is left. What section 4 leaves to TLC is out of the prover's reach.
