# Verification project for tyk-pump

Tyk Pump moves the analytics records that Tyk gateways write to Redis on to
other stores ("pumps"): databases, queues, log collectors, metric systems.
This directory holds TLA+ modules that model the program, TLC configurations
that check them on small instances, and proofs checked by TLAPS. Source paths
are relative to the repository root; `PROJECT.json` maps each definition to
the lines it models.

## 1. The system

| Part | State it keeps | Operations | Talks to |
|---|---|---|---|
| Purge loop (`main.go`) | position in the pass, popped chunk, one goroutine and one channel per pump write, cancelled context | tick, visit of a list, decode, fan-out, wait or time out, check for shutdown | temporal storage, serializers, all pumps |
| Temporal storage (`storage/`) | the connector singleton; the lists and their TTLs in Redis | `GetAndDeleteSet`, `SetKey`, connect and reconnect | Redis |
| Serializers (`serializer/`) | none | suffix of a list, decode | - |
| Record filters (`analytics_filters.go`, `analytics.go`, `filterData`) | the pump's options | reject, trim, drop fields, decode base64 | records shared by all pumps |
| MongoDB pumps (`mongo.go`, `graph_mongo.go`, `mcp_mongo.go`, `mongo_selective.go`) | batches of one call, result channel | `WriteData`, `AccumulateSet`, uptime data, indexes | MongoDB |
| Aggregation (`analytics/aggregate*.go`, `uptime_data.go`) | time of the last document, per-call maps | aggregate records into counters per organisation | aggregate pumps, hybrid pump |
| Aggregate pumps (`mongo_aggregate.go`, `sql_aggregate.go`, graph and MCP versions) | aggregation time | upsert counters, self healing | MongoDB, SQL |
| SQL pumps (`sql.go`, `graph_sql.go`, `mcp_sql.go`) | the database handle with the current table in it | batches, a table per day, indexes | SQL databases |
| Hybrid pump (`hybrid.go`) | RPC client, "connected" flag | connect, log in, send, shut down | MDCB |
| Resurface pump (`resurface.go`) | queue of 5 chunks, worker, `enabled` flag | `WriteData`, `Flush`, `Shutdown` | HTTP logger |
| Splunk pump and HTTP retry (`splunk.go`, `retry/`) | batch buffer, retry budget | filter tags, batch, send with back-off | Splunk |
| Other pumps (Elasticsearch, Kinesis, SQS, Timestream, Moesif, Kafka, ...) | a client, sometimes a buffer | `WriteData` | their service |
| Prometheus pump (`prometheus.go`) | the maps of its metrics, handed over at the end of a write | register metrics, count, observe, expose | Prometheus client |
| Instrumentation (`instrumentation_*.go`) | command channel, UDP buffer | events, drain, stop | statsd |
| Start-up (`config.go`, `kv.go`, `pump.go`, `Init` in `main.go`) | the configuration | load, resolve secrets, initialise pumps | environment, KV stores |

How they interact: the loop is one goroutine. It pops a chunk, decodes it and
starts, for each pump, `execPumpWriting` and inside it the goroutine that
filters and calls `WriteData`; it waits for all of them. The decoded records
are shared by the goroutines of all pumps. A pump with a timeout may be left
behind, and then its old and new `WriteData` run side by side. `Shutdown` is
called by the loop's goroutine at the end of a pass.

What is hard: goroutines that outlive their timeout; results that arrive
late; a pop that cannot be undone followed by steps that can fail; kills
between the pop and the writes; a signal in the middle of a pass; batches cut
by size with skipped records at the end; results of concurrent inserts
gathered in any order; queues closed while others still use them; state of a
pump that is shared by overlapping writes; retries of what may have been done.
`PROJECT.json` lists these hazards at their lines, with the properties that
would notice them going wrong.

What makes each part correct:

* purge loop: no record is lost unnoticed, duplicated or skipped by a pump;
  lists are emptied in order; healthy pumps are isolated from stuck ones;
  waits, abandoned goroutines and shutdown end;
* MongoDB pumps: batches respect the limits, nothing is inserted twice or
  forgotten, success is reported only when everything was inserted, no
  goroutine is left behind;
* aggregates: the counters of the backend sum up the records, also after self
  healing, and across table or document boundaries;
* SQL pumps: every record in the table of its day, once;
* hybrid and Resurface pumps: connection and queue survive failures, flushes
  and shutdown;
* filters and tags: what one pump drops or changes, no other pump misses;
* storage handlers and the statsd sink: what is shared by several callers
  stays usable for each of them, and their calls return.

## 2. What is modelled

| Module | Models |
|---|---|
| `Delivery` | abstract specification: at-most-once fan-out from queues to sinks |
| `PurgeLoop` | `main.go` from `StartPurgeLoop` to the end, `GetAndDeleteSet`, the serializers' part in naming and decoding |
| `PurgeLoop_proofs` | theorems about `PurgeLoop` |
| `MongoWrite` | `WriteData` and `AccumulateSet` of the four MongoDB pumps for records |
| `SqlWrite` | `Init` with its migrations, `WriteData`, `ensureTable` and `ensureIndex` of the six SQL pumps |
| `Counters` | pure operators: the counter of a record, its dimensions, and how counters are merged in memory, in SQL and in MongoDB |
| `Aggregation` | the six pumps that count records, from the slice to the rows or documents; uptime data of the sql pump |
| `MongoAggregate` | `WriteData` of the MongoDB aggregate pump, self healing, the time of documents |
| `Resurface` | `WriteData`, `Flush` and the worker of the Resurface pump |
| `Sinks` | `WriteData` and `Shutdown` of the 18 pumps that hand messages to a client library, the HTTP retries of the Splunk pump |
| `Hybrid` | the hybrid pump and its RPC client |
| `TemporalStorage` | the handlers that share one storage connector |
| `StatsdSink` | the statsd sink of the instrumentation |
| `SharedTags` | `FilterTags` of the Splunk pump on an array that pumps share |
| `Metrics` | the metrics of the Prometheus pump |
| `Filters` | `filterData` of several pumps on the slice they share |
| `SqlWrite_proofs`, `MongoWrite_proofs`, `MongoAggregate_proofs`, `Sinks_proofs` | theorems about these modules |
| `Aggregation_proofs` | theorems about `Aggregation` and the operators of `Counters` |
| `Services_proofs` | theorems about `Hybrid`, `TemporalStorage`, `Filters`, `Resurface`, `StatsdSink` and `SharedTags` |
| `DataFacts` | lemmas about numbers, sets and sequences that the proofs share |
| `MCPurgeLoop`, `MCMongoWrite`, `MCSqlWrite`, `MCMongoAggregate`, `MCAggregation`, `MCSinks`, `MCServices` | instances for TLC |

`PurgeLoop` sees a pump as a goroutine that writes the records of a chunk,
may fail after some of them, may hang, and may outlive its timeout. The other
modules open one kind of pump each and keep of the loop what a pump can
notice: calls of `WriteData` one after the other (`StartWrite`, `WriteDone`)
and a call that is left behind with its context over (`Deadline`).

### PurgeLoop

Records are numbers in the order the gateway pushes them, a list is the set of
its records, so "head" and "older" are comparisons. `pc` and `visit` are the
position of the loop: `visit = <<i, s>>` is the shard of the outer loop and the
serializer of the inner one, `<<NumShards, 1>>` the uptime list. `KeySuffix`
follows the code in appending the suffix of each serializer to the same
variable. One action stands for each step after which another goroutine, the
storage server or a kill can get in between: `Pop`, `Expire`, decoding with
fan-out (`writeToPumps`), `WaitReturns`, `checkShutdown`, `ShutdownPump` and
`ShutdownReturns` (`closing` is the pump whose `Shutdown` runs). The error paths are actions of their own: `PopFails`, `PopReplyLost` (the server
executed the command, the client got an error), `ExpireFails`.

`exec[p]` is `execPumpWriting` of pump `p`; `writers` is the set of goroutines
it started, of the current and of earlier chunks. A writer filters
(`filterData`), writes record after record (`WriteRecord`) in any order, since
the mongo pump inserts its batches concurrently and the selective one ranges
over a map, returns
(`WriteReturns`, with records left over if the backend fails or its context is
over), and sends the result (`SendResult`). `DeadlineExceeded` may come before
or together with the result. A value that does not decode is a nil key:
`Panic` is the failed type assertion in `filterData` or in the `WriteData` of
the pumps in `Strict`; like `Kill` and `Exit` it ends the process.

`copies`, `failed`, `dropped` and `sent` are history variables.

`Delivery` says what remains when goroutines, channels and timeouts are
forgotten. `PurgeLoop` refines it with the lists as its queues, and as "taken"
the records in the hands of the loop or handed to the pumps (`Promise`).

### MongoWrite

A behaviour is one call of `WriteData` by one of the four pumps on an
arbitrary slice. `AccumulateSet` is taken one iteration at a time (`SkipItem`,
`accumulate`), because its running total, the batch being filled and the test
for the last item interact. Sizes are numbers relative to the limits. The
order in which the selective pump comes to its organisations, and the size of
a batch, are recursive functions over the slice.
`InsertBatch` may write a first part of the batch and fail; `SendErr` of the
mongo pump is followed by `SendNil`, as in the code. The selective pump has no
goroutines: `InsertNext`.

### SqlWrite

`pump` says which of the six pumps runs; they differ in the records they take
(`Wanted`), in whether errors about tables and indexes end the call
(`Ensures`), and in where they insert: the pumps for records through the
handle `db` of the pump, the aggregate pumps into a table they name
(`Target`). `Cut` finds the next part of one day and moves the handle to its
table; `HasTable`, `CreateTable`, `EnsureIndex` are steps of their own because
a call left behind can move the handle between any two of them. `Insert`
writes the next batch. The counters of a part are one insert. `log` is the
history of inserts.

A behaviour begins with `Init`: `HandleTableMigration` brings `ToMigrate` to
the present schema - every table of a day with `migrate_sharded_tables`, only
that of the current day without, nothing for the graph aggregate pump - and
may fail for some of them (`MigrationFails`). An `outdated` table refuses the
rows of this version. Without sharding two aggregate pumps then make their
index, on Postgres in a goroutine (`BackgroundIndex`) that the first writes
may overtake. A pump whose `Init` fails is `off`. `IndexedBeforeUse` names
the case this leaves: the sql pump never indexes a table that a migration
created. `omit_index_creation` is left out.

### Counters and Aggregation

`Counters` has one operator for each thing the package does with a record:
`AddRecord` (`incrementAggregate` and its graph and MCP companions) with the
error map that a counter may lack (`Panics`), `Dimensions`, `SumUp`
(`incrementOrSetUnit`), and the two ways a backend merges:
`OnConflictAssignments` with the division of the SQL upsert
(`DividesByZero`), and `generateBSONFromProperty` with its `$inc`, `$set`,
`$min` and `$max`. `Aggregation` runs them: `Aggregate` takes one record, then
SQL pumps write `Batches` of rows, each one statement that is refused whole
(`InsertBatch`, `InsertFails`), and MongoDB pumps do `Upsert` and `AvgUpdate`,
between which another call may come. `Merged` is what a row becomes, `Document`
the case of MongoDB, where the dimensions of MCP records keep their bytes.
`Foreign` are records of another kind in a slice, which `Takes` leaves to other
pumps. `applied` is the history of the calls merged into a row; the properties
compare a row with a reference that counts the records of these calls directly
(`OfRecord`, `OfSlice`, `OfCalls`). `FailsOnlyFor` names the row that refuses
an update: one that a call without hits has made, and that gets none again.
`LatenciesFollow` spells out where minima and averages are not what one expects:
the first hit of a slice sets the minimum even if it is an error, MongoDB
averages may be of an earlier state, and the average of uptime data is never
updated.

### MongoAggregate

`docs` are the documents, keyed by collection, organisation and time; a
document is the bag of the records it counts, so counting twice is visible.
`Aggregate` is one iteration of `AggregateData`: the first record of an
organisation fixes the time of the document (`DocTime`), which reads and
writes `last`, the entry of `lastDocumentTimestamp`. `Upsert` and `AvgUpdate`
are the two updates of `DoAggregatedWriting`, for the collection of the
organisation and then for the mixed one; either may find the document too
large. `SelfHeal` is `ShouldSelfHeal` answering yes, with the second
`WriteData` starting over on the same slice; a call that heals keeps no trace
of its first run but what is in the database. Time is counted in minutes and
an hour has `Hour` of them. The time of a document is that of the first record
of an organisation in the slice (`aggregate.go:725`): the rest of a slice is
counted there too, also when a period has ended in between.

### Resurface

`gen` is the number of the queue in the field `data`; each queue has its
worker. A call of `WriteData` is one goroutine that reads `enabled`
(`ReadEnabled`), evaluates the channel operand (`Evaluate`) and then sends
(`SendChunk`) or gives up when its context is over (`GiveUp`). With the pump
disabled it receives a chunk, sends it back and closes the queue. The put-back
does not look at its context: `HeldUp` is a call that waits for room in a queue
others have filled again, which `CallsEnd` excepts when the logger is stuck
(`resurface.go:274`). `Flush` is
`BeginFlush`, a `WriteData` of its own, `WorkersDone` and `Enable`. A send to
a closed queue and a second close are panics, and end the behaviour.

### Sinks

One machine for the pumps whose `WriteData` is a loop that turns each record
into a message and hands it on. A record of type `Profile` says, for each
pump, what the code does with a value that is no record or cannot be
converted, how it cuts the slice into requests, whether it returns or logs the
error of a request, what an expired context changes, and where messages wait.
An option that changes one of these is a profile of its own
(`SplunkBatch`, `ElasticsearchBulk`, `Influx2Flush`); `DogStatsd` and `Moesif`
stand for these pumps with buffering on. `Die`, `Refuse`, `Skip` and `Take`
are the outcomes of one iteration, `SeesOver` the test of the context before
it, `LoopEnds` what follows the last value. `Accepted`, `Retry` and `GivesUp`
are one request and its answer, `Hold` puts a message into a client's buffer
or the map of the Prometheus pump. The CSV pump first looks for the file of the
hour (`LooksForFile`) and then creates it if it saw none (`Creates`), which
empties a file that an overlapping call has made in between, and leaves both
with offsets of their own: what such a call writes may lie on rows of the other
(`WritesOver`). Rows lost in either way are in `overwritten`. Which rows are hit
depends on lengths in bytes, so `WritesOver` takes any of them, more than the
program can hit. The file is not there before the first call, and all
calls fall into one hour, so that they meet in it; a file that cannot be opened is only
logged, and then no row is written. `Spill` is the buffer of the CSV writer
going to the file on its own. `MapRace` is the concurrent use of a map, for
which the runtime may end the process. Retries inside a client library are
not seen.

### Hybrid

`calls` are the goroutines: `Init` and the calls of `WriteData`, each at a
step; `rpcClient` and `funcClient` are the two fields of the pump, numbers of
clients, which every call reads and replaces without a lock. `ConnectRPC`,
`StartClient`, `startDispatcher` and `Ping` are the parts of `connectRPC`;
a second `Start` of one client and a call through a nil field end the process.
`Take` is what the server does with a request whether or not its answer
arrives; `accepted` is what it took. A payload says what is among the records
of a slice. `AggregatePanics` is the death of the process in `AggregateData` or
`AggregateMCPData`: of a value that did not decode, or of an error whose API was
first counted by a record with code -1, in a counter without an error map
(`aggregate.go:765`); `Aggregation` has this in full, record by record.

### TemporalStorage

`singleton` is the connector all handlers share, `view[h]` the two views each
made of it. `Reset` replaces the connector, with `forceReconnect` even if it
works, and closes the old one under the views of the others; `replaced`
remembers who was cut off. An operation first runs `ensureConnection`.

### StatsdSink

One channel of commands, one goroutine (`ReceiveCommand`, and `DrainReceive` while a
Drain empties the channel), a ticker that sends `FlushCommand`, and a channel without
places on which every Drain and Stop waits. Whoever reads it first takes
another's answer: `crossed` marks that.

### SharedTags and Filters

The goroutines of the pumps share the decoded records. `Filters` is
`filterData` for all of them at once on one slice: a pump with any option
copies the slice before it changes elements. A record is copied by value but
its tags are not: in `SharedTags` the Splunk pumps that write a record, each with
its own list and its own slice header, work on one array. `copy` is a memmove
without synchronisation: `Load` and `Store` take the places in any order in
which none is overwritten before it has been loaded, so another filter may change
the array between the two, and stale tags may land behind its length; `Shorten`
blanks the last place. A string is two words, and a race may mix them (`Torn`),
of which `HasPrefix` says anything, or faults (`Raced`). `OutOfRange` is the
slice expression of `splunk.go:164` on a key behind the length. With overlap
innocent tags get lost and filters go out of range, which `FilteredAlone`
therefore excepts. It is about a filter in `alone`, one that began when no
other was at work, on tags that are not torn: the first, or one after others have
ended. Such a filter only ever keeps a tag too many (the one behind a removed
tag), and goes out of range only for an empty entry of `ignore_tag_prefix_list`,
which the code does not reject: it matches the empty strings behind the
shortened slice too, which the loop still visits. The property says at
which places of the record the tags that are left were, so that a record may
have a tag twice. A nil key,
which ends the process in `filterData`, is in `PurgeLoop`.

### Metrics

A label value is a sequence of atoms so that `JoinedBy` can make equal keys of
different values, as joining with "--" does. `Hold` is `Inc` or an aggregated
`Observe`, `Expose` and `ResetMap` are the two halves of `Expose`, between
which another write may count. `Typed` is the test by which `Observe` takes a
first value of total, upstream or gateway for a type of latency. Two options
that the code reads but does not use are not in the model: the buckets of a
custom histogram and the length of an obfuscated key.

## 3. Runs

| Run | Instance | Shows |
|---|---|---|
| `purge_safety` | an untimed pump that asserts the type of its values, a timed one with a filter that may be stuck or fail, the uptime pump, one analytics shard with both serializers, 3 records of which one is undecodable, chunks of 2, one fault of any kind, one restart | `Accounted`, `AtMostOnce`, `FanOut`, `UntimedSequential`, `ShutdownQuiet`, `OldestFirst`, and refinement of `Delivery` |
| `purge_liveness` | two shards, the timed pump stuck forever in its writes and its `Shutdown`, one storage fault, signal at any time | `EveryRecordCollected`, `HealthyPumpServed`, `WritersEnd`, `ShutdownCompletes` |
| `purge_stop` | timed pump, signal | violation: the process stops while a pump is still writing |
| `mongo_write` | all slices of up to 3 of 7 kinds of records (undecodable, response code -1, fitting in pairs, too large, graph, MCP), all four pumps, failures of any insert | `NoRecordTwice`, `HonestResult`, `NothingForgotten` (and batches respect the limit), `InsertersEnd` |
| `mongo_remainder` | as above | violation: a started batch is dropped |
| `sql_write` | six pumps, with and without sharding, timeout, migration and Postgres, a table of an earlier day or version, slices of up to 3 and then 1 records of two days, batches of 2, one refused statement | `RightTable`, `EachRecordOnce`, `IndexedBeforeUse`: each record is tried once and in order, in the table of its day, and refused only for a named reason; tables have their indexes, with the named exceptions |
| `sql_overlap` | as above | violation: overlapping calls put records into the table of another day |
| `mongo_aggregate` | slices of up to 2 and then 1 records of two organisations and of none, in one hour of four minutes, documents of two records and lists of one, with and without mixed collection, self healing and timeout, one failed update | `CountedOncePerRun`, `NilMeansCounted` (and an error with self healing only at one minute), `WriteDataEnds` |
| `resurface` | four chunks, a queue of one, two calls left behind at a time, one flush at any point, with and without timeout, logger stuck or not | `Conserved` (nothing accepted is lost, reordered or written twice, a flush leaves nothing behind), `UntimedSafe` (no panic without a timeout), `CallsEnd` |
| `sinks` | 21 profiles, with and without timeout, slices of up to 3 and then 1 values of five kinds (no record, not convertible, sampled out, small, too large), a limit of 2, one retry, one fault | each record is offered once and within the limits, a backend gets it again only by a retry or from overlapping calls of the Prometheus pump, a nil result is honest (of the CSV pump, unless an overlapping call created the file), a bad value costs no other record unless the pump gives up on it, `Shutdown` leaves nothing in a client |
| `aggregation` | six pumps, slices of up to 2 and then 1 records: a success with all dimensions and duplicate tags, errors, records without a hit, other organisations, graph and MCP records, uptime data; statements of 4 rows, one refused or unanswered statement, calls that overlap | `CountsAddUp`, `HonestResult`, `LatenciesFollow`, `FailsOnlyFor` |
| `services` | one of: the hybrid pump with two writes of three kinds of slices, two of which it cannot aggregate, one lost call, `Shutdown`; three handlers of the storage, the second forced, two failures; the sink with two callers, four commands and room for two; two Splunk filters with lists of their own, one with an entry that matches everything, on up to three tags; eight sets of metrics over slices of 2 and 1 records; three pumps filtering three records | `HybridHonest`, `SafeAlone`, `StorageReachable`, `SinkInOrder`, `SinkCallsReturn`, `FilteredAlone`, `MetricsFollow`, `FiltersKeepApart` |

Bounds. Three records in chunks of up to two make chunks of one and of two
records, up to three visits of a list, and a late writer that overlaps two
newer chunks. One fault at an arbitrary point plus one restart cover every single
failure; the proofs cover any number. In `mongo_write` three records suffice
for a closed batch, a batch being filled and a skipped last item, and for two
batches whose inserts interleave. In `sql_write` three records of two days
give parts of one and two records and a return to an earlier day, and a second
call gives the overlap. In `mongo_aggregate` a document can overflow on its
own slice and on what an earlier call left in it, and an hour of four minutes
can be halved twice. In `resurface` four chunks put one into the hands of the
worker, one into the queue of one, one into those of a call that sends it back
and a last one into the queue behind it; one flush gives an old and a new
queue. In `sinks`
three values and a limit of two give a full request and a rest, and a size of
three is more than fits alone; the shorter second call overlaps the first or
meets what it left behind. In `aggregation` two records make a counter and add
to it, the second call meets rows that exist, and a record has more rows than
a statement. The components of `services` share no state, so a behaviour is
about one of them: two goroutines and one failure reach each of their
conflicts; two writes show what the first left in the maps of a metric. In the
mode "raw" the hybrid pump does not look at the records, and one kind of slice
is enough (`MCRawSlices`).

Fairness. `PurgeLoop`: `WF` of the loop, of the goroutines of pumps outside
`Stuck`, and of receiving a result or a deadline: the Go scheduler runs what
can run, timers fire. A goroutine that has its result sends it, whatever its
pump. `checkShutdown` calls `Shutdown` without a timeout: it returns for a pump
outside `Stuck`, and `ShutdownCompletes` names the hang in that of another. There is no fairness for the gateway, faults, signals, restarts or stuck
backends. The uptime pump is out of the liveness run: `WriteUptimeData` has no
timeout, so nothing can be promised when it is stuck. `MongoWrite` and
`MongoAggregate`: the goroutines of a call run and the database answers.
`Resurface`: the calls, the loop and the worker run, deadlines fire, and a
logger that is not stuck takes what it is given. `StatsdSink`: `WF` of the
loop, which only receives and writes UDP packets; `SF` of a caller getting a
place in the channel and of a Drain finding it empty, because the runtime
serves blocked senders in order, and a loop that drains reads faster than a
ticker of ten flushes a second fills.

## 4. What the violations say

* `purge_stop`: `main.go:545` has the comment "wait till all the pumps
  finish", but the wait group only counts the loop. A write whose timeout has
  passed is cut off when `main` returns.
* `mongo_remainder`: `mongo.go:464` says that the remaining result set is
  appended if it is not empty; the code does so only when no batch was closed
  before. If the last record of a slice is skipped (it did not decode, or its
  response code is -1), the batch being filled is never inserted and
  `WriteData` reports success. `NothingForgotten` shows that a skipped last
  record is the only way to lose one.
* `sql_overlap`: `README.md:1112` promises the records of a day in the table
  of that day. The table is kept in `c.db`, a field of the pump
  (`sql.go:300`), so a call that outlived its timeout and the next one insert
  into each other's table. `RightTable` shows that this is the only way.

## 5. Proofs

The runs check small instances; the theorems hold for every value of the
constants that satisfies the assumption of the module (`PurgeLoopAssumption`,
`MongoWriteAssumption` and so on: bounds are numbers, sets of names are
disjoint, a limit is not zero). TLC evaluates the assumptions in each run.

| Module | Theorem | Statement |
|---|---|---|
| `PurgeLoop_proofs` | `TypeCorrect` | `Spec => []TypeOK` |
| | `Inductive` | `Spec => []IInv` |
| | `RecordsAccounted` | `Spec => []Accounted` |
| | `DeliveredAtMostOnce` | `Spec => []AtMostOnce` |
| | `UntimedNeverOverlap` | `Spec => []UntimedSequential` |
| | `QuietShutdown` | `Spec => []ShutdownQuiet` |
| | `ImplementsDelivery` | `Spec => Delivers` |
| | `FullInductive` | `Spec => []FullInv` |
| | `NoPumpPassedOver` | `Spec => []FanOut` |
| | `UntimedInOrder` | `Spec => OldestFirst` (an action property) |
| `MongoWrite_proofs` | `Inductive`, `Typed` | `Spec => []IInv`, `Spec => []TypeOK` |
| | `InsertedOnce` | `Spec => []NoRecordTwice` |
| | `SuccessIsHonest` | `Spec => []HonestResult` |
| | `AllAccumulated` | `Spec => []NothingForgotten` |
| `SqlWrite_proofs` | `Inductive`, `Typed` | `Spec => []IInv`, `Spec => []TypeOK` |
| | `RowsInTheirTable` | `Spec => []RightTable` |
| | `WholeSlice` | `Spec => []EachRecordOnce` |
| | `RowsAfterIndexes` | `Spec => []IndexedBeforeUse` |
| `MongoAggregate_proofs` | `Inductive` | `Spec => []IInv` |
| | `NeverCountedTwice` | `Spec => []CountedOncePerRun` |
| | `NilIsHonest` | `Spec => []NilMeansCounted` |
| `Aggregation_proofs` | `Inductive` | `Spec => []IInv` |
| | `CountsAreRight` | `Spec => []CountsAddUp` (with `TypeOK`) |
| | `NilIsTrue` | `Spec => []HonestResult` |
| | `FailuresExplained` | `Spec => []FailsOnlyFor` |
| | `LatencyInductive` | `Spec => []LInv` |
| | `LatenciesAreRight` | `Spec => []LatenciesFollow` |
| `Sinks_proofs` | `Inductive` | `Spec => []IInv` |
| | `RequestsFollowTheSlice` | `Spec => []EachRecordOnce` (with `TypeOK`) |
| | `NilMeansHandedOver` | `Spec => []HonestResult` |
| | `OnlyTheValueHarms` | `Spec => []HarmsNoOther` |
| | `NothingLeftBehind` | `Spec => []ShutdownDelivers` |
| `Services_proofs` | `StorageInductive` | `StorageSpec => []StorageInv` |
| | `StorageStaysReachable` | `StorageSpec => []StorageReachable` |
| | `HybridInductive` | `HybridSpec => []HybridInv` |
| | `HonestToMDCB` | `HybridSpec => []HybridHonest` |
| | `AloneIsSafe` | `HybridSpec => []SafeAlone` |
| | `FiltersInductive` | `FiltersSpec => []FilterInv` |
| | `PumpsFilterAlone` | `FiltersSpec => []FiltersKeepApart` |
| | `ResurfaceInductive`, `ResurfaceTyped` | `Spec => []IInv`, `Spec => []TypeOK` of `Resurface` |
| | `ChunksConserved` | `Spec => []Conserved` |
| | `UntimedCallsSafe` | `Spec => []UntimedSafe` |
| | `SinkInductive` | `SinkSpec => []SinkInv` |
| | `SinkOrdered` | `SinkSpec => []SinkInOrder` |
| | `TagsInductive` | `TagsSpec => []TagsInv` |
| | `TagsKept` | `TagsSpec => []FilteredAlone` |

The run `services` reaches `StorageSpec`, `HybridSpec`, `FiltersSpec`,
`SinkSpec` (`SinkInit /\ [][SinkNext]_sinkVars`) and `TagsSpec` through
`MCServices`, whose next step is a step of one of its components.

None of the properties is inductive. What each invariant adds, and why:

* `PurgeLoop`. `ListInv`: a record is in no list but its own, what the loop
  holds was pushed, is in no list, and is neither sent nor dropped, and these
  sets partition the pushed records. `WriterInv`: what a goroutine has still
  to write was sent and not yet written by its pump, and two goroutines of a
  pump have nothing in common. `UntimedInv`: a pump without timeout has a
  goroutine only while the loop waits for it. `AtMostOnce` follows from
  `WriterInv` (a record to be written has no copy yet), `ShutdownQuiet` from
  `UntimedInv` (the loop does not wait when it shuts down), and each action
  maps to one step of `Delivery` or to a stutter. For the order,
  `FullInv` adds that the records the loop holds come from the list it visits,
  that what is left of a list is the newest of what was pushed to it, that a
  chunk is newer than the chunks of its list before it. The order within a
  chunk is left to the pump: a newer record of the list that is already there
  is from the chunk its only goroutine writes.
* `MongoWrite`. `Packed` is the loop invariant of `AccumulateSet`: each record
  it looked at and kept is in the set being filled or in one batch, never in
  two, and after the last appended record the two are the same; this is where
  a skipped last record shows as the only gap. `Sized`: the running total is
  the size of the set being filled. `Inserted`, `Collected` and `Gathered` tie
  the goroutines, the organisations of the selective pump and the results in
  the channel to the batches: an error stays in the channel until `WriteData`
  reads it, in front of the nil that the same goroutine sends after it.
* `SqlWrite`. `PartInv`: the records between `done` and `end` are of one day.
  `LogInv`: the inserts of a call follow each other without a gap.
  `UntimedInv`: without a timeout the handle of the pump is at the table of
  the one call that runs. `ReasonInv`, `TargetInv` and `IndexInv` are the
  properties with the steps that lead to them; `InitInv` what the migrations
  leave.
* `Resurface`. `PlacesInv`: an accepted chunk is in one place: the queue, the
  worker, the hands of a `WriteData` that looks at a queue of a disabled pump,
  or written. `LineInv`: a later chunk gets ahead of an earlier one only if
  that one was taken out and put back. `UntimedInv`: without a timeout the
  calls use the open queue.
* `MongoAggregate`. `GroupsFollow`: the groups of a call are the records it has
  looked at, each in the group of its organisation, and the time of a group is
  set. `CopiesFollow`: a record has at most one copy in a collection for each
  run of its call before this one, and one more once this run has passed its
  organisation; when it has, there is one. What a run has still to write is
  `Pending`, so that a failed update after which the counters are there, and a
  second update that finds the document too large, both count as one. Every
  run that heals itself shortens the aggregation time (`HealBound`).
  `ErrorMeans`: with self healing an error is a failed statement, or a document
  too large at the shortest time.
* `Aggregation`. The first half of the module is about `Counters`: what
  `AddRecord` adds to a counter (`AddRecordFacts`: `Times` units in each of the
  dimensions of the record, tags as often as they occur, and which counters
  have an error map), and that each of the ways to merge, in memory, in SQL and
  in MongoDB, adds the parts of two counters (`SumUpFacts`, `MergeFacts`).
  `Follows` is the loop invariant of the aggregation: the counters of a call
  are sums over the records it has looked at, every dimension of these has a
  counter, every counter has a record, and a counter without an error map comes
  from the first record of its API. `RowInv`: a row is the sum over the calls
  merged into it, none of them twice. `Unapplied` and `Accounted`: what is left
  of a call is in no row, and what is not left is in its row; a statement that
  failed is not repeated, since it may have taken effect. `Excused` and
  `DeathExplained` carry the reason of a failure from the step where it shows to
  the rows and records that remain.
  The second half is about latencies, with `LInv` on top of `IInv`. `LatRight`:
  bounds and mean of a call's counter follow the records it has looked at.
  `RowBounds` and `RowMean`: those of a row follow the slices of its calls; the
  bounds go through the several ways to merge a maximum and a minimum, where a
  zero may stand for "nothing yet" (`RowMaxMore`, `RowMinMore`, `RowMinFirst`,
  `RowMinSame`). MongoDB writes the average in a second update, from the
  document the first returned: `SeenRight` says that this document was right
  after some prefix of the calls the row has by now, so that the average is that
  of some prefix; with `Alone` (without a timeout one call works at a time) it
  is current as soon as the second update is done (`MeanCurrent`).
* `Sinks`. One proof for all profiles: `Common` collects what the proofs need
  to know of them (which are buffered, which return errors) and is checked
  profile by profile. `Order` and `Shape` say what lies between the slice and
  the requests (what was offered, the batch, the rest, in this order) and that
  the batch keeps the limit, `Covered` that nothing the loop has passed is
  missing. `Fresh`: what was not offered is not with the backend, but for the
  tries of the request under way; `OncePerTry`, `OnceBuffered` and
  `OncePerCall` bound copies for the three kinds of clients. `Arrivals`: what
  was offered arrived, if the pump would have heard of a failure. `Exposes`,
  `Reasons` and `Stopped` give the rest. `Files` is about the CSV pump: a call
  that has no file yet has no row in it (`Opening`), one that runs and is not
  waited for was left behind (`Behind`), so that a call that creates the file
  overlaps whoever else has it open (`Sharing`), and a row is overwritten only
  by such a call (`Covering`); `Unfiled` counts a file that cannot be opened as
  a failure.
* `TemporalStorage`. `ConnectorInv`: the connector in the variable is a live
  one, or everybody was cut off from it, which takes a forced handler.
  `HandlerInv` and `ServedInv`: a handler whose `Init` succeeded has both views
  and reaches the storage, or was cut off.
* `Hybrid`. `ProgressInv`: how much of its data a call at each step has got to
  the server. `AloneInv`: without calls that overlap the two client fields
  agree and hold what the running call made. A death then has a call that is at
  the aggregation of a slice it cannot aggregate.
* `Filters`. `FilterInv`: no pump writes to the shared slice, and the array of
  a pump that filters begins with the changed form of each record it has let
  through so far. The place of a record is its rank, the number of records up
  to it that pass; `Ranks` relates it to the length `filterData` counts, and
  `Judged` that trimming does not change how a record is judged.
* `StatsdSink`. `OrderInv`: the datagrams, the buffer and the channel, one
  after the other, are what was emitted; it rests on what `processCmd` packs
  for any command (`ProcessKeeps`). `PlaceInv`: an emitted command of which
  something fits is still in the channel or has a metric among the packed ones.
  `OneDrainInv`: as long as no Drain or Stop crosses another, the state of the
  loop, the command in the channel and the caller that waits are of the same
  Drain. `DueInv`: what it waits for is packed or in the channel before its
  command, so that nothing is missing when the channel is found empty.
* `SharedTags`. `Shaped`: the fields of a filter fit its step, whatever others
  do to the array; `copy` has stored only what it has loaded. `TagsAlone`, of a
  filter that has the tags for itself: they are those at some increasing places
  of what it found, where a place not yet stored still holds what was there
  and a loaded tag is the one to its right; no innocent place is missing,
  an excluded tag the loop has passed is stepped over, and behind the length the
  array is blank. Only an empty entry matches a blank, which is why nothing
  else takes such a filter out of range. Another filter that begins ends all
  this, and `alone` with it.

The invariants were checked with TLC before they were proved. Sums and
positions need induction over numbers, for which the induction theorems of the
library cannot be used here (they take an operator as a parameter).
`DataFacts` has the one lemma that takes their place, for sets of numbers
(`InductiveSet`, from the least element of a set), and derives what the proofs
need from it: recursive sums exist (`SumsExist`), quotients and multiples.
`SizeOf` of `MongoWrite` and `Size` of `Sinks` are recursive functions, so
that these lemmas apply. `Recursion` and `RunOf` say the same of a recursive
function into any set; the flattening of sequences (`FlattenAppend`,
`FlattenHead`) and the packing of the sink rest on them.

Only model-checked: the liveness properties (`EveryRecordCollected`,
`HealthyPumpServed`, `WritersEnd`, `ShutdownCompletes`, `InsertersEnd`,
`WriteDataEnds`, `CallsEnd`, `SinkCallsReturn`: fairness and `ENABLED` are out
of the prover's reach), and one invariant: `MetricsFollow` compares sequences by
`SelectSeq` and folds with an operator as argument, which the provers do not
see through.

## 6. Not modelled, and why

* Conversion of records: msgpack and protobuf fields, graph and MCP records,
  documents and messages of each backend. It is data without state; a value
  either decodes or does not.
* Start-up: configuration, secrets, and the `Init` of pumps other than the SQL,
  hybrid and Prometheus pumps. It runs once on one goroutine before the loop
  starts and is mostly parsing. `Pump` is the set of the pumps that
  initialised; the uptime pump is used even when its `Init` failed (listed as
  a hazard).
* Uptime data, indexes and capped collections of the MongoDB pump: one call
  each of the driver, whose treatment of a nil document is outside the source.
* Client libraries and backends. They are the nondeterministic outcomes of
  `InsertBatch`, `Insert`, `Upsert`, `WriteRecord`.
* Options of the Redis connection, IAM tokens.
* The health check, logging, profiling, demo data, generated code.
* The parts planned below.

## 7. Plan

What is left, in this order.

1. Proofs: `MetricsFollow` of `Metrics`, once its folds are recursive functions.
2. Abstract specifications: "counted once", which `MongoAggregate` implements
   without self healing, and a "stream" that `Resurface` implements between
   flushes and `StatsdSink` between Drains.
3. Index and uptime handling of the MongoDB pump, connecting of the
   Elasticsearch pump, choice of the sampling rate of the Moesif pump.
