# Verification of the OTel-Arrow adapter

This directory holds TLA+ specifications of the OTel-Arrow adapter, the TLC
configurations that check them on small instances, and TLAPS proofs of the
properties that hold for every instance. Paths below are relative to `src/`.

Contents: [the system](#the-system), [modules](#modules),
[from code to model](#from-code-to-model), [runs](#runs),
[bounds](#bounds), [fairness](#fairness), [proofs](#proofs),
[disagreements between code and documentation](#disagreements),
[what is not modelled](#what-is-not-modelled), [plan](#plan).

Run a configuration with `tlc -workers 2 -config ExporterStreams.cfg MCArrowExporter`
and the proofs of a module with `tlapm ArrowExporterProofs.tla`. [Runs](#runs) names the
module of each configuration, [Proofs](#proofs) the modules with proofs.

## The system

An OpenTelemetry collector exports traces, logs and metrics. The adapter encodes
each batch as Apache Arrow records and sends it over one of a few long-lived
bidirectional gRPC streams; the receiving collector decodes it, hands it to its
pipeline and returns a status for it. Both ends of a stream keep encoding state:
schemas, dictionaries and a header table.

    caller --SendAndWait--> Exporter --ready channel--> Stream.write --encode--> Producer
      ^                                                   |                        (IPC writers)
      |                                                   v gRPC stream
      +--- errCh --- Stream.read <--- BatchStatus --- anyStream --Consume--> Consumer
                                                       (hpack, auth)         (IPC readers)

### Components

`E` below is `collector/gen/exporter/otlpexporter/internal/arrow`.

**Stream controller** (`E/exporter.go`). State: the number of running streams, the
`returning` channel, a WaitGroup, the background context. It starts `numStreams`
streams, restarts each that comes back, counts down those whose endpoint does not
know the Arrow service, and closes the ready channel when none is left
(downgrade to plain OTLP). `Shutdown` cancels the background context and waits.
It is correct when every goroutine is accounted for, when the downgrade happens
only after the streams are gone, and when no send blocks for ever.

**Stream** (`E/stream.go`). Two goroutines: `run`, which opens the gRPC stream,
reads statuses and cleans up, and `write`, which offers the stream to callers,
encodes and sends. Shared state: `toWrite` (one slot), `waiters` (batch id ->
response channel), `client`. Correct when each caller gets exactly one answer,
when a status finds the caller whose records were judged, and when a broken
stream releases everybody.

**Stream prioritizer** (`E/prioritizer.go`). The ready channel, with one slot per
stream. Streams queue themselves; callers take them; a writer whose context ends
searches the channel for its own stream, putting others back. Correct when the
channel never overflows, nothing is sent after it is closed, and a stream is at
one place at a time.

**Producer** (`pkg/otel/arrow_record/producer.go`). One per stream; a map from
schema ID to IPC writer, ids for sub-streams and batches. A batch is a main record
followed by related records (attributes, events, ...); each record is written to
the sub-stream of its schema. Correct when the decoder can follow every schema
change and every dictionary delta.

**Adaptive schema** (`pkg/otel/common/schema/...`). A record builder starts with
optional columns absent and with the smallest dictionary indices. A value for an
absent column, or a dictionary overflow, requests a schema update; the record is
built again. Correct when the retries end and the counters of a failed attempt do
not leak into the next.

**Encoders and decoders** (`pkg/otel/{traces,logs,metrics}/{arrow,otlp}`,
`pkg/otel/common/{arrow,otlp}`). Entities are sorted and grouped by resource and
scope and numbered; events, links, data points, exemplars and attributes go to
related records, sorted in their own way, whose parent ids are written as
differences. A manager builds related records in the order in which they were
declared; building one fills the accumulators of others. Each row is then written
column by column: zero values are left out, columns without values are not there,
and the readers have defaults. Correct when decoding inverts encoding.

**Consumer** (`pkg/otel/arrow_record/consumer.go`). A map from sub-stream id to IPC
reader, each with a memory limit. Correct when what is returned without an error
is what was encoded.

**Arrow receiver** (`collector/gen/receiver/otlpreceiver/internal/arrow/arrow.go`).
One loop per stream: receive, decode headers, authenticate, consume, answer.
Correct when it answers each batch once, truthfully, and keeps the decoder's state
in step also for batches it refuses.

**OTLP exporter** (`collector/gen/exporter/otlpexporter/otlp.go`). Keeps a gRPC
connection and an Arrow exporter. A push goes to Arrow first, and to plain OTLP if
Arrow says that it cannot; errors are classified as permanent, to be retried, or to
be retried after a delay. Correct when the answer says what became of the data.

**OTLP receiver** (`collector/gen/receiver/otlpreceiver`) and **shared component**
(`collector/gen/internal/sharedcomponent`). One receiver serves all signals of a
configuration: a gRPC server with OTLP and Arrow services and an HTTP server. Each
signal registers a consumer, and each starts and stops the receiver; the wrapper
lets the first Start and the first Shutdown through and then forgets the receiver.
Correct when every signal is served after Start, when requests that are under way
are finished before their pipeline goes, and when Shutdown ends.

**Experiment processor** (`collector/processor/experimentprocessor`). Each request
goes to the exporters of one route of a table, drawn by weight.

**Around them**: the memory allocator with a limit, network statistics,
configuration, Arrow utilities; benchmarks, data generators, tools, generated
protocol code and test support. `PROJECT.json` lists them all with their sources.

### What is hard

* Concurrency: per stream two goroutines, any number of callers, one controller
  and Shutdown share four channels, a mutex-protected map and contexts. The code
  argues about races in comments (`stream.go:258-275`, `prioritizer.go:45-48`).
* Failure: a stream can break before, during or after any send; encoding may
  panic; credentials may fail; endpoints may not know the service, also late.
* Ordering: a status may come before the caller waits for it, or twice, or for an
  id nobody knows; a deadline races an answer; shutdown races everything.
* State at two ends: dictionaries, schemas and header tables are only correct if
  both ends process the same payloads in the same order.
* Boundaries: dictionary index widths, 16-bit ids, a memory limit, weights.
* Absent data: no id, no column, no struct, each read back as something.
* Retries inside the encoder: what a failed attempt left in accumulators, sorters
  and dictionaries meets the next.
* Start and stop of a component that several pipelines share.

The hazards are listed with their lines and the properties that cover them in
`PROJECT.json`.

## Modules

| module | what it is |
| --- | --- |
| `ArrowExporter` | The stream controller, its streams, the prioritizer and the callers, one action per step between two points where another goroutine can act. |
| `SendContract` | What `Exporter.SendAndWait` promises: a call returns once, and what it returns follows from the verdict on its records. |
| `ExporterContract` | The refinement mapping from `ArrowExporter` to `SendContract`. |
| `MCArrowExporter` | Symmetry for TLC. |
| `ArrowExporterProofs` | Theorems about `ArrowExporter`: types, where streams and items are, how streams, queues and channels end, what becomes of calls and batches, and the refinement of `SendContract`. |
| `ArrowRecordStream` | One stream from `Producer` to `Consumer`: sub-streams, schema changes, dictionary deltas, header compression, the receiver's loop. |
| `ArrowRecordStreamProofs` | Theorems about `ArrowRecordStream`. |
| `SchemaAdaptation` | One payload type at the encoder: optional columns, dictionary index types, and the loop that builds a record again after a schema update. |
| `MCSchemaAdaptation` | A small prototype schema for TLC. |
| `SchemaAdaptationProofs` | Theorems about `SchemaAdaptation`. |
| `RelatedRecords` | Accumulators, sorting, ids and parent ids as differences of limited width, and their inverse. |
| `Attributes`, `ResourceScope` | Attributes of any entity; resources and scopes in a main record. |
| `Traces`, `Logs`, `Metrics` | The encoder and the decoder of a signal as operators: how a batch is flattened, grouped and rebuilt. |
| `Signals`, `MCSignals` | The producer and the consumer around them as a state machine: a main record, related records in their order, retries, the next batch. |
| `RecordsProofs` | Lemmas about the operators of `RelatedRecords`, `Attributes` and `ResourceScope`, for lists of any length. |
| `SignalsProofs` | Theorems about `Signals`, for all batches and all widths of ids. |
| `ColumnValues` | What each column builder writes for a value and each typed reader makes of it. |
| `CommonColumns`, `SpanColumns`, `LogColumns`, `MetricColumns`, `EHistogramColumns` | Every column of every kind of record, written and read. |
| `Columns`, `MCColumns` | Batches of rows of one kind through the columns, with a schema that grows. |
| `ColumnsProofs` | Theorems about `Columns`, for all values of all fields. |
| `OtlpExporter` | What a push may come to and what the retry logic is told. |
| `OtlpReceiver` | The receiver's servers, services and answers. |
| `ExperimentProcessor` | The routing table. |
| `Collector`, `MCCollector` | These three composed: a collector built, started, used, stopped and built again. |
| `CollectorProofs` | Theorems about `Collector`. |
| `BoundedInduction` | Induction over the numbers up to a bound, for the proofs. |

`ArrowExporter` and `ArrowRecordStream` meet at the gRPC stream. The first treats
the server as an environment that answers batches in any order, late or never; the
second treats the exporter as a source of batches and follows one stream's data.
An `EncodeFails` or a `ReceiveError` of the first is an `EndSending` or a
`RecvFails` of the second; every stream of the first has a producer and a consumer
of its own (`exporter.go:186`, `arrow.go:283`), so the second models one stream.

`ArrowRecordStream` takes from `SchemaAdaptation` that a schema update may come with
any batch, brings a schema never used before and starts with empty dictionaries.
That is what `SchemaOnlyGrows` and `FreshDictionariesMeanNewSchema` establish.

`Signals` and `Columns` divide the data of a batch between them: `Signals` has the
relations between rows (order, ids, parents, attributes) and one `data` value for all
other fields; `Columns` has the fields of a row and no relations. Neither has
dictionaries: `SchemaAdaptation` says that a finished record holds what was appended,
`ArrowRecordStream` that it arrives.

`Collector` uses what the other models establish at its two ends. `OtlpExporter`
takes the outcomes of a push over Arrow from `SendContract` (with the case
(false, nil), which falls back to OTLP); `ReceiveArrow` is one batch of an
`ArrowRecordStream`.

A definition whose comment begins with "Mutant" is a plausible bug. Each property
of a passing run has one that makes TLC report the property; no specification
uses them.

## From code to model

### ArrowExporter

`Stream` is a set of names of Stream objects, `Request` the set of calls.

| code | model |
| --- | --- |
| goroutine of `Stream.run` / `runArrowStream` | `spc[s]`: off, spawned, dialing, read, stopping or unsupported, returning |
| goroutine of `Stream.write` | `wpc[s]`: off, setReady, select, encode, send, remove, putBack, done |
| `runStreamController`, `Shutdown`, `SendAndWait` | `cpc`, `shutdown`, `rpc[r]` |
| `streamPrioritizer.channel` and its closing | `ready`, `downgraded` |
| `toWrite`, `waiters`, `client`, the per-stream cancel | `toWrite[s]`, `waiters[s]`, `client[s]`, `cancelled[s]` |
| `errCh` of a call | `errCh[r]` |
| `returning`, `running`, `wg` | the same names |
| the stream in the hand of a caller or a removal | `hold[r]`, `alternate[s]` |
| history, not in the code | `sent` (batches the server has), `verdict`, `result` |

Decisions a reader should know:

* A stream object nobody refers to any more may be taken for a new stream
  (`Reusable`). Restarts are thereby unbounded in a finite state space. The number
  of names limits only how many objects can be alive together.
* A response channel is identified with its call. That is sound because a call
  waits for one answer at a time and, as `OneReplyPerCall` shows, a channel has one
  holder; a caller that gave up may still be answered.
* gRPC refuses to open a stream on a context that is already cancelled; one that is
  cancelled during the attempt may succeed or fail (`MayDial`, external).
* The server may answer each batch it holds with any status, answer an id nobody
  sent ("stray"), or end the stream with Unimplemented or any other error.
* The select statements of Go choose freely: each ready case is a disjunct.
* `EndpointRefuses`, `CredentialsFail` and `DisableDowngrade` say which faults and
  options an instance has.

### ArrowRecordStream

| code | model |
| --- | --- |
| `RecordBuilderExt` (schema, dictionaries) of a payload type | `schema[t]`, `values[t]` |
| `Producer.streamProducers`, `nextSubStreamId`, `batchId` | the same names |
| the payloads appended so far by `Produce` | `building` |
| `hpack` encoder and decoder tables | `hpackEncoder`, `hpackDecoder` |
| the gRPC stream | `wire` |
| `anyStream`'s position, its request, `Consume`'s rest and result | `pc`, `req`, `left`, `ibes` |
| `Consumer.streamConsumers` | `streamConsumers`, with `reader` nil, open or failed |

A dictionary is a sequence of values, each named by the schema version and its
number; a delta is a subsequence. Of a record one row is followed, an index into the
dictionary, chosen when it is read because nothing looks at it before. `means` is
the encoder's dictionary: it is not on the wire and only properties use it. The IPC
writer and reader of the Arrow library are external: a writer sends the schema once
and then dictionary deltas, a reader appends deltas, and after an error it returns
nothing more (`consumer.go:205-219` is written for that). Related records are
produced in the order they were declared, after the main record; those without rows
are left out.

What the code no longer refers to is gone from the state too: the writers and
builders of a producer that was closed with its stream (`EndSending`), the readers of
a receiver that returned or panicked (`NothingLeft`), the payloads and records of a
batch that was answered or refused (`Dropped`).

What the decoder makes of a batch (`RelatedDataFrom`, then `TracesFrom`, `LogsFrom` or
`MetricsFrom`) depends on values no other step looks at. `Decode` and `DecodePanics`
therefore choose it, as one of `Data`: it decodes; it fails, which `processRecords` makes
permanent and answers INVALID_ARGUMENT; it is lost, because `TracesFrom` and `LogsFrom`
drop the error of `RelatedDataFrom` (`consumer.go:119`, `consumer.go:144`) and the batch is
answered OK with nothing in it; or it panics. `data` remembers the choice, or "others"
when the values were not those the producer encoded. Only a row outside its dictionary is
no choice (`RowPanics`). Which data fails or panics is in `Columns` and `Signals`.

`AuthMayFail` and `LimitMayHit` say whether an instance has an auth extension that
may reject batches and records that may exceed the memory limit.

### SchemaAdaptation

| code | model |
| --- | --- |
| transform tree: `NoField` transforms, `DictionaryField.currentIndex` / `indexTypes` | `optional`, `index` (0: the value type, no dictionary) |
| `SchemaUpdateRequest.Count() != 0` | `pending` |
| `RecordBuilderExt.recordBuilder`: schema, dictionaries, rows | `columns` and `width`, `memo`, `rows` |
| the loop of `recordBuilder` / `Build` of related records | `pc`, `entity` (the batch), `next` (the row), `updates` (`schemaNotUpToDateCount`), `record` |

A row gives each field of the prototype schema, nested ones included, a value or
null; `Path` says what a field is nested in. `AppendRow` puts one row through all
column builders: a value without a column removes the `NoField` transform and
requests an update, a value of a dictionary column is looked up or added.
`NewRecord` is one of three actions: `AddColumns` when a column was asked for,
`WidenIndices` when a dictionary of the finished record no longer fits its index
type, `Accept` otherwise. The first two end in `UpdateSchema`, which takes the
schema from the tree and empties the dictionaries (`copyDictValuesTo` is commented
out in the code, `record.go:256-262`). Each `Build` then fetches its column builders
anew, in the same step of the model.

An index is stored in as many bits as its type has, so that an overflow found only
after the record was built leaves wrapped indices behind; that such a record never
leaves is part of `RecordIsEntity`. `MaxCard` is rounded up to what an index type
holds, as `indexTypesRange` does.

### Signals

A batch is a sequence of resources, each with scopes, each with entries, as in
pdata. `Optimize` gives the rows in the order of the encoder with their resource
and scope numbers, as `optimizer.go` does.

| code | model |
| --- | --- |
| `Producer.recordBuilder` for a signal, and its schema updates | `Take`, `BuildMain`, `updates` |
| `RelatedRecordsManager.BuildRecordMessages`: the builder in turn, each try of its loop | `next`, `SkipEmpty`, `BuildAttrs16`, `BuildAttrs32`, `BuildWithAttrs`, `BuildDataPoints` |
| accumulators and their group counters | `accu[type]` |
| what a sorter remembers of the row before | `sorters[type]` |
| records of the batch | `main`, `records[type]` |
| `TracesFrom`, `LogsFrom`, `MetricsFrom` with their related data | `Decode`, `received`; phase "unreadable" when `AttributePanics` |

* Whether a try ends in a schema update is a free choice, up to `MaxUpdates`;
  what it asks for is in `Columns` and `SchemaAdaptation`.
* A try that is not the last still has appended rows to the accumulators of
  others, and left its sorter's memory behind: both are kept. `prev` of the
  exponential histograms' exemplars is that of histograms, because
  `metrics/arrow/config.go` gives them the same sorter.
* Ids wrap at `MaxUint16` and `MaxUint32`; the guards that panic are kept.
* The decoders of attributes compare the first row with the key "" and a nil value
  (`attributes_new.go:402` and `:432`), so they panic at an empty key there
  (`NilValue`). Entries with an empty key are skipped for rows and what they hold
  (`AppendWithID`), not for resources and scopes; sorted, they come first among values of
  their type. Further down in a record they are decoded like others.
* Keys, names and trace ids are numbers in the order of their strings. An attribute
  value without a type panics, as `ValueID` and the sorters do not know it.
* Related data of rows with equal content is compared as sets where the code keeps
  no order.

### Columns

A kind of record has optional columns, each with the call its encoder makes for a
row: the cell it would write, and whether it asks for the column if there is none.
`UpdateSchema` adds what the rows of the batch ask for, `Build` writes them,
`Read` decodes row after row until one is refused. `ColumnValues` has one operator
per builder and per reader; the columns of a struct are asked for as
`struct.go` does. The first row of attributes is read with no row before it
(`NoPrevious`). Zero stands for the zero value of each type, `Null` for a null cell
and for optional fields that are not set. Maps and slices are serialised as CBOR,
where an empty byte array loses its type.

### Collector

| code | model |
| --- | --- |
| the service of the collector, which is not in the repository | `phase`, `turn`: build, start (exporters, processors, receivers), stop (receivers, exporters), in this order, signal by signal |
| `SharedComponents` | `shared`, `handle` |
| every `otlpReceiver` there has been, also of earlier generations | `receivers` |
| `baseExporter` of a signal and name | `exporter` |
| `router.routes` | `routes` |
| a request on its way through receiver, router and exporters | `request` |

`Start` of the receiver is two actions, one per server, because requests can arrive
between them; `Shutdown` is four. A failed start leaves what it started behind,
as in the code, and the service then stops everything. A server may lose its listener.
Requests come over HTTP, gRPC and an Arrow stream at any moment at which a server
takes them, also during start and stop. Helpers of the collector's library (retry,
timeouts) are external: errors that are not permanent are tried again until
`MaxTries`; the sending queue is off, because with it on the receiver answers before
the exporters did anything.

## Runs

Passing:

| run | module and configuration | question | states |
| --- | --- | --- | --- |
| `exporter_streams` | `MCArrowExporter`, `ExporterStreams` | Two streams (three stream objects) and two calls with failures, refusal, downgrade and shutdown: do channels overflow, does a call get two answers or none, is a stream lost or left behind? | 940 000 |
| `exporter_calls` | `MCArrowExporter`, `ExporterCalls` | Three calls compete for one stream slot with two stream objects, failing credentials and all statuses: does the hand-off block, does a status miss its caller, is a judged batch sent again, and does the whole implement `SendContract`? | 760 000 |
| `exporter_liveness` | `MCArrowExporter`, `ExporterLiveness` | Under fairness: do calls return after their deadline, do broken streams finish, does Shutdown return? | 54 000 |
| `stream` | `ArrowRecordStream`, `Stream` | A main and a related record, three batches, schemas changing, batches rejected, the memory limit reached: is what is answered OK what was encoded, is a batch called invalid for anything but its own data, do dictionaries and header tables stay in step? | 2 910 000 |
| `schema_adaptation` | `MCSchemaAdaptation`, `SchemaAdaptation` | A nested optional column and two dictionaries that start with different index types, any number of batches: does a rebuilt record hold exactly its batch, how many rebuilds does a batch need, and do empty dictionaries always come with a new schema? | 49 000 |
| `signals` | `MCSignals`, `Signals` | Two batches of each signal, with a schema update at any point: does every row, event, link, data point and attribute come back under the entity it was sent with, and what does an empty key do? | 50 000 |
| `columns` | `MCColumns`, `Columns` | All thirteen kinds of records, two batches, rows with zeros in all places: does every field come back? | 49 000 |
| `collector` | `MCCollector`, `Collector` | Two signals, three exporters, two generations of a collector: are answers true, are routes drawn by weight, does every signal have its servers, do requests find their exporters, and does stopping end? | 630 000 |

The properties, and what they rule out:

* `HandOffNeverBlocks`: two callers on one stream, or a left-over item, would block
  a caller past its deadline.
* `OneReplyPerCall`: a second answer would block a stream on a full channel; no
  answer would leave a caller to its deadline.
* `SentBatchHasItsWaiter`: a status of a correct server would break the stream.
* `ReadyNeverOverflows`, `NoSendOnClosedChannel`, `ReturnNeverBlocks`: the three
  places where the code relies on a channel's capacity or on it being open.
* `WaitingStreamIsFindable`, `NoStaleStreamBeforeShutdown`: removal terminates, and
  leaves nothing behind.
* `ShutdownWaitsForStreams`: no goroutine survives Shutdown.
* `NoResendAfterVerdict` (action property): the internal retry repeats only batches
  without an outcome.
* `KeepsContract` (refinement): see `SendContract`.
* `CallReturns`, `BrokenStreamFinishes`, `ShutdownCompletes` (liveness).
* `DictionariesInStep`: reader's dictionary plus deltas in flight equals what the
  writer has written. `HeadersInStep` is the same for header tables.
* `OkMeansDelivered`: a batch answered OK reached the decoder as it was encoded.
* `GoodBatchAccepted`: a batch called invalid, which the exporter then drops for good,
  or a collector taken down, because the two ends disagree about a schema, a dictionary
  or a reader. What remains is the batch's own data, which the decoder may refuse or
  panic at: `BatchesReadBack` and `OnlyEmptyKeysUnreadable` say at which.
  Both properties speak of a stream on which no batch was rejected and no record skipped
  so far; what happens after that is under [Disagreements](#disagreements).
* `OneSubStreamPerType`: a long stream with many schema changes keeps one writer
  and one reader per payload type.
* `RecordIsEntity`: a lost or wrapped value, a row or dictionary entry left over from
  a void attempt.
* `FewUpdates`: the panic of `recordBuilder` after more than five updates. Two
  suffice: the appenders of columns nested in a missing column are called all the
  same, so one attempt asks for every column.
* `FreshDictionariesMeanNewSchema`: a sub-stream whose dictionary starts twice.
* `SchemaOnlyGrows` (action property): schemas that alternate; with it each payload
  type has finitely many.
* `RowsKeepAttributes`, `ItemsFindTheirOwner`: an id counted wrongly, a difference
  taken against the wrong row, a sorter that remembers a row of the attempt before,
  a record built before the one that fills it.
* `PlacedWhereSent`: a row under another resource or scope, or one that lost some of
  its attributes, for batches in which differences can tell them apart
  (`WellSeparated`): each row continues the resource and the scope of the row before, or
  begins another of both, with attributes on either side, and then the row before began
  none (`Begins`). The conditions are there because the code does not keep the others, as
  `round_trip_loses` shows. That a row continues (`Continues`) asks for the same resource
  and scope and not only for the same identifiers, in which values of different types can
  look alike. It speaks of batches that were decoded; which are not is the next one.
* `OnlyEmptyKeysUnreadable`: a panic of the attribute decoders for any other reason than
  that a resource or a scope of this batch has an attribute with an empty key: an empty
  key of a row, an event, a link, a data point or an exemplar that was not skipped, or
  one left behind by an earlier batch or attempt.
* `FewEntitiesNeverPanic`: counters that grow over attempts or batches until a guard
  panics.
* `BatchesReadBack`: a builder that leaves a value out and a reader with another
  default, and columns missing in one batch and there in the next. What the code
  loses is named in `Kept`, the rows at which a decoder stops in `Breaks`.
* `AnswersAreTrue`: success answered although one exporter of a route lost the data;
  a client told not to try again although no endpoint said so.
* `RoutesByWeight`: a route that gets one draw too many.
* `StartedMeansServing`: a second generation that gets the stopped receiver of the
  first; a signal whose services were registered too late.
* `PipelineOutlivesRequests`: exporters shut down under a request. The exception is
  an HTTP request at which `http.Server.Shutdown` gave up.
* `StopCompletes` (liveness): a shutdown that waits for what never ends. An Arrow
  stream its client keeps open is the exception, and a real one.

## Bounds

* Two names for streams are enough for a stream that is removed while another is in
  a removal's hand, for a restart that meets its predecessor, and for the last-stream
  downgrade; the hand-off and removal races are between two streams at a time. One
  slot with two names exercises the restart of a single stream with stale entries
  left by shutdown.
* Two calls meet in every race between a consumer that got a stream first and one
  that comes later; three in `exporter_calls` let two wait while one is answered.
* Batch ids: as many as a stream can carry in an instance, so that the bound is
  never reached (a stream carries a call at most once).
* Two statuses, one OK and one error, stand for all in `exporter_streams`;
  `exporter_calls` uses the ones the code tells apart.
* `ArrowRecordStream`: three batches are the shortest history in which a payload
  is rejected, a delta is lost and a later row is decoded; two payload types
  separate a clean-up of one from the other; two values make deltas that follow
  each other. Rows refer to any value of the dictionary. One batch is in flight
  while the producer builds the next, so that the schema changes while the receiver
  is behind; `rejected_batch_corrupts_next` has two in flight.
* `SchemaAdaptation`: index types that hold 1, 2 and 3 values stand for 8, 16 and 32
  bits. `MaxCard` 2 makes the third one unusable, so that a dictionary goes through
  a wider index to none. Four values overflow it within a batch and across batches.
  Two rows per batch let one row ask for a column and the other overflow a
  dictionary; batches are unbounded in number. A struct with one optional column
  inside is the shortest nesting. The proofs need none of these bounds.
* `Signals`: three rows are the shortest batch in which a row stands between two
  others with or without an id. Sorting, grouping and differences look at two
  neighbours; sets of rows contain every combination of the alternatives (with and
  without attributes, events, links, points, exemplars, of equal and of different
  names). Ids are 0 to 3 and 0 to 5, so that guards and wrap-around are reached by
  small batches. The second batch is fixed: it meets everything the first
  left behind. One schema update may come at any record.
* `Columns`: rows are all zeros or without zeros, and each of these with one field
  changed, two in the first batch, one in the second: a column is there because of
  the other row, because of the batch before, or not there. Columns depend on each
  other only through structs and types of values, which the variants have.
* `Collector`: two signals are enough to be first and second at a shared component;
  one of them has two exporters, so that one can fail alone. One request at a time
  comes on each of its ways; requests meet each other only in the receiver's
  counters. Two tries distinguish the last from others. Two generations let a
  rebuilt collector meet the receiver of the first. Four codes stand for success,
  retryable, permanent and the one that depends on a delay.

`CHECK_DEADLOCK FALSE` is set for `ArrowRecordStream`, `Signals`, `Columns` and
`Collector` because a stream ends, the batches of an instance are used up, and a
collector stops for good or crashes. In
the exporter instances an explicit final step stands for the finished system, so
deadlock is checked.

## Fairness

`FairSpec` assumes of each goroutine that it takes a step it can take for ever
(weak fairness): that is what the Go scheduler gives. Of gRPC it assumes only that
a call on a cancelled context returns; a healthy call may hang for ever. Of the
server, of callers, and of when Shutdown is called it assumes nothing. Strong
fairness is assumed in two places:

* the deadline of a caller: a select in which the context is done again and again is
  eventually left through it, because Go chooses among ready cases at random;
* `removeReady` finding its own stream (and its put-back, so that the queue moves).
  Two removals can rotate the queue in lockstep, each taking the other's stream
  for ever. Random selects and scheduling rule that out in practice; the code has
  nothing else against it.

`Collector` assumes (weak fairness) that the service goes on stopping once it has
begun, and that the pushes and answers of a request go on: the retry logic gives up,
and an endpoint answers or the call times out (`timeout` of the exporter). It
assumes nothing of clients, of starting, or of Arrow streams. The other models have
no liveness properties and no fairness.

## Proofs

TLC checks instances; the theorems hold for every value of the constants that the
assumptions admit. They cover every safety invariant and every action property of
the runs of the six models, and the refinement `KeepsContract`. What stays with TLC
alone is liveness.

### Assumptions

They stand in the modules that declare the constants, and TLC evaluates them in each
run.

* `ExporterAssumption`: at least one stream, Boolean options, batch ids that are numbers,
  the status codes the code tells apart, and names for nothing apart from streams and
  calls. `StreamAssumption` of
  `ArrowExporter`: finitely many names of Stream objects. The code has no bound on them,
  but at any time only finitely many exist, and counting them needs it.
* `StreamAssumption` of `ArrowRecordStream`: natural numbers as limits, and a first
  payload type.
* `SchemaAssumption`: what a field is nested in is a set of fields with the field
  itself, index types and limits are numbers, `NoValue` is neither a value nor a number.
* `CollectorAssumption`: signals and exporters have names, tables are sequences of a
  weight and names, configurations are those there are. Weights may be anything here:
  `Validate` is part of the model.
* `WidthAssumption` and `BatchesAssumption` of `Signals`: the largest ids are positive
  numbers, a batch is made of lists (finite sequences of anything) of resources, scopes
  and entries, an attribute is a key and a value. Types of exemplar values are numbers;
  an exemplar without one has no content, and a metric without a type no data points, as
  in pdata. Nothing is assumed about keys, names, trace ids or how many of anything there
  are.
* `ColumnsAssumption`: which fields a row of each kind has. Numbers, strings and ids are
  integers, of which only "zero or not" and "equal or not" are used; fields that a type of
  metric does not have are zero, as in pdata; `Null` is none of the values.

One theorem has a hypothesis of its own: `WaitingIsFindable` assumes
`~CredentialsFail`. Without it the property is false, and
`credentials_lose_stream` is the run that shows it.

### ArrowExporter

All in `ArrowExporterProofs`. Where streams and items are:

* `TypeCorrect`: `Spec => []TypeOK`. `TypeOK` also says which program counters go
  together, for instance that a writer that encodes has an item and that a writer
  runs exactly while its stream is open. One lemma per group of actions
  (`Type...`).
* `StreamInOnePlace`: `Spec => []OnePlace`. A stream is once in `ready`, or in one
  caller's hand, or in one removal's hand, or has an item queued, and these exclude
  each other; a stream whose writer is busy publishing, encoding or sending is at
  none of them. One lemma per group of actions (`OnePlace...`), resting on
  `AppendOnce` and `TailOnce` about queues without repetition.
* `HandOffFree`: `Spec => []HandOffNeverBlocks`. `HandOffNeverBlocks` alone is not
  inductive: nothing in it says that a stream in a caller's hand is not also in the
  ready queue, from which a second caller could take it. `OnePlace` together with
  `TypeOK` is inductive and implies it.

What becomes of calls and batches, in four layers, each an invariant that the next one
needs:

* `Batches` (`BatchesTracked`), for `StatusFindsWaiter`: `Spec =>
  []SentBatchHasItsWaiter`. That a batch at the server has its waiter is not
  inductive. An id is never given again while something is known of it (`UnusedFrom`),
  and between the registration and the send the waiter is there although the server
  has nothing yet.
* `Replies` (`RepliesTracked`), for `OneReply`: `Spec => []OneReplyPerCall`. A call's
  item is queued, or with one writer, or with one batch id, and at most one of these
  (`OwedOnce`). Once there is an answer in its channel it is none of them, and a call
  that waits is owed an answer or has one. Retries begin with nothing owed.
* `Verdicts` (`VerdictsTold`), for `NoResend`: `Spec => NoResendAfterVerdict`. Judged
  records are owed nothing, and the answer in the channel tells the verdict; only
  "restarting", which goes with no verdict, is retried.
* `ExporterImplementsContract`: `Spec => KeepsContract`. The mapping (`callState`) maps
  initial states to initial states (`ContractInit`); in `ContractStep` every action maps
  to one of the contract or to a stutter, given `Batches`, `Replies` and `Verdicts`.
  A `ReceiveSomeStatus` is a `Judge` of the contract because by `Verdicts` nothing
  judged the records before; an `Answered` is a `Return` with what the verdict says.

How streams, queues and channels end:

* `NoStaleStream`: `Spec => []NoStaleStreamBeforeShutdown`, from `PlacedHasWriter`: a
  stream that is in any place where one can be found has a writer that waits or
  searches, until shutdown. `WaitingIsFindable` is the converse (`WriterIsPlaced`). One
  lemma (`PlacesStep`) says for both what a step may do to places and writers.
* `ReturnFree`: `Spec => []ReturnNeverBlocks`; `ClosedChannelUnused`:
  `Spec => []NoSendOnClosedChannel`; `ShutdownWaits`: `Spec =>
  []ShutdownWaitsForStreams`. All three are consequences of `StreamCounts`: the
  controller's count is that of the goroutines that have not returned and of the
  returns not yet read; `wg` counts itself and the unfinished ones; a downgrade leaves a
  count of zero.
* `ReadyHasRoom`: `Spec => []ReadyNeverOverflows`. Those in the channel are not enough to
  count: streams that will yet be sent to it are `Eligible` too. Their number is at most
  `NumStreams` because before shutdown they are all active, and afterwards none
  joins them.

### ArrowRecordStream

`ArrowRecordStreamProofs`, for every number of payload types, schema versions,
dictionary values, header entries and batches, on the wire or in all:

* `TypeCorrect`, `HeaderTables` and `OneSubStream`: `Spec => []TypeOK`,
  `Spec => []HeadersInStep` and `Spec => []OneSubStreamPerType`. They are inductive
  together (`Typed`): the receiver's table stays within its size because it is the
  exporter's without the entries in flight, which `LiteralsOfAppend` and
  `LiteralsOfTail` count.
* `OkIsDelivered`: `Spec => []OkMeansDelivered`, and `GoodBatches`:
  `Spec => []GoodBatchAccepted`. Neither is inductive: they speak of the batch in
  hand, and what it can be read with was decided by payloads sent long before. The
  invariant `Delivering` therefore orders all payloads in flight: what is left of the
  batch in hand, the batches on the wire and the batch being built are segments
  (`Segments`), a place in them is a cell, a reader counts as a payload before all
  others and a writer as one after all others. `Linked` says two things. `Ordered`:
  what comes later is of a newer sub-stream of its type, or of the same one and then
  brings only values beyond those already meant (`Follows`). `Rooted`: each payload
  begins its sub-stream with its schema and whole dictionary, or extends exactly what
  some payload, or the reader, before it left (`Extends`). Reading, writing, sending,
  receiving and dropping payloads keep `Linked` (`LinkedRead` and the lemmas beside
  it). The first payload then has nothing before it but its reader, so it can be read
  and means what was encoded, and the decoder gets nothing else (`HeadOfChain`,
  `NextPayload`); that the reader may drop
  the sub-stream it replaces rests on `ReaderSuperseded`.
  A batch that is rejected, or a record that is skipped, breaks the chain; that is
  the assumption `intact` of both properties and the finding
  `rejected_batch_corrupts_next`.
* `Dictionaries`: `Spec => []DictionariesInStep`. In every state it follows from
  `Linked`: going from cell to cell, the deltas of a sub-stream so far add up to what its
  latest payload means (`Reached`, one step in `Joined` and `OneMore`), by an induction
  over the payloads of a segment inside one over segments. The writer is the last
  payload.

### SchemaAdaptation

`SchemaAdaptationProofs`, for every prototype schema with every nesting, every
ladder of index types, cardinality limit and batch size:

* `TypeCorrect`: `Spec => []TypeOK`.
* `TwoUpdatesSuffice`: `Spec => [](FewUpdates /\ pc # "panicked")`.
* `RecordsAreEntities`: `Spec => []RecordIsEntity`.
* `NewSchemaTheorem`: `Spec => FreshDictionariesMeanNewSchema`.
* `GrowthTheorem`: `Spec => SchemaOnlyGrows`.

All rest on the invariant `IInv` (`Invariance`). `FewUpdates` alone is not inductive:
one has to know why a third update cannot come. `BuilderFollowsTree` says that the
builder's schema differs from the tree's exactly while an update is pending;
`RowsRevealed` that the rows appended so far have made the tree reveal their
columns. So after the first update no row of the batch misses a column (`Covered`),
and since the dictionaries were emptied they hold values of this batch only
(`OwnDictionaries`, a bijection between positions and values). The second update
therefore measures the cardinality the batch really has, and afterwards it fits
(`Fits`). The same invariant shows that a step that empties the dictionaries changes
the schema: an update is either pending, and then the columns differ, or widens an
index. `RecordIsEntity` needs one more, `RowsHeld`: each row appended is that of the
batch, with its values where its indices say, in dictionaries without repetition. An
index that wrapped never gets out, because a record with one is not accepted.

### Signals

`RecordsProofs` has the lemmas about the operators, `SignalsProofs` the theorems, for
every batch of the three signals, every width of ids and any number of schema updates and
batches.

What the operators do, for lists of any length:

* `SortRows` returns the rows in another order (`SortedPermutes`). Except for exemplars
  without a value, that is all the proofs use of it: `sort.Slice` is an insertion sort, and
  stable, only up to 12 rows, and the results do not depend on that. Exemplars without a
  value come first (`SortedLeads`, `EmptyLeads`), because they are less than others. Their
  parents read back only for that reason: the decoder takes one to be in the group of
  the row before, whatever the value of that row.
* Sparse and dense ids go up by one, so their builder does not panic, and the sum of the
  differences is the id again, absent ids in between or not, as long as ids have not run
  out (`SparseIdsNeverPanic`, `SumOfDeltas`, and for the columns of resources and
  scopes `GroupIdsNeverPanic` and `LookUpFinds`).
* Parent ids read back (`DecodeParents` after `EncodeParents`) if both ends find the same
  groups, whatever the order of parents in a group, for differences wrap as well
  (`ParentsReadBack`).
* What was filed under an id is found under it, once each, if ids differ (`FiledUnder`,
  `AttrsFound16`, `ListFound`, `Gathered`); attributes with an empty key are gone, except
  those of resources and scopes.
* The first row of a sorted record of attributes is one of the accumulator's (`FirstRow`),
  and an empty key in an accumulator is one of a resource or scope of the batch
  (`KeysOfEntities`, `KeysFiled`, `EmptyKeysSent`).

The theorems:

* `Invariant`: `Spec => []Inv`. None of the properties is inductive: they speak of what was
  received and sent, and the records in between were built from accumulators that were
  filled by builders before, in tries of which some were void. `Inv` says that all of this
  depends on the batch alone: from phase "related" on (`Related`) the main
  record is what `AppendMain` makes of the batch, each related record that is done is what
  its builder makes of its accumulator (`RecordOK`), and each accumulator of attributes
  what the done record of its owners put into it (`AttrsOK`), or empty. Sorters do not
  appear in it, as each try resets its own. Exemplars are different: each try of the
  data points appends them again. `ExemplarsOK` therefore says which rows there are and
  that each is there, with a bound on their number that grows with `updates`. A panicked
  producer has an excuse (`Excused`). Each action is one lemma (`InvTake` ... `InvDecode`);
  that a builder leaves alone what it does not fill rests on the order of declarations
  (`Position`).
* `TypeCorrect`: `Spec => []TypeOK`. A sorter remembers at most one row.
* `FewEntities`: `Spec => []FewEntitiesNeverPanic`. Each accumulator counts no more groups
  than its owners have rows, each row has an owner in the batch (`Held`), and ids of the
  builders in turn do not skip.
* `AttributesArrive`: `Spec => []RowsKeepAttributes`.
* `PlacesArrive`: `Spec => []PlacedWhereSent`, by induction over the rows (`BeginAt`):
  in a well separated batch the decoder sees a difference exactly where a row begins. An
  empty key of a resource or scope arrives too, unless it comes first in its record.
* `EmptyKeys`: `Spec => []OnlyEmptyKeysUnreadable`. In phase "unreadable" some record of
  attributes has an empty key in its first row; from there `FirstRow` and `EmptyKeysSent`
  lead back to the batch.
* `ItemsArrive`: `Spec => []ItemsFindTheirOwner`, for two levels of records: items under
  their owners, and attributes and exemplars under items. For exemplars it says "all,
  perhaps several times": the retries are the reason.

### Columns

`ColumnsProofs`, for all thirteen kinds of records, all values and numbers of rows, and
any number of batches:

* `TypeCorrect`: `Spec => []TypeOK`. That a nested column is never in the schema
  without the one it is in rests on `NestedAsked`: a call to a field that asks comes with
  a call to its struct or list that asks.
* `ReadBack`: `Spec => []BatchesReadBack`. Most of it is about one row. `FieldRead` is the
  heart: where no row asks for more, a column is there, or the call to it did not ask and
  its value is a zero. `NumberRead`, `AskedRead`, `NullRead`, `ListRead`, `SetRead` and
  `ElementsRead` turn that into what a reader returns for each way to write, and one
  lemma per kind (`SpanReads`, ... `EHistogramReads`) puts the row together.
  `RowReads` is the result for any kind; `Built` carries it from the step that builds a
  record to the one that reads it.

### Collector

`CollectorProofs`, for every sequence of signals, set of exporters, configuration and
table, and any number of requests and generations:

* `TypeCorrect`, `Serving` and `Outlives`: `Spec => []TypeOK`,
  `Spec => []StartedMeansServing`, `Spec => []PipelineOutlivesRequests`. None but the
  first is inductive. `Inv` says who holds which receiver (`Generations`), what state
  the newest is in during each phase (`Phases`), that exporters are open and routes
  registered from before the receiver starts until it has stopped (`Pipeline`), and
  that a request in hand keeps the server busy through which it came (`Requests`), so
  that `Shutdown` of the receiver waits for it.
* `TrueAnswers`: `Spec => []AnswersAreTrue`, with `Outcomes`: of a request in hand, what
  is neither delivered nor to be done has left an error.
* `WeightedRoutes`: `Spec => []RoutesByWeight`. By induction over the table: a draw
  belongs to the first route whose sum of weights exceeds it, and the routes' draws are
  intervals as long as their weights.

### Only model-checked

* Liveness (`CallReturns`, `BrokenStreamFinishes`, `ShutdownCompletes`,
  `StopCompletes`): fairness and ENABLED are outside the prover.
* The three statements of `ArrivesAsSent` and `NeverPanics`, which are false of the
  code.

Induction over numbers is done on a set, the numbers a statement holds for
(`BoundedInduction`), because the library's induction theorems have an operator as a
parameter. That is enough for recursive functions over positions (`Deltas` and
`AllDeltas` of `ArrowRecordStream`, the sums of `ExperimentProcessor`, and all of
`RelatedRecords`, whose sums, selections and sorted orders are recursive functions for
this reason). What the community modules define with folds (`FlattenSeq`) is used only
through facts about its recursive definition.

## Disagreements

Each has a run that TLC ends with a counterexample.

| run | code | what is said |
| --- | --- | --- |
| `credentials_lose_stream` | `E/stream.go:425` returns with the stream taken and no item given | `E/stream.go:270-272`: the stream "is currently in the ready set" |
| `rejected_batch_corrupts_next` | `arrow.go:322` skips the records of a rejected batch; a later batch is decoded with the wrong values and answered OK | `arrow.go:320`: such an error "does not necessarily break the stream" |
| `round_trip_loses` | `logs/arrow/logs.go:219`, `traces/arrow/traces.go:206`: a row without related data has no id, which the decoder reads as no difference; the row gets the attributes of the row before | `logs/validation_test.go:45`: "the conversion of OTLP logs to Arrow and back" |
| `empty_body_panics` | `logs/otlp/logs.go:161` reads a field of the struct that `StructFromRecord` returned as nil, for a log record with an empty body in a batch with other bodies | `logs/otlp/logs.go:214`: "silently ignore unknown types to avoid DOS attacks" |

`ArrivesAsSent`, which `round_trip_loses` checks, has three conjuncts, and each fails
without the others: `NoRelatedDataStaysNone` as in the table;
`RowsKeepTheirResource`, because a row whose scope has the same difference as the one
before stays under the resource of the row before
(`common/otlp/resource.go`); and `ExemplarsKeepTheirPoint`, because the exemplars
of numbers and histograms are looked up by the difference of ids instead of the id,
and every attempt to build their data points appends them once more
(`metrics/arrow/number_data_point.go:240`).

Other things the models contain because the code does them, which no text in the
repository contradicts:

* `E/prioritizer.go:72`: on shutdown `removeReady` returns with an item queued; the
  consumer waits for its own deadline. `E/exporter.go:156-172`: the select may serve
  a returning stream first and downgrade during shutdown, so that callers get
  (false, nil).
* `consumer.go:178` releases a nil reader after a rejected batch opened a
  sub-stream; `consumer.go:205-219` drops records at the memory limit and the batch
  is answered OK.
* A sum, minimum or maximum of zero arrives as not set (`AppendNonZero`); an empty
  byte array inside a map or slice loses its type.
* A histogram without bucket counts or bounds is rejected as INVALID_ARGUMENT;
  exponential buckets with only an offset or only counts make the decoder panic
  (`metrics/otlp/ehistogram_dpb.go`); an attribute value without a type makes the
  encoder panic; a resource or scope attribute with an empty key makes the decoder
  panic when it comes first in its record (`attributes_new.go:402`).
* `TracesFrom` and `LogsFrom` drop the error of `RelatedDataFrom` (`consumer.go:119`,
  `consumer.go:144`): a batch whose related records cannot be decoded would be answered
  OK. No batch of `Columns` or `Signals` gets there: what is refused is of metrics, and
  `MetricsFrom` passes the error on.
* With Arrow disabled and separate signals enabled the receiver registers Arrow
  services without a receiver (`otlp.go:164`); the first stream takes the process
  down.
* When HTTP fails to start, gRPC goes on serving until Shutdown; a second Start
  returns nil. `GracefulStop` (`otlp.go:224`) waits for Arrow streams for as long as
  their clients like.
* Routes without available exporters drop what they get, with success. Errors that are
  retryable and errors that are not, together, are answered INVALID_ARGUMENT on Arrow.
  A retryable error is answered without a status on OTLP/gRPC.

One more, which `SendContract` states as the code has it: a deadline that passes
while a batch waits for its status is returned as (true, context error)
(`E/stream.go:437`), where `E/exporter.go:205-206` describes (true, non-nil) as a
server response and (false, non-nil) as the context timeout.

## What is not modelled

* Arrow memory layout, compression, the IPC format. Numbers, strings and ids are zero
  or not, equal or not, smaller or not.
* Logging, statistics, error texts, configuration parsing.
* Streams that carry several signals: each signal has builders and sub-streams of
  its own, keyed apart by payload type and schema.
* Of the adaptive schema: the totals that `ShowSchema` displays (`AddTotal`,
  `RevertCounters`), the event maps, `copyDictValuesTo`, which is not called, and the
  map and sparse union builders, which no encoder uses.
* Sorters other than the default ones of each signal, the union of attribute values
  and `AttributesBuilder`, dynamic attributes (`dyn_attrs*.go`), the attribute tree
  optimiser (`tmo`), analyzers: the producer does not use them by default.
* `LimitedAllocator`: the stream has only that the limit may be reached at any
  record.
* The random number generator of the router, which is not safe for concurrent use
  (`router.go:51`): a draw is any number of the range.
* An answer over HTTP that cannot be marshalled after the data was delivered
  (`otlphttp.go:43-47`). The service learns of a server's failure at once, although
  `ReportFatalError` is asynchronous.
* The sending queue of the OTLP exporter, which is off in `Collector`.
* `MaxStreamLifetime`-like behaviour does not exist in this version of the code.
* Network statistics, options, generated code, benchmarks, data generators, tools and
  test support: no state that the properties tell apart. `PROJECT.json` has the
  reason for each.

## Plan

Done, in this order:

1. `ArrowExporter`, `SendContract`: the concurrent core.
2. `ArrowRecordStream`: encoder and decoder state in step.
3. `SchemaAdaptation`: transforms, dictionary widths, the retry loop of
   `recordBuilder`.
4. `RelatedRecords` to `Signals`: order, ids, differences and their inverse.
5. `ColumnValues` to `Columns`: every field of every record.
6. `OtlpExporter`, `OtlpReceiver`, `ExperimentProcessor`, `Collector`: the components
   around the stream.

Left: `LimitedAllocator` with 64-bit wrap-around, the header merging of the
receiver, alternative sorters. Of what the runs check, every invariant and action
property has its theorem.
