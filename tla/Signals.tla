------------------------------ MODULE Signals ------------------------------
(***************************************************************************)
(* A producer turns batches of traces, logs or metrics into a main record  *)
(* and related records, and a consumer turns these back (pkg/otel/         *)
(* arrow_record/producer.go and consumer.go, pkg/otel/common/arrow/        *)
(* related_data.go).  Building a record may end in a schema update, after  *)
(* which it is built again; building one related record fills the          *)
(* accumulators of others.  Modules ArrowRecordStream and SchemaAdaptation *)
(* are about what happens to a record on its way.                          *)
(***************************************************************************)
EXTENDS Traces, Logs, Metrics

CONSTANTS
  Signal,      \* the signals of this model
  Batches,     \* [Signal -> Seq(sets of batches)]: what is sent first, second...
  MaxUpdates   \* bound: schema updates

ASSUME WidthAssumption == {MaxUint16, MaxUint32} \subseteq Nat \ {0}

-----------------------------------------------------------------------------
(***************************************************************************)
(* Batches.                                                                *)
(***************************************************************************)

IsList(s) == s \in Seq(Range(s))

IsAttrs(attrs) ==
  IsList(attrs) /\ \A attr \in Range(attrs) : attr = <<attr[1], attr[2]>>

IsEvent(event) ==
  /\ event = [name |-> event.name, data |-> event.data, attrs |-> event.attrs]
  /\ IsAttrs(event.attrs)

IsLink(link) ==
  /\ link = [trace |-> link.trace, data |-> link.data, attrs |-> link.attrs]
  /\ IsAttrs(link.attrs)

IsSpan(span) ==
  /\ IsAttrs(span.attrs)
  /\ IsList(span.events) /\ \A event \in Range(span.events) : IsEvent(event)
  /\ IsList(span.links) /\ \A link \in Range(span.links) : IsLink(link)

IsLog(log) == IsAttrs(log.attrs)

\* Types are numbers, and all values of no type are the same.
IsExemplar(exemplar) ==
  /\ exemplar = [value |-> exemplar.value, data |-> exemplar.data,
                 attrs |-> exemplar.attrs]
  /\ IsAttrs(exemplar.attrs)
  /\ exemplar.value[1] \in Nat
  /\ exemplar.value[1] = EmptyType => exemplar.value = <<EmptyType, 0>>

IsPoint(dp) ==
  /\ dp = [data |-> dp.data, attrs |-> dp.attrs, exemplars |-> dp.exemplars]
  /\ IsAttrs(dp.attrs)
  /\ IsList(dp.exemplars) /\ \A exemplar \in Range(dp.exemplars) : IsExemplar(exemplar)

\* A metric without a type has no data points.
IsMetric(metric) ==
  /\ IsList(metric.dps) /\ \A dp \in Range(metric.dps) : IsPoint(dp)
  /\ \/ metric.type \in {Gauge, SumMetric, Histogram, ExponentialHistogram, Summary}
     \/ metric.dps = <<>>

IsEntry(s, entry) ==
  CASE s = "traces" -> IsSpan(entry)
    [] s = "logs" -> IsLog(entry)
    [] s = "metrics" -> IsMetric(entry)

IsScope(s, scope) ==
  /\ IsAttrs(scope.scope.attrs)
  /\ IsList(scope.entries) /\ \A entry \in Range(scope.entries) : IsEntry(s, entry)

IsResource(s, resource) ==
  /\ IsAttrs(resource.resource.attrs)
  /\ IsList(resource.scopes) /\ \A scope \in Range(resource.scopes) : IsScope(s, scope)

IsBatch(s, batch) ==
  IsList(batch) /\ \A resource \in Range(batch) : IsResource(s, resource)

ASSUME BatchesAssumption ==
  /\ Signal \subseteq {"traces", "logs", "metrics"}
  /\ MaxUpdates \in Nat
  /\ \A s \in Signal :
       /\ Len(Batches[s]) \in Nat
       /\ \A n \in 1..Len(Batches[s]) : \A batch \in Batches[s][n] : IsBatch(s, batch)

VARIABLES
  signal,    \* the producer's
  sent,      \* the optimized rows of the batch
  batches,   \* batches taken
  updates,   \* schema updates
  phase,     \* where the producer is
  next,      \* the place of the builder in turn
  main,      \* the main record
  records,   \* the related records of the batch
  accu,      \* the accumulators
  sorters,   \* what the sorters remember
  received   \* what the consumer made of it

vars == <<signal, sent, batches, updates, phase, next, main, records, accu,
          sorters, received>>

-----------------------------------------------------------------------------
(***************************************************************************)
(* The related records of a signal, in the order their builders are        *)
(* declared, and so built.                                                 *)
(***************************************************************************)

TracesDeclared ==
  <<"RESOURCE_ATTRS", "SCOPE_ATTRS", "SPAN_ATTRS", "SPAN_EVENTS", "SPAN_LINKS",
    "SPAN_EVENT_ATTRS", "SPAN_LINK_ATTRS">>

LogsDeclared == <<"RESOURCE_ATTRS", "SCOPE_ATTRS", "LOG_ATTRS">>

MetricsDeclared ==
  <<"RESOURCE_ATTRS", "SCOPE_ATTRS",
    "NUMBER_DATA_POINTS", "NUMBER_DP_ATTRS",
    "NUMBER_DP_EXEMPLARS", "NUMBER_DP_EXEMPLAR_ATTRS",
    "SUMMARY_DATA_POINTS", "SUMMARY_DP_ATTRS",
    "HISTOGRAM_DATA_POINTS", "HISTOGRAM_DP_ATTRS",
    "HISTOGRAM_DP_EXEMPLARS", "HISTOGRAM_DP_EXEMPLAR_ATTRS",
    "EXP_HISTOGRAM_DATA_POINTS", "EXP_HISTOGRAM_DP_ATTRS",
    "EXP_HISTOGRAM_DP_EXEMPLARS", "EXP_HISTOGRAM_DP_EXEMPLAR_ATTRS">>

\* Mutant: the attributes of events and links are built before them.
AttrsFirst(s) ==
  CASE s = "traces" -> <<"RESOURCE_ATTRS", "SCOPE_ATTRS", "SPAN_ATTRS",
                         "SPAN_EVENT_ATTRS", "SPAN_LINK_ATTRS",
                         "SPAN_EVENTS", "SPAN_LINKS">>
    [] s = "logs" -> LogsDeclared
    [] s = "metrics" -> MetricsDeclared

Declared(s) ==
  CASE s = "traces" -> TracesDeclared
    [] s = "logs" -> LogsDeclared
    [] s = "metrics" -> MetricsDeclared

Types(s) == {Declared(s)[n] : n \in DOMAIN Declared(s)}

\* The record of the attributes (or exemplars) that a record's rows have.
AttrsOf == [SPAN_EVENTS |-> "SPAN_EVENT_ATTRS",
            SPAN_LINKS |-> "SPAN_LINK_ATTRS",
            NUMBER_DATA_POINTS |-> "NUMBER_DP_ATTRS",
            NUMBER_DP_EXEMPLARS |-> "NUMBER_DP_EXEMPLAR_ATTRS",
            SUMMARY_DATA_POINTS |-> "SUMMARY_DP_ATTRS",
            HISTOGRAM_DATA_POINTS |-> "HISTOGRAM_DP_ATTRS",
            HISTOGRAM_DP_EXEMPLARS |-> "HISTOGRAM_DP_EXEMPLAR_ATTRS",
            EXP_HISTOGRAM_DATA_POINTS |-> "EXP_HISTOGRAM_DP_ATTRS",
            EXP_HISTOGRAM_DP_EXEMPLARS |-> "EXP_HISTOGRAM_DP_EXEMPLAR_ATTRS"]

ExemplarsOf == [NUMBER_DATA_POINTS |-> "NUMBER_DP_EXEMPLARS",
                HISTOGRAM_DATA_POINTS |-> "HISTOGRAM_DP_EXEMPLARS",
                EXP_HISTOGRAM_DATA_POINTS |-> "EXP_HISTOGRAM_DP_EXEMPLARS"]

Attrs16 == {"RESOURCE_ATTRS", "SCOPE_ATTRS", "SPAN_ATTRS", "LOG_ATTRS"}

Attrs32 == {AttrsOf[type] : type \in DOMAIN AttrsOf}

\* Exponential histograms are configured with the sorters of histograms.
SorterOf(type) ==
  CASE type = "EXP_HISTOGRAM_DP_EXEMPLARS" -> "HISTOGRAM_DP_EXEMPLARS"
    [] type = "EXP_HISTOGRAM_DP_EXEMPLAR_ATTRS" -> "HISTOGRAM_DP_EXEMPLAR_ATTRS"
    [] OTHER -> type

-----------------------------------------------------------------------------
Optimize(s, batch) ==
  CASE s = "traces" -> OptimizeTraces(batch)
    [] s = "logs" -> OptimizeLogs(batch)
    [] s = "metrics" -> OptimizeMetrics(batch)

AppendMain(s, rows) ==
  CASE s = "traces" -> AppendTraces(rows)
    [] s = "logs" -> AppendLogs(rows)
    [] s = "metrics" -> AppendMetrics(rows)

\* RelatedDataFrom and TracesFrom, LogsFrom or MetricsFrom.
Decoded(s, m, r) ==
  CASE s = "traces" -> TracesFrom(m, TracesRelatedDataFrom(r))
    [] s = "logs" -> LogsFrom(m, LogsRelatedDataFrom(r))
    [] s = "metrics" -> MetricsFrom(m, MetricsRelatedDataFrom(r))

EmptyAccus(s) == [type \in Types(s) |-> NewAccumulator]

NoRecords(s) == [type \in Types(s) |-> <<>>]

Init ==
  /\ signal \in Signal
  /\ sent = <<>>
  /\ batches = 0
  /\ updates = 0
  /\ phase = "idle"
  /\ next = 1
  /\ main = <<>>
  /\ records = NoRecords(signal)
  /\ accu = EmptyAccus(signal)
  /\ sorters = [type \in Types(signal) |-> <<>>]
  /\ received = <<>>

TypeOK ==
  /\ signal \in Signal
  /\ batches \in 0..Len(Batches[signal])
  /\ updates \in 0..MaxUpdates
  /\ phase \in {"idle", "main", "related", "received", "panicked", "unreadable"}
  /\ next \in 1..(Len(Declared(signal)) + 1)
  /\ DOMAIN records = Types(signal)
  /\ \A type \in Types(signal) :
       /\ accu[type].groups \in Nat
       /\ Len(sorters[type]) <= 1

\* BatchArrowRecordsFromTraces, ...Logs or ...Metrics.
Take ==
  /\ phase \in {"idle", "received"}
  /\ batches < Len(Batches[signal])
  /\ \E batch \in Batches[signal][batches + 1] : sent' = Optimize(signal, batch)
  /\ batches' = batches + 1
  /\ phase' = "main"
  /\ next' = 1
  /\ main' = <<>>
  /\ records' = NoRecords(signal)
  /\ received' = <<>>
  /\ UNCHANGED <<signal, updates, accu, sorters>>

\* Whether a build ends in a schema update.
Updated(yes) ==
  /\ yes => updates < MaxUpdates
  /\ updates' = IF yes THEN updates + 1 ELSE updates

Panic == phase' = "panicked" /\ UNCHANGED <<updates, next, main, records>>

\* recordBuilder: the accumulators are emptied, the batch is appended, and the
\* main record is built.
BuildMain ==
  /\ phase = "main"
  /\ LET appended == AppendMain(signal, sent) IN
     /\ accu' = [type \in Types(signal) |->
                   IF type \in DOMAIN appended.accu THEN appended.accu[type]
                   ELSE NewAccumulator]
     /\ \/ appended.panics /\ Panic
        \/ /\ ~appended.panics
           /\ \E yes \in BOOLEAN :
                /\ Updated(yes)
                /\ phase' = IF yes THEN "main" ELSE "related"
                /\ main' = IF yes THEN main ELSE appended
           /\ UNCHANGED <<next, records>>
  /\ UNCHANGED <<signal, sent, batches, sorters, received>>

-----------------------------------------------------------------------------
(***************************************************************************)
(* BuildRecordMessages, one try of one builder at a time.                  *)
(***************************************************************************)

Turn == Declared(signal)[next]

Building(types) ==
  /\ phase = "related"
  /\ next <= Len(Declared(signal))
  /\ Turn \in types
  /\ accu[Turn].rows # <<>>

\* What a try leaves, given what it built and the accumulators it filled.
Tried(built) ==
  /\ sorters' = [sorters EXCEPT ![SorterOf(Turn)] = built.prev]
  /\ \/ built.panics /\ Panic
     \/ /\ ~built.panics
        /\ \E yes \in BOOLEAN :
             /\ Updated(yes)
             /\ next' = IF yes THEN next ELSE next + 1
             /\ records' = IF yes THEN records
                           ELSE [records EXCEPT ![Turn] = built.rows]
        /\ UNCHANGED <<phase, main>>
  /\ UNCHANGED <<signal, sent, batches, received>>

SkipEmpty ==
  /\ phase = "related"
  /\ next <= Len(Declared(signal))
  /\ accu[Turn].rows = <<>>
  /\ next' = next + 1
  /\ UNCHANGED <<signal, sent, batches, updates, phase, main, records, accu,
                 sorters, received>>

BuildAttrs16 ==
  /\ Building(Attrs16)
  /\ Tried(TryBuildAttrs16(accu[Turn], sorters[Turn]))
  /\ UNCHANGED accu

BuildAttrs32 ==
  /\ Building(Attrs32)
  /\ Tried(TryBuildAttrs32(accu[Turn], sorters[SorterOf(Turn)]))
  /\ UNCHANGED accu

\* Events, links, exemplars and summaries.
BuildWithAttrs ==
  /\ Building(DOMAIN AttrsOf \ DOMAIN ExemplarsOf)
  /\ LET prev == sorters[SorterOf(Turn)]
         attrs == accu[AttrsOf[Turn]]
         built == CASE Turn = "SPAN_EVENTS" -> TryBuildEvents(accu[Turn], prev, attrs)
                    [] Turn = "SPAN_LINKS" -> TryBuildLinks(accu[Turn], prev, attrs)
                    [] Turn = "SUMMARY_DATA_POINTS" ->
                         TryBuildSummaries(accu[Turn], prev, attrs)
                    [] OTHER -> TryBuildExemplars(accu[Turn], prev, attrs)
     IN  /\ Tried(built)
         /\ accu' = [accu EXCEPT ![AttrsOf[Turn]] = built.attrs]

BuildDataPoints ==
  /\ Building(DOMAIN ExemplarsOf)
  /\ LET prev == sorters[Turn]
         attrs == accu[AttrsOf[Turn]]
         exemplars == accu[ExemplarsOf[Turn]]
         built == CASE Turn = "NUMBER_DATA_POINTS" ->
                         TryBuildNumberDPs(accu[Turn], prev, attrs, exemplars)
                    [] Turn = "HISTOGRAM_DATA_POINTS" ->
                         TryBuildHistograms(accu[Turn], prev, attrs, exemplars)
                    [] OTHER -> TryBuildEHistograms(accu[Turn], prev, attrs, exemplars)
     IN  /\ Tried(built)
         /\ accu' = [accu EXCEPT ![AttrsOf[Turn]] = built.attrs,
                                 ![ExemplarsOf[Turn]] = built.exemplars]

\* The consumer: a panic takes it down.
AttributePanics == \E type \in Types(signal) \cap (Attrs16 \cup Attrs32) : NilValue(records[type])

Decode ==
  /\ phase = "related"
  /\ next > Len(Declared(signal))
  /\ \/ /\ AttributePanics
        /\ phase' = "unreadable"
        /\ UNCHANGED received
     \/ /\ ~AttributePanics
        /\ received' = Decoded(signal, main, records)
        /\ phase' = "received"
  /\ UNCHANGED <<signal, sent, batches, updates, next, main, records, accu, sorters>>

Next ==
  \/ Take
  \/ BuildMain
  \/ SkipEmpty
  \/ BuildAttrs16
  \/ BuildAttrs32
  \/ BuildWithAttrs
  \/ BuildDataPoints
  \/ Decode

Spec == Init /\ [][Next]_vars

-----------------------------------------------------------------------------
(***************************************************************************)
(* Safety.                                                                 *)
(***************************************************************************)

Delivered == phase = "received"

Row(i) == sent[i].entry

\* Rows arrive in order, each with the attributes it was sent with, whatever
\* their neighbours have, however often a record was built again.  Rows
\* without attributes are left out: see NoRelatedDataStaysNone.
RowsKeepAttributes ==
  Delivered =>
    /\ Len(received) = Len(sent)
    /\ \A i \in DOMAIN sent :
         IF signal = "metrics"
         THEN received[i].data = [type |-> Row(i).type, data |-> Row(i).data]
         ELSE /\ received[i].data = Row(i).data
              /\ Row(i).attrs # <<>> => received[i].attrs = Named(Row(i).attrs)

\* The items as they should arrive.
Bare(item) == [item EXCEPT !.attrs = Named(@)]

\* got holds each of the items once, in any order.
Same(got, items) ==
  /\ Len(got) = Len(items)
  /\ {got[k] : k \in DOMAIN got} = {Bare(items[k]) : k \in DOMAIN items}

\* Spans that have related data, unless one without leads the batch.
SpansHaveTheirChildren ==
  (Delivered /\ signal = "traces" /\ sent # <<>> /\ HasRelatedData(Row(1))) =>
    \A i \in {j \in DOMAIN sent : HasRelatedData(Row(j))} :
      /\ Same(received[i].events, Row(i).events)
      /\ Same(received[i].links, Row(i).links)

NoExemplars(dp) == [dp EXCEPT !.exemplars = <<>>]

MetricsHaveTheirPoints ==
  (Delivered /\ signal = "metrics") =>
    \A i \in DOMAIN sent :
      LET got == received[i].dps
          dps == Row(i).dps
      IN  Same([k \in DOMAIN got |-> NoExemplars(got[k])],
               [k \in DOMAIN dps |-> NoExemplars(dps[k])])

EHistogramsHaveTheirExemplars ==
  (Delivered /\ signal = "metrics") =>
    \A i \in {j \in DOMAIN sent : Row(j).type = ExponentialHistogram} :
      \A k \in DOMAIN Row(i).dps :
        \E n \in DOMAIN received[i].dps :
          LET dp == Row(i).dps[k]
              got == received[i].dps[n]
          IN  /\ got.data = dp.data
              /\ Range(got.exemplars)
                   = {Bare(dp.exemplars[j]) : j \in DOMAIN dp.exemplars}

\* What travels in a record of its own, sorted by other things than its owner,
\* with attributes in yet another record, is found under its owner again: events
\* and links under their span, data points of all four kinds under their metric,
\* once each and with their own attributes, and all the exemplars of an
\* exponential histogram under their data point.  The other data points' are in
\* ExemplarsKeepTheirPoint.
ItemsFindTheirOwner ==
  SpansHaveTheirChildren /\ MetricsHaveTheirPoints /\ EHistogramsHaveTheirExemplars

\* The resource and the scope of the row before, and not only identifiers that
\* do not tell them apart.
Continues(i) ==
  /\ i > 1
  /\ sent[i].resID = sent[i - 1].resID /\ sent[i].scopeID = sent[i - 1].scopeID
  /\ sent[i].resource = sent[i - 1].resource /\ sent[i].scope = sent[i - 1].scope

WithAttrs(i) == sent[i].resource.attrs # <<>> /\ sent[i].scope.attrs # <<>>

\* Another resource comes with another scope, both have attributes, those of
\* the row before too, and that row does not begin one, unless it is the first.
Begins(i) ==
  /\ sent[i].resID # sent[i - 1].resID /\ sent[i].scopeID # sent[i - 1].scopeID
  /\ WithAttrs(i) /\ WithAttrs(i - 1)
  /\ i = 2 \/ Continues(i - 1)

WellSeparated == \A i \in DOMAIN sent : i = 1 \/ Continues(i) \/ Begins(i)

\* Rows arrive under the resource and the scope they were sent with, all their
\* attributes included, where the decoder does not panic (OnlyEmptyKeysUnreadable)
\* and the columns of differences suffice to tell (RowsKeepTheirResource).
PlacedWhereSent ==
  (Delivered /\ WellSeparated) =>
    \A i \in DOMAIN sent :
      received[i].place = [resource |-> Entity(sent[i].resource),
                           scope |-> Entity(sent[i].scope)]

HasEmptyKey(owner) == \E attr \in Range(owner.attrs) : attr[1] = EmptyKey

\* The decoder panics at an empty key only when a resource or a scope of this
\* batch has one: those of rows, events, links, data points and exemplars never
\* reach their records, and nothing is left of earlier batches or tries.
OnlyEmptyKeysUnreadable ==
  phase = "unreadable" =>
    \E i \in DOMAIN sent : HasEmptyKey(sent[i].resource) \/ HasEmptyKey(sent[i].scope)

-----------------------------------------------------------------------------
\* The attributes of a batch's rows and of what they hold.
Children(row) ==
  CASE signal = "traces" -> {row.events, row.links}
    [] signal = "logs" -> {}
    [] signal = "metrics" -> {row.dps} \cup {dp.exemplars : dp \in Range(row.dps)}

Holders ==
  UNION {{row.resource, row.scope} \cup
         (IF signal = "metrics" THEN {} ELSE {row.entry}) \cup
         UNION {Range(list) : list \in Children(row.entry)} : row \in Range(sent)}

Total(Part(_)) == Subtotals([i \in DOMAIN sent |-> Len(Part(Row(i)))])[Len(sent)]

\* Building the records of a batch panics only when the ids of 16 or 32 bits
\* could run out, or for a value without a type: not because of what earlier
\* batches or earlier tries left behind, except that each try counts
\* exemplars again.
FewEntitiesNeverPanic ==
  phase = "panicked" =>
    \/ Len(sent) > MaxUint16
    \/ \E holder \in Holders : \E attr \in Range(holder.attrs) : attr[2][1] = EmptyType
    \/ /\ signal = "traces"
       /\ \/ Total(LAMBDA span : span.events) > MaxUint32
          \/ Total(LAMBDA span : span.links) > MaxUint32
    \/ /\ signal = "metrics"
       /\ \/ Total(LAMBDA metric : metric.dps) > MaxUint32
          \/ (updates + 1) * Total(LAMBDA metric :
                FlattenSeq([k \in DOMAIN metric.dps |-> metric.dps[k].exemplars]))
              > MaxUint32

-----------------------------------------------------------------------------
(***************************************************************************)
(* What the code does not keep.                                            *)
(***************************************************************************)

\* A span or log record without attributes arrives without ("No related data
\* found", traces.go, where the encoder leaves its id out).  The decoder reads
\* the missing id as no difference, and finds those of the row before.
NoRelatedDataStaysNone ==
  (Delivered /\ signal \in {"traces", "logs"}) =>
    \A i \in DOMAIN sent : Row(i).attrs = <<>> => received[i].attrs = {}

\* Rows arrive under the resource they were sent with, as the round-trip tests
\* have it.  The decoder compares differences, and a row whose scope has the
\* same difference stays in the slice of the resource before.
RowsKeepTheirResource ==
  Delivered =>
    \A i \in DOMAIN sent : received[i].place.resource = Entity(sent[i].resource)

\* Each data point of a number or a histogram has its own exemplars ("This ID
\* is used to identify the relationship between the DP, its attributes and
\* exemplars", number_data_point.go).  The decoder asks for those of the
\* difference to the id before.
ExemplarsKeepTheirPoint ==
  (Delivered /\ signal = "metrics") =>
    \A i \in {j \in DOMAIN sent : Row(j).type # ExponentialHistogram} :
     \A k \in DOMAIN Row(i).dps :
      LET dp == Row(i).dps[k]
          got == CHOOSE d \in {received[i].dps[n] : n \in DOMAIN received[i].dps} :
                   d.data = dp.data
      IN  Same(got.exemplars, dp.exemplars)

\* What arrives is what was sent: "TestConversionFromSyntheticData tests the
\* conversion of OTLP traces to Arrow and back to OTLP." (validation_test.go).
ArrivesAsSent ==
  NoRelatedDataStaysNone /\ RowsKeepTheirResource /\ ExemplarsKeepTheirPoint
=============================================================================
