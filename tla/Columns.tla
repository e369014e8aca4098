------------------------------- MODULE Columns -------------------------------
(***************************************************************************)
(* Batches of rows of one kind of record are written column by column and  *)
(* read again (the TryBuild functions of pkg/otel/*/arrow, the decoders of *)
(* pkg/otel/*/otlp).  Optional columns join the schema when a value asks   *)
(* for them, and stay.  Ids, parents and the order of rows are the subject *)
(* of Signals, dictionaries and nested updates that of SchemaAdaptation.   *)
(***************************************************************************)
EXTENDS SpanColumns, LogColumns, EHistogramColumns

CONSTANTS
  Kinds,   \* the kinds of records of this model
  Rows,    \* [Kinds -> sets of rows]
  Sizes    \* bound: the numbers of rows of the first batch, the second...

\* A row of these fields, where integers name numbers, strings and ids.
HasFields(row, numbers, others) ==
  /\ row = [f \in numbers \cup others |-> row[f]]
  /\ \A f \in numbers : row[f] \in Int

IsValue(v) ==
  \/ v \in {StrType, IntType, DoubleType, BoolType} \X Int
  \/ v \in {BytesType} \X Seq(Int)
  \/ v[1] \in {MapType, SliceType} /\ Serialize(v) # Null

NumberValues == {EmptyValue} \cup ({IntValue, DoubleValue} \X Int)

Unsettable == Int \cup {Null}

Buckets == [offset : Int, counts : Seq(Int)]

Points == {"start_time", "time", "count", "flags"}

IsRow(k, row) ==
  CASE k = "SPANS" ->
         HasFields(row, {"start_time", "end_time", "trace_id", "span_id", "trace_state",
           "parent_span_id", "name", "kind", "dropped_attributes_count",
           "dropped_events_count", "dropped_links_count", "status_code",
           "status_message"}, {})
    [] k = "SPAN_EVENTS" -> HasFields(row, EventIDs, {})
    [] k = "SPAN_LINKS"  -> HasFields(row, LinkIDs, {})
    [] k = "LOGS" ->
         /\ HasFields(row, {"time", "observed_time", "trace_id", "span_id",
              "severity_number", "severity_text", "dropped_attributes_count", "flags"},
              {"body"})
         /\ row.body = EmptyValue \/ IsValue(row.body)
    [] k = "METRICS" ->
         /\ HasFields(row, MetricIDs, {})
         /\ row.metric_type \notin Aggregated => row.aggregation_temporality = 0
         /\ row.metric_type # Sum => row.is_monotonic = 0
    [] k = "NUMBER_DATA_POINTS" ->
         /\ HasFields(row, {"start_time", "time", "flags"}, {"value"})
         /\ row.value \in NumberValues
    [] k = "SUMMARY_DATA_POINTS" ->
         /\ HasFields(row, Points \cup {"sum"}, {"quantiles"})
         /\ row.quantiles \in Seq([quantile : Int, value : Int])
    [] k = "HISTOGRAM_DATA_POINTS" ->
         /\ HasFields(row, Points, {"sum", "min", "max", "bucket_counts", "explicit_bounds"})
         /\ {row.sum, row.min, row.max} \subseteq Unsettable
         /\ {row.bucket_counts, row.explicit_bounds} \subseteq Seq(Int)
    [] k = "EXP_HISTOGRAM_DATA_POINTS" ->
         /\ HasFields(row, Points \cup {"scale", "zero_count"},
              {"sum", "min", "max", "positive", "negative"})
         /\ {row.sum, row.min, row.max} \subseteq Unsettable
         /\ {row.positive, row.negative} \subseteq Buckets
    [] k = "EXEMPLARS" ->
         /\ HasFields(row, {"time", "span_id", "trace_id"}, {"value"})
         /\ row.value \in NumberValues
    [] k = "ATTRS" -> HasFields(row, {"key"}, {"value"}) /\ IsValue(row.value)
    [] k = "RESOURCES" -> HasFields(row, ResourceIDs \ {"resource"}, {})
    [] k = "SCOPES"    -> HasFields(row, ScopeIDs \ {"scope"}, {})

KindNames ==
  {"SPANS", "SPAN_EVENTS", "SPAN_LINKS", "LOGS", "METRICS", "NUMBER_DATA_POINTS",
   "SUMMARY_DATA_POINTS", "HISTOGRAM_DATA_POINTS", "EXP_HISTOGRAM_DATA_POINTS",
   "EXEMPLARS", "ATTRS", "RESOURCES", "SCOPES"}

ASSUME ColumnsAssumption ==
  /\ Kinds \subseteq KindNames
  /\ Sizes \in Seq(Nat)
  /\ Null \notin Int \cup {Struct} \cup Seq(Int \cup {Struct, Null})
  /\ \A k \in Kinds : \A row \in Rows[k] : IsRow(k, row)

VARIABLES
  kind,      \* the kind of record of this builder
  columns,   \* the optional columns in its schema
  batches,   \* batches taken
  rows,      \* the rows of the batch
  record,    \* the record
  received,  \* what the decoder made of it
  phase

vars == <<kind, columns, batches, rows, record, received, phase>>

-----------------------------------------------------------------------------
(***************************************************************************)
(* The encoder and the decoder of each kind.                               *)
(***************************************************************************)

Optional ==
  CASE kind = "SPANS"       -> SpanOptional \cup StatusOptional
    [] kind = "SPAN_EVENTS" -> EventOptional
    [] kind = "SPAN_LINKS"  -> LinkOptional
    [] kind = "LOGS"        -> LogOptional
    [] kind = "METRICS"     -> MetricOptional
    [] kind = "NUMBER_DATA_POINTS"        -> NumberDPOptional
    [] kind = "SUMMARY_DATA_POINTS"       -> SummaryOptional \cup QuantileOptional
    [] kind = "HISTOGRAM_DATA_POINTS"     -> HistogramOptional
    [] kind = "EXP_HISTOGRAM_DATA_POINTS" -> EHistogramOptional \cup BucketsOptional
    [] kind = "EXEMPLARS"   -> ExemplarOptional
    [] kind = "ATTRS"       -> AttrOptional
    [] kind = "RESOURCES"   -> ResourceOptional
    [] kind = "SCOPES"      -> ScopeOptional

AppendRow(row) ==
  CASE kind = "SPANS"       -> AppendSpan(row)
    [] kind = "SPAN_EVENTS" -> AppendEvent(row)
    [] kind = "SPAN_LINKS"  -> AppendLink(row)
    [] kind = "LOGS"        -> AppendLog(row)
    [] kind = "METRICS"     -> AppendMetric(row)
    [] kind = "NUMBER_DATA_POINTS"        -> AppendNumberDP(row)
    [] kind = "SUMMARY_DATA_POINTS"       -> AppendSummary(row)
    [] kind = "HISTOGRAM_DATA_POINTS"     -> AppendHistogram(row)
    [] kind = "EXP_HISTOGRAM_DATA_POINTS" -> AppendEHistogram(row)
    [] kind = "EXEMPLARS"   -> AppendExemplar(row)
    [] kind = "ATTRS"       -> AppendAttr(row)
    [] kind = "RESOURCES"   -> AppendResource(row)
    [] kind = "SCOPES"      -> AppendScope(row)

From(row) ==
  CASE kind = "SPANS"       -> SpanFrom(row)
    [] kind = "SPAN_EVENTS" -> EventFrom(row)
    [] kind = "SPAN_LINKS"  -> LinkFrom(row)
    [] kind = "LOGS"        -> LogFrom(row)
    [] kind = "METRICS"     -> MetricFrom(row)
    [] kind = "NUMBER_DATA_POINTS"        -> NumberDPFrom(row)
    [] kind = "SUMMARY_DATA_POINTS"       -> SummaryFrom(row)
    [] kind = "HISTOGRAM_DATA_POINTS"     -> HistogramFrom(row)
    [] kind = "EXP_HISTOGRAM_DATA_POINTS" -> EHistogramFrom(row)
    [] kind = "EXEMPLARS"   -> ExemplarFrom(row)
    [] kind = "ATTRS"       -> AttrFrom(row)
    [] kind = "RESOURCES"   -> ResourceFrom(row)
    [] kind = "SCOPES"      -> ScopeFrom(row)

Rejected(row) ==
  CASE kind = "SPANS"     -> SpanRejected(row)
    [] kind = "LOGS"      -> LogRejected(row)
    [] kind = "EXEMPLARS" -> ExemplarRejected(row)
    [] kind = "HISTOGRAM_DATA_POINTS" -> HistogramRejected(row)
    [] OTHER -> FALSE

\* Also the first row of attributes may panic, whose key is compared with that of
\* no row before.
Panics(i, row) ==
  CASE kind = "LOGS" -> LogPanics(row)
    [] kind = "ATTRS" -> i = 1 /\ NoPrevious(row)
    [] kind = "EXP_HISTOGRAM_DATA_POINTS" -> EHistogramPanics(row)
    [] OTHER -> FALSE

-----------------------------------------------------------------------------
(***************************************************************************)
(* Nested columns.  A struct without a column still calls the builders of  *)
(* its fields, and a list those of its elements, so all that is missing is *)
(* asked for at once.                                                      *)
(***************************************************************************)

Holds ==
  [status |-> StatusOptional, quantiles |-> QuantileOptional,
   positive |-> {"positive_offset", "positive_counts"},
   negative |-> {"negative_offset", "negative_counts"},
   resource |-> ResourceOptional \ {"resource"},
   scope |-> ScopeOptional \ {"scope", "schema_url"}]

InAbsent(c) ==
  \E h \in (DOMAIN Holds \cap Optional) \ columns : c \in Holds[h]

Absent(calls) == DOMAIN calls \cap (Optional \ columns)

\* Mutant: columns that are always there are asked for.
AskedByAll(calls) == {c \in DOMAIN calls \ columns : calls[c].asks}

AskedBy(calls) == {c \in Absent(calls) : calls[c].asks}

AskedFor == UNION {AskedBy(AppendRow(rows[i])) : i \in DOMAIN rows}

Cells(calls) == [c \in DOMAIN calls \ Absent(calls) |-> calls[c].cell]

-----------------------------------------------------------------------------
Init ==
  /\ kind \in Kinds
  /\ columns = {} /\ batches = 0 /\ rows = <<>>
  /\ record = <<>> /\ received = <<>> /\ phase = "idle"

Take ==
  /\ phase \in {"idle", "read", "rejected"}
  /\ batches < Len(Sizes)
  /\ batches' = batches + 1
  /\ rows' \in [1..Sizes[batches + 1] -> Rows[kind]]
  /\ record' = <<>> /\ received' = <<>>
  /\ phase' = "building"
  /\ UNCHANGED <<kind, columns>>

\* All rows are appended; then NewRecord finds the schema up to date, or not.
UpdateSchema ==
  /\ phase = "building"
  /\ AskedFor # {}
  /\ columns' = columns \cup AskedFor
  /\ UNCHANGED <<kind, batches, rows, record, received, phase>>

Build ==
  /\ phase = "building"
  /\ AskedFor = {}
  /\ record' = [i \in DOMAIN rows |-> Cells(AppendRow(rows[i]))]
  /\ phase' = "built"
  /\ UNCHANGED <<kind, columns, batches, rows, received>>

\* The decoder reads row after row.
Read ==
  /\ phase = "built"
  /\ LET Stops(i) == Rejected(record[i]) \/ Panics(i, record[i])
         first == {i \in DOMAIN record : Stops(i) /\ \A j \in 1..(i - 1) : ~Stops(j)}
     IN  \/ /\ first = {}
            /\ received' = [i \in DOMAIN record |-> From(record[i])]
            /\ phase' = "read"
         \/ \E i \in first :
              /\ phase' = IF Rejected(record[i]) THEN "rejected" ELSE "panicked"
              /\ UNCHANGED received
  /\ UNCHANGED <<kind, columns, batches, rows, record>>

Next == Take \/ UpdateSchema \/ Build \/ Read

Spec == Init /\ [][Next]_vars

-----------------------------------------------------------------------------
(***************************************************************************)
(* Safety.                                                                 *)
(***************************************************************************)

\* The kind does not change its columns; a nested column never comes without
\* the one it is in; what is received has a row for each row.
TypeOK ==
  /\ kind \in Kinds
  /\ columns \subseteq Optional
  /\ \A c \in columns : ~InAbsent(c)
  /\ rows \in Seq(Rows[kind])
  /\ Len(record) \in {0, Len(rows)} /\ Len(received) \in {0, Len(record)}
  /\ batches \in 0..Len(Sizes)
  /\ phase \in {"idle", "building", "built", "read", "rejected", "panicked"}

Histograms == {"HISTOGRAM_DATA_POINTS", "EXP_HISTOGRAM_DATA_POINTS"}

UnlessZero(v) == IF v = 0 THEN Null ELSE v

\* What arrives of a row.  A sum, minimum or maximum of zero arrives as not
\* set, and an empty byte array in a map or a slice without its type.
Kept(row) ==
  CASE kind \in Histograms -> [row EXCEPT !.sum = UnlessZero(@), !.min = UnlessZero(@),
                                          !.max = UnlessZero(@)]
    [] kind = "ATTRS" /\ row.value[1] \in {MapType, SliceType} ->
         [row EXCEPT !.value = Deserialize(Serialize(@))]
    [] kind = "LOGS" /\ row.body[1] \in {MapType, SliceType} ->
         [row EXCEPT !.body = Deserialize(Serialize(@))]
    [] OTHER -> row

OneFieldOnly(buckets) == (buckets.offset = 0) # (buckets.counts = <<>>)

\* Rows that can end the decoding: an empty body, an offset of zero or no
\* counts, a histogram without buckets, an empty key in the first place.
Breaks(i, row) ==
  CASE kind = "LOGS" -> row.body = EmptyValue
    [] kind = "ATTRS" -> i = 1 /\ row.key = 0
    [] kind = "EXP_HISTOGRAM_DATA_POINTS" ->
         OneFieldOnly(row.positive) \/ OneFieldOnly(row.negative)
    [] kind = "HISTOGRAM_DATA_POINTS" ->
         row.bucket_counts = <<>> \/ row.explicit_bounds = <<>>
    [] OTHER -> FALSE

\* Every field of every row arrives as it was sent, whatever other rows and
\* earlier batches have in it, and a batch is refused only for its own rows:
\* the builders' defaults and the readers' agree for every column, there or
\* not (TryBuild and the decoders), but for what Kept names.
BatchesReadBack ==
  /\ phase = "read" => \A i \in DOMAIN rows : received[i] = Kept(rows[i])
  /\ phase \in {"rejected", "panicked"} => \E i \in DOMAIN rows : Breaks(i, rows[i])

\* A decoder is not stopped by data it does not know ("silently ignore unknown
\* types to avoid DOS attacks", logs.go).  The empty body has no type to ignore.
NeverPanics == phase # "panicked"
=============================================================================
