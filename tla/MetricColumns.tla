--------------------------- MODULE MetricColumns ---------------------------
(***************************************************************************)
(* The columns of metrics, their data points and exemplars (pkg/otel/      *)
(* metrics).  The value of a number is a pair of a type and a content; the *)
(* sum, minimum and maximum of a histogram are Null if they are not set.   *)
(***************************************************************************)
EXTENDS CommonColumns

\* Types of metrics.
Sum == 2
Aggregated == {Sum, 3, 4}   \* with the two kinds of histograms

\* Types of the value of numbers and exemplars: none, these.
IntValue == 1
DoubleValue == 2

-----------------------------------------------------------------------------
MetricOptional == {"description", "unit", "aggregation_temporality", "is_monotonic"}

AppendMetric(metric) ==
  [metric_type |-> Uint8Append(metric.metric_type),
   name        |-> StringAppendNonEmpty(metric.name),
   description |-> StringAppendNonEmpty(metric.description),
   unit        |-> StringAppendNonEmpty(metric.unit),
   aggregation_temporality |->
     IF metric.metric_type \in Aggregated
     THEN Int32Append(metric.aggregation_temporality) ELSE AppendNull,
   is_monotonic |->
     IF metric.metric_type = Sum THEN BooleanAppend(metric.is_monotonic) ELSE AppendNull]

MetricIDs ==
  {"metric_type", "name", "description", "unit", "aggregation_temporality", "is_monotonic"}

MetricFrom(row) ==
  LET c == Fields(row, MetricIDs)
      type == U8FromRecord(c.metric_type)
      temporality == I32FromRecord(c.aggregation_temporality)
      monotonic == BoolFromRecord(c.is_monotonic)
  IN  [metric_type |-> type,
       name        |-> StringFromRecord(c.name),
       description |-> StringFromRecord(c.description),
       unit        |-> StringFromRecord(c.unit),
       aggregation_temporality |-> IF type \in Aggregated THEN temporality ELSE 0,
       is_monotonic |-> IF type = Sum THEN monotonic ELSE 0]

-----------------------------------------------------------------------------
NumberDPOptional == {"flags"}

AppendNumberDP(dp) ==
  [start_time   |-> IF dp.start_time = 0 THEN AppendNull ELSE TimestampAppend(dp.start_time),
   time         |-> TimestampAppend(dp.time),
   int_value    |-> IF dp.value[1] = IntValue THEN Int64Append(dp.value[2]) ELSE AppendNull,
   double_value |-> IF dp.value[1] = DoubleValue THEN Float64Append(dp.value[2]) ELSE AppendNull,
   flags        |-> Uint32Append(dp.flags)]

NumberDPIDs == {"start_time", "time", "int_value", "double_value", "flags"}

NumberFrom(int, double) ==
  IF int # Null THEN <<IntValue, int>>
  ELSE IF double # Null THEN <<DoubleValue, double>> ELSE EmptyValue

NumberDPFrom(row) ==
  LET c == Fields(row, NumberDPIDs)
  IN  [start_time |-> TimestampFromRecord(c.start_time),
       time       |-> TimestampFromRecord(c.time),
       value      |-> NumberFrom(I64OrNilFromRecord(c.int_value),
                                 F64OrNilFromRecord(c.double_value)),
       flags      |-> U32FromRecord(c.flags)]

-----------------------------------------------------------------------------
ExemplarOptional == {"time", "int_value", "double_value", "span_id", "trace_id"}

AppendExemplar(exemplar) ==
  [time         |-> TimestampAppend(exemplar.time),
   int_value    |-> IF exemplar.value[1] = IntValue
                    THEN Int64Append(exemplar.value[2]) ELSE AppendNull,
   double_value |-> IF exemplar.value[1] = DoubleValue
                    THEN Float64Append(exemplar.value[2]) ELSE AppendNull,
   span_id      |-> FixedSizeBinaryAppend(exemplar.span_id),
   trace_id     |-> FixedSizeBinaryAppend(exemplar.trace_id)]

ExemplarIDs == {"time", "int_value", "double_value", "span_id", "trace_id"}

ExemplarRejected(row) ==
  LET c == Fields(row, ExemplarIDs) IN Null \in {c.span_id, c.trace_id}

ExemplarFrom(row) ==
  LET c == Fields(row, ExemplarIDs)
  IN  [time     |-> TimestampFromRecord(c.time),
       value    |-> NumberFrom(I64OrNilFromRecord(c.int_value),
                               F64OrNilFromRecord(c.double_value)),
       span_id  |-> FixedSizeBinaryFromRecord(c.span_id),
       trace_id |-> FixedSizeBinaryFromRecord(c.trace_id)]

-----------------------------------------------------------------------------
SummaryOptional == {"start_time", "time", "count", "sum", "quantiles", "flags"}

QuantileOptional == {"quantile", "value"}

AppendQuantiles(quantiles) ==
  [quantiles |-> ListAppend([k \in DOMAIN quantiles |-> Struct]),
   quantile  |-> Elements([k \in DOMAIN quantiles |->
                             Float64AppendNonZero(quantiles[k].quantile)]),
   value     |-> Elements([k \in DOMAIN quantiles |->
                             Float64AppendNonZero(quantiles[k].value)])]

AppendSummary(dp) ==
  With([start_time |-> TimestampAppend(dp.start_time),
        time       |-> TimestampAppend(dp.time),
        count      |-> Uint64Append(dp.count),
        sum        |-> Float64AppendNonZero(dp.sum),
        flags      |-> Uint32Append(dp.flags)],
       AppendQuantiles(dp.quantiles))

QuantileIDs == {"quantiles", "quantile", "value"}

SummaryIDs == {"start_time", "time", "count", "sum", "flags"} \cup QuantileIDs

QuantilesFrom(c) ==
  LET Element(field, k) == F64FieldByID(IF field = Null THEN Null ELSE field[k])
  IN  IF c.quantiles = Null THEN <<>>
      ELSE [k \in DOMAIN c.quantiles |->
              [quantile |-> Element(c.quantile, k), value |-> Element(c.value, k)]]

SummaryFrom(row) ==
  LET c == Fields(row, SummaryIDs)
  IN  [start_time |-> TimestampFromRecord(c.start_time),
       time       |-> TimestampFromRecord(c.time),
       count      |-> U64FromRecord(c.count),
       sum        |-> F64FromRecord(c.sum),
       flags      |-> U32FromRecord(c.flags),
       quantiles  |-> QuantilesFrom(c)]

-----------------------------------------------------------------------------
AppendIfSet(v) == IF v # Null THEN Float64AppendNonZero(v) ELSE AppendNull

HistogramOptional ==
  {"start_time", "time", "count", "sum", "bucket_counts", "explicit_bounds", "flags",
   "min", "max"}

AppendHistogram(dp) ==
  [start_time      |-> TimestampAppend(dp.start_time),
   time            |-> TimestampAppend(dp.time),
   count           |-> Uint64Append(dp.count),
   sum             |-> AppendIfSet(dp.sum),
   bucket_counts   |-> ListAppend([k \in DOMAIN dp.bucket_counts |->
                                     Uint64Append(dp.bucket_counts[k]).cell]),
   explicit_bounds |-> ListAppend([k \in DOMAIN dp.explicit_bounds |->
                                     Float64AppendNonZero(dp.explicit_bounds[k]).cell]),
   flags           |-> Uint32Append(dp.flags),
   min             |-> AppendIfSet(dp.min),
   max             |-> AppendIfSet(dp.max)]

HistogramIDs ==
  {"start_time", "time", "count", "sum", "bucket_counts", "explicit_bounds", "flags",
   "min", "max"}

\* A list that is null has no array of the type the decoder expects.
HistogramRejected(row) ==
  LET c == Fields(row, HistogramIDs)
  IN  Null \in {ListValuesByIDFromRecord(c.bucket_counts),
                ListValuesByIDFromRecord(c.explicit_bounds)}

HistogramFrom(row) ==
  LET c == Fields(row, HistogramIDs)
  IN  [start_time      |-> TimestampFromRecord(c.start_time),
       time            |-> TimestampFromRecord(c.time),
       count           |-> U64FromRecord(c.count),
       sum             |-> F64OrNilFromRecord(c.sum),
       bucket_counts   |-> ListValuesByIDFromRecord(c.bucket_counts),
       explicit_bounds |-> ListValuesByIDFromRecord(c.explicit_bounds),
       flags           |-> U32FromRecord(c.flags),
       min             |-> F64OrNilFromRecord(c.min),
       max             |-> F64OrNilFromRecord(c.max)]
=============================================================================
