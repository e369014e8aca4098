------------------------- MODULE EHistogramColumns -------------------------
(***************************************************************************)
(* The columns of exponential histograms (pkg/otel/metrics/arrow/          *)
(* ehistogram_dp.go, ehistogram_dpb.go and pkg/otel/metrics/otlp).         *)
(* Positive and negative buckets are structs of an offset and a list.      *)
(***************************************************************************)
EXTENDS MetricColumns

EHistogramOptional ==
  {"start_time", "time", "count", "sum", "scale", "zero_count", "positive", "negative",
   "flags", "min", "max"}

BucketsOptional == {"positive_offset", "positive_counts", "negative_offset", "negative_counts"}

AppendBuckets(buckets) ==
  IF buckets.offset = 0 /\ buckets.counts = <<>>
  THEN [struct |-> AppendNull, offset |-> AppendNull, counts |-> AppendNull]
  ELSE [struct |-> StructAppend,
        offset |-> Int32AppendNonZero(buckets.offset),
        counts |-> ListAppend([k \in DOMAIN buckets.counts |->
                                 Uint64Append(buckets.counts[k]).cell])]

AppendEHistogram(dp) ==
  LET positive == AppendBuckets(dp.positive)
      negative == AppendBuckets(dp.negative)
  IN  [start_time |-> TimestampAppend(dp.start_time),
       time       |-> TimestampAppend(dp.time),
       count      |-> Uint64Append(dp.count),
       sum        |-> AppendIfSet(dp.sum),
       scale      |-> Int32AppendNonZero(dp.scale),
       zero_count |-> Uint64Append(dp.zero_count),
       positive        |-> positive.struct,
       positive_offset |-> positive.offset,
       positive_counts |-> positive.counts,
       negative        |-> negative.struct,
       negative_offset |-> negative.offset,
       negative_counts |-> negative.counts,
       flags      |-> Uint32Append(dp.flags),
       min        |-> AppendIfSet(dp.min),
       max        |-> AppendIfSet(dp.max)]

EHistogramIDs ==
  {"start_time", "time", "count", "sum", "scale", "zero_count", "flags", "min", "max"}

\* The struct, where either of its fields is in the schema.
BucketsOf(row, struct, offset, counts) ==
  IF {offset, counts} \cap DOMAIN row = {} THEN Null
  ELSE StructFromRecord(Fields(row, {struct})[struct])

\* Field(-1) panics, so both fields must be there.
BucketsPanic(row, struct, offset, counts) ==
  /\ BucketsOf(row, struct, offset, counts) # Null
  /\ ~({offset, counts} \subseteq DOMAIN row)

\* The arrays are read without a look at their nulls.
BucketsFrom(row, struct, offset, counts) ==
  IF BucketsOf(row, struct, offset, counts) = Null THEN [offset |-> 0, counts |-> <<>>]
  ELSE [offset |-> OrZero(row[offset]),
        counts |-> IF row[counts] = Null THEN <<>> ELSE row[counts]]

EHistogramPanics(row) ==
  \/ BucketsPanic(row, "positive", "positive_offset", "positive_counts")
  \/ BucketsPanic(row, "negative", "negative_offset", "negative_counts")

EHistogramFrom(row) ==
  LET c == Fields(row, EHistogramIDs)
  IN  [start_time |-> TimestampFromRecord(c.start_time),
       time       |-> TimestampFromRecord(c.time),
       count      |-> U64FromRecord(c.count),
       sum        |-> F64OrNilFromRecord(c.sum),
       scale      |-> I32FromRecord(c.scale),
       zero_count |-> U64FromRecord(c.zero_count),
       positive   |-> BucketsFrom(row, "positive", "positive_offset", "positive_counts"),
       negative   |-> BucketsFrom(row, "negative", "negative_offset", "negative_counts"),
       flags      |-> U32FromRecord(c.flags),
       min        |-> F64OrNilFromRecord(c.min),
       max        |-> F64OrNilFromRecord(c.max)]
=============================================================================
