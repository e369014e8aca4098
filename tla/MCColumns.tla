------------------------------ MODULE MCColumns ------------------------------
(***************************************************************************)
(* Rows of all zeros, rows without a zero, and each of these with one      *)
(* field changed.                                                          *)
(***************************************************************************)
EXTENDS Columns, TLC

\* The values of a field: the first in rows of zeros, the second in the others.
Number == <<0, 1>>

\* Three kinds of metrics with different fields, and the others.
Temporality(row) == IF row.metric_type \in Aggregated THEN row ELSE
  [row EXCEPT !.aggregation_temporality = 0]
Monotonic(row) == IF row.metric_type = Sum THEN row ELSE
  [row EXCEPT !.is_monotonic = 0]

Variants(values) ==
  LET base == {[f \in DOMAIN values |-> values[f][b]] : b \in {1, 2}}
  IN  base \cup UNION {{[row EXCEPT ![f] = values[f][v]] : v \in DOMAIN values[f]} :
                         row \in base, f \in DOMAIN values}

Numbers(fields) == [f \in fields |-> Number]

\* Values of each type, zero and not, and maps and slices of some.
Values ==
  <<<<StrType, 0>>, <<StrType, 1>>, <<IntType, 0>>, <<IntType, 1>>,
    <<DoubleType, 0>>, <<DoubleType, 1>>, <<BoolType, 0>>, <<BoolType, 1>>,
    <<BytesType, <<>>>>, <<BytesType, <<1>>>>,
    <<MapType, <<>>>>, <<MapType, <<<<StrType, 1>>, <<BytesType, <<>>>>>>>>,
    <<SliceType, <<<<IntType, 0>>, EmptyValue>>>>>>

\* Numbers and exemplars: no value, integers, doubles.
DPValues == <<EmptyValue, <<1, 1>>, <<1, 0>>, <<2, 0>>, <<2, 1>>>>

Set == <<Null, 1, 0>>

Counts == <<<<>>, <<1, 0>>>>

SomeBuckets ==
  <<[offset |-> 0, counts |-> <<>>], [offset |-> 1, counts |-> <<1, 0>>],
    [offset |-> 0, counts |-> <<0>>], [offset |-> 1, counts |-> <<>>]>>

Dropped == {"dropped_attributes_count"}

MCRows ==
  [SPANS |-> Variants(Numbers({"start_time", "end_time", "trace_id", "span_id",
       "trace_state", "parent_span_id", "name", "kind", "dropped_events_count",
       "dropped_links_count", "status_code", "status_message"} \cup Dropped)),
   SPAN_EVENTS |-> Variants(Numbers({"time", "name"} \cup Dropped)),
   SPAN_LINKS |-> Variants(Numbers({"trace_id", "span_id", "trace_state"} \cup Dropped)),
   LOGS |-> Variants(
       Numbers({"time", "observed_time", "trace_id", "span_id", "severity_number",
                "severity_text", "flags"} \cup Dropped)
       @@ "body" :> <<EmptyValue>> \o Values),
   METRICS |-> {Monotonic(Temporality(row)) : row \in Variants(
       Numbers({"name", "description", "unit", "aggregation_temporality", "is_monotonic"})
       @@ "metric_type" :> <<0, 2, 1, 3, 4, 5>>)},
   NUMBER_DATA_POINTS |-> Variants(
       Numbers({"start_time", "time", "flags"}) @@ "value" :> DPValues),
   SUMMARY_DATA_POINTS |-> Variants(
       Numbers({"start_time", "time", "count", "sum", "flags"})
       @@ "quantiles" :> <<<<>>, <<[quantile |-> 1, value |-> 1]>>,
            <<[quantile |-> 0, value |-> 1], [quantile |-> 0, value |-> 0]>>>>),
   HISTOGRAM_DATA_POINTS |-> Variants(
       Numbers({"start_time", "time", "count", "flags"})
       @@ [f \in {"sum", "min", "max"} |-> Set]
       @@ [f \in {"bucket_counts", "explicit_bounds"} |-> Counts]),
   EXP_HISTOGRAM_DATA_POINTS |-> Variants(
       Numbers({"start_time", "time", "count", "scale", "zero_count", "flags"})
       @@ [f \in {"sum", "min", "max"} |-> Set]
       @@ [f \in {"positive", "negative"} |-> SomeBuckets]),
   EXEMPLARS |-> Variants(Numbers({"time", "span_id", "trace_id"}) @@ "value" :> DPValues),
   ATTRS |-> Variants("key" :> Number @@ "value" :> Values),
   RESOURCES |-> Variants(Numbers({"schema_url"} \cup Dropped)),
   SCOPES |-> Variants(Numbers({"name", "version", "schema_url"} \cup Dropped))]

MCSizes == <<2, 1>>
=============================================================================
