---------------------------- MODULE ColumnsProofs ----------------------------
(***************************************************************************)
(* Theorems about Columns: what the builders of a kind write, its decoder  *)
(* reads back.  Most of it is about one row: the cell each builder writes  *)
(* in each column, and what the typed reader of the decoder makes of it.   *)
(***************************************************************************)
EXTENDS Columns, BoundedInduction, TLAPS

\* The builders and the readers that are names for a few ways to write and read.
USE DEF Always, Uint8Append, Uint32Append, Uint32AppendNonZero, Uint64Append, Int32Append,
  Int32AppendNonZero, Int64Append, Float64Append, Float64AppendNonZero,
  TimestampAppend, DurationAppend, BooleanAppend, StringAppendNonEmpty,
  FixedSizeBinaryAppend, StructAppend, OrNil, U8FromRecord, U32FromRecord,
  U64FromRecord, I32FromRecord, I64FromRecord, I64OrNilFromRecord, F64FromRecord,
  F64OrNilFromRecord, BoolFromRecord, TimestampFromRecord, DurationFromRecord,
  StructFromRecord, StringFromArray, StringFromRecord, FixedSizeBinaryFromArray,
  FixedSizeBinaryFieldByIDFromRecord, FixedSizeBinaryFromRecord, U8FromArray,
  U8FromStruct, U32FromArray, U32FromStruct, I32FromArray, I32FromStruct,
  I64FromArray, I64FromStruct, F64FromArray, F64FromStruct, F64FieldByID,
  BoolFromArray, BoolFromStruct, StringFromStruct, BinaryFromRecord, BinaryFromStruct

\* A column that is read where no row asks for more: it is there, or it was not
\* asked for.
LEMMA FieldRead ==
  ASSUME NEW calls, AskedBy(calls) = {}, NEW ids, NEW c \in ids, c \in DOMAIN calls
  PROVE  \/ Fields(Cells(calls), ids)[c] = calls[c].cell
         \/ /\ Fields(Cells(calls), ids)[c] = Null
            /\ ~calls[c].asks
            /\ c \in Optional
BY DEF Fields, Cells, AskedBy, Absent

\* How a number is written.
Writes(v) == {Plain(v), NonZero(v), Call(v, TRUE), StringAppend(v)}

LEMMA CallParts ==
  ASSUME NEW cell, NEW asks
  PROVE  Call(cell, asks).cell = cell /\ Call(cell, asks).asks = asks
BY DEF Call

LEMMA WritesParts ==
  ASSUME NEW v, NEW call \in Writes(v)
  PROVE  /\ call.cell = v \/ (v = 0 /\ call.cell = Null)
         /\ ~call.asks => v = 0
<1>1. CASE call = Plain(v)
  <2>1. call.cell = v /\ call.asks = (v # 0)
    BY <1>1, CallParts DEF Plain
  <2> QED BY <2>1
<1>2. CASE call = NonZero(v)
  <2>1. call.cell = (IF v = 0 THEN Null ELSE v) /\ call.asks = (v # 0)
    BY <1>2, CallParts DEF NonZero
  <2> QED BY <2>1
<1>3. CASE call = Call(v, TRUE)
  <2>1. call.cell = v /\ call.asks = TRUE
    BY <1>3, CallParts
  <2> QED BY <2>1
<1>4. CASE call = StringAppend(v)
  <2>1. call.cell = (IF v = 0 THEN Null ELSE v) /\ call.asks = TRUE
    BY <1>4, CallParts DEF StringAppend
  <2> QED BY <2>1
<1> QED BY <1>1, <1>2, <1>3, <1>4 DEF Writes

\* However a number is written, it is read back.
LEMMA NumberRead ==
  ASSUME NEW calls, AskedBy(calls) = {}, NEW ids, NEW c \in ids, c \in DOMAIN calls,
         NEW v \in Int, calls[c] \in Writes(v)
  PROVE  OrZero(Fields(Cells(calls), ids)[c]) = v
<1>1. v # Null
  BY ColumnsAssumption DEF ColumnsAssumption
<1> DEFINE got == Fields(Cells(calls), ids)[c]
<1>2. got = calls[c].cell \/ (got = Null /\ ~calls[c].asks)
  BY FieldRead
<1> HIDE DEF got
<1>3. OrZero(got) = v
  BY <1>1, <1>2, WritesParts DEF OrZero
<1> QED BY <1>3 DEF got

LEMMA AskedRead ==
  ASSUME NEW calls, AskedBy(calls) = {}, NEW ids, NEW c \in ids, c \in DOMAIN calls,
         calls[c].asks
  PROVE  Fields(Cells(calls), ids)[c] = calls[c].cell
BY FieldRead

\* The calls of two groups of builders.
LEMMA WithParts ==
  ASSUME NEW calls, NEW others
  PROVE  /\ DOMAIN With(calls, others) = DOMAIN calls \cup DOMAIN others
         /\ \A c \in DOMAIN calls : With(calls, others)[c] = calls[c]
         /\ \A c \in DOMAIN others \ DOMAIN calls : With(calls, others)[c] = others[c]
BY DEF With

\* Events, links, resources and scopes have numbers only.
LEMMA EventReads ==
  ASSUME NEW row, IsRow("SPAN_EVENTS", row), AskedBy(AppendEvent(row)) = {}
  PROVE  EventFrom(Cells(AppendEvent(row))) = row
<1> DEFINE calls == AppendEvent(row)
           fields == {"time", "name", "dropped_attributes_count"}
           got == Fields(Cells(calls), EventIDs)
<1>1. \A f \in fields : row[f] \in Int
  BY DEF IsRow, HasFields, EventIDs
<1>2. row = [time |-> row.time, name |-> row.name,
              dropped_attributes_count |-> row.dropped_attributes_count]
  BY DEF IsRow, HasFields, EventIDs
<1>3. /\ fields \subseteq DOMAIN calls
      /\ \A f \in fields : calls[f] \in Writes(row[f])
  BY DEF AppendEvent, Writes
<1>4. \A f \in fields : OrZero(got[f]) = row[f]
  <2> SUFFICES ASSUME NEW f \in fields
               PROVE  OrZero(got[f]) = row[f]
    OBVIOUS
  <2>1. f \in EventIDs
    BY DEF EventIDs
  <2>2. /\ AskedBy(calls) = {} /\ f \in DOMAIN calls
        /\ row[f] \in Int /\ calls[f] \in Writes(row[f])
    BY <1>1, <1>3
  <2> HIDE DEF calls, fields
  <2> QED BY <2>1, <2>2, NumberRead
<1> QED
  BY <1>2, <1>4 DEF EventFrom

LEMMA LinkReads ==
  ASSUME NEW row, IsRow("SPAN_LINKS", row), AskedBy(AppendLink(row)) = {}
  PROVE  LinkFrom(Cells(AppendLink(row))) = row
<1> DEFINE calls == AppendLink(row)
           fields == {"trace_id", "span_id", "trace_state", "dropped_attributes_count"}
           got == Fields(Cells(calls), LinkIDs)
<1>1. \A f \in fields : row[f] \in Int
  BY DEF IsRow, HasFields, LinkIDs
<1>2. row = [trace_id |-> row.trace_id, span_id |-> row.span_id,
              trace_state |-> row.trace_state,
              dropped_attributes_count |-> row.dropped_attributes_count]
  BY DEF IsRow, HasFields, LinkIDs
<1>3. /\ fields \subseteq DOMAIN calls
      /\ \A f \in fields : calls[f] \in Writes(row[f])
  BY DEF AppendLink, Writes
<1>4. \A f \in fields : OrZero(got[f]) = row[f]
  <2> SUFFICES ASSUME NEW f \in fields
               PROVE  OrZero(got[f]) = row[f]
    OBVIOUS
  <2>1. f \in LinkIDs
    BY DEF LinkIDs
  <2>2. /\ AskedBy(calls) = {} /\ f \in DOMAIN calls
        /\ row[f] \in Int /\ calls[f] \in Writes(row[f])
    BY <1>1, <1>3
  <2> HIDE DEF calls, fields
  <2> QED BY <2>1, <2>2, NumberRead
<1> QED
  BY <1>2, <1>4 DEF LinkFrom

LEMMA ResourceReads ==
  ASSUME NEW row, IsRow("RESOURCES", row), AskedBy(AppendResource(row)) = {}
  PROVE  ResourceFrom(Cells(AppendResource(row))) = row
<1> DEFINE calls == AppendResource(row)
           fields == {"schema_url", "dropped_attributes_count"}
           got == Fields(Cells(calls), ResourceIDs)
<1>1. \A f \in fields : row[f] \in Int
  BY DEF IsRow, HasFields, ResourceIDs
<1>2. row = [schema_url |-> row.schema_url,
              dropped_attributes_count |-> row.dropped_attributes_count]
  BY DEF IsRow, HasFields, ResourceIDs
<1>3. /\ fields \subseteq DOMAIN calls
      /\ \A f \in fields : calls[f] \in Writes(row[f])
  BY DEF AppendResource, Writes
<1>4. \A f \in fields : OrZero(got[f]) = row[f]
  <2> SUFFICES ASSUME NEW f \in fields
               PROVE  OrZero(got[f]) = row[f]
    OBVIOUS
  <2>1. f \in ResourceIDs
    BY DEF ResourceIDs
  <2>2. /\ AskedBy(calls) = {} /\ f \in DOMAIN calls
        /\ row[f] \in Int /\ calls[f] \in Writes(row[f])
    BY <1>1, <1>3
  <2> HIDE DEF calls, fields
  <2> QED BY <2>1, <2>2, NumberRead
<1> QED
  BY <1>2, <1>4 DEF ResourceFrom

LEMMA ScopeReads ==
  ASSUME NEW row, IsRow("SCOPES", row), AskedBy(AppendScope(row)) = {}
  PROVE  ScopeFrom(Cells(AppendScope(row))) = row
<1> DEFINE calls == AppendScope(row)
           fields == {"name", "version", "schema_url", "dropped_attributes_count"}
           got == Fields(Cells(calls), ScopeIDs)
<1>1. \A f \in fields : row[f] \in Int
  BY DEF IsRow, HasFields, ScopeIDs
<1>2. row = [name |-> row.name, version |-> row.version, schema_url |-> row.schema_url,
              dropped_attributes_count |-> row.dropped_attributes_count]
  BY DEF IsRow, HasFields, ScopeIDs
<1>3. /\ fields \subseteq DOMAIN calls
      /\ \A f \in fields : calls[f] \in Writes(row[f])
  BY DEF AppendScope, Writes
<1>4. \A f \in fields : OrZero(got[f]) = row[f]
  <2> SUFFICES ASSUME NEW f \in fields
               PROVE  OrZero(got[f]) = row[f]
    OBVIOUS
  <2>1. f \in ScopeIDs
    BY DEF ScopeIDs
  <2>2. /\ AskedBy(calls) = {} /\ f \in DOMAIN calls
        /\ row[f] \in Int /\ calls[f] \in Writes(row[f])
    BY <1>1, <1>3
  <2> HIDE DEF calls, fields
  <2> QED BY <2>1, <2>2, NumberRead
<1> QED
  BY <1>2, <1>4 DEF ScopeFrom

\* Two columns of a metric depend on its type, in the builder and in the decoder.
LEMMA MetricReads ==
  ASSUME NEW row, IsRow("METRICS", row), AskedBy(AppendMetric(row)) = {}
  PROVE  MetricFrom(Cells(AppendMetric(row))) = row
<1> DEFINE calls == AppendMetric(row)
           always == {"metric_type", "name", "description", "unit"}
           got == Fields(Cells(calls), MetricIDs)
<1>1. \A f \in MetricIDs : row[f] \in Int
  BY DEF IsRow, HasFields, MetricIDs
<1>2. row = [metric_type |-> row.metric_type, name |-> row.name,
             description |-> row.description, unit |-> row.unit,
             aggregation_temporality |-> row.aggregation_temporality,
             is_monotonic |-> row.is_monotonic]
  BY DEF IsRow, HasFields, MetricIDs
<1>3. /\ DOMAIN calls = MetricIDs
      /\ \A f \in always : calls[f] \in Writes(row[f])
      /\ row.metric_type \in Aggregated =>
           calls.aggregation_temporality \in Writes(row.aggregation_temporality)
      /\ row.metric_type = Sum => calls.is_monotonic \in Writes(row.is_monotonic)
  <2>1. DOMAIN calls = MetricIDs
    BY DEF AppendMetric, MetricIDs
  <2>2. /\ calls.metric_type = Plain(row.metric_type)
        /\ calls.name = NonZero(row.name)
        /\ calls.description = NonZero(row.description)
        /\ calls.unit = NonZero(row.unit)
    BY DEF AppendMetric
  <2>3. /\ row.metric_type \in Aggregated =>
             calls.aggregation_temporality = Call(row.aggregation_temporality, TRUE)
        /\ row.metric_type = Sum => calls.is_monotonic = Call(row.is_monotonic, TRUE)
    BY DEF AppendMetric
  <2> HIDE DEF calls
  <2> QED BY <2>1, <2>2, <2>3 DEF Writes
<1>4. \A f \in MetricIDs :
        calls[f] \in Writes(row[f]) => OrZero(got[f]) = row[f]
  <2> SUFFICES ASSUME NEW f \in MetricIDs, calls[f] \in Writes(row[f])
               PROVE  OrZero(got[f]) = row[f]
    OBVIOUS
  <2>1. AskedBy(calls) = {} /\ f \in DOMAIN calls /\ row[f] \in Int
    BY <1>1, <1>3
  <2> HIDE DEF calls
  <2> QED BY <2>1, NumberRead
<1>5. /\ OrZero(got.metric_type) = row.metric_type
      /\ OrZero(got.name) = row.name
      /\ OrZero(got.description) = row.description
      /\ OrZero(got.unit) = row.unit
      /\ row.metric_type \in Aggregated =>
           OrZero(got.aggregation_temporality) = row.aggregation_temporality
      /\ row.metric_type = Sum => OrZero(got.is_monotonic) = row.is_monotonic
  <2> HIDE DEF calls, got
  <2> QED BY <1>3, <1>4 DEF MetricIDs
<1>6. /\ row.metric_type \notin Aggregated => row.aggregation_temporality = 0
      /\ row.metric_type # Sum => row.is_monotonic = 0
  BY DEF IsRow
<1>7. MetricFrom(Cells(calls)) =
        [metric_type |-> row.metric_type, name |-> row.name,
         description |-> row.description, unit |-> row.unit,
         aggregation_temporality |-> row.aggregation_temporality,
         is_monotonic |-> row.is_monotonic]
  <2> HIDE DEF calls
  <2> QED BY <1>5, <1>6 DEF MetricFrom
<1> QED BY <1>2, <1>7

\* Ids are there, and a span's end is told by its duration.
LEMMA SpanReads ==
  ASSUME NEW row, IsRow("SPANS", row), AskedBy(AppendSpan(row)) = {}
  PROVE  /\ SpanFrom(Cells(AppendSpan(row))) = row
         /\ ~SpanRejected(Cells(AppendSpan(row)))
<1> DEFINE calls == AppendSpan(row)
           base == {"start_time", "parent_span_id", "trace_state", "name", "kind",
                    "dropped_attributes_count", "dropped_events_count",
                    "dropped_links_count"}
           status == {"status_code", "status_message"}
           ids == {"trace_id", "span_id"}
           of_span ==
             [start_time     |-> TimestampAppend(row.start_time),
              duration       |-> DurationAppend(row.end_time - row.start_time),
              trace_id       |-> FixedSizeBinaryAppend(row.trace_id),
              span_id        |-> FixedSizeBinaryAppend(row.span_id),
              trace_state    |-> StringAppendNonEmpty(row.trace_state),
              parent_span_id |-> FixedSizeBinaryAppend(row.parent_span_id),
              name           |-> StringAppendNonEmpty(row.name),
              kind           |-> Int32AppendNonZero(row.kind),
              dropped_attributes_count |->
                Uint32AppendNonZero(row.dropped_attributes_count),
              dropped_events_count |-> Uint32AppendNonZero(row.dropped_events_count),
              dropped_links_count  |-> Uint32AppendNonZero(row.dropped_links_count)]
           got == Fields(Cells(calls), SpanIDs)
<1>1. /\ \A f \in base \cup status \cup ids : row[f] \in Int
      /\ row.end_time \in Int
  BY DEF IsRow, HasFields
<1>2. row = [start_time |-> row.start_time, end_time |-> row.end_time,
             trace_id |-> row.trace_id, span_id |-> row.span_id,
             trace_state |-> row.trace_state, parent_span_id |-> row.parent_span_id,
             name |-> row.name, kind |-> row.kind,
             dropped_attributes_count |-> row.dropped_attributes_count,
             dropped_events_count |-> row.dropped_events_count,
             dropped_links_count |-> row.dropped_links_count,
             status_code |-> row.status_code, status_message |-> row.status_message]
  BY DEF IsRow, HasFields
<1>3. DOMAIN of_span = base \cup ids \cup {"duration"}
  OBVIOUS
<1>4. DOMAIN AppendStatus(row) = status \cup {"status"}
  BY DEF AppendStatus
<1>5. /\ \A f \in base \cup status : f \in DOMAIN calls /\ calls[f] \in Writes(row[f])
      /\ "duration" \in DOMAIN calls
      /\ calls.duration \in Writes(row.end_time - row.start_time)
      /\ \A f \in ids : f \in DOMAIN calls /\ calls[f].cell = row[f] /\ calls[f].asks
      /\ "status" \in DOMAIN calls /\ calls.status.cell = Struct /\ calls.status.asks
  <2>1. /\ \A f \in base : of_span[f] \in Writes(row[f])
        /\ of_span.duration \in Writes(row.end_time - row.start_time)
    BY DEF Writes
  <2>2. /\ of_span.trace_id = Call(row.trace_id, TRUE)
        /\ of_span.span_id = Call(row.span_id, TRUE)
    OBVIOUS
  <2>3. /\ \A f \in status : AppendStatus(row)[f] \in Writes(row[f])
        /\ AppendStatus(row).status = Call(Struct, TRUE)
    BY DEF AppendStatus, Writes
  <2>4. calls = With(of_span, AppendStatus(row))
    BY DEF AppendSpan
  <2> HIDE DEF calls, of_span
  <2>5. /\ DOMAIN calls = DOMAIN of_span \cup DOMAIN AppendStatus(row)
        /\ \A f \in DOMAIN of_span : calls[f] = of_span[f]
        /\ \A f \in DOMAIN AppendStatus(row) \ DOMAIN of_span :
             calls[f] = AppendStatus(row)[f]
    <3> DEFINE both == With(of_span, AppendStatus(row))
    <3>1. /\ DOMAIN both = DOMAIN of_span \cup DOMAIN AppendStatus(row)
          /\ \A f \in DOMAIN of_span : both[f] = of_span[f]
          /\ \A f \in DOMAIN AppendStatus(row) \ DOMAIN of_span :
               both[f] = AppendStatus(row)[f]
      BY WithParts
    <3> QED BY <3>1, <2>4
  <2>6. \A v : Call(v, TRUE).cell = v /\ Call(v, TRUE).asks
    BY DEF Call
  <2>7. /\ \A f \in base : f \in DOMAIN calls /\ calls[f] \in Writes(row[f])
        /\ "duration" \in DOMAIN calls
        /\ calls.duration \in Writes(row.end_time - row.start_time)
    BY <1>3, <2>1, <2>5
  <2>8. \A f \in status : f \in DOMAIN calls /\ calls[f] \in Writes(row[f])
    BY <1>3, <1>4, <2>3, <2>5
  <2>9. /\ "status" \in DOMAIN calls /\ calls.status = Call(Struct, TRUE)
        /\ \A f \in ids : f \in DOMAIN calls /\ calls[f] = of_span[f]
    BY <1>3, <1>4, <2>3, <2>5
  <2>10. /\ calls.trace_id.cell = row.trace_id /\ calls.trace_id.asks
         /\ calls.span_id.cell = row.span_id /\ calls.span_id.asks
         /\ calls.status.cell = Struct /\ calls.status.asks
    BY <2>2, <2>6, <2>9
  <2> QED BY <2>7, <2>8, <2>9, <2>10
<1>6. base \cup status \cup ids \cup {"duration", "status"} \subseteq SpanIDs
  BY DEF SpanIDs, StatusIDs
<1>7. AskedBy(calls) = {}
  OBVIOUS
<1> HIDE DEF calls, of_span
<1>8. \A f \in base \cup status : OrZero(got[f]) = row[f]
  <2> SUFFICES ASSUME NEW f \in base \cup status
               PROVE  OrZero(got[f]) = row[f]
    OBVIOUS
  <2>1. f \in SpanIDs /\ f \in DOMAIN calls /\ row[f] \in Int /\ calls[f] \in Writes(row[f])
    BY <1>1, <1>5, <1>6
  <2> QED BY <2>1, <1>7, NumberRead
<1>9. OrZero(got.duration) = row.end_time - row.start_time
  <2>1. row.end_time - row.start_time \in Int
    BY <1>1
  <2> QED BY <2>1, <1>5, <1>6, <1>7, NumberRead
<1>10. \A f \in ids : got[f] = row[f]
  <2> SUFFICES ASSUME NEW f \in ids
               PROVE  got[f] = row[f]
    OBVIOUS
  <2>1. f \in SpanIDs /\ f \in DOMAIN calls /\ calls[f].cell = row[f] /\ calls[f].asks
    BY <1>5, <1>6
  <2> QED BY <2>1, <1>7, AskedRead
<1>11. got.status = Struct
  BY <1>5, <1>6, <1>7, AskedRead
<1>12. Struct # Null /\ \A f \in ids : row[f] # Null
  BY <1>1, ColumnsAssumption DEF ColumnsAssumption
<1>13. ~SpanRejected(Cells(calls))
  BY <1>10, <1>12 DEF SpanRejected
<1>14. row.start_time + (row.end_time - row.start_time) = row.end_time
  BY <1>1
<1>15. SpanFrom(Cells(calls)) =
         [start_time |-> row.start_time, end_time |-> row.end_time,
          trace_id |-> row.trace_id, span_id |-> row.span_id,
          trace_state |-> row.trace_state, parent_span_id |-> row.parent_span_id,
          name |-> row.name, kind |-> row.kind,
          dropped_attributes_count |-> row.dropped_attributes_count,
          dropped_events_count |-> row.dropped_events_count,
          dropped_links_count |-> row.dropped_links_count,
          status_code |-> row.status_code, status_message |-> row.status_message]
  BY <1>8, <1>9, <1>10, <1>11, <1>12, <1>14 DEF SpanFrom
<1> QED BY <1>2, <1>13, <1>15 DEF calls

-----------------------------------------------------------------------------
(***************************************************************************)
(* Numbers and exemplars.                                                  *)
(***************************************************************************)

LEMMA NullRead ==
  ASSUME NEW calls, AskedBy(calls) = {}, NEW ids, NEW c \in ids, c \in DOMAIN calls,
         calls[c] = AppendNull
  PROVE  Fields(Cells(calls), ids)[c] = Null
<1>1. calls[c].cell = Null
  BY DEF AppendNull, Call
<1> QED BY <1>1, FieldRead

\* A number is told from the column it is in.
LEMMA NumberValueRead ==
  ASSUME NEW calls, AskedBy(calls) = {}, NEW ids, {"int_value", "double_value"} \subseteq ids,
         {"int_value", "double_value"} \subseteq DOMAIN calls,
         NEW value \in NumberValues,
         calls.int_value =
           IF value[1] = IntValue THEN Call(value[2], TRUE) ELSE AppendNull,
         calls.double_value =
           IF value[1] = DoubleValue THEN Call(value[2], TRUE) ELSE AppendNull
  PROVE  NumberFrom(Fields(Cells(calls), ids).int_value,
                    Fields(Cells(calls), ids).double_value) = value
<1> DEFINE got == Fields(Cells(calls), ids)
<1>1. \A c \in {"int_value", "double_value"} :
        /\ calls[c] = AppendNull => got[c] = Null
        /\ calls[c] = Call(value[2], TRUE) => got[c] = value[2]
  <2> SUFFICES ASSUME NEW c \in {"int_value", "double_value"}
               PROVE  /\ calls[c] = AppendNull => got[c] = Null
                      /\ calls[c] = Call(value[2], TRUE) => got[c] = value[2]
    OBVIOUS
  <2>1. c \in ids /\ c \in DOMAIN calls
    OBVIOUS
  <2>2. Call(value[2], TRUE).cell = value[2] /\ Call(value[2], TRUE).asks
    BY DEF Call
  <2>3. calls[c] = AppendNull => got[c] = Null
    BY <2>1, NullRead
  <2>4. calls[c].asks => got[c] = calls[c].cell
    BY <2>1, AskedRead
  <2> HIDE DEF got
  <2> QED BY <2>2, <2>3, <2>4
<1> HIDE DEF got
<1>2. CASE value = EmptyValue
  <2>1. calls.int_value = AppendNull /\ calls.double_value = AppendNull
    BY <1>2 DEF EmptyValue, EmptyType, IntValue, DoubleValue
  <2>2. got.int_value = Null /\ got.double_value = Null
    BY <1>1, <2>1
  <2> QED BY <1>2, <2>2 DEF NumberFrom, got
<1>3. CASE value \in {IntValue, DoubleValue} \X Int
  <2>1. /\ value[1] \in {IntValue, DoubleValue} /\ value[2] \in Int
        /\ value = <<value[1], value[2]>> /\ value[2] # Null
    BY <1>3, ColumnsAssumption DEF ColumnsAssumption
  <2>2. CASE value[1] = IntValue
    <3>1. calls.int_value = Call(value[2], TRUE) /\ calls.double_value = AppendNull
      BY <2>2 DEF IntValue, DoubleValue
    <3>2. got.double_value = Null /\ got.int_value = value[2]
      BY <1>1, <3>1
    <3> QED BY <2>1, <2>2, <3>2 DEF NumberFrom, got
  <2>3. CASE value[1] = DoubleValue
    <3>1. calls.double_value = Call(value[2], TRUE) /\ calls.int_value = AppendNull
      BY <2>3 DEF IntValue, DoubleValue
    <3>2. got.int_value = Null /\ got.double_value = value[2]
      BY <1>1, <3>1
    <3> QED BY <2>1, <2>3, <3>2 DEF NumberFrom, got
  <2> QED BY <2>1, <2>2, <2>3
<1> QED BY <1>2, <1>3 DEF NumberValues

LEMMA NumberDPReads ==
  ASSUME NEW row, kind = "NUMBER_DATA_POINTS", IsRow(kind, row),
         AskedBy(AppendNumberDP(row)) = {}
  PROVE  NumberDPFrom(Cells(AppendNumberDP(row))) = row
<1> DEFINE calls == AppendNumberDP(row)
           numbers == {"start_time", "time", "flags"}
           got == Fields(Cells(calls), NumberDPIDs)
<1>1. (\A f \in numbers : row[f] \in Int) /\ row.value \in NumberValues
  BY DEF IsRow, HasFields
<1>2. row = [start_time |-> row.start_time, time |-> row.time, value |-> row.value,
             flags |-> row.flags]
  BY DEF IsRow, HasFields
<1>3. DOMAIN calls = NumberDPIDs
  BY DEF AppendNumberDP, NumberDPIDs
<1>4. \A f \in numbers : calls[f] \in Writes(row[f])
  <2>1. NonZero(0) = AppendNull
    BY DEF NonZero, AppendNull
  <2>2. /\ row.start_time = 0 => calls.start_time = AppendNull
        /\ row.start_time # 0 => calls.start_time = Plain(row.start_time)
        /\ calls.time = Plain(row.time)
        /\ calls.flags = Plain(row.flags)
    BY DEF AppendNumberDP
  <2> HIDE DEF calls
  <2> QED BY <2>1, <2>2 DEF Writes
<1>5. /\ calls.int_value =
           IF row.value[1] = IntValue THEN Call(row.value[2], TRUE) ELSE AppendNull
      /\ calls.double_value =
           IF row.value[1] = DoubleValue THEN Call(row.value[2], TRUE) ELSE AppendNull
  BY DEF AppendNumberDP
<1>6. AskedBy(calls) = {}
  OBVIOUS
<1>7. numbers \cup {"int_value", "double_value"} \subseteq NumberDPIDs
  BY DEF NumberDPIDs
<1> HIDE DEF calls
<1>8. \A f \in numbers : OrZero(got[f]) = row[f]
  <2> SUFFICES ASSUME NEW f \in numbers
               PROVE  OrZero(got[f]) = row[f]
    OBVIOUS
  <2> QED BY <1>1, <1>3, <1>4, <1>6, <1>7, NumberRead
<1>9. NumberFrom(got.int_value, got.double_value) = row.value
  BY <1>1, <1>3, <1>5, <1>6, <1>7, NumberValueRead
<1>10. NumberDPFrom(Cells(calls)) =
         [start_time |-> row.start_time, time |-> row.time, value |-> row.value,
          flags |-> row.flags]
  BY <1>8, <1>9 DEF NumberDPFrom
<1> QED BY <1>2, <1>10 DEF calls

LEMMA ExemplarReads ==
  ASSUME NEW row, kind = "EXEMPLARS", IsRow(kind, row), AskedBy(AppendExemplar(row)) = {},
         NEW cells, cells = Cells(AppendExemplar(row))
  PROVE  /\ ExemplarFrom(cells) = row
         /\ ~ExemplarRejected(cells)
<1> DEFINE calls == AppendExemplar(row)
           exemplar_ids == {"span_id", "trace_id"}
           got == Fields(Cells(calls), ExemplarIDs)
           n == NumberFrom(got.int_value, got.double_value)
<1>1. /\ \A f \in exemplar_ids \cup {"time"} : row[f] \in Int
      /\ row.value \in NumberValues
  BY DEF IsRow, HasFields
<1>2. row = [time |-> row.time, value |-> row.value, span_id |-> row.span_id,
             trace_id |-> row.trace_id]
  BY DEF IsRow, HasFields
<1>3. DOMAIN calls = ExemplarIDs
  BY DEF AppendExemplar, ExemplarIDs
<1>4. /\ calls.time = Plain(row.time)
      /\ calls.span_id = Call(row.span_id, TRUE)
      /\ calls.trace_id = Call(row.trace_id, TRUE)
      /\ calls.int_value =
           IF row.value[1] = IntValue THEN Call(row.value[2], TRUE) ELSE AppendNull
      /\ calls.double_value =
           IF row.value[1] = DoubleValue THEN Call(row.value[2], TRUE) ELSE AppendNull
  BY DEF AppendExemplar
<1>5. AskedBy(calls) = {}
  OBVIOUS
<1>6. exemplar_ids \cup {"time", "int_value", "double_value"} \subseteq ExemplarIDs
  BY DEF ExemplarIDs
<1> HIDE DEF calls
<1>7. OrZero(got.time) = row.time
  <2>1. calls.time \in Writes(row.time)
    BY <1>4 DEF Writes
  <2> QED BY <1>1, <1>3, <1>5, <1>6, <2>1, NumberRead
<1>8. got.span_id = row.span_id /\ got.trace_id = row.trace_id
  <2>1. \A v : Call(v, TRUE).cell = v /\ Call(v, TRUE).asks
    BY DEF Call
  <2>2. /\ calls.span_id.cell = row.span_id /\ calls.span_id.asks
        /\ calls.trace_id.cell = row.trace_id /\ calls.trace_id.asks
    BY <1>4, <2>1
  <2> QED BY <1>3, <1>5, <1>6, <2>2, AskedRead
<1>9. n = row.value
  BY <1>1, <1>3, <1>4, <1>5, <1>6, NumberValueRead
<1>10. ExemplarFrom(Cells(calls)) =
         [time |-> row.time, value |-> n, span_id |-> row.span_id,
          trace_id |-> row.trace_id]
  BY <1>7, <1>8 DEF ExemplarFrom
<1>11. row.span_id # Null /\ row.trace_id # Null
  BY <1>1, ColumnsAssumption DEF ColumnsAssumption
<1>12. ~ExemplarRejected(Cells(calls))
  BY <1>8, <1>11 DEF ExemplarRejected
<1>13. cells = Cells(calls)
  BY DEF calls
<1> HIDE DEF n
<1> QED BY <1>2, <1>9, <1>10, <1>12, <1>13

-----------------------------------------------------------------------------
(***************************************************************************)
(* Values: attributes and bodies.                                          *)
(***************************************************************************)

\* The columns of a value; what arrives of it.
ValueColumns == {"type", "str", "int", "double", "bool", "bytes", "ser"}

KeptValue(v) ==
  IF v[1] \in {MapType, SliceType} THEN Deserialize(Serialize(v)) ELSE v

LEMMA Types ==
  ASSUME NEW v, IsValue(v)
  PROVE  /\ v[1] \in {StrType, IntType, DoubleType, BoolType, BytesType, MapType, SliceType}
         /\ v[1] \in {StrType, IntType, DoubleType, BoolType} =>
              v[2] \in Int /\ v = <<v[1], v[2]>>
         /\ v[1] = BytesType => v[2] \in Seq(Int) /\ v = <<v[1], v[2]>>
         /\ v[1] \in {MapType, SliceType} => Serialize(v) # Null
BY DEF IsValue, StrType, IntType, DoubleType, BoolType, BytesType, MapType, SliceType

\* One column besides the type is written, that of the type.
LEMMA ValueCalls ==
  ASSUME NEW v, IsValue(v)
  PROVE  /\ DOMAIN AppendValue(v) = ValueColumns
         /\ AppendValue(v).type = Plain(v[1])
         /\ v[1] = StrType => AppendValue(v).str = StringAppend(v[2])
         /\ v[1] = IntType => AppendValue(v).int = Call(v[2], TRUE)
         /\ v[1] = DoubleType => AppendValue(v).double = Call(v[2], TRUE)
         /\ v[1] = BoolType => AppendValue(v).bool = Call(v[2], TRUE)
         /\ v[1] = BytesType => AppendValue(v).bytes = BinaryAppend(v[2])
         /\ v[1] \in {MapType, SliceType} =>
              AppendValue(v).ser = BinaryAppend(Serialize(v))
<1> DEFINE content ==
      CASE v[1] = StrType    -> [NoValue EXCEPT !.str = StringAppend(v[2])]
        [] v[1] = IntType    -> [NoValue EXCEPT !.int = Int64Append(v[2])]
        [] v[1] = DoubleType -> [NoValue EXCEPT !.double = Float64Append(v[2])]
        [] v[1] = BoolType   -> [NoValue EXCEPT !.bool = BooleanAppend(v[2])]
        [] v[1] = BytesType  -> [NoValue EXCEPT !.bytes = BinaryAppend(v[2])]
        [] v[1] \in {MapType, SliceType} -> [NoValue EXCEPT !.ser = BinaryAppend(Serialize(v))]
      type == [type |-> Uint8Append(v[1])]
<1>1. DOMAIN NoValue = ValueColumns \ {"type"}
  BY DEF NoValue, ValueColumns
<1>2. /\ v[1] = StrType    => content = [NoValue EXCEPT !.str = StringAppend(v[2])]
      /\ v[1] = IntType    => content = [NoValue EXCEPT !.int = Call(v[2], TRUE)]
      /\ v[1] = DoubleType => content = [NoValue EXCEPT !.double = Call(v[2], TRUE)]
      /\ v[1] = BoolType   => content = [NoValue EXCEPT !.bool = Call(v[2], TRUE)]
      /\ v[1] = BytesType  => content = [NoValue EXCEPT !.bytes = BinaryAppend(v[2])]
      /\ v[1] \in {MapType, SliceType} =>
           content = [NoValue EXCEPT !.ser = BinaryAppend(Serialize(v))]
  BY DEF StrType, IntType, DoubleType, BoolType, BytesType, MapType, SliceType
<1>3. AppendValue(v) = With(type, content)
  BY DEF AppendValue
<1>4. DOMAIN type = {"type"} /\ type.type = Plain(v[1])
  OBVIOUS
<1> HIDE DEF content, type
<1>5. DOMAIN content = ValueColumns \ {"type"}
  BY <1>1, <1>2, Types
<1>6. /\ DOMAIN With(type, content) = DOMAIN type \cup DOMAIN content
      /\ \A c \in DOMAIN type : With(type, content)[c] = type[c]
      /\ \A c \in DOMAIN content \ DOMAIN type : With(type, content)[c] = content[c]
  BY WithParts
<1>7. /\ DOMAIN AppendValue(v) = ValueColumns
      /\ AppendValue(v).type = Plain(v[1])
      /\ \A c \in ValueColumns \ {"type"} : AppendValue(v)[c] = content[c]
  BY <1>3, <1>4, <1>5, <1>6 DEF ValueColumns
<1>8. /\ v[1] = StrType    => content.str = StringAppend(v[2])
      /\ v[1] = IntType    => content.int = Call(v[2], TRUE)
      /\ v[1] = DoubleType => content.double = Call(v[2], TRUE)
      /\ v[1] = BoolType   => content.bool = Call(v[2], TRUE)
      /\ v[1] = BytesType  => content.bytes = BinaryAppend(v[2])
      /\ v[1] \in {MapType, SliceType} => content.ser = BinaryAppend(Serialize(v))
  BY <1>1, <1>2 DEF ValueColumns
<1> QED BY <1>7, <1>8 DEF ValueColumns

\* Byte arrays are null where they are empty, and null is read as empty.
LEMMA BinaryRead ==
  ASSUME NEW calls, AskedBy(calls) = {}, NEW ids, NEW c \in ids, c \in DOMAIN calls,
         NEW v, v # Null, calls[c] = BinaryAppend(v)
  PROVE  BinaryFromArray(Fields(Cells(calls), ids)[c]) = v
<1>1. calls[c].cell = (IF v = <<>> THEN Null ELSE v) /\ calls[c].asks
  BY DEF BinaryAppend, Call
<1>2. Fields(Cells(calls), ids)[c] = calls[c].cell
  BY <1>1, AskedRead
<1> QED BY <1>1, <1>2 DEF BinaryFromArray

\* A value is read from the column of its type.
LEMMA ValueRead ==
  ASSUME NEW calls, AskedBy(calls) = {}, NEW ids, ValueColumns \subseteq ids,
         ValueColumns \subseteq DOMAIN calls,
         NEW v, IsValue(v), \A c \in ValueColumns : calls[c] = AppendValue(v)[c]
  PROVE  BodyFrom(Fields(Cells(calls), ids)) = KeptValue(v)
<1> DEFINE got == Fields(Cells(calls), ids)
<1>1. \A c \in ValueColumns : c \in ids /\ c \in DOMAIN calls
  OBVIOUS
<1>2. \A c \in ValueColumns, n \in Int :
        AppendValue(v)[c] \in Writes(n) => OrZero(got[c]) = n
  <2> SUFFICES ASSUME NEW c \in ValueColumns, NEW n \in Int, AppendValue(v)[c] \in Writes(n)
               PROVE  OrZero(got[c]) = n
    OBVIOUS
  <2>1. c \in ids /\ c \in DOMAIN calls /\ calls[c] \in Writes(n)
    OBVIOUS
  <2> QED BY <2>1, NumberRead
<1>3. \A c \in ValueColumns : \A b :
        b # Null /\ AppendValue(v)[c] = BinaryAppend(b) => BinaryFromArray(got[c]) = b
  <2> SUFFICES ASSUME NEW c \in ValueColumns, NEW b, b # Null,
                      AppendValue(v)[c] = BinaryAppend(b)
               PROVE  BinaryFromArray(got[c]) = b
    OBVIOUS
  <2>1. c \in ids /\ c \in DOMAIN calls /\ calls[c] = BinaryAppend(b)
    OBVIOUS
  <2> QED BY <2>1, BinaryRead
<1> HIDE DEF got
<1>4. OrZero(got.type) = v[1]
  <2>1. v[1] \in Int
    BY Types DEF StrType, IntType, DoubleType, BoolType, BytesType, MapType, SliceType
  <2>2. AppendValue(v).type \in Writes(v[1])
    BY ValueCalls DEF Writes
  <2> QED BY <2>1, <2>2, <1>2 DEF ValueColumns
<1>5. CASE v[1] = StrType
  <2>1. v[2] \in Int /\ v = <<v[1], v[2]>> /\ AppendValue(v).str \in Writes(v[2])
    BY <1>5, Types, ValueCalls DEF Writes
  <2>2. OrZero(got.str) = v[2]
    BY <2>1, <1>2 DEF ValueColumns
  <2>3. BodyFrom(got) = <<StrType, OrZero(got.str)>>
    BY <1>4, <1>5 DEF BodyFrom, StrType, IntType, DoubleType, BoolType, BytesType,
      MapType, SliceType
  <2> QED BY <1>5, <2>1, <2>2, <2>3 DEF got, KeptValue, StrType, MapType, SliceType
<1>6. CASE v[1] = IntType
  <2>1. v[2] \in Int /\ v = <<v[1], v[2]>> /\ AppendValue(v).int \in Writes(v[2])
    BY <1>6, Types, ValueCalls DEF Writes
  <2>2. OrZero(got.int) = v[2]
    BY <2>1, <1>2 DEF ValueColumns
  <2>3. BodyFrom(got) = <<IntType, OrZero(got.int)>>
    BY <1>4, <1>6 DEF BodyFrom, StrType, IntType, DoubleType, BoolType, BytesType,
      MapType, SliceType
  <2> QED BY <1>6, <2>1, <2>2, <2>3 DEF got, KeptValue, IntType, MapType, SliceType
<1>7. CASE v[1] = DoubleType
  <2>1. v[2] \in Int /\ v = <<v[1], v[2]>> /\ AppendValue(v).double \in Writes(v[2])
    BY <1>7, Types, ValueCalls DEF Writes
  <2>2. OrZero(got.double) = v[2]
    BY <2>1, <1>2 DEF ValueColumns
  <2>3. BodyFrom(got) = <<DoubleType, OrZero(got.double)>>
    BY <1>4, <1>7 DEF BodyFrom, StrType, IntType, DoubleType, BoolType, BytesType,
      MapType, SliceType
  <2> QED BY <1>7, <2>1, <2>2, <2>3 DEF got, KeptValue, DoubleType, MapType, SliceType
<1>8. CASE v[1] = BoolType
  <2>1. v[2] \in Int /\ v = <<v[1], v[2]>> /\ AppendValue(v).bool \in Writes(v[2])
    BY <1>8, Types, ValueCalls DEF Writes
  <2>2. OrZero(got.bool) = v[2]
    BY <2>1, <1>2 DEF ValueColumns
  <2>3. BodyFrom(got) = <<BoolType, OrZero(got.bool)>>
    BY <1>4, <1>8 DEF BodyFrom, StrType, IntType, DoubleType, BoolType, BytesType,
      MapType, SliceType
  <2> QED BY <1>8, <2>1, <2>2, <2>3 DEF got, KeptValue, BoolType, MapType, SliceType
<1>9. CASE v[1] = BytesType
  <2>1. v[2] \in Seq(Int) /\ v = <<v[1], v[2]>> /\ AppendValue(v).bytes = BinaryAppend(v[2])
    BY <1>9, Types, ValueCalls
  <2>2. v[2] # Null
    BY <2>1, ColumnsAssumption DEF ColumnsAssumption
  <2>3. BinaryFromArray(got.bytes) = v[2]
    BY <2>1, <2>2, <1>3 DEF ValueColumns
  <2>4. BodyFrom(got) = <<BytesType, BinaryFromArray(got.bytes)>>
    BY <1>4, <1>9 DEF BodyFrom, StrType, IntType, DoubleType, BoolType, BytesType,
      MapType, SliceType
  <2> QED BY <1>9, <2>1, <2>3, <2>4 DEF got, KeptValue, BytesType, MapType, SliceType
<1>10. CASE v[1] \in {MapType, SliceType}
  <2>1. Serialize(v) # Null /\ AppendValue(v).ser = BinaryAppend(Serialize(v))
    BY <1>10, Types, ValueCalls
  <2>2. BinaryFromArray(got.ser) = Serialize(v)
    BY <2>1, <1>3 DEF ValueColumns
  <2>3. BodyFrom(got) = Deserialize(BinaryFromArray(got.ser))
    BY <1>4, <1>10 DEF BodyFrom, StrType, IntType, DoubleType, BoolType, BytesType,
      MapType, SliceType
  <2> QED BY <1>10, <2>2, <2>3 DEF got, KeptValue
<1> QED BY <1>5, <1>6, <1>7, <1>8, <1>9, <1>10, Types

LEMMA AttrReads ==
  ASSUME NEW row, IsRow("ATTRS", row), AskedBy(AppendAttr(row)) = {}
  PROVE  AttrFrom(Cells(AppendAttr(row))) = [row EXCEPT !.value = KeptValue(@)]
<1> DEFINE calls == AppendAttr(row)
           key == [key |-> StringAppend(row.key)]
           got == Fields(Cells(calls), AttrIDs)
<1>1. row.key \in Int /\ IsValue(row.value)
  BY DEF IsRow, HasFields
<1>2. row = [key |-> row.key, value |-> row.value]
  BY DEF IsRow, HasFields
<1>3. AttrIDs = ValueColumns \cup {"key"}
  BY DEF AttrIDs, ValueColumns
<1>4. DOMAIN AppendValue(row.value) = ValueColumns
  BY <1>1, ValueCalls
<1>5. DOMAIN key = {"key"} /\ key.key = StringAppend(row.key)
  OBVIOUS
<1>6. calls = With(key, AppendValue(row.value))
  BY DEF AppendAttr
<1>7. AskedBy(calls) = {}
  OBVIOUS
<1> HIDE DEF calls, key
<1>8. /\ DOMAIN calls = AttrIDs /\ calls.key \in Writes(row.key)
      /\ \A c \in ValueColumns : calls[c] = AppendValue(row.value)[c]
  <2> DEFINE both == With(key, AppendValue(row.value))
  <2>1. /\ DOMAIN both = DOMAIN key \cup DOMAIN AppendValue(row.value)
        /\ \A c \in DOMAIN key : both[c] = key[c]
        /\ \A c \in DOMAIN AppendValue(row.value) \ DOMAIN key :
             both[c] = AppendValue(row.value)[c]
    BY WithParts
  <2>2. "key" \notin ValueColumns
    BY DEF ValueColumns
  <2>3. StringAppend(row.key) \in Writes(row.key)
    BY DEF Writes
  <2> QED BY <1>3, <1>4, <1>5, <1>6, <2>1, <2>2, <2>3
<1>9. OrZero(got.key) = row.key
  BY <1>1, <1>3, <1>7, <1>8, NumberRead
<1>10. BodyFrom(got) = KeptValue(row.value)
  BY <1>1, <1>3, <1>7, <1>8, ValueRead
<1>11. AttrFrom(Cells(calls)) = [key |-> OrZero(got.key), value |-> BodyFrom(got)]
  BY DEF AttrFrom, BodyFrom
<1>12. [row EXCEPT !.value = KeptValue(@)] = [key |-> row.key, value |-> KeptValue(row.value)]
  BY <1>2
<1> QED BY <1>9, <1>10, <1>11, <1>12 DEF calls

\* A log record without a body is one that the decoder does not survive.
LEMMA LogReads ==
  ASSUME NEW row, IsRow("LOGS", row), AskedBy(AppendLog(row)) = {},
         NEW cells, cells = Cells(AppendLog(row))
  PROVE  /\ ~LogRejected(cells)
         /\ LogPanics(cells) => row.body = EmptyValue
         /\ ~LogPanics(cells) => LogFrom(cells) = [row EXCEPT !.body = KeptValue(@)]
<1> DEFINE calls == AppendLog(row)
           base == {"time", "observed_time", "severity_number", "severity_text",
                    "dropped_attributes_count", "flags"}
           log_ids == {"trace_id", "span_id"}
           of_log ==
             [time            |-> TimestampAppend(row.time),
              observed_time   |-> TimestampAppend(row.observed_time),
              trace_id        |-> FixedSizeBinaryAppend(row.trace_id),
              span_id         |-> FixedSizeBinaryAppend(row.span_id),
              severity_number |-> Int32AppendNonZero(row.severity_number),
              severity_text   |-> StringAppendNonEmpty(row.severity_text),
              dropped_attributes_count |->
                Uint32AppendNonZero(row.dropped_attributes_count),
              flags           |-> Uint32Append(row.flags)]
           of_body == AppendBody(row.body)
           got == Fields(Cells(calls), LogIDs)
<1>1. /\ \A f \in base \cup log_ids : row[f] \in Int
      /\ row.body = EmptyValue \/ IsValue(row.body)
  BY DEF IsRow, HasFields
<1>2. row = [time |-> row.time, observed_time |-> row.observed_time,
             trace_id |-> row.trace_id, span_id |-> row.span_id,
             severity_number |-> row.severity_number, severity_text |-> row.severity_text,
             body |-> row.body, dropped_attributes_count |-> row.dropped_attributes_count,
             flags |-> row.flags]
  BY DEF IsRow, HasFields
<1>3. LogIDs = base \cup log_ids \cup {"body"} \cup ValueColumns
  BY DEF LogIDs, ValueColumns
<1>4. DOMAIN of_log = base \cup log_ids
  OBVIOUS
<1>5. /\ \A f \in base : of_log[f] \in Writes(row[f])
      /\ of_log.trace_id = Call(row.trace_id, TRUE)
      /\ of_log.span_id = Call(row.span_id, TRUE)
  BY DEF Writes
<1>6. calls = With(of_log, of_body)
  BY DEF AppendLog
<1>7. AskedBy(calls) = {} /\ cells = Cells(calls)
  OBVIOUS
<1>8. /\ DOMAIN of_body = {"body"} \cup ValueColumns
      /\ row.body = EmptyValue => of_body.body = AppendNull
      /\ IsValue(row.body) =>
           /\ of_body.body = Call(Struct, TRUE)
           /\ \A c \in ValueColumns : of_body[c] = AppendValue(row.body)[c]
  <2>1. CASE row.body = EmptyValue
    <3>1. of_body = With([c \in {"body", "type"} |-> AppendNull], NoValue)
      BY <2>1 DEF AppendBody, EmptyValue, NoBody
    <3>2. DOMAIN of_body = {"body"} \cup ValueColumns /\ of_body.body = AppendNull
      BY <3>1 DEF With, NoValue, ValueColumns
    <3>3. ~IsValue(row.body)
      BY <2>1, Types DEF EmptyValue, EmptyType, StrType, IntType, DoubleType, BoolType,
        BytesType, MapType, SliceType
    <3> QED BY <2>1, <3>2, <3>3
  <2>2. CASE IsValue(row.body)
    <3> DEFINE body == [body |-> StructAppend]
               value == AppendValue(row.body)
    <3>1. row.body[1] # EmptyType
      BY <2>2, Types DEF EmptyType, StrType, IntType, DoubleType, BoolType,
        BytesType, MapType, SliceType
    <3>2. of_body = With(body, value)
      BY <3>1 DEF AppendBody
    <3>3. DOMAIN body = {"body"} /\ body.body = Call(Struct, TRUE)
      OBVIOUS
    <3>4. DOMAIN value = ValueColumns /\ "body" \notin ValueColumns
      BY <2>2, ValueCalls DEF ValueColumns
    <3>5. row.body # EmptyValue
      BY <3>1 DEF EmptyValue
    <3> HIDE DEF body, of_body
    <3>6. /\ DOMAIN With(body, value) = DOMAIN body \cup DOMAIN value
          /\ \A c \in DOMAIN body : With(body, value)[c] = body[c]
          /\ \A c \in DOMAIN value \ DOMAIN body : With(body, value)[c] = value[c]
      BY WithParts
    <3> QED BY <3>2, <3>3, <3>4, <3>5, <3>6
  <2> QED BY <1>1, <2>1, <2>2
<1> HIDE DEF calls, of_log, of_body
<1>9. /\ DOMAIN calls = LogIDs
      /\ \A f \in base : calls[f] \in Writes(row[f])
      /\ calls.trace_id = Call(row.trace_id, TRUE)
      /\ calls.span_id = Call(row.span_id, TRUE)
      /\ \A c \in {"body"} \cup ValueColumns : calls[c] = of_body[c]
  <2> DEFINE both == With(of_log, of_body)
  <2>1. /\ DOMAIN both = DOMAIN of_log \cup DOMAIN of_body
        /\ \A c \in DOMAIN of_log : both[c] = of_log[c]
        /\ \A c \in DOMAIN of_body \ DOMAIN of_log : both[c] = of_body[c]
    BY WithParts
  <2>2. ({"body"} \cup ValueColumns) \cap DOMAIN of_log = {}
    BY <1>4 DEF ValueColumns
  <2>3. DOMAIN calls = LogIDs
    BY <1>3, <1>4, <1>6, <1>8, <2>1
  <2>4. \A f \in base \cup log_ids : calls[f] = of_log[f]
    BY <1>4, <1>6, <2>1
  <2>5. \A c \in {"body"} \cup ValueColumns : calls[c] = of_body[c]
    BY <1>6, <1>8, <2>1, <2>2
  <2> QED BY <1>5, <2>3, <2>4, <2>5
<1>10. \A f \in base : OrZero(got[f]) = row[f]
  <2> SUFFICES ASSUME NEW f \in base
               PROVE  OrZero(got[f]) = row[f]
    OBVIOUS
  <2>1. f \in LogIDs /\ f \in DOMAIN calls /\ row[f] \in Int /\ calls[f] \in Writes(row[f])
    BY <1>1, <1>3, <1>9
  <2> QED BY <2>1, <1>7, NumberRead
<1>11. \A v : Call(v, TRUE).cell = v /\ Call(v, TRUE).asks
  BY DEF Call
<1>12. got.trace_id = row.trace_id /\ got.span_id = row.span_id
  <2>1. /\ calls.span_id.cell = row.span_id /\ calls.span_id.asks
        /\ calls.trace_id.cell = row.trace_id /\ calls.trace_id.asks
    BY <1>9, <1>11
  <2>2. {"trace_id", "span_id"} \subseteq LogIDs
    BY <1>3
  <2> QED BY <1>7, <1>9, <2>1, <2>2, AskedRead
<1>13. /\ row.trace_id # Null /\ row.span_id # Null /\ Struct # Null
  BY <1>1, ColumnsAssumption DEF ColumnsAssumption
<1>14. ~LogRejected(cells)
  BY <1>7, <1>12, <1>13 DEF LogRejected
<1>15. LogPanics(cells) <=> got.body = Null
  BY <1>7 DEF LogPanics
<1>16. "body" \in LogIDs /\ "body" \in DOMAIN calls
  BY <1>3, <1>9
<1>17. CASE row.body = EmptyValue
  <2>1. calls.body = AppendNull
    BY <1>8, <1>9, <1>17
  <2>2. got.body = Null
    BY <1>7, <1>16, <2>1, NullRead
  <2> QED BY <1>14, <1>15, <1>17, <2>2
<1>18. CASE IsValue(row.body)
  <2>1. calls.body.cell = Struct /\ calls.body.asks
    BY <1>8, <1>9, <1>11, <1>18
  <2>2. got.body # Null
    BY <1>7, <1>13, <1>16, <2>1, AskedRead
  <2>3. BodyFrom(got) = KeptValue(row.body)
    <3>1. ValueColumns \subseteq LogIDs
      BY <1>3
    <3>2. \A c \in ValueColumns : calls[c] = AppendValue(row.body)[c]
      BY <1>8, <1>9, <1>18
    <3> QED BY <1>7, <1>9, <1>18, <3>1, <3>2, ValueRead
  <2>4. LogFrom(cells) =
          [time |-> row.time, observed_time |-> row.observed_time,
           trace_id |-> row.trace_id, span_id |-> row.span_id,
           severity_number |-> row.severity_number, severity_text |-> row.severity_text,
           body |-> KeptValue(row.body),
           dropped_attributes_count |-> row.dropped_attributes_count,
           flags |-> row.flags]
    BY <1>7, <1>10, <1>12, <2>3 DEF LogFrom
  <2>5. [row EXCEPT !.body = KeptValue(@)] =
          [time |-> row.time, observed_time |-> row.observed_time,
           trace_id |-> row.trace_id, span_id |-> row.span_id,
           severity_number |-> row.severity_number, severity_text |-> row.severity_text,
           body |-> KeptValue(row.body),
           dropped_attributes_count |-> row.dropped_attributes_count,
           flags |-> row.flags]
    BY <1>2
  <2> QED BY <1>14, <1>15, <2>2, <2>4, <2>5
<1> QED BY <1>1, <1>17, <1>18

-----------------------------------------------------------------------------
(***************************************************************************)
(* Lists, and numbers that may not be set.                                 *)
(***************************************************************************)

\* What a decoder reads of a column.
Field(calls, ids, c) == Fields(Cells(calls), ids)[c]

\* A list that is empty is null, and so is one without its column.
LEMMA ListRead ==
  ASSUME NEW calls, NEW ids, NEW c, NEW list,
         AskedBy(calls) = {}, c \in ids, c \in DOMAIN calls, calls[c] = ListAppend(list)
  PROVE  /\ list = <<>> => Field(calls, ids, c) = Null
         /\ list # <<>> => Field(calls, ids, c) = list
<1>1. CASE list = <<>>
  <2>1. calls[c] = AppendNull
    BY <1>1 DEF ListAppend
  <2> QED BY <1>1, <2>1, NullRead DEF Field
<1>2. CASE list # <<>>
  <2>1. calls[c].cell = list /\ calls[c].asks
    BY <1>2 DEF ListAppend, Call
  <2> QED BY <1>2, <2>1, AskedRead DEF Field
<1> QED BY <1>1, <1>2

LEMMA ListNotNull ==
  ASSUME NEW list \in Seq(Int \cup {Struct, Null})
  PROVE  list # Null
BY ColumnsAssumption DEF ColumnsAssumption

\* The calls to the elements' builder, and their cells.
PlainCells(s) == [k \in DOMAIN s |-> Plain(s[k]).cell]
NonZeroCells(s) == [k \in DOMAIN s |-> NonZero(s[k]).cell]
NonZeroCalls(s) == [k \in DOMAIN s |-> NonZero(s[k])]

\* The cells of a list read back as its numbers.
LEMMA CellsOfList ==
  ASSUME NEW s, NEW cells, s \in Seq(Int), cells \in {PlainCells(s), NonZeroCells(s)}
  PROVE  /\ cells \in Seq(Int \cup {Struct, Null})
         /\ cells = <<>> <=> s = <<>>
         /\ [k \in DOMAIN cells |-> OrZero(cells[k])] = s
<1>1. s \in [1..Len(s) -> Int] /\ Len(s) \in Nat /\ DOMAIN s = 1..Len(s)
  OBVIOUS
<1>2. \A v \in Int : /\ Plain(v).cell = v
                     /\ NonZero(v).cell = (IF v = 0 THEN Null ELSE v)
  BY DEF Plain, NonZero, Call
<1>3. /\ DOMAIN cells = 1..Len(s)
      /\ \A k \in 1..Len(s) : cells[k] = s[k] \/ (s[k] = 0 /\ cells[k] = Null)
  BY <1>1, <1>2 DEF PlainCells, NonZeroCells
<1>4. cells = [k \in 1..Len(s) |-> cells[k]]
  BY <1>1 DEF PlainCells, NonZeroCells
<1>5. cells \in [1..Len(s) -> Int \cup {Struct, Null}]
  BY <1>1, <1>3, <1>4
<1>6. cells \in Seq(Int \cup {Struct, Null}) /\ Len(cells) = Len(s)
  BY <1>1, <1>5
<1>7. \A k \in 1..Len(s) : OrZero(cells[k]) = s[k]
  <2>1. Null \notin Int
    BY ColumnsAssumption DEF ColumnsAssumption
  <2> QED BY <1>1, <1>3, <2>1 DEF OrZero
<1>8. [k \in DOMAIN cells |-> OrZero(cells[k])] = s
  BY <1>1, <1>3, <1>7
<1> QED BY <1>1, <1>6, <1>8

\* A field that is not set has no column and no cell; zero neither.
LEMMA SetRead ==
  ASSUME NEW calls, AskedBy(calls) = {}, NEW ids, NEW c \in ids, c \in DOMAIN calls,
         NEW v \in Unsettable, calls[c] = AppendIfSet(v)
  PROVE  Fields(Cells(calls), ids)[c] = UnlessZero(v)
<1>1. Null \notin Int
  BY ColumnsAssumption DEF ColumnsAssumption
<1>2. CASE v = Null
  <2>1. calls[c] = AppendNull
    BY <1>2 DEF AppendIfSet
  <2>2. UnlessZero(v) = Null
    BY <1>2 DEF UnlessZero
  <2> QED BY <2>1, <2>2, NullRead
<1>3. CASE v \in Int
  <2>1. calls[c] = NonZero(v)
    BY <1>1, <1>3 DEF AppendIfSet
  <2>2. NonZero(v).cell = (IF v = 0 THEN Null ELSE v)
    BY DEF NonZero, Call
  <2>3. calls[c] \in Writes(v)
    BY <2>1 DEF Writes
  <2>4. ~calls[c].asks => v = 0
    BY <2>3, WritesParts
  <2> QED BY <2>1, <2>2, <2>4, FieldRead DEF UnlessZero
<1> QED BY <1>2, <1>3 DEF Unsettable

LEMMA HistogramReads ==
  ASSUME NEW i, NEW row, kind = "HISTOGRAM_DATA_POINTS", IsRow(kind, row),
         AskedBy(AppendHistogram(row)) = {},
         NEW cells, cells = Cells(AppendHistogram(row))
  PROVE  /\ HistogramRejected(cells) => Breaks(i, row)
         /\ ~HistogramRejected(cells) => HistogramFrom(cells) = Kept(row)
<1> DEFINE calls == AppendHistogram(row)
           set == {"sum", "min", "max"}
           got == Fields(Cells(calls), HistogramIDs)
<1>1. /\ \A f \in Points : row[f] \in Int
      /\ \A f \in set : row[f] \in Unsettable
      /\ row.bucket_counts \in Seq(Int) /\ row.explicit_bounds \in Seq(Int)
  BY DEF IsRow, HasFields
<1>2. row = [start_time |-> row.start_time, time |-> row.time, count |-> row.count,
             sum |-> row.sum, bucket_counts |-> row.bucket_counts,
             explicit_bounds |-> row.explicit_bounds, flags |-> row.flags,
             min |-> row.min, max |-> row.max]
  BY DEF IsRow, HasFields, Points
<1>3. /\ DOMAIN calls = HistogramIDs
      /\ \A f \in Points : calls[f] = Plain(row[f])
      /\ \A f \in set : calls[f] = AppendIfSet(row[f])
      /\ calls.bucket_counts = ListAppend(PlainCells(row.bucket_counts))
      /\ calls.explicit_bounds = ListAppend(NonZeroCells(row.explicit_bounds))
  <2>1. DOMAIN calls = HistogramIDs
    BY DEF AppendHistogram, HistogramIDs
  <2>2. \A f \in Points : calls[f] = Plain(row[f])
    BY DEF AppendHistogram, Points
  <2>3. \A f \in set : calls[f] = AppendIfSet(row[f])
    BY DEF AppendHistogram
  <2>4. /\ calls.bucket_counts = ListAppend(PlainCells(row.bucket_counts))
        /\ calls.explicit_bounds = ListAppend(NonZeroCells(row.explicit_bounds))
    BY DEF AppendHistogram, PlainCells, NonZeroCells
  <2> QED BY <2>1, <2>2, <2>3, <2>4
<1>4. HistogramIDs = Points \cup set \cup {"bucket_counts", "explicit_bounds"}
  BY DEF HistogramIDs, Points
<1>5. AskedBy(calls) = {} /\ cells = Cells(calls)
  OBVIOUS
<1> HIDE DEF calls
<1>6. \A f \in Points : OrZero(got[f]) = row[f]
  <2> SUFFICES ASSUME NEW f \in Points
               PROVE  OrZero(got[f]) = row[f]
    OBVIOUS
  <2>1. f \in HistogramIDs /\ f \in DOMAIN calls /\ row[f] \in Int
    BY <1>1, <1>3, <1>4
  <2>2. calls[f] \in Writes(row[f])
    BY <1>3 DEF Writes
  <2> QED BY <2>1, <2>2, <1>5, NumberRead
<1>7. \A f \in set : got[f] = UnlessZero(row[f])
  <2> SUFFICES ASSUME NEW f \in set
               PROVE  got[f] = UnlessZero(row[f])
    OBVIOUS
  <2>1. /\ f \in HistogramIDs /\ f \in DOMAIN calls /\ row[f] \in Unsettable
        /\ calls[f] = AppendIfSet(row[f])
    BY <1>1, <1>3, <1>4
  <2> QED BY <2>1, <1>5, SetRead
<1>8. "bucket_counts" \in HistogramIDs /\ "explicit_bounds" \in HistogramIDs
  BY <1>4
<1>9. /\ row.bucket_counts = <<>> => ListValuesByIDFromRecord(got.bucket_counts) = Null
      /\ row.bucket_counts # <<>> =>
           ListValuesByIDFromRecord(got.bucket_counts) = row.bucket_counts
  <2> DEFINE list == PlainCells(row.bucket_counts)
  <2>1. /\ list \in Seq(Int \cup {Struct, Null})
        /\ list = <<>> <=> row.bucket_counts = <<>>
        /\ [k \in DOMAIN list |-> OrZero(list[k])] = row.bucket_counts
    BY <1>1, CellsOfList
  <2>2. /\ AskedBy(calls) = {} /\ "bucket_counts" \in HistogramIDs
        /\ "bucket_counts" \in DOMAIN calls /\ calls.bucket_counts = ListAppend(list)
    BY <1>3, <1>5, <1>8
  <2> HIDE DEF list
  <2>3. /\ list = <<>> => got.bucket_counts = Null
        /\ list # <<>> => got.bucket_counts = list
    <3>1. got.bucket_counts = Field(calls, HistogramIDs, "bucket_counts")
      BY DEF Field
    <3> HIDE DEF got
    <3> QED BY <2>2, <3>1, ListRead
  <2>4. list # Null
    BY <2>1, ListNotNull
  <2> QED BY <2>1, <2>3, <2>4 DEF ListValuesByIDFromRecord
<1>10. /\ row.explicit_bounds = <<>> => ListValuesByIDFromRecord(got.explicit_bounds) = Null
       /\ row.explicit_bounds # <<>> =>
            ListValuesByIDFromRecord(got.explicit_bounds) = row.explicit_bounds
  <2> DEFINE list == NonZeroCells(row.explicit_bounds)
  <2>1. /\ list \in Seq(Int \cup {Struct, Null})
        /\ list = <<>> <=> row.explicit_bounds = <<>>
        /\ [k \in DOMAIN list |-> OrZero(list[k])] = row.explicit_bounds
    BY <1>1, CellsOfList
  <2>2. /\ AskedBy(calls) = {} /\ "explicit_bounds" \in HistogramIDs
        /\ "explicit_bounds" \in DOMAIN calls /\ calls.explicit_bounds = ListAppend(list)
    BY <1>3, <1>5, <1>8
  <2> HIDE DEF list
  <2>3. /\ list = <<>> => got.explicit_bounds = Null
        /\ list # <<>> => got.explicit_bounds = list
    <3>1. got.explicit_bounds = Field(calls, HistogramIDs, "explicit_bounds")
      BY DEF Field
    <3> HIDE DEF got
    <3> QED BY <2>2, <3>1, ListRead
  <2>4. list # Null
    BY <2>1, ListNotNull
  <2> QED BY <2>1, <2>3, <2>4 DEF ListValuesByIDFromRecord
<1>11. row.bucket_counts # Null /\ row.explicit_bounds # Null
  BY <1>1, ColumnsAssumption DEF ColumnsAssumption
<1> HIDE DEF got
<1>12. HistogramRejected(cells) <=> (row.bucket_counts = <<>> \/ row.explicit_bounds = <<>>)
  <2>1. HistogramRejected(cells) <=>
          Null \in {ListValuesByIDFromRecord(got.bucket_counts),
                    ListValuesByIDFromRecord(got.explicit_bounds)}
    BY <1>5 DEF HistogramRejected, got
  <2> QED BY <2>1, <1>9, <1>10, <1>11
<1>13. Breaks(i, row) <=> (row.bucket_counts = <<>> \/ row.explicit_bounds = <<>>)
  BY DEF Breaks
<1>14. ASSUME ~HistogramRejected(cells)
       PROVE  HistogramFrom(cells) = Kept(row)
  <2>1. /\ ListValuesByIDFromRecord(got.bucket_counts) = row.bucket_counts
        /\ ListValuesByIDFromRecord(got.explicit_bounds) = row.explicit_bounds
    BY <1>9, <1>10, <1>12, <1>14
  <2>2. HistogramFrom(cells) =
          [start_time |-> row.start_time, time |-> row.time, count |-> row.count,
           sum |-> UnlessZero(row.sum), bucket_counts |-> row.bucket_counts,
           explicit_bounds |-> row.explicit_bounds, flags |-> row.flags,
           min |-> UnlessZero(row.min), max |-> UnlessZero(row.max)]
    BY <1>5, <1>6, <1>7, <2>1 DEF HistogramFrom, got, Points
  <2>3. Kept(row) = [row EXCEPT !.sum = UnlessZero(@), !.min = UnlessZero(@),
                                !.max = UnlessZero(@)]
    BY DEF Kept, Histograms
  <2>4. Kept(row) =
          [start_time |-> row.start_time, time |-> row.time, count |-> row.count,
           sum |-> UnlessZero(row.sum), bucket_counts |-> row.bucket_counts,
           explicit_bounds |-> row.explicit_bounds, flags |-> row.flags,
           min |-> UnlessZero(row.min), max |-> UnlessZero(row.max)]
    BY <1>2, <2>3
  <2> QED BY <2>2, <2>4
<1> QED BY <1>12, <1>13, <1>14

-----------------------------------------------------------------------------
(***************************************************************************)
(* The quantiles of a summary, a list of structs.                          *)
(***************************************************************************)

\* A field of the structs: its column may not be there, where all are zero.
LEMMA ElementsRead ==
  ASSUME NEW calls, NEW ids, NEW c, NEW s,
         AskedBy(calls) = {}, c \in ids, c \in DOMAIN calls, s \in Seq(Int),
         calls[c] = Elements(NonZeroCalls(s))
  PROVE  \/ Field(calls, ids, c) = NonZeroCells(s)
         \/ /\ Field(calls, ids, c) = Null
            /\ \A k \in DOMAIN s : s[k] = 0
<1> DEFINE cells == NonZeroCells(s)
           asks == \E k \in DOMAIN s : s[k] # 0
<1>3. /\ calls[c].cell = cells
      /\ calls[c].asks <=> asks
  <2> DEFINE elements == NonZeroCalls(s)
  <2>1. \A k \in DOMAIN s : elements[k] = NonZero(s[k])
    BY DEF NonZeroCalls
  <2>2. \A k \in DOMAIN s : elements[k].asks <=> s[k] # 0
    <3>1. \A v : NonZero(v).asks <=> v # 0
      BY DEF NonZero, Call
    <3> QED BY <2>1, <3>1
  <2>3. DOMAIN elements = DOMAIN s
    BY DEF NonZeroCalls
  <2>4. [k \in DOMAIN elements |-> elements[k].cell] = cells
    BY <2>1, <2>3 DEF NonZeroCells
  <2>5. (\E k \in DOMAIN elements : elements[k].asks) <=> asks
    BY <2>2, <2>3
  <2>6. calls[c] = Elements(elements)
    OBVIOUS
  <2> HIDE DEF elements, cells, asks
  <2>7. /\ Elements(elements).cell = [k \in DOMAIN elements |-> elements[k].cell]
        /\ Elements(elements).asks = (\E k \in DOMAIN elements : elements[k].asks)
    BY CallParts DEF Elements
  <2>8. calls[c].cell = [k \in DOMAIN elements |-> elements[k].cell]
    BY <2>6, <2>7
  <2>9. calls[c].asks = (\E k \in DOMAIN elements : elements[k].asks)
    BY <2>6, <2>7
  <2>10. calls[c].cell = cells
    BY <2>4, <2>8
  <2>11. calls[c].asks <=> asks
    BY <2>5, <2>9
  <2> QED BY <2>10, <2>11
<1>4. \/ Field(calls, ids, c) = calls[c].cell
      \/ Field(calls, ids, c) = Null /\ ~calls[c].asks
  BY FieldRead DEF Field
<1>5. ~asks => \A k \in DOMAIN s : s[k] = 0
  OBVIOUS
<1> HIDE DEF asks
<1> QED BY <1>3, <1>4, <1>5

LEMMA ElementValues ==
  ASSUME NEW s, NEW field, s \in Seq(Int),
         field = NonZeroCells(s) \/ (field = Null /\ \A k \in DOMAIN s : s[k] = 0)
  PROVE  \A k \in DOMAIN s : OrZero(IF field = Null THEN Null ELSE field[k]) = s[k]
<1> SUFFICES ASSUME NEW k \in DOMAIN s
             PROVE  OrZero(IF field = Null THEN Null ELSE field[k]) = s[k]
  OBVIOUS
<1> DEFINE cells == NonZeroCells(s)
<1>1. cells \in Seq(Int \cup {Struct, Null}) /\ [j \in DOMAIN cells |-> OrZero(cells[j])] = s
  BY CellsOfList
<1>2. cells # Null
  BY <1>1, ListNotNull
<1>3. DOMAIN cells = DOMAIN s
  BY DEF NonZeroCells
<1> HIDE DEF cells
<1>4. CASE field = cells
  <2>1. [j \in DOMAIN cells |-> OrZero(cells[j])][k] = OrZero(cells[k])
    BY <1>3
  <2> QED BY <1>1, <1>2, <1>4, <2>1
<1>5. CASE field = Null /\ \A j \in DOMAIN s : s[j] = 0
  BY <1>5 DEF OrZero
<1> QED BY <1>4, <1>5 DEF cells

LEMMA QuantilesRead ==
  ASSUME NEW calls, AskedBy(calls) = {}, NEW ids, QuantileIDs \subseteq ids,
         QuantileIDs \subseteq DOMAIN calls,
         NEW q \in Seq([quantile : Int, value : Int]),
         \A c \in QuantileIDs : calls[c] = AppendQuantiles(q)[c]
  PROVE  QuantilesFrom(Fields(Cells(calls), ids)) = q
<1> DEFINE got == Fields(Cells(calls), ids)
           structs == [k \in DOMAIN q |-> Struct]
           quantiles == [k \in DOMAIN q |-> q[k].quantile]
           values == [k \in DOMAIN q |-> q[k].value]
<1>1. /\ Len(q) \in Nat /\ DOMAIN q = 1..Len(q)
      /\ q \in [1..Len(q) -> [quantile : Int, value : Int]]
  <2> DEFINE Quantile == [quantile : Int, value : Int]
  <2>1. q \in Seq(Quantile)
    OBVIOUS
  <2> HIDE DEF Quantile
  <2>2. Len(q) \in Nat /\ DOMAIN q = 1..Len(q) /\ q \in [1..Len(q) -> Quantile]
    BY <2>1
  <2> QED BY <2>2 DEF Quantile
<1>2. \A k \in DOMAIN q : /\ q[k].quantile \in Int /\ q[k].value \in Int
                          /\ q[k] = [quantile |-> q[k].quantile, value |-> q[k].value]
  BY <1>1
<1>3. /\ structs \in Seq(Int \cup {Struct, Null}) /\ DOMAIN structs = DOMAIN q
      /\ structs = <<>> <=> q = <<>>
  <2>1. structs \in [1..Len(q) -> Int \cup {Struct, Null}]
    BY <1>1
  <2> QED BY <1>1, <2>1
<1>4. quantiles \in Seq(Int) /\ values \in Seq(Int)
  <2>1. quantiles \in [1..Len(q) -> Int] /\ values \in [1..Len(q) -> Int]
    BY <1>1, <1>2
  <2> QED BY <1>1, <2>1
<1>5. \A c \in QuantileIDs : c \in ids /\ c \in DOMAIN calls
  OBVIOUS
<1>6. /\ calls.quantiles = ListAppend(structs)
      /\ calls.quantile = Elements(NonZeroCalls(quantiles))
      /\ calls.value = Elements(NonZeroCalls(values))
  <2>1. /\ calls.quantiles = AppendQuantiles(q).quantiles
        /\ calls.quantile = AppendQuantiles(q).quantile
        /\ calls.value = AppendQuantiles(q).value
    BY DEF QuantileIDs
  <2>2. /\ NonZeroCalls(quantiles) = [k \in DOMAIN q |-> NonZero(q[k].quantile)]
        /\ NonZeroCalls(values) = [k \in DOMAIN q |-> NonZero(q[k].value)]
    BY DEF NonZeroCalls
  <2>3. /\ AppendQuantiles(q).quantiles = ListAppend(structs)
        /\ AppendQuantiles(q).quantile =
             Elements([k \in DOMAIN q |-> NonZero(q[k].quantile)])
        /\ AppendQuantiles(q).value = Elements([k \in DOMAIN q |-> NonZero(q[k].value)])
    BY DEF AppendQuantiles
  <2> QED BY <2>1, <2>2, <2>3
<1>7. DOMAIN quantiles = DOMAIN q /\ DOMAIN values = DOMAIN q
  OBVIOUS
<1>8. \A k \in DOMAIN q : quantiles[k] = q[k].quantile /\ values[k] = q[k].value
  OBVIOUS
<1> HIDE DEF structs, quantiles, values
<1>9. /\ structs = <<>> => got.quantiles = Null
      /\ structs # <<>> => got.quantiles = structs
  <2>1. "quantiles" \in ids /\ "quantiles" \in DOMAIN calls
    BY <1>5 DEF QuantileIDs
  <2>2. structs \in Seq(Int \cup {Struct, Null}) /\ calls.quantiles = ListAppend(structs)
    BY <1>3, <1>6
  <2>3. got.quantiles = Field(calls, ids, "quantiles")
    BY DEF Field
  <2> HIDE DEF got
  <2> QED BY <2>1, <2>2, <2>3, ListRead
<1>10. \A k \in DOMAIN q :
         OrZero(IF got.quantile = Null THEN Null ELSE got.quantile[k]) = q[k].quantile
  <2>1. "quantile" \in ids /\ "quantile" \in DOMAIN calls
    BY <1>5 DEF QuantileIDs
  <2>2. quantiles \in Seq(Int)
    BY <1>4
  <2>3. calls.quantile = Elements(NonZeroCalls(quantiles))
    BY <1>6
  <2>4. \/ got.quantile = NonZeroCells(quantiles)
        \/ got.quantile = Null /\ \A k \in DOMAIN quantiles : quantiles[k] = 0
    <3>1. got.quantile = Field(calls, ids, "quantile")
      BY DEF Field
    <3> HIDE DEF got
    <3> QED BY <2>1, <2>2, <2>3, <3>1, ElementsRead
  <2> HIDE DEF got
  <2>5. \A k \in DOMAIN quantiles :
          OrZero(IF got.quantile = Null THEN Null ELSE got.quantile[k]) = quantiles[k]
    BY <2>2, <2>4, ElementValues
  <2> QED BY <1>7, <1>8, <2>5
<1>11. \A k \in DOMAIN q :
         OrZero(IF got.value = Null THEN Null ELSE got.value[k]) = q[k].value
  <2>1. "value" \in ids /\ "value" \in DOMAIN calls
    BY <1>5 DEF QuantileIDs
  <2>2. values \in Seq(Int)
    BY <1>4
  <2>3. calls.value = Elements(NonZeroCalls(values))
    BY <1>6
  <2>4. \/ got.value = NonZeroCells(values)
        \/ got.value = Null /\ \A k \in DOMAIN values : values[k] = 0
    <3>1. got.value = Field(calls, ids, "value")
      BY DEF Field
    <3> HIDE DEF got
    <3> QED BY <2>1, <2>2, <2>3, <3>1, ElementsRead
  <2> HIDE DEF got
  <2>5. \A k \in DOMAIN values :
          OrZero(IF got.value = Null THEN Null ELSE got.value[k]) = values[k]
    BY <2>2, <2>4, ElementValues
  <2> QED BY <1>7, <1>8, <2>5
<1>12. structs # Null
  BY <1>3, ListNotNull
<1> HIDE DEF got
<1>13. QuantilesFrom(got) = q
  <2>1. CASE q = <<>>
    <3>1. got.quantiles = Null
      BY <1>3, <1>9, <2>1
    <3> QED BY <2>1, <3>1 DEF QuantilesFrom
  <2>2. CASE q # <<>>
    <3>1. got.quantiles = structs /\ got.quantiles # Null /\ DOMAIN got.quantiles = DOMAIN q
      BY <1>3, <1>9, <1>12, <2>2
    <3>2. QuantilesFrom(got) =
            [k \in DOMAIN q |->
               [quantile |-> OrZero(IF got.quantile = Null THEN Null ELSE got.quantile[k]),
                value |-> OrZero(IF got.value = Null THEN Null ELSE got.value[k])]]
      BY <3>1 DEF QuantilesFrom
    <3>3. QuantilesFrom(got) =
            [k \in DOMAIN q |-> [quantile |-> q[k].quantile, value |-> q[k].value]]
      BY <1>10, <1>11, <3>2
    <3>4. QuantilesFrom(got) = [k \in DOMAIN q |-> q[k]]
      BY <1>2, <3>3
    <3> QED BY <1>1, <3>4
  <2> QED BY <2>1, <2>2
<1> QED BY <1>13 DEF got

LEMMA SummaryReads ==
  ASSUME NEW row, IsRow("SUMMARY_DATA_POINTS", row), AskedBy(AppendSummary(row)) = {}
  PROVE  SummaryFrom(Cells(AppendSummary(row))) = row
<1> DEFINE calls == AppendSummary(row)
           numbers == Points \cup {"sum"}
           of_summary ==
             [start_time |-> TimestampAppend(row.start_time),
              time       |-> TimestampAppend(row.time),
              count      |-> Uint64Append(row.count),
              sum        |-> Float64AppendNonZero(row.sum),
              flags      |-> Uint32Append(row.flags)]
           of_quantiles == AppendQuantiles(row.quantiles)
           got == Fields(Cells(calls), SummaryIDs)
<1>1. /\ \A f \in numbers : row[f] \in Int
      /\ row.quantiles \in Seq([quantile : Int, value : Int])
  BY DEF IsRow, HasFields
<1>2. row = [start_time |-> row.start_time, time |-> row.time, count |-> row.count,
             sum |-> row.sum, flags |-> row.flags, quantiles |-> row.quantiles]
  BY DEF IsRow, HasFields, Points
<1>3. SummaryIDs = numbers \cup QuantileIDs
  BY DEF SummaryIDs, Points
<1>4. DOMAIN of_summary = numbers /\ DOMAIN of_quantiles = QuantileIDs
  BY DEF Points, AppendQuantiles, QuantileIDs
<1>5. \A f \in numbers : of_summary[f] \in Writes(row[f])
  <2>1. /\ of_summary.start_time = Plain(row.start_time)
        /\ of_summary.time = Plain(row.time)
        /\ of_summary.count = Plain(row.count)
        /\ of_summary.sum = NonZero(row.sum)
        /\ of_summary.flags = Plain(row.flags)
    OBVIOUS
  <2> HIDE DEF of_summary
  <2> QED BY <2>1 DEF Writes, Points
<1>6. calls = With(of_summary, of_quantiles)
  BY DEF AppendSummary
<1>7. AskedBy(calls) = {}
  OBVIOUS
<1> HIDE DEF calls, of_summary, of_quantiles
<1>8. /\ DOMAIN calls = SummaryIDs
      /\ \A f \in numbers : calls[f] \in Writes(row[f])
      /\ \A c \in QuantileIDs : calls[c] = of_quantiles[c]
  <2> DEFINE both == With(of_summary, of_quantiles)
  <2>1. /\ DOMAIN both = DOMAIN of_summary \cup DOMAIN of_quantiles
        /\ \A c \in DOMAIN of_summary : both[c] = of_summary[c]
        /\ \A c \in DOMAIN of_quantiles \ DOMAIN of_summary : both[c] = of_quantiles[c]
    BY WithParts
  <2>2. numbers \cap QuantileIDs = {}
    BY DEF Points, QuantileIDs
  <2> HIDE DEF both, numbers
  <2>3. both = calls
    BY <1>6 DEF both
  <2> QED BY <1>3, <1>4, <1>5, <2>1, <2>2, <2>3
<1>9. \A f \in numbers : OrZero(got[f]) = row[f]
  <2> SUFFICES ASSUME NEW f \in numbers
               PROVE  OrZero(got[f]) = row[f]
    OBVIOUS
  <2>1. f \in SummaryIDs /\ f \in DOMAIN calls /\ row[f] \in Int /\ calls[f] \in Writes(row[f])
    BY <1>1, <1>3, <1>8
  <2> QED BY <1>7, <2>1, NumberRead
<1>10. QuantilesFrom(got) = row.quantiles
  <2>1. QuantileIDs \subseteq SummaryIDs /\ QuantileIDs \subseteq DOMAIN calls
    BY <1>3, <1>8
  <2>2. \A c \in QuantileIDs : calls[c] = AppendQuantiles(row.quantiles)[c]
    BY <1>8 DEF of_quantiles
  <2> QED BY <1>1, <1>7, <2>1, <2>2, QuantilesRead
<1>11. SummaryFrom(Cells(calls)) =
         [start_time |-> row.start_time, time |-> row.time, count |-> row.count,
          sum |-> row.sum, flags |-> row.flags, quantiles |-> row.quantiles]
  BY <1>9, <1>10 DEF SummaryFrom, Points
<1> QED BY <1>2, <1>11 DEF calls

-----------------------------------------------------------------------------
(***************************************************************************)
(* Exponential histograms.                                                 *)
(***************************************************************************)

\* A column is in the record, or was not asked for.
LEMMA CellsOf ==
  ASSUME NEW calls, NEW c, AskedBy(calls) = {}, c \in DOMAIN calls
  PROVE  \/ c \in DOMAIN Cells(calls) /\ Cells(calls)[c] = calls[c].cell
         \/ c \notin DOMAIN Cells(calls) /\ ~calls[c].asks
BY DEF Cells, AskedBy, Absent

\* Buckets are read if both their fields have columns.
LEMMA BucketsRead ==
  ASSUME NEW calls, AskedBy(calls) = {}, NEW struct, NEW offset, NEW counts,
         {struct, offset, counts} \subseteq DOMAIN calls,
         NEW b \in Buckets,
         calls[struct] = AppendBuckets(b).struct,
         calls[offset] = AppendBuckets(b).offset,
         calls[counts] = AppendBuckets(b).counts,
         NEW cells, cells = Cells(calls)
  PROVE  /\ BucketsPanic(cells, struct, offset, counts) => OneFieldOnly(b)
         /\ ~BucketsPanic(cells, struct, offset, counts) =>
              BucketsFrom(cells, struct, offset, counts) = b
<1>1. /\ b.offset \in Int /\ b.counts \in Seq(Int)
      /\ b = [offset |-> b.offset, counts |-> b.counts]
  BY DEF Buckets
<1>2. \A c \in {struct, offset, counts} :
        \/ c \in DOMAIN cells /\ cells[c] = calls[c].cell
        \/ c \notin DOMAIN cells /\ ~calls[c].asks
  BY CellsOf
<1> DEFINE in == Fields(cells, {struct})[struct]
<1>3. in = IF struct \in DOMAIN cells THEN cells[struct] ELSE Null
  BY DEF Fields
<1>4. Struct # Null
  BY ColumnsAssumption DEF ColumnsAssumption
<1> HIDE DEF in
<1>5. CASE b.offset = 0 /\ b.counts = <<>>
  <2>1. AppendBuckets(b) =
          [struct |-> AppendNull, offset |-> AppendNull, counts |-> AppendNull]
    BY <1>5 DEF AppendBuckets
  <2>2. calls[struct] = AppendNull
    BY <2>1
  <2>3. AppendNull.cell = Null
    BY DEF AppendNull, Call
  <2>4. in = Null
    BY <1>2, <1>3, <2>2, <2>3
  <2>5. BucketsOf(cells, struct, offset, counts) = Null
    BY <2>4 DEF BucketsOf, in
  <2>6. ~BucketsPanic(cells, struct, offset, counts)
    BY <2>5 DEF BucketsPanic
  <2>7. BucketsFrom(cells, struct, offset, counts) = [offset |-> 0, counts |-> <<>>]
    BY <2>5 DEF BucketsFrom
  <2> QED BY <1>1, <1>5, <2>6, <2>7
<1>6. CASE ~(b.offset = 0 /\ b.counts = <<>>)
  <2> DEFINE counted == [k \in DOMAIN b.counts |-> Uint64Append(b.counts[k]).cell]
  <2>1. AppendBuckets(b) =
          [struct |-> StructAppend, offset |-> Int32AppendNonZero(b.offset),
           counts |-> ListAppend(counted)]
    BY <1>6 DEF AppendBuckets
  <2>2. counted = b.counts
    <3>1. b.counts = [k \in 1..Len(b.counts) |-> b.counts[k]] /\ DOMAIN b.counts = 1..Len(b.counts)
      BY <1>1
    <3>2. \A v : Uint64Append(v).cell = v
      BY DEF Plain, Call
    <3> QED BY <3>1, <3>2
  <2> HIDE DEF counted
  <2>3. /\ calls[struct] = Call(Struct, TRUE)
        /\ calls[offset] = NonZero(b.offset)
        /\ calls[counts] = ListAppend(b.counts)
    BY <2>1, <2>2
  <2>4. /\ calls[struct].cell = Struct /\ calls[struct].asks
    <3>1. Call(Struct, TRUE).cell = Struct /\ Call(Struct, TRUE).asks
      BY DEF Call
    <3> QED BY <2>3, <3>1
  <2>5. /\ calls[offset].cell = IF b.offset = 0 THEN Null ELSE b.offset
        /\ ~calls[offset].asks => b.offset = 0
    <3>1. \A v : /\ NonZero(v).cell = (IF v = 0 THEN Null ELSE v)
                 /\ ~NonZero(v).asks => v = 0
      BY DEF NonZero, Call
    <3> QED BY <2>3, <3>1
  <2>6. /\ calls[counts].cell = IF b.counts = <<>> THEN Null ELSE b.counts
        /\ ~calls[counts].asks => b.counts = <<>>
    <3>1. CASE b.counts = <<>>
      <4>1. ListAppend(b.counts).cell = Null
        BY <3>1 DEF ListAppend, AppendNull, Call
      <4> QED BY <2>3, <3>1, <4>1
    <3>2. CASE b.counts # <<>>
      <4>1. ListAppend(b.counts).cell = b.counts /\ ListAppend(b.counts).asks
        BY <3>2 DEF ListAppend, Call
      <4> QED BY <2>3, <3>2, <4>1
    <3> QED BY <3>1, <3>2
  <2>7. in = Struct
    BY <1>2, <1>3, <2>4
  <2>8. {offset, counts} \cap DOMAIN cells # {}
    BY <1>2, <1>6, <2>5, <2>6
  <2>9. BucketsOf(cells, struct, offset, counts) # Null
    BY <1>4, <2>7, <2>8 DEF BucketsOf, in
  <2>10. ASSUME BucketsPanic(cells, struct, offset, counts)
         PROVE  OneFieldOnly(b)
    <3>1. offset \notin DOMAIN cells \/ counts \notin DOMAIN cells
      BY <2>10 DEF BucketsPanic
    <3>2. b.offset = 0 \/ b.counts = <<>>
      BY <1>2, <2>5, <2>6, <3>1
    <3> QED BY <1>6, <3>2 DEF OneFieldOnly
  <2>11. ASSUME ~BucketsPanic(cells, struct, offset, counts)
         PROVE  BucketsFrom(cells, struct, offset, counts) = b
    <3>1. offset \in DOMAIN cells /\ counts \in DOMAIN cells
      BY <2>9, <2>11 DEF BucketsPanic
    <3>2. cells[offset] = calls[offset].cell /\ cells[counts] = calls[counts].cell
      BY <1>2, <3>1
    <3>3. b.offset # Null /\ b.counts # Null
      BY <1>1, ColumnsAssumption DEF ColumnsAssumption
    <3>4. OrZero(cells[offset]) = b.offset
      BY <2>5, <3>2, <3>3 DEF OrZero
    <3>5. (IF cells[counts] = Null THEN <<>> ELSE cells[counts]) = b.counts
      BY <2>6, <3>2, <3>3
    <3>6. BucketsFrom(cells, struct, offset, counts) =
            [offset |-> OrZero(cells[offset]),
             counts |-> IF cells[counts] = Null THEN <<>> ELSE cells[counts]]
      BY <2>9 DEF BucketsFrom
    <3> QED BY <1>1, <3>4, <3>5, <3>6
  <2> QED BY <2>10, <2>11
<1> QED BY <1>5, <1>6

LEMMA EHistogramReads ==
  ASSUME NEW i, NEW row, kind = "EXP_HISTOGRAM_DATA_POINTS", IsRow(kind, row),
         AskedBy(AppendEHistogram(row)) = {},
         NEW cells, cells = Cells(AppendEHistogram(row))
  PROVE  /\ EHistogramPanics(cells) => Breaks(i, row)
         /\ ~EHistogramPanics(cells) => EHistogramFrom(cells) = Kept(row)
<1> DEFINE calls == AppendEHistogram(row)
           numbers == {"start_time", "time", "count", "flags", "scale", "zero_count"}
           set == {"sum", "min", "max"}
           got == Fields(cells, EHistogramIDs)
           positive == AppendBuckets(row.positive)
           negative == AppendBuckets(row.negative)
<1>1. /\ \A f \in numbers : row[f] \in Int
      /\ \A f \in set : row[f] \in Unsettable
      /\ row.positive \in Buckets /\ row.negative \in Buckets
  BY DEF IsRow, HasFields, Points
<1>2. row = [start_time |-> row.start_time, time |-> row.time, count |-> row.count,
             sum |-> row.sum, scale |-> row.scale, zero_count |-> row.zero_count,
             positive |-> row.positive, negative |-> row.negative, flags |-> row.flags,
             min |-> row.min, max |-> row.max]
  BY DEF IsRow, HasFields, Points
<1>3. /\ numbers \cup set \subseteq DOMAIN calls
      /\ {"positive", "positive_offset", "positive_counts"} \subseteq DOMAIN calls
      /\ {"negative", "negative_offset", "negative_counts"} \subseteq DOMAIN calls
  BY DEF AppendEHistogram
<1>4. \A f \in numbers : calls[f] \in Writes(row[f])
  <2>1. /\ calls.start_time = Plain(row.start_time)
        /\ calls.time = Plain(row.time)
        /\ calls.count = Plain(row.count)
        /\ calls.scale = NonZero(row.scale)
        /\ calls.zero_count = Plain(row.zero_count)
        /\ calls.flags = Plain(row.flags)
    BY DEF AppendEHistogram
  <2> HIDE DEF calls
  <2> QED BY <2>1 DEF Writes
<1>5. \A f \in set : calls[f] = AppendIfSet(row[f])
  BY DEF AppendEHistogram
<1>6. /\ calls["positive"] = positive.struct
      /\ calls["positive_offset"] = positive.offset
      /\ calls["positive_counts"] = positive.counts
  BY DEF AppendEHistogram
<1>7. /\ calls["negative"] = negative.struct
      /\ calls["negative_offset"] = negative.offset
      /\ calls["negative_counts"] = negative.counts
  BY DEF AppendEHistogram
<1>8. AskedBy(calls) = {} /\ cells = Cells(calls)
  OBVIOUS
<1>9. EHistogramIDs = numbers \cup set
  BY DEF EHistogramIDs
<1> HIDE DEF calls
<1>10. \A f \in numbers : OrZero(got[f]) = row[f]
  <2> SUFFICES ASSUME NEW f \in numbers
               PROVE  OrZero(got[f]) = row[f]
    OBVIOUS
  <2>1. f \in EHistogramIDs /\ f \in DOMAIN calls /\ row[f] \in Int /\ calls[f] \in Writes(row[f])
    BY <1>1, <1>3, <1>4, <1>9
  <2>2. OrZero(Fields(Cells(calls), EHistogramIDs)[f]) = row[f]
    BY <1>8, <2>1, NumberRead
  <2> QED BY <1>8, <2>2
<1>11. \A f \in set : got[f] = UnlessZero(row[f])
  <2> SUFFICES ASSUME NEW f \in set
               PROVE  got[f] = UnlessZero(row[f])
    OBVIOUS
  <2>1. /\ f \in EHistogramIDs /\ f \in DOMAIN calls /\ row[f] \in Unsettable
        /\ calls[f] = AppendIfSet(row[f])
    BY <1>1, <1>3, <1>5, <1>9
  <2>2. Fields(Cells(calls), EHistogramIDs)[f] = UnlessZero(row[f])
    BY <1>8, <2>1, SetRead
  <2> QED BY <1>8, <2>2
<1> DEFINE panics_positive ==
             BucketsPanic(cells, "positive", "positive_offset", "positive_counts")
           panics_negative ==
             BucketsPanic(cells, "negative", "negative_offset", "negative_counts")
           positive_from ==
             BucketsFrom(cells, "positive", "positive_offset", "positive_counts")
           negative_from ==
             BucketsFrom(cells, "negative", "negative_offset", "negative_counts")
<1>12. /\ panics_positive => OneFieldOnly(row.positive)
       /\ ~panics_positive => positive_from = row.positive
  BY <1>1, <1>3, <1>6, <1>8, BucketsRead
<1>13. /\ panics_negative => OneFieldOnly(row.negative)
       /\ ~panics_negative => negative_from = row.negative
  BY <1>1, <1>3, <1>7, <1>8, BucketsRead
<1>14. EHistogramPanics(cells) <=> panics_positive \/ panics_negative
  BY DEF EHistogramPanics
<1>15. Breaks(i, row) <=> OneFieldOnly(row.positive) \/ OneFieldOnly(row.negative)
  BY DEF Breaks
<1>16. EHistogramFrom(cells) =
         [start_time |-> OrZero(got.start_time), time |-> OrZero(got.time),
          count |-> OrZero(got.count), sum |-> got.sum, scale |-> OrZero(got.scale),
          zero_count |-> OrZero(got.zero_count), positive |-> positive_from,
          negative |-> negative_from, flags |-> OrZero(got.flags),
          min |-> got.min, max |-> got.max]
  BY DEF EHistogramFrom
<1>17. Kept(row) =
         [start_time |-> row.start_time, time |-> row.time, count |-> row.count,
          sum |-> UnlessZero(row.sum), scale |-> row.scale, zero_count |-> row.zero_count,
          positive |-> row.positive, negative |-> row.negative, flags |-> row.flags,
          min |-> UnlessZero(row.min), max |-> UnlessZero(row.max)]
  <2>1. Kept(row) = [row EXCEPT !.sum = UnlessZero(@), !.min = UnlessZero(@),
                                !.max = UnlessZero(@)]
    BY DEF Kept, Histograms
  <2> QED BY <1>2, <2>1
<1> HIDE DEF panics_positive, panics_negative, positive_from, negative_from, got
<1> QED BY <1>10, <1>11, <1>12, <1>13, <1>14, <1>15, <1>16, <1>17

-----------------------------------------------------------------------------
(***************************************************************************)
(* A row of any kind.                                                      *)
(***************************************************************************)

\* What its cells say of a row.
ReadsBack(i, row, cells) ==
  /\ Rejected(cells) \/ Panics(i, cells) => Breaks(i, row)
  /\ ~(Rejected(cells) \/ Panics(i, cells)) =>
       From(cells) = Kept(row)

\* A row for which every column it asks for is there reads back.
LEMMA RowReads ==
  ASSUME kind \in KindNames, NEW i, NEW row, IsRow(kind, row),
         AskedBy(AppendRow(row)) = {}, NEW cells, cells = Cells(AppendRow(row))
  PROVE  ReadsBack(i, row, cells)
<1>1. CASE kind = "SPANS"
  <2>1. AppendRow(row) = AppendSpan(row)
    BY <1>1 DEF AppendRow
  <2>2. ~SpanRejected(cells) /\ SpanFrom(cells) = row
    BY <1>1, <2>1, SpanReads
  <2>3. /\ Rejected(cells) <=> SpanRejected(cells)
        /\ Panics(i, cells) <=> FALSE
        /\ From(cells) = SpanFrom(cells)
        /\ Kept(row) = row
    BY <1>1 DEF Rejected, Panics, From, Kept, Histograms
  <2> QED BY <2>2, <2>3 DEF ReadsBack
<1>2. CASE kind = "SPAN_EVENTS"
  <2>1. AppendRow(row) = AppendEvent(row)
    BY <1>2 DEF AppendRow
  <2>2. EventFrom(cells) = row
    BY <1>2, <2>1, EventReads
  <2>3. /\ ~Rejected(cells) /\ ~Panics(i, cells)
        /\ From(cells) = EventFrom(cells)
        /\ Kept(row) = row
    BY <1>2 DEF Rejected, Panics, From, Kept, Histograms
  <2> QED BY <2>2, <2>3 DEF ReadsBack
<1>3. CASE kind = "SPAN_LINKS"
  <2>1. AppendRow(row) = AppendLink(row)
    BY <1>3 DEF AppendRow
  <2>2. LinkFrom(cells) = row
    BY <1>3, <2>1, LinkReads
  <2>3. /\ ~Rejected(cells) /\ ~Panics(i, cells)
        /\ From(cells) = LinkFrom(cells)
        /\ Kept(row) = row
    BY <1>3 DEF Rejected, Panics, From, Kept, Histograms
  <2> QED BY <2>2, <2>3 DEF ReadsBack
<1>4. CASE kind = "LOGS"
  <2>1. AppendRow(row) = AppendLog(row)
    BY <1>4 DEF AppendRow
  <2>2. /\ ~LogRejected(cells)
        /\ LogPanics(cells) => row.body = EmptyValue
        /\ ~LogPanics(cells) => LogFrom(cells) = [row EXCEPT !.body = KeptValue(@)]
    BY <1>4, <2>1, LogReads
  <2>3. /\ Rejected(cells) <=> LogRejected(cells)
        /\ Panics(i, cells) <=> LogPanics(cells)
        /\ From(cells) = LogFrom(cells)
        /\ Breaks(i, row) <=> row.body = EmptyValue
    BY <1>4 DEF Rejected, Panics, From, Breaks
  <2>4. Kept(row) = [row EXCEPT !.body = KeptValue(@)]
    <3>1. CASE row.body[1] \in {MapType, SliceType}
      <4>1. Kept(row) = [row EXCEPT !.body = Deserialize(Serialize(@))]
        BY <1>4, <3>1 DEF Kept, Histograms
      <4> QED BY <3>1, <4>1 DEF KeptValue
    <3>2. CASE row.body[1] \notin {MapType, SliceType}
      <4>1. Kept(row) = row
        BY <1>4, <3>2 DEF Kept, Histograms
      <4>2. \E D : row = [f \in D |-> row[f]]
        BY <1>4 DEF IsRow, HasFields
      <4>3. [row EXCEPT !.body = row.body] = row
        BY <4>2
      <4> QED BY <3>2, <4>1, <4>3 DEF KeptValue
    <3> QED BY <3>1, <3>2
  <2> QED BY <2>2, <2>3, <2>4 DEF ReadsBack
<1>5. CASE kind = "METRICS"
  <2>1. AppendRow(row) = AppendMetric(row)
    BY <1>5 DEF AppendRow
  <2>2. MetricFrom(cells) = row
    BY <1>5, <2>1, MetricReads
  <2>3. /\ ~Rejected(cells) /\ ~Panics(i, cells)
        /\ From(cells) = MetricFrom(cells)
        /\ Kept(row) = row
    BY <1>5 DEF Rejected, Panics, From, Kept, Histograms
  <2> QED BY <2>2, <2>3 DEF ReadsBack
<1>6. CASE kind = "NUMBER_DATA_POINTS"
  <2>1. AppendRow(row) = AppendNumberDP(row)
    BY <1>6 DEF AppendRow
  <2>2. NumberDPFrom(cells) = row
    BY <1>6, <2>1, NumberDPReads
  <2>3. /\ ~Rejected(cells) /\ ~Panics(i, cells)
        /\ From(cells) = NumberDPFrom(cells)
        /\ Kept(row) = row
    BY <1>6 DEF Rejected, Panics, From, Kept, Histograms
  <2> QED BY <2>2, <2>3 DEF ReadsBack
<1>7. CASE kind = "SUMMARY_DATA_POINTS"
  <2>1. AppendRow(row) = AppendSummary(row)
    BY <1>7 DEF AppendRow
  <2>2. SummaryFrom(cells) = row
    BY <1>7, <2>1, SummaryReads
  <2>3. /\ ~Rejected(cells) /\ ~Panics(i, cells)
        /\ From(cells) = SummaryFrom(cells)
        /\ Kept(row) = row
    BY <1>7 DEF Rejected, Panics, From, Kept, Histograms
  <2> QED BY <2>2, <2>3 DEF ReadsBack
<1>8. CASE kind = "HISTOGRAM_DATA_POINTS"
  <2>1. AppendRow(row) = AppendHistogram(row)
    BY <1>8 DEF AppendRow
  <2>2. /\ HistogramRejected(cells) => Breaks(i, row)
        /\ ~HistogramRejected(cells) => HistogramFrom(cells) = Kept(row)
    BY <1>8, <2>1, HistogramReads
  <2>3. /\ Rejected(cells) <=> HistogramRejected(cells)
        /\ ~Panics(i, cells)
        /\ From(cells) = HistogramFrom(cells)
    BY <1>8 DEF Rejected, Panics, From
  <2> QED BY <2>2, <2>3 DEF ReadsBack
<1>9. CASE kind = "EXP_HISTOGRAM_DATA_POINTS"
  <2>1. AppendRow(row) = AppendEHistogram(row)
    BY <1>9 DEF AppendRow
  <2>2. /\ EHistogramPanics(cells) => Breaks(i, row)
        /\ ~EHistogramPanics(cells) => EHistogramFrom(cells) = Kept(row)
    BY <1>9, <2>1, EHistogramReads
  <2>3. /\ ~Rejected(cells)
        /\ Panics(i, cells) <=> EHistogramPanics(cells)
        /\ From(cells) = EHistogramFrom(cells)
    BY <1>9 DEF Rejected, Panics, From
  <2> QED BY <2>2, <2>3 DEF ReadsBack
<1>10. CASE kind = "EXEMPLARS"
  <2>1. AppendRow(row) = AppendExemplar(row)
    BY <1>10 DEF AppendRow
  <2>2. /\ ExemplarFrom(cells) = row
        /\ ~ExemplarRejected(cells)
    BY <1>10, <2>1, ExemplarReads
  <2>3. /\ Rejected(cells) <=> ExemplarRejected(cells)
        /\ ~Panics(i, cells)
        /\ From(cells) = ExemplarFrom(cells)
        /\ Kept(row) = row
    BY <1>10 DEF Rejected, Panics, From, Kept, Histograms
  <2> QED BY <2>2, <2>3 DEF ReadsBack
<1>11. CASE kind = "ATTRS"
  <2>1. AppendRow(row) = AppendAttr(row)
    BY <1>11 DEF AppendRow
  <2>2. AttrFrom(cells) = [row EXCEPT !.value = KeptValue(@)]
    BY <1>11, <2>1, AttrReads
  <2>3. /\ ~Rejected(cells)
        /\ Panics(i, cells) <=> i = 1 /\ NoPrevious(cells)
        /\ Breaks(i, row) <=> i = 1 /\ row.key = 0
        /\ From(cells) = AttrFrom(cells)
    BY <1>11 DEF Rejected, Panics, Breaks, From
  <2>4. Kept(row) = [row EXCEPT !.value = KeptValue(@)]
    <3>1. CASE row.value[1] \in {MapType, SliceType}
      <4>1. Kept(row) = [row EXCEPT !.value = Deserialize(Serialize(@))]
        BY <1>11, <3>1 DEF Kept, Histograms
      <4> QED BY <3>1, <4>1 DEF KeptValue
    <3>2. CASE row.value[1] \notin {MapType, SliceType}
      <4>1. Kept(row) = row
        BY <1>11, <3>2 DEF Kept, Histograms
      <4>2. \E D : row = [f \in D |-> row[f]]
        BY <1>11 DEF IsRow, HasFields
      <4>3. [row EXCEPT !.value = row.value] = row
        BY <4>2
      <4> QED BY <3>2, <4>1, <4>3 DEF KeptValue
    <3> QED BY <3>1, <3>2
  <2>5. NoPrevious(cells) <=> row.key = 0
    <3>1. AttrFrom(cells).key = row.key
      <4>1. row = [key |-> row.key, value |-> row.value]
        BY <1>11 DEF IsRow, HasFields
      <4> QED BY <2>2, <4>1
    <3>2. AttrFrom(cells).key = OrZero(Fields(cells, AttrIDs).key)
      BY DEF AttrFrom
    <3> QED BY <3>1, <3>2 DEF NoPrevious
  <2> QED BY <2>2, <2>3, <2>4, <2>5 DEF ReadsBack
<1>12. CASE kind = "RESOURCES"
  <2>1. AppendRow(row) = AppendResource(row)
    BY <1>12 DEF AppendRow
  <2>2. ResourceFrom(cells) = row
    BY <1>12, <2>1, ResourceReads
  <2>3. /\ ~Rejected(cells) /\ ~Panics(i, cells)
        /\ From(cells) = ResourceFrom(cells)
        /\ Kept(row) = row
    BY <1>12 DEF Rejected, Panics, From, Kept, Histograms
  <2> QED BY <2>2, <2>3 DEF ReadsBack
<1>13. CASE kind = "SCOPES"
  <2>1. AppendRow(row) = AppendScope(row)
    BY <1>13 DEF AppendRow
  <2>2. ScopeFrom(cells) = row
    BY <1>13, <2>1, ScopeReads
  <2>3. /\ ~Rejected(cells) /\ ~Panics(i, cells)
        /\ From(cells) = ScopeFrom(cells)
        /\ Kept(row) = row
    BY <1>13 DEF Rejected, Panics, From, Kept, Histograms
  <2> QED BY <2>2, <2>3 DEF ReadsBack
<1> QED
  BY <1>1, <1>2, <1>3, <1>4, <1>5, <1>6, <1>7, <1>8, <1>9, <1>10, <1>11, <1>12, <1>13
  DEF KindNames

-----------------------------------------------------------------------------
(***************************************************************************)
(* Columns in columns: a struct or a list asks when one of its fields does.*)
(***************************************************************************)

LEMMA NestedAsked ==
  ASSUME kind \in KindNames, NEW row, NEW h \in DOMAIN Holds \cap Optional,
         NEW c \in Holds[h], c \in DOMAIN AppendRow(row), AppendRow(row)[c].asks
  PROVE  h \in DOMAIN AppendRow(row) /\ AppendRow(row)[h].asks
<1>1. CASE kind = "SPANS"
  <2>1. h = "status"
    BY <1>1 DEF Holds, Optional, SpanOptional, StatusOptional
  <2> DEFINE calls == AppendSpan(row)
             of_span ==
               [start_time     |-> TimestampAppend(row.start_time),
                duration       |-> DurationAppend(row.end_time - row.start_time),
                trace_id       |-> FixedSizeBinaryAppend(row.trace_id),
                span_id        |-> FixedSizeBinaryAppend(row.span_id),
                trace_state    |-> StringAppendNonEmpty(row.trace_state),
                parent_span_id |-> FixedSizeBinaryAppend(row.parent_span_id),
                name           |-> StringAppendNonEmpty(row.name),
                kind           |-> Int32AppendNonZero(row.kind),
                dropped_attributes_count |->
                  Uint32AppendNonZero(row.dropped_attributes_count),
                dropped_events_count     |-> Uint32AppendNonZero(row.dropped_events_count),
                dropped_links_count      |-> Uint32AppendNonZero(row.dropped_links_count)]
             of_status == AppendStatus(row)
  <2>2. calls = With(of_span, of_status)
    BY DEF AppendSpan
  <2>3. "status" \notin DOMAIN of_span
    OBVIOUS
  <2>4. "status" \in DOMAIN of_status /\ of_status["status"] = Call(Struct, TRUE)
    BY DEF AppendStatus
  <2> HIDE DEF calls, of_span, of_status
  <2>5. "status" \in DOMAIN calls /\ calls["status"] = Call(Struct, TRUE)
    BY <2>2, <2>3, <2>4 DEF With
  <2>6. calls["status"].asks
    BY <2>5, CallParts
  <2>7. AppendRow(row) = calls
    BY <1>1 DEF AppendRow, calls
  <2> QED BY <2>1, <2>5, <2>6, <2>7
<1>2. CASE kind = "SUMMARY_DATA_POINTS"
  <2>1. h = "quantiles" /\ c \in {"quantile", "value"}
    BY <1>2 DEF Holds, Optional, SummaryOptional, QuantileOptional
  <2> DEFINE calls == AppendSummary(row)
             of_summary ==
               [start_time |-> TimestampAppend(row.start_time),
                time       |-> TimestampAppend(row.time),
                count      |-> Uint64Append(row.count),
                sum        |-> Float64AppendNonZero(row.sum),
                flags      |-> Uint32Append(row.flags)]
             of_quantiles == AppendQuantiles(row.quantiles)
  <2>2. calls = With(of_summary, of_quantiles)
    BY DEF AppendSummary
  <2>3. /\ DOMAIN of_quantiles = {"quantiles", "quantile", "value"}
        /\ DOMAIN of_summary \cap DOMAIN of_quantiles = {}
    BY DEF AppendQuantiles
  <2>4. of_quantiles[c].asks => of_quantiles["quantiles"].asks
    <3> DEFINE number(k) == Float64AppendNonZero(row.quantiles[k].quantile)
               value(k)  == Float64AppendNonZero(row.quantiles[k].value)
               structs   == [k \in DOMAIN row.quantiles |-> Struct]
               numbers   == [k \in DOMAIN row.quantiles |-> number(k)]
               values    == [k \in DOMAIN row.quantiles |-> value(k)]
    <3>1. /\ of_quantiles["quantiles"] = ListAppend(structs)
          /\ of_quantiles["quantile"] = Elements(numbers)
          /\ of_quantiles["value"] = Elements(values)
      BY DEF AppendQuantiles
    <3>2. DOMAIN numbers = DOMAIN structs /\ DOMAIN values = DOMAIN structs
      OBVIOUS
    <3> HIDE DEF structs, numbers, values, of_quantiles
    <3>3. Elements(numbers).asks => DOMAIN numbers # {}
      BY CallParts DEF Elements
    <3>4. Elements(values).asks => DOMAIN values # {}
      BY CallParts DEF Elements
    <3>5. DOMAIN structs # {} => ListAppend(structs).asks
      <4>1. DOMAIN structs # {} => structs # <<>>
        OBVIOUS
      <4>2. structs # <<>> => ListAppend(structs) = Call(structs, TRUE)
        BY DEF ListAppend
      <4>3. Call(structs, TRUE).asks = TRUE
        BY CallParts
      <4> QED BY <4>1, <4>2, <4>3
    <3> QED BY <2>1, <3>1, <3>2, <3>3, <3>4, <3>5
  <2> HIDE DEF calls, of_summary, of_quantiles
  <2>5. \A f \in DOMAIN of_quantiles : f \in DOMAIN calls /\ calls[f] = of_quantiles[f]
    BY <2>2, <2>3 DEF With
  <2>6. AppendRow(row) = calls
    BY <1>2 DEF AppendRow, calls
  <2>7. of_quantiles[c].asks
    BY <2>1, <2>3, <2>5, <2>6
  <2> QED BY <2>1, <2>3, <2>4, <2>5, <2>6, <2>7
<1>3. CASE kind = "EXP_HISTOGRAM_DATA_POINTS"
  <2> DEFINE positive == AppendBuckets(row.positive)
             negative == AppendBuckets(row.negative)
             calls == AppendEHistogram(row)
  <2>1. \/ h = "positive" /\ c \in {"positive_offset", "positive_counts"}
        \/ h = "negative" /\ c \in {"negative_offset", "negative_counts"}
    BY <1>3 DEF Holds, Optional, EHistogramOptional, BucketsOptional
  <2>2. /\ calls["positive"] = positive.struct
        /\ calls["positive_offset"] = positive.offset
        /\ calls["positive_counts"] = positive.counts
        /\ {"positive", "negative"} \subseteq DOMAIN calls
    BY DEF AppendEHistogram
  <2>3. /\ calls["negative"] = negative.struct
        /\ calls["negative_offset"] = negative.offset
        /\ calls["negative_counts"] = negative.counts
    BY DEF AppendEHistogram
  <2>4. ASSUME NEW buckets,
               AppendBuckets(buckets).offset.asks \/ AppendBuckets(buckets).counts.asks
        PROVE  AppendBuckets(buckets).struct.asks
    <3>1. CASE buckets.offset = 0 /\ buckets.counts = <<>>
      <4>1. /\ AppendBuckets(buckets).offset = Call(Null, FALSE)
            /\ AppendBuckets(buckets).counts = Call(Null, FALSE)
        BY <3>1 DEF AppendBuckets, AppendNull
      <4>2. Call(Null, FALSE).asks = FALSE
        BY CallParts
      <4> QED BY <2>4, <4>1, <4>2
    <3>2. CASE ~(buckets.offset = 0 /\ buckets.counts = <<>>)
      <4>1. AppendBuckets(buckets).struct = Call(Struct, TRUE)
        BY <3>2 DEF AppendBuckets
      <4>2. Call(Struct, TRUE).asks = TRUE
        BY CallParts
      <4> QED BY <4>1, <4>2
    <3> QED BY <3>1, <3>2
  <2>5. AppendRow(row) = calls
    BY <1>3 DEF AppendRow
  <2> HIDE DEF calls
  <2>6. CASE h = "positive"
    <3>1. positive.offset.asks \/ positive.counts.asks
      BY <2>1, <2>2, <2>5, <2>6
    <3>2. positive.struct.asks
      BY <2>4, <3>1
    <3> QED BY <2>2, <2>5, <2>6, <3>2
  <2>7. CASE h = "negative"
    <3>1. negative.offset.asks \/ negative.counts.asks
      BY <2>1, <2>3, <2>5, <2>7
    <3>2. negative.struct.asks
      BY <2>4, <3>1
    <3> QED BY <2>2, <2>3, <2>5, <2>7, <3>2
  <2> QED BY <2>1, <2>6, <2>7
<1>4. CASE kind = "RESOURCES"
  <2>1. h = "resource"
    BY <1>4 DEF Holds, Optional, ResourceOptional
  <2>2. AppendRow(row) = AppendResource(row)
    BY <1>4 DEF AppendRow
  <2>3. /\ "resource" \in DOMAIN AppendResource(row)
        /\ AppendResource(row)["resource"] = Call(Struct, TRUE)
    BY DEF AppendResource
  <2>4. Call(Struct, TRUE).asks = TRUE
    BY CallParts
  <2> QED BY <2>1, <2>2, <2>3, <2>4
<1>5. CASE kind = "SCOPES"
  <2>1. h = "scope"
    BY <1>5 DEF Holds, Optional, ScopeOptional
  <2>2. AppendRow(row) = AppendScope(row)
    BY <1>5 DEF AppendRow
  <2>3. /\ "scope" \in DOMAIN AppendScope(row)
        /\ AppendScope(row)["scope"] = Call(Struct, TRUE)
    BY DEF AppendScope
  <2>4. Call(Struct, TRUE).asks = TRUE
    BY CallParts
  <2> QED BY <2>1, <2>2, <2>3, <2>4
<1>6. CASE kind \in {"SPAN_EVENTS", "SPAN_LINKS", "LOGS", "METRICS"}
  BY <1>6 DEF Holds, Optional, EventOptional, LinkOptional, LogOptional, MetricOptional
<1>7. CASE kind \in {"NUMBER_DATA_POINTS", "HISTOGRAM_DATA_POINTS", "EXEMPLARS", "ATTRS"}
  BY <1>7 DEF Holds, Optional, NumberDPOptional, HistogramOptional, ExemplarOptional,
    AttrOptional
<1> QED BY <1>1, <1>2, <1>3, <1>4, <1>5, <1>6, <1>7 DEF KindNames

-----------------------------------------------------------------------------
(***************************************************************************)
(* Batches.                                                                *)
(***************************************************************************)

\* A record that is built says of each row what it should.
Built ==
  /\ phase = "building" => record = <<>>
  /\ phase \in {"building", "built"} => received = <<>>
  /\ phase = "built" =>
       /\ DOMAIN record = DOMAIN rows /\ Len(record) = Len(rows)
       /\ \A i \in DOMAIN rows : ReadsBack(i, rows[i], record[i])

\* The inductive invariant: what is built reads back when it is read.
Inv == TypeOK /\ Built /\ BatchesReadBack

\* A kind does not change what it does.
LEMMA KindStays ==
  ASSUME kind' = kind
  PROVE  /\ Optional' = Optional
         /\ \A row : AppendRow(row)' = AppendRow(row)
         /\ \A row : Kept(row)' = Kept(row)
         /\ \A i, row : Breaks(i, row)' <=> Breaks(i, row)
         /\ \A i, row, cells : ReadsBack(i, row, cells)' <=> ReadsBack(i, row, cells)
<1>1. Optional' = Optional
  BY DEF Optional
<1>2. ASSUME NEW row PROVE AppendRow(row)' = AppendRow(row)
  BY DEF AppendRow
<1>3. ASSUME NEW row PROVE Kept(row)' = Kept(row)
  BY DEF Kept
<1>4. ASSUME NEW i, NEW row PROVE Breaks(i, row)' <=> Breaks(i, row)
  BY DEF Breaks
<1>5. ASSUME NEW i, NEW row, NEW cells PROVE ReadsBack(i, row, cells)' <=> ReadsBack(i, row, cells)
  <2>1. Rejected(cells)' <=> Rejected(cells)
    BY DEF Rejected
  <2>2. Panics(i, cells)' <=> Panics(i, cells)
    BY DEF Panics
  <2>3. From(cells)' = From(cells)
    BY DEF From
  <2> QED BY <1>3, <1>4, <2>1, <2>2, <2>3 DEF ReadsBack
<1> QED BY <1>1, <1>2, <1>3, <1>4, <1>5

\* A list made of a row's length has that length.
LEMMA LengthOf ==
  ASSUME NEW S, NEW s \in Seq(S), NEW t, DOMAIN t = DOMAIN s,
         t = [i \in DOMAIN s |-> t[i]]
  PROVE  Len(t) = Len(s)
<1> DEFINE T == {t[i] : i \in DOMAIN s}
<1>1. Len(s) \in Nat /\ DOMAIN s = 1..Len(s)
  OBVIOUS
<1>2. t \in [1..Len(s) -> T]
  BY <1>1
<1> HIDE DEF T
<1>3. t \in Seq(T)
  BY <1>1, <1>2
<1>4. Len(t) \in Nat /\ DOMAIN t = 1..Len(t)
  BY <1>3
<1> QED BY <1>1, <1>4

\* The invariant is inductive.
LEMMA InitInv == Init => Inv
<1> SUFFICES ASSUME Init PROVE Inv
  OBVIOUS
<1>1. rows \in Seq(Rows[kind]) /\ Len(rows) = 0
  BY DEF Init
<1>2. Len(record) = 0 /\ Len(received) = 0
  BY DEF Init
<1>3. Len(Sizes) \in Nat
  BY ColumnsAssumption DEF ColumnsAssumption
<1>4. TypeOK
  BY <1>1, <1>2, <1>3 DEF Init, TypeOK
<1>5. Built /\ BatchesReadBack
  BY DEF Init, Built, BatchesReadBack
<1> QED BY <1>4, <1>5 DEF Inv

LEMMA TakeInv == Inv /\ Take => Inv'
<1> SUFFICES ASSUME Inv, Take PROVE Inv'
  OBVIOUS
<1>1. Optional' = Optional
  BY KindStays DEF Take
<1>2. \A c \in columns' : ~InAbsent(c)'
  BY <1>1 DEF Inv, TypeOK, Take, InAbsent
<1>3. rows' \in Seq(Rows[kind'])
  <2>1. Sizes[batches + 1] \in Nat
    BY ColumnsAssumption DEF Inv, TypeOK, Take, ColumnsAssumption
  <2>2. rows' \in [1..Sizes[batches + 1] -> Rows[kind]] /\ kind' = kind
    BY DEF Take
  <2> QED BY <2>1, <2>2
<1>4. Len(record') = 0 /\ Len(received') = 0
  BY DEF Take
<1>5. batches' \in 0..Len(Sizes)
  <2>1. Len(Sizes) \in Nat
    BY ColumnsAssumption DEF ColumnsAssumption
  <2> QED BY <2>1 DEF Inv, TypeOK, Take
<1>6. TypeOK'
  BY <1>1, <1>2, <1>3, <1>4, <1>5 DEF Inv, TypeOK, Take
<1>7. Built' /\ BatchesReadBack'
  BY DEF Take, Built, BatchesReadBack
<1> QED BY <1>6, <1>7 DEF Inv

LEMMA UpdateSchemaInv == Inv /\ UpdateSchema => Inv'
<1> SUFFICES ASSUME Inv, UpdateSchema PROVE Inv'
  OBVIOUS
<1>1. /\ Optional' = Optional
      /\ \A row : AppendRow(row)' = AppendRow(row)
  BY KindStays DEF UpdateSchema
<1>2. columns' = columns \cup AskedFor /\ rows' = rows
  BY DEF UpdateSchema
<1>3. AskedFor \subseteq Optional \ columns
  BY DEF AskedFor, AskedBy, Absent
<1>4. \A c \in columns' : ~InAbsent(c)'
  <2> SUFFICES ASSUME NEW c \in columns', NEW h \in (DOMAIN Holds \cap Optional) \ columns',
                      c \in Holds[h]
               PROVE  FALSE
    BY <1>1 DEF InAbsent, Holds
  <2>1. h \notin columns /\ h \notin AskedFor
    BY <1>2
  <2>2. c \notin columns
    BY <2>1 DEF Inv, TypeOK, InAbsent
  <2>3. PICK i \in DOMAIN rows : c \in AskedBy(AppendRow(rows[i]))
    BY <1>2, <2>2 DEF AskedFor
  <2>4. c \in DOMAIN AppendRow(rows[i]) /\ AppendRow(rows[i])[c].asks
    BY <2>3 DEF AskedBy, Absent
  <2>5. kind \in KindNames
    BY ColumnsAssumption DEF Inv, TypeOK, ColumnsAssumption
  <2>6. h \in DOMAIN AppendRow(rows[i]) /\ AppendRow(rows[i])[h].asks
    BY <2>4, <2>5, NestedAsked
  <2>7. h \in AskedBy(AppendRow(rows[i]))
    BY <2>1, <2>6 DEF AskedBy, Absent
  <2> QED BY <2>1, <2>7 DEF AskedFor
<1>5. TypeOK'
  BY <1>1, <1>2, <1>3, <1>4 DEF Inv, TypeOK, UpdateSchema
<1>6. Built' /\ BatchesReadBack'
  BY DEF Inv, UpdateSchema, Built, BatchesReadBack
<1> QED BY <1>5, <1>6 DEF Inv

LEMMA BuildInv == Inv /\ Build => Inv'
<1> SUFFICES ASSUME Inv, Build PROVE Inv'
  OBVIOUS
<1>1. /\ Optional' = Optional
      /\ \A row : AppendRow(row)' = AppendRow(row)
      /\ \A i, row, cells : ReadsBack(i, row, cells)' <=> ReadsBack(i, row, cells)
  BY KindStays DEF Build
<1>2. rows' = rows /\ columns' = columns /\ kind' = kind /\ rows \in Seq(Rows[kind])
  BY DEF Inv, TypeOK, Build
<1>3. /\ DOMAIN record' = DOMAIN rows
      /\ record' = [i \in DOMAIN rows |-> record'[i]]
      /\ \A i \in DOMAIN rows : record'[i] = Cells(AppendRow(rows[i]))
  BY DEF Build
<1>4. Len(record') = Len(rows)
  BY <1>2, <1>3, LengthOf
<1>5. received' = <<>> /\ Len(received') = 0
  BY DEF Inv, Built, Build
<1>6. \A c \in columns' : ~InAbsent(c)'
  BY <1>1, <1>2 DEF Inv, TypeOK, InAbsent
<1>7. TypeOK'
  BY <1>1, <1>2, <1>4, <1>5, <1>6 DEF Inv, TypeOK, Build
<1>8. \A i \in DOMAIN rows : ReadsBack(i, rows[i], record'[i])
  <2> SUFFICES ASSUME NEW i \in DOMAIN rows
               PROVE  ReadsBack(i, rows[i], record'[i])
    OBVIOUS
  <2>1. kind \in Kinds /\ rows[i] \in Rows[kind]
    BY <1>2 DEF Inv, TypeOK
  <2>2. kind \in KindNames /\ IsRow(kind, rows[i])
    BY <2>1, ColumnsAssumption DEF ColumnsAssumption
  <2>3. AskedBy(AppendRow(rows[i])) = {}
    BY DEF Build, AskedFor
  <2>4. record'[i] = Cells(AppendRow(rows[i]))
    BY <1>3
  <2> QED BY <2>2, <2>3, <2>4, RowReads
<1>9. Built'
  <2>1. \A i \in DOMAIN rows : ReadsBack(i, rows[i], record[i])'
    BY <1>1, <1>2, <1>8
  <2> QED BY <1>1, <1>2, <1>3, <1>4, <1>5, <2>1 DEF Built, Build
<1>10. BatchesReadBack'
  BY DEF Build, BatchesReadBack
<1> QED BY <1>7, <1>9, <1>10 DEF Inv

LEMMA ReadInv == Inv /\ Read => Inv'
<1> SUFFICES ASSUME Inv, Read PROVE Inv'
  OBVIOUS
<1> DEFINE Stops(i) == Rejected(record[i]) \/ Panics(i, record[i])
           first == {i \in DOMAIN record : Stops(i) /\ \A j \in 1..(i - 1) : ~Stops(j)}
<1>1. /\ kind' = kind /\ columns' = columns /\ rows' = rows /\ record' = record
      /\ batches' = batches
  BY DEF Read
<1>2. /\ Optional' = Optional
      /\ \A row : AppendRow(row)' = AppendRow(row)
  BY <1>1, KindStays
<1>3. /\ phase = "built" /\ received = <<>> /\ DOMAIN record = DOMAIN rows
      /\ \A i \in DOMAIN rows : ReadsBack(i, rows[i], record[i])
  BY DEF Inv, Built, Read
<1>4. rows \in Seq(Rows[kind])
  BY DEF Inv, TypeOK
<1>5. \/ /\ first = {}
         /\ received' = [i \in DOMAIN record |-> From(record[i])]
         /\ phase' = "read"
      \/ \E i \in first :
           /\ phase' = IF Rejected(record[i]) THEN "rejected" ELSE "panicked"
           /\ received' = received
  BY DEF Read
<1>6. \A c \in columns' : ~InAbsent(c)'
  BY <1>1, <1>2 DEF Inv, TypeOK, InAbsent
<1>7. CASE /\ first = {}
           /\ received' = [i \in DOMAIN record |-> From(record[i])]
           /\ phase' = "read"
  <2>1. /\ DOMAIN received' = DOMAIN rows
        /\ received' = [i \in DOMAIN rows |-> received'[i]]
        /\ \A i \in DOMAIN rows : received'[i] = From(record[i])
    BY <1>3, <1>7
  <2>2. Len(received') = Len(rows)
    BY <1>4, <2>1, LengthOf
  <2>3. TypeOK'
    BY <1>1, <1>2, <1>3, <1>6, <1>7, <2>2 DEF Inv, TypeOK
  <2>4. ASSUME NEW i \in DOMAIN rows, Stops(i) PROVE FALSE
    <3> DEFINE all == {j \in DOMAIN rows : Stops(j)}
    <3>1. DOMAIN rows \subseteq Nat /\ \A j \in DOMAIN rows : 1..(j - 1) \subseteq DOMAIN rows
      BY <1>4
    <3>2. all \in SUBSET Nat /\ all # {}
      BY <2>4, <3>1
    <3>3. PICK x \in all : \A y \in all : x <= y
      <4> HIDE DEF all
      <4> QED BY <3>2, LeastElement
    <3>4. x \in DOMAIN rows /\ x \in Nat /\ Stops(x)
      BY <3>1
    <3>5. \A j \in 1..(x - 1) : j \in DOMAIN rows /\ ~(x <= j)
      BY <3>1, <3>4
    <3>6. \A j \in 1..(x - 1) : ~Stops(j)
      BY <3>3, <3>5
    <3>7. x \in first
      BY <1>3, <3>4, <3>6
    <3> QED BY <1>7, <3>7
  <2>5. ASSUME NEW i \in DOMAIN rows
        PROVE  (received[i] = Kept(rows[i]))'
    <3>1. ~(Rejected(record[i]) \/ Panics(i, record[i]))
      BY <2>4
    <3>2. From(record[i]) = Kept(rows[i])
      BY <1>3, <3>1 DEF ReadsBack
    <3>3. received'[i] = Kept(rows[i])
      BY <2>1, <3>2
    <3>4. Kept(rows[i])' = Kept(rows[i])
      BY <1>1 DEF Kept
    <3> QED BY <3>3, <3>4
  <2>6. Built' /\ BatchesReadBack'
    BY <1>1, <1>7, <2>5 DEF Built, BatchesReadBack
  <2> QED BY <2>3, <2>6 DEF Inv
<1>8. ASSUME NEW i \in first,
             phase' = IF Rejected(record[i]) THEN "rejected" ELSE "panicked",
             received' = received
      PROVE  Inv'
  <2>1. phase' \in {"rejected", "panicked"} /\ received' = <<>> /\ Len(received') = 0
    BY <1>3, <1>8
  <2>2. TypeOK'
    BY <1>1, <1>2, <1>3, <1>6, <2>1 DEF Inv, TypeOK
  <2>3. i \in DOMAIN rows /\ Stops(i)
    BY <1>3
  <2>4. Breaks(i, rows[i])
    BY <1>3, <2>3 DEF ReadsBack
  <2>5. (\E j \in DOMAIN rows : Breaks(j, rows[j]))'
    <3>1. Breaks(i, rows[i])' <=> Breaks(i, rows[i])
      BY <1>1 DEF Breaks
    <3> QED BY <1>1, <2>3, <2>4, <3>1
  <2>6. Built' /\ BatchesReadBack'
    BY <2>1, <2>5 DEF Built, BatchesReadBack
  <2> QED BY <2>2, <2>6 DEF Inv
<1> HIDE DEF first
<1> QED BY <1>5, <1>7, <1>8

LEMMA StutterInv == Inv /\ UNCHANGED vars => Inv'
<1> SUFFICES ASSUME Inv, UNCHANGED vars PROVE Inv'
  OBVIOUS
<1>1. /\ kind' = kind /\ columns' = columns /\ batches' = batches /\ rows' = rows
      /\ record' = record /\ received' = received /\ phase' = phase
  BY DEF vars
<1>2. /\ Optional' = Optional
      /\ \A row : AppendRow(row)' = AppendRow(row)
      /\ \A row : Kept(row)' = Kept(row)
      /\ \A i, row : Breaks(i, row)' <=> Breaks(i, row)
      /\ \A i, row, cells : ReadsBack(i, row, cells)' <=> ReadsBack(i, row, cells)
  BY <1>1, KindStays
<1>3. TypeOK'
  BY <1>1, <1>2 DEF Inv, TypeOK, InAbsent
<1>4. Built'
  BY <1>1, <1>2 DEF Inv, Built
<1>5. BatchesReadBack'
  BY <1>1, <1>2 DEF Inv, BatchesReadBack
<1> QED BY <1>3, <1>4, <1>5 DEF Inv

LEMMA Invariant == Spec => []Inv
<1>1. Inv /\ [Next]_vars => Inv'
  BY TakeInv, UpdateSchemaInv, BuildInv, ReadInv, StutterInv DEF Next
<1> QED BY <1>1, InitInv, PTL DEF Spec

-----------------------------------------------------------------------------
(***************************************************************************)
(* The results.                                                            *)
(***************************************************************************)

\* A schema update adds columns the kind has, a nested one with the one it is
\* in, and a record and what is read of it have the rows of the batch: the
\* types of the builders' state (recordBuilder, TryBuild).
THEOREM TypeCorrect == Spec => []TypeOK
<1>1. Inv => TypeOK
  BY DEF Inv
<1> QED BY <1>1, Invariant, PTL

\* What the builders write of a row, the decoder of its kind reads back, field
\* by field and for all values, but for the losses Kept names; and it
\* stops only at rows that Breaks names, an empty key in the first row of
\* attributes among them.
THEOREM ReadBack == Spec => []BatchesReadBack
<1>1. Inv => BatchesReadBack
  BY DEF Inv
<1> QED BY <1>1, Invariant, PTL
=============================================================================
