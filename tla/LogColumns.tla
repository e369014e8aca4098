----------------------------- MODULE LogColumns -----------------------------
(***************************************************************************)
(* The columns of log records (pkg/otel/logs).  The body is a struct with  *)
(* the columns of a value.                                                 *)
(***************************************************************************)
EXTENDS CommonColumns

LogOptional ==
  {"trace_id", "span_id", "severity_number", "severity_text", "int", "double", "bool",
   "bytes", "ser", "dropped_attributes_count", "flags"}

NoBody == With([c \in {"body", "type"} |-> AppendNull], NoValue)

AppendBody(body) ==
  IF body[1] = EmptyType THEN NoBody ELSE With([body |-> StructAppend], AppendValue(body))

AppendLog(log) ==
  With([time            |-> TimestampAppend(log.time),
        observed_time   |-> TimestampAppend(log.observed_time),
        trace_id        |-> FixedSizeBinaryAppend(log.trace_id),
        span_id         |-> FixedSizeBinaryAppend(log.span_id),
        severity_number |-> Int32AppendNonZero(log.severity_number),
        severity_text   |-> StringAppendNonEmpty(log.severity_text),
        dropped_attributes_count |-> Uint32AppendNonZero(log.dropped_attributes_count),
        flags           |-> Uint32Append(log.flags)],
       AppendBody(log.body))

LogIDs ==
  {"time", "observed_time", "trace_id", "span_id", "severity_number", "severity_text",
   "body", "type", "str", "int", "double", "bool", "bytes", "ser",
   "dropped_attributes_count", "flags"}

LogRejected(row) ==
  LET c == Fields(row, LogIDs) IN Null \in {c.trace_id, c.span_id}

\* The type of the body is read from its struct, which is nil if it is null.
LogPanics(row) == StructFromRecord(Fields(row, LogIDs).body) = Null

BodyFrom(c) ==
  LET type == U8FromStruct(c.type)
  IN  CASE type = StrType    -> <<StrType, StringFromStruct(c.str)>>
        [] type = IntType    -> <<IntType, I64FromStruct(c.int)>>
        [] type = DoubleType -> <<DoubleType, F64FromStruct(c.double)>>
        [] type = BoolType   -> <<BoolType, BoolFromStruct(c.bool)>>
        [] type = BytesType  -> <<BytesType, BinaryFromStruct(c.bytes)>>
        [] type \in {MapType, SliceType} -> Deserialize(BinaryFromStruct(c.ser))
        [] OTHER -> EmptyValue

LogFrom(row) ==
  LET c == Fields(row, LogIDs)
  IN  [time            |-> TimestampFromRecord(c.time),
       observed_time   |-> TimestampFromRecord(c.observed_time),
       trace_id        |-> FixedSizeBinaryFromRecord(c.trace_id),
       span_id         |-> FixedSizeBinaryFromRecord(c.span_id),
       severity_number |-> I32FromRecord(c.severity_number),
       severity_text   |-> StringFromRecord(c.severity_text),
       body            |-> BodyFrom(c),
       dropped_attributes_count |-> U32FromRecord(c.dropped_attributes_count),
       flags           |-> U32FromRecord(c.flags)]
=============================================================================
