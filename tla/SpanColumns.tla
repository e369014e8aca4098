---------------------------- MODULE SpanColumns ----------------------------
(***************************************************************************)
(* The columns of spans, span events and span links (pkg/otel/traces).     *)
(***************************************************************************)
EXTENDS CommonColumns

SpanOptional ==
  {"trace_state", "parent_span_id", "kind", "dropped_attributes_count",
   "dropped_events_count", "dropped_links_count", "status"}

StatusOptional == {"status_code", "status_message"}

AppendStatus(span) ==
  [status         |-> StructAppend,
   status_code    |-> Int32AppendNonZero(span.status_code),
   status_message |-> StringAppendNonEmpty(span.status_message)]

AppendSpan(span) ==
  With([start_time     |-> TimestampAppend(span.start_time),
        duration       |-> DurationAppend(span.end_time - span.start_time),
        trace_id       |-> FixedSizeBinaryAppend(span.trace_id),
        span_id        |-> FixedSizeBinaryAppend(span.span_id),
        trace_state    |-> StringAppendNonEmpty(span.trace_state),
        parent_span_id |-> FixedSizeBinaryAppend(span.parent_span_id),
        name           |-> StringAppendNonEmpty(span.name),
        kind           |-> Int32AppendNonZero(span.kind),
        dropped_attributes_count |-> Uint32AppendNonZero(span.dropped_attributes_count),
        dropped_events_count     |-> Uint32AppendNonZero(span.dropped_events_count),
        dropped_links_count      |-> Uint32AppendNonZero(span.dropped_links_count)],
       AppendStatus(span))

StatusIDs == {"status", "status_code", "status_message"}

SpanIDs ==
  {"start_time", "duration", "trace_id", "span_id", "trace_state", "parent_span_id",
   "name", "kind", "dropped_attributes_count", "dropped_events_count",
   "dropped_links_count"} \cup StatusIDs

\* Ids must be there, except the parent's.
SpanRejected(row) ==
  LET c == Fields(row, SpanIDs) IN Null \in {c.trace_id, c.span_id}

SpanFrom(row) ==
  LET c == Fields(row, SpanIDs)
      start == TimestampFromRecord(c.start_time)
      status == StructFromRecord(c.status)
  IN  [start_time     |-> start,
       end_time       |-> start + DurationFromRecord(c.duration),
       trace_id       |-> FixedSizeBinaryFromRecord(c.trace_id),
       span_id        |-> FixedSizeBinaryFromRecord(c.span_id),
       trace_state    |-> StringFromRecord(c.trace_state),
       parent_span_id |-> OrZero(FixedSizeBinaryFromRecord(c.parent_span_id)),
       name           |-> StringFromRecord(c.name),
       kind           |-> I32FromRecord(c.kind),
       dropped_attributes_count |-> U32FromRecord(c.dropped_attributes_count),
       dropped_events_count     |-> U32FromRecord(c.dropped_events_count),
       dropped_links_count      |-> U32FromRecord(c.dropped_links_count),
       status_code    |-> IF status = Null THEN 0 ELSE I32FromStruct(c.status_code),
       status_message |-> IF status = Null THEN 0 ELSE StringFromStruct(c.status_message)]

-----------------------------------------------------------------------------
EventOptional == {"time", "dropped_attributes_count"}

AppendEvent(event) ==
  [time |-> TimestampAppend(event.time),
   name |-> StringAppendNonEmpty(event.name),
   dropped_attributes_count |-> Uint32AppendNonZero(event.dropped_attributes_count)]

EventIDs == {"time", "name", "dropped_attributes_count"}

EventFrom(row) ==
  LET c == Fields(row, EventIDs)
  IN  [time |-> TimestampFromRecord(c.time),
       name |-> StringFromRecord(c.name),
       dropped_attributes_count |-> U32FromRecord(c.dropped_attributes_count)]

LinkOptional == {"trace_id", "span_id", "trace_state", "dropped_attributes_count"}

AppendLink(link) ==
  [trace_id    |-> FixedSizeBinaryAppend(link.trace_id),
   span_id     |-> FixedSizeBinaryAppend(link.span_id),
   trace_state |-> StringAppendNonEmpty(link.trace_state),
   dropped_attributes_count |-> Uint32AppendNonZero(link.dropped_attributes_count)]

LinkIDs == {"trace_id", "span_id", "trace_state", "dropped_attributes_count"}

\* An id that is missing is copied as zeros.
LinkFrom(row) ==
  LET c == Fields(row, LinkIDs)
  IN  [trace_id    |-> OrZero(FixedSizeBinaryFieldByIDFromRecord(c.trace_id)),
       span_id     |-> OrZero(FixedSizeBinaryFieldByIDFromRecord(c.span_id)),
       trace_state |-> StringFromRecord(c.trace_state),
       dropped_attributes_count |-> U32FromRecord(c.dropped_attributes_count)]
=============================================================================
