------------------------------- MODULE Traces -------------------------------
(***************************************************************************)
(* Traces to records and back (pkg/otel/traces/arrow, pkg/otel/traces/     *)
(* otlp).  A batch is a sequence of resources with scopes with spans.  A   *)
(* span has a name, a trace id, attributes, events and links; data stands  *)
(* for its other fields.  Events are grouped by name and links by trace id.*)
(***************************************************************************)
EXTENDS ResourceScope

-----------------------------------------------------------------------------
(***************************************************************************)
(* Encoding.                                                               *)
(***************************************************************************)

SpanLess(a, b) ==
  IF a.resID # b.resID THEN StringLess(a.resID, b.resID)
  ELSE IF a.scopeID # b.scopeID THEN StringLess(a.scopeID, b.scopeID)
  ELSE IF a.entry.name # b.entry.name THEN a.entry.name < b.entry.name
  ELSE a.entry.trace < b.entry.trace

OptimizeTraces(traces) ==
  SortRows(SpanLess,
    FlattenSeq([i \in DOMAIN traces |->
      LET resSpan == traces[i] IN
      FlattenSeq([j \in DOMAIN resSpan.scopes |->
        LET scopeSpan == resSpan.scopes[j] IN
        [k \in DOMAIN scopeSpan.entries |->
           [resID    |-> ResourceID(resSpan.resource),
            resource |-> resSpan.resource,
            scopeID  |-> ScopeID(scopeSpan.scope),
            scope    |-> scopeSpan.scope,
            entry    |-> scopeSpan.entries[k]]]])]))

HasRelatedData(span) ==
  span.attrs # <<>> \/ span.events # <<>> \/ span.links # <<>>

SpanIds(spans) ==
  SparseIds([i \in DOMAIN spans |-> HasRelatedData(spans[i].entry)], MaxUint16)

AppendEvents(spanID, events) ==
  Group([k \in DOMAIN events |->
    [parent |-> spanID, attrs |-> events[k].attrs,
     cols |-> [name |-> events[k].name, data |-> events[k].data]]])

AppendLinks(spanID, links) ==
  Group([k \in DOMAIN links |->
    [parent |-> spanID, attrs |-> links[k].attrs,
     cols |-> [trace |-> links[k].trace, data |-> links[k].data]]])

\* The main record of optimized spans, and what goes to the accumulators.
AppendTraces(spans) ==
  LET ids == SpanIds(spans)
      main == Main(spans, ids)
      attrs == Filled(NewAccumulator, [i \in DOMAIN spans |->
                        AppendWithID(ids[i], spans[i].entry.attrs)])
      events == Filled(NewAccumulator, [i \in DOMAIN spans |->
                         AppendEvents(ids[i], spans[i].entry.events)])
      links == Filled(NewAccumulator, [i \in DOMAIN spans |->
                        AppendLinks(ids[i], spans[i].entry.links)])
  IN  [ids |-> main.ids, resources |-> main.resources, scopes |-> main.scopes,
       data |-> [i \in DOMAIN spans |-> spans[i].entry.data],
       accu |-> [RESOURCE_ATTRS |-> main.resAttrs, SCOPE_ATTRS |-> main.scopeAttrs,
                 SPAN_ATTRS |-> attrs, SPAN_EVENTS |-> events, SPAN_LINKS |-> links],
       panics |-> \/ main.panics
                  \/ \E accu \in {attrs, events, links} : TooManyGroups16(accu)]

-----------------------------------------------------------------------------
(***************************************************************************)
(* Related records.  Events are sorted by name and parent, links by trace  *)
(* id and parent.                                                          *)
(***************************************************************************)

EventLess(a, b) ==
  IF a.cols.name # b.cols.name THEN a.cols.name < b.cols.name
  ELSE a.parent < b.parent

SameName(a, b) == a.cols.name = b.cols.name

LinkLess(a, b) ==
  IF a.cols.trace # b.cols.trace THEN a.cols.trace < b.cols.trace
  ELSE a.parent < b.parent

SameTrace(a, b) == a.cols.trace = b.cols.trace

TryBuildEvents(accu, prev, attrs) ==
  TryBuild(EventLess, SameName, IdsIfAttrs, MaxUint16, accu, prev, attrs)

TryBuildLinks(accu, prev, attrs) ==
  TryBuild(LinkLess, SameTrace, IdsIfAttrs, MaxUint16, accu, prev, attrs)

-----------------------------------------------------------------------------
(***************************************************************************)
(* Decoding.                                                               *)
(***************************************************************************)

DecodedSameName(a, b) == a.cols.name = b.cols.name

DecodedSameTrace(a, b) == a.cols.trace = b.cols.trace

SpanEventsStoreFrom(rows, attrsStore) ==
  ListsOf(DecodeParents(DecodedSameName, rows, MaxUint16),
          [i \in DOMAIN rows |->
             [name |-> rows[i].cols.name, data |-> rows[i].cols.data,
              attrs |-> AttributesByDeltaID32(attrsStore, IdsOf(rows), i)]])

SpanLinksStoreFrom(rows, attrsStore) ==
  ListsOf(DecodeParents(DecodedSameTrace, rows, MaxUint16),
          [i \in DOMAIN rows |->
             [trace |-> rows[i].cols.trace, data |-> rows[i].cols.data,
              attrs |-> AttributesByDeltaID32(attrsStore, IdsOf(rows), i)]])

EventsByID(store, ID) == ListByID(store, ID)

LinksByID(store, ID) == ListByID(store, ID)

\* Mutant: a null id counts as one.
NullIsOne(main, i) ==
  (Sum(main.ids, DOMAIN main.ids, i, MaxUint16)
     + Cardinality({j \in 1..i : main.ids[j] = Null})) % (MaxUint16 + 1)

SpanIDFromDelta(main, i) == Sum(main.ids, DOMAIN main.ids, i, MaxUint16)

\* The stores, from the records that were received.
TracesRelatedDataFrom(records) ==
  [resource |-> Attributes16StoreFrom(records["RESOURCE_ATTRS"]),
   scope    |-> Attributes16StoreFrom(records["SCOPE_ATTRS"]),
   attrs    |-> Attributes16StoreFrom(records["SPAN_ATTRS"]),
   events   |-> SpanEventsStoreFrom(records["SPAN_EVENTS"],
                  Attributes32StoreFrom(records["SPAN_EVENT_ATTRS"])),
   links    |-> SpanLinksStoreFrom(records["SPAN_LINKS"],
                  Attributes32StoreFrom(records["SPAN_LINK_ATTRS"]))]

\* The spans, in the order of the rows.
TracesFrom(main, related) ==
  LET ids == [i \in DOMAIN main.ids |-> SpanIDFromDelta(main, i)]
  IN  [i \in DOMAIN ids |->
         [place |-> Place(main.resources, main.scopes, related.resource,
                          related.scope, i),
          data   |-> main.data[i],
          attrs  |-> AttributesByID(related.attrs, ids[i]),
          events |-> MovedEach(EventsByID(related.events, ids[i]), ids, i),
          links  |-> MovedEach(LinksByID(related.links, ids[i]), ids, i)]]
=============================================================================
