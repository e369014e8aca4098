------------------------------ MODULE Metrics ------------------------------
(***************************************************************************)
(* Metrics to records and back (pkg/otel/metrics/arrow, pkg/otel/metrics/  *)
(* otlp).  A metric has a type, a name and data points; a data point has   *)
(* attributes and, unless it is of a summary, exemplars; an exemplar has a *)
(* value and attributes.  data stands for their other fields.              *)
(***************************************************************************)
EXTENDS ResourceScope

\* The numbers of pmetric's metric types.
Gauge == 1
SumMetric == 2
Histogram == 3
ExponentialHistogram == 4
Summary == 5

-----------------------------------------------------------------------------
(***************************************************************************)
(* Encoding.                                                               *)
(***************************************************************************)

MetricLess(a, b) ==
  IF a.resID # b.resID THEN StringLess(a.resID, b.resID)
  ELSE IF a.scopeID # b.scopeID THEN StringLess(a.scopeID, b.scopeID)
  ELSE IF a.entry.type # b.entry.type THEN a.entry.type < b.entry.type
  ELSE a.entry.name < b.entry.name

OptimizeMetrics(metrics) ==
  SortRows(MetricLess,
    FlattenSeq([i \in DOMAIN metrics |->
      LET resMetrics == metrics[i]
          resMetricID == ResourceID(resMetrics.resource)
      IN  FlattenSeq([j \in DOMAIN resMetrics.scopes |->
            LET scopeMetrics == resMetrics.scopes[j] IN
            [k \in DOMAIN scopeMetrics.entries |->
               [resID    |-> resMetricID,
                resource |-> resMetrics.resource,
                scopeID  |-> ScopeID(scopeMetrics.scope),
                scope    |-> scopeMetrics.scope,
                entry    |-> scopeMetrics.entries[k]]]])]))

DPRow(metricID, dp) ==
  [parent |-> metricID, attrs |-> dp.attrs, exemplars |-> dp.exemplars,
   cols |-> [data |-> dp.data]]

\* One by one, without a limit on the number of groups.
AppendNumberDPs(metricID, dps) ==
  [rows |-> [k \in DOMAIN dps |-> DPRow(metricID, dps[k])], groups |-> 0]

AppendSummaries(metricID, dps) ==
  Group([k \in DOMAIN dps |-> DPRow(metricID, dps[k])])

AppendHistograms(metricID, dps) ==
  Group([k \in DOMAIN dps |-> DPRow(metricID, dps[k])])

AppendEHistograms(metricID, dps) ==
  Group([k \in DOMAIN dps |-> DPRow(metricID, dps[k])])

\* The main record of optimized metrics, and what goes to the accumulators.
\* Every metric has an id.
AppendMetrics(metrics) ==
  LET ids == DenseIds(metrics, MaxUint16)
      main == Main(metrics, ids)
      Fill(Add(_, _), types) ==
        Filled(NewAccumulator, [i \in DOMAIN metrics |->
                 IF metrics[i].entry.type \in types
                 THEN Add(ids[i], metrics[i].entry.dps) ELSE NewAccumulator])
      summaries == Fill(AppendSummaries, {Summary})
      histograms == Fill(AppendHistograms, {Histogram})
      ehistograms == Fill(AppendEHistograms, {ExponentialHistogram})
  IN  [ids |-> main.ids, resources |-> main.resources, scopes |-> main.scopes,
       data |-> [i \in DOMAIN metrics |->
                   [type |-> metrics[i].entry.type, data |-> metrics[i].entry.data]],
       accu |-> [RESOURCE_ATTRS |-> main.resAttrs, SCOPE_ATTRS |-> main.scopeAttrs,
                 NUMBER_DATA_POINTS |-> Fill(AppendNumberDPs, {Gauge, SumMetric}),
                 SUMMARY_DATA_POINTS |-> summaries,
                 HISTOGRAM_DATA_POINTS |-> histograms,
                 EXP_HISTOGRAM_DATA_POINTS |-> ehistograms],
       panics |-> \/ main.panics
                  \/ \E accu \in {summaries, histograms, ehistograms} :
                       TooManyGroups32(accu)]

-----------------------------------------------------------------------------
(***************************************************************************)
(* Exemplars, sorted by type, value and parent.                            *)
(***************************************************************************)

AppendExemplars(dpID, exemplars) ==
  Group([k \in DOMAIN exemplars |->
    [parent |-> dpID, attrs |-> exemplars[k].attrs,
     cols |-> [value |-> exemplars[k].value, data |-> exemplars[k].data]]])

\* Exemplars without a value keep their order.
ExemplarLess(a, b) ==
  LET u == a.cols.value
      v == b.cols.value
  IN  IF ~SameType(u, v) THEN u[1] < v[1]
      ELSE /\ u[1] # EmptyType
           /\ IF u = v THEN a.parent < b.parent ELSE u[2] < v[2]

EqualExemplar(a, b) == a.cols.value = b.cols.value

TryBuildExemplars(accu, prev, attrs) ==
  TryBuild(ExemplarLess, EqualExemplar, IdsIfAttrs, MaxUint32, accu, prev, attrs)

-----------------------------------------------------------------------------
(***************************************************************************)
(* Data points, sorted by parent.  A try to build their record empties the *)
(* accumulator of their attributes, but not that of their exemplars.       *)
(***************************************************************************)

ParentLess(a, b) == a.parent < b.parent

AnyGroup(a, b) == TRUE

DPIds(rows) == DenseIds(rows, MaxUint32)

TryBuildDPs(accu, prev, attrs, exemplars) ==
  LET built == TryBuild(ParentLess, AnyGroup, DPIds, MaxUint16, accu, prev, attrs)
      sorted == SortRows(ParentLess, accu.rows)
      all == Filled(exemplars, [k \in DOMAIN sorted |->
                      AppendExemplars(k - 1, sorted[k].exemplars)])
  IN  [rows |-> built.rows, prev |-> built.prev, attrs |-> built.attrs,
       exemplars |-> all, panics |-> built.panics \/ TooManyGroups32(all)]

TryBuildNumberDPs(accu, prev, attrs, exemplars) ==
  TryBuildDPs(accu, prev, attrs, exemplars)

TryBuildHistograms(accu, prev, attrs, exemplars) ==
  TryBuildDPs(accu, prev, attrs, exemplars)

TryBuildEHistograms(accu, prev, attrs, exemplars) ==
  TryBuildDPs(accu, prev, attrs, exemplars)

TryBuildSummaries(accu, prev, attrs) ==
  TryBuild(ParentLess, AnyGroup, DPIds, MaxUint16, accu, prev, attrs)

-----------------------------------------------------------------------------
(***************************************************************************)
(* Decoding.                                                               *)
(***************************************************************************)

\* Without a value, the parent is told from the row before, whatever its value.
DecodedSameValue(a, b) ==
  b.cols.value[1] = EmptyType \/ a.cols.value = b.cols.value

ExemplarsStoreFrom(rows, attrsStore) ==
  ListsOf(DecodeParents(DecodedSameValue, rows, MaxUint32),
          [i \in DOMAIN rows |->
             [value |-> rows[i].cols.value, data |-> rows[i].cols.data,
              attrs |-> AttributesByDeltaID32(attrsStore, IdsOf(rows), i)]])

ExemplarsByID(store, ID) == ListByID(store, ID)

DPParents(rows) == DecodeParents(AnyGroup, rows, MaxUint16)

\* Exemplars are looked up with the id as it is in the column, a difference.
NumberDataPointsStoreFrom(rows, exemplars, attrsStore) ==
  LET ids == IdsOf(rows) IN
  ListsOf(DPParents(rows),
          [i \in DOMAIN rows |->
             [data |-> rows[i].cols.data,
              attrs |-> AttributesByDeltaID32(attrsStore, ids, i),
              exemplars |-> MovedAll(ExemplarsByID(exemplars, ids[i]), ids, i)]])

HistogramDataPointsStoreFrom(rows, exemplars, attrsStore) ==
  LET ids == IdsOf(rows) IN
  ListsOf(DPParents(rows),
          [i \in DOMAIN rows |->
             [data |-> rows[i].cols.data,
              attrs |-> AttributesByDeltaID32(attrsStore, ids, i),
              exemplars |-> MovedAll(ExemplarsByID(exemplars, ids[i]), ids, i)]])

\* Mutant: the same for exponential histograms.
EHistogramsByDelta(rows, exemplars, attrsStore) ==
  HistogramDataPointsStoreFrom(rows, exemplars, attrsStore)

\* Only here are the differences added up.
EHistogramDataPointsStoreFrom(rows, exemplars, attrsStore) ==
  LET ids == [i \in DOMAIN rows |-> Sum(IdsOf(rows), DOMAIN rows, i, MaxUint32)] IN
  ListsOf(DPParents(rows),
          [i \in DOMAIN rows |->
             [data |-> rows[i].cols.data,
              attrs |-> AttributesByID32(attrsStore, ids[i]),
              exemplars |-> MovedAll(ExemplarsByID(exemplars, ids[i]), ids, i)]])

SummaryDataPointsStoreFrom(rows, attrsStore) ==
  ListsOf(DPParents(rows),
          [i \in DOMAIN rows |->
             [data |-> rows[i].cols.data,
              attrs |-> AttributesByDeltaID32(attrsStore, IdsOf(rows), i),
              exemplars |-> <<>>]])

NumberDataPointsByID(store, ID) == ListByID(store, ID)

SummaryMetricsByID(store, ID) == ListByID(store, ID)

HistogramMetricsByID(store, ID) == ListByID(store, ID)

EHistogramMetricsByID(store, ID) == ListByID(store, ID)

\* Mutant: the difference is taken for the id.
MetricIDIsDelta(main, i) == main.ids[i]

MetricIDFromDelta(main, i) == Sum(main.ids, DOMAIN main.ids, i, MaxUint16)

\* The stores, from the records that were received.
MetricsRelatedDataFrom(records) ==
  LET Attrs(type) == Attributes32StoreFrom(records[type])
      Exemplars(type, attrs) == ExemplarsStoreFrom(records[type], Attrs(attrs))
  IN  [resource |-> Attributes16StoreFrom(records["RESOURCE_ATTRS"]),
       scope    |-> Attributes16StoreFrom(records["SCOPE_ATTRS"]),
       numbers  |-> NumberDataPointsStoreFrom(records["NUMBER_DATA_POINTS"],
                      Exemplars("NUMBER_DP_EXEMPLARS", "NUMBER_DP_EXEMPLAR_ATTRS"),
                      Attrs("NUMBER_DP_ATTRS")),
       summaries |-> SummaryDataPointsStoreFrom(records["SUMMARY_DATA_POINTS"],
                       Attrs("SUMMARY_DP_ATTRS")),
       histograms |-> HistogramDataPointsStoreFrom(records["HISTOGRAM_DATA_POINTS"],
                        Exemplars("HISTOGRAM_DP_EXEMPLARS", "HISTOGRAM_DP_EXEMPLAR_ATTRS"),
                        Attrs("HISTOGRAM_DP_ATTRS")),
       ehistograms |-> EHistogramDataPointsStoreFrom(records["EXP_HISTOGRAM_DATA_POINTS"],
                         Exemplars("EXP_HISTOGRAM_DP_EXEMPLARS",
                                   "EXP_HISTOGRAM_DP_EXEMPLAR_ATTRS"),
                         Attrs("EXP_HISTOGRAM_DP_ATTRS"))]

\* The metrics, in the order of the rows.
MetricsFrom(main, related) ==
  [i \in DOMAIN main.ids |->
     LET ID == MetricIDFromDelta(main, i)
         type == main.data[i].type
         dps == CASE type \in {Gauge, SumMetric} -> NumberDataPointsByID(related.numbers, ID)
                  [] type = Summary -> SummaryMetricsByID(related.summaries, ID)
                  [] type = Histogram -> HistogramMetricsByID(related.histograms, ID)
                  [] type = ExponentialHistogram ->
                       EHistogramMetricsByID(related.ehistograms, ID)
                  [] OTHER -> <<>>
     IN  [place |-> Place(main.resources, main.scopes, related.resource,
                          related.scope, i),
          data |-> main.data[i],
          dps  |-> dps]]
=============================================================================
