--------------------------- MODULE SignalsProofs ---------------------------
(***************************************************************************)
(* Theorems about Signals for all batches, all widths of the id columns    *)
(* and any number of schema updates: what is built from a batch depends on *)
(* the batch alone, it panics only when there is too much of it, and what  *)
(* the related records carry arrives under its owner.                      *)
(***************************************************************************)
EXTENDS Signals, RecordsProofs

-----------------------------------------------------------------------------
(***************************************************************************)
(* Batches.                                                                *)
(***************************************************************************)

\* The lists of a batch are lists...
LEMMA ListsAre ==
  ASSUME NEW s, IsList(s) PROVE List(s)
BY ListFrom DEF IsList

\* ... and its attributes keys with values.
LEMMA AttrsAre ==
  ASSUME NEW attrs, IsAttrs(attrs) PROVE AttrList(attrs)
BY ListsAre DEF IsAttrs, AttrList

\* A row of a batch of this signal.
RowOK(s, row) ==
  AttrList(row.resource.attrs) /\ AttrList(row.scope.attrs) /\ IsEntry(s, row.entry)

\* The rows of a batch after it was optimized.
SentOK(s, rows) == List(rows) /\ \A row \in Range(rows) : RowOK(s, row)

\* A batch whose every list is one.
ScopeOK(s, scope) ==
  /\ AttrList(scope.scope.attrs)
  /\ List(scope.entries) /\ \A entry \in Range(scope.entries) : IsEntry(s, entry)

\* The same for a resource and for a whole batch.
ResourceOK(s, resource) ==
  /\ AttrList(resource.resource.attrs)
  /\ List(resource.scopes) /\ \A scope \in Range(resource.scopes) : ScopeOK(s, scope)

BatchOK(s, batch) == List(batch) /\ \A resource \in Range(batch) : ResourceOK(s, resource)

\* A batch that may be sent, in terms of lists.
LEMMA BatchesAre ==
  ASSUME NEW s, NEW batch, IsBatch(s, batch) PROVE BatchOK(s, batch)
<1>1. ASSUME NEW scope, IsScope(s, scope) PROVE ScopeOK(s, scope)
  BY <1>1, AttrsAre, ListsAre DEF IsScope, ScopeOK
<1>2. ASSUME NEW resource, IsResource(s, resource) PROVE ResourceOK(s, resource)
  BY <1>1, <1>2, AttrsAre, ListsAre DEF IsResource, ResourceOK
<1> QED
  BY <1>2, ListsAre DEF IsBatch, BatchOK

\* The rows of lists of rows.
LEMMA FlattenOK ==
  ASSUME NEW s, NEW seqs, List(seqs), \A i \in 1..Len(seqs) : SentOK(s, seqs[i])
  PROVE  SentOK(s, FlattenSeq(seqs))
<1>1. Lists2(seqs)
  BY DEF Lists2, SentOK
<1>2. /\ List(FlattenSeq(seqs))
      /\ \A x : x \in Range(FlattenSeq(seqs)) <=> \E i \in 1..Len(seqs) : x \in Range(seqs[i])
  BY <1>1, FlattenIs
<1> QED
  BY <1>2 DEF SentOK

\* A list of the same length as another.
LEMMA MapIsList ==
  ASSUME NEW s, List(s), NEW t, DOMAIN t = DOMAIN s, t = [i \in DOMAIN s |-> t[i]]
  PROVE  List(t) /\ Len(t) = Len(s)
<1>1. PICK n \in Nat : n = Len(s)
  BY DEF List
<1>2. DOMAIN s = 1..n
  BY <1>1, ListDomain
<1>3. t = [i \in 1..n |-> t[i]]
  BY <1>2
<1> QED
  BY <1>1, <1>3, ListIs

\* Sorting keeps the rows of a batch.
LEMMA SortedOK ==
  ASSUME NEW s, NEW rows, SentOK(s, rows), NEW sorted, Permuted(sorted, rows)
  PROVE  SentOK(s, sorted)
BY PermutedIs DEF SentOK


\* TracesOptimizer.Optimize loses no structure...
LEMMA TracesOptimized ==
  ASSUME NEW batch, BatchOK("traces", batch)
  PROVE  SentOK("traces", OptimizeTraces(batch))
<1> DEFINE EntryRow(i, j, k) ==
             [resID    |-> ResourceID(batch[i].resource),
              resource |-> batch[i].resource,
              scopeID  |-> ScopeID(batch[i].scopes[j].scope),
              scope    |-> batch[i].scopes[j].scope,
              entry    |-> batch[i].scopes[j].entries[k]]
           entries(i, j) ==
             [k \in DOMAIN batch[i].scopes[j].entries |-> EntryRow(i, j, k)]
           scopes(i) == FlattenSeq([j \in DOMAIN batch[i].scopes |-> entries(i, j)])
           all == FlattenSeq([i \in DOMAIN batch |-> scopes(i)])
           before == {p \in (DOMAIN all) \X (DOMAIN all) : SpanLess(all[p[1]], all[p[2]])}
<1>1. OptimizeTraces(batch) = Sorted(before, all)
  BY DEF OptimizeTraces, SortRows
<1>2. \A i \in DOMAIN batch : ResourceOK("traces", batch[i])
  BY DEF BatchOK, Range
<1>3. ASSUME NEW i \in DOMAIN batch PROVE SentOK("traces", scopes(i))
  <2>1. /\ List(batch[i].scopes)
        /\ \A j \in DOMAIN batch[i].scopes : ScopeOK("traces", batch[i].scopes[j])
    BY <1>2 DEF ResourceOK, Range
  <2>2. ASSUME NEW j \in DOMAIN batch[i].scopes PROVE SentOK("traces", entries(i, j))
    <3>1. List(batch[i].scopes[j].entries)
          /\ \A k \in DOMAIN batch[i].scopes[j].entries :
                IsEntry("traces", batch[i].scopes[j].entries[k])
      BY <2>1 DEF ScopeOK, Range
    <3>2. AttrList(batch[i].resource.attrs) /\ AttrList(batch[i].scopes[j].scope.attrs)
      BY <1>2, <2>1, SMTT(30) DEF ResourceOK, ScopeOK
    <3>3. \A k \in DOMAIN entries(i, j) : RowOK("traces", entries(i, j)[k])
      BY <3>1, <3>2 DEF RowOK
    <3>4. List(entries(i, j))
      BY <3>1, MapIsList
    <3> HIDE DEF entries
    <3> QED
      BY <3>3, <3>4 DEF SentOK, Range
  <2> DEFINE lists == [j \in DOMAIN batch[i].scopes |-> entries(i, j)]
  <2>3. lists = [j \in DOMAIN lists |-> lists[j]] /\ DOMAIN lists = DOMAIN batch[i].scopes
        /\ \A j \in DOMAIN batch[i].scopes : SentOK("traces", lists[j])
    BY <2>2
  <2> HIDE DEF lists
  <2>4. List(lists) /\ Len(lists) = Len(batch[i].scopes)
    BY <2>1, <2>3, MapIsList
  <2>5. \A j \in 1..Len(lists) : SentOK("traces", lists[j])
    BY <2>1, <2>3, <2>4, ListDomain
  <2>6. SentOK("traces", FlattenSeq(lists))
    BY <2>4, <2>5, FlattenOK
  <2> QED
    BY <2>6 DEF lists
<1> DEFINE lists == [i \in DOMAIN batch |-> scopes(i)]
<1>4. lists = [i \in DOMAIN lists |-> lists[i]] /\ DOMAIN lists = DOMAIN batch
      /\ \A i \in DOMAIN batch : SentOK("traces", lists[i])
  <2> HIDE DEF scopes
  <2> QED
    BY <1>3
<1>5. List(batch)
  BY DEF BatchOK
<1>6. SentOK("traces", all)
  <2>1. all = FlattenSeq(lists)
    OBVIOUS
  <2> HIDE DEF lists, all
  <2>2. List(lists) /\ Len(lists) = Len(batch)
    BY <1>4, <1>5, MapIsList
  <2>3. \A i \in 1..Len(lists) : SentOK("traces", lists[i])
    BY <1>4, <1>5, <2>2, ListDomain
  <2> QED
    BY <2>1, <2>2, <2>3, FlattenOK
<1> HIDE DEF all, before
<1>7. Permuted(Sorted(before, all), all)
  BY <1>6, SortedPermutes DEF SentOK
<1> QED
  BY <1>1, <1>6, <1>7, SortedOK

\* ... nor does MetricsOptimizer.Optimize...
LEMMA MetricsOptimized ==
  ASSUME NEW batch, BatchOK("metrics", batch)
  PROVE  SentOK("metrics", OptimizeMetrics(batch))
<1> DEFINE EntryRow(i, j, k) ==
             [resID    |-> ResourceID(batch[i].resource),
              resource |-> batch[i].resource,
              scopeID  |-> ScopeID(batch[i].scopes[j].scope),
              scope    |-> batch[i].scopes[j].scope,
              entry    |-> batch[i].scopes[j].entries[k]]
           entries(i, j) ==
             [k \in DOMAIN batch[i].scopes[j].entries |-> EntryRow(i, j, k)]
           scopes(i) == FlattenSeq([j \in DOMAIN batch[i].scopes |-> entries(i, j)])
           all == FlattenSeq([i \in DOMAIN batch |-> scopes(i)])
           before == {p \in (DOMAIN all) \X (DOMAIN all) : MetricLess(all[p[1]], all[p[2]])}
<1>1. OptimizeMetrics(batch) = Sorted(before, all)
  BY DEF OptimizeMetrics, SortRows
<1>2. \A i \in DOMAIN batch : ResourceOK("metrics", batch[i])
  BY DEF BatchOK, Range
<1>3. ASSUME NEW i \in DOMAIN batch PROVE SentOK("metrics", scopes(i))
  <2>1. /\ List(batch[i].scopes)
        /\ \A j \in DOMAIN batch[i].scopes : ScopeOK("metrics", batch[i].scopes[j])
    BY <1>2 DEF ResourceOK, Range
  <2>2. ASSUME NEW j \in DOMAIN batch[i].scopes PROVE SentOK("metrics", entries(i, j))
    <3>1. List(batch[i].scopes[j].entries)
          /\ \A k \in DOMAIN batch[i].scopes[j].entries :
                IsEntry("metrics", batch[i].scopes[j].entries[k])
      BY <2>1 DEF ScopeOK, Range
    <3>2. AttrList(batch[i].resource.attrs) /\ AttrList(batch[i].scopes[j].scope.attrs)
      BY <1>2, <2>1, SMTT(30) DEF ResourceOK, ScopeOK
    <3>3. \A k \in DOMAIN entries(i, j) : RowOK("metrics", entries(i, j)[k])
      BY <3>1, <3>2 DEF RowOK
    <3>4. List(entries(i, j))
      BY <3>1, MapIsList
    <3> HIDE DEF entries
    <3> QED
      BY <3>3, <3>4 DEF SentOK, Range
  <2> DEFINE lists == [j \in DOMAIN batch[i].scopes |-> entries(i, j)]
  <2>3. lists = [j \in DOMAIN lists |-> lists[j]] /\ DOMAIN lists = DOMAIN batch[i].scopes
        /\ \A j \in DOMAIN batch[i].scopes : SentOK("metrics", lists[j])
    BY <2>2
  <2> HIDE DEF lists
  <2>4. List(lists) /\ Len(lists) = Len(batch[i].scopes)
    BY <2>1, <2>3, MapIsList
  <2>5. \A j \in 1..Len(lists) : SentOK("metrics", lists[j])
    BY <2>1, <2>3, <2>4, ListDomain
  <2>6. SentOK("metrics", FlattenSeq(lists))
    BY <2>4, <2>5, FlattenOK
  <2> QED
    BY <2>6 DEF lists
<1> DEFINE lists == [i \in DOMAIN batch |-> scopes(i)]
<1>4. lists = [i \in DOMAIN lists |-> lists[i]] /\ DOMAIN lists = DOMAIN batch
      /\ \A i \in DOMAIN batch : SentOK("metrics", lists[i])
  <2> HIDE DEF scopes
  <2> QED
    BY <1>3
<1>5. List(batch)
  BY DEF BatchOK
<1>6. SentOK("metrics", all)
  <2>1. all = FlattenSeq(lists)
    OBVIOUS
  <2> HIDE DEF lists, all
  <2>2. List(lists) /\ Len(lists) = Len(batch)
    BY <1>4, <1>5, MapIsList
  <2>3. \A i \in 1..Len(lists) : SentOK("metrics", lists[i])
    BY <1>4, <1>5, <2>2, ListDomain
  <2> QED
    BY <2>1, <2>2, <2>3, FlattenOK
<1> HIDE DEF all, before
<1>7. Permuted(Sorted(before, all), all)
  BY <1>6, SortedPermutes DEF SentOK
<1> QED
  BY <1>1, <1>6, <1>7, SortedOK

\* ... nor LogsOptimizer.Optimize.
LEMMA LogsOptimized ==
  ASSUME NEW batch, BatchOK("logs", batch)
  PROVE  SentOK("logs", OptimizeLogs(batch))
<1> DEFINE resIDs == [i \in DOMAIN batch |-> ResourceID(batch[i].resource)]
           scopeIDs == [i \in DOMAIN batch |->
                          [j \in DOMAIN batch[i].scopes |-> ScopeID(batch[i].scopes[j].scope)]]
           Nth(i, j) == Len(FlattenSeq(SubSeq(scopeIDs, 1, i - 1))) + j
           EntryRow(i, j, k) ==
             [resID    |-> FirstSeen(resIDs, i),
              resource |-> batch[i].resource,
              scopeID  |-> FirstSeen(FlattenSeq(scopeIDs), Nth(i, j)),
              scope    |-> batch[i].scopes[j].scope,
              entry    |-> batch[i].scopes[j].entries[k]]
           entries(i, j) ==
             [k \in DOMAIN batch[i].scopes[j].entries |-> EntryRow(i, j, k)]
           scopes(i) == FlattenSeq([j \in DOMAIN batch[i].scopes |-> entries(i, j)])
           all == FlattenSeq([i \in DOMAIN batch |-> scopes(i)])
           before == {p \in (DOMAIN all) \X (DOMAIN all) : LogLess(all[p[1]], all[p[2]])}
<1>1. OptimizeLogs(batch) = Sorted(before, all)
  BY DEF OptimizeLogs, SortRows
<1>2. \A i \in DOMAIN batch : ResourceOK("logs", batch[i])
  BY DEF BatchOK, Range
<1>3. ASSUME NEW i \in DOMAIN batch PROVE SentOK("logs", scopes(i))
  <2>1. /\ List(batch[i].scopes)
        /\ \A j \in DOMAIN batch[i].scopes : ScopeOK("logs", batch[i].scopes[j])
    BY <1>2 DEF ResourceOK, Range
  <2>2. ASSUME NEW j \in DOMAIN batch[i].scopes PROVE SentOK("logs", entries(i, j))
    <3>1. List(batch[i].scopes[j].entries)
          /\ \A k \in DOMAIN batch[i].scopes[j].entries :
                IsEntry("logs", batch[i].scopes[j].entries[k])
      BY <2>1 DEF ScopeOK, Range
    <3>2. AttrList(batch[i].resource.attrs) /\ AttrList(batch[i].scopes[j].scope.attrs)
      BY <1>2, <2>1, SMTT(30) DEF ResourceOK, ScopeOK
    <3>3. \A k \in DOMAIN entries(i, j) : RowOK("logs", entries(i, j)[k])
      BY <3>1, <3>2 DEF RowOK
    <3>4. List(entries(i, j))
      BY <3>1, MapIsList
    <3> HIDE DEF entries
    <3> QED
      BY <3>3, <3>4 DEF SentOK, Range
  <2> DEFINE lists == [j \in DOMAIN batch[i].scopes |-> entries(i, j)]
  <2>3. lists = [j \in DOMAIN lists |-> lists[j]] /\ DOMAIN lists = DOMAIN batch[i].scopes
        /\ \A j \in DOMAIN batch[i].scopes : SentOK("logs", lists[j])
    BY <2>2
  <2> HIDE DEF lists
  <2>4. List(lists) /\ Len(lists) = Len(batch[i].scopes)
    BY <2>1, <2>3, MapIsList
  <2>5. \A j \in 1..Len(lists) : SentOK("logs", lists[j])
    BY <2>1, <2>3, <2>4, ListDomain
  <2>6. SentOK("logs", FlattenSeq(lists))
    BY <2>4, <2>5, FlattenOK
  <2> QED
    BY <2>6 DEF lists
<1> DEFINE lists == [i \in DOMAIN batch |-> scopes(i)]
<1>4. lists = [i \in DOMAIN lists |-> lists[i]] /\ DOMAIN lists = DOMAIN batch
      /\ \A i \in DOMAIN batch : SentOK("logs", lists[i])
  <2> HIDE DEF scopes
  <2> QED
    BY <1>3
<1>5. List(batch)
  BY DEF BatchOK
<1>6. SentOK("logs", all)
  <2>1. all = FlattenSeq(lists)
    OBVIOUS
  <2> HIDE DEF lists, all
  <2>2. List(lists) /\ Len(lists) = Len(batch)
    BY <1>4, <1>5, MapIsList
  <2>3. \A i \in 1..Len(lists) : SentOK("logs", lists[i])
    BY <1>4, <1>5, <2>2, ListDomain
  <2> QED
    BY <2>1, <2>2, <2>3, FlattenOK
<1> HIDE DEF all, before
<1>7. Permuted(Sorted(before, all), all)
  BY <1>6, SortedPermutes DEF SentOK
<1> QED
  BY <1>1, <1>6, <1>7, SortedOK

\* What is sent are the rows of a batch.
LEMMA Optimized ==
  ASSUME NEW s \in {"traces", "logs", "metrics"}, NEW batch, IsBatch(s, batch)
  PROVE  SentOK(s, Optimize(s, batch))
<1>1. BatchOK(s, batch)
  BY BatchesAre
<1>2. CASE s = "traces"
  BY <1>1, <1>2, TracesOptimized DEF Optimize
<1>3. CASE s = "logs"
  BY <1>1, <1>3, LogsOptimized DEF Optimize
<1>4. CASE s = "metrics"
  BY <1>1, <1>4, MetricsOptimized DEF Optimize
<1> QED
  BY <1>2, <1>3, <1>4

-----------------------------------------------------------------------------
(***************************************************************************)
(* The main record and the accumulators it fills.                          *)
(***************************************************************************)

\* The resources and the scopes of the rows.
Resources(rows) == [i \in DOMAIN rows |-> rows[i].resource]

Scopes(rows) == [i \in DOMAIN rows |-> rows[i].scope]

\* The rows of an optimized batch, one by one.
LEMMA SentRows ==
  ASSUME NEW s, NEW rows, SentOK(s, rows)
  PROVE  /\ Len(rows) \in Nat /\ DOMAIN rows = 1..Len(rows)
         /\ \A i \in 1..Len(rows) : rows[i] \in Range(rows) /\ RowOK(s, rows[i])
<1>1. Len(rows) \in Nat /\ DOMAIN rows = 1..Len(rows)
  BY ListDomain DEF SentOK, List
<1> QED
  BY <1>1 DEF SentOK, Range

\* Its resources and scopes, by row.
LEMMA OwnersSent ==
  ASSUME NEW s, NEW rows, SentOK(s, rows)
  PROVE  /\ Owners(Len(rows), KeysOf(rows).resource, Resources(rows))
         /\ Owners(Len(rows), KeysOf(rows).scope, Scopes(rows))
<1>1. /\ Len(rows) \in Nat /\ DOMAIN rows = 1..Len(rows)
      /\ \A i \in 1..Len(rows) : rows[i] \in Range(rows) /\ RowOK(s, rows[i])
  BY SentRows
<1> QED
  BY <1>1 DEF Owners, KeysOf, Resources, Scopes, RowOK

\* What the main record holds of resources, scopes and ids.
LEMMA MainIs ==
  ASSUME NEW rows, NEW ids
  PROVE  LET keys == KeysOf(rows) IN
         /\ Main(rows, ids).resAttrs = Accumulate(keys.resource, Resources(rows))
         /\ Main(rows, ids).scopeAttrs = Accumulate(keys.scope, Scopes(rows))
         /\ Main(rows, ids).ids = Deltas(ids)
         /\ Main(rows, ids).resources = ResourceColumns(keys.resource, Resources(rows))
         /\ Main(rows, ids).scopes = ScopeColumns(keys.scope, Scopes(rows))
BY DEF Main, Resources, Scopes

\* Building the ids of a main record panics only for too many rows.
LEMMA MainPanics ==
  ASSUME NEW s, NEW rows, SentOK(s, rows), NEW ids, MaxUint16 \in Nat
  PROVE  /\ Main(rows, ids).panics => Panics(ids) \/ Len(rows) > MaxUint16
         /\ ~Main(rows, ids).panics =>
              /\ ~Panics(ids)
              /\ Main(rows, ids).resAttrs.groups \in 0..MaxUint16
              /\ Main(rows, ids).scopeAttrs.groups \in 0..MaxUint16
<1> DEFINE keys == KeysOf(rows)
           res == Accumulate(keys.resource, Resources(rows))
           scopes == Accumulate(keys.scope, Scopes(rows))
<1>1. PICK n \in Nat : n = Len(rows)
  BY SentRows
<1>2. Owners(n, keys.resource, Resources(rows)) /\ Owners(n, keys.scope, Scopes(rows))
  BY <1>1, OwnersSent
<1>3. Main(rows, ids).panics
        <=> \/ Panics(ids)
            \/ Panics(GroupIds(keys.resource, Resources(rows)))
            \/ Panics(GroupIds(keys.scope, Scopes(rows)))
            \/ TooManyGroups16(res)
            \/ TooManyGroups16(scopes)
  BY DEF Main, Resources, Scopes
<1>4. Main(rows, ids).resAttrs = res /\ Main(rows, ids).scopeAttrs = scopes
  BY MainIs
<1> HIDE DEF keys
<1>5. ~Panics(GroupIds(keys.resource, Resources(rows)))
  BY <1>2, GroupIdsNeverPanic
<1>6. ~Panics(GroupIds(keys.scope, Scopes(rows)))
  BY <1>2, GroupIdsNeverPanic
<1>7. res.groups \in Nat /\ res.groups <= n
  <2>1. res.groups = Groups(keys.resource, Resources(rows))[n]
    BY <1>2, AccumulateIs
  <2>2. /\ Groups(keys.resource, Resources(rows)) \in [0..n -> Nat]
        /\ \A i \in 0..n : Groups(keys.resource, Resources(rows))[i] <= i
    BY <1>2, GroupsAre
  <2>3. n \in 0..n
    OBVIOUS
  <2> HIDE DEF res
  <2> QED
    BY <2>1, <2>2, <2>3
<1>8. scopes.groups \in Nat /\ scopes.groups <= n
  <2>1. scopes.groups = Groups(keys.scope, Scopes(rows))[n]
    BY <1>2, AccumulateIs
  <2>2. /\ Groups(keys.scope, Scopes(rows)) \in [0..n -> Nat]
        /\ \A i \in 0..n : Groups(keys.scope, Scopes(rows))[i] <= i
    BY <1>2, GroupsAre
  <2>3. n \in 0..n
    OBVIOUS
  <2> HIDE DEF scopes
  <2> QED
    BY <2>1, <2>2, <2>3
<1> HIDE DEF res, scopes
<1>9. TooManyGroups16(res) <=> res.groups > MaxUint16
  BY DEF TooManyGroups16
<1>10. TooManyGroups16(scopes) <=> scopes.groups > MaxUint16
  BY DEF TooManyGroups16
<1> QED
  BY <1>1, <1>3, <1>4, <1>5, <1>6, <1>7, <1>8, <1>9, <1>10

\* The rows of a list of attributes under one parent each.
ValuesFrom(a, n, lists) ==
  Accu(a) /\ \A row \in Range(a.rows) :
               \E i \in 1..n : \E attr \in Range(lists[i]) : row.cols.value = attr[2]

\* Values in the records of resource and scope attributes come from these...
LEMMA GroupedValues ==
  ASSUME NEW n, NEW keys, NEW entities, Owners(n, keys, entities)
  PROVE  ValuesFrom(Accumulate(keys, entities), n, [i \in 1..n |-> entities[i].attrs])
<1>1. n \in Nat /\ DOMAIN keys = 1..n
  BY DEF Owners
<1>2. /\ Accu(Accumulate(keys, entities))
      /\ \A row : row \in Range(Accumulate(keys, entities).rows)
              <=> GroupedBy(row, keys, entities)
  BY AccumulateIs
<1>3. ASSUME NEW row, GroupedBy(row, keys, entities)
      PROVE  \E i \in 1..n : \E attr \in Range(entities[i].attrs) : row.cols.value = attr[2]
  <2>1. PICK h \in Heads(keys) : \E attr \in Range(entities[h].attrs) :
                row = AttrRow(Groups(keys, entities)[h - 1], attr)
    BY <1>3 DEF GroupedBy
  <2>2. PICK attr \in Range(entities[h].attrs) :
                row = AttrRow(Groups(keys, entities)[h - 1], attr)
    BY <2>1
  <2>3. row.cols.value = attr[2]
    BY <2>2 DEF AttrRow
  <2>4. h \in 1..n
    BY <1>1 DEF Heads
  <2> QED
    BY <2>2, <2>3, <2>4
<1>4. \A i \in 1..n : [i2 \in 1..n |-> entities[i2].attrs][i] = entities[i].attrs
  OBVIOUS
<1> QED
  BY <1>2, <1>3, <1>4 DEF ValuesFrom

\* ... and those of spans and log records from spans and log records.
LEMMA FiledValues ==
  ASSUME NEW n, NEW ids, NEW lists, NEW added, Filed(added, n, ids, lists)
  PROVE  /\ ValuesFrom(Filled(NewAccumulator, added), n, lists)
         /\ Filled(NewAccumulator, added).groups \in 0..n
<1>1. /\ n \in Nat
      /\ \A k \in 1..n : AttrList(lists[k])
      /\ added = [k \in 1..n |-> AppendWithID(ids[k], lists[k])]
  BY DEF Filed
<1>2. /\ Adds(added) /\ Len(added) = n
      /\ Accu(Filled(NewAccumulator, added))
      /\ \A row : row \in Range(Filled(NewAccumulator, added).rows)
              <=> FiledBy(row, n, ids, lists)
  BY FiledRows
<1>3. ASSUME NEW row, FiledBy(row, n, ids, lists)
      PROVE  \E i \in 1..n : \E attr \in Range(lists[i]) : row.cols.value = attr[2]
  <2>1. PICK k \in 1..n : \E attr \in Named(lists[k]) : row = AttrRow(ids[k], attr)
    BY <1>3 DEF FiledBy
  <2>2. PICK attr \in Named(lists[k]) : row = AttrRow(ids[k], attr)
    BY <2>1
  <2>3. row.cols.value = attr[2] /\ attr \in Range(lists[k])
    BY <2>2 DEF AttrRow, Named
  <2> QED
    BY <2>3
<1>4. \A k \in 1..n : added[k].groups \in 0..1
  <2>1. ASSUME NEW k \in 1..n PROVE added[k].groups \in 0..1
    <3>1. PICK p, attrs : p = ids[k] /\ attrs = lists[k]
      OBVIOUS
    <3>2. AttrList(attrs)
      BY <1>1, <3>1
    <3>3. AppendWithID(p, attrs).groups = IF attrs = <<>> THEN 0 ELSE 1
      BY <3>2, AppendWithIDIs
    <3>4. added[k] = AppendWithID(p, attrs)
      BY <1>1, <3>1
    <3> QED
      BY <3>3, <3>4
  <2> QED
    BY <2>1
<1>5. Filled(NewAccumulator, added).groups \in 0..Len(added)
  BY <1>2, <1>4, FilledOnes
<1> QED
  BY <1>2, <1>3, <1>5 DEF ValuesFrom

-----------------------------------------------------------------------------
(***************************************************************************)
(* What accumulators hold.                                                 *)
(***************************************************************************)

\* The records whose rows have attributes of their own...
Parents == {"SPAN_EVENTS", "SPAN_LINKS", "NUMBER_DATA_POINTS", "NUMBER_DP_EXEMPLARS",
            "SUMMARY_DATA_POINTS", "HISTOGRAM_DATA_POINTS", "HISTOGRAM_DP_EXEMPLARS",
            "EXP_HISTOGRAM_DATA_POINTS", "EXP_HISTOGRAM_DP_EXEMPLARS"}

\* ... and those whose rows have exemplars.
Points == {"NUMBER_DATA_POINTS", "HISTOGRAM_DATA_POINTS", "EXP_HISTOGRAM_DATA_POINTS"}

\* The records whose rows own others.
LEMMA Kinds ==
  /\ DOMAIN AttrsOf = Parents /\ DOMAIN ExemplarsOf = Points
  /\ Attrs32 = {"SPAN_EVENT_ATTRS", "SPAN_LINK_ATTRS", "NUMBER_DP_ATTRS",
                "NUMBER_DP_EXEMPLAR_ATTRS", "SUMMARY_DP_ATTRS", "HISTOGRAM_DP_ATTRS",
                "HISTOGRAM_DP_EXEMPLAR_ATTRS", "EXP_HISTOGRAM_DP_ATTRS",
                "EXP_HISTOGRAM_DP_EXEMPLAR_ATTRS"}
<1>1. DOMAIN AttrsOf = Parents /\ DOMAIN ExemplarsOf = Points
  BY DEF AttrsOf, ExemplarsOf, Parents, Points
<1>2. Attrs32 = {AttrsOf[type] : type \in Parents}
  BY <1>1 DEF Attrs32
<1>3. /\ AttrsOf["SPAN_EVENTS"] = "SPAN_EVENT_ATTRS"
      /\ AttrsOf["SPAN_LINKS"] = "SPAN_LINK_ATTRS"
      /\ AttrsOf["NUMBER_DATA_POINTS"] = "NUMBER_DP_ATTRS"
      /\ AttrsOf["NUMBER_DP_EXEMPLARS"] = "NUMBER_DP_EXEMPLAR_ATTRS"
      /\ AttrsOf["SUMMARY_DATA_POINTS"] = "SUMMARY_DP_ATTRS"
      /\ AttrsOf["HISTOGRAM_DATA_POINTS"] = "HISTOGRAM_DP_ATTRS"
      /\ AttrsOf["HISTOGRAM_DP_EXEMPLARS"] = "HISTOGRAM_DP_EXEMPLAR_ATTRS"
      /\ AttrsOf["EXP_HISTOGRAM_DATA_POINTS"] = "EXP_HISTOGRAM_DP_ATTRS"
      /\ AttrsOf["EXP_HISTOGRAM_DP_EXEMPLARS"] = "EXP_HISTOGRAM_DP_EXEMPLAR_ATTRS"
  BY SMTT(30) DEF AttrsOf
<1> QED
  BY <1>1, <1>2, <1>3 DEF Parents

\* Rows whose attributes, and exemplars, are lists.
ItemOK(t, row) ==
  /\ t \in Parents => AttrList(row.attrs)
  /\ t \in Points => /\ List(row.exemplars)
                     /\ \A exemplar \in Range(row.exemplars) : IsExemplar(exemplar)

\* The accumulator of a record, with rows as they should be.
AccuOK(t, a) == Accu(a) /\ \A row \in Range(a.rows) : ItemOK(t, row)

\* Rows that come from the batch.
HeldRow(t, row) ==
  /\ t \in Attrs16 \cup Attrs32 =>
       \E holder \in Holders : \E attr \in Range(holder.attrs) : row.cols.value = attr[2]
  /\ t \in Parents => \E holder \in Holders : row.attrs = holder.attrs
  /\ t \in Points => Range(row.exemplars) \subseteq Holders

\* It holds only what the batch has.
Held(t, a) == \A row \in Range(a.rows) : HeldRow(t, row)

\* The batch has a value without a type.
Missing == \E holder \in Holders : \E attr \in Range(holder.attrs) : attr[2][1] = EmptyType

\* The number of items of all rows of the batch.
TotalOf(lists) == Subtotals(LensOf(Len(sent), lists))[Len(sent)]

EventsOf == [i \in DOMAIN sent |-> sent[i].entry.events]

LinksOf == [i \in DOMAIN sent |-> sent[i].entry.links]

PointsOf == [i \in DOMAIN sent |-> sent[i].entry.dps]

ExemplarListsOf(dps) == [k \in DOMAIN dps |-> dps[k].exemplars]

AllExemplarsOf == [i \in DOMAIN sent |-> FlattenSeq(ExemplarListsOf(sent[i].entry.dps))]

\* The batch is too large, or has a value without a type.
Excused ==
  \/ Len(sent) > MaxUint16
  \/ Missing
  \/ signal = "traces" /\ (TotalOf(EventsOf) > MaxUint32 \/ TotalOf(LinksOf) > MaxUint32)
  \/ /\ signal = "metrics"
     /\ TotalOf(PointsOf) > MaxUint32 \/ (updates + 1) * TotalOf(AllExemplarsOf) > MaxUint32

\* Excused says what FewEntitiesNeverPanic allows.
LEMMA ExcusedIs ==
  ASSUME DOMAIN sent = 1..Len(sent), phase = "panicked" => Excused
  PROVE  FewEntitiesNeverPanic
<1>1. LensOf(Len(sent), EventsOf) = [i \in DOMAIN sent |-> Len(sent[i].entry.events)]
  BY DEF LensOf, EventsOf
<1>2. LensOf(Len(sent), LinksOf) = [i \in DOMAIN sent |-> Len(sent[i].entry.links)]
  BY DEF LensOf, LinksOf
<1>3. LensOf(Len(sent), PointsOf) = [i \in DOMAIN sent |-> Len(sent[i].entry.dps)]
  BY DEF LensOf, PointsOf
<1>4. LensOf(Len(sent), AllExemplarsOf)
        = [i \in DOMAIN sent |->
             Len(FlattenSeq([k \in DOMAIN sent[i].entry.dps |-> sent[i].entry.dps[k].exemplars]))]
  BY DEF LensOf, AllExemplarsOf, ExemplarListsOf
<1> QED
  BY <1>1, <1>2, <1>3, <1>4 DEF FewEntitiesNeverPanic, Excused, TotalOf, Total, Row, Missing

\* Who holds attributes.
LEMMA HoldersAre ==
  ASSUME NEW row \in Range(sent)
  PROVE  /\ row.resource \in Holders /\ row.scope \in Holders
         /\ signal # "metrics" => row.entry \in Holders
         /\ signal = "traces" => Range(row.entry.events) \subseteq Holders
                                 /\ Range(row.entry.links) \subseteq Holders
         /\ signal = "metrics" =>
              /\ Range(row.entry.dps) \subseteq Holders
              /\ \A dp \in Range(row.entry.dps) : Range(dp.exemplars) \subseteq Holders
<1> DEFINE mine == {row.resource, row.scope} \cup
                   (IF signal = "metrics" THEN {} ELSE {row.entry}) \cup
                   UNION {Range(list) : list \in Children(row.entry)}
<1>1. mine \subseteq Holders
  BY DEF Holders
<1>2. row.resource \in mine /\ row.scope \in mine /\ (signal # "metrics" => row.entry \in mine)
  OBVIOUS
<1>3. \A list \in Children(row.entry) : Range(list) \subseteq mine
  OBVIOUS
<1>4. signal = "traces" => /\ row.entry.events \in Children(row.entry)
                           /\ row.entry.links \in Children(row.entry)
  BY DEF Children
<1>5. signal = "metrics" =>
        /\ row.entry.dps \in Children(row.entry)
        /\ \A dp \in Range(row.entry.dps) : dp.exemplars \in Children(row.entry)
  BY DEF Children
<1> HIDE DEF mine
<1> QED
  BY <1>1, <1>2, <1>3, <1>4, <1>5

-----------------------------------------------------------------------------
(***************************************************************************)
(* What each main record leaves in the accumulators.                       *)
(***************************************************************************)

AttrsSent == [i \in 1..Len(sent) |-> sent[i].entry.attrs]

AddedAttrs(ids) == [i \in 1..Len(sent) |-> AppendWithID(ids[i], sent[i].entry.attrs)]

\* The attributes of spans and log records are filed under their ids.
LEMMA AttrsFiled ==
  ASSUME NEW s, SentOK(s, sent), s \in {"traces", "logs"}, NEW ids
  PROVE  Filed(AddedAttrs(ids), Len(sent), ids, AttrsSent)
<1>1. /\ Len(sent) \in Nat /\ DOMAIN sent = 1..Len(sent)
      /\ \A i \in 1..Len(sent) : sent[i] \in Range(sent) /\ RowOK(s, sent[i])
  BY SentRows
<1>2. \A i \in 1..Len(sent) : AttrList(sent[i].entry.attrs)
  <2>1. ASSUME NEW i \in 1..Len(sent) PROVE AttrList(sent[i].entry.attrs)
    <3>1. IsEntry(s, sent[i].entry)
      BY <1>1 DEF RowOK
    <3>2. IsAttrs(sent[i].entry.attrs)
      BY <3>1 DEF IsEntry, IsSpan, IsLog
    <3> QED
      BY <3>2, AttrsAre
  <2> QED
    BY <2>1
<1>3. \A i \in 1..Len(sent) : AttrsSent[i] = sent[i].entry.attrs
  BY DEF AttrsSent
<1>4. AddedAttrs(ids) = [i \in 1..Len(sent) |-> AppendWithID(ids[i], AttrsSent[i])]
  BY <1>3 DEF AddedAttrs
<1> QED
  BY <1>1, <1>2, <1>3, <1>4 DEF Filed

\* Attributes of resources and scopes.
LEMMA MainAttrs ==
  ASSUME NEW s, SentOK(s, sent), NEW ids, NEW t \in {"RESOURCE_ATTRS", "SCOPE_ATTRS"}
  PROVE  /\ AccuOK(t, Main(sent, ids).resAttrs) /\ Held(t, Main(sent, ids).resAttrs)
         /\ AccuOK(t, Main(sent, ids).scopeAttrs) /\ Held(t, Main(sent, ids).scopeAttrs)
<1>1. /\ Len(sent) \in Nat /\ DOMAIN sent = 1..Len(sent)
      /\ \A i \in 1..Len(sent) : sent[i] \in Range(sent) /\ RowOK(s, sent[i])
  BY SentRows, SMTT(30)
<1>2. PICK n \in Nat : n = Len(sent)
  BY <1>1
<1>3. PICK rkeys, skeys : rkeys = KeysOf(sent).resource /\ skeys = KeysOf(sent).scope
  OBVIOUS
<1>4. Owners(n, rkeys, Resources(sent)) /\ Owners(n, skeys, Scopes(sent))
  BY <1>2, <1>3, OwnersSent
<1>5. /\ Main(sent, ids).resAttrs = Accumulate(rkeys, Resources(sent))
      /\ Main(sent, ids).scopeAttrs = Accumulate(skeys, Scopes(sent))
  BY <1>3, MainIs
<1>6. t \notin Parents /\ t \notin Points
  BY DEF Parents, Points
<1>7. ASSUME NEW a, NEW entities, \A i \in 1..n : entities[i] \in Holders,
             ValuesFrom(a, n, [i \in 1..n |-> entities[i].attrs])
      PROVE  AccuOK(t, a) /\ Held(t, a)
  <2>1. Accu(a)
    BY <1>7 DEF ValuesFrom
  <2>2. ASSUME NEW row \in Range(a.rows)
        PROVE  \E holder \in Holders : \E attr \in Range(holder.attrs) : row.cols.value = attr[2]
    <3>1. PICK i \in 1..n : \E attr \in Range([k \in 1..n |-> entities[k].attrs][i]) :
                              row.cols.value = attr[2]
      BY <1>7, <2>2 DEF ValuesFrom
    <3>2. [k \in 1..n |-> entities[k].attrs][i] = entities[i].attrs
      OBVIOUS
    <3> QED
      BY <1>7, <3>1, <3>2
  <2> QED
    BY <1>6, <2>1, <2>2 DEF AccuOK, ItemOK, Held, HeldRow
<1>8. \A i \in 1..n : Resources(sent)[i] \in Holders /\ Scopes(sent)[i] \in Holders
  <2>1. ASSUME NEW i \in 1..n PROVE sent[i].resource \in Holders /\ sent[i].scope \in Holders
    <3>1. PICK row \in Range(sent) : row = sent[i]
      BY <1>1, <1>2
    <3> QED
      BY <3>1, HoldersAre
  <2> QED
    BY <1>1, <1>2, <2>1 DEF Resources, Scopes
<1>9. ValuesFrom(Accumulate(rkeys, Resources(sent)), n, [i \in 1..n |-> Resources(sent)[i].attrs])
  BY <1>4, GroupedValues
<1>10. ValuesFrom(Accumulate(skeys, Scopes(sent)), n, [i \in 1..n |-> Scopes(sent)[i].attrs])
  BY <1>4, GroupedValues
<1>11. /\ AccuOK(t, Accumulate(rkeys, Resources(sent)))
       /\ Held(t, Accumulate(rkeys, Resources(sent)))
  BY <1>7, <1>8, <1>9
<1>12. /\ AccuOK(t, Accumulate(skeys, Scopes(sent))) /\ Held(t, Accumulate(skeys, Scopes(sent)))
  BY <1>7, <1>8, <1>10
<1> QED
  BY <1>5, <1>11, <1>12

\* Attributes of spans and logs.
LEMMA EntryAttrs ==
  ASSUME SentOK(signal, sent), signal \in {"traces", "logs"}, NEW ids,
         NEW t \in {"SPAN_ATTRS", "LOG_ATTRS"}
  PROVE  LET a == Filled(NewAccumulator, AddedAttrs(ids))
         IN  AccuOK(t, a) /\ Held(t, a) /\ a.groups \in 0..Len(sent)
<1>1. /\ Len(sent) \in Nat /\ DOMAIN sent = 1..Len(sent)
      /\ \A i \in 1..Len(sent) : sent[i] \in Range(sent) /\ RowOK(signal, sent[i])
  BY SentRows
<1>2. PICK a : a = Filled(NewAccumulator, AddedAttrs(ids))
  OBVIOUS
<1>3. Filed(AddedAttrs(ids), Len(sent), ids, AttrsSent)
  BY AttrsFiled
<1>4. ValuesFrom(a, Len(sent), AttrsSent) /\ a.groups \in 0..Len(sent)
  BY <1>2, <1>3, FiledValues
<1>5. t \notin Parents /\ t \notin Points
  BY DEF Parents, Points
<1>6. ASSUME NEW row \in Range(a.rows)
      PROVE  \E holder \in Holders : \E attr \in Range(holder.attrs) : row.cols.value = attr[2]
  <2>1. PICK i \in 1..Len(sent) : \E attr \in Range(AttrsSent[i]) : row.cols.value = attr[2]
    BY <1>4, <1>6 DEF ValuesFrom
  <2>2. PICK sentRow \in Range(sent) : sentRow = sent[i]
    BY <1>1
  <2>3. sentRow.entry \in Holders
    BY HoldersAre
  <2>4. AttrsSent[i] = sentRow.entry.attrs
    BY <2>2 DEF AttrsSent
  <2> QED
    BY <2>1, <2>3, <2>4
<1>7. AccuOK(t, a) /\ Held(t, a)
  BY <1>4, <1>5, <1>6 DEF AccuOK, ItemOK, Held, HeldRow, ValuesFrom
<1> QED
  BY <1>2, <1>4, <1>7

\* Rows of events and links, one for each.
EventRow(id, event) ==
  [parent |-> id, attrs |-> event.attrs, cols |-> [name |-> event.name, data |-> event.data]]

\* The row of a link.
LinkRow(id, link) ==
  [parent |-> id, attrs |-> link.attrs, cols |-> [trace |-> link.trace, data |-> link.data]]

\* The rows that each span adds.
EventLists(ids) ==
  [i \in 1..Len(sent) |-> [k \in DOMAIN sent[i].entry.events |->
                             EventRow(ids[i], sent[i].entry.events[k])]]

LinkLists(ids) ==
  [i \in 1..Len(sent) |-> [k \in DOMAIN sent[i].entry.links |->
                             LinkRow(ids[i], sent[i].entry.links[k])]]

\* What was added one by one is collected.
LEMMA Collecting ==
  ASSUME NEW n \in Nat, NEW lists, \A i \in 1..n : List(lists[i]),
         NEW added, added = [i \in 1..n |-> added[i]],
         \A i \in 1..n : \/ added[i] = Group(lists[i])
                         \/ added[i] = [rows |-> lists[i], groups |-> 0]
  PROVE  Collected(Filled(NewAccumulator, added), n, lists)
<1>1. Len(added) = n
  <2>1. DOMAIN added = 1..n
    OBVIOUS
  <2> QED
    BY <2>1, LengthOf
<1>2. ASSUME NEW i \in 1..n
      PROVE  /\ Accu(added[i]) /\ added[i].rows = lists[i]
             /\ added[i].groups \in 0..1 /\ added[i].groups <= Len(lists[i])
  <2>1. PICK rows : rows = lists[i] /\ List(rows)
    OBVIOUS
  <2>2. /\ Accu(Group(rows)) /\ Group(rows).rows = rows
        /\ Group(rows).groups \in 0..1 /\ Group(rows).groups <= Len(rows)
    BY <2>1, GroupIs
  <2>3. PICK r : r = [rows |-> rows, groups |-> 0]
    OBVIOUS
  <2>4. Accu(r) /\ r.rows = rows /\ r.groups = 0 /\ Len(rows) \in Nat
    BY <2>1, <2>3 DEF Accu, List
  <2>5. added[i] = Group(rows) \/ added[i] = r
    BY <2>1, <2>3
  <2> QED
    BY <2>1, <2>2, <2>4, <2>5
<1>3. List(added)
  BY <1>1 DEF List
<1>4. Adding(added, n, lists)
  BY <1>1, <1>2, <1>3 DEF Adding, Adds
<1> QED
  BY <1>4 DEF Collected

\* The accumulator of events holds those of each span in turn.
LEMMA EventsCollected ==
  ASSUME SentOK("traces", sent), NEW ids, DOMAIN ids = 1..Len(sent), NEW a,
         a = Filled(NewAccumulator,
                    [i \in DOMAIN sent |-> AppendEvents(ids[i], sent[i].entry.events)])
  PROVE  /\ Collected(a, Len(sent), EventLists(ids))
         /\ \A i \in 1..Len(sent) :
              /\ List(sent[i].entry.events) /\ List(EventLists(ids)[i])
              /\ Len(EventLists(ids)[i]) = Len(sent[i].entry.events)
              /\ \A event \in Range(sent[i].entry.events) :
                   IsEvent(event) /\ AttrList(event.attrs)
<1>1. /\ Len(sent) \in Nat /\ DOMAIN sent = 1..Len(sent)
      /\ \A i \in 1..Len(sent) : sent[i] \in Range(sent) /\ RowOK("traces", sent[i])
  BY SentRows
<1>2. ASSUME NEW i \in 1..Len(sent)
      PROVE  /\ List(sent[i].entry.events)
             /\ \A event \in Range(sent[i].entry.events) : IsEvent(event) /\ AttrList(event.attrs)
  <2>1. IsSpan(sent[i].entry)
    BY <1>1 DEF RowOK, IsEntry
  <2> QED
    BY <2>1, ListsAre, AttrsAre DEF IsSpan, IsEvent
<1>3. ASSUME NEW i \in 1..Len(sent)
      PROVE  /\ List(EventLists(ids)[i])
             /\ Len(EventLists(ids)[i]) = Len(sent[i].entry.events)
             /\ AppendEvents(ids[i], sent[i].entry.events) = Group(EventLists(ids)[i])
  <2>1. PICK items, id : items = sent[i].entry.events /\ id = ids[i]
    OBVIOUS
  <2>2. PICK list : list = EventLists(ids)[i]
    OBVIOUS
  <2>3. list = [k \in DOMAIN items |-> EventRow(id, items[k])]
    BY <2>1, <2>2 DEF EventLists
  <2>4. List(list) /\ Len(list) = Len(items)
    <3>1. List(items) /\ DOMAIN list = DOMAIN items /\ list = [k \in DOMAIN items |-> list[k]]
      BY <1>2, <2>1, <2>3
    <3> QED
      BY <3>1, MapIsList
  <2>5. AppendEvents(id, items) = Group(list)
    BY <2>3, SMTT(30) DEF AppendEvents, EventRow
  <2> QED
    BY <2>1, <2>2, <2>4, <2>5
<1>4. PICK n \in Nat : n = Len(sent)
  BY <1>1
<1>5. PICK added : added = [i \in DOMAIN sent |-> AppendEvents(ids[i], sent[i].entry.events)]
  OBVIOUS
<1>6. added = [i \in 1..n |-> Group(EventLists(ids)[i])]
  BY <1>1, <1>3, <1>4, <1>5
<1>7. Collected(Filled(NewAccumulator, added), n, EventLists(ids))
  <2>1. PICK lists : lists = EventLists(ids)
    OBVIOUS
  <2>2. \A i \in 1..n : List(lists[i])
    BY <1>3, <1>4, <2>1
  <2>3. added = [i \in 1..n |-> Group(lists[i])]
    BY <1>6, <2>1
  <2>4. Collected(Filled(NewAccumulator, added), n, lists)
    BY <2>2, <2>3, Collecting
  <2> QED
    BY <2>1, <2>4
<1> QED
  BY <1>2, <1>3, <1>4, <1>5, <1>7

\* They have the attributes of the batch, and are as many as were sent.
LEMMA EventsHeld ==
  ASSUME signal = "traces", SentOK("traces", sent), NEW ids, DOMAIN ids = 1..Len(sent), NEW a,
         a = Filled(NewAccumulator,
                    [i \in DOMAIN sent |-> AppendEvents(ids[i], sent[i].entry.events)])
  PROVE  /\ AccuOK("SPAN_EVENTS", a) /\ Held("SPAN_EVENTS", a)
         /\ a.groups \in 0..Len(sent) /\ Len(a.rows) = TotalOf(EventsOf)
<1>1. /\ Len(sent) \in Nat /\ DOMAIN sent = 1..Len(sent)
      /\ \A i \in 1..Len(sent) : sent[i] \in Range(sent) /\ RowOK("traces", sent[i])
  BY SentRows
<1>2. PICK lists : lists = EventLists(ids)
  OBVIOUS
<1>3. /\ Collected(a, Len(sent), lists)
      /\ \A i \in 1..Len(sent) :
           /\ List(sent[i].entry.events) /\ List(lists[i])
           /\ Len(lists[i]) = Len(sent[i].entry.events)
           /\ \A event \in Range(sent[i].entry.events) :
                IsEvent(event) /\ AttrList(event.attrs)
  BY <1>2, EventsCollected, SMTT(30)
<1>4. PICK n \in Nat : n = Len(sent)
  BY <1>1
<1>5. /\ Accu(a) /\ a.groups <= n
      /\ Len(a.rows) = Subtotals(LensOf(n, lists))[n]
      /\ \A row : row \in Range(a.rows) <=> Among(row, n, lists)
  <2>1. Collected(a, n, lists)
    BY <1>3, <1>4
  <2>2. /\ Accu(a) /\ a.groups <= n
        /\ Len(a.rows) = Subtotals(LensOf(n, lists))[n]
    BY <2>1, CollectedIs
  <2>3. \A row : row \in Range(a.rows) <=> Among(row, n, lists)
    BY <2>1, CollectedIs
  <2> QED
    BY <2>2, <2>3
<1>6. ASSUME NEW row \in Range(a.rows)
      PROVE  ItemOK("SPAN_EVENTS", row) /\ HeldRow("SPAN_EVENTS", row)
  <2>1. PICK i \in 1..n : row \in Range(lists[i])
    BY <1>5 DEF Among
  <2>2. PICK items : items = sent[i].entry.events
    OBVIOUS
  <2>3. lists[i] = [k \in DOMAIN items |-> EventRow(ids[i], items[k])]
    BY <1>2, <1>4, <2>2 DEF EventLists
  <2>4. PICK k \in DOMAIN items : row = EventRow(ids[i], items[k])
    BY <2>1, <2>3 DEF Range
  <2>5. row.attrs = items[k].attrs /\ items[k] \in Range(items)
    BY <2>4 DEF EventRow, Range
  <2>6. AttrList(row.attrs)
    BY <1>3, <1>4, <2>2, <2>5
  <2>7. Range(items) \subseteq Holders
    <3>1. PICK sentRow \in Range(sent) : sentRow = sent[i]
      BY <1>1, <1>4
    <3> QED
      BY <2>2, <3>1, HoldersAre
  <2>8. "SPAN_EVENTS" \notin Attrs16 /\ "SPAN_EVENTS" \notin Points
    BY DEF Attrs16, Points
  <2>9. "SPAN_EVENTS" \notin Attrs32
    BY Kinds
  <2> QED
    BY <2>5, <2>6, <2>7, <2>8, <2>9 DEF ItemOK, HeldRow
<1>7. LensOf(n, lists) = LensOf(n, EventsOf)
  BY <1>1, <1>3, <1>4 DEF LensOf, EventsOf
<1>8. Len(a.rows) = TotalOf(EventsOf)
  BY <1>4, <1>5, <1>7, SMTT(30) DEF TotalOf
<1>9. a.groups \in 0..Len(sent)
  BY <1>4, <1>5 DEF Accu
<1> QED
  BY <1>5, <1>6, <1>8, <1>9 DEF AccuOK, Held

\* The accumulator of links holds those of each span in turn.
LEMMA LinksCollected ==
  ASSUME SentOK("traces", sent), NEW ids, DOMAIN ids = 1..Len(sent), NEW a,
         a = Filled(NewAccumulator,
                    [i \in DOMAIN sent |-> AppendLinks(ids[i], sent[i].entry.links)])
  PROVE  /\ Collected(a, Len(sent), LinkLists(ids))
         /\ \A i \in 1..Len(sent) :
              /\ List(sent[i].entry.links) /\ List(LinkLists(ids)[i])
              /\ Len(LinkLists(ids)[i]) = Len(sent[i].entry.links)
              /\ \A link \in Range(sent[i].entry.links) :
                   IsLink(link) /\ AttrList(link.attrs)
<1>1. /\ Len(sent) \in Nat /\ DOMAIN sent = 1..Len(sent)
      /\ \A i \in 1..Len(sent) : sent[i] \in Range(sent) /\ RowOK("traces", sent[i])
  BY SentRows
<1>2. ASSUME NEW i \in 1..Len(sent)
      PROVE  /\ List(sent[i].entry.links)
             /\ \A link \in Range(sent[i].entry.links) : IsLink(link) /\ AttrList(link.attrs)
  <2>1. IsSpan(sent[i].entry)
    BY <1>1 DEF RowOK, IsEntry
  <2> QED
    BY <2>1, ListsAre, AttrsAre DEF IsSpan, IsLink
<1>3. ASSUME NEW i \in 1..Len(sent)
      PROVE  /\ List(LinkLists(ids)[i])
             /\ Len(LinkLists(ids)[i]) = Len(sent[i].entry.links)
             /\ AppendLinks(ids[i], sent[i].entry.links) = Group(LinkLists(ids)[i])
  <2>1. PICK items, id : items = sent[i].entry.links /\ id = ids[i]
    OBVIOUS
  <2>2. PICK list : list = LinkLists(ids)[i]
    OBVIOUS
  <2>3. list = [k \in DOMAIN items |-> LinkRow(id, items[k])]
    BY <2>1, <2>2 DEF LinkLists
  <2>4. List(list) /\ Len(list) = Len(items)
    <3>1. List(items) /\ DOMAIN list = DOMAIN items /\ list = [k \in DOMAIN items |-> list[k]]
      BY <1>2, <2>1, <2>3
    <3> QED
      BY <3>1, MapIsList
  <2>5. AppendLinks(id, items) = Group(list)
    BY <2>3, SMTT(30) DEF AppendLinks, LinkRow
  <2> QED
    BY <2>1, <2>2, <2>4, <2>5
<1>4. PICK n \in Nat : n = Len(sent)
  BY <1>1
<1>5. PICK added : added = [i \in DOMAIN sent |-> AppendLinks(ids[i], sent[i].entry.links)]
  OBVIOUS
<1>6. added = [i \in 1..n |-> Group(LinkLists(ids)[i])]
  BY <1>1, <1>3, <1>4, <1>5
<1>7. Collected(Filled(NewAccumulator, added), n, LinkLists(ids))
  <2>1. PICK lists : lists = LinkLists(ids)
    OBVIOUS
  <2>2. \A i \in 1..n : List(lists[i])
    BY <1>3, <1>4, <2>1
  <2>3. added = [i \in 1..n |-> Group(lists[i])]
    BY <1>6, <2>1
  <2>4. Collected(Filled(NewAccumulator, added), n, lists)
    BY <2>2, <2>3, Collecting
  <2> QED
    BY <2>1, <2>4
<1> QED
  BY <1>2, <1>3, <1>4, <1>5, <1>7

\* They have the attributes of the batch, and are as many as were sent.
LEMMA LinksHeld ==
  ASSUME signal = "traces", SentOK("traces", sent), NEW ids, DOMAIN ids = 1..Len(sent), NEW a,
         a = Filled(NewAccumulator,
                    [i \in DOMAIN sent |-> AppendLinks(ids[i], sent[i].entry.links)])
  PROVE  /\ AccuOK("SPAN_LINKS", a) /\ Held("SPAN_LINKS", a)
         /\ a.groups \in 0..Len(sent) /\ Len(a.rows) = TotalOf(LinksOf)
<1>1. /\ Len(sent) \in Nat /\ DOMAIN sent = 1..Len(sent)
      /\ \A i \in 1..Len(sent) : sent[i] \in Range(sent) /\ RowOK("traces", sent[i])
  BY SentRows
<1>2. PICK lists : lists = LinkLists(ids)
  OBVIOUS
<1>3. /\ Collected(a, Len(sent), lists)
      /\ \A i \in 1..Len(sent) :
           /\ List(sent[i].entry.links) /\ List(lists[i])
           /\ Len(lists[i]) = Len(sent[i].entry.links)
           /\ \A link \in Range(sent[i].entry.links) :
                IsLink(link) /\ AttrList(link.attrs)
  BY <1>2, LinksCollected, SMTT(30)
<1>4. PICK n \in Nat : n = Len(sent)
  BY <1>1
<1>5. /\ Accu(a) /\ a.groups <= n
      /\ Len(a.rows) = Subtotals(LensOf(n, lists))[n]
      /\ \A row : row \in Range(a.rows) <=> Among(row, n, lists)
  <2>1. Collected(a, n, lists)
    BY <1>3, <1>4
  <2>2. /\ Accu(a) /\ a.groups <= n
        /\ Len(a.rows) = Subtotals(LensOf(n, lists))[n]
    BY <2>1, CollectedIs
  <2>3. \A row : row \in Range(a.rows) <=> Among(row, n, lists)
    BY <2>1, CollectedIs
  <2> QED
    BY <2>2, <2>3
<1>6. ASSUME NEW row \in Range(a.rows)
      PROVE  ItemOK("SPAN_LINKS", row) /\ HeldRow("SPAN_LINKS", row)
  <2>1. PICK i \in 1..n : row \in Range(lists[i])
    BY <1>5 DEF Among
  <2>2. PICK items : items = sent[i].entry.links
    OBVIOUS
  <2>3. lists[i] = [k \in DOMAIN items |-> LinkRow(ids[i], items[k])]
    BY <1>2, <1>4, <2>2 DEF LinkLists
  <2>4. PICK k \in DOMAIN items : row = LinkRow(ids[i], items[k])
    BY <2>1, <2>3 DEF Range
  <2>5. row.attrs = items[k].attrs /\ items[k] \in Range(items)
    BY <2>4 DEF LinkRow, Range
  <2>6. AttrList(row.attrs)
    BY <1>3, <1>4, <2>2, <2>5
  <2>7. Range(items) \subseteq Holders
    <3>1. PICK sentRow \in Range(sent) : sentRow = sent[i]
      BY <1>1, <1>4
    <3> QED
      BY <2>2, <3>1, HoldersAre
  <2>8. "SPAN_LINKS" \notin Attrs16 /\ "SPAN_LINKS" \notin Points
    BY DEF Attrs16, Points
  <2>9. "SPAN_LINKS" \notin Attrs32
    BY Kinds
  <2> QED
    BY <2>5, <2>6, <2>7, <2>8, <2>9 DEF ItemOK, HeldRow
<1>7. LensOf(n, lists) = LensOf(n, LinksOf)
  BY <1>1, <1>3, <1>4 DEF LensOf, LinksOf
<1>8. Len(a.rows) = TotalOf(LinksOf)
  BY <1>4, <1>5, <1>7, SMTT(30) DEF TotalOf
<1>9. a.groups \in 0..Len(sent)
  BY <1>4, <1>5 DEF Accu
<1> QED
  BY <1>5, <1>6, <1>8, <1>9 DEF AccuOK, Held

\* Only too many rows exhaust the ids of 16 bits.
LEMMA PanickingIds ==
  ASSUME NEW n \in Nat, NEW referred, DOMAIN referred = 1..n, NEW max \in Nat \ {0},
         Panics(SparseIds(referred, max))
  PROVE  n > max
<1>1. /\ Subtotals(Referred(referred)) \in [0..n -> Nat]
      /\ \A i \in 0..n : Subtotals(Referred(referred))[i] <= i
  BY SparseTotals
<1>2. n \in 0..n
  OBVIOUS
<1>3. ASSUME n <= max PROVE FALSE
  <2>1. Subtotals(Referred(referred))[n] <= max + 1
    BY <1>1, <1>2, <1>3
  <2> QED
    BY <2>1, SparseIdsNeverPanic
<1> QED
  BY <1>3

\* What appending a batch of traces leaves, and when it panics.
LEMMA TracesMain ==
  ASSUME signal = "traces", SentOK("traces", sent), MaxUint16 \in Nat \ {0}
  PROVE  LET m == AppendTraces(sent) IN
         /\ DOMAIN m.accu = {"RESOURCE_ATTRS", "SCOPE_ATTRS", "SPAN_ATTRS", "SPAN_EVENTS",
                             "SPAN_LINKS"}
         /\ \A t \in DOMAIN m.accu : AccuOK(t, m.accu[t]) /\ Held(t, m.accu[t])
         /\ Len(m.accu["SPAN_EVENTS"].rows) = TotalOf(EventsOf)
         /\ Len(m.accu["SPAN_LINKS"].rows) = TotalOf(LinksOf)
         /\ m.panics => Excused
<1>1. PICK n \in Nat : n = Len(sent) /\ DOMAIN sent = 1..n
  BY SentRows
<1>2. PICK ids : ids = SpanIds(sent)
  OBVIOUS
<1>3. PICK events, links, attrs :
        /\ events = Filled(NewAccumulator,
                           [i \in DOMAIN sent |-> AppendEvents(ids[i], sent[i].entry.events)])
        /\ links = Filled(NewAccumulator,
                          [i \in DOMAIN sent |-> AppendLinks(ids[i], sent[i].entry.links)])
        /\ attrs = Filled(NewAccumulator, AddedAttrs(ids))
  OBVIOUS
<1>4. attrs = Filled(NewAccumulator,
                     [i \in DOMAIN sent |-> AppendWithID(ids[i], sent[i].entry.attrs)])
  BY <1>1, <1>3 DEF AddedAttrs
<1>5. PICK m : m = AppendTraces(sent)
  OBVIOUS
<1>6. /\ m.accu = [RESOURCE_ATTRS |-> Main(sent, ids).resAttrs,
                   SCOPE_ATTRS |-> Main(sent, ids).scopeAttrs,
                   SPAN_ATTRS |-> attrs, SPAN_EVENTS |-> events, SPAN_LINKS |-> links]
      /\ m.panics <=> \/ Main(sent, ids).panics
                      \/ TooManyGroups16(attrs) \/ TooManyGroups16(events)
                      \/ TooManyGroups16(links)
  BY <1>2, <1>3, <1>4, <1>5 DEF AppendTraces
<1>7. DOMAIN ids = 1..n
  BY <1>1, <1>2 DEF SpanIds, SparseIds
<1>8. /\ AccuOK("SPAN_EVENTS", events) /\ Held("SPAN_EVENTS", events)
      /\ events.groups \in 0..n /\ Len(events.rows) = TotalOf(EventsOf)
  BY <1>1, <1>3, <1>7, EventsHeld
<1>9. /\ AccuOK("SPAN_LINKS", links) /\ Held("SPAN_LINKS", links)
      /\ links.groups \in 0..n /\ Len(links.rows) = TotalOf(LinksOf)
  BY <1>1, <1>3, <1>7, LinksHeld
<1>10. AccuOK("SPAN_ATTRS", attrs) /\ Held("SPAN_ATTRS", attrs) /\ attrs.groups \in 0..n
  BY <1>1, <1>3, EntryAttrs
<1>11. /\ AccuOK("RESOURCE_ATTRS", Main(sent, ids).resAttrs)
       /\ Held("RESOURCE_ATTRS", Main(sent, ids).resAttrs)
       /\ AccuOK("SCOPE_ATTRS", Main(sent, ids).scopeAttrs)
       /\ Held("SCOPE_ATTRS", Main(sent, ids).scopeAttrs)
  BY MainAttrs
<1>12. Main(sent, ids).panics => n > MaxUint16
  <2>1. Main(sent, ids).panics => Panics(ids) \/ n > MaxUint16
    BY <1>1, MainPanics
  <2>2. ASSUME Panics(ids) PROVE n > MaxUint16
    <3>1. PICK referred : referred = [i \in DOMAIN sent |-> HasRelatedData(sent[i].entry)]
      OBVIOUS
    <3>2. DOMAIN referred = 1..n /\ Panics(SparseIds(referred, MaxUint16))
      BY <1>1, <1>2, <2>2, <3>1 DEF SpanIds
    <3> QED
      BY <3>2, PanickingIds
  <2> QED
    BY <2>1, <2>2
<1>13. m.panics => n > MaxUint16
  <2>1. /\ TooManyGroups16(attrs) <=> attrs.groups > MaxUint16
        /\ TooManyGroups16(events) <=> events.groups > MaxUint16
        /\ TooManyGroups16(links) <=> links.groups > MaxUint16
    BY DEF TooManyGroups16
  <2> QED
    BY <1>6, <1>8, <1>9, <1>10, <1>12, <2>1
<1>14. m.panics => Excused
  BY <1>1, <1>13 DEF Excused
<1>15. /\ DOMAIN m.accu = {"RESOURCE_ATTRS", "SCOPE_ATTRS", "SPAN_ATTRS", "SPAN_EVENTS",
                           "SPAN_LINKS"}
       /\ m.accu["RESOURCE_ATTRS"] = Main(sent, ids).resAttrs
       /\ m.accu["SCOPE_ATTRS"] = Main(sent, ids).scopeAttrs
       /\ m.accu["SPAN_ATTRS"] = attrs
       /\ m.accu["SPAN_EVENTS"] = events
       /\ m.accu["SPAN_LINKS"] = links
  BY <1>6
<1>16. \A t \in DOMAIN m.accu : AccuOK(t, m.accu[t]) /\ Held(t, m.accu[t])
  BY <1>8, <1>9, <1>10, <1>11, <1>15
<1> QED
  BY <1>5, <1>8, <1>9, <1>14, <1>15, <1>16

\* The same for logs.
LEMMA LogsMain ==
  ASSUME signal = "logs", SentOK("logs", sent), MaxUint16 \in Nat \ {0}
  PROVE  LET m == AppendLogs(sent) IN
         /\ DOMAIN m.accu = {"RESOURCE_ATTRS", "SCOPE_ATTRS", "LOG_ATTRS"}
         /\ \A t \in DOMAIN m.accu : AccuOK(t, m.accu[t]) /\ Held(t, m.accu[t])
         /\ m.panics => Excused
<1>1. PICK n \in Nat : n = Len(sent) /\ DOMAIN sent = 1..n
  BY SentRows
<1>2. PICK ids : ids = LogIds(sent)
  OBVIOUS
<1>3. PICK attrs : attrs = Filled(NewAccumulator, AddedAttrs(ids))
  OBVIOUS
<1>4. attrs = Filled(NewAccumulator,
                     [i \in DOMAIN sent |-> AppendWithID(ids[i], sent[i].entry.attrs)])
  BY <1>1, <1>3 DEF AddedAttrs
<1>5. PICK m : m = AppendLogs(sent)
  OBVIOUS
<1>6. /\ m.accu = [RESOURCE_ATTRS |-> Main(sent, ids).resAttrs,
                   SCOPE_ATTRS |-> Main(sent, ids).scopeAttrs, LOG_ATTRS |-> attrs]
      /\ m.panics <=> Main(sent, ids).panics \/ TooManyGroups16(attrs)
  BY <1>2, <1>4, <1>5 DEF AppendLogs
<1>10. AccuOK("LOG_ATTRS", attrs) /\ Held("LOG_ATTRS", attrs) /\ attrs.groups \in 0..n
  BY <1>1, <1>3, EntryAttrs
<1>11. /\ AccuOK("RESOURCE_ATTRS", Main(sent, ids).resAttrs)
       /\ Held("RESOURCE_ATTRS", Main(sent, ids).resAttrs)
       /\ AccuOK("SCOPE_ATTRS", Main(sent, ids).scopeAttrs)
       /\ Held("SCOPE_ATTRS", Main(sent, ids).scopeAttrs)
  BY MainAttrs
<1>12. Main(sent, ids).panics => n > MaxUint16
  <2>1. Main(sent, ids).panics => Panics(ids) \/ n > MaxUint16
    BY <1>1, MainPanics
  <2>2. ASSUME Panics(ids) PROVE n > MaxUint16
    <3>1. PICK referred : referred = [i \in DOMAIN sent |-> sent[i].entry.attrs # <<>>]
      OBVIOUS
    <3>2. DOMAIN referred = 1..n /\ Panics(SparseIds(referred, MaxUint16))
      BY <1>1, <1>2, <2>2, <3>1 DEF LogIds
    <3> QED
      BY <3>2, PanickingIds
  <2> QED
    BY <2>1, <2>2
<1>13. m.panics => n > MaxUint16
  BY <1>6, <1>10, <1>12 DEF TooManyGroups16
<1>14. m.panics => Excused
  BY <1>1, <1>13 DEF Excused
<1>15. /\ DOMAIN m.accu = {"RESOURCE_ATTRS", "SCOPE_ATTRS", "LOG_ATTRS"}
       /\ m.accu["RESOURCE_ATTRS"] = Main(sent, ids).resAttrs
       /\ m.accu["SCOPE_ATTRS"] = Main(sent, ids).scopeAttrs
       /\ m.accu["LOG_ATTRS"] = attrs
  BY <1>6
<1>16. \A t \in DOMAIN m.accu : AccuOK(t, m.accu[t]) /\ Held(t, m.accu[t])
  BY <1>10, <1>11, <1>15
<1> QED
  BY <1>5, <1>14, <1>15, <1>16

\* The rows that a metric adds...
PointRows(id, dps) == [k \in DOMAIN dps |-> DPRow(id, dps[k])]

\* Rows of data points, for the metrics of some types.
PointLists(ids, types) ==
  [i \in 1..Len(sent) |->
     IF sent[i].entry.type \in types THEN PointRows(ids[i], sent[i].entry.dps) ELSE <<>>]

\* How they are added, with or without a group.
AddsPoints(added, ids, types) ==
  /\ added = [i \in 1..Len(sent) |-> added[i]]
  /\ \A i \in 1..Len(sent) :
       \/ /\ sent[i].entry.type \in types
          /\ \/ added[i] = AppendNumberDPs(ids[i], sent[i].entry.dps)
             \/ added[i] = AppendSummaries(ids[i], sent[i].entry.dps)
       \/ sent[i].entry.type \notin types /\ added[i] = NewAccumulator

\* The data points of a metric.
LEMMA SentPoints ==
  ASSUME SentOK("metrics", sent), NEW i \in 1..Len(sent)
  PROVE  /\ List(sent[i].entry.dps)
         /\ \A dp \in Range(sent[i].entry.dps) :
              /\ dp = [data |-> dp.data, attrs |-> dp.attrs, exemplars |-> dp.exemplars]
              /\ AttrList(dp.attrs) /\ List(dp.exemplars)
              /\ \A exemplar \in Range(dp.exemplars) : IsExemplar(exemplar)
<1>1. IsMetric(sent[i].entry)
  BY SentRows DEF RowOK, IsEntry
<1> QED
  BY <1>1, ListsAre, AttrsAre DEF IsMetric, IsPoint

\* Only metrics of a type add data points to the accumulator of its kind.
LEMMA PointListsAre ==
  ASSUME SentOK("metrics", sent), NEW ids, NEW types, NEW i \in 1..Len(sent)
  PROVE  /\ List(PointLists(ids, types)[i])
         /\ sent[i].entry.type \in types =>
              /\ PointLists(ids, types)[i] = PointRows(ids[i], sent[i].entry.dps)
              /\ Len(PointLists(ids, types)[i]) = Len(sent[i].entry.dps)
         /\ sent[i].entry.type \notin types => PointLists(ids, types)[i] = <<>>
<1>1. PICK dps, id, list : /\ dps = sent[i].entry.dps /\ id = ids[i]
                           /\ list = PointLists(ids, types)[i]
  OBVIOUS
<1>2. List(dps)
  BY <1>1, SentPoints
<1>3. ASSUME sent[i].entry.type \in types
      PROVE  /\ list = PointRows(id, dps)
             /\ List(list) /\ Len(list) = Len(dps)
  <2>1. list = PointRows(id, dps)
    BY <1>1, <1>3 DEF PointLists
  <2>2. DOMAIN list = DOMAIN dps /\ list = [k \in DOMAIN dps |-> list[k]]
    BY <2>1 DEF PointRows
  <2> QED
    BY <1>2, <2>1, <2>2, MapIsList
<1>4. ASSUME sent[i].entry.type \notin types PROVE list = <<>> /\ List(list)
  BY <1>1, <1>4, EmptyIsList DEF PointLists
<1> QED
  BY <1>1, <1>3, <1>4

\* The accumulator of a kind holds the data points of each metric of that kind in
\* turn...
LEMMA PointsCollected ==
  ASSUME SentOK("metrics", sent), NEW ids, NEW types, NEW added, AddsPoints(added, ids, types)
  PROVE  Collected(Filled(NewAccumulator, added), Len(sent), PointLists(ids, types))
<1>1. PICK n \in Nat : n = Len(sent)
  BY SentRows
<1>2. PICK lists : lists = PointLists(ids, types)
  OBVIOUS
<1>3. \A i \in 1..n : List(lists[i])
  BY <1>1, <1>2, PointListsAre
<1>4. ASSUME NEW i \in 1..n
      PROVE  added[i] = Group(lists[i]) \/ added[i] = [rows |-> lists[i], groups |-> 0]
  <2>1. CASE sent[i].entry.type \in types
    <3>1. PICK rows : rows = PointRows(ids[i], sent[i].entry.dps)
      OBVIOUS
    <3>2. lists[i] = rows
      <4>1. i \in 1..Len(sent)
        BY <1>1
      <4>2. PointLists(ids, types)[i] = PointRows(ids[i], sent[i].entry.dps)
        BY <2>1, <4>1, PointListsAre
      <4> QED
        BY <1>2, <3>1, <4>2
    <3>3. AppendSummaries(ids[i], sent[i].entry.dps) = Group(rows)
      BY <3>1 DEF AppendSummaries, PointRows
    <3>4. AppendNumberDPs(ids[i], sent[i].entry.dps) = [rows |-> rows, groups |-> 0]
      BY <3>1 DEF AppendNumberDPs, PointRows
    <3>5. \/ added[i] = AppendNumberDPs(ids[i], sent[i].entry.dps)
          \/ added[i] = AppendSummaries(ids[i], sent[i].entry.dps)
      BY <1>1, <2>1 DEF AddsPoints
    <3> QED
      BY <3>2, <3>3, <3>4, <3>5
  <2>2. CASE sent[i].entry.type \notin types
    <3>1. lists[i] = <<>>
      <4>1. i \in 1..Len(sent)
        BY <1>1
      <4>2. PointLists(ids, types)[i] = <<>>
        BY <2>2, <4>1, PointListsAre
      <4> QED
        BY <1>2, <4>2
    <3>2. added[i] = NewAccumulator
      BY <1>1, <2>2 DEF AddsPoints
    <3> QED
      BY <3>1, <3>2 DEF NewAccumulator
  <2> QED
    BY <2>1, <2>2
<1>5. added = [i \in 1..n |-> added[i]]
  BY <1>1 DEF AddsPoints
<1>6. Collected(Filled(NewAccumulator, added), n, lists)
  BY <1>3, <1>4, <1>5, Collecting
<1> QED
  BY <1>1, <1>2, <1>6

\* How many exemplars each data point has.
ExemplarCounts(rows) == [p \in 1..Len(rows) |-> Len(rows[p].exemplars)]

\* They have the attributes and the exemplars of the batch.
LEMMA PointsHeld ==
  ASSUME signal = "metrics", SentOK("metrics", sent), NEW ids, NEW types, NEW a,
         Collected(a, Len(sent), PointLists(ids, types)),
         NEW t \in Points \cup {"SUMMARY_DATA_POINTS"}
  PROVE  AccuOK(t, a) /\ Held(t, a)
<1>1. PICK n \in Nat : n = Len(sent) /\ \A i \in 1..n : sent[i] \in Range(sent)
  BY SentRows
<1>2. PICK lists : lists = PointLists(ids, types)
  OBVIOUS
<1>3. Collected(a, n, lists)
  BY <1>1, <1>2
<1>4. Accu(a)
  BY <1>3, CollectedIs
<1>5. \A row : row \in Range(a.rows) <=> Among(row, n, lists)
  BY <1>3, CollectedIs
<1>6. ASSUME NEW row \in Range(a.rows) PROVE ItemOK(t, row) /\ HeldRow(t, row)
  <2>1. PICK i \in 1..n : row \in Range(lists[i])
    BY <1>5 DEF Among
  <2>2. sent[i].entry.type \in types
    <3>1. Range(<<>>) = {}
      BY DEF Range
    <3>2. i \in 1..Len(sent)
      BY <1>1
    <3>3. sent[i].entry.type \notin types => PointLists(ids, types)[i] = <<>>
      BY <3>2, PointListsAre
    <3> QED
      BY <1>2, <2>1, <3>1, <3>3
  <2>3. PICK dps : dps = sent[i].entry.dps
    OBVIOUS
  <2>4. lists[i] = [k \in DOMAIN dps |-> DPRow(ids[i], dps[k])]
    <3>1. i \in 1..Len(sent)
      BY <1>1
    <3>2. PointLists(ids, types)[i] = PointRows(ids[i], sent[i].entry.dps)
      BY <2>2, <3>1, PointListsAre
    <3> QED
      BY <1>2, <2>3, <3>2 DEF PointRows
  <2>5. PICK k \in DOMAIN dps : row = DPRow(ids[i], dps[k])
    BY <2>1, <2>4 DEF Range
  <2>6. PICK dp \in Range(dps) : dp = dps[k]
    BY DEF Range
  <2>7. row.attrs = dp.attrs /\ row.exemplars = dp.exemplars
    BY <2>5, <2>6 DEF DPRow
  <2>8. /\ AttrList(dp.attrs) /\ List(dp.exemplars)
        /\ \A exemplar \in Range(dp.exemplars) : IsExemplar(exemplar)
    BY <1>1, <2>3, SentPoints
  <2>9. dp \in Holders /\ Range(dp.exemplars) \subseteq Holders
    <3>1. PICK sentRow \in Range(sent) : sentRow = sent[i]
      BY <1>1
    <3>2. /\ Range(sentRow.entry.dps) \subseteq Holders
          /\ \A x \in Range(sentRow.entry.dps) : Range(x.exemplars) \subseteq Holders
      BY HoldersAre
    <3> QED
      BY <2>3, <3>1, <3>2
  <2>10. t \notin Attrs16 \cup Attrs32
    BY Kinds, SMTT(60) DEF Attrs16, Points
  <2> QED
    BY <2>7, <2>8, <2>9, <2>10 DEF ItemOK, HeldRow
<1> QED
  BY <1>4, <1>6 DEF AccuOK, Held

\* The exemplars of one metric.
LEMMA ExemplarsOfPoint ==
  ASSUME SentOK("metrics", sent), NEW i \in 1..Len(sent), NEW dps, dps = sent[i].entry.dps
  PROVE  /\ Lists2(ExemplarListsOf(dps)) /\ Len(ExemplarListsOf(dps)) = Len(dps)
         /\ AllExemplarsOf[i] = FlattenSeq(ExemplarListsOf(dps))
         /\ List(AllExemplarsOf[i])
         /\ Len(AllExemplarsOf[i])
              = Subtotals([k \in 1..Len(dps) |-> Len(dps[k].exemplars)])[Len(dps)]
<1>1. /\ List(dps)
      /\ \A dp \in Range(dps) :
           /\ dp = [data |-> dp.data, attrs |-> dp.attrs, exemplars |-> dp.exemplars]
           /\ AttrList(dp.attrs) /\ List(dp.exemplars)
           /\ \A exemplar \in Range(dp.exemplars) : IsExemplar(exemplar)
  BY SentPoints
<1>2. DOMAIN dps = 1..Len(dps) /\ Len(dps) \in Nat
  BY <1>1, ListDomain DEF List
<1>3. PICK lists : lists = ExemplarListsOf(dps)
  OBVIOUS
<1>4. List(lists) /\ Len(lists) = Len(dps)
  <2>1. DOMAIN lists = DOMAIN dps /\ lists = [k \in DOMAIN dps |-> lists[k]]
    BY <1>3 DEF ExemplarListsOf
  <2> QED
    BY <1>1, <2>1, MapIsList
<1>5. \A k \in 1..Len(dps) : lists[k] = dps[k].exemplars /\ List(lists[k])
  BY <1>1, <1>2, <1>3 DEF ExemplarListsOf, Range
<1>6. Lists2(lists)
  BY <1>4, <1>5 DEF Lists2
<1>7. /\ List(FlattenSeq(lists))
      /\ Len(FlattenSeq(lists)) = Subtotals([k \in 1..Len(lists) |-> Len(lists[k])])[Len(lists)]
  BY <1>6, FlattenIs
<1>8. [k \in 1..Len(lists) |-> Len(lists[k])] = [k \in 1..Len(dps) |-> Len(dps[k].exemplars)]
  BY <1>4, <1>5
<1>9. AllExemplarsOf[i] = FlattenSeq(lists)
  <2>1. i \in DOMAIN sent
    BY SentRows
  <2> QED
    BY <1>3, <2>1 DEF AllExemplarsOf
<1> QED
  BY <1>3, <1>4, <1>6, <1>7, <1>8, <1>9

\* Totals are numbers.
LEMMA TotalsType ==
  ASSUME SentOK("metrics", sent)
  PROVE  TotalOf(PointsOf) \in Nat /\ TotalOf(AllExemplarsOf) \in Nat
<1>1. PICK n \in Nat : n = Len(sent) /\ DOMAIN sent = 1..n
  BY SentRows
<1>2. LensOf(n, PointsOf) \in [1..n -> Nat]
  <2>1. \A i \in 1..n : Len(sent[i].entry.dps) \in Nat
    BY <1>1, SentPoints DEF List
  <2> QED
    BY <1>1, <2>1 DEF LensOf, PointsOf
<1>3. LensOf(n, AllExemplarsOf) \in [1..n -> Nat]
  <2>1. \A i \in 1..n : Len(AllExemplarsOf[i]) \in Nat
    BY <1>1, ExemplarsOfPoint DEF List
  <2> QED
    BY <2>1 DEF LensOf
<1>4. \A values \in [1..n -> Nat] : Subtotals(values)[n] \in Nat
  <2>1. ASSUME NEW values \in [1..n -> Nat] PROVE Subtotals(values)[n] \in Nat
    <3>1. Subtotals(values) \in [0..n -> Nat]
      BY SubtotalsType
    <3> QED
      BY <3>1
  <2> QED
    BY <2>1
<1> QED
  BY <1>1, <1>2, <1>3, <1>4 DEF TotalOf

\* No more data points and exemplars come from it than were sent.
LEMMA PointsTotals ==
  ASSUME SentOK("metrics", sent), NEW ids, NEW types, NEW a,
         Collected(a, Len(sent), PointLists(ids, types))
  PROVE  /\ Len(a.rows) <= TotalOf(PointsOf)
         /\ Subtotals(ExemplarCounts(a.rows))[Len(a.rows)] <= TotalOf(AllExemplarsOf)
<1>1. PICK n \in Nat : n = Len(sent) /\ DOMAIN sent = 1..n
  BY SentRows
<1>2. PICK lists : lists = PointLists(ids, types)
  OBVIOUS
<1>3. Collected(a, n, lists)
  BY <1>1, <1>2
<1>4. PICK lens \in [1..n -> Nat] : lens = LensOf(n, lists)
  BY <1>3, CollectedIs
<1>5. /\ Len(a.rows) = Subtotals(lens)[n]
      /\ \A i \in 1..n : \A k \in 1..Len(lists[i]) :
           a.rows[Subtotals(lens)[i - 1] + k] = lists[i][k]
  <2>1. Len(a.rows) = Subtotals(LensOf(n, lists))[n]
    BY <1>3, CollectedIs
  <2>2. \A i \in 1..n : \A k \in 1..Len(lists[i]) :
          a.rows[Subtotals(LensOf(n, lists))[i - 1] + k] = lists[i][k]
    <3>1. Laid(a, n, lists)
      BY <1>3, CollectedIs
    <3> QED
      BY <3>1 DEF Laid
  <2> QED
    BY <1>4, <2>1, <2>2
<1>6. \A i \in 1..n : /\ List(lists[i])
                      /\ sent[i].entry.type \in types =>
                           /\ lists[i] = PointRows(ids[i], sent[i].entry.dps)
                           /\ Len(lists[i]) = Len(sent[i].entry.dps)
                      /\ sent[i].entry.type \notin types => lists[i] = <<>>
  BY <1>1, <1>2, PointListsAre
<1>7. \A i \in 1..n : lens[i] = Len(lists[i])
  BY <1>4 DEF LensOf
<1>8. Len(a.rows) <= TotalOf(PointsOf)
  <2>1. PICK all \in [1..n -> Nat] : all = LensOf(n, PointsOf)
    <3>1. \A i \in 1..n : Len(sent[i].entry.dps) \in Nat
      BY <1>1, SentPoints DEF List
    <3> QED
      BY <1>1, <3>1 DEF LensOf, PointsOf
  <2>2. \A i \in 1..n : lens[i] <= all[i]
    <3>1. \A i \in 1..n : all[i] = Len(sent[i].entry.dps)
      BY <1>1, <2>1 DEF LensOf, PointsOf
    <3>2. ASSUME NEW i \in 1..n PROVE lens[i] <= all[i]
      <4>1. lens[i] = Len(lists[i]) /\ all[i] = Len(sent[i].entry.dps) /\ all[i] \in Nat
        BY <1>7, <2>1, <3>1
      <4>2. CASE sent[i].entry.type \in types
        BY <1>6, <4>1, <4>2
      <4>3. CASE sent[i].entry.type \notin types
        <5>1. lists[i] = <<>>
          BY <1>6, <4>3
        <5> QED
          BY <4>1, <5>1, EmptyIsList
      <4> QED
        BY <4>2, <4>3
    <3> QED
      BY <3>2
  <2>3. n \in 0..n
    OBVIOUS
  <2>4. Subtotals(lens)[n] <= Subtotals(all)[n]
    BY <2>2, <2>3, SubtotalsMonotone
  <2> QED
    BY <1>1, <1>5, <2>1, <2>4 DEF TotalOf
<1>9. PICK values : values = ExemplarCounts(a.rows)
  OBVIOUS
<1>10. ASSUME NEW i \in 1..n, NEW k \in 1..lens[i]
       PROVE  /\ Subtotals(lens)[i - 1] + k \in 1..Subtotals(lens)[n]
              /\ values[Subtotals(lens)[i - 1] + k] = Len(lists[i][k].exemplars)
              /\ sent[i].entry.type \in types
              /\ lists[i][k].exemplars = sent[i].entry.dps[k].exemplars
              /\ Len(sent[i].entry.dps[k].exemplars) \in Nat
  <2>1. PICK T \in [0..n -> Nat] : T = Subtotals(lens)
    BY SubtotalsType
  <2>2. T[i] = T[i - 1] + lens[i]
    BY <2>1, SubtotalsType
  <2>3. T[i] <= T[n]
    <3>1. i \in 0..n /\ n \in 0..n /\ i <= n
      OBVIOUS
    <3> QED
      BY <2>1, <3>1, SubtotalsGrow
  <2>4. T[i - 1] + k \in 1..T[n]
    <3>1. T[i - 1] \in Nat /\ T[i] \in Nat /\ T[n] \in Nat /\ lens[i] \in Nat
      BY <2>1
    <3> QED
      BY <2>2, <2>3, <3>1
  <2>5. a.rows[T[i - 1] + k] = lists[i][k]
    BY <1>5, <1>7, <2>1
  <2>6. values[T[i - 1] + k] = Len(lists[i][k].exemplars)
    BY <1>5, <1>9, <2>1, <2>4, <2>5 DEF ExemplarCounts
  <2>7. sent[i].entry.type \in types
    <3>1. ASSUME sent[i].entry.type \notin types PROVE FALSE
      <4>1. lists[i] = <<>>
        BY <1>6, <3>1
      <4>2. lens[i] = 0
        BY <1>7, <4>1, EmptyIsList
      <4> QED
        BY <4>2
    <3> QED
      BY <3>1
  <2>8. PICK dps : dps = sent[i].entry.dps
    OBVIOUS
  <2>9. k \in DOMAIN dps /\ List(dps)
    <3>1. List(dps) /\ k \in 1..Len(dps)
      BY <1>1, <1>6, <1>7, <2>7, <2>8, SentPoints
    <3> QED
      BY <3>1, ListDomain
  <2>10. lists[i][k] = DPRow(ids[i], dps[k])
    BY <1>6, <2>7, <2>8, <2>9 DEF PointRows
  <2>11. List(dps[k].exemplars)
    BY <1>1, <2>8, <2>9, SentPoints DEF Range
  <2> QED
    BY <2>1, <2>4, <2>6, <2>7, <2>8, <2>10, <2>11, SMTT(30) DEF DPRow, List
<1>11. PICK totals \in [1..n -> Nat] : totals = LensOf(n, AllExemplarsOf)
  <2>1. \A i \in 1..n : Len(AllExemplarsOf[i]) \in Nat
    BY <1>1, ExemplarsOfPoint DEF List
  <2> QED
    BY <2>1 DEF LensOf
<1>12. values \in [1..Subtotals(lens)[n] -> Nat]
  <2>1. ASSUME NEW p \in 1..Subtotals(lens)[n] PROVE values[p] \in Nat
    <3>1. Subtotals(lens)[n] \in Nat
      <4>1. Subtotals(lens) \in [0..n -> Nat]
        BY SubtotalsType
      <4> QED
        BY <4>1
    <3>2. PICK i \in 1..n : \E k \in 1..lens[i] : p = Subtotals(lens)[i - 1] + k
      <4>1. p \in Nat /\ p > 0 /\ p <= Subtotals(lens)[n]
        BY <3>1
      <4> QED
        BY <4>1, PlaceInTotal
    <3>3. PICK k \in 1..lens[i] : p = Subtotals(lens)[i - 1] + k
      BY <3>2
    <3> QED
      <4>1. /\ values[Subtotals(lens)[i - 1] + k] = Len(lists[i][k].exemplars)
            /\ lists[i][k].exemplars = sent[i].entry.dps[k].exemplars
            /\ Len(sent[i].entry.dps[k].exemplars) \in Nat
        BY <1>10
      <4> QED
        BY <3>3, <4>1
  <2> QED
    BY <1>5, <1>9, <2>1 DEF ExemplarCounts
<1>13. ASSUME NEW i \in 1..n
       PROVE  Subtotals([k \in 1..lens[i] |-> values[Subtotals(lens)[i - 1] + k]])[lens[i]]
                <= totals[i]
  <2>1. PICK tail : tail = [k \in 1..lens[i] |-> values[Subtotals(lens)[i - 1] + k]]
    OBVIOUS
  <2>2. lens[i] \in Nat /\ totals[i] \in Nat
    BY <1>4, <1>11
  <2>3. CASE sent[i].entry.type \in types
    <3>1. PICK dps : dps = sent[i].entry.dps
      OBVIOUS
    <3>2. lens[i] = Len(dps)
      BY <1>6, <1>7, <2>3, <3>1
    <3>3. tail = [k \in 1..Len(dps) |-> Len(dps[k].exemplars)]
      BY <1>10, <2>1, <3>1, <3>2
    <3>4. totals[i] = Len(AllExemplarsOf[i])
      BY <1>11 DEF LensOf
    <3>5. Len(AllExemplarsOf[i]) = Subtotals(tail)[Len(dps)]
      BY <1>1, <3>1, <3>3, ExemplarsOfPoint, ZenonT(30)
    <3>6. Subtotals(tail)[lens[i]] = totals[i]
      BY <3>2, <3>4, <3>5
    <3>7. Subtotals(tail)[lens[i]] <= totals[i]
      BY <2>2, <3>6
    <3> QED
      BY <2>1, <3>7
  <2>4. CASE sent[i].entry.type \notin types
    <3>1. lens[i] = 0
      BY <1>6, <1>7, <2>4, EmptyIsList
    <3>2. tail \in [1..0 -> Nat]
      BY <2>1, <3>1
    <3>3. Subtotals(tail)[0] = 0
      BY <3>2, SubtotalsType
    <3> QED
      BY <2>1, <2>2, <3>1, <3>3
  <2> QED
    BY <2>3, <2>4
<1>14. Subtotals(values)[Subtotals(lens)[n]] <= Subtotals(totals)[n]
  BY <1>12, <1>13, TotalOfTotals
<1> QED
  BY <1>1, <1>5, <1>8, <1>9, <1>11, <1>14 DEF TotalOf

\* The types of metrics a record of data points is for.
MetricTypes(t) ==
  CASE t = "NUMBER_DATA_POINTS" -> {Gauge, SumMetric}
    [] t = "SUMMARY_DATA_POINTS" -> {Summary}
    [] t = "HISTOGRAM_DATA_POINTS" -> {Histogram}
    [] t = "EXP_HISTOGRAM_DATA_POINTS" -> {ExponentialHistogram}

\* The four kinds of data points.
PointKinds == {"NUMBER_DATA_POINTS", "SUMMARY_DATA_POINTS", "HISTOGRAM_DATA_POINTS",
               "EXP_HISTOGRAM_DATA_POINTS"}

\* The accumulators after a batch of metrics was appended.
LEMMA MetricsAccus ==
  ASSUME SentOK("metrics", sent), NEW ids, ids = DenseIds(sent, MaxUint16), NEW m,
         m = AppendMetrics(sent)
  PROVE  /\ m.accu = [RESOURCE_ATTRS |-> Main(sent, ids).resAttrs,
                      SCOPE_ATTRS |-> Main(sent, ids).scopeAttrs,
                      NUMBER_DATA_POINTS |-> m.accu["NUMBER_DATA_POINTS"],
                      SUMMARY_DATA_POINTS |-> m.accu["SUMMARY_DATA_POINTS"],
                      HISTOGRAM_DATA_POINTS |-> m.accu["HISTOGRAM_DATA_POINTS"],
                      EXP_HISTOGRAM_DATA_POINTS |-> m.accu["EXP_HISTOGRAM_DATA_POINTS"]]
         /\ \A t \in PointKinds :
              Collected(m.accu[t], Len(sent), PointLists(ids, MetricTypes(t)))
         /\ m.panics <=> \/ Main(sent, ids).panics
                         \/ TooManyGroups32(m.accu["SUMMARY_DATA_POINTS"])
                         \/ TooManyGroups32(m.accu["HISTOGRAM_DATA_POINTS"])
                         \/ TooManyGroups32(m.accu["EXP_HISTOGRAM_DATA_POINTS"])
<1>1. PICK n \in Nat : n = Len(sent) /\ DOMAIN sent = 1..n
  BY SentRows
<1>2. PICK numbers, summaries, histograms, ehistograms :
        /\ numbers = [i \in DOMAIN sent |->
                        IF sent[i].entry.type \in {Gauge, SumMetric}
                        THEN AppendNumberDPs(ids[i], sent[i].entry.dps) ELSE NewAccumulator]
        /\ summaries = [i \in DOMAIN sent |->
                          IF sent[i].entry.type \in {Summary}
                          THEN AppendSummaries(ids[i], sent[i].entry.dps) ELSE NewAccumulator]
        /\ histograms = [i \in DOMAIN sent |->
                           IF sent[i].entry.type \in {Histogram}
                           THEN AppendHistograms(ids[i], sent[i].entry.dps)
                           ELSE NewAccumulator]
        /\ ehistograms = [i \in DOMAIN sent |->
                            IF sent[i].entry.type \in {ExponentialHistogram}
                            THEN AppendEHistograms(ids[i], sent[i].entry.dps)
                            ELSE NewAccumulator]
  OBVIOUS
<1>3. PICK a, b, c, d : /\ a = Filled(NewAccumulator, numbers)
                        /\ b = Filled(NewAccumulator, summaries)
                        /\ c = Filled(NewAccumulator, histograms)
                        /\ d = Filled(NewAccumulator, ehistograms)
  OBVIOUS
<1>4. m.accu = [RESOURCE_ATTRS |-> Main(sent, ids).resAttrs,
                SCOPE_ATTRS |-> Main(sent, ids).scopeAttrs,
                NUMBER_DATA_POINTS |-> a, SUMMARY_DATA_POINTS |-> b,
                HISTOGRAM_DATA_POINTS |-> c, EXP_HISTOGRAM_DATA_POINTS |-> d]
  BY <1>2, <1>3 DEF AppendMetrics
<1>5. m.panics <=> \/ Main(sent, ids).panics
                   \/ \E x \in {b, c, d} : TooManyGroups32(x)
  BY <1>2, <1>3 DEF AppendMetrics
<1>6. /\ m.accu["NUMBER_DATA_POINTS"] = a /\ m.accu["SUMMARY_DATA_POINTS"] = b
      /\ m.accu["HISTOGRAM_DATA_POINTS"] = c /\ m.accu["EXP_HISTOGRAM_DATA_POINTS"] = d
  BY <1>4
<1>7. \A id, dps : /\ AppendHistograms(id, dps) = AppendSummaries(id, dps)
                   /\ AppendEHistograms(id, dps) = AppendSummaries(id, dps)
  BY DEF AppendHistograms, AppendEHistograms, AppendSummaries
<1>8. AddsPoints(numbers, ids, {Gauge, SumMetric})
  BY <1>1, <1>2 DEF AddsPoints
<1>9. AddsPoints(summaries, ids, {Summary})
  BY <1>1, <1>2 DEF AddsPoints
<1>10. AddsPoints(histograms, ids, {Histogram})
  BY <1>1, <1>2, <1>7 DEF AddsPoints
<1>11. AddsPoints(ehistograms, ids, {ExponentialHistogram})
  BY <1>1, <1>2, <1>7 DEF AddsPoints
<1>12. /\ MetricTypes("NUMBER_DATA_POINTS") = {Gauge, SumMetric}
       /\ MetricTypes("SUMMARY_DATA_POINTS") = {Summary}
       /\ MetricTypes("HISTOGRAM_DATA_POINTS") = {Histogram}
       /\ MetricTypes("EXP_HISTOGRAM_DATA_POINTS") = {ExponentialHistogram}
  BY DEF MetricTypes
<1>13. Collected(a, Len(sent), PointLists(ids, {Gauge, SumMetric}))
  BY <1>3, <1>8, PointsCollected
<1>14. Collected(b, Len(sent), PointLists(ids, {Summary}))
  BY <1>3, <1>9, PointsCollected
<1>15. Collected(c, Len(sent), PointLists(ids, {Histogram}))
  BY <1>3, <1>10, PointsCollected
<1>16. Collected(d, Len(sent), PointLists(ids, {ExponentialHistogram}))
  BY <1>3, <1>11, PointsCollected
<1>17. \A t \in PointKinds :
         Collected(m.accu[t], Len(sent), PointLists(ids, MetricTypes(t)))
  BY <1>6, <1>12, <1>13, <1>14, <1>15, <1>16 DEF PointKinds
<1> QED
  BY <1>4, <1>5, <1>6, <1>17

\* The same for metrics.
LEMMA MetricsMain ==
  ASSUME signal = "metrics", SentOK("metrics", sent), MaxUint16 \in Nat \ {0},
         MaxUint32 \in Nat
  PROVE  LET m == AppendMetrics(sent) IN
         /\ DOMAIN m.accu = {"RESOURCE_ATTRS", "SCOPE_ATTRS"} \cup PointKinds
         /\ \A t \in DOMAIN m.accu : AccuOK(t, m.accu[t]) /\ Held(t, m.accu[t])
         /\ \A t \in PointKinds :
              LET rows == m.accu[t].rows IN
              /\ Len(rows) <= TotalOf(PointsOf)
              /\ Subtotals(ExemplarCounts(rows))[Len(rows)] <= TotalOf(AllExemplarsOf)
         /\ m.panics => Excused
<1>1. PICK n \in Nat : n = Len(sent) /\ DOMAIN sent = 1..n
  BY SentRows
<1>2. PICK ids : ids = DenseIds(sent, MaxUint16)
  OBVIOUS
<1>3. PICK m : m = AppendMetrics(sent)
  OBVIOUS
<1>4. /\ DOMAIN m.accu = {"RESOURCE_ATTRS", "SCOPE_ATTRS"} \cup PointKinds
      /\ m.accu["RESOURCE_ATTRS"] = Main(sent, ids).resAttrs
      /\ m.accu["SCOPE_ATTRS"] = Main(sent, ids).scopeAttrs
  <2>1. m.accu = [RESOURCE_ATTRS |-> Main(sent, ids).resAttrs,
                  SCOPE_ATTRS |-> Main(sent, ids).scopeAttrs,
                  NUMBER_DATA_POINTS |-> m.accu["NUMBER_DATA_POINTS"],
                  SUMMARY_DATA_POINTS |-> m.accu["SUMMARY_DATA_POINTS"],
                  HISTOGRAM_DATA_POINTS |-> m.accu["HISTOGRAM_DATA_POINTS"],
                  EXP_HISTOGRAM_DATA_POINTS |-> m.accu["EXP_HISTOGRAM_DATA_POINTS"]]
    BY <1>2, <1>3, MetricsAccus
  <2>2. DOMAIN m.accu = {"RESOURCE_ATTRS", "SCOPE_ATTRS", "NUMBER_DATA_POINTS",
                         "SUMMARY_DATA_POINTS", "HISTOGRAM_DATA_POINTS",
                         "EXP_HISTOGRAM_DATA_POINTS"}
    BY <2>1
  <2> QED
    BY <2>1, <2>2 DEF PointKinds
<1>5. ASSUME NEW t \in PointKinds
      PROVE  /\ AccuOK(t, m.accu[t]) /\ Held(t, m.accu[t])
             /\ Len(m.accu[t].rows) <= TotalOf(PointsOf)
             /\ Subtotals(ExemplarCounts(m.accu[t].rows))[Len(m.accu[t].rows)]
                  <= TotalOf(AllExemplarsOf)
             /\ m.accu[t].groups \in Nat /\ m.accu[t].groups <= TotalOf(PointsOf)
  <2>1. PICK a, types : a = m.accu[t] /\ types = MetricTypes(t)
    OBVIOUS
  <2>2. Collected(a, Len(sent), PointLists(ids, types))
    BY <1>2, <1>3, <2>1, MetricsAccus
  <2>3. t \in Points \cup {"SUMMARY_DATA_POINTS"}
    BY DEF PointKinds, Points
  <2>4. AccuOK(t, a) /\ Held(t, a)
    BY <2>2, <2>3, PointsHeld
  <2>5. /\ Len(a.rows) <= TotalOf(PointsOf)
        /\ Subtotals(ExemplarCounts(a.rows))[Len(a.rows)] <= TotalOf(AllExemplarsOf)
    BY <2>2, PointsTotals
  <2>6. a.groups <= Len(a.rows)
    BY <2>2, CollectedIs
  <2>7. a.groups \in Nat /\ Len(a.rows) \in Nat /\ TotalOf(PointsOf) \in Nat
    BY <2>4, TotalsType DEF AccuOK, Accu, List
  <2>8. a.groups <= TotalOf(PointsOf)
    BY <2>5, <2>6, <2>7
  <2> QED
    BY <2>1, <2>4, <2>5, <2>7, <2>8
<1>6. /\ AccuOK("RESOURCE_ATTRS", Main(sent, ids).resAttrs)
      /\ Held("RESOURCE_ATTRS", Main(sent, ids).resAttrs)
      /\ AccuOK("SCOPE_ATTRS", Main(sent, ids).scopeAttrs)
      /\ Held("SCOPE_ATTRS", Main(sent, ids).scopeAttrs)
  BY MainAttrs
<1>7. Main(sent, ids).panics => n > MaxUint16
  <2>1. Main(sent, ids).panics => Panics(ids) \/ n > MaxUint16
    BY <1>1, MainPanics
  <2>2. ASSUME Panics(ids) PROVE n > MaxUint16
    <3>1. PICK referred : referred = [i \in 1..n |-> TRUE]
      OBVIOUS
    <3>2. List(sent)
      BY DEF SentOK
    <3>3. DenseIds(sent, MaxUint16) = SparseIds([i \in 1..Len(sent) |-> TRUE], MaxUint16)
      BY <3>2, DenseIdsAreSparse
    <3>4. DOMAIN referred = 1..n /\ Panics(SparseIds(referred, MaxUint16))
      BY <1>1, <1>2, <2>2, <3>1, <3>3
    <3> QED
      BY <3>4, PanickingIds
  <2> QED
    BY <2>1, <2>2
<1>8. m.panics => Excused
  <2>1. m.panics <=> \/ Main(sent, ids).panics
                     \/ TooManyGroups32(m.accu["SUMMARY_DATA_POINTS"])
                     \/ TooManyGroups32(m.accu["HISTOGRAM_DATA_POINTS"])
                     \/ TooManyGroups32(m.accu["EXP_HISTOGRAM_DATA_POINTS"])
    BY <1>2, <1>3, MetricsAccus
  <2>2. ASSUME NEW t \in PointKinds, TooManyGroups32(m.accu[t])
        PROVE  TotalOf(PointsOf) > MaxUint32
    <3>1. m.accu[t].groups \in Nat /\ m.accu[t].groups <= TotalOf(PointsOf)
      BY <1>5
    <3>2. m.accu[t].groups > MaxUint32
      BY <2>2 DEF TooManyGroups32
    <3> QED
      BY <3>1, <3>2, TotalsType
  <2>3. m.panics => n > MaxUint16 \/ TotalOf(PointsOf) > MaxUint32
    BY <1>7, <2>1, <2>2 DEF PointKinds
  <2> QED
    BY <1>1, <2>3 DEF Excused
<1>9. \A t \in DOMAIN m.accu : AccuOK(t, m.accu[t]) /\ Held(t, m.accu[t])
  BY <1>4, <1>5, <1>6
<1> QED
  BY <1>3, <1>4, <1>5, <1>8, <1>9

-----------------------------------------------------------------------------
(***************************************************************************)
(* The inductive invariant.                                                *)
(***************************************************************************)

\* What a builder makes of the rows of its accumulator, for any memory of its
\* sorter.
SortedOf(t, rows) ==
  CASE t = "SPAN_EVENTS" -> SortRows(EventLess, rows)
    [] t = "SPAN_LINKS" -> SortRows(LinkLess, rows)
    [] t \in PointKinds -> SortRows(ParentLess, rows)
    [] OTHER -> SortRows(ExemplarLess, rows)

\* The ids of the rows of a record...
ItemIds(t, rows) == IF t \in PointKinds THEN DPIds(rows) ELSE IdsIfAttrs(rows)

\* ... their parents as they are written...
ItemParents(t, rows) ==
  CASE t = "SPAN_EVENTS" -> EncodeParents(SameName, ResetSorter(<<>>), rows, MaxUint16)
    [] t = "SPAN_LINKS" -> EncodeParents(SameTrace, ResetSorter(<<>>), rows, MaxUint16)
    [] t \in PointKinds -> EncodeParents(AnyGroup, ResetSorter(<<>>), rows, MaxUint16)
    [] OTHER -> EncodeParents(EqualExemplar, ResetSorter(<<>>), rows, MaxUint32)

\* ... and the record.
ItemRows(t, rows) == WriteRows(rows, ItemIds(t, rows), ItemParents(t, rows))

\* The record that an accumulator gives.
BuiltRows(t, a) ==
  CASE t \in Attrs16 -> TryBuildAttrs16(a, <<>>).rows
    [] t \in Attrs32 -> TryBuildAttrs32(a, <<>>).rows
    [] t \in Parents -> ItemRows(t, SortedOf(t, a.rows))

\* The accumulator of the attributes of these rows...
ItemAttrs(t, rows) == AccumulateAttrs(NewAccumulator, rows, ItemIds(t, rows))

\* ... for the rows of an accumulator.
BuiltAttrs(t, a) == ItemAttrs(t, SortedOf(t, a.rows))

\* The row of an exemplar.
ExemplarRow(id, exemplar) ==
  [parent |-> id, attrs |-> exemplar.attrs,
   cols |-> [value |-> exemplar.value, data |-> exemplar.data]]

\* The exemplars of these data points, numbered as they come.
FromPoints(row, points) ==
  \E k \in 1..Len(points) : \E exemplar \in Range(points[k].exemplars) :
    row = ExemplarRow(k - 1, exemplar)

\* The records that have been built.
Done == {Declared(signal)[n] : n \in 1..(next - 1)}

\* Every try so far may have left each exemplar of the batch once.
MostExemplars(t) ==
  (updates + (IF t \in Done THEN 1 ELSE 0)) * TotalOf(AllExemplarsOf)

\* All tries together left each exemplar at least once for every try that
\* was not the last, and nothing else.
ExemplarsOK(t) ==
  LET e == accu[ExemplarsOf[t]]
      points == SortedOf(t, accu[t].rows)
  IN  /\ e.groups <= Len(e.rows) /\ Len(e.rows) <= MostExemplars(t)
      /\ \A row \in Range(e.rows) : FromPoints(row, points)
      /\ t \in Done => \A k \in 1..Len(points) : \A exemplar \in Range(points[k].exemplars) :
                         ExemplarRow(k - 1, exemplar) \in Range(e.rows)

\* A record that is done has its attributes in their accumulator, and one to come has
\* not.
AttrsOK(t) ==
  /\ t \in Done => /\ ~Panics(ItemIds(t, SortedOf(t, accu[t].rows)))
                   /\ accu[AttrsOf[t]] = BuiltAttrs(t, accu[t])
  /\ t \notin Done /\ (t = Turn => accu[t].rows = <<>>) => accu[AttrsOf[t]] = NewAccumulator

\* Records are built in their turn from their accumulators.
RecordOK(t) ==
  records[t] = IF t \in Done THEN BuiltRows(t, accu[t]) ELSE <<>>

\* The batch as it is while its related records are built.
Related ==
  /\ main = AppendMain(signal, sent) /\ ~main.panics
  /\ \A t \in DOMAIN main.accu : accu[t] = main.accu[t]
  /\ \A t \in Types(signal) : Held(t, accu[t]) /\ RecordOK(t)
  /\ \A t \in Types(signal) \cap Parents : AttrsOK(t)
  /\ \A t \in Types(signal) \cap Points : ExemplarsOK(t)

\* What has been built depends on the batch alone, in every phase.
Inv ==
  /\ TypeOK
  /\ DOMAIN accu = Types(signal) /\ DOMAIN sorters = Types(signal)
  /\ SentOK(signal, sent)
  /\ \A t \in Types(signal) : AccuOK(t, accu[t])
  /\ phase = "main" => next = 1 /\ records = NoRecords(signal)
  /\ phase \in {"related", "received", "unreadable"} => Related
  /\ phase \in {"received", "unreadable"} => next = Len(Declared(signal)) + 1
  /\ phase = "received" => received = Decoded(signal, main, records)
  /\ phase = "unreadable" => AttributePanics
  /\ phase = "panicked" => Excused

-----------------------------------------------------------------------------
(***************************************************************************)
(* The order of the builders.                                              *)
(***************************************************************************)

\* The turns in which the related records are built.
Position ==
  [RESOURCE_ATTRS |-> 1, SCOPE_ATTRS |-> 2,
   SPAN_ATTRS |-> 3, SPAN_EVENTS |-> 4, SPAN_LINKS |-> 5,
   SPAN_EVENT_ATTRS |-> 6, SPAN_LINK_ATTRS |-> 7,
   LOG_ATTRS |-> 3,
   NUMBER_DATA_POINTS |-> 3, NUMBER_DP_ATTRS |-> 4,
   NUMBER_DP_EXEMPLARS |-> 5, NUMBER_DP_EXEMPLAR_ATTRS |-> 6,
   SUMMARY_DATA_POINTS |-> 7, SUMMARY_DP_ATTRS |-> 8,
   HISTOGRAM_DATA_POINTS |-> 9, HISTOGRAM_DP_ATTRS |-> 10,
   HISTOGRAM_DP_EXEMPLARS |-> 11, HISTOGRAM_DP_EXEMPLAR_ATTRS |-> 12,
   EXP_HISTOGRAM_DATA_POINTS |-> 13, EXP_HISTOGRAM_DP_ATTRS |-> 14,
   EXP_HISTOGRAM_DP_EXEMPLARS |-> 15, EXP_HISTOGRAM_DP_EXEMPLAR_ATTRS |-> 16]

\* The related records of traces, logs and metrics.
TracesTypes == {"RESOURCE_ATTRS", "SCOPE_ATTRS", "SPAN_ATTRS", "SPAN_EVENTS", "SPAN_LINKS",
                "SPAN_EVENT_ATTRS", "SPAN_LINK_ATTRS"}

LogsTypes == {"RESOURCE_ATTRS", "SCOPE_ATTRS", "LOG_ATTRS"}

MetricsTypes ==
  {"RESOURCE_ATTRS", "SCOPE_ATTRS", "NUMBER_DATA_POINTS", "NUMBER_DP_ATTRS",
   "NUMBER_DP_EXEMPLARS", "NUMBER_DP_EXEMPLAR_ATTRS",
   "SUMMARY_DATA_POINTS", "SUMMARY_DP_ATTRS",
   "HISTOGRAM_DATA_POINTS", "HISTOGRAM_DP_ATTRS",
   "HISTOGRAM_DP_EXEMPLARS", "HISTOGRAM_DP_EXEMPLAR_ATTRS",
   "EXP_HISTOGRAM_DATA_POINTS", "EXP_HISTOGRAM_DP_ATTRS",
   "EXP_HISTOGRAM_DP_EXEMPLARS", "EXP_HISTOGRAM_DP_EXEMPLAR_ATTRS"}

\* All signals.
Signals3 == {"traces", "logs", "metrics"}

\* The order in which the related records of traces are declared and built...
LEMMA TracesOrder ==
  /\ Declared("traces") = TracesDeclared /\ Len(TracesDeclared) = 7
  /\ Types("traces") = TracesTypes
  /\ \A n \in 1..7 : Position[TracesDeclared[n]] = n
<1>1. Declared("traces") = TracesDeclared /\ Len(TracesDeclared) = 7
      /\ DOMAIN TracesDeclared = 1..7
  BY DEF Declared, TracesDeclared
<1>2. /\ TracesDeclared[1] = "RESOURCE_ATTRS" /\ TracesDeclared[2] = "SCOPE_ATTRS"
      /\ TracesDeclared[3] = "SPAN_ATTRS" /\ TracesDeclared[4] = "SPAN_EVENTS"
      /\ TracesDeclared[5] = "SPAN_LINKS" /\ TracesDeclared[6] = "SPAN_EVENT_ATTRS"
      /\ TracesDeclared[7] = "SPAN_LINK_ATTRS"
  BY DEF TracesDeclared
<1>3. \A n \in 1..7 : n = 1 \/ n = 2 \/ n = 3 \/ n = 4 \/ n = 5 \/ n = 6 \/ n = 7
  OBVIOUS
<1>4. Types("traces") = TracesTypes
  BY <1>1, <1>2, <1>3 DEF Types, TracesTypes
<1>5. \A n \in 1..7 : Position[TracesDeclared[n]] = n
  BY <1>2, <1>3 DEF Position
<1> QED
  BY <1>1, <1>4, <1>5

\* ... those of logs...
LEMMA LogsOrder ==
  /\ Declared("logs") = LogsDeclared /\ Len(LogsDeclared) = 3
  /\ Types("logs") = LogsTypes
  /\ \A n \in 1..3 : Position[LogsDeclared[n]] = n
<1>1. Declared("logs") = LogsDeclared /\ Len(LogsDeclared) = 3
      /\ DOMAIN LogsDeclared = 1..3
  BY DEF Declared, LogsDeclared
<1>2. /\ LogsDeclared[1] = "RESOURCE_ATTRS" /\ LogsDeclared[2] = "SCOPE_ATTRS"
      /\ LogsDeclared[3] = "LOG_ATTRS"
  BY DEF LogsDeclared
<1>3. \A n \in 1..3 : n = 1 \/ n = 2 \/ n = 3
  OBVIOUS
<1>4. Types("logs") = LogsTypes
  BY <1>1, <1>2, <1>3 DEF Types, LogsTypes
<1>5. \A n \in 1..3 : Position[LogsDeclared[n]] = n
  BY <1>2, <1>3 DEF Position
<1> QED
  BY <1>1, <1>4, <1>5

\* ... and those of metrics.
LEMMA MetricsOrder ==
  /\ Declared("metrics") = MetricsDeclared /\ Len(MetricsDeclared) = 16
  /\ Types("metrics") = MetricsTypes
  /\ \A n \in 1..16 : Position[MetricsDeclared[n]] = n
<1>1. Declared("metrics") = MetricsDeclared /\ Len(MetricsDeclared) = 16
      /\ DOMAIN MetricsDeclared = 1..16
  BY DEF Declared, MetricsDeclared
<1>2. /\ MetricsDeclared[1] = "RESOURCE_ATTRS" /\ MetricsDeclared[2] = "SCOPE_ATTRS"
      /\ MetricsDeclared[3] = "NUMBER_DATA_POINTS" /\ MetricsDeclared[4] = "NUMBER_DP_ATTRS"
      /\ MetricsDeclared[5] = "NUMBER_DP_EXEMPLARS"
      /\ MetricsDeclared[6] = "NUMBER_DP_EXEMPLAR_ATTRS"
      /\ MetricsDeclared[7] = "SUMMARY_DATA_POINTS" /\ MetricsDeclared[8] = "SUMMARY_DP_ATTRS"
      /\ MetricsDeclared[9] = "HISTOGRAM_DATA_POINTS"
      /\ MetricsDeclared[10] = "HISTOGRAM_DP_ATTRS"
      /\ MetricsDeclared[11] = "HISTOGRAM_DP_EXEMPLARS"
      /\ MetricsDeclared[12] = "HISTOGRAM_DP_EXEMPLAR_ATTRS"
      /\ MetricsDeclared[13] = "EXP_HISTOGRAM_DATA_POINTS"
      /\ MetricsDeclared[14] = "EXP_HISTOGRAM_DP_ATTRS"
      /\ MetricsDeclared[15] = "EXP_HISTOGRAM_DP_EXEMPLARS"
      /\ MetricsDeclared[16] = "EXP_HISTOGRAM_DP_EXEMPLAR_ATTRS"
  BY DEF MetricsDeclared
<1>3. \A n \in 1..16 : \/ n = 1 \/ n = 2 \/ n = 3 \/ n = 4 \/ n = 5 \/ n = 6 \/ n = 7 \/ n = 8
                       \/ n = 9 \/ n = 10 \/ n = 11 \/ n = 12 \/ n = 13 \/ n = 14 \/ n = 15
                       \/ n = 16
  OBVIOUS
<1>4. Types("metrics") = MetricsTypes
  BY <1>1, <1>2, <1>3 DEF Types, MetricsTypes
<1>5. \A n \in 1..16 : Position[MetricsDeclared[n]] = n
  BY <1>2, <1>3 DEF Position
<1> QED
  BY <1>1, <1>4, <1>5

\* The position of a record is its turn.
LEMMA Ordered ==
  ASSUME NEW s \in Signals3
  PROVE  /\ Len(Declared(s)) \in Nat /\ Len(Declared(s)) >= 3
         /\ Types(s) = {Declared(s)[n] : n \in 1..Len(Declared(s))}
         /\ \A n \in 1..Len(Declared(s)) : Position[Declared(s)[n]] = n
<1>1. /\ Len(Declared(s)) \in Nat /\ Len(Declared(s)) >= 3
      /\ \A n \in 1..Len(Declared(s)) : Position[Declared(s)[n]] = n
  <2>1. CASE s = "traces"
    <3>1. Declared(s) = TracesDeclared /\ Len(TracesDeclared) = 7
      BY <2>1, TracesOrder
    <3>2. Len(Declared(s)) = 7
      BY <3>1
    <3>3. \A n \in 1..7 : Position[Declared(s)[n]] = n
      BY <3>1, TracesOrder
    <3> QED
      BY <3>2, <3>3
  <2>2. CASE s = "logs"
    <3>1. Declared(s) = LogsDeclared /\ Len(LogsDeclared) = 3
      BY <2>2, LogsOrder
    <3>2. Len(Declared(s)) = 3
      BY <3>1
    <3>3. \A n \in 1..3 : Position[Declared(s)[n]] = n
      BY <3>1, LogsOrder
    <3> QED
      BY <3>2, <3>3
  <2>3. CASE s = "metrics"
    <3>1. Declared(s) = MetricsDeclared /\ Len(MetricsDeclared) = 16
      BY <2>3, MetricsOrder
    <3>2. Len(Declared(s)) = 16
      BY <3>1
    <3>3. \A n \in 1..16 : Position[Declared(s)[n]] = n
      BY <3>1, MetricsOrder
    <3> QED
      BY <3>2, <3>3
  <2> QED
    BY <2>1, <2>2, <2>3 DEF Signals3
<1>2. DOMAIN Declared(s) = 1..Len(Declared(s))
  BY TracesOrder, LogsOrder, MetricsOrder
     DEF Signals3, TracesDeclared, LogsDeclared, MetricsDeclared
<1> QED
  BY <1>1, <1>2 DEF Types

\* What belongs to a record is built later, in a record of its own.
LEMMA Belongings ==
  ASSUME NEW s \in Signals3
  PROVE  /\ \A t \in Types(s) \cap Parents :
              /\ AttrsOf[t] \in Types(s) /\ AttrsOf[t] \in Attrs32 /\ AttrsOf[t] \notin Parents
              /\ Position[AttrsOf[t]] > Position[t]
         /\ \A t, u \in Parents : AttrsOf[t] = AttrsOf[u] => t = u
         /\ \A t \in Types(s) \cap Points :
              /\ ExemplarsOf[t] \in Types(s) /\ ExemplarsOf[t] \in Parents
              /\ ExemplarsOf[t] \notin PointKinds
              /\ Position[ExemplarsOf[t]] > Position[t]
         /\ \A t, u \in Points : ExemplarsOf[t] = ExemplarsOf[u] => t = u
<1>1. /\ AttrsOf["SPAN_EVENTS"] = "SPAN_EVENT_ATTRS"
      /\ AttrsOf["SPAN_LINKS"] = "SPAN_LINK_ATTRS"
      /\ AttrsOf["NUMBER_DATA_POINTS"] = "NUMBER_DP_ATTRS"
      /\ AttrsOf["NUMBER_DP_EXEMPLARS"] = "NUMBER_DP_EXEMPLAR_ATTRS"
      /\ AttrsOf["SUMMARY_DATA_POINTS"] = "SUMMARY_DP_ATTRS"
      /\ AttrsOf["HISTOGRAM_DATA_POINTS"] = "HISTOGRAM_DP_ATTRS"
      /\ AttrsOf["HISTOGRAM_DP_EXEMPLARS"] = "HISTOGRAM_DP_EXEMPLAR_ATTRS"
      /\ AttrsOf["EXP_HISTOGRAM_DATA_POINTS"] = "EXP_HISTOGRAM_DP_ATTRS"
      /\ AttrsOf["EXP_HISTOGRAM_DP_EXEMPLARS"] = "EXP_HISTOGRAM_DP_EXEMPLAR_ATTRS"
  BY DEF AttrsOf
<1>2. /\ ExemplarsOf["NUMBER_DATA_POINTS"] = "NUMBER_DP_EXEMPLARS"
      /\ ExemplarsOf["HISTOGRAM_DATA_POINTS"] = "HISTOGRAM_DP_EXEMPLARS"
      /\ ExemplarsOf["EXP_HISTOGRAM_DATA_POINTS"] = "EXP_HISTOGRAM_DP_EXEMPLARS"
  BY DEF ExemplarsOf
<1>3. \A t, u \in Parents : AttrsOf[t] = AttrsOf[u] => t = u
  BY <1>1 DEF Parents
<1>4. \A t, u \in Points : ExemplarsOf[t] = ExemplarsOf[u] => t = u
  BY <1>2 DEF Points
<1>5. \A t \in Parents : AttrsOf[t] \in Attrs32 /\ AttrsOf[t] \notin Parents
  <2>1. \A t \in Parents : AttrsOf[t] \in Attrs32
    BY Kinds DEF Attrs32
  <2>2. \A t \in Parents : AttrsOf[t] \notin Parents
    BY <1>1 DEF Parents
  <2> QED
    BY <2>1, <2>2
<1>6. \A t \in Parents : Position[AttrsOf[t]] > Position[t]
  BY <1>1 DEF Parents, Position
<1>7. \A t \in Points : /\ ExemplarsOf[t] \in Parents /\ ExemplarsOf[t] \notin PointKinds
                        /\ Position[ExemplarsOf[t]] > Position[t]
  BY <1>2 DEF Points, Parents, Position, PointKinds
<1>8. Types(s) = TracesTypes \/ Types(s) = LogsTypes \/ Types(s) = MetricsTypes
  BY TracesOrder, LogsOrder, MetricsOrder DEF Signals3
<1>9. \A t \in Types(s) \cap Parents : AttrsOf[t] \in Types(s)
  <2>1. \A t \in TracesTypes \cap Parents : AttrsOf[t] \in TracesTypes
    BY <1>1 DEF TracesTypes, Parents
  <2>2. \A t \in LogsTypes \cap Parents : AttrsOf[t] \in LogsTypes
    BY DEF LogsTypes, Parents
  <2>3. \A t \in MetricsTypes \cap Parents : AttrsOf[t] \in MetricsTypes
    BY <1>1 DEF MetricsTypes, Parents
  <2> QED
    BY <1>8, <2>1, <2>2, <2>3
<1>10. \A t \in Types(s) \cap Points : ExemplarsOf[t] \in Types(s)
  <2>1. TracesTypes \cap Points = {} /\ LogsTypes \cap Points = {}
    BY DEF TracesTypes, LogsTypes, Points
  <2>2. \A t \in MetricsTypes \cap Points : ExemplarsOf[t] \in MetricsTypes
    BY <1>2 DEF MetricsTypes, Points
  <2> QED
    BY <1>8, <2>1, <2>2
<1> QED
  BY <1>3, <1>4, <1>5, <1>6, <1>7, <1>9, <1>10

\* Every record of 32-bit attributes belongs to the rows of another of the signal.
LEMMA BelongsTo ==
  ASSUME NEW s \in Signals3, NEW t \in Types(s) \cap Attrs32
  PROVE  \E u \in Types(s) \cap Parents : t = AttrsOf[u]
<1>1. PICK u \in Parents : t = AttrsOf[u]
  BY Kinds DEF Attrs32
<1>2. /\ AttrsOf["SPAN_EVENTS"] = "SPAN_EVENT_ATTRS"
      /\ AttrsOf["SPAN_LINKS"] = "SPAN_LINK_ATTRS"
      /\ AttrsOf["NUMBER_DATA_POINTS"] = "NUMBER_DP_ATTRS"
      /\ AttrsOf["NUMBER_DP_EXEMPLARS"] = "NUMBER_DP_EXEMPLAR_ATTRS"
      /\ AttrsOf["SUMMARY_DATA_POINTS"] = "SUMMARY_DP_ATTRS"
      /\ AttrsOf["HISTOGRAM_DATA_POINTS"] = "HISTOGRAM_DP_ATTRS"
      /\ AttrsOf["HISTOGRAM_DP_EXEMPLARS"] = "HISTOGRAM_DP_EXEMPLAR_ATTRS"
      /\ AttrsOf["EXP_HISTOGRAM_DATA_POINTS"] = "EXP_HISTOGRAM_DP_ATTRS"
      /\ AttrsOf["EXP_HISTOGRAM_DP_EXEMPLARS"] = "EXP_HISTOGRAM_DP_EXEMPLAR_ATTRS"
  BY SMTT(30) DEF AttrsOf
<1>3. Types(s) = TracesTypes \/ Types(s) = LogsTypes \/ Types(s) = MetricsTypes
  BY TracesOrder, LogsOrder, MetricsOrder DEF Signals3
<1>4. CASE Types(s) = TracesTypes
  BY <1>1, <1>2, <1>4 DEF TracesTypes, Parents
<1>5. CASE Types(s) = LogsTypes
  BY <1>1, <1>2, <1>5 DEF LogsTypes, Parents
<1>6. CASE Types(s) = MetricsTypes
  BY <1>1, <1>2, <1>6 DEF MetricsTypes, Parents
<1> QED
  BY <1>1, <1>3, <1>4, <1>5, <1>6

\* What is done before a turn.
LEMMA Turns ==
  ASSUME NEW s \in Signals3, s = signal, next \in 1..(Len(Declared(s)) + 1)
  PROVE  /\ Done \subseteq Types(s)
         /\ \A t \in Types(s) : t \in Done <=> Position[t] < next
         /\ next <= Len(Declared(s)) =>
              /\ Turn \in Types(s) /\ Turn \notin Done /\ Position[Turn] = next
              /\ \A t \in Types(s) : Position[t] = next => t = Turn
         /\ next > Len(Declared(s)) => Done = Types(s)
<1>1. PICK d, m : d = Declared(s) /\ m = Len(d)
  OBVIOUS
<1>2. /\ m \in Nat /\ Types(s) = {d[n] : n \in 1..m}
      /\ \A n \in 1..m : Position[d[n]] = n
  BY <1>1, Ordered
<1>3. Done = {d[n] : n \in 1..(next - 1)} /\ Turn = d[next]
  BY <1>1 DEF Done, Turn
<1>4. next \in Nat /\ next - 1 <= m
  BY <1>1, <1>2
<1>5. Done \subseteq Types(s)
  BY <1>2, <1>3, <1>4
<1>6. \A t \in Types(s) : t \in Done <=> Position[t] < next
  BY <1>2, <1>3, <1>4
<1>7. next <= m => /\ Turn \in Types(s) /\ Turn \notin Done /\ Position[Turn] = next
                   /\ \A t \in Types(s) : Position[t] = next => t = Turn
  BY <1>2, <1>3, <1>4
<1>8. next > m => Done = Types(s)
  BY <1>2, <1>3, <1>4
<1> QED
  BY <1>1, <1>5, <1>6, <1>7, <1>8

-----------------------------------------------------------------------------
(***************************************************************************)
(* What a try builds.                                                      *)
(***************************************************************************)

\* What a try to build this record leaves.
Built(built, t, a, prev, other) ==
  LET sorted == SortedOf(t, a.rows) IN
  /\ built.rows = ItemRows(t, sorted) /\ built.attrs = ItemAttrs(t, sorted)
  /\ built.prev = Remembered(prev, sorted)
  /\ built.panics
       <=> Panics(ItemIds(t, sorted)) \/ TooManyGroups32(ItemAttrs(t, sorted)) \/ other

\* What a try to build events leaves, whatever the sorter remembers...
LEMMA EventsBuilt ==
  ASSUME NEW a, NEW prev, NEW attrs
  PROVE  Built(TryBuildEvents(a, prev, attrs), "SPAN_EVENTS", a, prev, FALSE)
<1>1. /\ SortedOf("SPAN_EVENTS", a.rows) = SortRows(EventLess, a.rows)
      /\ \A rows : /\ ItemIds("SPAN_EVENTS", rows) = IdsIfAttrs(rows)
                   /\ ItemParents("SPAN_EVENTS", rows)
                        = EncodeParents(SameName, ResetSorter(prev), rows, MaxUint16)
  BY DEF SortedOf, ItemIds, ItemParents, PointKinds, ResetSorter
<1> QED
  BY <1>1 DEF Built, TryBuildEvents, TryBuild, ItemRows, ItemAttrs, AccumulateAttrs,
              ResetAccumulator

\* ... links...
LEMMA LinksBuilt ==
  ASSUME NEW a, NEW prev, NEW attrs
  PROVE  Built(TryBuildLinks(a, prev, attrs), "SPAN_LINKS", a, prev, FALSE)
<1>1. /\ SortedOf("SPAN_LINKS", a.rows) = SortRows(LinkLess, a.rows)
      /\ \A rows : /\ ItemIds("SPAN_LINKS", rows) = IdsIfAttrs(rows)
                   /\ ItemParents("SPAN_LINKS", rows)
                        = EncodeParents(SameTrace, ResetSorter(prev), rows, MaxUint16)
  BY DEF SortedOf, ItemIds, ItemParents, PointKinds, ResetSorter
<1> QED
  BY <1>1 DEF Built, TryBuildLinks, TryBuild, ItemRows, ItemAttrs, AccumulateAttrs,
              ResetAccumulator

\* The three records of exemplars.
ExemplarKinds ==
  {"NUMBER_DP_EXEMPLARS", "HISTOGRAM_DP_EXEMPLARS", "EXP_HISTOGRAM_DP_EXEMPLARS"}

\* ... exemplars...
LEMMA ExemplarsBuilt ==
  ASSUME NEW t \in ExemplarKinds, NEW a, NEW prev, NEW attrs
  PROVE  Built(TryBuildExemplars(a, prev, attrs), t, a, prev, FALSE)
<1>1. t \notin PointKinds /\ t # "SPAN_EVENTS" /\ t # "SPAN_LINKS"
  BY DEF PointKinds, ExemplarKinds
<1>2. /\ SortedOf(t, a.rows) = SortRows(ExemplarLess, a.rows)
      /\ \A rows : /\ ItemIds(t, rows) = IdsIfAttrs(rows)
                   /\ ItemParents(t, rows)
                        = EncodeParents(EqualExemplar, ResetSorter(prev), rows, MaxUint32)
  BY <1>1 DEF SortedOf, ItemIds, ItemParents, ResetSorter
<1> QED
  BY <1>2 DEF Built, TryBuildExemplars, TryBuild, ItemRows, ItemAttrs, AccumulateAttrs,
              ResetAccumulator

\* ... summaries...
LEMMA SummariesBuilt ==
  ASSUME NEW t \in PointKinds, NEW a, NEW prev, NEW attrs
  PROVE  Built(TryBuildSummaries(a, prev, attrs), t, a, prev, FALSE)
<1>1. t # "SPAN_EVENTS" /\ t # "SPAN_LINKS"
  BY DEF PointKinds
<1>2. /\ SortedOf(t, a.rows) = SortRows(ParentLess, a.rows)
      /\ \A rows : /\ ItemIds(t, rows) = DPIds(rows)
                   /\ ItemParents(t, rows)
                        = EncodeParents(AnyGroup, ResetSorter(prev), rows, MaxUint16)
  BY <1>1 DEF SortedOf, ItemIds, ItemParents, ResetSorter
<1> QED
  BY <1>2 DEF Built, TryBuildSummaries, TryBuild, ItemRows, ItemAttrs, AccumulateAttrs,
              ResetAccumulator

\* The exemplars of sorted data points, added to those of earlier tries.
Exemplified(exemplars, points) ==
  Filled(exemplars, [k \in DOMAIN points |-> AppendExemplars(k - 1, points[k].exemplars)])

\* ... and the other data points, whose exemplars it adds once more.
LEMMA PointsBuilt ==
  ASSUME NEW t \in PointKinds, NEW a, NEW prev, NEW attrs, NEW exemplars
  PROVE  LET built == TryBuildDPs(a, prev, attrs, exemplars) IN
         /\ built.exemplars = Exemplified(exemplars, SortedOf(t, a.rows))
         /\ Built(built, t, a, prev, TooManyGroups32(built.exemplars))
<1>1. PICK one : one = TryBuildSummaries(a, prev, attrs)
  OBVIOUS
<1>2. Built(one, t, a, prev, FALSE)
  BY <1>1, SummariesBuilt
<1>3. one = TryBuild(ParentLess, AnyGroup, DPIds, MaxUint16, a, prev, attrs)
  BY <1>1 DEF TryBuildSummaries
<1>4. t # "SPAN_EVENTS" /\ t # "SPAN_LINKS"
  BY DEF PointKinds
<1>5. SortedOf(t, a.rows) = SortRows(ParentLess, a.rows)
  BY <1>4 DEF SortedOf
<1>6. PICK built : built = TryBuildDPs(a, prev, attrs, exemplars)
  OBVIOUS
<1>7. built = [rows |-> one.rows, prev |-> one.prev, attrs |-> one.attrs,
               exemplars |-> Exemplified(exemplars, SortedOf(t, a.rows)),
               panics |-> \/ one.panics
                          \/ TooManyGroups32(Exemplified(exemplars, SortedOf(t, a.rows)))]
  BY <1>3, <1>5, <1>6 DEF TryBuildDPs, Exemplified
<1>8. /\ built.rows = one.rows /\ built.prev = one.prev /\ built.attrs = one.attrs
      /\ built.exemplars = Exemplified(exemplars, SortedOf(t, a.rows))
  BY <1>7
<1>9. built.panics <=> one.panics \/ TooManyGroups32(built.exemplars)
  BY <1>7, <1>8
<1> QED
  BY <1>2, <1>6, <1>8, <1>9 DEF Built

\* A builder sorts the rows of its accumulator and keeps them all.
LEMMA SortedAre ==
  ASSUME NEW t, NEW rows, List(rows)
  PROVE  Permuted(SortedOf(t, rows), rows)
<1>1. \A before : Permuted(Sorted(before, rows), rows)
  BY SortedPermutes
<1>2. CASE t = "SPAN_EVENTS"
  BY <1>1, <1>2 DEF SortedOf, SortRows
<1>3. CASE t = "SPAN_LINKS"
  BY <1>1, <1>3 DEF SortedOf, SortRows
<1>4. CASE t \in PointKinds
  BY <1>1, <1>4 DEF SortedOf, SortRows, PointKinds
<1>5. CASE t \notin PointKinds /\ t # "SPAN_EVENTS" /\ t # "SPAN_LINKS"
  BY <1>1, <1>5 DEF SortedOf, SortRows
<1> QED
  BY <1>2, <1>3, <1>4, <1>5

\* The ids of items, which refer to their attributes.
LEMMA ItemIdsAre ==
  ASSUME NEW t \in Parents, NEW rows, List(rows),
         \A k \in 1..Len(rows) : AttrList(rows[k].attrs)
  PROVE  \E referred : /\ Refers(rows, referred)
                       /\ ItemIds(t, rows) = SparseIds(referred, MaxUint32)
<1>1. PICK some : some = [k \in DOMAIN rows |-> rows[k].attrs # <<>>]
  OBVIOUS
<1>2. PICK all : all = [i \in 1..Len(rows) |-> TRUE]
  OBVIOUS
<1>3. DOMAIN rows = 1..Len(rows)
  BY ListDomain
<1>4. Refers(rows, some) /\ Refers(rows, all)
  BY <1>1, <1>2, <1>3 DEF Refers
<1>5. CASE t \in PointKinds
  <2>1. ItemIds(t, rows) = DenseIds(rows, MaxUint32)
    BY <1>5 DEF ItemIds, DPIds
  <2>2. MaxUint32 \in Nat
    BY WidthAssumption DEF WidthAssumption
  <2>3. DenseIds(rows, MaxUint32) = SparseIds([i \in 1..Len(rows) |-> TRUE], MaxUint32)
    BY <2>2, DenseIdsAreSparse
  <2>4. ItemIds(t, rows) = SparseIds(all, MaxUint32)
    BY <1>2, <2>1, <2>3
  <2> QED
    BY <1>4, <2>4
<1>6. CASE t \notin PointKinds
  <2>1. ItemIds(t, rows) = SparseIds(some, MaxUint32)
    BY <1>1, <1>6 DEF ItemIds, IdsIfAttrs
  <2> QED
    BY <1>4, <2>1
<1> QED
  BY <1>5, <1>6

\* The record of items and the accumulator of their attributes, and when building them
\* panics.
LEMMA ItemsBuilt ==
  ASSUME NEW t \in Parents, NEW a, AccuOK(t, a), NEW sorted, sorted = SortedOf(t, a.rows)
  PROVE  /\ List(sorted) /\ Len(sorted) = Len(a.rows) /\ Range(sorted) = Range(a.rows)
         /\ \E referred : /\ Refers(sorted, referred)
                          /\ ItemIds(t, sorted) = SparseIds(referred, MaxUint32)
         /\ AccuOK(AttrsOf[t], ItemAttrs(t, sorted))
         /\ Held(t, a) => Held(AttrsOf[t], ItemAttrs(t, sorted))
         /\ Panics(ItemIds(t, sorted)) \/ TooManyGroups32(ItemAttrs(t, sorted))
              => Len(a.rows) > MaxUint32
<1>1. List(a.rows)
  BY DEF AccuOK, Accu
<1>2. Permuted(sorted, a.rows)
  BY <1>1, SortedAre
<1>3. List(sorted) /\ Len(sorted) = Len(a.rows) /\ Range(sorted) = Range(a.rows)
  BY <1>1, <1>2, PermutedIs
<1>4. PICK n \in Nat : n = Len(sorted)
  BY <1>3 DEF List
<1>5. \A k \in 1..n : sorted[k] \in Range(a.rows)
  BY <1>3, <1>4, ListDomain DEF Range
<1>6. \A k \in 1..n : AttrList(sorted[k].attrs)
  BY <1>5 DEF AccuOK, ItemOK
<1>7. PICK referred : /\ Refers(sorted, referred)
                      /\ ItemIds(t, sorted) = SparseIds(referred, MaxUint32)
  BY <1>3, <1>4, <1>6, ItemIdsAre
<1>8. PICK ids : ids = ItemIds(t, sorted)
  OBVIOUS
<1>9. PICK added, lists :
        /\ Filed(added, Len(sorted), ids, lists)
        /\ lists = [k \in 1..Len(sorted) |-> sorted[k].attrs]
        /\ AccumulateAttrs(NewAccumulator, sorted, ids) = Filled(NewAccumulator, added)
  BY <1>7, ChildrenFiled
<1>10. PICK attrs : attrs = ItemAttrs(t, sorted)
  OBVIOUS
<1>11. attrs = Filled(NewAccumulator, added)
  BY <1>8, <1>9, <1>10 DEF ItemAttrs
<1>12. Filed(added, n, ids, lists)
  BY <1>4, <1>9
<1>13. ValuesFrom(attrs, n, lists) /\ attrs.groups \in 0..n
  BY <1>11, <1>12, FiledValues
<1>14. PICK u : u = AttrsOf[t]
  OBVIOUS
<1>15. u \in Attrs32 /\ u \notin Parents /\ u \notin Points
  <2>1. u \in Attrs32
    BY <1>14, Kinds DEF Attrs32
  <2> QED
    BY <2>1, Kinds DEF Parents, Points
<1>16. AccuOK(u, attrs)
  BY <1>13, <1>15 DEF AccuOK, ItemOK, ValuesFrom
<1>17. ASSUME Held(t, a) PROVE Held(u, attrs)
  <2>1. ASSUME NEW row \in Range(attrs.rows)
        PROVE  \E holder \in Holders : \E attr \in Range(holder.attrs) : row.cols.value = attr[2]
    <3>1. PICK k \in 1..n : \E attr \in Range(lists[k]) : row.cols.value = attr[2]
      BY <1>13, <2>1 DEF ValuesFrom
    <3>2. lists[k] = sorted[k].attrs
      BY <1>4, <1>9
    <3>3. PICK item \in Range(a.rows) : item = sorted[k]
      BY <1>5
    <3>4. PICK holder \in Holders : item.attrs = holder.attrs
      BY <1>17 DEF Held, HeldRow
    <3> QED
      BY <3>1, <3>2, <3>3, <3>4
  <2> QED
    BY <1>15, <2>1 DEF Held, HeldRow
<1>18. ASSUME Panics(ids) PROVE n > MaxUint32
  <2>1. DOMAIN referred = 1..n
    BY <1>4, <1>7 DEF Refers
  <2>2. MaxUint32 \in Nat \ {0}
    BY WidthAssumption DEF WidthAssumption
  <2> QED
    BY <1>7, <1>8, <1>18, <2>1, <2>2, PanickingIds
<1>19. ASSUME TooManyGroups32(attrs) PROVE n > MaxUint32
  <2>1. MaxUint32 \in Nat
    BY WidthAssumption DEF WidthAssumption
  <2>2. attrs.groups > MaxUint32
    BY <1>19 DEF TooManyGroups32
  <2> QED
    BY <1>13, <2>1, <2>2
<1> QED
  BY <1>3, <1>4, <1>7, <1>8, <1>10, <1>14, <1>16, <1>17, <1>18, <1>19

\* Data points with their exemplars.
PointsOK(points) == List(points) /\ \A p \in Range(points) : ItemOK("NUMBER_DATA_POINTS", p)

\* What a try adds to the exemplars: those of each data point under its place.
LEMMA ExemplifiedIs ==
  ASSUME NEW e, Accu(e), NEW points, PointsOK(points), NEW new, new = Exemplified(e, points)
  PROVE  /\ Accu(new)
         /\ Len(new.rows) = Len(e.rows) + Subtotals(ExemplarCounts(points))[Len(points)]
         /\ e.groups <= Len(e.rows) => new.groups <= Len(new.rows)
         /\ \A row : row \in Range(new.rows)
              <=> row \in Range(e.rows) \/ FromPoints(row, points)
<1>1. PICK n \in Nat : n = Len(points) /\ DOMAIN points = 1..n
  BY ListDomain DEF PointsOK, List
<1>2. \A k \in 1..n : List(points[k].exemplars)
  <2>1. \A k \in 1..n : points[k] \in Range(points)
    BY <1>1 DEF Range
  <2> QED
    BY <2>1 DEF PointsOK, ItemOK, Points
<1>3. PICK added : added = [k \in 1..n |-> AppendExemplars(k - 1, points[k].exemplars)]
  OBVIOUS
<1>4. ASSUME NEW k \in 1..n
      PROVE  /\ Accu(added[k]) /\ added[k].groups <= Len(added[k].rows)
             /\ Len(added[k].rows) = Len(points[k].exemplars)
             /\ \A row : row \in Range(added[k].rows)
                  <=> \E exemplar \in Range(points[k].exemplars) :
                        row = ExemplarRow(k - 1, exemplar)
  <2>1. PICK items, id : items = points[k].exemplars /\ id = k - 1
    OBVIOUS
  <2>2. PICK rows : rows = [j \in DOMAIN items |-> ExemplarRow(id, items[j])]
    OBVIOUS
  <2>3. List(rows) /\ Len(rows) = Len(items)
    <3>1. List(items) /\ DOMAIN rows = DOMAIN items /\ rows = [j \in DOMAIN items |-> rows[j]]
      BY <1>2, <2>1, <2>2
    <3> QED
      BY <3>1, MapIsList
  <2>4. AppendExemplars(id, items) = Group(rows)
    BY <2>2 DEF AppendExemplars, ExemplarRow
  <2>5. added[k] = Group(rows)
    BY <1>3, <2>1, <2>4
  <2>6. /\ Accu(Group(rows)) /\ Group(rows).rows = rows
        /\ Group(rows).groups <= Len(rows)
    BY <2>3, GroupIs
  <2>7. \A row : row \in Range(rows)
          <=> \E exemplar \in Range(items) : row = ExemplarRow(id, exemplar)
    BY <2>2 DEF Range
  <2> QED
    BY <2>1, <2>3, <2>5, <2>6, <2>7
<1>5. Adds(added) /\ Len(added) = n
  <2>1. added = [k \in 1..n |-> added[k]]
    BY <1>3
  <2>2. List(added) /\ Len(added) = n
    BY <2>1, ListIs
  <2> QED
    BY <1>4, <2>2 DEF Adds
<1>6. new = Filled(e, added)
  BY <1>1, <1>3 DEF Exemplified
<1>7. Lengths(added) = ExemplarCounts(points)
  BY <1>1, <1>4, <1>5 DEF Lengths, ExemplarCounts
<1>8. Accu(new)
  BY <1>5, <1>6, FilledIs
<1>9. Len(new.rows) = Len(e.rows) + Subtotals(ExemplarCounts(points))[n]
  <2>1. Len(Filled(e, added).rows) = Len(e.rows) + Subtotals(Lengths(added))[Len(added)]
    BY <1>5, FilledIs
  <2> QED
    BY <1>5, <1>6, <1>7, <2>1
<1>10. ASSUME e.groups <= Len(e.rows) PROVE new.groups <= Len(new.rows)
  <2>1. \A i \in 1..Len(added) : added[i].groups <= Len(added[i].rows)
    BY <1>4, <1>5
  <2>2. Filled(e, added).groups <= Len(Filled(e, added).rows)
    BY <1>5, <1>10, <2>1, FilledFewer
  <2> QED
    BY <1>6, <2>2
<1>11. ASSUME NEW row
       PROVE  row \in Range(new.rows) <=> row \in Range(e.rows) \/ FromPoints(row, points)
  <2>1. row \in Range(Filled(e, added).rows)
          <=> \/ row \in Range(e.rows)
              \/ \E i \in 1..Len(added) : row \in Range(added[i].rows)
    BY <1>5, FilledRange
  <2>2. (\E i \in 1..n : row \in Range(added[i].rows)) <=> FromPoints(row, points)
    <3>1. ASSUME NEW i \in 1..n, row \in Range(added[i].rows) PROVE FromPoints(row, points)
      <4>1. \E exemplar \in Range(points[i].exemplars) : row = ExemplarRow(i - 1, exemplar)
        BY <1>4, <3>1
      <4> QED
        BY <1>1, <4>1 DEF FromPoints
    <3>2. ASSUME FromPoints(row, points) PROVE \E i \in 1..n : row \in Range(added[i].rows)
      <4>1. PICK i \in 1..n : \E exemplar \in Range(points[i].exemplars) :
                    row = ExemplarRow(i - 1, exemplar)
        BY <1>1, <3>2 DEF FromPoints
      <4> QED
        BY <1>4, <4>1
    <3> QED
      BY <3>1, <3>2
  <2> QED
    BY <1>5, <1>6, <2>1, <2>2
<1> QED
  BY <1>1, <1>8, <1>9, <1>10, <1>11

\* Sorted data points have the same exemplars.
LEMMA PointsSorted ==
  ASSUME NEW t \in Points, NEW a, AccuOK(t, a), NEW points, points = SortedOf(t, a.rows)
  PROVE  /\ PointsOK(points)
         /\ Subtotals(ExemplarCounts(points))[Len(points)] \in Nat
         /\ Subtotals(ExemplarCounts(a.rows))[Len(a.rows)] \in Nat
         /\ Subtotals(ExemplarCounts(points))[Len(points)]
              <= Subtotals(ExemplarCounts(a.rows))[Len(a.rows)]
<1>1. List(a.rows)
  BY DEF AccuOK, Accu
<1>2. Permuted(points, a.rows)
  BY <1>1, SortedAre
<1>3. List(points) /\ Len(points) = Len(a.rows) /\ Range(points) = Range(a.rows)
  BY <1>1, <1>2, PermutedIs
<1>4. t \in Parents /\ "NUMBER_DATA_POINTS" \in Parents /\ "NUMBER_DATA_POINTS" \in Points
  BY DEF Points, Parents
<1>5. PointsOK(points)
  BY <1>3, <1>4 DEF PointsOK, AccuOK, ItemOK
<1>6. PICK n \in Nat : n = Len(a.rows) /\ DOMAIN a.rows = 1..n
  BY <1>1, ListDomain DEF List
<1>7. PICK order : /\ Permutes(order, n)
                   /\ points = [k \in 1..n |-> a.rows[order[k]]]
  BY <1>2, <1>6 DEF Permuted
<1>8. ExemplarCounts(a.rows) \in [1..n -> Nat]
  <2>1. \A k \in 1..n : a.rows[k] \in Range(a.rows)
    BY <1>6 DEF Range
  <2>2. \A k \in 1..n : Len(a.rows[k].exemplars) \in Nat
    BY <2>1 DEF AccuOK, ItemOK, List
  <2> QED
    BY <1>6, <2>2 DEF ExemplarCounts
<1>9. PICK values \in [1..n -> Nat] : values = ExemplarCounts(a.rows)
  BY <1>8
<1>10. ExemplarCounts(points) = [k \in 1..n |-> values[order[k]]]
  <2>1. \A k \in 1..n : order[k] \in 1..n
    BY <1>7 DEF Permutes
  <2>2. \A k \in 1..n : values[order[k]] = Len(points[k].exemplars)
    BY <1>6, <1>7, <1>9, <2>1 DEF ExemplarCounts
  <2> QED
    BY <1>3, <1>6, <2>2 DEF ExemplarCounts
<1>11. Subtotals([k \in 1..n |-> values[order[k]]])[n] <= Subtotals(values)[n]
  BY <1>7, PermutedTotal
<1>12. [k \in 1..n |-> values[order[k]]] \in [1..n -> Nat]
  BY <1>7 DEF Permutes
<1>13. \A v \in [1..n -> Nat] : Subtotals(v)[n] \in Nat
  <2>1. ASSUME NEW v \in [1..n -> Nat] PROVE Subtotals(v)[n] \in Nat
    <3>1. Subtotals(v) \in [0..n -> Nat]
      BY SubtotalsType
    <3> QED
      BY <3>1
  <2> QED
    BY <2>1
<1> QED
  BY <1>3, <1>5, <1>6, <1>9, <1>10, <1>11, <1>12, <1>13

\* What exemplars come from.
LEMMA ExemplarsHeld ==
  ASSUME NEW t \in Points, NEW a, AccuOK(t, a), NEW points, points = SortedOf(t, a.rows),
         NEW e, Accu(e), \A row \in Range(e.rows) : FromPoints(row, points)
  PROVE  /\ AccuOK(ExemplarsOf[t], e)
         /\ Held(t, a) => Held(ExemplarsOf[t], e)
<1>1. List(a.rows)
  BY DEF AccuOK, Accu
<1>2. Permuted(points, a.rows)
  BY <1>1, SortedAre
<1>3. List(points) /\ Len(points) = Len(a.rows) /\ Range(points) = Range(a.rows)
  BY <1>1, <1>2, PermutedIs
<1>4. PICK u : u = ExemplarsOf[t]
  OBVIOUS
<1>5. u \in Parents /\ u \notin Points /\ u \notin Attrs16 \cup Attrs32
  <2>1. /\ ExemplarsOf["NUMBER_DATA_POINTS"] = "NUMBER_DP_EXEMPLARS"
        /\ ExemplarsOf["HISTOGRAM_DATA_POINTS"] = "HISTOGRAM_DP_EXEMPLARS"
        /\ ExemplarsOf["EXP_HISTOGRAM_DATA_POINTS"] = "EXP_HISTOGRAM_DP_EXEMPLARS"
    BY DEF ExemplarsOf
  <2>2. u \in ExemplarKinds
    BY <1>4, <2>1 DEF Points, ExemplarKinds
  <2> QED
    BY <2>2, Kinds DEF ExemplarKinds, Parents, Points, Attrs16
<1>6. ASSUME NEW row \in Range(e.rows)
      PROVE  \E point \in Range(a.rows) : \E exemplar \in Range(point.exemplars) :
               row.attrs = exemplar.attrs /\ IsExemplar(exemplar)
  <2>1. PICK k \in 1..Len(points) : \E exemplar \in Range(points[k].exemplars) :
                row = ExemplarRow(k - 1, exemplar)
    BY <1>6 DEF FromPoints
  <2>2. PICK exemplar \in Range(points[k].exemplars) : row = ExemplarRow(k - 1, exemplar)
    BY <2>1
  <2>3. PICK point \in Range(a.rows) : point = points[k]
    BY <1>3, <2>1, ListDomain DEF Range
  <2>4. IsExemplar(exemplar)
    BY <2>2, <2>3 DEF AccuOK, ItemOK
  <2> QED
    BY <2>2, <2>3, <2>4 DEF ExemplarRow
<1>7. AccuOK(u, e)
  <2>1. \A row \in Range(e.rows) : AttrList(row.attrs)
    BY <1>6, AttrsAre DEF IsExemplar
  <2> QED
    BY <1>5, <2>1 DEF AccuOK, ItemOK
<1>8. ASSUME Held(t, a) PROVE Held(u, e)
  <2>1. \A point \in Range(a.rows) : Range(point.exemplars) \subseteq Holders
    BY <1>8 DEF Held, HeldRow
  <2>2. \A row \in Range(e.rows) : \E holder \in Holders : row.attrs = holder.attrs
    BY <1>6, <2>1
  <2> QED
    BY <1>5, <2>2 DEF Held, HeldRow
<1> QED
  BY <1>4, <1>7, <1>8

\* An empty accumulator would give an empty record: skipping it is the same.
LEMMA EmptyBuilt ==
  ASSUME NEW t, t \in Attrs16 \/ t \in Attrs32 \/ t \in Parents, NEW a, a.rows = <<>>
  PROVE  /\ BuiltRows(t, a) = <<>> /\ SortedOf(t, <<>>) = <<>>
         /\ t \in Parents => /\ BuiltAttrs(t, a) = NewAccumulator
                             /\ ~Panics(ItemIds(t, SortedOf(t, a.rows)))
<1>1. List(<<>>) /\ Len(<<>>) = 0
  BY EmptyIsList
<1>2. \A s : Permuted(s, <<>>) => s = <<>>
  <2>1. ASSUME NEW s, Permuted(s, <<>>) PROVE s = <<>>
    <3>1. List(s) /\ Len(s) = 0
      BY <1>1, <2>1, PermutedIs
    <3> QED
      BY <3>1, EmptyList
  <2> QED
    BY <2>1
<1>3. \A before : Sorted(before, <<>>) = <<>>
  BY <1>1, <1>2, SortedPermutes
<1>4. SortedOf(t, <<>>) = <<>>
  BY <1>1, <1>2, SortedAre
<1>5. \A ids, parents : WriteRows(<<>>, ids, parents) = <<>>
  <2>1. ASSUME NEW ids, NEW parents PROVE WriteRows(<<>>, ids, parents) = <<>>
    <3>1. PICK w : w = WriteRows(<<>>, ids, parents)
      OBVIOUS
    <3>2. List(w) /\ Len(w) = 0
      BY <1>1, <3>1, WrittenIs
    <3> QED
      BY <3>1, <3>2, EmptyList
  <2> QED
    BY <2>1
<1>6. CASE t \in Attrs16
  <2>1. TryBuildAttrs16(a, <<>>).rows = <<>>
    BY <1>3, <1>5 DEF TryBuildAttrs16, SortRows
  <2>2. t \notin Parents /\ t \notin Attrs32
    BY <1>6, Kinds DEF Attrs16, Parents
  <2> QED
    BY <1>4, <1>6, <2>1, <2>2 DEF BuiltRows
<1>7. CASE t \in Attrs32
  <2>1. TryBuildAttrs32(a, <<>>).rows = <<>>
    BY <1>3, <1>5 DEF TryBuildAttrs32, SortRows
  <2>2. t \notin Parents /\ t \notin Attrs16
    BY <1>7, Kinds DEF Attrs16, Parents
  <2> QED
    BY <1>4, <1>7, <2>1, <2>2 DEF BuiltRows
<1>8. CASE t \in Parents
  <2>1. t \notin Attrs16 /\ t \notin Attrs32
    BY <1>8, Kinds DEF Attrs16, Parents
  <2>2. BuiltRows(t, a) = ItemRows(t, <<>>)
    BY <1>4, <1>8, <2>1 DEF BuiltRows
  <2>3. BuiltRows(t, a) = <<>>
    BY <1>5, <2>2 DEF ItemRows
  <2>4. \A k \in 1..Len(<<>>) : AttrList(<<>>[k].attrs)
    BY <1>1
  <2>5. PICK referred : /\ Refers(<<>>, referred)
                        /\ ItemIds(t, <<>>) = SparseIds(referred, MaxUint32)
    BY <1>1, <1>8, <2>4, ItemIdsAre
  <2>6. DOMAIN referred = 1..0
    BY <1>1, <2>5 DEF Refers
  <2>7. DOMAIN ItemIds(t, <<>>) = 1..0
    BY <2>5, <2>6 DEF SparseIds
  <2>8. ~Panics(ItemIds(t, <<>>))
    BY <2>7 DEF Panics
  <2>9. BuiltAttrs(t, a) = NewAccumulator
    <3>1. PICK ids : ids = ItemIds(t, <<>>)
      OBVIOUS
    <3>2. BuiltAttrs(t, a) = AccumulateAttrs(NewAccumulator, <<>>, ids)
      BY <1>4, <3>1 DEF BuiltAttrs, ItemAttrs
    <3>3. PICK added : added = [k \in DOMAIN <<>> |-> Append32(ids[k], <<>>[k].attrs)]
      OBVIOUS
    <3>4. DOMAIN added = 1..0
      BY <3>3
    <3>5. Len(added) = 0
      BY <3>4, LengthOf
    <3>6. PICK filled : Filled(NewAccumulator, added) = filled[0] /\ filled[0] = NewAccumulator
      BY <3>5, FilledUnfold
    <3> QED
      BY <3>2, <3>3, <3>6 DEF AccumulateAttrs, ResetAccumulator
  <2> QED
    BY <1>4, <2>3, <2>8, <2>9
<1> QED
  BY <1>6, <1>7, <1>8

\* A new accumulator is as it should be.
LEMMA NewIsOK ==
  ASSUME NEW t
  PROVE  AccuOK(t, NewAccumulator) /\ Held(t, NewAccumulator)
<1>1. Accu(NewAccumulator) /\ NewAccumulator.rows = <<>>
  BY NewIsAccu
<1>2. Range(<<>>) = {}
  BY DEF Range
<1> QED
  BY <1>1, <1>2 DEF AccuOK, Held

\* What appending a batch leaves, for each signal.
LEMMA MainBuilt ==
  ASSUME signal \in Signals3, SentOK(signal, sent), NEW m, m = AppendMain(signal, sent)
  PROVE  /\ DOMAIN m.accu \subseteq Types(signal)
         /\ Types(signal) \cap Points \subseteq DOMAIN m.accu
         /\ DOMAIN m.accu \cap (Attrs32 \cup ExemplarKinds) = {}
         /\ \A t \in DOMAIN m.accu : AccuOK(t, m.accu[t]) /\ Held(t, m.accu[t])
         /\ m.panics => Excused
<1>1. MaxUint16 \in Nat \ {0} /\ MaxUint32 \in Nat \ {0}
  BY WidthAssumption DEF WidthAssumption
<1>2. CASE signal = "traces"
  <2>1. m = AppendTraces(sent)
    BY <1>2 DEF AppendMain
  <2>2. /\ DOMAIN m.accu = {"RESOURCE_ATTRS", "SCOPE_ATTRS", "SPAN_ATTRS", "SPAN_EVENTS",
                            "SPAN_LINKS"}
        /\ \A t \in DOMAIN m.accu : AccuOK(t, m.accu[t]) /\ Held(t, m.accu[t])
        /\ m.panics => Excused
    BY <1>1, <1>2, <2>1, TracesMain
  <2>3. Types(signal) = TracesTypes
    BY <1>2, TracesOrder
  <2>4. DOMAIN m.accu \subseteq Types(signal) /\ Types(signal) \cap Points \subseteq DOMAIN m.accu
    BY <2>2, <2>3 DEF TracesTypes, Points
  <2>5. DOMAIN m.accu \cap (Attrs32 \cup ExemplarKinds) = {}
    BY <2>2, Kinds DEF ExemplarKinds
  <2> QED
    BY <2>2, <2>4, <2>5
<1>3. CASE signal = "logs"
  <2>1. m = AppendLogs(sent)
    BY <1>3 DEF AppendMain
  <2>2. /\ DOMAIN m.accu = {"RESOURCE_ATTRS", "SCOPE_ATTRS", "LOG_ATTRS"}
        /\ \A t \in DOMAIN m.accu : AccuOK(t, m.accu[t]) /\ Held(t, m.accu[t])
        /\ m.panics => Excused
    BY <1>1, <1>3, <2>1, LogsMain
  <2>3. Types(signal) = LogsTypes
    BY <1>3, LogsOrder
  <2>4. DOMAIN m.accu \subseteq Types(signal) /\ Types(signal) \cap Points \subseteq DOMAIN m.accu
    BY <2>2, <2>3 DEF LogsTypes, Points
  <2>5. DOMAIN m.accu \cap (Attrs32 \cup ExemplarKinds) = {}
    BY <2>2, Kinds DEF ExemplarKinds
  <2> QED
    BY <2>2, <2>4, <2>5
<1>4. CASE signal = "metrics"
  <2>1. m = AppendMetrics(sent)
    BY <1>4 DEF AppendMain
  <2>2. /\ DOMAIN m.accu = {"RESOURCE_ATTRS", "SCOPE_ATTRS"} \cup PointKinds
        /\ \A t \in DOMAIN m.accu : AccuOK(t, m.accu[t]) /\ Held(t, m.accu[t])
        /\ m.panics => Excused
    BY <1>1, <1>4, <2>1, MetricsMain
  <2>3. Types(signal) = MetricsTypes
    BY <1>4, MetricsOrder
  <2>4. DOMAIN m.accu \subseteq Types(signal) /\ Types(signal) \cap Points \subseteq DOMAIN m.accu
    BY <2>2, <2>3 DEF MetricsTypes, Points, PointKinds
  <2>5. DOMAIN m.accu \cap (Attrs32 \cup ExemplarKinds) = {}
    BY <2>2, Kinds DEF ExemplarKinds, PointKinds
  <2> QED
    BY <2>2, <2>4, <2>5
<1> QED
  BY <1>2, <1>3, <1>4 DEF Signals3

\* The kinds of related records are apart.
LEMMA TypesKinds ==
  ASSUME NEW s \in Signals3
  PROVE  /\ Types(s) \subseteq Attrs16 \cup Attrs32 \cup Parents
         /\ Attrs16 \cap Attrs32 = {} /\ Attrs16 \cap Parents = {} /\ Attrs32 \cap Parents = {}
         /\ Points \subseteq PointKinds /\ PointKinds \subseteq Parents
         /\ ExemplarKinds \subseteq Parents
<1>1. Types(s) = TracesTypes \/ Types(s) = LogsTypes \/ Types(s) = MetricsTypes
  BY TracesOrder, LogsOrder, MetricsOrder DEF Signals3
<1>2. Types(s) \subseteq Attrs16 \cup Attrs32 \cup Parents
  BY <1>1, Kinds DEF TracesTypes, LogsTypes, MetricsTypes, Attrs16, Parents
<1>3. Attrs16 \cap Attrs32 = {} /\ Attrs16 \cap Parents = {} /\ Attrs32 \cap Parents = {}
  BY Kinds DEF Attrs16, Parents
<1> QED
  BY <1>2, <1>3 DEF Points, PointKinds, Parents, ExemplarKinds

\* There are three signals.
LEMMA SignalIs ==
  ASSUME signal \in Signal PROVE signal \in Signals3
BY BatchesAssumption DEF BatchesAssumption, Signals3

\* Nothing was sent at the start.
LEMMA InvInit ==
  ASSUME Init PROVE Inv
<1>1. signal \in Signals3
  BY SignalIs DEF Init
<1>2. DOMAIN accu = Types(signal) /\ \A t \in Types(signal) : accu[t] = NewAccumulator
  BY DEF Init, EmptyAccus
<1>3. \A t \in Types(signal) : AccuOK(t, accu[t]) /\ accu[t].groups \in Nat
  BY <1>2, NewIsOK, NewIsAccu
<1>4. Len(<<>>) = 0 /\ List(<<>>) /\ Range(<<>>) = {}
  BY EmptyIsList DEF Range
<1>5. DOMAIN sorters = Types(signal) /\ \A t \in Types(signal) : sorters[t] = <<>>
  BY DEF Init
<1>6. TypeOK
  <2>1. batches \in 0..Len(Batches[signal])
    BY BatchesAssumption DEF BatchesAssumption, Init
  <2>2. updates \in 0..MaxUpdates
    BY BatchesAssumption DEF BatchesAssumption, Init
  <2>3. next \in 1..(Len(Declared(signal)) + 1)
    BY <1>1, Ordered DEF Init
  <2>4. \A t \in Types(signal) : Len(sorters[t]) <= 1
    BY <1>4, <1>5
  <2> QED
    BY <1>3, <2>1, <2>2, <2>3, <2>4 DEF TypeOK, Init, NoRecords
<1>7. SentOK(signal, sent)
  BY <1>4 DEF Init, SentOK
<1> QED
  BY <1>2, <1>3, <1>5, <1>6, <1>7 DEF Inv, Init

\* A batch is taken when the one before is done.
LEMMA InvTake ==
  ASSUME Inv, Take PROVE Inv'
<1>1. signal \in Signals3
  BY SignalIs DEF Inv, TypeOK
<1>2. signal' = signal /\ accu' = accu /\ sorters' = sorters /\ updates' = updates
      /\ phase' = "main" /\ next' = 1 /\ records' = NoRecords(signal)
      /\ batches' = batches + 1 /\ batches < Len(Batches[signal])
  BY DEF Take
<1>3. SentOK(signal', sent')
  <2>1. PICK batch \in Batches[signal][batches + 1] : sent' = Optimize(signal, batch)
    BY DEF Take
  <2>2. batches + 1 \in 1..Len(Batches[signal])
    BY <1>2, BatchesAssumption DEF BatchesAssumption, Inv, TypeOK
  <2>3. IsBatch(signal, batch)
    BY <2>2, BatchesAssumption DEF BatchesAssumption, Inv, TypeOK
  <2> QED
    BY <1>1, <1>2, <2>1, <2>3, Optimized DEF Signals3
<1>4. TypeOK'
  <2>1. batches' \in 0..Len(Batches[signal'])
    BY <1>2, BatchesAssumption DEF BatchesAssumption, Inv, TypeOK
  <2>2. next' \in 1..(Len(Declared(signal')) + 1)
    BY <1>1, <1>2, Ordered
  <2>3. DOMAIN records' = Types(signal')
    BY <1>2 DEF NoRecords
  <2> QED
    BY <1>2, <2>1, <2>2, <2>3 DEF Inv, TypeOK
<1>5. \A t \in Types(signal') : AccuOK(t, accu'[t])
  BY <1>2 DEF Inv
<1> QED
  BY <1>2, <1>3, <1>4, <1>5 DEF Inv

\* The accumulators are emptied before each try to build the main record, so a try
\* leaves what the batch says.
LEMMA InvBuildMain ==
  ASSUME Inv, BuildMain PROVE Inv'
<1>1. signal \in Signals3 /\ SentOK(signal, sent)
  BY SignalIs DEF Inv, TypeOK
<1>2. PICK m : m = AppendMain(signal, sent)
  OBVIOUS
<1>3. /\ DOMAIN m.accu \subseteq Types(signal)
      /\ Types(signal) \cap Points \subseteq DOMAIN m.accu
      /\ DOMAIN m.accu \cap (Attrs32 \cup ExemplarKinds) = {}
      /\ \A t \in DOMAIN m.accu : AccuOK(t, m.accu[t]) /\ Held(t, m.accu[t])
      /\ m.panics => Excused
  BY <1>1, <1>2, MainBuilt
<1>4. /\ signal' = signal /\ sent' = sent /\ batches' = batches /\ sorters' = sorters
      /\ received' = received /\ phase = "main" /\ next = 1 /\ records = NoRecords(signal)
  BY DEF BuildMain, Inv
<1>5. accu' = [t \in Types(signal) |-> IF t \in DOMAIN m.accu THEN m.accu[t]
                                      ELSE NewAccumulator]
  BY <1>2 DEF BuildMain
<1>6. \/ m.panics /\ Panic
      \/ /\ ~m.panics
         /\ \E yes \in BOOLEAN : /\ Updated(yes)
                                 /\ phase' = IF yes THEN "main" ELSE "related"
                                 /\ main' = IF yes THEN main ELSE m
         /\ UNCHANGED <<next, records>>
  BY <1>2 DEF BuildMain
<1>7. next' = 1 /\ records' = NoRecords(signal)
  BY <1>4, <1>6 DEF Panic
<1>8. DOMAIN accu' = Types(signal) /\ DOMAIN sorters' = Types(signal)
  BY <1>4, <1>5 DEF Inv
<1>9. \A t \in Types(signal) : /\ AccuOK(t, accu'[t]) /\ accu'[t].groups \in Nat
                               /\ Held(t, accu'[t])
  <2>1. \A t \in Types(signal) : AccuOK(t, accu'[t]) /\ Held(t, accu'[t])
    BY <1>3, <1>5, NewIsOK
  <2> QED
    BY <2>1 DEF AccuOK, Accu
<1>10. \A t \in Types(signal) : Held(t, accu[t])'
  <2>1. Holders' = Holders
    BY <1>4 DEF Holders, Children
  <2> QED
    BY <1>9, <2>1 DEF Held, HeldRow
<1>11. updates' \in 0..MaxUpdates
  BY <1>6, BatchesAssumption DEF BatchesAssumption, Panic, Updated, Inv, TypeOK
<1>12. phase' \in {"main", "related", "panicked"}
  BY <1>6 DEF Panic
<1>13. TypeOK'
  <2>1. next' \in 1..(Len(Declared(signal')) + 1)
    BY <1>1, <1>4, <1>7, Ordered
  <2>2. DOMAIN records' = Types(signal')
    BY <1>4, <1>7 DEF NoRecords
  <2> QED
    BY <1>4, <1>9, <1>11, <1>12, <2>1, <2>2 DEF Inv, TypeOK
<1>14. ASSUME phase' = "related" PROVE Related'
  <2>1. main' = m /\ ~m.panics
    BY <1>6, <1>14 DEF Panic
  <2>2. Done' = {}
    BY <1>7 DEF Done
  <2>3. main' = AppendMain(signal', sent') /\ ~main'.panics
    BY <1>2, <1>4, <2>1
  <2>4. \A t \in DOMAIN main'.accu : accu'[t] = main'.accu[t]
    BY <1>3, <1>5, <2>1
  <2>5. \A t \in Types(signal) : RecordOK(t)'
    BY <1>7, <2>2 DEF RecordOK, NoRecords
  <2>6. \A t \in Types(signal) \cap Parents : AttrsOK(t)'
    <3>1. ASSUME NEW t \in Types(signal) \cap Parents PROVE accu'[AttrsOf[t]] = NewAccumulator
      <4>1. AttrsOf[t] \in Types(signal) /\ AttrsOf[t] \in Attrs32
        BY <1>1, Belongings
      <4> QED
        BY <1>3, <1>5, <4>1
    <3> QED
      BY <2>2, <3>1 DEF AttrsOK
  <2>7. \A t \in Types(signal) \cap Points : ExemplarsOK(t)'
    <3>1. ASSUME NEW t \in Types(signal) \cap Points
          PROVE  accu'[ExemplarsOf[t]] = NewAccumulator
      <4>1. ExemplarsOf[t] \in Types(signal)
        BY <1>1, Belongings
      <4>2. ExemplarsOf[t] \in ExemplarKinds
        BY DEF Points, ExemplarKinds, ExemplarsOf
      <4> QED
        BY <1>3, <1>5, <4>1, <4>2
    <3>2. NewAccumulator.groups = 0 /\ Len(NewAccumulator.rows) = 0
          /\ Range(NewAccumulator.rows) = {}
      BY NewIsAccu, EmptyIsList DEF Range
    <3>3. ASSUME NEW t \in Types(signal) \cap Points PROVE MostExemplars(t)' >= 0
      <4>1. signal = "metrics"
        <5>1. TracesTypes \cap Points = {} /\ LogsTypes \cap Points = {}
          BY DEF TracesTypes, LogsTypes, Points
        <5> QED
          BY <1>1, <3>3, <5>1, TracesOrder, LogsOrder DEF Signals3
      <4>2. TotalOf(AllExemplarsOf) \in Nat
        BY <1>1, <4>1, TotalsType
      <4>3. TotalOf(AllExemplarsOf)' = TotalOf(AllExemplarsOf)
        BY <1>4 DEF TotalOf, AllExemplarsOf
      <4>4. PICK u \in Nat, x \in Nat : u = updates' /\ x = TotalOf(AllExemplarsOf)
        BY <1>11, <4>2
      <4>5. MostExemplars(t)' = u * x
        BY <2>2, <4>3, <4>4 DEF MostExemplars
      <4> QED
        BY <4>5
    <3>4. ASSUME NEW t \in Types(signal) \cap Points PROVE ExemplarsOK(t)'
      BY <2>2, <3>1, <3>2, <3>3 DEF ExemplarsOK
    <3> QED
      BY <3>4
  <2> QED
    BY <1>4, <1>10, <2>3, <2>4, <2>5, <2>6, <2>7 DEF Related
<1>15. ASSUME phase' = "panicked" PROVE Excused'
  <2>1. updates' = updates /\ m.panics
    BY <1>6, <1>15 DEF Panic
  <2> QED
    BY <1>3, <1>4, <2>1 DEF Excused, Missing, Holders, Children, TotalOf, EventsOf, LinksOf,
       PointsOf, AllExemplarsOf
<1>16. /\ SentOK(signal', sent') /\ DOMAIN accu' = Types(signal')
       /\ DOMAIN sorters' = Types(signal')
       /\ \A t \in Types(signal') : AccuOK(t, accu'[t])
       /\ next' = 1 /\ records' = NoRecords(signal')
  BY <1>1, <1>4, <1>7, <1>8, <1>9
<1> QED
  BY <1>12, <1>13, <1>14, <1>15, <1>16 DEF Inv

\* Products of the number of tries.
LEMMA Times ==
  ASSUME NEW u \in Nat, NEW v \in Nat, NEW x \in Nat, u <= v
  PROVE  u * x <= v * x /\ (u + 1) * x = u * x + x /\ u * x \in Nat
OBVIOUS

\* A turn adds its record to those that are done.
LEMMA DoneNext ==
  ASSUME signal' = signal, next \in Nat \ {0}
  PROVE  /\ next' = next => Done' = Done /\ Turn' = Turn
         /\ next' = next + 1 => Done' = Done \cup {Turn}
<1>1. Declared(signal') = Declared(signal)
  OBVIOUS
<1>2. PICK d : d = Declared(signal)
  OBVIOUS
<1>3. /\ Done = {d[n] : n \in 1..(next - 1)} /\ Turn = d[next]
      /\ Done' = {d[n] : n \in 1..(next' - 1)} /\ Turn' = d[next']
  BY <1>1, <1>2 DEF Done, Turn
<1>4. ASSUME next' = next + 1 PROVE Done' = Done \cup {Turn}
  <2>1. 1..(next' - 1) = (1..(next - 1)) \cup {next}
    BY <1>4
  <2> QED
    BY <1>3, <2>1
<1> QED
  BY <1>3, <1>4

\* What a turn leaves of the records that are not in turn.
Elsewhere ==
  /\ UNCHANGED <<signal, sent, main>>
  /\ updates' \in Nat /\ updates <= updates'
  /\ next' = next \/ next' = next + 1
  /\ \A t \in Done \cup {Turn} \cup DOMAIN main.accu : accu'[t] = accu[t]
  /\ \A t \in Types(signal) \cap Parents : t # Turn => accu'[AttrsOf[t]] = accu[AttrsOf[t]]
  /\ \A t \in Types(signal) \cap Points :
       t # Turn => accu'[ExemplarsOf[t]] = accu[ExemplarsOf[t]]
  /\ \A t \in Types(signal) : t # Turn => records'[t] = records[t]

\* How many exemplars there may be grows with every try.
LEMMA MostGrows ==
  ASSUME Inv, phase = "related", signal' = signal, sent' = sent,
         updates' \in Nat, updates <= updates',
         NEW t \in Types(signal) \cap Points
  PROVE  /\ TotalOf(AllExemplarsOf) \in Nat
         /\ TotalOf(AllExemplarsOf)' = TotalOf(AllExemplarsOf)
         /\ MostExemplars(t) \in Nat /\ MostExemplars(t)' \in Nat
         /\ (t \in Done => t \in Done') => MostExemplars(t) <= MostExemplars(t)'
         /\ t \notin Done /\ (t \in Done' \/ updates' = updates + 1)
              => MostExemplars(t) + TotalOf(AllExemplarsOf) <= MostExemplars(t)'
<1>1. signal \in Signals3 /\ SentOK(signal, sent) /\ updates \in Nat
  BY SignalIs, BatchesAssumption DEF BatchesAssumption, Inv, TypeOK
<1>2. signal = "metrics"
  <2>1. TracesTypes \cap Points = {} /\ LogsTypes \cap Points = {}
    BY DEF TracesTypes, LogsTypes, Points
  <2> QED
    BY <1>1, <2>1, TracesOrder, LogsOrder DEF Signals3
<1>3. PICK x \in Nat : x = TotalOf(AllExemplarsOf)
  BY <1>1, <1>2, TotalsType
<1>4. TotalOf(AllExemplarsOf)' = x
  BY <1>3 DEF TotalOf, AllExemplarsOf
<1>10. PICK d \in 0..1, e \in 0..1 : /\ d = IF t \in Done THEN 1 ELSE 0
                                    /\ e = IF t \in Done' THEN 1 ELSE 0
  OBVIOUS
<1>11. PICK before \in Nat, after \in Nat : before = updates /\ after = updates'
  BY <1>1
<1>5. PICK u \in Nat, v \in Nat : u = before + d /\ v = after + e
  OBVIOUS
<1>6. MostExemplars(t) = u * x /\ MostExemplars(t)' = v * x
  BY <1>3, <1>4, <1>5, <1>10, <1>11 DEF MostExemplars
<1>12. before <= after /\ (updates' = updates + 1 => after = before + 1)
  BY <1>11
<1>13. /\ (t \in Done => t \in Done') => d <= e
       /\ t \notin Done => d = 0
       /\ t \in Done' => e = 1
  BY <1>10
<1>7. u * x \in Nat /\ v * x \in Nat
  BY Times
<1>8. ASSUME t \in Done => t \in Done' PROVE u * x <= v * x
  <2>1. u <= v
    BY <1>5, <1>8, <1>12, <1>13
  <2> QED
    BY <2>1, Times
<1>9. ASSUME t \notin Done, t \in Done' \/ updates' = updates + 1 PROVE u * x + x <= v * x
  <2>1. u + 1 <= v
    BY <1>5, <1>9, <1>12, <1>13
  <2>2. (u + 1) * x <= v * x
    BY <2>1, Times
  <2>3. (u + 1) * x = u * x + x
    BY Times
  <2> QED
    BY <2>2, <2>3
<1> QED
  BY <1>3, <1>4, <1>6, <1>7, <1>8, <1>9

\* What a step leaves alone stays related.
LEMMA StillRelated ==
  ASSUME Inv, phase = "related", next <= Len(Declared(signal)), Elsewhere,
         \A t \in Types(signal) : Held(t, accu[t])',
         NEW turn, turn = Turn,
         RecordOK(turn)', turn \in Parents => AttrsOK(turn)',
         turn \in Points => ExemplarsOK(turn)'
  PROVE  Related'
<1>1. /\ signal \in Signals3 /\ SentOK(signal, sent) /\ Related
      /\ next \in 1..(Len(Declared(signal)) + 1)
  BY SignalIs DEF Inv, TypeOK
<1>2. /\ signal' = signal /\ sent' = sent /\ main' = main
      /\ \A t \in Done \cup {Turn} \cup DOMAIN main.accu : accu'[t] = accu[t]
  BY DEF Elsewhere
<1>3. Done' = Done \/ Done' = Done \cup {Turn}
  BY <1>1, <1>2, DoneNext DEF Elsewhere
<1>4. \A t \in Types(signal) : t # Turn => RecordOK(t)'
  <2>1. ASSUME NEW t \in Types(signal), t # Turn PROVE RecordOK(t)'
    <3>1. RecordOK(t) /\ records'[t] = records[t]
      BY <1>1, <2>1 DEF Related, Elsewhere
    <3>2. t \in Done => accu'[t] = accu[t]
      BY <1>2
    <3>3. t \in Done' <=> t \in Done
      BY <1>3, <2>1
    <3> QED
      BY <3>1, <3>2, <3>3 DEF RecordOK
  <2> QED
    BY <2>1
<1>5. \A t \in Types(signal) \cap Parents : t # Turn => AttrsOK(t)'
  <2>1. ASSUME NEW t \in Types(signal) \cap Parents, t # Turn PROVE AttrsOK(t)'
    <3>1. AttrsOK(t) /\ accu'[AttrsOf[t]] = accu[AttrsOf[t]]
      BY <1>1, <2>1 DEF Related, Elsewhere
    <3>2. t \in Done => accu'[t] = accu[t]
      BY <1>2
    <3>3. t \in Done' <=> t \in Done
      BY <1>3, <2>1
    <3> QED
      BY <2>1, <3>1, <3>2, <3>3 DEF AttrsOK
  <2> QED
    BY <2>1
<1>6. \A t \in Types(signal) \cap Points : t # Turn => ExemplarsOK(t)'
  <2>1. ASSUME NEW t \in Types(signal) \cap Points, t # Turn PROVE ExemplarsOK(t)'
    <3>1. ExemplarsOK(t) /\ accu'[ExemplarsOf[t]] = accu[ExemplarsOf[t]]
      BY <1>1, <2>1 DEF Related, Elsewhere
    <3>2. accu'[t] = accu[t]
      <4>1. PICK m : m = AppendMain(signal, sent)
        OBVIOUS
      <4>2. t \in DOMAIN m.accu
        BY <1>1, <4>1, MainBuilt
      <4>3. main = m
        BY <1>1, <4>1 DEF Related
      <4> QED
        BY <1>2, <4>2, <4>3
    <3>3. t \in Done' <=> t \in Done
      BY <1>3, <2>1
    <3>4. /\ MostExemplars(t) \in Nat /\ MostExemplars(t)' \in Nat
          /\ MostExemplars(t) <= MostExemplars(t)'
      BY <1>2, <3>3, MostGrows DEF Elsewhere
    <3>5. Len(accu[ExemplarsOf[t]].rows) \in Nat
      <4>1. ExemplarsOf[t] \in Types(signal)
        BY <1>1, Belongings
      <4> QED
        BY <4>1 DEF Inv, AccuOK, Accu, List
    <3>6. Len(accu[ExemplarsOf[t]].rows) <= MostExemplars(t)'
      BY <3>1, <3>4, <3>5 DEF ExemplarsOK
    <3> QED
      BY <3>1, <3>2, <3>3, <3>6 DEF ExemplarsOK
  <2> QED
    BY <2>1
<1>7. main' = AppendMain(signal', sent') /\ ~main'.panics
  BY <1>1, <1>2 DEF Related
<1>8. \A t \in DOMAIN main'.accu : accu'[t] = main'.accu[t]
  BY <1>1, <1>2 DEF Related
<1>9. \A t \in Types(signal) : RecordOK(t)'
  BY <1>4
<1>10. \A t \in Types(signal) \cap Parents : AttrsOK(t)'
  BY <1>5
<1>11. \A t \in Types(signal) \cap Points : ExemplarsOK(t)'
  BY <1>6
<1> QED
  BY <1>2, <1>7, <1>8, <1>9, <1>10, <1>11 DEF Related

\* What is held stays held, and excused while no update is counted.
LEMMA HeldStays ==
  ASSUME signal' = signal, sent' = sent, \A t \in Types(signal) : Held(t, accu'[t])
  PROVE  /\ \A t \in Types(signal) : Held(t, accu[t])'
         /\ updates' = updates => (Excused => Excused')
<1>1. Holders' = Holders
  BY DEF Holders, Children
<1>2. \A t \in Types(signal) : Held(t, accu[t])'
  BY <1>1 DEF Held, HeldRow
<1> QED
  BY <1>1, <1>2 DEF Excused, Missing, TotalOf, EventsOf, LinksOf, PointsOf, AllExemplarsOf

\* An empty accumulator is skipped: its record stays empty.
LEMMA InvSkipEmpty ==
  ASSUME Inv, SkipEmpty PROVE Inv'
<1>1. /\ signal \in Signals3 /\ SentOK(signal, sent) /\ Related
      /\ next \in 1..(Len(Declared(signal)) + 1) /\ updates \in Nat
  BY SignalIs, BatchesAssumption DEF BatchesAssumption, Inv, TypeOK, SkipEmpty
<1>2. /\ phase = "related" /\ next <= Len(Declared(signal)) /\ accu[Turn].rows = <<>>
      /\ next' = next + 1
      /\ UNCHANGED <<signal, sent, batches, updates, phase, main, records, accu, sorters,
                     received>>
  BY DEF SkipEmpty
<1>3. PICK turn : turn = Turn
  OBVIOUS
<1>4. turn \in Types(signal) /\ turn \notin Done
  BY <1>1, <1>2, <1>3, Turns
<1>5. Elsewhere
  BY <1>1, <1>2 DEF Elsewhere
<1>6. \A t \in Types(signal) : Held(t, accu[t])'
  BY <1>1, <1>2, HeldStays DEF Related
<1>7. turn \in Done'
  BY <1>1, <1>2, <1>3, DoneNext
<1>8. PICK a : a = accu[turn]
  OBVIOUS
<1>9. a.rows = <<>> /\ accu'[turn] = a
  BY <1>2, <1>3, <1>8
<1>10. /\ BuiltRows(turn, a) = <<>> /\ SortedOf(turn, <<>>) = <<>>
       /\ turn \in Parents => /\ BuiltAttrs(turn, a) = NewAccumulator
                              /\ ~Panics(ItemIds(turn, SortedOf(turn, a.rows)))
  <2>1. turn \in Attrs16 \/ turn \in Attrs32 \/ turn \in Parents
    BY <1>1, <1>4, TypesKinds
  <2> QED
    BY <1>9, <2>1, EmptyBuilt
<1>11. RecordOK(turn)'
  <2>1. records'[turn] = <<>>
    BY <1>1, <1>2, <1>4 DEF Related, RecordOK
  <2> QED
    BY <1>7, <1>9, <1>10, <2>1 DEF RecordOK
<1>12. ASSUME turn \in Parents PROVE AttrsOK(turn)'
  <2>1. accu'[AttrsOf[turn]] = NewAccumulator
    BY <1>1, <1>2, <1>3, <1>4, <1>12 DEF Related, AttrsOK
  <2> QED
    BY <1>7, <1>9, <1>10, <1>12, <2>1 DEF AttrsOK
<1>13. ASSUME turn \in Points PROVE ExemplarsOK(turn)'
  <2>1. ExemplarsOK(turn) /\ accu'[ExemplarsOf[turn]] = accu[ExemplarsOf[turn]]
    BY <1>1, <1>2, <1>4, <1>13 DEF Related
  <2>2. /\ MostExemplars(turn) \in Nat /\ MostExemplars(turn)' \in Nat
        /\ MostExemplars(turn) <= MostExemplars(turn)'
    BY <1>1, <1>2, <1>4, <1>7, <1>13, MostGrows
  <2>3. Len(accu[ExemplarsOf[turn]].rows) \in Nat
    <3>1. ExemplarsOf[turn] \in Types(signal)
      BY <1>1, <1>4, <1>13, Belongings
    <3> QED
      BY <3>1 DEF Inv, AccuOK, Accu, List
  <2>4. Len(accu[ExemplarsOf[turn]].rows) <= MostExemplars(turn)'
    BY <2>1, <2>2, <2>3 DEF ExemplarsOK
  <2>5. SortedOf(turn, accu[turn].rows) = <<>> /\ SortedOf(turn, accu'[turn].rows) = <<>>
    BY <1>8, <1>9, <1>10
  <2>6. 1..Len(<<>>) = {}
    BY EmptyIsList
  <2> QED
    BY <2>1, <2>4, <2>5, <2>6 DEF ExemplarsOK
<1>14. Related'
  BY <1>2, <1>3, <1>5, <1>6, <1>11, <1>12, <1>13, StillRelated
<1>15. TypeOK'
  <2>1. next' \in 1..(Len(Declared(signal')) + 1)
    <3>1. Len(Declared(signal)) \in Nat
      BY <1>1, Ordered
    <3> QED
      BY <1>1, <1>2, <3>1
  <2> QED
    BY <1>2, <2>1 DEF Inv, TypeOK
<1>16. /\ DOMAIN accu' = Types(signal') /\ DOMAIN sorters' = Types(signal')
       /\ SentOK(signal', sent') /\ \A t \in Types(signal') : AccuOK(t, accu'[t])
       /\ phase' = "related"
  BY <1>2 DEF Inv
<1> QED
  BY <1>14, <1>15, <1>16 DEF Inv

\* What a try does to the accumulators, if anything.
Filling(turn) ==
  /\ DOMAIN accu' = Types(signal)
  /\ \A t \in Types(signal) : AccuOK(t, accu'[t]) /\ Held(t, accu'[t])
  /\ \A t \in Done \cup {turn} \cup DOMAIN main.accu : accu'[t] = accu[t]
  /\ \A t \in Types(signal) \cap Parents : t # turn => accu'[AttrsOf[t]] = accu[AttrsOf[t]]
  /\ \A t \in Types(signal) \cap Points :
       t # turn => accu'[ExemplarsOf[t]] = accu[ExemplarsOf[t]]
  /\ turn \in Parents => accu'[AttrsOf[turn]] = BuiltAttrs(turn, accu[turn])
  /\ turn \in Points =>
       LET e == accu'[ExemplarsOf[turn]]
           points == SortedOf(turn, accu[turn].rows)
       IN  /\ e.groups <= Len(e.rows) /\ Len(e.rows) \in Nat
           /\ Len(e.rows) <= MostExemplars(turn) + TotalOf(AllExemplarsOf)
           /\ \A row \in Range(e.rows) : FromPoints(row, points)
           /\ \A k \in 1..Len(points) : \A exemplar \in Range(points[k].exemplars) :
                ExemplarRow(k - 1, exemplar) \in Range(e.rows)

\* A try that fills accumulators as it should keeps the invariant, with and without an
\* update.
LEMMA InvTried ==
  ASSUME Inv, phase = "related", next <= Len(Declared(signal)), NEW turn, turn = Turn,
         accu[turn].rows # <<>>,
         NEW built, Tried(built), Len(built.prev) <= 1,
         built.rows = BuiltRows(turn, accu[turn]),
         built.panics => Excused, Filling(turn),
         turn \in Parents =>
           (~built.panics => ~Panics(ItemIds(turn, SortedOf(turn, accu[turn].rows))))
  PROVE  Inv'
<1>1. /\ signal \in Signals3 /\ SentOK(signal, sent) /\ Related
      /\ next \in 1..(Len(Declared(signal)) + 1) /\ updates \in Nat
  BY SignalIs, BatchesAssumption DEF BatchesAssumption, Inv, TypeOK
<1>2. /\ sorters' = [sorters EXCEPT ![SorterOf(turn)] = built.prev]
      /\ UNCHANGED <<signal, sent, batches, received>>
      /\ \/ built.panics /\ Panic
         \/ /\ ~built.panics
            /\ \E yes \in BOOLEAN :
                 /\ Updated(yes)
                 /\ next' = IF yes THEN next ELSE next + 1
                 /\ records' = IF yes THEN records
                               ELSE [records EXCEPT ![turn] = built.rows]
            /\ UNCHANGED <<phase, main>>
  BY DEF Tried
<1>3. turn \in Types(signal) /\ turn \notin Done
  BY <1>1, Turns
<1>4. \A t \in Types(signal) : AccuOK(t, accu'[t]) /\ accu'[t].groups \in Nat
  BY DEF Filling, AccuOK, Accu
<1>5. DOMAIN sorters' = Types(signal) /\ \A t \in Types(signal) : Len(sorters'[t]) <= 1
  BY <1>2 DEF Inv, TypeOK
<1>6. DOMAIN accu' = Types(signal)
  BY DEF Filling
<1>7. \A t \in Types(signal) : Held(t, accu'[t])
  BY DEF Filling
<1>8. /\ \A t \in Types(signal) : Held(t, accu[t])'
      /\ updates' = updates => (Excused => Excused')
  BY <1>2, <1>7, HeldStays
<1>9. DOMAIN records = Types(signal)
  BY DEF Inv, TypeOK
<1>10. Len(Declared(signal)) \in Nat
  BY <1>1, Ordered
<1>11. CASE built.panics /\ Panic
  <2>1. /\ phase' = "panicked" /\ UNCHANGED <<updates, next, main, records>>
    BY <1>11 DEF Panic
  <2>2. Excused'
    BY <1>8, <1>11, <2>1
  <2>3. TypeOK'
    BY <1>2, <1>4, <1>5, <2>1 DEF Inv, TypeOK
  <2> QED
    BY <1>1, <1>2, <1>4, <1>5, <1>6, <2>1, <2>2, <2>3 DEF Inv
<1>12. CASE /\ ~built.panics
            /\ \E yes \in BOOLEAN :
                 /\ Updated(yes)
                 /\ next' = IF yes THEN next ELSE next + 1
                 /\ records' = IF yes THEN records
                               ELSE [records EXCEPT ![turn] = built.rows]
            /\ UNCHANGED <<phase, main>>
  <2>1. \/ /\ updates' = updates + 1 /\ updates < MaxUpdates
           /\ next' = next /\ records' = records
        \/ /\ updates' = updates
           /\ next' = next + 1 /\ records' = [records EXCEPT ![turn] = built.rows]
    BY <1>12 DEF Updated
  <2>2. updates' \in 0..MaxUpdates /\ updates' \in Nat /\ updates <= updates'
    BY <1>1, <2>1, BatchesAssumption DEF BatchesAssumption, Inv, TypeOK
  <2>3. DOMAIN records' = Types(signal)
        /\ \A t \in Types(signal) : t # turn => records'[t] = records[t]
    BY <1>9, <2>1
  <2>4. Elsewhere
    BY <1>2, <1>12, <2>1, <2>2, <2>3 DEF Elsewhere, Filling
  <2>5. accu'[turn] = accu[turn]
    BY DEF Filling
  <2>6. \/ updates' = updates + 1 /\ turn \notin Done' /\ Turn' = turn /\ records' = records
        \/ turn \in Done' /\ records'[turn] = built.rows
    <3>1. CASE /\ updates' = updates + 1
               /\ next' = next /\ records' = records
      <4>1. Done' = Done /\ Turn' = Turn
        BY <1>1, <1>2, <3>1, DoneNext
      <4> QED
        BY <1>3, <3>1, <4>1
    <3>2. CASE next' = next + 1 /\ records' = [records EXCEPT ![turn] = built.rows]
      <4>1. Done' = Done \cup {Turn}
        BY <1>1, <1>2, <3>2, DoneNext
      <4> QED
        BY <1>3, <1>9, <3>2, <4>1
    <3> QED
      BY <2>1, <3>1, <3>2
  <2>7. RecordOK(turn)'
    <3>1. records[turn] = <<>>
      BY <1>1, <1>3 DEF Related, RecordOK
    <3> QED
      BY <2>5, <2>6, <3>1 DEF RecordOK
  <2>8. ASSUME turn \in Parents PROVE AttrsOK(turn)'
    <3>1. accu'[AttrsOf[turn]] = BuiltAttrs(turn, accu[turn])
      BY <2>8 DEF Filling
    <3>2. ~Panics(ItemIds(turn, SortedOf(turn, accu[turn].rows)))
      BY <1>12, <2>8
    <3> QED
      BY <2>5, <2>6, <3>1, <3>2 DEF AttrsOK
  <2>9. ASSUME turn \in Points PROVE ExemplarsOK(turn)'
    <3>1. PICK e, points : /\ e = accu'[ExemplarsOf[turn]]
                           /\ points = SortedOf(turn, accu[turn].rows)
      OBVIOUS
    <3>2. /\ e.groups <= Len(e.rows) /\ Len(e.rows) \in Nat
          /\ Len(e.rows) <= MostExemplars(turn) + TotalOf(AllExemplarsOf)
          /\ \A row \in Range(e.rows) : FromPoints(row, points)
          /\ \A k \in 1..Len(points) : \A exemplar \in Range(points[k].exemplars) :
                ExemplarRow(k - 1, exemplar) \in Range(e.rows)
      BY <2>9, <3>1 DEF Filling
    <3>3. /\ TotalOf(AllExemplarsOf) \in Nat
          /\ MostExemplars(turn) \in Nat /\ MostExemplars(turn)' \in Nat
          /\ MostExemplars(turn) + TotalOf(AllExemplarsOf) <= MostExemplars(turn)'
      BY <1>2, <1>3, <2>2, <2>6, <2>9, MostGrows
    <3>4. Len(e.rows) <= MostExemplars(turn)'
      BY <3>2, <3>3
    <3>5. points = SortedOf(turn, accu'[turn].rows)
      BY <2>5, <3>1
    <3> QED
      BY <3>1, <3>2, <3>4, <3>5 DEF ExemplarsOK
  <2>10. Related'
    BY <1>8, <2>4, <2>7, <2>8, <2>9, StillRelated
  <2>11. next' \in 1..(Len(Declared(signal)) + 1)
    BY <1>1, <1>10, <2>1
  <2>12. TypeOK'
    BY <1>2, <1>4, <1>5, <1>12, <2>2, <2>3, <2>11 DEF Inv, TypeOK
  <2> QED
    BY <1>1, <1>2, <1>4, <1>5, <1>6, <1>12, <2>10, <2>12 DEF Inv
<1> QED
  BY <1>2, <1>11, <1>12

\* Every builder's sorter is one of its signal's.
LEMMA SortersAre ==
  ASSUME NEW s \in Signals3, NEW t \in Types(s)
  PROVE  SorterOf(t) \in Types(s)
<1>1. CASE t = "EXP_HISTOGRAM_DP_EXEMPLARS"
  <2>1. SorterOf(t) = "HISTOGRAM_DP_EXEMPLARS"
    BY <1>1 DEF SorterOf
  <2> QED
    BY <1>1, <2>1, TracesOrder, LogsOrder, MetricsOrder
       DEF Signals3, TracesTypes, LogsTypes, MetricsTypes
<1>2. CASE t = "EXP_HISTOGRAM_DP_EXEMPLAR_ATTRS"
  <2>1. SorterOf(t) = "HISTOGRAM_DP_EXEMPLAR_ATTRS"
    BY <1>2 DEF SorterOf
  <2> QED
    BY <1>2, <2>1, TracesOrder, LogsOrder, MetricsOrder
       DEF Signals3, TracesTypes, LogsTypes, MetricsTypes
<1>3. CASE t \notin {"EXP_HISTOGRAM_DP_EXEMPLARS", "EXP_HISTOGRAM_DP_EXEMPLAR_ATTRS"}
  BY <1>3 DEF SorterOf
<1> QED
  BY <1>1, <1>2, <1>3

\* What a sorter remembers is at most one row.
LEMMA RememberedOne ==
  ASSUME NEW prev, Len(prev) <= 1, NEW rows
  PROVE  Len(Remembered(prev, rows)) <= 1
<1>1. CASE rows = <<>>
  BY <1>1 DEF Remembered
<1>2. CASE rows # <<>>
  <2>1. Remembered(prev, rows) = <<Last(rows)>>
    BY <1>2 DEF Remembered
  <2> QED
    BY <2>1
<1> QED
  BY <1>1, <1>2

\* A column without a value belongs to an attribute that was sent without one.
LEMMA NoColumnExcused ==
  ASSUME NEW t \in Attrs16 \cup Attrs32, NEW a, AccuOK(t, a), Held(t, a),
         NEW before, NoColumn(Sorted(before, a.rows))
  PROVE  Excused
<1>1. List(a.rows)
  BY DEF AccuOK, Accu
<1>2. PICK sorted : sorted = Sorted(before, a.rows)
  OBVIOUS
<1>3. Permuted(sorted, a.rows)
  BY <1>1, <1>2, SortedPermutes
<1>4. List(sorted) /\ \A k \in 1..Len(sorted) : sorted[k] \in Range(a.rows)
  BY <1>1, <1>3, PermutedIs
<1>5. DOMAIN sorted = 1..Len(sorted)
  BY <1>4, ListDomain
<1>6. PICK k \in 1..Len(sorted) : sorted[k].cols.value[1] = EmptyType
  BY <1>2, <1>5 DEF NoColumn
<1>7. HeldRow(t, sorted[k])
  BY <1>4 DEF Held
<1>8. PICK holder \in Holders : \E attr \in Range(holder.attrs) :
                                  sorted[k].cols.value = attr[2]
  BY <1>7 DEF HeldRow
<1>9. PICK attr \in Range(holder.attrs) : sorted[k].cols.value = attr[2]
  BY <1>8
<1>10. attr[2][1] = EmptyType
  BY <1>6, <1>9
<1> QED
  BY <1>10 DEF Excused, Missing

\* A try of a builder of attributes fills no accumulator.
LEMMA FillsNothing ==
  ASSUME Inv, phase = "related", accu' = accu, NEW turn, turn \notin Parents
  PROVE  Filling(turn)
<1>1. Related
  BY DEF Inv
<1>2. turn \notin Points
  BY DEF Parents, Points
<1> QED
  BY <1>1, <1>2 DEF Inv, Related, Filling

\* A try to build a record of 16-bit attributes...
LEMMA InvBuildAttrs16 ==
  ASSUME Inv, BuildAttrs16 PROVE Inv'
<1>1. /\ phase = "related" /\ next <= Len(Declared(signal)) /\ Turn \in Attrs16
      /\ accu[Turn].rows # <<>> /\ accu' = accu
      /\ Tried(TryBuildAttrs16(accu[Turn], sorters[Turn]))
  BY DEF BuildAttrs16, Building
<1>2. signal \in Signals3 /\ Related /\ next \in 1..(Len(Declared(signal)) + 1)
  BY <1>1, SignalIs DEF Inv, TypeOK
<1>3. PICK turn : turn = Turn
  OBVIOUS
<1>4. turn \in Types(signal)
  BY <1>1, <1>2, <1>3, Turns
<1>5. turn \notin Parents /\ turn \notin Attrs32
  BY <1>1, <1>2, <1>3, TypesKinds
<1>6. PICK a, prev, before :
        /\ a = accu[turn] /\ prev = sorters[turn]
        /\ before = {p \in (DOMAIN a.rows) \X (DOMAIN a.rows) :
                       KeyValueParentLess(a.rows[p[1]], a.rows[p[2]])}
  OBVIOUS
<1>7. AccuOK(turn, a) /\ Held(turn, a) /\ Len(prev) <= 1
  BY <1>2, <1>4, <1>6 DEF Inv, TypeOK, Related
<1>8. PICK built : built = TryBuildAttrs16(a, prev)
  OBVIOUS
<1>9. Tried(built)
  BY <1>1, <1>3, <1>6, <1>8
<1>10. /\ built.rows = TryBuildAttrs16(a, <<>>).rows
       /\ built.prev = Remembered(prev, Sorted(before, a.rows))
  BY <1>6, <1>8 DEF TryBuildAttrs16, ResetSorter, SortRows
<1>11. built.rows = BuiltRows(turn, a)
  BY <1>1, <1>3, <1>5, <1>10 DEF BuiltRows
<1>12. Len(built.prev) <= 1
  BY <1>7, <1>10, RememberedOne
<1>13. built.panics => Excused
  <2>1. built.panics = NoColumn(Sorted(before, a.rows))
    BY <1>6, <1>8, Zenon DEF TryBuildAttrs16, SortRows
  <2> QED
    BY <1>1, <1>3, <1>7, <2>1, NoColumnExcused
<1>14. Filling(turn)
  BY <1>1, <1>5, FillsNothing
<1> QED
  BY <1>1, <1>3, <1>5, <1>6, <1>9, <1>11, <1>12, <1>13, <1>14, InvTried

\* ... and one of 32-bit attributes fill no accumulator.
LEMMA InvBuildAttrs32 ==
  ASSUME Inv, BuildAttrs32 PROVE Inv'
<1>1. /\ phase = "related" /\ next <= Len(Declared(signal)) /\ Turn \in Attrs32
      /\ accu[Turn].rows # <<>> /\ accu' = accu
      /\ Tried(TryBuildAttrs32(accu[Turn], sorters[SorterOf(Turn)]))
  BY DEF BuildAttrs32, Building
<1>2. signal \in Signals3 /\ Related /\ next \in 1..(Len(Declared(signal)) + 1)
  BY <1>1, SignalIs DEF Inv, TypeOK
<1>3. PICK turn : turn = Turn
  OBVIOUS
<1>4. turn \in Types(signal) /\ SorterOf(turn) \in Types(signal)
  BY <1>1, <1>2, <1>3, Turns, SortersAre
<1>5. turn \notin Parents /\ turn \notin Attrs16
  BY <1>1, <1>2, <1>3, TypesKinds
<1>6. PICK a, prev, before :
        /\ a = accu[turn] /\ prev = sorters[SorterOf(turn)]
        /\ before = {p \in (DOMAIN a.rows) \X (DOMAIN a.rows) :
                       KeyValueParentLess32(a.rows[p[1]], a.rows[p[2]])}
  OBVIOUS
<1>7. AccuOK(turn, a) /\ Held(turn, a) /\ Len(prev) <= 1
  BY <1>2, <1>4, <1>6 DEF Inv, TypeOK, Related
<1>8. PICK built : built = TryBuildAttrs32(a, prev)
  OBVIOUS
<1>9. Tried(built)
  BY <1>1, <1>3, <1>6, <1>8
<1>10. /\ built.rows = TryBuildAttrs32(a, <<>>).rows
       /\ built.prev = Remembered(prev, Sorted(before, a.rows))
  BY <1>6, <1>8 DEF TryBuildAttrs32, ResetSorter, SortRows
<1>11. built.rows = BuiltRows(turn, a)
  BY <1>1, <1>3, <1>5, <1>10 DEF BuiltRows
<1>12. Len(built.prev) <= 1
  BY <1>7, <1>10, RememberedOne
<1>13. built.panics => Excused
  <2>1. built.panics = NoColumn(Sorted(before, a.rows))
    BY <1>6, <1>8, Zenon DEF TryBuildAttrs32, SortRows
  <2> QED
    BY <1>1, <1>3, <1>7, <2>1, NoColumnExcused
<1>14. Filling(turn)
  BY <1>1, <1>5, FillsNothing
<1> QED
  BY <1>1, <1>3, <1>5, <1>6, <1>9, <1>11, <1>12, <1>13, <1>14, InvTried

\* More rows than 32 bits tell apart excuse a panic.
LEMMA TooManyRows ==
  ASSUME Inv, phase = "related", NEW turn \in Types(signal) \cap Parents, turn \notin Done,
         Len(accu[turn].rows) > MaxUint32
  PROVE  Excused
<1>1. signal \in Signals3 /\ SentOK(signal, sent) /\ Related
  BY SignalIs DEF Inv, TypeOK
<1>2. MaxUint16 \in Nat \ {0} /\ MaxUint32 \in Nat
  BY WidthAssumption DEF WidthAssumption
<1>3. main = AppendMain(signal, sent) /\ \A t \in DOMAIN main.accu : accu[t] = main.accu[t]
  BY <1>1 DEF Related
<1>4. CASE signal = "traces"
  <2>1. main = AppendTraces(sent)
    BY <1>3, <1>4 DEF AppendMain
  <2>2. /\ DOMAIN main.accu = {"RESOURCE_ATTRS", "SCOPE_ATTRS", "SPAN_ATTRS", "SPAN_EVENTS",
                               "SPAN_LINKS"}
        /\ Len(main.accu["SPAN_EVENTS"].rows) = TotalOf(EventsOf)
        /\ Len(main.accu["SPAN_LINKS"].rows) = TotalOf(LinksOf)
    BY <1>1, <1>2, <1>4, <2>1, TracesMain
  <2>3. turn \in {"SPAN_EVENTS", "SPAN_LINKS"}
    BY <1>4, TracesOrder DEF TracesTypes, Parents
  <2>4. accu[turn] = main.accu[turn]
    BY <1>3, <2>2, <2>3
  <2>5. TotalOf(EventsOf) > MaxUint32 \/ TotalOf(LinksOf) > MaxUint32
    BY <2>2, <2>3, <2>4
  <2> QED
    BY <1>4, <2>5 DEF Excused
<1>5. CASE signal = "logs"
  BY <1>5, LogsOrder DEF LogsTypes, Parents
<1>6. CASE signal = "metrics"
  <2>1. main = AppendMetrics(sent)
    BY <1>3, <1>6 DEF AppendMain
  <2>2. DOMAIN main.accu = {"RESOURCE_ATTRS", "SCOPE_ATTRS"} \cup PointKinds
        /\ \A t \in PointKinds : Len(main.accu[t].rows) <= TotalOf(PointsOf)
    BY <1>1, <1>2, <1>6, <2>1, MetricsMain
  <2>3. TotalOf(PointsOf) \in Nat /\ TotalOf(AllExemplarsOf) \in Nat
    BY <1>1, <1>6, TotalsType
  <2>4. CASE turn \in PointKinds
    <3>1. accu[turn] = main.accu[turn]
      BY <1>3, <2>2, <2>4
    <3>2. Len(accu[turn].rows) <= TotalOf(PointsOf)
      BY <2>2, <2>4, <3>1
    <3>3. Len(accu[turn].rows) \in Nat
      BY DEF Inv, AccuOK, Accu, List
    <3>4. TotalOf(PointsOf) > MaxUint32
      BY <1>2, <2>3, <3>2, <3>3
    <3> QED
      BY <1>6, <3>4 DEF Excused
  <2>5. CASE turn \notin PointKinds
    <3>1. PICK t \in Types(signal) \cap Points : turn = ExemplarsOf[t]
      <4>1. turn \in ExemplarKinds
        BY <1>6, <2>5, MetricsOrder DEF MetricsTypes, Parents, PointKinds, ExemplarKinds
      <4>2. Points \subseteq Types(signal)
        BY <1>6, MetricsOrder DEF MetricsTypes, Points
      <4>3. /\ ExemplarsOf["NUMBER_DATA_POINTS"] = "NUMBER_DP_EXEMPLARS"
            /\ ExemplarsOf["HISTOGRAM_DATA_POINTS"] = "HISTOGRAM_DP_EXEMPLARS"
            /\ ExemplarsOf["EXP_HISTOGRAM_DATA_POINTS"] = "EXP_HISTOGRAM_DP_EXEMPLARS"
        BY DEF ExemplarsOf
      <4> QED
        BY <4>1, <4>2, <4>3 DEF Points, ExemplarKinds
    <3>2. Len(accu[turn].rows) <= MostExemplars(t)
      BY <1>1, <3>1 DEF Related, ExemplarsOK
    <3>3. updates \in Nat
      BY BatchesAssumption DEF BatchesAssumption, Inv, TypeOK
    <3>4. PICK total \in Nat : total = TotalOf(AllExemplarsOf)
      BY <2>3
    <3>5. updates * total <= (updates + 1) * total /\ updates * total \in Nat
          /\ (updates + 1) * total \in Nat
      BY <3>3, <3>4, Times
    <3>6. \/ MostExemplars(t) = updates * total
          \/ MostExemplars(t) = (updates + 1) * total
      <4>1. CASE t \in Done
        BY <3>4, <4>1 DEF MostExemplars
      <4>2. CASE t \notin Done
        <5>1. MostExemplars(t) = (updates + 0) * total
          BY <3>4, <4>2 DEF MostExemplars
        <5> QED
          BY <3>3, <5>1
      <4> QED
        BY <4>1, <4>2
    <3>7. Len(accu[turn].rows) \in Nat
      BY DEF Inv, AccuOK, Accu, List
    <3>8. Len(accu[turn].rows) <= (updates + 1) * total
      <4>1. PICK x, y : x = updates * total /\ y = (updates + 1) * total
        OBVIOUS
      <4>2. x \in Nat /\ y \in Nat /\ x <= y /\ (MostExemplars(t) = x \/ MostExemplars(t) = y)
        BY <3>5, <3>6, <4>1
      <4>3. Len(accu[turn].rows) <= y
        BY <3>2, <3>7, <4>2
      <4> QED
        BY <4>1, <4>3
    <3>9. (updates + 1) * total > MaxUint32
      <4>1. PICK y : y = (updates + 1) * total
        OBVIOUS
      <4>2. y \in Nat /\ Len(accu[turn].rows) <= y
        BY <3>5, <3>8, <4>1
      <4>3. y > MaxUint32
        BY <1>2, <3>7, <4>2
      <4> QED
        BY <4>1, <4>3
    <3> QED
      BY <1>6, <3>4, <3>9 DEF Excused
  <2> QED
    BY <2>4, <2>5
<1> QED
  BY <1>1, <1>4, <1>5, <1>6 DEF Signals3

\* Filling the accumulator of the attributes of the rows in turn disturbs no other.
LEMMA FillsAttrs ==
  ASSUME Inv, phase = "related", next <= Len(Declared(signal)),
         NEW turn, turn = Turn, turn \in Parents, turn \notin Points,
         NEW a, a = accu[turn], NEW sorted, sorted = SortedOf(turn, a.rows),
         accu' = [accu EXCEPT ![AttrsOf[turn]] = ItemAttrs(turn, sorted)]
  PROVE  Filling(turn)
<1>1. signal \in Signals3 /\ Related /\ next \in 1..(Len(Declared(signal)) + 1)
  BY SignalIs DEF Inv, TypeOK
<1>2. turn \in Types(signal) /\ turn \notin Done /\ Position[turn] = next
  BY <1>1, Turns
<1>3. /\ AttrsOf[turn] \in Types(signal) /\ AttrsOf[turn] \in Attrs32
      /\ AttrsOf[turn] \notin Parents /\ Position[AttrsOf[turn]] > Position[turn]
      /\ \A t \in Parents : AttrsOf[t] = AttrsOf[turn] => t = turn
      /\ \A t \in Types(signal) \cap Points : ExemplarsOf[t] \in Parents
  BY <1>1, <1>2, Belongings
<1>4. AccuOK(turn, a) /\ Held(turn, a)
  BY <1>1, <1>2 DEF Inv, Related
<1>5. AccuOK(AttrsOf[turn], ItemAttrs(turn, sorted)) /\ Held(AttrsOf[turn], ItemAttrs(turn, sorted))
  BY <1>4, ItemsBuilt
<1>6. DOMAIN accu = Types(signal)
  BY DEF Inv
<1>7. DOMAIN accu' = Types(signal)
  BY <1>6
<1>8. /\ accu'[AttrsOf[turn]] = ItemAttrs(turn, sorted)
      /\ \A t \in Types(signal) : t # AttrsOf[turn] => accu'[t] = accu[t]
  BY <1>3, <1>6
<1>9. \A t \in Types(signal) : AccuOK(t, accu'[t]) /\ Held(t, accu'[t])
  <2> TAKE t \in Types(signal)
  <2>1. CASE t = AttrsOf[turn]
    BY <1>5, <1>8, <2>1
  <2>2. CASE t # AttrsOf[turn]
    BY <1>1, <1>8, <2>2 DEF Inv, Related
  <2> QED
    BY <2>1, <2>2
<1>10. \A t \in Done \cup {turn} \cup DOMAIN main.accu : t \in Types(signal) /\ t # AttrsOf[turn]
  <2>1. Done \subseteq Types(signal) /\ \A t \in Done : Position[t] < next
    BY <1>1, Turns
  <2>2. \A t \in Done : t # AttrsOf[turn]
    <3>1. PICK n \in 1..Len(Declared(signal)) : AttrsOf[turn] = Declared(signal)[n]
      BY <1>1, <1>3, Ordered
    <3>2. Len(Declared(signal)) \in Nat /\ Position[AttrsOf[turn]] = n
      BY <1>1, <3>1, Ordered
    <3> QED
      BY <1>1, <1>2, <1>3, <2>1, <3>1, <3>2
  <2>3. /\ DOMAIN main.accu \subseteq Types(signal)
        /\ DOMAIN main.accu \cap (Attrs32 \cup ExemplarKinds) = {}
    BY <1>1, MainBuilt DEF Inv, Related
  <2> QED
    BY <1>2, <1>3, <2>1, <2>2, <2>3
<1>11. \A t \in Types(signal) \cap Parents : t # turn => accu'[AttrsOf[t]] = accu[AttrsOf[t]]
  <2> TAKE t \in Types(signal) \cap Parents
  <2>1. AttrsOf[t] \in Types(signal)
    BY <1>1, Belongings
  <2> QED
    BY <1>3, <1>8, <2>1
<1>12. \A t \in Types(signal) \cap Points : accu'[ExemplarsOf[t]] = accu[ExemplarsOf[t]]
  <2> TAKE t \in Types(signal) \cap Points
  <2>1. ExemplarsOf[t] \in Types(signal)
    BY <1>1, Belongings
  <2> QED
    BY <1>3, <1>8, <2>1
<1>13. accu'[AttrsOf[turn]] = BuiltAttrs(turn, accu[turn])
  BY <1>8 DEF BuiltAttrs
<1> QED
  BY <1>7, <1>8, <1>9, <1>10, <1>11, <1>12, <1>13 DEF Filling

\* A try to build events, links, exemplars or summaries fills that of their attributes.
LEMMA InvBuildWithAttrs ==
  ASSUME Inv, BuildWithAttrs PROVE Inv'
<1>1. /\ phase = "related" /\ next <= Len(Declared(signal))
      /\ Turn \in DOMAIN AttrsOf \ DOMAIN ExemplarsOf /\ accu[Turn].rows # <<>>
  BY DEF BuildWithAttrs, Building
<1>2. signal \in Signals3 /\ Related /\ next \in 1..(Len(Declared(signal)) + 1)
  BY <1>1, SignalIs DEF Inv, TypeOK
<1>3. PICK turn : turn = Turn
  OBVIOUS
<1>4. turn \in Types(signal) /\ turn \notin Done /\ SorterOf(turn) \in Types(signal)
  BY <1>1, <1>2, <1>3, Turns, SortersAre
<1>5. turn \in Parents /\ turn \notin Points
  BY <1>1, <1>3, Kinds
<1>6. PICK a, prev, attrs :
        a = accu[turn] /\ prev = sorters[SorterOf(turn)] /\ attrs = accu[AttrsOf[turn]]
  OBVIOUS
<1>7. AccuOK(turn, a) /\ Len(prev) <= 1
  BY <1>2, <1>4, <1>6 DEF Inv, TypeOK
<1>8. PICK built :
        /\ built = CASE turn = "SPAN_EVENTS" -> TryBuildEvents(a, prev, attrs)
                     [] turn = "SPAN_LINKS" -> TryBuildLinks(a, prev, attrs)
                     [] turn = "SUMMARY_DATA_POINTS" -> TryBuildSummaries(a, prev, attrs)
                     [] OTHER -> TryBuildExemplars(a, prev, attrs)
        /\ Tried(built)
        /\ accu' = [accu EXCEPT ![AttrsOf[turn]] = built.attrs]
  BY <1>3, <1>6 DEF BuildWithAttrs
<1>9. Built(built, turn, a, prev, FALSE)
  <2>1. CASE turn = "SPAN_EVENTS"
    <3>1. built = TryBuildEvents(a, prev, attrs)
      BY <1>8, <2>1
    <3> QED
      BY <2>1, <3>1, EventsBuilt
  <2>2. CASE turn = "SPAN_LINKS"
    <3>1. built = TryBuildLinks(a, prev, attrs)
      BY <1>8, <2>2
    <3> QED
      BY <2>2, <3>1, LinksBuilt
  <2>3. CASE turn = "SUMMARY_DATA_POINTS"
    <3>1. built = TryBuildSummaries(a, prev, attrs)
      BY <1>8, <2>3
    <3>2. turn \in PointKinds
      BY <2>3 DEF PointKinds
    <3> QED
      BY <3>1, <3>2, SummariesBuilt
  <2>4. CASE turn \notin {"SPAN_EVENTS", "SPAN_LINKS", "SUMMARY_DATA_POINTS"}
    <3>1. built = TryBuildExemplars(a, prev, attrs)
      BY <1>8, <2>4
    <3>2. turn \in ExemplarKinds
      BY <1>5, <2>4 DEF Parents, Points, ExemplarKinds
    <3> QED
      BY <3>1, <3>2, ExemplarsBuilt
  <2> QED
    BY <2>1, <2>2, <2>3, <2>4
<1>10. PICK sorted : sorted = SortedOf(turn, a.rows)
  OBVIOUS
<1>11. /\ built.rows = ItemRows(turn, sorted) /\ built.attrs = ItemAttrs(turn, sorted)
       /\ built.prev = Remembered(prev, sorted)
       /\ built.panics
            <=> Panics(ItemIds(turn, sorted)) \/ TooManyGroups32(ItemAttrs(turn, sorted))
  BY <1>9, <1>10, Zenon DEF Built
<1>12. built.rows = BuiltRows(turn, a)
  <2>1. turn \notin Attrs16 /\ turn \notin Attrs32
    BY <1>2, <1>5, TypesKinds
  <2> QED
    BY <1>5, <1>10, <1>11, <2>1 DEF BuiltRows
<1>13. Len(built.prev) <= 1
  BY <1>7, <1>11, RememberedOne
<1>14. built.panics => Excused
  <2>1. Panics(ItemIds(turn, sorted)) \/ TooManyGroups32(ItemAttrs(turn, sorted))
          => Len(a.rows) > MaxUint32
    BY <1>5, <1>7, <1>10, ItemsBuilt
  <2>2. Len(a.rows) > MaxUint32 => Excused
    BY <1>1, <1>4, <1>5, <1>6, TooManyRows
  <2> QED
    BY <1>11, <2>1, <2>2
<1>15. Filling(turn)
  <2>1. accu' = [accu EXCEPT ![AttrsOf[turn]] = ItemAttrs(turn, sorted)]
    BY <1>8, <1>11
  <2> QED
    BY <1>1, <1>3, <1>5, <1>6, <1>10, <2>1, FillsAttrs
<1>16. ~built.panics => ~Panics(ItemIds(turn, SortedOf(turn, accu[turn].rows)))
  BY <1>6, <1>10, <1>11
<1> QED
  BY <1>1, <1>3, <1>6, <1>8, <1>12, <1>13, <1>14, <1>15, <1>16, InvTried

\* What a try to build data points does to the accumulator of their exemplars.
LEMMA ExemplarsFilled ==
  ASSUME Inv, phase = "related", next <= Len(Declared(signal)),
         NEW turn, turn = Turn, turn \in Points,
         NEW a, a = accu[turn], NEW points, points = SortedOf(turn, a.rows),
         NEW new, new = Exemplified(accu[ExemplarsOf[turn]], points)
  PROVE  /\ AccuOK(ExemplarsOf[turn], new) /\ Held(ExemplarsOf[turn], new)
         /\ new.groups <= Len(new.rows) /\ Len(new.rows) \in Nat
         /\ Len(new.rows) <= MostExemplars(turn) + TotalOf(AllExemplarsOf)
         /\ \A row \in Range(new.rows) : FromPoints(row, points)
         /\ \A k \in 1..Len(points) : \A exemplar \in Range(points[k].exemplars) :
              ExemplarRow(k - 1, exemplar) \in Range(new.rows)
         /\ TooManyGroups32(new) => Excused
<1>1. /\ signal \in Signals3 /\ SentOK(signal, sent) /\ Related
      /\ next \in 1..(Len(Declared(signal)) + 1) /\ updates \in Nat
  BY SignalIs, BatchesAssumption DEF BatchesAssumption, Inv, TypeOK
<1>2. MaxUint16 \in Nat \ {0} /\ MaxUint32 \in Nat
  BY WidthAssumption DEF WidthAssumption
<1>3. turn \in Types(signal) /\ turn \notin Done
  BY <1>1, Turns
<1>4. signal = "metrics"
  BY <1>1, <1>3, TracesOrder, LogsOrder DEF Signals3, TracesTypes, LogsTypes, Points
<1>5. AccuOK(turn, a) /\ Held(turn, a)
  BY <1>1, <1>3 DEF Inv, Related
<1>6. PICK e : e = accu[ExemplarsOf[turn]]
  OBVIOUS
<1>7. Accu(e)
  <2>1. ExemplarsOf[turn] \in Types(signal)
    BY <1>1, <1>3, Belongings
  <2> QED
    BY <1>6, <2>1 DEF Inv, AccuOK
<1>8. /\ e.groups <= Len(e.rows) /\ Len(e.rows) <= MostExemplars(turn)
      /\ \A row \in Range(e.rows) : FromPoints(row, points)
  BY <1>1, <1>3, <1>6 DEF Related, ExemplarsOK
<1>9. PICK m, n : /\ m = Subtotals(ExemplarCounts(points))[Len(points)]
                  /\ n = Subtotals(ExemplarCounts(a.rows))[Len(a.rows)]
  OBVIOUS
<1>10. PointsOK(points) /\ m \in Nat /\ n \in Nat /\ m <= n
  BY <1>5, <1>9, PointsSorted
<1>11. /\ Accu(new) /\ Len(new.rows) = Len(e.rows) + m /\ new.groups <= Len(new.rows)
       /\ \A row : row \in Range(new.rows) <=> row \in Range(e.rows) \/ FromPoints(row, points)
  <2>1. new = Exemplified(e, points)
    BY <1>6
  <2>2. PointsOK(points)
    BY <1>10
  <2>3. Accu(new)
    BY ONLY <1>7, <2>1, <2>2, ExemplifiedIs
  <2>4. Len(new.rows) = Len(e.rows) + Subtotals(ExemplarCounts(points))[Len(points)]
    BY ONLY <1>7, <2>1, <2>2, ExemplifiedIs
  <2>5. e.groups <= Len(e.rows) => new.groups <= Len(new.rows)
    BY ONLY <1>7, <2>1, <2>2, ExemplifiedIs
  <2>6. \A row : row \in Range(new.rows) <=> row \in Range(e.rows) \/ FromPoints(row, points)
    BY ONLY <1>7, <2>1, <2>2, ExemplifiedIs
  <2> QED
    BY <1>8, <1>9, <2>3, <2>4, <2>5, <2>6
<1>12. \A row \in Range(new.rows) : FromPoints(row, points)
  BY <1>8, <1>11
<1>13. AccuOK(ExemplarsOf[turn], new) /\ Held(ExemplarsOf[turn], new)
  BY <1>5, <1>11, <1>12, ExemplarsHeld
<1>14. ASSUME NEW k \in 1..Len(points), NEW exemplar \in Range(points[k].exemplars)
       PROVE  ExemplarRow(k - 1, exemplar) \in Range(new.rows)
  <2>1. FromPoints(ExemplarRow(k - 1, exemplar), points)
    BY DEF FromPoints
  <2> QED
    BY <1>11, <2>1
<1>15. PICK total \in Nat : total = TotalOf(AllExemplarsOf)
  BY <1>1, <1>4, TotalsType
<1>16. n <= total
  <2>1. main = AppendMetrics(sent) /\ \A t \in DOMAIN main.accu : accu[t] = main.accu[t]
    BY <1>1, <1>4 DEF Related, AppendMain
  <2>2. /\ DOMAIN main.accu = {"RESOURCE_ATTRS", "SCOPE_ATTRS"} \cup PointKinds
        /\ \A t \in PointKinds :
             LET rows == main.accu[t].rows IN
             Subtotals(ExemplarCounts(rows))[Len(rows)] <= TotalOf(AllExemplarsOf)
    BY <1>1, <1>2, <1>4, <2>1, MetricsMain
  <2>3. turn \in PointKinds
    BY DEF Points, PointKinds
  <2>4. main.accu[turn].rows = a.rows
    BY <2>1, <2>2, <2>3
  <2> QED
    BY <1>9, <1>15, <2>2, <2>3, <2>4
<1>17. PICK most : most = MostExemplars(turn)
  OBVIOUS
<1>18. most = updates * total
  <2>1. most = (updates + 0) * total
    BY <1>3, <1>15, <1>17 DEF MostExemplars
  <2> QED
    BY <1>1, <2>1
<1>19. most \in Nat /\ (updates + 1) * total = most + total
  BY <1>1, <1>15, <1>18, Times
<1>20. Len(new.rows) \in Nat /\ new.groups \in Nat /\ Len(e.rows) \in Nat
  BY <1>7, <1>11 DEF Accu, List
<1>21. Len(e.rows) <= most
  BY <1>8, <1>17
<1>22. Len(new.rows) <= most + total
  BY <1>10, <1>11, <1>16, <1>19, <1>20, <1>21
<1>23. ASSUME TooManyGroups32(new) PROVE Excused
  <2>1. new.groups > MaxUint32
    BY <1>23 DEF TooManyGroups32
  <2>2. most + total > MaxUint32
    BY <1>2, <1>11, <1>19, <1>20, <1>22, <2>1
  <2>3. (updates + 1) * TotalOf(AllExemplarsOf) > MaxUint32
    BY <1>15, <1>19, <2>2, SMTT(30)
  <2> QED
    BY <1>4, <2>3 DEF Excused
<1> QED
  BY <1>11, <1>12, <1>13, <1>14, <1>15, <1>17, <1>20, <1>22, <1>23

\* A try to build data points fills the accumulators of their attributes and exemplars.
LEMMA FillsPoints ==
  ASSUME Inv, phase = "related", next <= Len(Declared(signal)),
         NEW turn, turn = Turn, turn \in Points,
         NEW a, a = accu[turn], NEW sorted, sorted = SortedOf(turn, a.rows),
         accu' = [accu EXCEPT ![AttrsOf[turn]] = ItemAttrs(turn, sorted),
                              ![ExemplarsOf[turn]]
                                = Exemplified(accu[ExemplarsOf[turn]], sorted)]
  PROVE  Filling(turn)
<1>1. signal \in Signals3 /\ Related /\ next \in 1..(Len(Declared(signal)) + 1)
  BY SignalIs DEF Inv, TypeOK
<1>2. turn \in Types(signal) /\ turn \notin Done /\ Position[turn] = next /\ turn \in Parents
  BY <1>1, Turns DEF Points, Parents
<1>3. /\ AttrsOf[turn] \in Types(signal) /\ AttrsOf[turn] \in Attrs32
      /\ AttrsOf[turn] \notin Parents /\ Position[AttrsOf[turn]] > Position[turn]
      /\ \A t \in Parents : AttrsOf[t] = AttrsOf[turn] => t = turn
      /\ ExemplarsOf[turn] \in Types(signal) /\ ExemplarsOf[turn] \in Parents
      /\ ExemplarsOf[turn] \notin PointKinds
      /\ Position[ExemplarsOf[turn]] > Position[turn]
      /\ \A t \in Points : ExemplarsOf[t] = ExemplarsOf[turn] => t = turn
  BY <1>1, <1>2, Belongings
<1>4. AccuOK(turn, a) /\ Held(turn, a)
  BY <1>1, <1>2 DEF Inv, Related
<1>5. AccuOK(AttrsOf[turn], ItemAttrs(turn, sorted)) /\ Held(AttrsOf[turn], ItemAttrs(turn, sorted))
  BY <1>2, <1>4, ItemsBuilt
<1>6. PICK new : new = Exemplified(accu[ExemplarsOf[turn]], sorted)
  OBVIOUS
<1>7. /\ AccuOK(ExemplarsOf[turn], new) /\ Held(ExemplarsOf[turn], new)
      /\ new.groups <= Len(new.rows) /\ Len(new.rows) \in Nat
      /\ Len(new.rows) <= MostExemplars(turn) + TotalOf(AllExemplarsOf)
      /\ \A row \in Range(new.rows) : FromPoints(row, sorted)
      /\ \A k \in 1..Len(sorted) : \A exemplar \in Range(sorted[k].exemplars) :
           ExemplarRow(k - 1, exemplar) \in Range(new.rows)
  BY <1>6, ExemplarsFilled
<1>8. DOMAIN accu = Types(signal)
  BY DEF Inv
<1>9. AttrsOf[turn] # ExemplarsOf[turn]
  BY <1>3
<1>10. /\ DOMAIN accu' = Types(signal)
       /\ accu'[AttrsOf[turn]] = ItemAttrs(turn, sorted)
       /\ accu'[ExemplarsOf[turn]] = new
       /\ \A t \in Types(signal) :
            t # AttrsOf[turn] /\ t # ExemplarsOf[turn] => accu'[t] = accu[t]
  BY <1>3, <1>6, <1>8, <1>9
<1>11. \A t \in Types(signal) : AccuOK(t, accu'[t]) /\ Held(t, accu'[t])
  <2> TAKE t \in Types(signal)
  <2>1. CASE t = AttrsOf[turn]
    BY <1>5, <1>10, <2>1
  <2>2. CASE t = ExemplarsOf[turn]
    BY <1>7, <1>10, <2>2
  <2>3. CASE t # AttrsOf[turn] /\ t # ExemplarsOf[turn]
    BY <1>1, <1>10, <2>3 DEF Inv, Related
  <2> QED
    BY <2>1, <2>2, <2>3
<1>12. \A t \in Done \cup {turn} \cup DOMAIN main.accu :
         t \in Types(signal) /\ t # AttrsOf[turn] /\ t # ExemplarsOf[turn]
  <2>1. Done \subseteq Types(signal) /\ \A t \in Done : Position[t] < next
    BY <1>1, Turns
  <2>2. \A u \in Types(signal) : Position[u] > next => u \notin Done
    <3> SUFFICES ASSUME NEW u \in Types(signal), Position[u] > next PROVE u \notin Done
      OBVIOUS
    <3>1. PICK n \in 1..Len(Declared(signal)) : u = Declared(signal)[n]
      BY <1>1, Ordered
    <3>2. Len(Declared(signal)) \in Nat /\ Position[u] = n
      BY <1>1, <3>1, Ordered
    <3> QED
      BY <1>1, <2>1, <3>1, <3>2
  <2>3. AttrsOf[turn] \notin Done /\ ExemplarsOf[turn] \notin Done
    BY <1>2, <1>3, <2>2
  <2>4. /\ DOMAIN main.accu \subseteq Types(signal)
        /\ DOMAIN main.accu \cap (Attrs32 \cup ExemplarKinds) = {}
    BY <1>1, MainBuilt DEF Inv, Related
  <2>5. ExemplarsOf[turn] \in ExemplarKinds
    BY DEF Points, ExemplarsOf, ExemplarKinds
  <2>6. turn # AttrsOf[turn] /\ turn # ExemplarsOf[turn]
    BY <1>2, <1>3 DEF Points, PointKinds
  <2> QED
    BY <1>2, <1>3, <2>1, <2>3, <2>4, <2>5, <2>6
<1>13. \A t \in Types(signal) \cap Parents : t # turn => accu'[AttrsOf[t]] = accu[AttrsOf[t]]
  <2> TAKE t \in Types(signal) \cap Parents
  <2>1. AttrsOf[t] \in Types(signal) /\ AttrsOf[t] \notin Parents
    BY <1>1, Belongings
  <2> QED
    BY <1>3, <1>10, <2>1
<1>14. \A t \in Types(signal) \cap Points :
         t # turn => accu'[ExemplarsOf[t]] = accu[ExemplarsOf[t]]
  <2> TAKE t \in Types(signal) \cap Points
  <2>1. ExemplarsOf[t] \in Types(signal) /\ ExemplarsOf[t] \in Parents
    BY <1>1, Belongings
  <2> QED
    BY <1>3, <1>10, <2>1
<1>15. accu'[AttrsOf[turn]] = BuiltAttrs(turn, accu[turn])
  BY <1>10 DEF BuiltAttrs
<1>16. \A t \in Done \cup {turn} \cup DOMAIN main.accu : accu'[t] = accu[t]
  BY <1>10, <1>12
<1>17. LET e == accu'[ExemplarsOf[turn]]
           points == SortedOf(turn, accu[turn].rows)
       IN  /\ e.groups <= Len(e.rows) /\ Len(e.rows) \in Nat
           /\ Len(e.rows) <= MostExemplars(turn) + TotalOf(AllExemplarsOf)
           /\ \A row \in Range(e.rows) : FromPoints(row, points)
           /\ \A k \in 1..Len(points) : \A exemplar \in Range(points[k].exemplars) :
                ExemplarRow(k - 1, exemplar) \in Range(e.rows)
  BY <1>7, <1>10
<1> QED
  BY <1>10, <1>11, <1>13, <1>14, <1>15, <1>16, <1>17 DEF Filling

\* So does every such try, also the second for the same batch.
LEMMA InvBuildDataPoints ==
  ASSUME Inv, BuildDataPoints PROVE Inv'
<1>1. /\ phase = "related" /\ next <= Len(Declared(signal))
      /\ Turn \in DOMAIN ExemplarsOf /\ accu[Turn].rows # <<>>
  BY DEF BuildDataPoints, Building
<1>2. signal \in Signals3 /\ Related /\ next \in 1..(Len(Declared(signal)) + 1)
  BY <1>1, SignalIs DEF Inv, TypeOK
<1>3. PICK turn : turn = Turn
  OBVIOUS
<1>4. turn \in Types(signal) /\ turn \notin Done
  BY <1>1, <1>2, <1>3, Turns
<1>5. turn \in Points /\ turn \in PointKinds /\ turn \in Parents
  BY <1>1, <1>3, Kinds DEF Points, PointKinds, Parents
<1>6. PICK a, prev, attrs, exemplars :
        /\ a = accu[turn] /\ prev = sorters[turn] /\ attrs = accu[AttrsOf[turn]]
        /\ exemplars = accu[ExemplarsOf[turn]]
  OBVIOUS
<1>7. AccuOK(turn, a) /\ Len(prev) <= 1
  BY <1>2, <1>4, <1>6 DEF Inv, TypeOK
<1>8. PICK built :
        /\ built = CASE turn = "NUMBER_DATA_POINTS" ->
                          TryBuildNumberDPs(a, prev, attrs, exemplars)
                     [] turn = "HISTOGRAM_DATA_POINTS" ->
                          TryBuildHistograms(a, prev, attrs, exemplars)
                     [] OTHER -> TryBuildEHistograms(a, prev, attrs, exemplars)
        /\ Tried(built)
        /\ accu' = [accu EXCEPT ![AttrsOf[turn]] = built.attrs,
                                ![ExemplarsOf[turn]] = built.exemplars]
  BY <1>3, <1>6 DEF BuildDataPoints
<1>9. built = TryBuildDPs(a, prev, attrs, exemplars)
  BY <1>8 DEF TryBuildNumberDPs, TryBuildHistograms, TryBuildEHistograms
<1>10. PICK sorted : sorted = SortedOf(turn, a.rows)
  OBVIOUS
<1>11. PICK new : new = Exemplified(exemplars, sorted)
  OBVIOUS
<1>12. built.exemplars = new
  BY <1>5, <1>9, <1>10, <1>11, PointsBuilt
<1>13. Built(built, turn, a, prev, TooManyGroups32(new))
  <2>1. Built(built, turn, a, prev, TooManyGroups32(built.exemplars))
    BY <1>5, <1>9, PointsBuilt
  <2> QED
    BY <1>12, <2>1
<1>14. /\ built.rows = ItemRows(turn, sorted) /\ built.attrs = ItemAttrs(turn, sorted)
       /\ built.prev = Remembered(prev, sorted)
       /\ built.panics
            <=> \/ Panics(ItemIds(turn, sorted)) \/ TooManyGroups32(ItemAttrs(turn, sorted))
                \/ TooManyGroups32(new)
  BY <1>10, <1>13, Zenon DEF Built
<1>15. built.rows = BuiltRows(turn, a)
  <2>1. turn \notin Attrs16 /\ turn \notin Attrs32
    BY <1>2, <1>5, TypesKinds
  <2> QED
    BY <1>5, <1>10, <1>14, <2>1 DEF BuiltRows
<1>16. Len(built.prev) <= 1
  BY <1>7, <1>14, RememberedOne
<1>17. built.panics => Excused
  <2>1. Panics(ItemIds(turn, sorted)) \/ TooManyGroups32(ItemAttrs(turn, sorted))
          => Len(a.rows) > MaxUint32
    BY <1>5, <1>7, <1>10, ItemsBuilt
  <2>2. Len(a.rows) > MaxUint32 => Excused
    BY <1>1, <1>4, <1>5, <1>6, TooManyRows
  <2>3. TooManyGroups32(new) => Excused
    BY <1>1, <1>3, <1>5, <1>6, <1>10, <1>11, ExemplarsFilled
  <2> QED
    BY <1>14, <2>1, <2>2, <2>3
<1>18. Filling(turn)
  <2>1. accu' = [accu EXCEPT ![AttrsOf[turn]] = ItemAttrs(turn, sorted),
                             ![ExemplarsOf[turn]]
                               = Exemplified(accu[ExemplarsOf[turn]], sorted)]
    BY <1>6, <1>8, <1>11, <1>12, <1>14
  <2> QED
    BY <1>1, <1>3, <1>5, <1>6, <1>10, <2>1, FillsPoints
<1>19. ~built.panics => ~Panics(ItemIds(turn, SortedOf(turn, accu[turn].rows)))
  BY <1>6, <1>10, <1>14
<1> QED
  BY <1>1, <1>3, <1>6, <1>8, <1>15, <1>16, <1>17, <1>18, <1>19, InvTried

\* What is said of the records depends on nothing else.
LEMMA RelatedSame ==
  ASSUME Related, UNCHANGED <<signal, sent, updates, next, main, records, accu>>
  PROVE  Related'
<1>1. UNCHANGED <<signal, sent, updates, next, main, records, accu>>
  OBVIOUS
<1>2. Done' = Done /\ Turn' = Turn /\ Holders' = Holders
      /\ TotalOf(AllExemplarsOf)' = TotalOf(AllExemplarsOf) /\ Types(signal)' = Types(signal)
  BY <1>1 DEF Done, Turn, Holders, Children, TotalOf, AllExemplarsOf
<1>3. \A t : Held(t, accu[t]) => Held(t, accu[t])'
  BY <1>1, <1>2 DEF Held, HeldRow
<1>4. \A t : RecordOK(t) => RecordOK(t)'
  BY <1>1, <1>2 DEF RecordOK
<1>5. \A t : AttrsOK(t) => AttrsOK(t)'
  BY <1>1, <1>2 DEF AttrsOK
<1>6. \A t : MostExemplars(t)' = MostExemplars(t)
  BY <1>1, <1>2 DEF MostExemplars
<1>7. \A t : ExemplarsOK(t) => ExemplarsOK(t)'
  BY <1>1, <1>2, <1>6 DEF ExemplarsOK
<1> QED
  BY <1>1, <1>2, <1>3, <1>4, <1>5, <1>7 DEF Related

\* The consumer decodes what was built.
LEMMA InvDecode ==
  ASSUME Inv, Decode PROVE Inv'
<1>1. /\ phase = "related" /\ next > Len(Declared(signal))
      /\ \/ phase' = "unreadable" /\ AttributePanics
         \/ phase' = "received" /\ received' = Decoded(signal, main, records)
      /\ UNCHANGED <<signal, sent, batches, updates, next, main, records, accu, sorters>>
  BY DEF Decode
<1>2. signal \in Signals3 /\ Related /\ next \in 1..(Len(Declared(signal)) + 1)
  BY <1>1, SignalIs DEF Inv, TypeOK
<1>3. next = Len(Declared(signal)) + 1
  <2>1. Len(Declared(signal)) \in Nat
    BY <1>2, Ordered
  <2> QED
    BY <1>1, <1>2, <2>1
<1>4. Related'
  BY <1>1, <1>2, RelatedSame
<1>5. TypeOK'
  BY <1>1 DEF Inv, TypeOK
<1>6. AttributePanics' <=> AttributePanics
  BY <1>1 DEF AttributePanics
<1> QED
  BY <1>1, <1>3, <1>4, <1>5, <1>6 DEF Inv

\* Nothing changes.
LEMMA InvStutters ==
  ASSUME Inv, UNCHANGED vars PROVE Inv'
<1>1. UNCHANGED <<signal, sent, batches, updates, phase, next, main, records, accu, sorters,
                  received>>
  BY DEF vars
<1>2. Related => Related'
  BY <1>1, RelatedSame
<1>3. Excused => Excused'
  <2>1. Holders' = Holders
    BY <1>1 DEF Holders, Children
  <2> QED
    BY <1>1, <2>1 DEF Excused, Missing, TotalOf, EventsOf, LinksOf, PointsOf, AllExemplarsOf
<1>4. TypeOK'
  BY <1>1 DEF Inv, TypeOK
<1>5. AttributePanics' <=> AttributePanics
  BY <1>1 DEF AttributePanics
<1> QED
  BY <1>1, <1>2, <1>3, <1>4, <1>5 DEF Inv

\* The inductive invariant.
THEOREM Invariant == Spec => []Inv
<1>1. Init => Inv
  BY InvInit
<1>2. Inv /\ [Next]_vars => Inv'
  BY InvTake, InvBuildMain, InvSkipEmpty, InvBuildAttrs16, InvBuildAttrs32,
     InvBuildWithAttrs, InvBuildDataPoints, InvDecode, InvStutters DEF Next
<1> QED
  BY <1>1, <1>2, PTL DEF Spec

\* TypeOK: the type invariant of the producer and consumer of a batch.
THEOREM TypeCorrect == Spec => []TypeOK
<1>1. Inv => TypeOK
  BY DEF Inv
<1> QED
  BY <1>1, Invariant, PTL

\* FewEntitiesNeverPanic: the id builders panic only when a batch has more entities than
\* ids, or a value without a type.
THEOREM FewEntities == Spec => []FewEntitiesNeverPanic
<1>1. ASSUME Inv PROVE FewEntitiesNeverPanic
  <2>1. DOMAIN sent = 1..Len(sent)
    BY <1>1, ListDomain DEF Inv, SentOK
  <2> QED
    BY <1>1, <2>1, ExcusedIs DEF Inv
<1> QED
  BY <1>1, Invariant, PTL

\* What is known of a batch once all its records are built.
LEMMA Complete ==
  ASSUME Inv, phase \in {"received", "unreadable"}
  PROVE  /\ signal \in Signals3 /\ SentOK(signal, sent)
         /\ main = AppendMain(signal, sent) /\ ~main.panics
         /\ \A t \in DOMAIN main.accu : accu[t] = main.accu[t]
         /\ \A t \in Types(signal) : records[t] = BuiltRows(t, accu[t])
         /\ \A t \in Types(signal) \cap Parents :
              /\ ~Panics(ItemIds(t, SortedOf(t, accu[t].rows)))
              /\ accu[AttrsOf[t]] = BuiltAttrs(t, accu[t])
         /\ \A t \in Types(signal) \cap Points : ExemplarsOK(t)
         /\ Done = Types(signal)
<1>1. /\ Related /\ next = Len(Declared(signal)) + 1
      /\ SentOK(signal, sent) /\ signal \in Signals3
  BY SignalIs DEF Inv, TypeOK
<1>2. Done = Types(signal)
  <2>1. Len(Declared(signal)) \in Nat
    BY <1>1, Ordered
  <2>2. next \in 1..(Len(Declared(signal)) + 1) /\ next > Len(Declared(signal))
    BY <1>1, <2>1
  <2> QED
    BY <1>1, <2>2, Turns
<1>3. \A t \in Types(signal) : records[t] = BuiltRows(t, accu[t])
  BY <1>1, <1>2 DEF Related, RecordOK
<1>4. \A t \in Types(signal) \cap Parents :
        /\ ~Panics(ItemIds(t, SortedOf(t, accu[t].rows)))
        /\ accu[AttrsOf[t]] = BuiltAttrs(t, accu[t])
  BY <1>1, <1>2 DEF Related, AttrsOK
<1> QED
  BY <1>1, <1>2, <1>3, <1>4 DEF Related

\* The same once it is delivered.
LEMMA Delivery ==
  ASSUME Inv, Delivered
  PROVE  /\ signal \in Signals3 /\ SentOK(signal, sent)
         /\ received = Decoded(signal, main, records)
         /\ main = AppendMain(signal, sent) /\ ~main.panics
         /\ \A t \in DOMAIN main.accu : accu[t] = main.accu[t]
         /\ \A t \in Types(signal) : records[t] = BuiltRows(t, accu[t])
         /\ \A t \in Types(signal) \cap Parents :
              /\ ~Panics(ItemIds(t, SortedOf(t, accu[t].rows)))
              /\ accu[AttrsOf[t]] = BuiltAttrs(t, accu[t])
         /\ \A t \in Types(signal) \cap Points : ExemplarsOK(t)
         /\ Done = Types(signal)
<1>1. phase = "received" /\ received = Decoded(signal, main, records)
  BY DEF Inv, Delivered
<1> QED
  BY <1>1, Complete

\* The attributes of spans and log records are found by the sum of the differences.
LEMMA EntryAttrsFound ==
  ASSUME SentOK(signal, sent), signal \in {"traces", "logs"},
         NEW referred, DOMAIN referred = 1..Len(sent),
         \A k \in 1..Len(sent) : sent[k].entry.attrs # <<>> => referred[k],
         NEW ids, ids = SparseIds(referred, MaxUint16), ~Panics(ids),
         NEW i \in 1..Len(sent), sent[i].entry.attrs # <<>>,
         NEW a, a = Filled(NewAccumulator, AddedAttrs(ids))
  PROVE  AttributesByID(Attributes16StoreFrom(TryBuildAttrs16(a, <<>>).rows),
                        Sum(Deltas(ids), DOMAIN Deltas(ids), i, MaxUint16))
           = Named(sent[i].entry.attrs)
<1>1. MaxUint16 \in Nat \ {0}
  BY WidthAssumption DEF WidthAssumption
<1>2. PICK n \in Nat : n = Len(sent)
  BY SentRows
<1>3. DOMAIN ids = 1..n
  BY <1>1, <1>2, SparseIdsType
<1>4. /\ DOMAIN ids = 1..n
      /\ \A k \in 1..n : /\ referred[k] => ids[k] \in 0..MaxUint16
                         /\ ~referred[k] => ids[k] = Null
  <2>1. MaxUint16 \in Nat
    BY <1>1
  <2>2. DOMAIN referred = 1..n
    BY <1>2
  <2>3. /\ DOMAIN SparseIds(referred, MaxUint16) = 1..n
        /\ \A k \in 1..n : /\ referred[k] => SparseIds(referred, MaxUint16)[k] \in 0..MaxUint16
                           /\ ~referred[k] => SparseIds(referred, MaxUint16)[k] = Null
    BY ONLY <2>1, <2>2, n \in Nat, SparseIdsType
  <2>4. ids = SparseIds(referred, MaxUint16)
    OBVIOUS
  <2> QED
    BY ONLY <2>3, <2>4
<1>5. \A k \in 1..n : ids[k] = Null \/ ids[k] \in 0..MaxUint16
  BY <1>4
<1>6. referred[i] /\ ids[i] # Null /\ i \in 1..n
  BY <1>1, <1>2, <1>4 DEF Null
<1>7. Sum(Deltas(ids), DOMAIN Deltas(ids), i, MaxUint16) = ids[i]
  <2>1. MaxUint16 \in Nat /\ ~Panics(ids)
    BY <1>1
  <2> QED
    BY ONLY n \in Nat, <1>3, <1>5, <1>6, <2>1, SumFinds
<1>8. PICK added, lists : added = AddedAttrs(ids) /\ lists = AttrsSent
  OBVIOUS
<1>9. Filed(added, n, ids, lists)
  BY <1>2, <1>8, AttrsFiled
<1>10. \A k \in 1..n : lists[k] = sent[k].entry.attrs
  BY <1>2, <1>8 DEF AttrsSent
<1>11. \A k \in 1..n : lists[k] # <<>> => ids[k] \in 0..MaxUint16
  BY <1>2, <1>4, <1>10
<1>12. \A k \in 1..n : lists[k] # <<>> /\ ids[k] = ids[i] => k = i
  BY <1>1, <1>2, <1>6, <1>10, SparseIdsDiffer
<1>13. AttributesByID(
         Attributes16StoreFrom(TryBuildAttrs16(Filled(NewAccumulator, added), <<>>).rows), ids[i])
         = Named(lists[i])
  BY <1>1, <1>6, <1>9, <1>11, <1>12, AttrsFound16, SMTT(30)
<1> QED
  BY <1>6, <1>7, <1>8, <1>10, <1>13

\* What a delivered batch of traces consists of.
LEMMA TracesReceived ==
  ASSUME Inv, Delivered, signal = "traces", NEW ids, ids = SpanIds(sent)
  PROVE  /\ Len(received) = Len(sent)
         /\ DOMAIN received = 1..Len(sent) /\ DOMAIN sent = 1..Len(sent)
         /\ \A i \in 1..Len(sent) :
              /\ received[i].data = sent[i].entry.data
              /\ received[i].attrs
                   = AttributesByID(Attributes16StoreFrom(records["SPAN_ATTRS"]),
                                    Sum(Deltas(ids), DOMAIN Deltas(ids), i, MaxUint16))
         /\ main.ids = Deltas(ids) /\ DOMAIN ids = 1..Len(sent) /\ ~Panics(ids)
<1>1. /\ SentOK(signal, sent) /\ main = AppendTraces(sent) /\ ~main.panics
      /\ received = TracesFrom(main, TracesRelatedDataFrom(records))
  BY Delivery DEF AppendMain, Decoded
<1>2. PICK n \in Nat : n = Len(sent) /\ DOMAIN sent = 1..n
  BY <1>1, SentRows
<1>3. main.ids = Deltas(ids) /\ ~Main(sent, ids).panics
      /\ \A i \in 1..n : main.data[i] = sent[i].entry.data
  BY <1>1, <1>2, MainIs DEF AppendTraces
<1>4. ~Panics(ids)
  <2>1. MaxUint16 \in Nat
    BY WidthAssumption DEF WidthAssumption
  <2> QED
    BY <1>1, <1>3, <2>1, MainPanics
<1>5. DOMAIN ids = 1..n
  BY <1>2 DEF SpanIds, SparseIds
<1>6. DOMAIN main.ids = 1..n
  BY <1>3, <1>5 DEF Deltas
<1>7. DOMAIN received = 1..n
  BY <1>1, <1>6 DEF TracesFrom
<1>8. Len(received) = n
  BY <1>7, LengthOf
<1>9. ASSUME NEW i \in 1..n
      PROVE  /\ received[i].data = sent[i].entry.data
             /\ received[i].attrs
                  = AttributesByID(Attributes16StoreFrom(records["SPAN_ATTRS"]),
                                   Sum(Deltas(ids), DOMAIN Deltas(ids), i, MaxUint16))
  BY <1>1, <1>3, <1>6, <1>9 DEF TracesFrom, TracesRelatedDataFrom, SpanIDFromDelta
<1> QED
  BY <1>2, <1>3, <1>4, <1>5, <1>7, <1>8, <1>9

\* What is received of logs.
LEMMA LogsReceived ==
  ASSUME Inv, Delivered, signal = "logs", NEW ids, ids = LogIds(sent)
  PROVE  /\ Len(received) = Len(sent)
         /\ DOMAIN received = 1..Len(sent) /\ DOMAIN sent = 1..Len(sent)
         /\ \A i \in 1..Len(sent) :
              /\ received[i].data = sent[i].entry.data
              /\ received[i].attrs
                   = AttributesByID(Attributes16StoreFrom(records["LOG_ATTRS"]),
                                    Sum(Deltas(ids), DOMAIN Deltas(ids), i, MaxUint16))
         /\ main.ids = Deltas(ids) /\ DOMAIN ids = 1..Len(sent) /\ ~Panics(ids)
<1>1. /\ SentOK(signal, sent) /\ main = AppendLogs(sent) /\ ~main.panics
      /\ received = LogsFrom(main, LogsRelatedDataFrom(records))
  BY Delivery DEF AppendMain, Decoded
<1>2. PICK n \in Nat : n = Len(sent) /\ DOMAIN sent = 1..n
  BY <1>1, SentRows
<1>3. main.ids = Deltas(ids) /\ ~Main(sent, ids).panics
      /\ \A i \in 1..n : main.data[i] = sent[i].entry.data
  BY <1>1, <1>2, MainIs DEF AppendLogs
<1>4. ~Panics(ids)
  <2>1. MaxUint16 \in Nat
    BY WidthAssumption DEF WidthAssumption
  <2> QED
    BY <1>1, <1>3, <2>1, MainPanics
<1>5. DOMAIN ids = 1..n
  BY <1>2 DEF LogIds, SparseIds
<1>6. DOMAIN main.ids = 1..n
  BY <1>3, <1>5 DEF Deltas
<1>7. DOMAIN received = 1..n
  BY <1>1, <1>6 DEF LogsFrom
<1>8. Len(received) = n
  BY <1>7, LengthOf
<1>9. ASSUME NEW i \in 1..n
      PROVE  /\ received[i].data = sent[i].entry.data
             /\ received[i].attrs
                  = AttributesByID(Attributes16StoreFrom(records["LOG_ATTRS"]),
                                   Sum(Deltas(ids), DOMAIN Deltas(ids), i, MaxUint16))
  BY <1>1, <1>3, <1>6, <1>9 DEF LogsFrom, LogsRelatedDataFrom, LogRecordIDFromDelta
<1> QED
  BY <1>2, <1>3, <1>4, <1>5, <1>7, <1>8, <1>9

\* What is received of metrics.
LEMMA MetricsReceived ==
  ASSUME Inv, Delivered, signal = "metrics", NEW ids, ids = DenseIds(sent, MaxUint16)
  PROVE  /\ Len(received) = Len(sent)
         /\ DOMAIN received = 1..Len(sent) /\ DOMAIN sent = 1..Len(sent)
         /\ \A i \in 1..Len(sent) :
              received[i].data = [type |-> sent[i].entry.type, data |-> sent[i].entry.data]
         /\ main.ids = Deltas(ids) /\ DOMAIN ids = 1..Len(sent) /\ ~Panics(ids)
<1>1. /\ SentOK(signal, sent) /\ main = AppendMetrics(sent) /\ ~main.panics
      /\ received = MetricsFrom(main, MetricsRelatedDataFrom(records))
  BY Delivery DEF AppendMain, Decoded
<1>2. PICK n \in Nat : n = Len(sent) /\ DOMAIN sent = 1..n
  BY <1>1, SentRows, SMTT(30)
<1>3. main.ids = Deltas(ids) /\ ~Main(sent, ids).panics
      /\ \A i \in 1..n :
           main.data[i] = [type |-> sent[i].entry.type, data |-> sent[i].entry.data]
  BY <1>1, <1>2, MainIs DEF AppendMetrics
<1>4. ~Panics(ids)
  <2>1. MaxUint16 \in Nat
    BY WidthAssumption DEF WidthAssumption
  <2> QED
    BY <1>1, <1>3, <2>1, MainPanics
<1>5. DOMAIN ids = 1..n
  BY <1>2 DEF DenseIds
<1>6. DOMAIN main.ids = 1..n
  BY <1>3, <1>5 DEF Deltas
<1>7. DOMAIN received = 1..n
  BY <1>1, <1>6 DEF MetricsFrom
<1>8. Len(received) = n
  BY <1>7, LengthOf
<1>9. ASSUME NEW i \in 1..n
      PROVE  received[i].data = [type |-> sent[i].entry.type, data |-> sent[i].entry.data]
  BY <1>1, <1>3, <1>6, <1>9 DEF MetricsFrom
<1> QED
  BY <1>2, <1>3, <1>4, <1>5, <1>7, <1>8, <1>9

\* RowsKeepAttributes: spans, log records and metrics arrive in order with the
\* attributes they were sent with.
THEOREM AttributesArrive == Spec => []RowsKeepAttributes
<1>1. ASSUME Inv PROVE RowsKeepAttributes
  <2> SUFFICES ASSUME Delivered
               PROVE  /\ Len(received) = Len(sent)
                      /\ \A i \in DOMAIN sent :
                           IF signal = "metrics"
                           THEN received[i].data = [type |-> Row(i).type, data |-> Row(i).data]
                           ELSE /\ received[i].data = Row(i).data
                                /\ Row(i).attrs # <<>> =>
                                     received[i].attrs = Named(Row(i).attrs)
    BY DEF RowsKeepAttributes
  <2>1. /\ signal \in Signals3 /\ SentOK(signal, sent) /\ main = AppendMain(signal, sent)
        /\ \A t \in DOMAIN main.accu : accu[t] = main.accu[t]
        /\ \A t \in Types(signal) : records[t] = BuiltRows(t, accu[t])
    BY <1>1, Delivery
  <2>2. CASE signal = "traces"
    <3>1. PICK ids, referred :
            /\ ids = SpanIds(sent)
            /\ referred = [i \in DOMAIN sent |-> HasRelatedData(sent[i].entry)]
      OBVIOUS
    <3>2. /\ Len(received) = Len(sent) /\ DOMAIN sent = 1..Len(sent) /\ ~Panics(ids)
          /\ \A i \in 1..Len(sent) :
               /\ received[i].data = sent[i].entry.data
               /\ received[i].attrs
                    = AttributesByID(Attributes16StoreFrom(records["SPAN_ATTRS"]),
                                     Sum(Deltas(ids), DOMAIN Deltas(ids), i, MaxUint16))
      BY <1>1, <2>2, <3>1, TracesReceived
    <3>3. ids = SparseIds(referred, MaxUint16)
      BY <3>1 DEF SpanIds
    <3>4. /\ DOMAIN referred = 1..Len(sent)
          /\ \A k \in 1..Len(sent) : sent[k].entry.attrs # <<>> => referred[k]
      BY <3>1, <3>2 DEF HasRelatedData
    <3>5. PICK a : a = Filled(NewAccumulator, AddedAttrs(ids))
      OBVIOUS
    <3>6. records["SPAN_ATTRS"] = TryBuildAttrs16(a, <<>>).rows
      <4>1. main.accu["SPAN_ATTRS"] = a /\ "SPAN_ATTRS" \in DOMAIN main.accu
        BY <2>1, <2>2, <3>1, <3>2, <3>5 DEF AppendMain, AppendTraces, AddedAttrs
      <4>2. "SPAN_ATTRS" \in Types(signal)
        BY <2>2, TracesOrder DEF TracesTypes
      <4>3. records["SPAN_ATTRS"] = BuiltRows("SPAN_ATTRS", a)
        BY <2>1, <4>1, <4>2
      <4> QED
        BY <4>3, Kinds DEF BuiltRows, Attrs16, Parents
    <3>7. ASSUME NEW i \in 1..Len(sent), sent[i].entry.attrs # <<>>
          PROVE  received[i].attrs = Named(sent[i].entry.attrs)
      BY <2>1, <2>2, <3>2, <3>3, <3>4, <3>5, <3>6, <3>7, EntryAttrsFound
    <3> QED
      BY <2>2, <3>2, <3>7 DEF Row
  <2>3. CASE signal = "logs"
    <3>1. PICK ids, referred :
            /\ ids = LogIds(sent)
            /\ referred = [i \in DOMAIN sent |-> sent[i].entry.attrs # <<>>]
      OBVIOUS
    <3>2. /\ Len(received) = Len(sent) /\ DOMAIN sent = 1..Len(sent) /\ ~Panics(ids)
          /\ \A i \in 1..Len(sent) :
               /\ received[i].data = sent[i].entry.data
               /\ received[i].attrs
                    = AttributesByID(Attributes16StoreFrom(records["LOG_ATTRS"]),
                                     Sum(Deltas(ids), DOMAIN Deltas(ids), i, MaxUint16))
      BY <1>1, <2>3, <3>1, LogsReceived
    <3>3. ids = SparseIds(referred, MaxUint16)
      BY <3>1 DEF LogIds
    <3>4. /\ DOMAIN referred = 1..Len(sent)
          /\ \A k \in 1..Len(sent) : sent[k].entry.attrs # <<>> => referred[k]
      BY <3>1, <3>2
    <3>5. PICK a : a = Filled(NewAccumulator, AddedAttrs(ids))
      OBVIOUS
    <3>6. records["LOG_ATTRS"] = TryBuildAttrs16(a, <<>>).rows
      <4>1. main.accu["LOG_ATTRS"] = a /\ "LOG_ATTRS" \in DOMAIN main.accu
        BY <2>1, <2>3, <3>1, <3>2, <3>5 DEF AppendMain, AppendLogs, AddedAttrs
      <4>2. "LOG_ATTRS" \in Types(signal)
        BY <2>3, LogsOrder DEF LogsTypes
      <4>3. records["LOG_ATTRS"] = BuiltRows("LOG_ATTRS", a)
        BY <2>1, <4>1, <4>2
      <4> QED
        BY <4>3, Kinds DEF BuiltRows, Attrs16, Parents
    <3>7. ASSUME NEW i \in 1..Len(sent), sent[i].entry.attrs # <<>>
          PROVE  received[i].attrs = Named(sent[i].entry.attrs)
      BY <2>1, <2>3, <3>2, <3>3, <3>4, <3>5, <3>6, <3>7, EntryAttrsFound
    <3> QED
      BY <2>3, <3>2, <3>7 DEF Row
  <2>4. CASE signal = "metrics"
    <3>1. PICK ids : ids = DenseIds(sent, MaxUint16)
      OBVIOUS
    <3>2. /\ Len(received) = Len(sent) /\ DOMAIN sent = 1..Len(sent)
          /\ \A i \in 1..Len(sent) :
               received[i].data = [type |-> sent[i].entry.type, data |-> sent[i].entry.data]
      BY <1>1, <2>4, <3>1, MetricsReceived
    <3> QED
      BY <2>4, <3>2 DEF Row
  <2> QED
    BY <2>1, <2>2, <2>3, <2>4 DEF Signals3
<1> QED
  BY <1>1, Invariant, PTL

-----------------------------------------------------------------------------
(***************************************************************************)
(* Empty keys.                                                             *)
(***************************************************************************)

\* The first row of a record of attributes is one of its accumulator's.
LEMMA FirstRow ==
  ASSUME NEW a, Accu(a), NEW W,
         W = TryBuildAttrs16(a, <<>>).rows \/ W = TryBuildAttrs32(a, <<>>).rows,
         NilValue(W)
  PROVE  \E row \in Range(a.rows) : row.cols.key = EmptyKey
<1>1. List(a.rows)
  BY DEF Accu
<1>2. PICK sorted, ids, parents :
        Permuted(sorted, a.rows) /\ W = WriteRows(sorted, ids, parents)
  <2>1. \A before : Permuted(Sorted(before, a.rows), a.rows)
    BY <1>1, SortedPermutes
  <2>2. CASE W = TryBuildAttrs16(a, <<>>).rows
    BY <2>1, <2>2 DEF TryBuildAttrs16, SortRows
  <2>3. CASE W = TryBuildAttrs32(a, <<>>).rows
    BY <2>1, <2>3 DEF TryBuildAttrs32, SortRows
  <2> QED
    BY <2>2, <2>3
<1>3. List(sorted) /\ \A k \in 1..Len(sorted) : sorted[k] \in Range(a.rows)
  BY <1>1, <1>2, PermutedIs
<1>4. PICK n \in Nat : n = Len(sorted)
  BY <1>3 DEF List
<1>5. List(W) /\ Len(W) = n /\ \A i \in 1..n : W[i].cols = sorted[i].cols
  BY <1>2, <1>3, <1>4, WrittenIs
<1>6. n # 0
  BY <1>5, EmptyList DEF NilValue
<1>7. W[1].cols = sorted[1].cols /\ sorted[1] \in Range(a.rows)
  BY <1>3, <1>4, <1>5, <1>6
<1> QED
  BY <1>7 DEF NilValue

\* A key in the attributes of resources or scopes comes from one of them...
LEMMA KeysOfEntities ==
  ASSUME NEW n, NEW keys, NEW entities, Owners(n, keys, entities),
         NEW row \in Range(Accumulate(keys, entities).rows), row.cols.key = EmptyKey
  PROVE  \E i \in 1..n : HasEmptyKey(entities[i])
<1>1. GroupedBy(row, keys, entities)
  BY AccumulateIs
<1>2. PICK h \in Heads(keys) : \E attr \in Range(entities[h].attrs) :
              row = AttrRow(Groups(keys, entities)[h - 1], attr)
  BY <1>1 DEF GroupedBy
<1>3. PICK attr \in Range(entities[h].attrs) :
              row = AttrRow(Groups(keys, entities)[h - 1], attr)
  BY <1>2
<1>4. attr[1] = EmptyKey
  BY <1>3 DEF AttrRow
<1>5. h \in 1..n
  BY DEF Owners, Heads
<1> QED
  BY <1>3, <1>4, <1>5 DEF HasEmptyKey

\* ... and the other records have no empty ones.
LEMMA KeysFiled ==
  ASSUME NEW n, NEW ids, NEW lists, NEW added, Filed(added, n, ids, lists),
         NEW row \in Range(Filled(NewAccumulator, added).rows)
  PROVE  row.cols.key # EmptyKey
<1>1. FiledBy(row, n, ids, lists)
  BY FiledRows
<1>2. PICK k \in 1..n : \E attr \in Named(lists[k]) : row = AttrRow(ids[k], attr)
  BY <1>1 DEF FiledBy
<1>3. PICK attr \in Named(lists[k]) : row = AttrRow(ids[k], attr)
  BY <1>2
<1>4. attr[1] # EmptyKey
  BY DEF Named
<1> QED
  BY <1>3, <1>4 DEF AttrRow

\* What appending a batch leaves in the accumulators of attributes.
LEMMA MainAccus ==
  ASSUME signal \in Signals3
  PROVE  LET m == AppendMain(signal, sent) IN
         /\ {"RESOURCE_ATTRS", "SCOPE_ATTRS"} \subseteq DOMAIN m.accu
         /\ m.accu["RESOURCE_ATTRS"] = Accumulate(KeysOf(sent).resource, Resources(sent))
         /\ m.accu["SCOPE_ATTRS"] = Accumulate(KeysOf(sent).scope, Scopes(sent))
         /\ signal = "traces" =>
              /\ "SPAN_ATTRS" \in DOMAIN m.accu
              /\ m.accu["SPAN_ATTRS"]
                   = Filled(NewAccumulator,
                            [i \in DOMAIN sent |->
                               AppendWithID(SpanIds(sent)[i], sent[i].entry.attrs)])
         /\ signal = "logs" =>
              /\ "LOG_ATTRS" \in DOMAIN m.accu
              /\ m.accu["LOG_ATTRS"]
                   = Filled(NewAccumulator,
                            [i \in DOMAIN sent |->
                               AppendWithID(LogIds(sent)[i], sent[i].entry.attrs)])
<1>1. \A ids : /\ Main(sent, ids).resAttrs
                    = Accumulate(KeysOf(sent).resource, Resources(sent))
               /\ Main(sent, ids).scopeAttrs = Accumulate(KeysOf(sent).scope, Scopes(sent))
  BY MainIs
<1>2. CASE signal = "traces"
  BY <1>1, <1>2 DEF AppendMain, AppendTraces
<1>3. CASE signal = "logs"
  BY <1>1, <1>3 DEF AppendMain, AppendLogs
<1>4. CASE signal = "metrics"
  BY <1>1, <1>4 DEF AppendMain, AppendMetrics
<1> QED
  BY <1>2, <1>3, <1>4 DEF Signals3

\* An empty key in the accumulator of a record of attributes.
LEMMA EmptyKeysSent ==
  ASSUME Inv, phase \in {"received", "unreadable"},
         NEW t \in Types(signal) \cap (Attrs16 \cup Attrs32),
         NEW row \in Range(accu[t].rows), row.cols.key = EmptyKey
  PROVE  \E i \in DOMAIN sent : HasEmptyKey(sent[i].resource) \/ HasEmptyKey(sent[i].scope)
<1>1. /\ signal \in Signals3 /\ SentOK(signal, sent) /\ main = AppendMain(signal, sent)
      /\ \A u \in DOMAIN main.accu : accu[u] = main.accu[u]
      /\ \A u \in Types(signal) \cap Parents : accu[AttrsOf[u]] = BuiltAttrs(u, accu[u])
  BY Complete
<1>2. PICK n \in Nat : n = Len(sent) /\ DOMAIN sent = 1..n
  BY <1>1, SentRows
<1>3. /\ Owners(n, KeysOf(sent).resource, Resources(sent))
      /\ Owners(n, KeysOf(sent).scope, Scopes(sent))
  BY <1>1, <1>2, OwnersSent
<1>4. \A i \in 1..n : Resources(sent)[i] = sent[i].resource /\ Scopes(sent)[i] = sent[i].scope
  BY <1>2 DEF Resources, Scopes
<1>5. CASE t = "RESOURCE_ATTRS"
  <2>1. row \in Range(Accumulate(KeysOf(sent).resource, Resources(sent)).rows)
    BY <1>1, <1>5, MainAccus
  <2>2. \E i \in 1..n : HasEmptyKey(Resources(sent)[i])
    BY <1>3, <2>1, KeysOfEntities
  <2> QED
    BY <1>2, <1>4, <2>2
<1>6. CASE t = "SCOPE_ATTRS"
  <2>1. row \in Range(Accumulate(KeysOf(sent).scope, Scopes(sent)).rows)
    BY <1>1, <1>6, MainAccus
  <2>2. \E i \in 1..n : HasEmptyKey(Scopes(sent)[i])
    BY <1>3, <2>1, KeysOfEntities
  <2> QED
    BY <1>2, <1>4, <2>2
<1>7. CASE t \in {"SPAN_ATTRS", "LOG_ATTRS"}
  <2>1. \/ signal = "traces" /\ t = "SPAN_ATTRS"
        \/ signal = "logs" /\ t = "LOG_ATTRS"
    BY <1>1, <1>7, TracesOrder, LogsOrder, MetricsOrder
       DEF Signals3, TracesTypes, LogsTypes, MetricsTypes
  <2>2. PICK ids : accu[t] = Filled(NewAccumulator, AddedAttrs(ids))
    <3>1. CASE signal = "traces" /\ t = "SPAN_ATTRS"
      BY <1>1, <1>2, <3>1, MainAccus DEF AddedAttrs
    <3>2. CASE signal = "logs" /\ t = "LOG_ATTRS"
      BY <1>1, <1>2, <3>2, MainAccus DEF AddedAttrs
    <3> QED
      BY <2>1, <3>1, <3>2
  <2>3. Filed(AddedAttrs(ids), n, ids, AttrsSent)
    BY <1>1, <1>2, <2>1, AttrsFiled
  <2>4. row.cols.key # EmptyKey
    BY <2>2, <2>3, KeysFiled
  <2> QED
    BY <2>4
<1>8. CASE t \in Attrs32
  <2>1. PICK u \in Types(signal) \cap Parents : t = AttrsOf[u]
    BY <1>1, <1>8, BelongsTo
  <2>2. PICK rows, ids : rows = SortedOf(u, accu[u].rows) /\ ids = ItemIds(u, rows)
    OBVIOUS
  <2>3. accu[t] = AccumulateAttrs(NewAccumulator, rows, ids)
    BY <1>1, <2>1, <2>2 DEF BuiltAttrs, ItemAttrs
  <2>4. AccuOK(u, accu[u])
    BY <2>1 DEF Inv
  <2>5. List(rows) /\ \A k \in 1..Len(rows) : AttrList(rows[k].attrs)
    <3>1. List(accu[u].rows) /\ Permuted(rows, accu[u].rows)
      BY <2>2, <2>4, SortedAre DEF AccuOK, Accu
    <3>2. List(rows) /\ \A k \in 1..Len(rows) : rows[k] \in Range(accu[u].rows)
      BY <3>1, PermutedIs
    <3> QED
      BY <2>1, <2>4, <3>2 DEF AccuOK, ItemOK
  <2>6. PICK referred : Refers(rows, referred)
    <3>1. PICK referred : referred = [k \in 1..Len(rows) |-> TRUE]
      OBVIOUS
    <3>2. DOMAIN referred = 1..Len(rows) /\ \A k \in 1..Len(rows) : referred[k]
      BY <3>1
    <3> QED
      BY <2>5, <3>2 DEF Refers
  <2>7. PICK added, lists : /\ Filed(added, Len(rows), ids, lists)
                            /\ AccumulateAttrs(NewAccumulator, rows, ids)
                                 = Filled(NewAccumulator, added)
    BY <2>6, ChildrenFiled
  <2>8. row.cols.key # EmptyKey
    BY <2>3, <2>7, KeysFiled
  <2> QED
    BY <2>8
<1> QED
  BY <1>5, <1>6, <1>7, <1>8 DEF Attrs16

\* OnlyEmptyKeysUnreadable: an empty key that stops the decoder is one of a resource or
\* of a scope of the batch.
THEOREM EmptyKeys == Spec => []OnlyEmptyKeysUnreadable
<1>1. ASSUME Inv PROVE OnlyEmptyKeysUnreadable
  <2> SUFFICES ASSUME phase = "unreadable"
               PROVE  \E i \in DOMAIN sent :
                        HasEmptyKey(sent[i].resource) \/ HasEmptyKey(sent[i].scope)
    BY DEF OnlyEmptyKeysUnreadable
  <2>1. PICK t \in Types(signal) \cap (Attrs16 \cup Attrs32) : NilValue(records[t])
    BY <1>1 DEF Inv, AttributePanics
  <2>2. records[t] = BuiltRows(t, accu[t]) /\ Accu(accu[t])
    BY <1>1, <2>1, Complete DEF Inv, AccuOK
  <2>3. \/ records[t] = TryBuildAttrs16(accu[t], <<>>).rows
        \/ records[t] = TryBuildAttrs32(accu[t], <<>>).rows
    BY <2>1, <2>2, Kinds DEF BuiltRows, Attrs16, Parents
  <2>4. PICK row \in Range(accu[t].rows) : row.cols.key = EmptyKey
    BY <2>1, <2>2, <2>3, FirstRow
  <2> QED
    BY <1>1, <2>1, <2>4, EmptyKeysSent
<1> QED
  BY <1>1, Invariant, PTL

-----------------------------------------------------------------------------
\* The runs of resources and scopes of the batch that was sent.
ResourceKeys == KeysOf(sent).resource
ScopeKeys == KeysOf(sent).scope
\* Where a delivered row is put.
LEMMA PlaceReceived ==
  ASSUME Inv, Delivered
  PROVE  /\ Groups(ResourceKeys, Resources(sent))[Len(sent)] <= MaxUint16
         /\ Groups(ScopeKeys, Scopes(sent))[Len(sent)] <= MaxUint16
         /\ \A i \in 1..Len(sent) :
              received[i].place
                = Place(ResourceColumns(ResourceKeys, Resources(sent)),
                        ScopeColumns(ScopeKeys, Scopes(sent)),
                        StoreOfGroups(ResourceKeys, Resources(sent)),
                        StoreOfGroups(ScopeKeys, Scopes(sent)), i)
<1>1. /\ signal \in Signals3 /\ SentOK(signal, sent)
      /\ received = Decoded(signal, main, records)
      /\ main = AppendMain(signal, sent) /\ ~main.panics
      /\ \A t \in DOMAIN main.accu : accu[t] = main.accu[t]
      /\ \A t \in Types(signal) : records[t] = BuiltRows(t, accu[t])
  BY Delivery
<1>2. PICK n \in Nat : n = Len(sent) /\ DOMAIN sent = 1..n
  BY <1>1, SentRows
<1>3. PICK ids :
        /\ ~Main(sent, ids).panics
        /\ main.resources = Main(sent, ids).resources /\ main.scopes = Main(sent, ids).scopes
        /\ {"RESOURCE_ATTRS", "SCOPE_ATTRS"} \subseteq DOMAIN main.accu
        /\ main.accu["RESOURCE_ATTRS"] = Main(sent, ids).resAttrs
        /\ main.accu["SCOPE_ATTRS"] = Main(sent, ids).scopeAttrs
        /\ main.ids = Deltas(ids) /\ DOMAIN ids = 1..n
  <2>1. CASE signal = "traces"
    <3>1. PICK ids : ids = SpanIds(sent)
      OBVIOUS
    <3>2. main = AppendTraces(sent)
      BY <1>1, <2>1 DEF AppendMain
    <3>3. DOMAIN ids = 1..n
      BY <1>2, <3>1 DEF SpanIds, SparseIds
    <3>4. /\ ~Main(sent, ids).panics
          /\ main.resources = Main(sent, ids).resources /\ main.scopes = Main(sent, ids).scopes
          /\ {"RESOURCE_ATTRS", "SCOPE_ATTRS"} \subseteq DOMAIN main.accu
          /\ main.accu["RESOURCE_ATTRS"] = Main(sent, ids).resAttrs
          /\ main.accu["SCOPE_ATTRS"] = Main(sent, ids).scopeAttrs
          /\ main.ids = Deltas(ids)
      <4>1. Main(sent, ids).ids = Deltas(ids)
        BY MainIs
      <4>2. ~main.panics
        BY <1>1
      <4> QED
        BY <3>1, <3>2, <4>1, <4>2 DEF AppendTraces
    <3> QED
      BY <3>3, <3>4
  <2>2. CASE signal = "logs"
    <3>1. PICK ids : ids = LogIds(sent)
      OBVIOUS
    <3>2. main = AppendLogs(sent)
      BY <1>1, <2>2 DEF AppendMain
    <3>3. DOMAIN ids = 1..n
      BY <1>2, <3>1 DEF LogIds, SparseIds
    <3>4. /\ ~Main(sent, ids).panics
          /\ main.resources = Main(sent, ids).resources /\ main.scopes = Main(sent, ids).scopes
          /\ {"RESOURCE_ATTRS", "SCOPE_ATTRS"} \subseteq DOMAIN main.accu
          /\ main.accu["RESOURCE_ATTRS"] = Main(sent, ids).resAttrs
          /\ main.accu["SCOPE_ATTRS"] = Main(sent, ids).scopeAttrs
          /\ main.ids = Deltas(ids)
      <4>1. Main(sent, ids).ids = Deltas(ids)
        BY MainIs
      <4>2. ~main.panics
        BY <1>1
      <4> QED
        BY <3>1, <3>2, <4>1, <4>2 DEF AppendLogs
    <3> QED
      BY <3>3, <3>4
  <2>3. CASE signal = "metrics"
    <3>1. PICK ids : ids = DenseIds(sent, MaxUint16)
      OBVIOUS
    <3>2. main = AppendMetrics(sent)
      BY <1>1, <2>3 DEF AppendMain
    <3>3. DOMAIN ids = 1..n
      BY <1>2, <3>1, SMTT(30) DEF DenseIds
    <3>4. /\ ~Main(sent, ids).panics
          /\ main.resources = Main(sent, ids).resources /\ main.scopes = Main(sent, ids).scopes
          /\ {"RESOURCE_ATTRS", "SCOPE_ATTRS"} \subseteq DOMAIN main.accu
          /\ main.accu["RESOURCE_ATTRS"] = Main(sent, ids).resAttrs
          /\ main.accu["SCOPE_ATTRS"] = Main(sent, ids).scopeAttrs
          /\ main.ids = Deltas(ids)
      <4>1. Main(sent, ids).ids = Deltas(ids)
        BY MainIs
      <4>2. ~main.panics
        BY <1>1
      <4> QED
        BY <3>1, <3>2, <4>1, <4>2 DEF AppendMetrics
    <3> QED
      BY <3>3, <3>4
  <2> QED
    BY <1>1, <2>1, <2>2, <2>3 DEF Signals3
<1>4. /\ main.accu["RESOURCE_ATTRS"] = Accumulate(ResourceKeys, Resources(sent))
      /\ main.accu["SCOPE_ATTRS"] = Accumulate(ScopeKeys, Scopes(sent))
      /\ main.resources = ResourceColumns(ResourceKeys, Resources(sent))
      /\ main.scopes = ScopeColumns(ScopeKeys, Scopes(sent))
  BY <1>3, MainIs DEF ResourceKeys, ScopeKeys
<1>5. /\ Groups(ResourceKeys, Resources(sent))[n] <= MaxUint16
      /\ Groups(ScopeKeys, Scopes(sent))[n] <= MaxUint16
  <2>1. MaxUint16 \in Nat
    BY WidthAssumption DEF WidthAssumption
  <2>2. /\ Main(sent, ids).resAttrs.groups <= MaxUint16
        /\ Main(sent, ids).scopeAttrs.groups <= MaxUint16
    BY <1>1, <1>3, <2>1, MainPanics
  <2>3. /\ Owners(n, ResourceKeys, Resources(sent))
        /\ Owners(n, ScopeKeys, Scopes(sent))
    BY <1>1, <1>2, OwnersSent DEF ResourceKeys, ScopeKeys
  <2>4. Accumulate(ResourceKeys, Resources(sent)).groups
          = Groups(ResourceKeys, Resources(sent))[n]
    BY <2>3, AccumulateIs
  <2>5. Accumulate(ScopeKeys, Scopes(sent)).groups = Groups(ScopeKeys, Scopes(sent))[n]
    BY <2>3, AccumulateIs
  <2> QED
    BY <1>3, <1>4, <2>2, <2>4, <2>5
<1>6. /\ Attributes16StoreFrom(records["RESOURCE_ATTRS"])
           = StoreOfGroups(ResourceKeys, Resources(sent))
      /\ Attributes16StoreFrom(records["SCOPE_ATTRS"]) = StoreOfGroups(ScopeKeys, Scopes(sent))
  <2>1. "RESOURCE_ATTRS" \in Types(signal) /\ "SCOPE_ATTRS" \in Types(signal)
    BY <1>1, TracesOrder, LogsOrder, MetricsOrder
       DEF Signals3, TracesTypes, LogsTypes, MetricsTypes
  <2>2. ASSUME NEW t \in {"RESOURCE_ATTRS", "SCOPE_ATTRS"}
        PROVE  records[t] = TryBuildAttrs16(main.accu[t], <<>>).rows
    <3>1. records[t] = BuiltRows(t, main.accu[t])
      BY <1>1, <1>3, <2>1
    <3> QED
      BY <3>1, Kinds DEF BuiltRows, Attrs16, Parents
  <2> QED
    BY <1>4, <2>2 DEF StoreOfGroups
<1>7. DOMAIN main.ids = 1..n
  BY <1>3 DEF Deltas
<1>8. ASSUME NEW i \in 1..n
      PROVE  received[i].place
               = Place(main.resources, main.scopes,
                       Attributes16StoreFrom(records["RESOURCE_ATTRS"]),
                       Attributes16StoreFrom(records["SCOPE_ATTRS"]), i)
  <2>1. CASE signal = "traces"
    <3>1. received = TracesFrom(main, TracesRelatedDataFrom(records))
      BY <1>1, <2>1 DEF Decoded
    <3> QED
      BY <1>7, <1>8, <3>1 DEF TracesFrom, TracesRelatedDataFrom
  <2>2. CASE signal = "logs"
    <3>1. received = LogsFrom(main, LogsRelatedDataFrom(records))
      BY <1>1, <2>2 DEF Decoded
    <3> QED
      BY <1>7, <1>8, <3>1 DEF LogsFrom, LogsRelatedDataFrom
  <2>3. CASE signal = "metrics"
    <3>1. received = MetricsFrom(main, MetricsRelatedDataFrom(records))
      BY <1>1, <2>3 DEF Decoded
    <3> QED
      BY <1>7, <1>8, <3>1 DEF MetricsFrom, MetricsRelatedDataFrom
  <2> QED
    BY <1>1, <2>1, <2>2, <2>3 DEF Signals3
<1> QED
  BY <1>2, <1>4, <1>5, <1>6, <1>8

\* Other resources and scopes begin at some rows only, and there they and those of the
\* row before have attributes.
BeginAt(begins, n, resources, scopes) ==
  /\ \A j \in 2..n : j \notin begins =>
       resources[j] = resources[j - 1] /\ scopes[j] = scopes[j - 1]
  /\ \A j \in begins : /\ resources[j].attrs # <<>> /\ scopes[j].attrs # <<>>
                       /\ resources[j - 1].attrs # <<>> /\ scopes[j - 1].attrs # <<>>

\* Then all have attributes if there is more than one.
LEMMA AllWithAttrs ==
  ASSUME NEW n \in Nat, NEW resources, NEW scopes, NEW begins \in SUBSET (2..n),
         BeginAt(begins, n, resources, scopes), begins # {}
  PROVE  \A i \in 1..n : resources[i].attrs # <<>> /\ scopes[i].attrs # <<>>
<1> DEFINE Both(j) == resources[j].attrs # <<>> /\ scopes[j].attrs # <<>>
           G == {j \in 0..n : \A k \in 1..n : k <= j /\ j > 0 => (Both(k) <=> Both(1))}
<1>1. 0 \in G
  OBVIOUS
<1>2. ASSUME NEW j \in 1..n, j - 1 \in G PROVE j \in G
  <2>1. CASE j = 1
    BY <2>1
  <2>2. CASE j > 1
    <3>1. j - 1 \in 1..n /\ (Both(j - 1) <=> Both(1))
      BY <1>2, <2>2
    <3>2. Both(j) <=> Both(j - 1)
      BY <2>2 DEF BeginAt
    <3>3. ASSUME NEW k \in 1..n, k <= j PROVE Both(k) <=> Both(1)
      <4>1. CASE k = j
        BY <3>1, <3>2, <4>1
      <4>2. CASE k <= j - 1
        BY <1>2, <3>1, <4>2
      <4> QED
        BY <3>3, <4>1, <4>2
    <3> QED
      BY <3>3
  <2> QED
    BY <2>1, <2>2
<1>3. 0..n \subseteq G
  <2> HIDE DEF G
  <2> QED
    BY <1>1, <1>2, Induction
<1>4. \A k \in 1..n : Both(k) <=> Both(1)
  <2> TAKE k \in 1..n
  <2>1. k \in G
    BY <1>3
  <2> QED
    BY <2>1
<1>5. PICK j \in begins : Both(j)
  BY DEF BeginAt
<1> QED
  BY <1>4, <1>5

\* PlacedWhereSent: rows arrive under their resource and scope, with all the attributes
\* of these, where the decoder does not panic (EmptyKeys) and the columns of
\* differences tell them apart.
THEOREM PlacesArrive == Spec => []PlacedWhereSent
<1>1. ASSUME Inv PROVE PlacedWhereSent
  <2> SUFFICES ASSUME Delivered, WellSeparated, NEW i \in DOMAIN sent
               PROVE  received[i].place = [resource |-> Entity(sent[i].resource),
                                           scope |-> Entity(sent[i].scope)]
    BY DEF PlacedWhereSent
  <2>1. SentOK(signal, sent) /\ MaxUint16 \in Nat
    BY <1>1, WidthAssumption DEF WidthAssumption, Inv
  <2>2. PICK n \in Nat : n = Len(sent) /\ DOMAIN sent = 1..n
    BY <2>1, SentRows
  <2>3. PICK rk, sk, R, S :
          rk = ResourceKeys /\ sk = ScopeKeys /\ R = Resources(sent) /\ S = Scopes(sent)
    OBVIOUS
  <2>4. Owners(n, rk, R) /\ Owners(n, sk, S)
    BY <2>1, <2>2, <2>3, OwnersSent DEF ResourceKeys, ScopeKeys
  <2>5. /\ DOMAIN rk = 1..n /\ DOMAIN sk = 1..n
        /\ \A j \in 1..n : /\ rk[j] = sent[j].resID /\ sk[j] = sent[j].scopeID
                           /\ R[j] = sent[j].resource /\ S[j] = sent[j].scope
    BY <2>2, <2>3 DEF ResourceKeys, ScopeKeys, KeysOf, Resources, Scopes
  <2>6. Groups(rk, R)[n] <= MaxUint16 /\ Groups(sk, S)[n] <= MaxUint16
    BY <1>1, <2>2, <2>3, PlaceReceived
  <2>7. received[i].place = Place(ResourceColumns(rk, R), ScopeColumns(sk, S),
                                  StoreOfGroups(rk, R), StoreOfGroups(sk, S), i)
    BY <1>1, <2>2, <2>3, PlaceReceived
  <2>8. PICK begins \in SUBSET (2..n) : begins = {j \in 2..n : Begins(j)}
    OBVIOUS
  <2>9. \A j \in 2..n : j - 1 \in 1..n /\ j \in 1..n /\ j # 1
    OBVIOUS
  <2>10. \A j \in (2..n) \ begins : Continues(j)
    BY <2>2, <2>8, <2>9 DEF WellSeparated
  <2>11. \A j \in 2..n : j \notin begins =>
           /\ rk[j] = rk[j - 1] /\ R[j] = R[j - 1] /\ sk[j] = sk[j - 1] /\ S[j] = S[j - 1]
    BY <2>5, <2>9, <2>10 DEF Continues
  <2>12. \A j \in begins : /\ rk[j] # rk[j - 1] /\ sk[j] # sk[j - 1]
                           /\ R[j].attrs # <<>> /\ S[j].attrs # <<>>
                           /\ R[j - 1].attrs # <<>> /\ S[j - 1].attrs # <<>>
    BY <2>5, <2>8, <2>9 DEF Begins, WithAttrs
  <2>13. \A j \in begins : j - 1 \notin begins
    <3> SUFFICES ASSUME NEW j \in begins, j - 1 \in begins PROVE FALSE
      OBVIOUS
    <3>1. j \in 2..n /\ j - 1 \in 2..n
      OBVIOUS
    <3>2. Begins(j) /\ Begins(j - 1)
      BY <2>8
    <3>3. Continues(j - 1)
      BY <3>1, <3>2 DEF Begins
    <3> QED
      BY <3>2, <3>3 DEF Begins, Continues
  <2>14. begins = {} \/ \A j \in 1..n : R[j].attrs # <<>> /\ S[j].attrs # <<>>
    <3>1. BeginAt(begins, n, R, S)
      BY <2>11, <2>12 DEF BeginAt
    <3> QED
      BY <3>1, AllWithAttrs
  <2>15. PICK rd, sd : rd = Deltas(GroupIds(rk, R)) /\ sd = Deltas(GroupIds(sk, S))
    OBVIOUS
  <2>16. \A j \in 1..n : OrZero(rd[j]) = IF j \in begins THEN 1 ELSE 0
    <3>1. \A j \in 2..n : j \notin begins => rk[j] = rk[j - 1] /\ R[j] = R[j - 1]
      BY <2>11
    <3>2. \A j \in begins : rk[j] # rk[j - 1]
      BY <2>12
    <3>3. begins = {} \/ \A j \in 1..n : R[j].attrs # <<>>
      BY <2>14
    <3> QED
      BY <2>4, <2>15, <3>1, <3>2, <3>3, GroupDeltas
  <2>17. \A j \in 1..n : OrZero(sd[j]) = IF j \in begins THEN 1 ELSE 0
    <3>1. \A j \in 2..n : j \notin begins => sk[j] = sk[j - 1] /\ S[j] = S[j - 1]
      BY <2>11
    <3>2. \A j \in begins : sk[j] # sk[j - 1]
      BY <2>12
    <3>3. begins = {} \/ \A j \in 1..n : S[j].attrs # <<>>
      BY <2>14
    <3> QED
      BY <2>4, <2>15, <3>1, <3>2, <3>3, GroupDeltas
  <2>18. PICK rc, sc : rc = ResourceColumns(rk, R) /\ sc = ScopeColumns(sk, S)
    OBVIOUS
  <2>19. /\ DOMAIN rc = 1..n /\ DOMAIN sc = 1..n
         /\ \A j \in 1..n : /\ rc[j] = [id |-> rd[j], data |-> R[j].data]
                            /\ sc[j] = [id |-> sd[j], data |-> S[j].data]
    BY <2>5, <2>15, <2>18 DEF ResourceColumns, ScopeColumns
  <2>20. IdColumn(rc) = rd /\ IdColumn(sc) = sd
    <3>1. rd = [j \in 1..n |-> rd[j]] /\ sd = [j \in 1..n |-> sd[j]]
      BY <2>5, <2>15 DEF Deltas, GroupIds
    <3>2. IdColumn(rc) = [j \in 1..n |-> rd[j]]
      BY <2>19 DEF IdColumn
    <3>3. IdColumn(sc) = [j \in 1..n |-> sd[j]]
      BY <2>19 DEF IdColumn
    <3> QED
      BY <3>1, <3>2, <3>3
  <2>21. PICK marks : marks = [j \in 1..n |-> IF j \in begins THEN 1 ELSE 0]
    OBVIOUS
  <2>22. ResourceIDFromRecord(rc) = marks
    <3>1. \A j \in 1..n : OrZero(rc[j].id) = IF j \in begins THEN 1 ELSE 0
      BY <2>16, <2>19
    <3> QED
      BY <2>19, <2>21, <3>1 DEF ResourceIDFromRecord
  <2>23. ScopeIDFromRecord(sc) = marks
    <3>1. \A j \in 1..n : OrZero(sc[j].id) = IF j \in begins THEN 1 ELSE 0
      BY <2>17, <2>19
    <3> QED
      BY <2>19, <2>21, <3>1 DEF ScopeIDFromRecord
  <2>24. \A j \in 2..n : j \notin Heads(marks) => j \notin begins
    <3> SUFFICES ASSUME NEW j \in 2..n, j \notin Heads(marks), j \in begins PROVE FALSE
      OBVIOUS
    <3>1. marks[j] = 1 /\ marks[j - 1] = 0
      BY <2>9, <2>13, <2>21
    <3> QED
      BY <2>9, <2>21, <3>1 DEF Heads
  <2>25. \A j \in 1..n : j \in Heads(marks) \/ j \notin begins
    <3> TAKE j \in 1..n
    <3>1. CASE j = 1
      BY <2>9, <3>1
    <3>2. CASE j # 1
      BY <2>24, <3>2
    <3> QED
      BY <3>1, <3>2
  <2>26. PICK h \in 1..n : h = HeadOf(marks, i) /\ h \in Heads(marks)
    <3>1. DOMAIN marks = 1..n
      BY <2>21
    <3>2. HeadOf(marks, i) \in Heads(marks) /\ HeadOf(marks, i) \in 1..i
      BY <2>2, <3>1, HeadStep
    <3> QED
      BY <2>2, <3>2
  <2>27. R[h] = R[i] /\ S[h] = S[i]
    <3>1. \A j \in 2..n : j \notin Heads(marks) => R[j] = R[j - 1]
      BY <2>11, <2>24
    <3>2. \A j \in 2..n : j \notin Heads(marks) => S[j] = S[j - 1]
      BY <2>11, <2>24
    <3>3. DOMAIN marks = 1..n
      BY <2>21
    <3>4. R[HeadOf(marks, i)] = R[i]
      BY <2>2, <3>1, <3>3, SameAsHead
    <3>5. S[HeadOf(marks, i)] = S[i]
      BY <2>2, <3>2, <3>3, SameAsHead
    <3> QED
      BY <2>26, <3>4, <3>5
  <2>28. ScopeHead(sc, i) = h
    BY <2>23, <2>26 DEF ScopeHead
  <2>29. ResourceHead(rc, sc, i) = h
    <3>1. HeadOf(marks, h) = h
      <4>1. DOMAIN marks = 1..n
        BY <2>21
      <4> QED
        BY <2>26, <4>1, HeadStep
    <3> QED
      BY <2>22, <2>28, <3>1 DEF ResourceHead
  <2>30. LookUp(StoreOfGroups(rk, R), rc, Heads(marks), h) = Range(R[h].attrs)
    <3>1. \A j \in 2..n : j \notin Heads(rk) => R[j] = R[j - 1]
      BY <2>5, <2>9, <2>11, <2>12 DEF Heads
    <3>2. \A j \in 1..n : j \in Heads(marks) \/ OrZero(Deltas(GroupIds(rk, R))[j]) = 0
      BY <2>15, <2>16, <2>25
    <3>3. IdColumn(rc) = Deltas(GroupIds(rk, R)) /\ DOMAIN rc = 1..n
      BY <2>15, <2>19, <2>20
    <3>4. PICK rows : rows = Heads(marks)
      OBVIOUS
    <3>5. Told(n, rk, R, rows)
      BY <2>6, <3>1, <3>2, <3>4 DEF Told
    <3>6. IdColumn(rc) = Deltas(GroupIds(rk, R))
      BY <3>3
    <3>7. DOMAIN rc = 1..n
      BY <3>3
    <3>8. Owners(n, rk, R)
      BY <2>4
    <3>9. LookUp(StoreOfGroups(rk, R), rc, rows, h) = Range(R[h].attrs)
      BY <2>1, <3>5, <3>6, <3>7, <3>8, LookUpFinds
    <3> QED
      BY <3>4, <3>9
  <2>31. LookUp(StoreOfGroups(sk, S), sc, Heads(marks), h) = Range(S[h].attrs)
    <3>1. \A j \in 2..n : j \notin Heads(sk) => S[j] = S[j - 1]
      BY <2>5, <2>9, <2>11, <2>12 DEF Heads
    <3>2. \A j \in 1..n : j \in Heads(marks) \/ OrZero(Deltas(GroupIds(sk, S))[j]) = 0
      BY <2>15, <2>17, <2>25
    <3>3. IdColumn(sc) = Deltas(GroupIds(sk, S)) /\ DOMAIN sc = 1..n
      BY <2>15, <2>19, <2>20
    <3>4. PICK rows : rows = Heads(marks)
      OBVIOUS
    <3>5. Told(n, sk, S, rows)
      BY <2>6, <3>1, <3>2, <3>4 DEF Told
    <3>6. IdColumn(sc) = Deltas(GroupIds(sk, S))
      BY <3>3
    <3>7. DOMAIN sc = 1..n
      BY <3>3
    <3>8. Owners(n, sk, S)
      BY <2>4
    <3>9. LookUp(StoreOfGroups(sk, S), sc, rows, h) = Range(S[h].attrs)
      BY <2>1, <3>5, <3>6, <3>7, <3>8, LookUpFinds
    <3> QED
      BY <3>4, <3>9
  <2>32. UpdateResourceFromRecord(rc, StoreOfGroups(rk, R), h) = Entity(R[h])
    BY <2>19, <2>22, <2>30 DEF UpdateResourceFromRecord, Entity
  <2>33. UpdateScopeFromRecord(sc, StoreOfGroups(sk, S), h) = Entity(S[h])
    BY <2>19, <2>23, <2>31 DEF UpdateScopeFromRecord, Entity
  <2>34. received[i].place = [resource |-> Entity(R[h]), scope |-> Entity(S[h])]
    BY <2>7, <2>18, <2>28, <2>29, <2>32, <2>33 DEF Place
  <2> QED
    BY <2>2, <2>5, <2>27, <2>34
<1> QED
  BY <1>1, Invariant, PTL

-----------------------------------------------------------------------------
(***************************************************************************)
(* Parents, read back under the groups of each record.                     *)
(***************************************************************************)

\* Encoding starts afresh, and writes differences within a group.
LEMMA EncodedNames ==
  ASSUME NEW rows, List(rows), NEW prev, NEW max
  PROVE  EncodeParents(SameName, ResetSorter(prev), rows, max)
           = Continued({i \in 2..Len(rows) : SameName(rows[i - 1], rows[i])}, rows, max)
<1>1. PICK n \in Nat : n = Len(rows)
  BY DEF List
<1>2. DOMAIN rows = 1..n
  BY <1>1, ListDomain
<1>3. <<>> \o rows = rows /\ Len(<<>>) = 0
  BY EmptyJoin, EmptyIsList
<1>4. EncodeParents(SameName, <<>>, rows, max)
        = [i \in 1..n |-> IF i + 0 > 1 /\ SameName(rows[i + 0 - 1], rows[i])
                          THEN (rows[i].parent - rows[i + 0 - 1].parent) % (max + 1)
                          ELSE rows[i].parent]
  BY <1>2, <1>3 DEF EncodeParents
<1>5. Continued({i \in 2..n : SameName(rows[i - 1], rows[i])}, rows, max)
        = [i \in 1..n |-> IF i \in {j \in 2..n : SameName(rows[j - 1], rows[j])}
                          THEN (rows[i].parent - rows[i - 1].parent) % (max + 1)
                          ELSE rows[i].parent]
  BY <1>2 DEF Continued
<1> DEFINE Enc(i) == IF i + 0 > 1 /\ SameName(rows[i + 0 - 1], rows[i])
                     THEN (rows[i].parent - rows[i + 0 - 1].parent) % (max + 1)
                     ELSE rows[i].parent
           Con(i) == IF i \in {j \in 2..n : SameName(rows[j - 1], rows[j])}
                     THEN (rows[i].parent - rows[i - 1].parent) % (max + 1)
                     ELSE rows[i].parent
<1>6. \A i \in 1..n : Enc(i) = Con(i)
  <2> SUFFICES ASSUME NEW i \in 1..n PROVE Enc(i) = Con(i)
    OBVIOUS
  <2>1. i + 0 = i /\ (i \in 2..n <=> i > 1)
    OBVIOUS
  <2> QED
    BY <2>1
<1>7. EncodeParents(SameName, <<>>, rows, max)
        = Continued({i \in 2..n : SameName(rows[i - 1], rows[i])}, rows, max)
  <2>1. EncodeParents(SameName, <<>>, rows, max) = [i \in 1..n |-> Enc(i)]
    BY <1>4
  <2>2. Continued({i \in 2..n : SameName(rows[i - 1], rows[i])}, rows, max)
          = [i \in 1..n |-> Con(i)]
    BY <1>5
  <2> HIDE DEF Enc, Con
  <2> QED
    BY <1>6, <2>1, <2>2
<1> QED
  BY <1>1, <1>7 DEF ResetSorter

\* The decoder finds the groups of the encoder.
LEMMA DecodedNames ==
  ASSUME NEW rows, List(rows), NEW ids, NEW parents, NEW max
  PROVE  LET W == WriteRows(rows, ids, parents)
         IN  DecodeParents(DecodedSameName, W, max)
               = ParentsOf({i \in 2..Len(rows) : SameName(rows[i - 1], rows[i])}, W, max)
<1> DEFINE W == WriteRows(rows, ids, parents)
<1>1. PICK n \in Nat : n = Len(rows)
  BY DEF List
<1>2. DOMAIN W = 1..n /\ \A i \in 1..n : W[i].cols = rows[i].cols
  BY <1>1, WrittenIs
<1> HIDE DEF W
<1>3. DecodeParents(DecodedSameName, W, max)
        = ParentsOf({i \in DOMAIN W : i > 1 /\ DecodedSameName(W[i - 1], W[i])}, W, max)
  BY DEF DecodeParents
<1>4. {i \in DOMAIN W : i > 1 /\ DecodedSameName(W[i - 1], W[i])}
        = {i \in 2..n : SameName(rows[i - 1], rows[i])}
  <2>1. \A i \in 2..n : DecodedSameName(W[i - 1], W[i]) <=> SameName(rows[i - 1], rows[i])
    <3> SUFFICES ASSUME NEW i \in 2..n
                 PROVE  DecodedSameName(W[i - 1], W[i]) <=> SameName(rows[i - 1], rows[i])
      OBVIOUS
    <3>1. i \in 1..n /\ i - 1 \in 1..n
      OBVIOUS
    <3>2. W[i].cols = rows[i].cols /\ W[i - 1].cols = rows[i - 1].cols
      BY <1>2, <3>1
    <3> QED
      BY <3>2 DEF DecodedSameName, SameName
  <2> QED
    BY <1>2, <2>1
<1> QED
  BY <1>1, <1>3, <1>4 DEF W

\* Parents written under SameName are read back.
LEMMA NamesBack ==
  ASSUME NEW rows, List(rows), NEW max \in Nat,
         \A i \in 1..Len(rows) : rows[i].parent \in 0..max,
         NEW ids, NEW W,
         W = WriteRows(rows, ids, EncodeParents(SameName, ResetSorter(<<>>), rows, max))
  PROVE  DecodeParents(DecodedSameName, W, max) = [i \in 1..Len(rows) |-> rows[i].parent]
<1>1. PICK C : C = {i \in 2..Len(rows) : SameName(rows[i - 1], rows[i])}
  OBVIOUS
<1>2. W = WriteRows(rows, ids, Continued(C, rows, max))
  BY <1>1, EncodedNames
<1>3. DecodeParents(DecodedSameName, W, max) = ParentsOf(C, W, max)
  BY <1>1, DecodedNames, ZenonT(30)
<1>4. C \in SUBSET (2..Len(rows))
  BY <1>1
<1>5. List(W) /\ Len(W) = Len(rows)
      /\ \A i \in 1..Len(rows) : W[i].parent = Continued(C, rows, max)[i]
  BY <1>2, WrittenIs
<1>6. ParentsOf(C, W, max) = [i \in 1..Len(rows) |-> rows[i].parent]
  BY <1>4, <1>5, ParentsReadBack, ZenonT(30)
<1> QED
  BY <1>3, <1>6

\* Encoding starts afresh, and writes differences within a group.
LEMMA EncodedLinks ==
  ASSUME NEW rows, List(rows), NEW prev, NEW max
  PROVE  EncodeParents(SameTrace, ResetSorter(prev), rows, max)
           = Continued({i \in 2..Len(rows) : SameTrace(rows[i - 1], rows[i])}, rows, max)
<1>1. PICK n \in Nat : n = Len(rows)
  BY DEF List
<1>2. DOMAIN rows = 1..n
  BY <1>1, ListDomain
<1>3. <<>> \o rows = rows /\ Len(<<>>) = 0
  BY EmptyJoin, EmptyIsList
<1>4. EncodeParents(SameTrace, <<>>, rows, max)
        = [i \in 1..n |-> IF i + 0 > 1 /\ SameTrace(rows[i + 0 - 1], rows[i])
                          THEN (rows[i].parent - rows[i + 0 - 1].parent) % (max + 1)
                          ELSE rows[i].parent]
  BY <1>2, <1>3 DEF EncodeParents
<1>5. Continued({i \in 2..n : SameTrace(rows[i - 1], rows[i])}, rows, max)
        = [i \in 1..n |-> IF i \in {j \in 2..n : SameTrace(rows[j - 1], rows[j])}
                          THEN (rows[i].parent - rows[i - 1].parent) % (max + 1)
                          ELSE rows[i].parent]
  BY <1>2 DEF Continued
<1> DEFINE Enc(i) == IF i + 0 > 1 /\ SameTrace(rows[i + 0 - 1], rows[i])
                     THEN (rows[i].parent - rows[i + 0 - 1].parent) % (max + 1)
                     ELSE rows[i].parent
           Con(i) == IF i \in {j \in 2..n : SameTrace(rows[j - 1], rows[j])}
                     THEN (rows[i].parent - rows[i - 1].parent) % (max + 1)
                     ELSE rows[i].parent
<1>6. \A i \in 1..n : Enc(i) = Con(i)
  <2> SUFFICES ASSUME NEW i \in 1..n PROVE Enc(i) = Con(i)
    OBVIOUS
  <2>1. i + 0 = i /\ (i \in 2..n <=> i > 1)
    OBVIOUS
  <2> QED
    BY <2>1
<1>7. EncodeParents(SameTrace, <<>>, rows, max)
        = Continued({i \in 2..n : SameTrace(rows[i - 1], rows[i])}, rows, max)
  <2>1. EncodeParents(SameTrace, <<>>, rows, max) = [i \in 1..n |-> Enc(i)]
    BY <1>4
  <2>2. Continued({i \in 2..n : SameTrace(rows[i - 1], rows[i])}, rows, max)
          = [i \in 1..n |-> Con(i)]
    BY <1>5
  <2> HIDE DEF Enc, Con
  <2> QED
    BY <1>6, <2>1, <2>2
<1> QED
  BY <1>1, <1>7 DEF ResetSorter

\* The decoder finds the groups of the encoder.
LEMMA DecodedLinks ==
  ASSUME NEW rows, List(rows), NEW ids, NEW parents, NEW max
  PROVE  LET W == WriteRows(rows, ids, parents)
         IN  DecodeParents(DecodedSameTrace, W, max)
               = ParentsOf({i \in 2..Len(rows) : SameTrace(rows[i - 1], rows[i])}, W, max)
<1> DEFINE W == WriteRows(rows, ids, parents)
<1>1. PICK n \in Nat : n = Len(rows)
  BY DEF List
<1>2. DOMAIN W = 1..n /\ \A i \in 1..n : W[i].cols = rows[i].cols
  BY <1>1, WrittenIs
<1> HIDE DEF W
<1>3. DecodeParents(DecodedSameTrace, W, max)
        = ParentsOf({i \in DOMAIN W : i > 1 /\ DecodedSameTrace(W[i - 1], W[i])}, W, max)
  BY DEF DecodeParents
<1>4. {i \in DOMAIN W : i > 1 /\ DecodedSameTrace(W[i - 1], W[i])}
        = {i \in 2..n : SameTrace(rows[i - 1], rows[i])}
  <2>1. \A i \in 2..n : DecodedSameTrace(W[i - 1], W[i]) <=> SameTrace(rows[i - 1], rows[i])
    <3> SUFFICES ASSUME NEW i \in 2..n
                 PROVE  DecodedSameTrace(W[i - 1], W[i]) <=> SameTrace(rows[i - 1], rows[i])
      OBVIOUS
    <3>1. i \in 1..n /\ i - 1 \in 1..n
      OBVIOUS
    <3>2. W[i].cols = rows[i].cols /\ W[i - 1].cols = rows[i - 1].cols
      BY <1>2, <3>1
    <3> QED
      BY <3>2 DEF DecodedSameTrace, SameTrace
  <2> QED
    BY <1>2, <2>1
<1> QED
  BY <1>1, <1>3, <1>4 DEF W

\* Parents written under SameTrace are read back.
LEMMA LinksBack ==
  ASSUME NEW rows, List(rows), NEW max \in Nat,
         \A i \in 1..Len(rows) : rows[i].parent \in 0..max,
         NEW ids, NEW W,
         W = WriteRows(rows, ids, EncodeParents(SameTrace, ResetSorter(<<>>), rows, max))
  PROVE  DecodeParents(DecodedSameTrace, W, max) = [i \in 1..Len(rows) |-> rows[i].parent]
<1>1. PICK C : C = {i \in 2..Len(rows) : SameTrace(rows[i - 1], rows[i])}
  OBVIOUS
<1>2. W = WriteRows(rows, ids, Continued(C, rows, max))
  BY <1>1, EncodedLinks
<1>3. DecodeParents(DecodedSameTrace, W, max) = ParentsOf(C, W, max)
  BY <1>1, DecodedLinks
<1>4. C \in SUBSET (2..Len(rows))
  BY <1>1
<1>5. List(W) /\ Len(W) = Len(rows)
      /\ \A i \in 1..Len(rows) : W[i].parent = Continued(C, rows, max)[i]
  BY <1>2, WrittenIs
<1>6. ParentsOf(C, W, max) = [i \in 1..Len(rows) |-> rows[i].parent]
  BY <1>4, <1>5, ParentsReadBack
<1> QED
  BY <1>3, <1>6

\* Encoding starts afresh, and writes differences within a group.
LEMMA EncodedPoints ==
  ASSUME NEW rows, List(rows), NEW prev, NEW max
  PROVE  EncodeParents(AnyGroup, ResetSorter(prev), rows, max)
           = Continued({i \in 2..Len(rows) : AnyGroup(rows[i - 1], rows[i])}, rows, max)
<1>1. PICK n \in Nat : n = Len(rows)
  BY DEF List
<1>2. DOMAIN rows = 1..n
  BY <1>1, ListDomain
<1>3. <<>> \o rows = rows /\ Len(<<>>) = 0
  BY EmptyJoin, EmptyIsList
<1>4. EncodeParents(AnyGroup, <<>>, rows, max)
        = [i \in 1..n |-> IF i + 0 > 1 /\ AnyGroup(rows[i + 0 - 1], rows[i])
                          THEN (rows[i].parent - rows[i + 0 - 1].parent) % (max + 1)
                          ELSE rows[i].parent]
  BY <1>2, <1>3 DEF EncodeParents
<1>5. Continued({i \in 2..n : AnyGroup(rows[i - 1], rows[i])}, rows, max)
        = [i \in 1..n |-> IF i \in {j \in 2..n : AnyGroup(rows[j - 1], rows[j])}
                          THEN (rows[i].parent - rows[i - 1].parent) % (max + 1)
                          ELSE rows[i].parent]
  BY <1>2 DEF Continued
<1> DEFINE Enc(i) == IF i + 0 > 1 /\ AnyGroup(rows[i + 0 - 1], rows[i])
                     THEN (rows[i].parent - rows[i + 0 - 1].parent) % (max + 1)
                     ELSE rows[i].parent
           Con(i) == IF i \in {j \in 2..n : AnyGroup(rows[j - 1], rows[j])}
                     THEN (rows[i].parent - rows[i - 1].parent) % (max + 1)
                     ELSE rows[i].parent
<1>6. \A i \in 1..n : Enc(i) = Con(i)
  <2> SUFFICES ASSUME NEW i \in 1..n PROVE Enc(i) = Con(i)
    OBVIOUS
  <2>1. i + 0 = i /\ (i \in 2..n <=> i > 1)
    OBVIOUS
  <2> QED
    BY <2>1
<1>7. EncodeParents(AnyGroup, <<>>, rows, max)
        = Continued({i \in 2..n : AnyGroup(rows[i - 1], rows[i])}, rows, max)
  <2>1. EncodeParents(AnyGroup, <<>>, rows, max) = [i \in 1..n |-> Enc(i)]
    BY <1>4
  <2>2. Continued({i \in 2..n : AnyGroup(rows[i - 1], rows[i])}, rows, max)
          = [i \in 1..n |-> Con(i)]
    BY <1>5
  <2> HIDE DEF Enc, Con
  <2> QED
    BY <1>6, <2>1, <2>2
<1> QED
  BY <1>1, <1>7 DEF ResetSorter

\* The decoder finds the groups of the encoder.
LEMMA DecodedPoints ==
  ASSUME NEW rows, List(rows), NEW ids, NEW parents, NEW max
  PROVE  LET W == WriteRows(rows, ids, parents)
         IN  DecodeParents(AnyGroup, W, max)
               = ParentsOf({i \in 2..Len(rows) : AnyGroup(rows[i - 1], rows[i])}, W, max)
<1> DEFINE W == WriteRows(rows, ids, parents)
<1>1. PICK n \in Nat : n = Len(rows)
  BY DEF List
<1>2. DOMAIN W = 1..n /\ \A i \in 1..n : W[i].cols = rows[i].cols
  BY <1>1, WrittenIs
<1> HIDE DEF W
<1>3. DecodeParents(AnyGroup, W, max)
        = ParentsOf({i \in DOMAIN W : i > 1 /\ AnyGroup(W[i - 1], W[i])}, W, max)
  BY DEF DecodeParents
<1>4. {i \in DOMAIN W : i > 1 /\ AnyGroup(W[i - 1], W[i])}
        = {i \in 2..n : AnyGroup(rows[i - 1], rows[i])}
  <2>1. \A i \in 2..n : AnyGroup(W[i - 1], W[i]) <=> AnyGroup(rows[i - 1], rows[i])
    <3> SUFFICES ASSUME NEW i \in 2..n
                 PROVE  AnyGroup(W[i - 1], W[i]) <=> AnyGroup(rows[i - 1], rows[i])
      OBVIOUS
    <3>1. i \in 1..n /\ i - 1 \in 1..n
      OBVIOUS
    <3>2. W[i].cols = rows[i].cols /\ W[i - 1].cols = rows[i - 1].cols
      BY <1>2, <3>1
    <3> QED
      BY <3>2 DEF AnyGroup
  <2> QED
    BY <1>2, <2>1
<1> QED
  BY <1>1, <1>3, <1>4 DEF W

\* Parents written under AnyGroup are read back.
LEMMA PointsBack ==
  ASSUME NEW rows, List(rows), NEW max \in Nat,
         \A i \in 1..Len(rows) : rows[i].parent \in 0..max,
         NEW ids, NEW W,
         W = WriteRows(rows, ids, EncodeParents(AnyGroup, ResetSorter(<<>>), rows, max))
  PROVE  DecodeParents(AnyGroup, W, max) = [i \in 1..Len(rows) |-> rows[i].parent]
<1>1. PICK C : C = {i \in 2..Len(rows) : AnyGroup(rows[i - 1], rows[i])}
  OBVIOUS
<1>2. W = WriteRows(rows, ids, Continued(C, rows, max))
  BY <1>1, EncodedPoints
<1>3. DecodeParents(AnyGroup, W, max) = ParentsOf(C, W, max)
  BY <1>1, DecodedPoints
<1>4. C \in SUBSET (2..Len(rows))
  BY <1>1
<1>5. List(W) /\ Len(W) = Len(rows)
      /\ \A i \in 1..Len(rows) : W[i].parent = Continued(C, rows, max)[i]
  BY <1>2, WrittenIs
<1>6. ParentsOf(C, W, max) = [i \in 1..Len(rows) |-> rows[i].parent]
  BY <1>4, <1>5, ParentsReadBack
<1> QED
  BY <1>3, <1>6

\* Encoding starts afresh, and writes differences within a group.
LEMMA EncodedValues ==
  ASSUME NEW rows, List(rows), NEW prev, NEW max
  PROVE  EncodeParents(EqualExemplar, ResetSorter(prev), rows, max)
           = Continued({i \in 2..Len(rows) : EqualExemplar(rows[i - 1], rows[i])}, rows, max)
<1>1. PICK n \in Nat : n = Len(rows)
  BY DEF List
<1>2. DOMAIN rows = 1..n
  BY <1>1, ListDomain
<1>3. <<>> \o rows = rows /\ Len(<<>>) = 0
  BY EmptyJoin, EmptyIsList
<1>4. EncodeParents(EqualExemplar, <<>>, rows, max)
        = [i \in 1..n |-> IF i + 0 > 1 /\ EqualExemplar(rows[i + 0 - 1], rows[i])
                          THEN (rows[i].parent - rows[i + 0 - 1].parent) % (max + 1)
                          ELSE rows[i].parent]
  BY <1>2, <1>3 DEF EncodeParents
<1>5. Continued({i \in 2..n : EqualExemplar(rows[i - 1], rows[i])}, rows, max)
        = [i \in 1..n |-> IF i \in {j \in 2..n : EqualExemplar(rows[j - 1], rows[j])}
                          THEN (rows[i].parent - rows[i - 1].parent) % (max + 1)
                          ELSE rows[i].parent]
  BY <1>2 DEF Continued
<1> DEFINE Enc(i) == IF i + 0 > 1 /\ EqualExemplar(rows[i + 0 - 1], rows[i])
                     THEN (rows[i].parent - rows[i + 0 - 1].parent) % (max + 1)
                     ELSE rows[i].parent
           Con(i) == IF i \in {j \in 2..n : EqualExemplar(rows[j - 1], rows[j])}
                     THEN (rows[i].parent - rows[i - 1].parent) % (max + 1)
                     ELSE rows[i].parent
<1>6. \A i \in 1..n : Enc(i) = Con(i)
  <2> SUFFICES ASSUME NEW i \in 1..n PROVE Enc(i) = Con(i)
    OBVIOUS
  <2>1. i + 0 = i /\ (i \in 2..n <=> i > 1)
    OBVIOUS
  <2> QED
    BY <2>1
<1>7. EncodeParents(EqualExemplar, <<>>, rows, max)
        = Continued({i \in 2..n : EqualExemplar(rows[i - 1], rows[i])}, rows, max)
  <2>1. EncodeParents(EqualExemplar, <<>>, rows, max) = [i \in 1..n |-> Enc(i)]
    BY <1>4
  <2>2. Continued({i \in 2..n : EqualExemplar(rows[i - 1], rows[i])}, rows, max)
          = [i \in 1..n |-> Con(i)]
    BY <1>5
  <2> HIDE DEF Enc, Con
  <2> QED
    BY <1>6, <2>1, <2>2
<1> QED
  BY <1>1, <1>7 DEF ResetSorter

\* The decoder finds the groups of the encoder.
LEMMA DecodedValues ==
  ASSUME NEW rows, List(rows), NEW ids, NEW parents, NEW max,
         \A i \in 2..Len(rows) : rows[i].cols.value[1] = EmptyType
                                 => rows[i - 1].cols.value = rows[i].cols.value
  PROVE  LET W == WriteRows(rows, ids, parents)
         IN  DecodeParents(DecodedSameValue, W, max)
               = ParentsOf({i \in 2..Len(rows) : EqualExemplar(rows[i - 1], rows[i])}, W, max)
<1> DEFINE W == WriteRows(rows, ids, parents)
<1>1. PICK n \in Nat : n = Len(rows)
  BY DEF List
<1>2. DOMAIN W = 1..n /\ \A i \in 1..n : W[i].cols = rows[i].cols
  BY <1>1, WrittenIs
<1> HIDE DEF W
<1>3. DecodeParents(DecodedSameValue, W, max)
        = ParentsOf({i \in DOMAIN W : i > 1 /\ DecodedSameValue(W[i - 1], W[i])}, W, max)
  BY DEF DecodeParents
<1>4. {i \in DOMAIN W : i > 1 /\ DecodedSameValue(W[i - 1], W[i])}
        = {i \in 2..n : EqualExemplar(rows[i - 1], rows[i])}
  <2>1. \A i \in 2..n : DecodedSameValue(W[i - 1], W[i]) <=> EqualExemplar(rows[i - 1], rows[i])
    <3> SUFFICES ASSUME NEW i \in 2..n
                 PROVE  DecodedSameValue(W[i - 1], W[i]) <=> EqualExemplar(rows[i - 1], rows[i])
      OBVIOUS
    <3>1. i \in 1..n /\ i - 1 \in 1..n
      OBVIOUS
    <3>2. W[i].cols = rows[i].cols /\ W[i - 1].cols = rows[i - 1].cols
      BY <1>2, <3>1
    <3>3. rows[i].cols.value[1] = EmptyType => rows[i - 1].cols.value = rows[i].cols.value
      BY <1>1
    <3> QED
      BY <3>2, <3>3 DEF DecodedSameValue, EqualExemplar
  <2> QED
    BY <1>2, <2>1
<1> QED
  BY <1>1, <1>3, <1>4 DEF W

\* Parents written under EqualExemplar are read back.
LEMMA ValuesBack ==
  ASSUME NEW rows, List(rows), NEW max \in Nat,
         \A i \in 1..Len(rows) : rows[i].parent \in 0..max,
         \A i \in 2..Len(rows) : rows[i].cols.value[1] = EmptyType
                                 => rows[i - 1].cols.value = rows[i].cols.value,
         NEW ids, NEW W,
         W = WriteRows(rows, ids, EncodeParents(EqualExemplar, ResetSorter(<<>>), rows, max))
  PROVE  DecodeParents(DecodedSameValue, W, max) = [i \in 1..Len(rows) |-> rows[i].parent]
<1>1. PICK C : C = {i \in 2..Len(rows) : EqualExemplar(rows[i - 1], rows[i])}
  OBVIOUS
<1>2. W = WriteRows(rows, ids, Continued(C, rows, max))
  BY <1>1, EncodedValues
<1>3. DecodeParents(DecodedSameValue, W, max) = ParentsOf(C, W, max)
  BY <1>1, DecodedValues, ZenonT(30)
<1>4. C \in SUBSET (2..Len(rows))
  BY <1>1
<1>5. List(W) /\ Len(W) = Len(rows)
      /\ \A i \in 1..Len(rows) : W[i].parent = Continued(C, rows, max)[i]
  BY <1>2, WrittenIs
<1>6. ParentsOf(C, W, max) = [i \in 1..Len(rows) |-> rows[i].parent]
  BY <1>4, <1>5, ParentsReadBack, SMTT(30)
<1> QED
  BY <1>3, <1>6

-----------------------------------------------------------------------------
(***************************************************************************)
(* Items under their owners.                                               *)
(***************************************************************************)

\* The parents of some rows.
ParentsIn(rows) == [k \in 1..Len(rows) |-> rows[k].parent]

\* What is known of the record of items that was delivered: its rows in the order they
\* were sorted in, and the attributes that are found for each.
LEMMA ItemsDelivered ==
  ASSUME Inv, Delivered, NEW t \in Types(signal) \cap Parents,
         NEW a, a = accu[t], NEW sorted, sorted = SortedOf(t, a.rows)
  PROVE  /\ List(sorted) /\ Permuted(sorted, a.rows) /\ Accu(a)
         /\ records[t] = ItemRows(t, sorted)
         /\ DOMAIN records[t] = 1..Len(sorted)
         /\ \A k \in 1..Len(sorted) :
              /\ records[t][k].cols = sorted[k].cols
              /\ AttributesByDeltaID32(Attributes32StoreFrom(records[AttrsOf[t]]),
                                       IdsOf(records[t]), k)
                   = Named(sorted[k].attrs)
<1>1. /\ signal \in Signals3 /\ AccuOK(t, a)
      /\ records[t] = BuiltRows(t, a)
      /\ ~Panics(ItemIds(t, sorted))
      /\ accu[AttrsOf[t]] = BuiltAttrs(t, a)
  BY Delivery DEF Inv
<1>2. /\ AttrsOf[t] \in Types(signal) /\ AttrsOf[t] \in Attrs32
  BY <1>1, Belongings
<1>3. /\ t \notin Attrs16 /\ t \notin Attrs32
      /\ AttrsOf[t] \notin Attrs16 /\ AttrsOf[t] \notin Parents
  BY <1>1, <1>2, TypesKinds
<1>4. records[t] = ItemRows(t, sorted)
  BY <1>1, <1>3 DEF BuiltRows
<1>5. records[AttrsOf[t]] = TryBuildAttrs32(ItemAttrs(t, sorted), <<>>).rows
  <2>1. records[AttrsOf[t]] = BuiltRows(AttrsOf[t], accu[AttrsOf[t]])
    BY <1>2, Delivery
  <2>2. accu[AttrsOf[t]] = ItemAttrs(t, sorted)
    BY <1>1 DEF BuiltAttrs
  <2>3. PICK u, b : u = AttrsOf[t] /\ b = ItemAttrs(t, sorted)
    OBVIOUS
  <2>4. BuiltRows(u, b) = TryBuildAttrs32(b, <<>>).rows
    BY <1>2, <1>3, <2>3 DEF BuiltRows
  <2> QED
    BY <2>1, <2>2, <2>3, <2>4
<1>6. List(sorted) /\ Permuted(sorted, a.rows) /\ Accu(a)
  <2>1. Accu(a) /\ List(a.rows)
    BY <1>1 DEF AccuOK, Accu
  <2>2. Permuted(sorted, a.rows)
    BY <2>1, SortedAre
  <2> QED
    BY <2>1, <2>2, PermutedIs
<1>7. PICK referred : /\ Refers(sorted, referred)
                      /\ ItemIds(t, sorted) = SparseIds(referred, MaxUint32)
  BY <1>1, ItemsBuilt
<1>8. PICK n \in Nat : n = Len(sorted)
  BY <1>6 DEF List
<1>9. PICK ids : ids = ItemIds(t, sorted)
  OBVIOUS
<1>10. MaxUint32 \in Nat \ {0} /\ MaxUint32 \in Nat
  BY WidthAssumption DEF WidthAssumption
<1>11. DOMAIN ids = 1..n
  BY <1>7, <1>8, <1>9, <1>10, SparseIdsType DEF Refers
<1>12. /\ DOMAIN records[t] = 1..n
       /\ \A k \in 1..n : /\ records[t][k].cols = sorted[k].cols
                          /\ records[t][k].id = Deltas(ids)[k]
  BY <1>4, <1>6, <1>8, <1>9, WrittenIs DEF ItemRows
<1>13. IdsOf(records[t]) = Deltas(ids)
  BY <1>11, <1>12 DEF IdsOf, Deltas
<1>14. ASSUME NEW k \in 1..n
       PROVE  AttributesByDeltaID32(Attributes32StoreFrom(records[AttrsOf[t]]),
                                    IdsOf(records[t]), k)
                = Named(sorted[k].attrs)
  <2>1. ids = SparseIds(referred, MaxUint32) /\ ~Panics(ids) /\ k \in 1..Len(sorted)
    BY <1>1, <1>7, <1>8, <1>9
  <2>2. AttributesByDeltaID32(
          Attributes32StoreFrom(
            TryBuildAttrs32(AccumulateAttrs(NewAccumulator, sorted, ids), <<>>).rows),
          Deltas(ids), k) = Named(sorted[k].attrs)
    BY <1>7, <1>10, <2>1, ChildAttrsFound
  <2> QED
    BY <1>5, <1>9, <1>13, <2>2 DEF ItemAttrs
<1> QED
  BY <1>4, <1>6, <1>8, <1>12, <1>14

\* The children as they should arrive are made of the rows of a list.
BareOf(children, what, rows) ==
  /\ List(children) /\ Len(children) = Len(rows)
  /\ \A k \in 1..Len(children) : what[rows[k]] = Bare(children[k])

\* Items that arrive as they should, taken from the list of their owner.
LEMMA SameItems ==
  ASSUME NEW a, NEW n, NEW lists, Collected(a, n, lists),
         NEW sorted, Permuted(sorted, a.rows), List(sorted),
         NEW ids, OwnedBy(n, ids, lists), NEW i \in 1..n, OwnId(i, n, ids, lists),
         NEW what, NEW items, MadeOf(items, what, sorted),
         NEW parents, parents = ParentsIn(sorted),
         NEW children, BareOf(children, what, lists[i])
  PROVE  Same(ListByID(ListsOf(parents, items), ids[i]), children)
<1>1. PICK got : got = Selected(PlacesOf(sorted, ids[i]), items)
  OBVIOUS
<1>2. ListByID(ListsOf(parents, items), ids[i]) = got
  <2>1. parents = [k \in 1..Len(sorted) |-> sorted[k].parent]
    BY DEF ParentsIn
  <2> QED
    BY <1>1, <2>1, ListByIDIs DEF MadeOf
<1>3. /\ List(got) /\ Len(got) = Len(lists[i])
      /\ \A x : x \in Range(got) <=> \E k \in 1..Len(lists[i]) : x = what[lists[i][k]]
  <2>1. Made(got, what, lists[i])
    BY ONLY <1>1, i \in 1..n, Collected(a, n, lists), Permuted(sorted, a.rows),
            OwnedBy(n, ids, lists), OwnId(i, n, ids, lists), MadeOf(items, what, sorted),
            Gathered
  <2> QED
    BY <2>1 DEF Made
<1>0. /\ List(children) /\ Len(children) = Len(lists[i])
      /\ \A k \in 1..Len(children) : what[lists[i][k]] = Bare(children[k])
  BY DEF BareOf
<1>4. DOMAIN children = 1..Len(children)
  BY <1>0, ListDomain
<1>5. {got[k] : k \in DOMAIN got} = {Bare(children[k]) : k \in DOMAIN children}
  <2>1. \A x : x \in Range(got) <=> \E k \in 1..Len(children) : x = Bare(children[k])
    BY <1>0, <1>3
  <2>2. Range(got) = {got[k] : k \in DOMAIN got}
    BY DEF Range
  <2> QED
    BY <1>4, <2>1, <2>2
<1> QED
  BY <1>0, <1>2, <1>3, <1>5 DEF Same

\* The events of a span that has related data are found under the id of the span.
LEMMA EventsFound ==
  ASSUME Inv, Delivered, signal = "traces", NEW ids, ids = SpanIds(sent),
         NEW i \in 1..Len(sent), HasRelatedData(sent[i].entry)
  PROVE  Same(EventsByID(SpanEventsStoreFrom(records["SPAN_EVENTS"],
                           Attributes32StoreFrom(records["SPAN_EVENT_ATTRS"])), ids[i]),
              sent[i].entry.events)
<1>1. /\ SentOK("traces", sent) /\ main = AppendTraces(sent)
      /\ "SPAN_EVENTS" \in Types(signal) \cap Parents
      /\ AttrsOf["SPAN_EVENTS"] = "SPAN_EVENT_ATTRS"
  <2>1. SentOK(signal, sent) /\ main = AppendMain(signal, sent)
    BY Delivery
  <2>2. "SPAN_EVENTS" \in Types(signal)
    BY TracesOrder DEF TracesTypes
  <2>3. AttrsOf["SPAN_EVENTS"] = "SPAN_EVENT_ATTRS"
    BY DEF AttrsOf
  <2> QED
    BY <2>1, <2>2, <2>3 DEF AppendMain, Parents
<1>2. PICK n \in Nat : n = Len(sent) /\ DOMAIN sent = 1..n
  BY <1>1, SentRows
<1>3. PICK a : a = Filled(NewAccumulator,
                 [j \in DOMAIN sent |-> AppendEvents(ids[j], sent[j].entry.events)])
  OBVIOUS
<1>4. accu["SPAN_EVENTS"] = a
  <2>1. main.accu["SPAN_EVENTS"] = a /\ "SPAN_EVENTS" \in DOMAIN main.accu
    BY <1>1, <1>3 DEF AppendTraces
  <2> QED
    BY <2>1, Delivery
<1>5. PICK referred : referred = [j \in 1..n |-> HasRelatedData(sent[j].entry)]
  OBVIOUS
<1>6. ids = SparseIds(referred, MaxUint16) /\ DOMAIN referred = 1..n
  BY <1>2, <1>5 DEF SpanIds
<1>7. MaxUint16 \in Nat \ {0} /\ MaxUint16 \in Nat /\ MaxUint32 \in Nat
  BY WidthAssumption DEF WidthAssumption
<1>8. ~Panics(ids)
  BY TracesReceived
<1>9. DOMAIN ids = 1..n /\ \A j \in 1..n : referred[j] => ids[j] \in 0..MaxUint16
  <2>1. /\ DOMAIN SparseIds(referred, MaxUint16) = 1..n
        /\ \A k \in 1..n : /\ referred[k] => SparseIds(referred, MaxUint16)[k] \in 0..MaxUint16
                           /\ ~referred[k] => SparseIds(referred, MaxUint16)[k] = Null
    BY ONLY <1>6, <1>7, n \in Nat, SparseIdsType
  <2> QED
    BY ONLY <1>6, <2>1
<1>10. PICK lists : lists = EventLists(ids)
  OBVIOUS
<1>11. /\ Collected(a, n, lists)
       /\ \A j \in 1..n :
            /\ List(sent[j].entry.events) /\ List(lists[j])
            /\ Len(lists[j]) = Len(sent[j].entry.events)
            /\ \A event \in Range(sent[j].entry.events) : IsEvent(event)
  BY <1>1, <1>2, <1>3, <1>9, <1>10, EventsCollected
<1>12. ASSUME NEW j \in 1..n
       PROVE  /\ \A k \in 1..Len(lists[j]) :
                   lists[j][k] = EventRow(ids[j], sent[j].entry.events[k])
              /\ lists[j] # <<>> => referred[j]
  <2>1. DOMAIN sent[j].entry.events = 1..Len(lists[j])
    BY <1>11, ListDomain
  <2>2. lists[j] = [k \in DOMAIN sent[j].entry.events |->
                      EventRow(ids[j], sent[j].entry.events[k])]
    BY <1>2, <1>10 DEF EventLists
  <2>3. lists[j] # <<>> => sent[j].entry.events # <<>>
    BY <1>11, EmptyList
  <2>4. sent[j].entry.events # <<>> => referred[j]
    BY <1>5 DEF HasRelatedData
  <2> QED
    BY <2>1, <2>2, <2>3, <2>4
<1>13. OwnedBy(n, ids, lists)
  <2>1. ASSUME NEW j \in 1..n, NEW k \in 1..Len(lists[j]) PROVE lists[j][k].parent = ids[j]
    <3>1. lists[j][k] = EventRow(ids[j], sent[j].entry.events[k])
      BY <1>12
    <3> QED
      BY <3>1 DEF EventRow
  <2> QED
    BY <2>1 DEF OwnedBy
<1>14. OwnId(i, n, ids, lists)
  <2>1. ASSUME NEW j \in 1..n, lists[j] # <<>>, ids[j] = ids[i] PROVE j = i
    <3>1. referred[j] /\ referred[i] /\ i \in 1..n
      BY <1>2, <1>5, <1>12, <2>1
    <3> QED
      BY <1>6, <1>7, <1>8, <2>1, <3>1, SparseIdsDiffer
  <2> QED
    BY <2>1 DEF OwnId
<1>15. PICK sorted : sorted = SortedOf("SPAN_EVENTS", a.rows)
  OBVIOUS
<1>16. PICK W, store : /\ W = records["SPAN_EVENTS"]
                       /\ store = Attributes32StoreFrom(records["SPAN_EVENT_ATTRS"])
  OBVIOUS
<1>17. /\ List(sorted) /\ Permuted(sorted, a.rows) /\ Accu(a)
       /\ W = ItemRows("SPAN_EVENTS", sorted)
       /\ DOMAIN W = 1..Len(sorted)
       /\ \A k \in 1..Len(sorted) :
            /\ W[k].cols = sorted[k].cols
            /\ AttributesByDeltaID32(store, IdsOf(W), k) = Named(sorted[k].attrs)
  BY <1>1, <1>4, <1>15, <1>16, ItemsDelivered
<1>18. PICK m \in Nat : m = Len(sorted)
  BY <1>17 DEF List
<1>19. \A k \in 1..m : sorted[k] \in Range(a.rows)
  BY <1>17, <1>18, PermutedIs DEF Accu
<1>20. \A row \in Range(a.rows) : row.parent \in 0..MaxUint16
  <2>1. ASSUME NEW row \in Range(a.rows) PROVE row.parent \in 0..MaxUint16
    <3>1. Among(row, n, lists)
      BY <1>11, CollectedIs
    <3>2. PICK j \in 1..n : row \in Range(lists[j])
      BY <3>1 DEF Among
    <3>3. PICK k \in 1..Len(lists[j]) : row = lists[j][k]
      BY <1>11, <3>2, ListRange
    <3>4. lists[j] # <<>>
      BY <3>3, EmptyIsList
    <3>5. row.parent = ids[j]
      BY <1>13, <3>3 DEF OwnedBy
    <3> QED
      BY <1>9, <1>12, <3>4, <3>5
  <2> QED
    BY <2>1
<1>21. PICK parents : parents = DecodeParents(DecodedSameName, W, MaxUint16)
  OBVIOUS
<1>22. parents = [k \in 1..m |-> sorted[k].parent]
  <2>1. W = WriteRows(sorted, ItemIds("SPAN_EVENTS", sorted),
                      EncodeParents(SameName, ResetSorter(<<>>), sorted, MaxUint16))
    BY <1>17 DEF ItemRows, ItemParents, PointKinds
  <2>2. \A k \in 1..Len(sorted) : sorted[k].parent \in 0..MaxUint16
    BY <1>18, <1>19, <1>20
  <2> QED
    BY <1>7, <1>17, <1>18, <1>21, <2>1, <2>2, NamesBack, SMTT(30)
<1> DEFINE Arrived(row) == [name |-> row.cols.name, data |-> row.cols.data,
                            attrs |-> Named(row.attrs)]
           what == [row \in Range(a.rows) |-> Arrived(row)]
           items == [k \in DOMAIN W |->
                       [name |-> W[k].cols.name, data |-> W[k].cols.data,
                        attrs |-> AttributesByDeltaID32(store, IdsOf(W), k)]]
<1>23. MadeOf(items, what, sorted)
  <2>1. DOMAIN items = 1..m /\ items = [k \in 1..m |-> items[k]]
    BY <1>17, <1>18
  <2>2. Len(items) = m
    BY <2>1, LengthOf
  <2>3. \A k \in 1..m : items[k] = what[sorted[k]]
    BY <1>17, <1>18, <1>19
  <2> HIDE DEF items, what
  <2> QED
    BY <1>18, <2>1, <2>2, <2>3 DEF MadeOf, List
<1>24. PICK children : children = sent[i].entry.events
  OBVIOUS
<1>25. List(children) /\ Len(children) = Len(lists[i])
  BY <1>2, <1>11, <1>24
<1>26. \A k \in 1..Len(children) : what[lists[i][k]] = Bare(children[k])
  <2>1. ASSUME NEW k \in 1..Len(children) PROVE what[lists[i][k]] = Bare(children[k])
    <3>1. lists[i][k] = EventRow(ids[i], children[k])
      BY <1>2, <1>12, <1>24, <1>25
    <3>2. Among(lists[i][k], n, lists)
      <4>1. List(lists[i]) /\ i \in 1..n
        BY <1>2, <1>11
      <4>2. lists[i][k] \in Range(lists[i])
        BY <1>25, <4>1, ListRange
      <4> QED
        BY <4>1, <4>2 DEF Among
    <3>3. lists[i][k] \in Range(a.rows)
      BY <1>11, <3>2, CollectedIs
    <3>4. IsEvent(children[k])
      <4>1. children[k] \in Range(children)
        BY <1>25, ListRange
      <4> QED
        BY <1>2, <1>11, <1>24, <4>1
    <3>5. PICK event : event = children[k]
      OBVIOUS
    <3>6. Bare(event) = [name |-> event.name, data |-> event.data,
                         attrs |-> Named(event.attrs)]
      <4>1. event = [name |-> event.name, data |-> event.data, attrs |-> event.attrs]
        BY <3>4, <3>5 DEF IsEvent
      <4> QED
        BY <4>1 DEF Bare
    <3>7. what[lists[i][k]] = Arrived(lists[i][k])
      BY <3>3
    <3>8. Arrived(lists[i][k]) = [name |-> event.name, data |-> event.data,
                                  attrs |-> Named(event.attrs)]
      BY <3>1, <3>5 DEF EventRow
    <3> QED
      BY <3>5, <3>6, <3>7, <3>8
  <2> QED
    BY <2>1
<1>27. EventsByID(SpanEventsStoreFrom(W, store), ids[i])
         = ListByID(ListsOf(parents, items), ids[i])
  BY <1>21 DEF EventsByID, SpanEventsStoreFrom
<1> HIDE DEF what, items
<1>28. Same(ListByID(ListsOf(parents, items), ids[i]), children)
  <2>1. i \in 1..n /\ parents = ParentsIn(sorted)
    BY <1>2, <1>18, <1>22 DEF ParentsIn
  <2>2. BareOf(children, what, lists[i])
    BY <1>25, <1>26 DEF BareOf
  <2>3. Collected(a, n, lists) /\ Permuted(sorted, a.rows) /\ List(sorted)
    BY <1>11, <1>17
  <2> QED
    BY ONLY <2>1, <2>2, <2>3, <1>13, <1>14, <1>23, SameItems
<1> QED
  BY <1>16, <1>24, <1>27, <1>28

\* The links of a span that has related data are found under the id of the span.
LEMMA LinksFound ==
  ASSUME Inv, Delivered, signal = "traces", NEW ids, ids = SpanIds(sent),
         NEW i \in 1..Len(sent), HasRelatedData(sent[i].entry)
  PROVE  Same(LinksByID(SpanLinksStoreFrom(records["SPAN_LINKS"],
                           Attributes32StoreFrom(records["SPAN_LINK_ATTRS"])), ids[i]),
              sent[i].entry.links)
<1>1. /\ SentOK("traces", sent) /\ main = AppendTraces(sent)
      /\ "SPAN_LINKS" \in Types(signal) \cap Parents
      /\ AttrsOf["SPAN_LINKS"] = "SPAN_LINK_ATTRS"
  <2>1. SentOK(signal, sent) /\ main = AppendMain(signal, sent)
    BY Delivery
  <2>2. "SPAN_LINKS" \in Types(signal)
    BY TracesOrder DEF TracesTypes
  <2>3. AttrsOf["SPAN_LINKS"] = "SPAN_LINK_ATTRS"
    BY DEF AttrsOf
  <2> QED
    BY <2>1, <2>2, <2>3 DEF AppendMain, Parents
<1>2. PICK n \in Nat : n = Len(sent) /\ DOMAIN sent = 1..n
  BY <1>1, SentRows
<1>3. PICK a : a = Filled(NewAccumulator,
                 [j \in DOMAIN sent |-> AppendLinks(ids[j], sent[j].entry.links)])
  OBVIOUS
<1>4. accu["SPAN_LINKS"] = a
  <2>1. main.accu["SPAN_LINKS"] = a /\ "SPAN_LINKS" \in DOMAIN main.accu
    BY <1>1, <1>3 DEF AppendTraces
  <2> QED
    BY <2>1, Delivery
<1>5. PICK referred : referred = [j \in 1..n |-> HasRelatedData(sent[j].entry)]
  OBVIOUS
<1>6. ids = SparseIds(referred, MaxUint16) /\ DOMAIN referred = 1..n
  BY <1>2, <1>5 DEF SpanIds
<1>7. MaxUint16 \in Nat \ {0} /\ MaxUint16 \in Nat /\ MaxUint32 \in Nat
  BY WidthAssumption DEF WidthAssumption
<1>8. ~Panics(ids)
  BY TracesReceived
<1>9. DOMAIN ids = 1..n /\ \A j \in 1..n : referred[j] => ids[j] \in 0..MaxUint16
  <2>1. /\ DOMAIN SparseIds(referred, MaxUint16) = 1..n
        /\ \A k \in 1..n : /\ referred[k] => SparseIds(referred, MaxUint16)[k] \in 0..MaxUint16
                           /\ ~referred[k] => SparseIds(referred, MaxUint16)[k] = Null
    BY ONLY <1>6, <1>7, n \in Nat, SparseIdsType
  <2> QED
    BY ONLY <1>6, <2>1
<1>10. PICK lists : lists = LinkLists(ids)
  OBVIOUS
<1>11. /\ Collected(a, n, lists)
       /\ \A j \in 1..n :
            /\ List(sent[j].entry.links) /\ List(lists[j])
            /\ Len(lists[j]) = Len(sent[j].entry.links)
            /\ \A link \in Range(sent[j].entry.links) : IsLink(link)
  BY <1>1, <1>2, <1>3, <1>9, <1>10, LinksCollected
<1>12. ASSUME NEW j \in 1..n
       PROVE  /\ \A k \in 1..Len(lists[j]) :
                   lists[j][k] = LinkRow(ids[j], sent[j].entry.links[k])
              /\ lists[j] # <<>> => referred[j]
  <2>1. DOMAIN sent[j].entry.links = 1..Len(lists[j])
    BY <1>11, ListDomain
  <2>2. lists[j] = [k \in DOMAIN sent[j].entry.links |->
                      LinkRow(ids[j], sent[j].entry.links[k])]
    BY <1>2, <1>10 DEF LinkLists
  <2>3. lists[j] # <<>> => sent[j].entry.links # <<>>
    BY <1>11, EmptyList
  <2>4. sent[j].entry.links # <<>> => referred[j]
    BY <1>5 DEF HasRelatedData
  <2> QED
    BY <2>1, <2>2, <2>3, <2>4
<1>13. OwnedBy(n, ids, lists)
  <2>1. ASSUME NEW j \in 1..n, NEW k \in 1..Len(lists[j]) PROVE lists[j][k].parent = ids[j]
    <3>1. lists[j][k] = LinkRow(ids[j], sent[j].entry.links[k])
      BY <1>12
    <3> QED
      BY <3>1 DEF LinkRow
  <2> QED
    BY <2>1 DEF OwnedBy
<1>14. OwnId(i, n, ids, lists)
  <2>1. ASSUME NEW j \in 1..n, lists[j] # <<>>, ids[j] = ids[i] PROVE j = i
    <3>1. referred[j] /\ referred[i] /\ i \in 1..n
      BY <1>2, <1>5, <1>12, <2>1
    <3> QED
      BY <1>6, <1>7, <1>8, <2>1, <3>1, SparseIdsDiffer
  <2> QED
    BY <2>1 DEF OwnId
<1>15. PICK sorted : sorted = SortedOf("SPAN_LINKS", a.rows)
  OBVIOUS
<1>16. PICK W, store : /\ W = records["SPAN_LINKS"]
                       /\ store = Attributes32StoreFrom(records["SPAN_LINK_ATTRS"])
  OBVIOUS
<1>17. /\ List(sorted) /\ Permuted(sorted, a.rows) /\ Accu(a)
       /\ W = ItemRows("SPAN_LINKS", sorted)
       /\ DOMAIN W = 1..Len(sorted)
       /\ \A k \in 1..Len(sorted) :
            /\ W[k].cols = sorted[k].cols
            /\ AttributesByDeltaID32(store, IdsOf(W), k) = Named(sorted[k].attrs)
  BY <1>1, <1>4, <1>15, <1>16, ItemsDelivered
<1>18. PICK m \in Nat : m = Len(sorted)
  BY <1>17 DEF List
<1>19. \A k \in 1..m : sorted[k] \in Range(a.rows)
  BY <1>17, <1>18, PermutedIs DEF Accu
<1>20. \A row \in Range(a.rows) : row.parent \in 0..MaxUint16
  <2>1. ASSUME NEW row \in Range(a.rows) PROVE row.parent \in 0..MaxUint16
    <3>1. Among(row, n, lists)
      BY <1>11, CollectedIs
    <3>2. PICK j \in 1..n : row \in Range(lists[j])
      BY <3>1 DEF Among
    <3>3. PICK k \in 1..Len(lists[j]) : row = lists[j][k]
      BY <1>11, <3>2, ListRange
    <3>4. lists[j] # <<>>
      BY <3>3, EmptyIsList
    <3>5. row.parent = ids[j]
      BY <1>13, <3>3 DEF OwnedBy
    <3> QED
      BY <1>9, <1>12, <3>4, <3>5
  <2> QED
    BY <2>1
<1>21. PICK parents : parents = DecodeParents(DecodedSameTrace, W, MaxUint16)
  OBVIOUS
<1>22. parents = [k \in 1..m |-> sorted[k].parent]
  <2>1. W = WriteRows(sorted, ItemIds("SPAN_LINKS", sorted),
                      EncodeParents(SameTrace, ResetSorter(<<>>), sorted, MaxUint16))
    BY <1>17 DEF ItemRows, ItemParents, PointKinds
  <2>2. \A k \in 1..Len(sorted) : sorted[k].parent \in 0..MaxUint16
    BY <1>18, <1>19, <1>20
  <2> QED
    BY <1>7, <1>17, <1>18, <1>21, <2>1, <2>2, LinksBack, SMTT(30)
<1> DEFINE Arrived(row) == [trace |-> row.cols.trace, data |-> row.cols.data,
                            attrs |-> Named(row.attrs)]
           what == [row \in Range(a.rows) |-> Arrived(row)]
           items == [k \in DOMAIN W |->
                       [trace |-> W[k].cols.trace, data |-> W[k].cols.data,
                        attrs |-> AttributesByDeltaID32(store, IdsOf(W), k)]]
<1>23. MadeOf(items, what, sorted)
  <2>1. DOMAIN items = 1..m /\ items = [k \in 1..m |-> items[k]]
    BY <1>17, <1>18
  <2>2. Len(items) = m
    BY <2>1, LengthOf
  <2>3. \A k \in 1..m : items[k] = what[sorted[k]]
    BY <1>17, <1>18, <1>19
  <2> HIDE DEF items, what
  <2> QED
    BY <1>18, <2>1, <2>2, <2>3 DEF MadeOf, List
<1>24. PICK children : children = sent[i].entry.links
  OBVIOUS
<1>25. List(children) /\ Len(children) = Len(lists[i])
  BY <1>2, <1>11, <1>24
<1>26. \A k \in 1..Len(children) : what[lists[i][k]] = Bare(children[k])
  <2>1. ASSUME NEW k \in 1..Len(children) PROVE what[lists[i][k]] = Bare(children[k])
    <3>1. lists[i][k] = LinkRow(ids[i], children[k])
      BY <1>2, <1>12, <1>24, <1>25
    <3>2. Among(lists[i][k], n, lists)
      <4>1. List(lists[i]) /\ i \in 1..n
        BY <1>2, <1>11
      <4>2. lists[i][k] \in Range(lists[i])
        BY <1>25, <4>1, ListRange
      <4> QED
        BY <4>1, <4>2 DEF Among
    <3>3. lists[i][k] \in Range(a.rows)
      BY <1>11, <3>2, CollectedIs
    <3>4. IsLink(children[k])
      <4>1. children[k] \in Range(children)
        BY <1>25, ListRange
      <4> QED
        BY <1>2, <1>11, <1>24, <4>1
    <3>5. PICK link : link = children[k]
      OBVIOUS
    <3>6. Bare(link) = [trace |-> link.trace, data |-> link.data,
                         attrs |-> Named(link.attrs)]
      <4>1. link = [trace |-> link.trace, data |-> link.data, attrs |-> link.attrs]
        BY <3>4, <3>5 DEF IsLink
      <4> QED
        BY <4>1 DEF Bare
    <3>7. what[lists[i][k]] = Arrived(lists[i][k])
      BY <3>3
    <3>8. Arrived(lists[i][k]) = [trace |-> link.trace, data |-> link.data,
                                  attrs |-> Named(link.attrs)]
      BY <3>1, <3>5 DEF LinkRow
    <3> QED
      BY <3>5, <3>6, <3>7, <3>8
  <2> QED
    BY <2>1
<1>27. LinksByID(SpanLinksStoreFrom(W, store), ids[i])
         = ListByID(ListsOf(parents, items), ids[i])
  BY <1>21 DEF LinksByID, SpanLinksStoreFrom
<1> HIDE DEF what, items
<1>28. Same(ListByID(ListsOf(parents, items), ids[i]), children)
  <2>1. i \in 1..n /\ parents = ParentsIn(sorted)
    BY <1>2, <1>18, <1>22 DEF ParentsIn
  <2>2. BareOf(children, what, lists[i])
    BY <1>25, <1>26 DEF BareOf
  <2>3. Collected(a, n, lists) /\ Permuted(sorted, a.rows) /\ List(sorted)
    BY <1>11, <1>17
  <2> QED
    BY ONLY <2>1, <2>2, <2>3, <1>13, <1>14, <1>23, SameItems
<1> QED
  BY <1>16, <1>24, <1>27, <1>28

\* Spans with related data find their events and links, unless one without leads the batch.
LEMMA SpansArrive ==
  ASSUME Inv, Delivered, signal = "traces", NEW i \in DOMAIN sent,
         HasRelatedData(sent[i].entry), HasRelatedData(sent[1].entry)
  PROVE  /\ Same(received[i].events, sent[i].entry.events)
         /\ Same(received[i].links, sent[i].entry.links)
<1>1. PICK n \in Nat : n = Len(sent) /\ DOMAIN sent = 1..n
  <2>1. SentOK(signal, sent)
    BY Delivery
  <2> QED
    BY <2>1, SentRows
<1>2. PICK ids : ids = SpanIds(sent)
  OBVIOUS
<1>3. PICK referred : referred = [j \in 1..n |-> HasRelatedData(sent[j].entry)]
  OBVIOUS
<1>4. ids = SparseIds(referred, MaxUint16) /\ DOMAIN referred = 1..n
  BY <1>1, <1>2, <1>3 DEF SpanIds
<1>5. MaxUint16 \in Nat \ {0}
  BY WidthAssumption DEF WidthAssumption
<1>6. main.ids = Deltas(ids) /\ DOMAIN ids = 1..n /\ ~Panics(ids)
  BY <1>1, <1>2, TracesReceived
<1>7. referred[1] /\ referred[i] /\ i \in 1..n
  BY <1>1, <1>3
<1>8. PICK asked : asked = [j \in DOMAIN main.ids |-> SpanIDFromDelta(main, j)]
  OBVIOUS
<1>9. DOMAIN main.ids = 1..n
  BY <1>6 DEF Deltas
<1>10. \A j \in 1..n : asked[j] = Sum(Deltas(ids), DOMAIN Deltas(ids), j, MaxUint16)
  BY <1>6, <1>8, <1>9 DEF SpanIDFromDelta
<1>11. asked[i] = ids[i] /\ FirstToAsk(asked, i)
  BY <1>4, <1>5, <1>6, <1>7, <1>10, SparseIdsAsked
<1>12. PICK events, links :
         /\ events = SpanEventsStoreFrom(records["SPAN_EVENTS"],
                       Attributes32StoreFrom(records["SPAN_EVENT_ATTRS"]))
         /\ links = SpanLinksStoreFrom(records["SPAN_LINKS"],
                      Attributes32StoreFrom(records["SPAN_LINK_ATTRS"]))
  OBVIOUS
<1>13. /\ received[i].events = MovedEach(EventsByID(events, asked[i]), asked, i)
       /\ received[i].links = MovedEach(LinksByID(links, asked[i]), asked, i)
  <2>1. received = TracesFrom(main, TracesRelatedDataFrom(records))
    BY Delivery DEF Decoded
  <2> QED
    BY <1>7, <1>8, <1>9, <1>12, <2>1 DEF TracesFrom, TracesRelatedDataFrom
<1>14. /\ received[i].events = EventsByID(events, ids[i])
       /\ received[i].links = LinksByID(links, ids[i])
  BY <1>11, <1>13 DEF MovedEach
<1>15. Same(EventsByID(events, ids[i]), sent[i].entry.events)
  BY <1>1, <1>2, <1>7, <1>12, EventsFound
<1>16. Same(LinksByID(links, ids[i]), sent[i].entry.links)
  BY <1>1, <1>2, <1>7, <1>12, LinksFound
<1> QED
  BY <1>14, <1>15, <1>16

\* Data points apart from their exemplars.
PointOf(item) == [data |-> item.data, attrs |-> item.attrs, exemplars |-> <<>>]

\* The items that the store of a kind of data points holds, whatever their exemplars.
PointItems(items, W, store) ==
  /\ List(items) /\ Len(items) = Len(W)
  /\ \A k \in 1..Len(W) :
       /\ items[k] = [data |-> items[k].data, attrs |-> items[k].attrs,
                      exemplars |-> items[k].exemplars]
       /\ items[k].data = W[k].cols.data
       /\ items[k].attrs = AttributesByDeltaID32(store, IdsOf(W), k)

\* What is known of a record of data points that was delivered.
LEMMA PointsDelivered ==
  ASSUME Inv, Delivered, signal = "metrics", NEW ids, ids = DenseIds(sent, MaxUint16),
         NEW t \in PointKinds, NEW a, a = accu[t],
         NEW lists, lists = PointLists(ids, MetricTypes(t)),
         NEW sorted, sorted = SortedOf(t, a.rows), NEW n, n = Len(sent)
  PROVE  /\ Collected(a, n, lists) /\ OwnedBy(n, ids, lists)
         /\ \A i \in 1..n : /\ ids[i] \in 0..MaxUint16 /\ OwnId(i, n, ids, lists)
                            /\ Sum(Deltas(ids), DOMAIN Deltas(ids), i, MaxUint16) = ids[i]
         /\ DPParents(records[t]) = ParentsIn(sorted)
<1>1. /\ SentOK("metrics", sent) /\ main = AppendMetrics(sent)
      /\ t \in Types(signal) \cap Parents
  <2>1. SentOK(signal, sent) /\ main = AppendMain(signal, sent)
    BY Delivery
  <2>2. t \in Types(signal)
    BY MetricsOrder DEF MetricsTypes, PointKinds
  <2> QED
    BY <2>1, <2>2 DEF AppendMain, Parents, PointKinds
<1>2. n \in Nat /\ DOMAIN sent = 1..n /\ List(sent)
  BY <1>1, SentRows DEF SentOK
<1>3. a = main.accu[t]
  <2>1. t \in DOMAIN main.accu
    <3>1. DOMAIN AppendMetrics(sent).accu = {"RESOURCE_ATTRS", "SCOPE_ATTRS"} \cup PointKinds
      BY <1>1, MetricsMain, WidthAssumption DEF WidthAssumption
    <3> QED
      BY <1>1, <3>1
  <2> QED
    BY <2>1, Delivery
<1>4. Collected(a, n, lists)
  BY <1>1, <1>3, MetricsAccus
<1>5. MaxUint16 \in Nat \ {0} /\ MaxUint16 \in Nat
  BY WidthAssumption DEF WidthAssumption
<1>6. ~Panics(ids) /\ DOMAIN ids = 1..n
  BY MetricsReceived
<1>7. PICK referred : referred = [j \in 1..n |-> TRUE]
  OBVIOUS
<1>8. ids = SparseIds(referred, MaxUint16) /\ DOMAIN referred = 1..n
      /\ \A j \in 1..n : referred[j]
  BY <1>2, <1>5, <1>7, DenseIdsAreSparse
<1>9. \A j \in 1..n : ids[j] \in 0..MaxUint16
  <2>1. /\ DOMAIN SparseIds(referred, MaxUint16) = 1..n
        /\ \A k \in 1..n : /\ referred[k] => SparseIds(referred, MaxUint16)[k] \in 0..MaxUint16
                           /\ ~referred[k] => SparseIds(referred, MaxUint16)[k] = Null
    BY ONLY <1>2, <1>5, <1>8, SparseIdsType
  <2> QED
    BY ONLY <1>8, <2>1
<1>10. ASSUME NEW j \in 1..n, NEW k \in 1..Len(lists[j]) PROVE lists[j][k].parent = ids[j]
  <2>1. j \in 1..Len(sent)
    OBVIOUS
  <2>2. CASE sent[j].entry.type \in MetricTypes(t)
    <3>1. /\ lists[j] = PointRows(ids[j], sent[j].entry.dps)
          /\ Len(lists[j]) = Len(sent[j].entry.dps)
      BY <1>1, <2>1, <2>2, PointListsAre
    <3>2. DOMAIN sent[j].entry.dps = 1..Len(lists[j])
      BY <1>1, <2>1, <3>1, SentPoints, ListDomain
    <3>3. lists[j][k] = DPRow(ids[j], sent[j].entry.dps[k])
      BY <3>1, <3>2 DEF PointRows
    <3> QED
      BY <3>3 DEF DPRow
  <2>3. CASE sent[j].entry.type \notin MetricTypes(t)
    <3>1. lists[j] = <<>>
      BY <1>1, <2>1, <2>3, PointListsAre
    <3> QED
      BY <3>1, EmptyIsList
  <2> QED
    BY <2>2, <2>3
<1>11. OwnedBy(n, ids, lists)
  BY <1>10 DEF OwnedBy
<1>12. ASSUME NEW i \in 1..n PROVE OwnId(i, n, ids, lists)
  <2>1. ASSUME NEW j \in 1..n, ids[j] = ids[i] PROVE j = i
    BY <1>2, <1>5, <1>6, <1>8, <2>1, SparseIdsDiffer
  <2> QED
    BY <2>1 DEF OwnId
<1>13. ASSUME NEW i \in 1..n
       PROVE  Sum(Deltas(ids), DOMAIN Deltas(ids), i, MaxUint16) = ids[i]
  <2>1. ids[i] # Null /\ \A j \in 1..n : ids[j] = Null \/ ids[j] \in 0..MaxUint16
    BY <1>5, <1>9 DEF Null
  <2> QED
    BY ONLY <1>2, <1>5, <1>6, <2>1, i \in 1..n, SumFinds
<1>14. /\ List(sorted) /\ Permuted(sorted, a.rows) /\ Accu(a)
       /\ records[t] = ItemRows(t, sorted)
  BY <1>1, ItemsDelivered
<1>15. \A k \in 1..Len(sorted) : sorted[k].parent \in 0..MaxUint16
  <2>1. ASSUME NEW row \in Range(a.rows) PROVE row.parent \in 0..MaxUint16
    <3>1. Among(row, n, lists)
      BY <1>4, CollectedIs
    <3>2. PICK j \in 1..n : row \in Range(lists[j])
      BY <3>1 DEF Among
    <3>3. List(lists[j])
      BY <1>4, CollectedIs
    <3>4. PICK k \in 1..Len(lists[j]) : row = lists[j][k]
      BY <3>2, <3>3, ListRange, ZenonT(60)
    <3> QED
      BY <1>9, <1>10, <3>4
  <2>2. \A k \in 1..Len(sorted) : sorted[k] \in Range(a.rows)
    BY <1>14, PermutedIs DEF Accu
  <2> QED
    BY <2>1, <2>2
<1>16. DPParents(records[t]) = ParentsIn(sorted)
  <2>1. records[t] = WriteRows(sorted, ItemIds(t, sorted),
                               EncodeParents(AnyGroup, ResetSorter(<<>>), sorted, MaxUint16))
    <3>1. t # "SPAN_EVENTS" /\ t # "SPAN_LINKS"
      BY DEF PointKinds
    <3>2. ItemParents(t, sorted) = EncodeParents(AnyGroup, ResetSorter(<<>>), sorted, MaxUint16)
      BY <3>1 DEF ItemParents
    <3> QED
      BY <1>14, <3>2 DEF ItemRows
  <2>2. DecodeParents(AnyGroup, records[t], MaxUint16) = [k \in 1..Len(sorted) |-> sorted[k].parent]
    <3>1. PICK W, other : /\ W = records[t]
                          /\ W = WriteRows(sorted, other,
                                   EncodeParents(AnyGroup, ResetSorter(<<>>), sorted, MaxUint16))
      BY <2>1
    <3>2. List(sorted)
      BY <1>14
    <3>3. DecodeParents(AnyGroup, W, MaxUint16) = [k \in 1..Len(sorted) |-> sorted[k].parent]
      BY ONLY <1>5, <1>15, <3>1, <3>2, PointsBack
    <3> QED
      BY <3>1, <3>3
  <2> QED
    BY <2>2 DEF DPParents, ParentsIn
<1> QED
  BY <1>4, <1>9, <1>11, <1>12, <1>13, <1>16

\* Data points, and lists of them, that are only told apart without their exemplars.
Whole(items) ==
  \A k \in 1..Len(items) :
    items[k] = [data |-> items[k].data, attrs |-> items[k].attrs,
                exemplars |-> items[k].exemplars]

Plain(dps) == [k \in DOMAIN dps |-> NoExemplars(dps[k])]

\* Data points found without their exemplars are those found with them.
LEMMA SamePoints ==
  ASSUME NEW sorted, List(sorted), NEW items, List(items), Len(items) = Len(sorted),
         Whole(items), NEW parents, parents = ParentsIn(sorted),
         NEW bare, bare = [k \in 1..Len(sorted) |-> PointOf(items[k])],
         NEW p, NEW children, Same(ListByID(ListsOf(parents, bare), p), children),
         NEW got, got = ListByID(ListsOf(parents, items), p)
  PROVE  Same(Plain(got), children)
<1>1. PICK n \in Nat : n = Len(sorted)
  BY DEF List
<1>2. PICK places : places = PlacesOf(sorted, p) /\ places \in SUBSET (1..n)
  <2>1. PlacesOf(sorted, p) \in SUBSET (1..n)
    BY <1>1 DEF PlacesOf
  <2> QED
    BY <2>1
<1>3. List(bare) /\ Len(bare) = n
  BY <1>1, ListIs
<1>4. parents = [k \in 1..Len(sorted) |-> sorted[k].parent]
  BY DEF ParentsIn
<1>5. got = Selected(places, items)
  BY <1>2, <1>4, ListByIDIs
<1>6. PICK gotBare : gotBare = Selected(places, bare)
  OBVIOUS
<1>7. ListByID(ListsOf(parents, bare), p) = gotBare
  <2>1. Len(bare) = Len(sorted)
    BY <1>1, <1>3
  <2> QED
    BY <1>2, <1>3, <1>4, <1>6, <2>1, ListByIDIs
<1>8. /\ List(got) /\ Len(got) = Cardinality(places)
      /\ \A x : x \in Range(got) <=> \E k \in places : x = items[k]
  <2>1. places \in SUBSET (1..Len(items))
    BY <1>1, <1>2
  <2> QED
    BY <1>5, <2>1, SelectedIs
<1>9. /\ List(gotBare) /\ Len(gotBare) = Cardinality(places)
      /\ \A x : x \in Range(gotBare) <=> \E k \in places : x = bare[k]
  <2>1. places \in SUBSET (1..Len(bare))
    BY <1>2, <1>3
  <2> QED
    BY ONLY <1>3, <1>6, <2>1, SelectedIs
<1>10. \A k \in places : NoExemplars(items[k]) = bare[k]
  <2>1. ASSUME NEW k \in places PROVE NoExemplars(items[k]) = bare[k]
    <3>1. k \in 1..n
      BY <1>2
    <3>2. PICK item : item = items[k]
      OBVIOUS
    <3>3. item = [data |-> item.data, attrs |-> item.attrs, exemplars |-> item.exemplars]
      BY <1>1, <3>1, <3>2 DEF Whole
    <3>4. NoExemplars(item) = PointOf(item)
      BY <3>3 DEF NoExemplars, PointOf
    <3> QED
      BY <1>1, <3>1, <3>2, <3>4
  <2> QED
    BY <2>1
<1> DEFINE mapped == [k \in DOMAIN got |-> NoExemplars(got[k])]
<1>11. Len(mapped) = Len(gotBare)
  <2>1. DOMAIN mapped = 1..Len(got) /\ Len(got) \in Nat
    BY <1>8, ListDomain DEF List
  <2> HIDE DEF mapped
  <2> QED
    BY <1>8, <1>9, <2>1, LengthOf
<1>12. {mapped[k] : k \in DOMAIN mapped} = {gotBare[k] : k \in DOMAIN gotBare}
  <2>1. {mapped[k] : k \in DOMAIN mapped} = {NoExemplars(x) : x \in Range(got)}
    BY DEF Range
  <2>2. {NoExemplars(x) : x \in Range(got)} = {bare[k] : k \in places}
    <3>1. ASSUME NEW x \in Range(got) PROVE NoExemplars(x) \in {bare[k] : k \in places}
      <4>1. PICK k \in places : x = items[k]
        BY <1>8
      <4> QED
        BY <1>10, <4>1
    <3>2. ASSUME NEW k \in places PROVE bare[k] \in {NoExemplars(x) : x \in Range(got)}
      <4>1. items[k] \in Range(got)
        BY <1>8
      <4> QED
        BY <1>10, <4>1
    <3> QED
      BY ONLY <3>1, <3>2
  <2>3. {gotBare[k] : k \in DOMAIN gotBare} = Range(gotBare)
    BY DEF Range
  <2>4. Range(gotBare) = {bare[k] : k \in places}
    BY <1>9
  <2> QED
    BY <2>1, <2>2, <2>3, <2>4
<1>13. Same(gotBare, children)
  BY <1>7
<1> QED
  BY <1>11, <1>12, <1>13 DEF Same, Plain

\* The data points found under their metric, whatever their exemplars.
LEMMA PointsGathered ==
  ASSUME Inv, Delivered, signal = "metrics", NEW ids, ids = DenseIds(sent, MaxUint16),
         NEW t \in PointKinds, NEW i \in 1..Len(sent), sent[i].entry.type \in MetricTypes(t),
         NEW items, NEW W, W = records[t], NEW store,
         store = Attributes32StoreFrom(records[AttrsOf[t]]), PointItems(items, W, store),
         NEW got, got = ListByID(ListsOf(DPParents(W), items), ids[i]),
         NEW dps, dps = sent[i].entry.dps
  PROVE  Same(Plain(got), Plain(dps))
<1>1. PICK n : n = Len(sent)
  OBVIOUS
<1>2. PICK a, lists : a = accu[t] /\ lists = PointLists(ids, MetricTypes(t))
  OBVIOUS
<1>3. PICK sorted : sorted = SortedOf(t, a.rows)
  OBVIOUS
<1>4. /\ Collected(a, n, lists) /\ OwnedBy(n, ids, lists)
      /\ OwnId(i, n, ids, lists)
      /\ DPParents(W) = ParentsIn(sorted)
  BY <1>1, <1>2, <1>3, PointsDelivered
<1>5. SentOK("metrics", sent) /\ t \in Types(signal) \cap Parents
  <2>1. SentOK(signal, sent)
    BY Delivery
  <2>2. t \in Types(signal)
    BY MetricsOrder DEF MetricsTypes, PointKinds
  <2> QED
    BY <2>1, <2>2 DEF Parents, PointKinds
<1>6. /\ List(sorted) /\ Permuted(sorted, a.rows) /\ Accu(a)
      /\ DOMAIN W = 1..Len(sorted)
      /\ \A k \in 1..Len(sorted) :
           /\ W[k].cols = sorted[k].cols
           /\ AttributesByDeltaID32(store, IdsOf(W), k) = Named(sorted[k].attrs)
  BY <1>2, <1>3, <1>5, ItemsDelivered
<1>7. PICK m \in Nat : m = Len(sorted)
  BY <1>6 DEF List
<1>8. \A k \in 1..m : sorted[k] \in Range(a.rows)
  BY <1>6, <1>7, PermutedIs DEF Accu
<1>9. /\ List(items) /\ Len(items) = m
      /\ \A k \in 1..m :
           /\ items[k] = [data |-> items[k].data, attrs |-> items[k].attrs,
                          exemplars |-> items[k].exemplars]
           /\ items[k].data = sorted[k].cols.data
           /\ items[k].attrs = Named(sorted[k].attrs)
  <2>1. Len(W) = m
    BY <1>6, <1>7, LengthOf
  <2> QED
    BY <1>6, <1>7, <2>1 DEF PointItems
<1> DEFINE Arrived(row) == [data |-> row.cols.data, attrs |-> Named(row.attrs),
                            exemplars |-> <<>>]
           what == [row \in Range(a.rows) |-> Arrived(row)]
           bare == [k \in 1..Len(sorted) |-> PointOf(items[k])]
           children == [k \in DOMAIN dps |-> NoExemplars(dps[k])]
<1>10. MadeOf(bare, what, sorted)
  <2>1. List(bare) /\ Len(bare) = m
    <3>1. bare = [k \in 1..m |-> bare[k]]
      BY <1>7
    <3> HIDE DEF bare
    <3> QED
      BY <3>1, ListIs
  <2>2. ASSUME NEW k \in 1..m PROVE bare[k] = what[sorted[k]]
    <3>1. bare[k] = PointOf(items[k])
      BY <1>7
    <3>2. PointOf(items[k]) = Arrived(sorted[k])
      BY <1>9 DEF PointOf
    <3> QED
      BY <1>8, <3>1, <3>2
  <2> HIDE DEF bare, what
  <2> QED
    BY <1>7, <2>1, <2>2 DEF MadeOf
<1>11. /\ List(lists[i]) /\ lists[i] = PointRows(ids[i], dps) /\ Len(lists[i]) = Len(dps)
       /\ List(dps)
       /\ \A dp \in Range(dps) :
            dp = [data |-> dp.data, attrs |-> dp.attrs, exemplars |-> dp.exemplars]
  BY <1>2, <1>5, PointListsAre, SentPoints
<1>12. DOMAIN dps = 1..Len(dps) /\ Len(dps) \in Nat
  BY <1>11, ListDomain DEF List
<1>13. List(children) /\ Len(children) = Len(dps) /\ DOMAIN children = 1..Len(dps)
  <2>1. children = [k \in 1..Len(dps) |-> children[k]]
    BY <1>12
  <2> HIDE DEF children
  <2> QED
    BY <1>12, <2>1, ListIs
<1>14. ASSUME NEW k \in 1..Len(children) PROVE what[lists[i][k]] = Bare(children[k])
  <2>1. PICK dp : dp = dps[k]
    OBVIOUS
  <2>2. k \in DOMAIN dps /\ k \in 1..Len(lists[i])
    BY <1>11, <1>12, <1>13
  <2>3. lists[i][k] = DPRow(ids[i], dp)
    BY <1>11, <2>1, <2>2 DEF PointRows
  <2>4. lists[i][k] \in Range(a.rows)
    <3>1. lists[i][k] \in Range(lists[i])
      BY <1>11, <2>2, ListRange
    <3>2. Among(lists[i][k], n, lists)
      BY <1>1, <3>1 DEF Among
    <3> QED
      BY <1>4, <3>2, CollectedIs
  <2>5. dp = [data |-> dp.data, attrs |-> dp.attrs, exemplars |-> dp.exemplars]
    <3>1. dp \in Range(dps)
      BY <2>1, <2>2 DEF Range
    <3> QED
      BY <1>11, <3>1
  <2>6. children[k] = [data |-> dp.data, attrs |-> dp.attrs, exemplars |-> <<>>]
    <3>1. children[k] = NoExemplars(dp)
      BY <2>1, <2>2
    <3> QED
      BY <2>5, <3>1 DEF NoExemplars
  <2>7. PICK child : child = children[k]
    BY SMTT(30)
  <2>8. Bare(child) = [data |-> dp.data, attrs |-> Named(dp.attrs), exemplars |-> <<>>]
    <3>1. /\ child = [data |-> child.data, attrs |-> child.attrs,
                      exemplars |-> child.exemplars]
          /\ child.data = dp.data /\ child.attrs = dp.attrs /\ child.exemplars = <<>>
      BY <2>6, <2>7
    <3>2. Bare(child) = [data |-> child.data, attrs |-> Named(child.attrs),
                         exemplars |-> child.exemplars]
      BY <3>1 DEF Bare
    <3> QED
      BY <3>1, <3>2
  <2>9. what[lists[i][k]] = Arrived(lists[i][k])
    BY <2>4
  <2>10. Arrived(lists[i][k]) = [data |-> dp.data, attrs |-> Named(dp.attrs),
                                 exemplars |-> <<>>]
    BY <2>3, SMTT(30) DEF DPRow
  <2> QED
    BY <2>7, <2>8, <2>9, <2>10
<1> HIDE DEF what, children
<1>15. BareOf(children, what, lists[i])
  BY <1>11, <1>13, <1>14 DEF BareOf
<1>16. PICK parents : parents = DPParents(W)
  OBVIOUS
<1>17. PICK plain : plain = bare
  OBVIOUS
<1> HIDE DEF bare
<1>18. Same(ListByID(ListsOf(parents, plain), ids[i]), children)
  <2>1. i \in 1..n /\ parents = ParentsIn(sorted) /\ MadeOf(plain, what, sorted)
    BY <1>1, <1>4, <1>10, <1>16, <1>17
  <2>2. Collected(a, n, lists) /\ OwnedBy(n, ids, lists) /\ OwnId(i, n, ids, lists)
    BY <1>4
  <2>3. Permuted(sorted, a.rows) /\ List(sorted)
    BY <1>6
  <2> QED
    BY ONLY <2>1, <2>2, <2>3, <1>15, SameItems
<1>19. Same(Plain(got), children)
  <2>1. got = ListByID(ListsOf(parents, items), ids[i])
    BY <1>16
  <2>2. List(sorted) /\ List(items) /\ Len(items) = Len(sorted)
    BY <1>6, <1>7, <1>9
  <2>3. Whole(items)
    BY <1>7, <1>9 DEF Whole
  <2>4. plain = [k \in 1..Len(sorted) |-> PointOf(items[k])]
    BY <1>17 DEF bare
  <2>5. parents = ParentsIn(sorted)
    BY <1>4, <1>16
  <2> QED
    BY ONLY <2>1, <2>2, <2>3, <2>4, <2>5, <1>18, SamePoints
<1> QED
  BY <1>19 DEF children, Plain

\* The stores of numbers, histograms and summaries are made of such items.
LEMMA StoresAre ==
  ASSUME NEW n \in Nat, NEW W, DOMAIN W = 1..n, NEW exemplars, NEW store
  PROVE  /\ \E items : /\ PointItems(items, W, store)
                       /\ NumberDataPointsStoreFrom(W, exemplars, store)
                            = ListsOf(DPParents(W), items)
                       /\ HistogramDataPointsStoreFrom(W, exemplars, store)
                            = ListsOf(DPParents(W), items)
         /\ \E items : /\ PointItems(items, W, store)
                       /\ SummaryDataPointsStoreFrom(W, store) = ListsOf(DPParents(W), items)
<1>1. Len(W) = n
  BY LengthOf
<1>2. ASSUME NEW items, items = [k \in 1..n |-> items[k]],
             \A k \in 1..n : /\ items[k] = [data |-> items[k].data, attrs |-> items[k].attrs,
                                            exemplars |-> items[k].exemplars]
                             /\ items[k].data = W[k].cols.data
                             /\ items[k].attrs = AttributesByDeltaID32(store, IdsOf(W), k)
      PROVE  PointItems(items, W, store)
  <2>1. List(items) /\ Len(items) = n
    BY <1>2, ListIs
  <2> QED
    BY <1>1, <1>2, <2>1 DEF PointItems
<1>3. \E items : /\ PointItems(items, W, store)
                 /\ NumberDataPointsStoreFrom(W, exemplars, store)
                      = ListsOf(DPParents(W), items)
                 /\ HistogramDataPointsStoreFrom(W, exemplars, store)
                      = ListsOf(DPParents(W), items)
  <2> DEFINE ids == IdsOf(W)
             items == [k \in DOMAIN W |->
                         [data |-> W[k].cols.data,
                          attrs |-> AttributesByDeltaID32(store, ids, k),
                          exemplars |-> MovedAll(ExemplarsByID(exemplars, ids[k]), ids, k)]]
  <2>1. PointItems(items, W, store)
    <3>1. items = [k \in 1..n |-> items[k]]
      OBVIOUS
    <3>2. \A k \in 1..n : /\ items[k] = [data |-> items[k].data, attrs |-> items[k].attrs,
                                         exemplars |-> items[k].exemplars]
                          /\ items[k].data = W[k].cols.data
                          /\ items[k].attrs = AttributesByDeltaID32(store, IdsOf(W), k)
      OBVIOUS
    <3> HIDE DEF items
    <3> QED
      BY <1>2, <3>1, <3>2
  <2>2. NumberDataPointsStoreFrom(W, exemplars, store) = ListsOf(DPParents(W), items)
    BY DEF NumberDataPointsStoreFrom
  <2>3. HistogramDataPointsStoreFrom(W, exemplars, store) = ListsOf(DPParents(W), items)
    BY DEF HistogramDataPointsStoreFrom
  <2> HIDE DEF items
  <2> QED
    BY <2>1, <2>2, <2>3
<1>4. \E items : /\ PointItems(items, W, store)
                 /\ SummaryDataPointsStoreFrom(W, store) = ListsOf(DPParents(W), items)
  <2> DEFINE items == [k \in DOMAIN W |->
                         [data |-> W[k].cols.data,
                          attrs |-> AttributesByDeltaID32(store, IdsOf(W), k),
                          exemplars |-> <<>>]]
  <2>1. PointItems(items, W, store)
    <3>1. items = [k \in 1..n |-> items[k]]
      OBVIOUS
    <3>2. \A k \in 1..n : /\ items[k] = [data |-> items[k].data, attrs |-> items[k].attrs,
                                         exemplars |-> items[k].exemplars]
                          /\ items[k].data = W[k].cols.data
                          /\ items[k].attrs = AttributesByDeltaID32(store, IdsOf(W), k)
      OBVIOUS
    <3> HIDE DEF items
    <3> QED
      BY <1>2, <3>1, <3>2
  <2>2. SummaryDataPointsStoreFrom(W, store) = ListsOf(DPParents(W), items)
    BY DEF SummaryDataPointsStoreFrom
  <2> HIDE DEF items
  <2> QED
    BY <2>1, <2>2
<1> QED
  BY <1>3, <1>4

\* The ids of data points are their places, and the decoder reads them back.
LEMMA PointIdsBack ==
  ASSUME Inv, Delivered, signal = "metrics", NEW t \in PointKinds, NEW W, W = records[t],
         NEW sorted, sorted = SortedOf(t, accu[t].rows)
  PROVE  /\ List(sorted) /\ DOMAIN W = 1..Len(sorted) /\ Len(sorted) <= MaxUint32 + 1
         /\ \A k \in 1..Len(sorted) :
              /\ IdsOf(W)[k] # Null
              /\ Sum(IdsOf(W), DOMAIN W, k, MaxUint32) = k - 1
<1>1. t \in Types(signal) \cap Parents
  <2>1. t \in Types(signal)
    BY MetricsOrder DEF MetricsTypes, PointKinds
  <2> QED
    BY <2>1 DEF Parents, PointKinds
<1>2. /\ List(sorted) /\ W = ItemRows(t, sorted) /\ DOMAIN W = 1..Len(sorted)
  BY <1>1, ItemsDelivered
<1>3. PICK n \in Nat : n = Len(sorted)
  BY <1>2 DEF List
<1>4. PICK ids : ids = DenseIds(sorted, MaxUint32)
  OBVIOUS
<1>5. ItemIds(t, sorted) = ids
  BY <1>4 DEF ItemIds, DPIds
<1>6. ~Panics(ids)
  BY <1>1, <1>5, Delivery
<1>7. MaxUint32 \in Nat \ {0} /\ MaxUint32 \in Nat
  BY WidthAssumption DEF WidthAssumption
<1>8. PICK referred : referred = [k \in 1..n |-> TRUE]
  OBVIOUS
<1>9. /\ ids = SparseIds(referred, MaxUint32) /\ DOMAIN referred = 1..n
      /\ Subtotals(Referred(referred))[n] = n
  BY <1>2, <1>3, <1>4, <1>7, <1>8, DenseIdsAreSparse
<1>10. n <= MaxUint32 + 1
  <2>1. \A i \in 0..n : Subtotals(Referred(referred))[i] <= MaxUint32 + 1
    BY <1>6, <1>7, <1>9, SparseIdsCount
  <2>2. n \in 0..n
    OBVIOUS
  <2> QED
    BY <1>9, <2>1, <2>2
<1>11. DOMAIN ids = 1..n /\ \A k \in 1..n : ids[k] = k - 1
  <2>1. DOMAIN sorted = 1..n
    BY <1>2, <1>3, ListDomain
  <2>2. DOMAIN ids = 1..n /\ \A k \in 1..n : ids[k] = (k - 1) % (MaxUint32 + 1)
    BY <1>4, <2>1 DEF DenseIds
  <2>3. ASSUME NEW k \in 1..n PROVE (k - 1) % (MaxUint32 + 1) = k - 1
    <3>1. PICK m, x : m = MaxUint32 + 1 /\ x = k - 1
      OBVIOUS
    <3>2. m \in Nat \ {0} /\ x \in 0..(m - 1)
      BY <1>7, <1>10, <3>1
    <3>3. x % m = x
      BY ONLY <3>2, SmallRemainder
    <3> QED
      BY <3>1, <3>3
  <2> QED
    BY <2>2, <2>3
<1>12. DOMAIN W = 1..n /\ IdsOf(W) = Deltas(ids)
  <2>1. W = WriteRows(sorted, ids, ItemParents(t, sorted))
    BY <1>2, <1>5 DEF ItemRows
  <2>2. DOMAIN W = 1..n /\ \A k \in 1..n : W[k].id = Deltas(ids)[k]
    BY <1>2, <1>3, <2>1, WrittenIs
  <2> QED
    BY <1>11, <2>2 DEF IdsOf, Deltas
<1>13. ASSUME NEW k \in 1..n
       PROVE  Deltas(ids)[k] # Null /\ Sum(Deltas(ids), DOMAIN Deltas(ids), k, MaxUint32) = k - 1
  <2>1. \A j \in 1..n : ids[j] = Null \/ ids[j] \in 0..MaxUint32
    BY <1>7, <1>10, <1>11
  <2>2. ids[k] = k - 1 /\ ids[k] # Null
    BY <1>11 DEF Null
  <2>3. DOMAIN ids = 1..n
    BY <1>11
  <2>4. Sum(Deltas(ids), DOMAIN Deltas(ids), k, MaxUint32) = ids[k] /\ Deltas(ids)[k] # Null
    BY ONLY <1>6, <1>7, <2>1, <2>2, <2>3, n \in Nat, k \in 1..n, SumFinds
  <2> QED
    BY <2>2, <2>4
<1>14. DOMAIN Deltas(ids) = DOMAIN W
  BY <1>11, <1>12 DEF Deltas
<1> QED
  BY <1>2, <1>3, <1>10, <1>12, <1>13, <1>14

\* The items hold the exemplars of their places.
ByPlace(items, exemplars, n) ==
  \A k \in 1..n : items[k].exemplars = ExemplarsByID(exemplars, k - 1)

\* So is the store of exponential histograms, whose exemplars are found by place.
LEMMA EHistogramStoreIs ==
  ASSUME Inv, Delivered, signal = "metrics", NEW W, W = records["EXP_HISTOGRAM_DATA_POINTS"],
         NEW exemplars, NEW store, NEW n, n = Len(W)
  PROVE  \E items : /\ PointItems(items, W, store)
                    /\ EHistogramDataPointsStoreFrom(W, exemplars, store)
                         = ListsOf(DPParents(W), items)
                    /\ ByPlace(items, exemplars, n)
<1>1. PICK t : t = "EXP_HISTOGRAM_DATA_POINTS"
  OBVIOUS
<1>2. t \in PointKinds
  BY <1>1 DEF PointKinds
<1>3. PICK sorted : sorted = SortedOf(t, accu[t].rows)
  OBVIOUS
<1>4. /\ List(sorted) /\ DOMAIN W = 1..Len(sorted)
      /\ \A k \in 1..Len(sorted) :
           /\ IdsOf(W)[k] # Null
           /\ Sum(IdsOf(W), DOMAIN W, k, MaxUint32) = k - 1
  BY <1>1, <1>2, <1>3, PointIdsBack
<1>5. n \in Nat /\ DOMAIN W = 1..n /\ n = Len(sorted)
  <2>1. Len(sorted) \in Nat
    BY <1>4 DEF List
  <2>2. Len(W) = Len(sorted)
    BY <1>4, <2>1, LengthOf
  <2> QED
    BY <1>4, <2>1, <2>2
<1>6. \A k \in 1..n : IdsOf(W)[k] # Null /\ Sum(IdsOf(W), DOMAIN W, k, MaxUint32) = k - 1
  BY <1>4, <1>5
<1> DEFINE ids == [k \in DOMAIN W |-> Sum(IdsOf(W), DOMAIN W, k, MaxUint32)]
           items == [k \in DOMAIN W |->
                       [data |-> W[k].cols.data,
                        attrs |-> AttributesByID32(store, ids[k]),
                        exemplars |-> MovedAll(ExemplarsByID(exemplars, ids[k]), ids, k)]]
<1>7. EHistogramDataPointsStoreFrom(W, exemplars, store) = ListsOf(DPParents(W), items)
  BY DEF EHistogramDataPointsStoreFrom
<1>8. \A k \in 1..n : ids[k] = k - 1
  BY <1>5, <1>6
<1>9. DOMAIN IdsOf(W) = DOMAIN W
  BY DEF IdsOf
<1>10. ASSUME NEW k \in 1..n
       PROVE  /\ items[k] = [data |-> items[k].data, attrs |-> items[k].attrs,
                             exemplars |-> items[k].exemplars]
              /\ items[k].data = W[k].cols.data
              /\ items[k].attrs = AttributesByDeltaID32(store, IdsOf(W), k)
              /\ items[k].exemplars = ExemplarsByID(exemplars, k - 1)
  <2>1. items[k] = [data |-> W[k].cols.data, attrs |-> AttributesByID32(store, ids[k]),
                    exemplars |-> MovedAll(ExemplarsByID(exemplars, ids[k]), ids, k)]
    BY <1>5
  <2>2. AttributesByDeltaID32(store, IdsOf(W), k) = AttributesByID32(store, ids[k])
    BY <1>5, <1>6, <1>9 DEF AttributesByDeltaID32
  <2>3. FirstToAsk(ids, k)
    BY <1>5, <1>8 DEF FirstToAsk
  <2>4. ids[k] = k - 1
    BY <1>8
  <2> HIDE DEF ids
  <2>5. MovedAll(ExemplarsByID(exemplars, ids[k]), ids, k) = ExemplarsByID(exemplars, k - 1)
    BY <2>3, <2>4 DEF MovedAll
  <2> HIDE DEF items
  <2> QED
    BY <2>1, <2>2, <2>5
<1>11. items = [k \in 1..n |-> items[k]]
  BY <1>5
<1> HIDE DEF items
<1>12. PointItems(items, W, store)
  <2>1. List(items) /\ Len(items) = n
    BY <1>5, <1>11, ListIs
  <2> QED
    BY <1>10, <2>1 DEF PointItems
<1> QED
  BY <1>7, <1>10, <1>12 DEF ByPlace

\* What a delivered metric holds: the points found under its id in the store of its kind.
LEMMA PointsReceived ==
  ASSUME Inv, Delivered, signal = "metrics", NEW ids, ids = DenseIds(sent, MaxUint16),
         NEW r, r = MetricsRelatedDataFrom(records), NEW i \in 1..Len(sent)
  PROVE  LET type == sent[i].entry.type IN
         /\ type \in {Gauge, SumMetric} => received[i].dps = ListByID(r.numbers, ids[i])
         /\ type = Summary => received[i].dps = ListByID(r.summaries, ids[i])
         /\ type = Histogram => received[i].dps = ListByID(r.histograms, ids[i])
         /\ type = ExponentialHistogram => received[i].dps = ListByID(r.ehistograms, ids[i])
         /\ type \notin {Gauge, SumMetric, Histogram, ExponentialHistogram, Summary}
              => received[i].dps = <<>>
<1>1. /\ main.ids = Deltas(ids) /\ DOMAIN ids = 1..Len(sent) /\ DOMAIN sent = 1..Len(sent)
  BY MetricsReceived
<1>2. received = MetricsFrom(main, r) /\ main = AppendMetrics(sent)
  BY Delivery, SMTT(30) DEF Decoded, AppendMain
<1>3. main.data[i].type = sent[i].entry.type
  BY <1>1, <1>2 DEF AppendMetrics
<1>4. MetricIDFromDelta(main, i) = ids[i]
  <2>1. PICK lists : lists = PointLists(ids, MetricTypes("SUMMARY_DATA_POINTS"))
    OBVIOUS
  <2>2. PICK n, a, sorted, t : /\ n = Len(sent) /\ t = "SUMMARY_DATA_POINTS" /\ a = accu[t]
                               /\ sorted = SortedOf(t, a.rows)
    OBVIOUS
  <2>3. t \in PointKinds /\ lists = PointLists(ids, MetricTypes(t))
    BY <2>1, <2>2 DEF PointKinds
  <2>4. \A j \in 1..n : Sum(Deltas(ids), DOMAIN Deltas(ids), j, MaxUint16) = ids[j]
    BY <2>2, <2>3, PointsDelivered
  <2>5. Sum(Deltas(ids), DOMAIN Deltas(ids), i, MaxUint16) = ids[i]
    BY <2>2, <2>4
  <2> QED
    BY <1>1, <2>5 DEF MetricIDFromDelta
<1>5. i \in DOMAIN main.ids
  BY <1>1 DEF Deltas
<1>6. PICK type, id : type = sent[i].entry.type /\ id = ids[i]
  OBVIOUS
<1>7. received[i].dps =
        CASE type \in {Gauge, SumMetric} -> NumberDataPointsByID(r.numbers, id)
          [] type = Summary -> SummaryMetricsByID(r.summaries, id)
          [] type = Histogram -> HistogramMetricsByID(r.histograms, id)
          [] type = ExponentialHistogram -> EHistogramMetricsByID(r.ehistograms, id)
          [] OTHER -> <<>>
  BY <1>2, <1>3, <1>4, <1>5, <1>6 DEF MetricsFrom
<1>8. /\ Gauge = 1 /\ SumMetric = 2 /\ Histogram = 3 /\ ExponentialHistogram = 4 /\ Summary = 5
  BY DEF Gauge, SumMetric, Histogram, ExponentialHistogram, Summary
<1>9. type \in {Gauge, SumMetric} => received[i].dps = ListByID(r.numbers, id)
  BY <1>7, <1>8 DEF NumberDataPointsByID
<1>10. type = Summary => received[i].dps = ListByID(r.summaries, id)
  BY <1>7, <1>8 DEF SummaryMetricsByID
<1>11. type = Histogram => received[i].dps = ListByID(r.histograms, id)
  BY <1>7, <1>8 DEF HistogramMetricsByID
<1>12. type = ExponentialHistogram => received[i].dps = ListByID(r.ehistograms, id)
  BY <1>7, <1>8 DEF EHistogramMetricsByID
<1>13. type \notin {Gauge, SumMetric, Histogram, ExponentialHistogram, Summary}
         => received[i].dps = <<>>
  BY <1>7
<1> QED
  BY <1>6, <1>9, <1>10, <1>11, <1>12, <1>13

\* Every metric finds its data points.
LEMMA MetricsArrive ==
  ASSUME Inv, Delivered, signal = "metrics", NEW i \in 1..Len(sent)
  PROVE  Same(Plain(received[i].dps), Plain(sent[i].entry.dps))
<1>1. PICK ids, r, dps, type :
        /\ ids = DenseIds(sent, MaxUint16) /\ r = MetricsRelatedDataFrom(records)
        /\ dps = sent[i].entry.dps /\ type = sent[i].entry.type
  OBVIOUS
<1>2. ASSUME NEW t \in PointKinds, type \in MetricTypes(t), NEW items, NEW W, W = records[t],
             NEW store, store = Attributes32StoreFrom(records[AttrsOf[t]]),
             PointItems(items, W, store),
             received[i].dps = ListByID(ListsOf(DPParents(W), items), ids[i])
      PROVE  Same(Plain(received[i].dps), Plain(dps))
  <2>1. sent[i].entry.type \in MetricTypes(t)
    BY <1>1, <1>2
  <2>2. PICK got : got = ListByID(ListsOf(DPParents(W), items), ids[i])
    OBVIOUS
  <2>3. Same(Plain(got), Plain(dps))
    BY <1>1, <1>2, <2>1, <2>2, PointsGathered
  <2> QED
    BY <1>2, <2>2, <2>3
<1>3. ASSUME NEW t \in PointKinds
      PROVE  \E n \in Nat : DOMAIN records[t] = 1..n
  <2>1. PICK sorted, W : W = records[t] /\ sorted = SortedOf(t, accu[t].rows)
    OBVIOUS
  <2>2. List(sorted) /\ DOMAIN W = 1..Len(sorted)
    BY <2>1, PointIdsBack
  <2> QED
    BY <2>1, <2>2 DEF List
<1>4. /\ AttrsOf["NUMBER_DATA_POINTS"] = "NUMBER_DP_ATTRS"
      /\ AttrsOf["SUMMARY_DATA_POINTS"] = "SUMMARY_DP_ATTRS"
      /\ AttrsOf["HISTOGRAM_DATA_POINTS"] = "HISTOGRAM_DP_ATTRS"
      /\ AttrsOf["EXP_HISTOGRAM_DATA_POINTS"] = "EXP_HISTOGRAM_DP_ATTRS"
  BY DEF AttrsOf
<1>5. /\ MetricTypes("NUMBER_DATA_POINTS") = {Gauge, SumMetric}
      /\ MetricTypes("SUMMARY_DATA_POINTS") = {Summary}
      /\ MetricTypes("HISTOGRAM_DATA_POINTS") = {Histogram}
      /\ MetricTypes("EXP_HISTOGRAM_DATA_POINTS") = {ExponentialHistogram}
  BY DEF MetricTypes
<1>6. CASE type \in {Gauge, SumMetric}
  <2>1. PICK t, W, store : /\ t = "NUMBER_DATA_POINTS" /\ W = records[t]
                           /\ store = Attributes32StoreFrom(records[AttrsOf[t]])
    OBVIOUS
  <2>2. t \in PointKinds /\ type \in MetricTypes(t)
    BY <1>5, <1>6, <2>1 DEF PointKinds
  <2>3. PICK exemplars : r.numbers = NumberDataPointsStoreFrom(W, exemplars, store)
    BY <1>1, <1>4, <2>1 DEF MetricsRelatedDataFrom
  <2>4. PICK n \in Nat : DOMAIN W = 1..n
    BY <1>3, <2>1, <2>2
  <2>5. PICK items : /\ PointItems(items, W, store)
                     /\ NumberDataPointsStoreFrom(W, exemplars, store)
                          = ListsOf(DPParents(W), items)
    BY <2>4, StoresAre
  <2>6. received[i].dps = ListByID(r.numbers, ids[i])
    BY <1>1, <1>6, PointsReceived
  <2>7. received[i].dps = ListByID(ListsOf(DPParents(W), items), ids[i])
    BY <2>3, <2>5, <2>6
  <2> QED
    BY <1>1, <1>2, <2>1, <2>2, <2>5, <2>7
<1>7. CASE type = Summary
  <2>1. PICK t, W, store : /\ t = "SUMMARY_DATA_POINTS" /\ W = records[t]
                           /\ store = Attributes32StoreFrom(records[AttrsOf[t]])
    OBVIOUS
  <2>2. t \in PointKinds /\ type \in MetricTypes(t)
    BY <1>5, <1>7, <2>1 DEF PointKinds
  <2>3. r.summaries = SummaryDataPointsStoreFrom(W, store)
    BY <1>1, <1>4, <2>1 DEF MetricsRelatedDataFrom
  <2>4. PICK n \in Nat : DOMAIN W = 1..n
    BY <1>3, <2>1, <2>2
  <2>5. PICK items : /\ PointItems(items, W, store)
                     /\ SummaryDataPointsStoreFrom(W, store) = ListsOf(DPParents(W), items)
    BY <2>4, StoresAre
  <2>6. received[i].dps = ListByID(r.summaries, ids[i])
    BY <1>1, <1>7, PointsReceived, ZenonT(30)
  <2>7. received[i].dps = ListByID(ListsOf(DPParents(W), items), ids[i])
    BY <2>3, <2>5, <2>6
  <2> QED
    BY <1>1, <1>2, <2>1, <2>2, <2>5, <2>7
<1>8. CASE type = Histogram
  <2>1. PICK t, W, store : /\ t = "HISTOGRAM_DATA_POINTS" /\ W = records[t]
                           /\ store = Attributes32StoreFrom(records[AttrsOf[t]])
    OBVIOUS
  <2>2. t \in PointKinds /\ type \in MetricTypes(t)
    BY <1>5, <1>8, <2>1 DEF PointKinds
  <2>3. PICK exemplars : r.histograms = HistogramDataPointsStoreFrom(W, exemplars, store)
    BY <1>1, <1>4, <2>1 DEF MetricsRelatedDataFrom
  <2>4. PICK n \in Nat : DOMAIN W = 1..n
    BY <1>3, <2>1, <2>2
  <2>5. PICK items : /\ PointItems(items, W, store)
                     /\ HistogramDataPointsStoreFrom(W, exemplars, store)
                          = ListsOf(DPParents(W), items)
    BY <2>4, StoresAre
  <2>6. received[i].dps = ListByID(r.histograms, ids[i])
    BY <1>1, <1>8, PointsReceived, ZenonT(30)
  <2>7. received[i].dps = ListByID(ListsOf(DPParents(W), items), ids[i])
    BY <2>3, <2>5, <2>6
  <2> QED
    BY <1>1, <1>2, <2>1, <2>2, <2>5, <2>7
<1>9. CASE type = ExponentialHistogram
  <2>1. PICK t, W, store : /\ t = "EXP_HISTOGRAM_DATA_POINTS" /\ W = records[t]
                           /\ store = Attributes32StoreFrom(records[AttrsOf[t]])
    OBVIOUS
  <2>2. t \in PointKinds /\ type \in MetricTypes(t)
    BY <1>5, <1>9, <2>1 DEF PointKinds
  <2>3. PICK exemplars : r.ehistograms = EHistogramDataPointsStoreFrom(W, exemplars, store)
    BY <1>1, <1>4, <2>1 DEF MetricsRelatedDataFrom
  <2>4. PICK n : n = Len(W)
    OBVIOUS
  <2>5. PICK items : /\ PointItems(items, W, store)
                     /\ EHistogramDataPointsStoreFrom(W, exemplars, store)
                          = ListsOf(DPParents(W), items)
                     /\ ByPlace(items, exemplars, n)
    BY <2>1, <2>4, EHistogramStoreIs
  <2>6. received[i].dps = ListByID(r.ehistograms, ids[i])
    BY <1>1, <1>9, PointsReceived, ZenonT(30)
  <2>7. received[i].dps = ListByID(ListsOf(DPParents(W), items), ids[i])
    BY <2>3, <2>5, <2>6
  <2> QED
    BY <1>1, <1>2, <2>1, <2>2, <2>5, <2>7
<1>10. CASE type \notin {Gauge, SumMetric, Histogram, ExponentialHistogram, Summary}
  <2>1. received[i].dps = <<>>
    BY <1>1, <1>10, PointsReceived
  <2>2. dps = <<>>
    <3>1. SentOK("metrics", sent)
      BY Delivery
    <3>2. IsEntry("metrics", sent[i].entry)
      BY <3>1, SentRows DEF RowOK
    <3>3. PICK metric : metric = sent[i].entry
      OBVIOUS
    <3>4. IsMetric(metric)
      BY <3>2, <3>3 DEF IsEntry
    <3> QED
      BY <1>1, <1>10, <3>3, <3>4 DEF IsMetric
  <2>3. Plain(<<>>) = <<>>
    BY DEF Plain
  <2>4. Same(<<>>, <<>>)
    BY DEF Same
  <2> QED
    BY <1>1, <2>1, <2>2, <2>3, <2>4
<1>11. type \in {Gauge, SumMetric} \/ type = Summary \/ type = Histogram
       \/ type = ExponentialHistogram
       \/ type \notin {Gauge, SumMetric, Histogram, ExponentialHistogram, Summary}
  OBVIOUS
<1> QED
  BY <1>1, <1>6, <1>7, <1>8, <1>9, <1>10, <1>11

\* Exemplars without a value lead the rows of a record, whatever comes after.
LEMMA EmptyLeads ==
  ASSUME NEW rows, List(rows),
         \A row \in Range(rows) :
           /\ row.cols.value[1] \in Nat
           /\ row.cols.value[1] = EmptyType => row.cols.value = <<EmptyType, 0>>,
         NEW sorted, sorted = SortRows(ExemplarLess, rows)
  PROVE  \A k \in 2..Len(sorted) : sorted[k].cols.value[1] = EmptyType
                                     => sorted[k - 1].cols.value = sorted[k].cols.value
<1>1. PICK n \in Nat : n = Len(rows) /\ DOMAIN rows = 1..n
  BY ListDomain DEF List
<1>2. PICK before :
        before = {p \in (DOMAIN rows) \X (DOMAIN rows) : ExemplarLess(rows[p[1]], rows[p[2]])}
  OBVIOUS
<1>3. sorted = Sorted(before, rows)
  BY <1>2 DEF SortRows
<1>4. PICK E : E = {j \in 1..n : rows[j].cols.value[1] = EmptyType}
  OBVIOUS
<1>5. \A j \in 1..n :
        /\ rows[j].cols.value[1] \in Nat
        /\ rows[j].cols.value[1] = EmptyType => rows[j].cols.value = <<EmptyType, 0>>
  <2>1. \A j \in 1..n : rows[j] \in Range(rows)
    BY <1>1, ListRange
  <2> QED
    BY <2>1
<1>6. ASSUME NEW i \in 1..n, NEW x \in 1..n
      PROVE  /\ <<i, x>> \in before => x \notin E
             /\ i \in E /\ <<i, x>> \notin before => x \in E
  <2>1. PICK a, b, u, v : a = rows[i] /\ b = rows[x] /\ u = a.cols.value /\ v = b.cols.value
    OBVIOUS
  <2>2. u[1] \in Nat /\ v[1] \in Nat /\ EmptyType = 0
    BY <1>5, <2>1 DEF EmptyType
  <2>3. <<i, x>> \in before <=> ExemplarLess(a, b)
    BY <1>1, <1>2, <2>1
  <2>4. (i \in E <=> u[1] = EmptyType) /\ (x \in E <=> v[1] = EmptyType)
    BY <1>4, <2>1
  <2>5. SameType(u, v) <=> u[1] = v[1]
    BY DEF SameType
  <2>8. ~SameType(u, v) => (ExemplarLess(a, b) <=> u[1] < v[1])
    BY <2>1 DEF ExemplarLess
  <2>9. SameType(u, v) => (ExemplarLess(a, b) => u[1] # EmptyType)
    BY <2>1 DEF ExemplarLess
  <2>6. ExemplarLess(a, b) => v[1] # EmptyType
    BY <2>2, <2>5, <2>8, <2>9
  <2>7. u[1] = EmptyType /\ ~ExemplarLess(a, b) => v[1] = EmptyType
    BY <2>2, <2>5, <2>8, <2>9
  <2> QED
    BY <2>3, <2>4, <2>6, <2>7
<1>7. First(E, before, Len(rows))
  BY <1>1, <1>6 DEF First
<1>8. PICK order : /\ Permutes(order, Len(rows)) /\ Leads(E, order, Len(rows))
                   /\ sorted = [k \in 1..Len(rows) |-> rows[order[k]]]
  BY <1>3, <1>7, SortedLeads
<1>9. Len(sorted) = n
  BY <1>1, <1>8
<1>10. ASSUME NEW k \in 2..n, sorted[k].cols.value[1] = EmptyType
       PROVE  sorted[k - 1].cols.value = sorted[k].cols.value
  <2>1. k \in 1..n /\ k - 1 \in 1..n
    OBVIOUS
  <2>2. order[k] \in 1..n /\ order[k - 1] \in 1..n
    BY <1>1, <1>8, <2>1 DEF Permutes
  <2>3. sorted[k] = rows[order[k]] /\ sorted[k - 1] = rows[order[k - 1]]
    BY <1>1, <1>8, <2>1
  <2>4. order[k] \in E
    BY <1>4, <1>10, <2>2, <2>3
  <2>5. order[k - 1] \in E
    BY <1>1, <1>8, <2>4 DEF Leads
  <2>6. rows[order[k - 1]].cols.value[1] = EmptyType
    BY <1>4, <2>5
  <2>7. /\ rows[order[k - 1]].cols.value = <<EmptyType, 0>>
        /\ rows[order[k]].cols.value = <<EmptyType, 0>>
    BY <1>5, <1>10, <2>2, <2>3, <2>6
  <2> QED
    BY <2>3, <2>7
<1> QED
  BY <1>9, <1>10

\* The exemplars found under the place of an exponential histogram's data point.
LEMMA ExemplarsFound ==
  ASSUME Inv, Delivered, signal = "metrics",
         NEW points, points = SortedOf("EXP_HISTOGRAM_DATA_POINTS",
                                       accu["EXP_HISTOGRAM_DATA_POINTS"].rows),
         NEW q \in 1..Len(points), NEW store,
         store = ExemplarsStoreFrom(records["EXP_HISTOGRAM_DP_EXEMPLARS"],
                   Attributes32StoreFrom(records["EXP_HISTOGRAM_DP_EXEMPLAR_ATTRS"]))
  PROVE  Range(ExemplarsByID(store, q - 1)) = {Bare(x) : x \in Range(points[q].exemplars)}
<1>1. PICK p, t : p = "EXP_HISTOGRAM_DATA_POINTS" /\ t = "EXP_HISTOGRAM_DP_EXEMPLARS"
  OBVIOUS
<1>2. /\ p \in PointKinds /\ p \in Types(signal) \cap Points /\ p \in Types(signal) \cap Parents
      /\ t \in Types(signal) \cap Parents /\ t \notin PointKinds
      /\ t # "SPAN_EVENTS" /\ t # "SPAN_LINKS"
      /\ ExemplarsOf[p] = t /\ AttrsOf[t] = "EXP_HISTOGRAM_DP_EXEMPLAR_ATTRS"
  <2>1. p \in Types(signal) /\ t \in Types(signal)
    BY <1>1, MetricsOrder DEF MetricsTypes
  <2>2. ExemplarsOf[p] = t
    BY <1>1 DEF ExemplarsOf
  <2>3. AttrsOf[t] = "EXP_HISTOGRAM_DP_EXEMPLAR_ATTRS"
    BY <1>1 DEF AttrsOf
  <2> QED
    BY <1>1, <2>1, <2>2, <2>3 DEF PointKinds, Points, Parents
<1>3. PICK a, sorted, W, attrs : /\ a = accu[t] /\ sorted = SortedOf(t, a.rows)
                                 /\ W = records[t]
                                 /\ attrs = Attributes32StoreFrom(records[AttrsOf[t]])
  OBVIOUS
<1>4. /\ List(sorted) /\ Permuted(sorted, a.rows) /\ Accu(a)
      /\ W = ItemRows(t, sorted) /\ DOMAIN W = 1..Len(sorted)
      /\ \A k \in 1..Len(sorted) :
           /\ W[k].cols = sorted[k].cols
           /\ AttributesByDeltaID32(attrs, IdsOf(W), k) = Named(sorted[k].attrs)
  BY <1>2, <1>3, ItemsDelivered
<1>5. PICK m \in Nat : m = Len(sorted)
  BY <1>4 DEF List
<1>6. Range(sorted) = Range(a.rows) /\ List(a.rows)
  BY <1>4, PermutedIs DEF Accu
<1>7. /\ List(points) /\ Len(points) <= MaxUint32 + 1 /\ Len(points) \in Nat
      /\ \A k \in 1..Len(points) : /\ List(points[k].exemplars)
                                   /\ \A x \in Range(points[k].exemplars) : IsExemplar(x)
  <2>1. List(points) /\ Len(points) <= MaxUint32 + 1
    <3>1. PICK V : V = records[p]
      OBVIOUS
    <3>2. points = SortedOf(p, accu[p].rows)
      BY <1>1
    <3> QED
      BY <1>2, <3>1, <3>2, PointIdsBack
  <2>2. AccuOK(p, accu[p])
    BY <1>2 DEF Inv
  <2>3. PointsOK(points)
    BY <1>1, <1>2, <2>2, PointsSorted
  <2>4. \A k \in 1..Len(points) : points[k] \in Range(points)
    BY <2>1, ListRange
  <2>5. "NUMBER_DATA_POINTS" \in Points
    BY DEF Points
  <2> QED
    BY <2>1, <2>3, <2>4, <2>5 DEF PointsOK, ItemOK, List
<1>8. \A row : row \in Range(a.rows) <=> FromPoints(row, points)
  <2>1. ExemplarsOK(p) /\ p \in Done
    BY <1>2, Delivery
  <2>2. /\ \A row \in Range(a.rows) : FromPoints(row, points)
        /\ \A k \in 1..Len(points) : \A x \in Range(points[k].exemplars) :
             ExemplarRow(k - 1, x) \in Range(a.rows)
    BY <1>1, <1>2, <1>3, <2>1 DEF ExemplarsOK
  <2> QED
    BY <2>2, ZenonT(30) DEF FromPoints
<1>9. ASSUME NEW row \in Range(a.rows)
      PROVE  /\ row.parent \in 0..MaxUint32
             /\ row.cols.value[1] \in Nat
             /\ row.cols.value[1] = EmptyType => row.cols.value = <<EmptyType, 0>>
  <2>0. PICK k \in 1..Len(points) :
          \E x \in Range(points[k].exemplars) : row = ExemplarRow(k - 1, x)
    <3>1. FromPoints(row, points)
      BY <1>8
    <3> QED
      BY <3>1 DEF FromPoints
  <2>1. PICK x \in Range(points[k].exemplars) : row = ExemplarRow(k - 1, x)
    BY <2>0
  <2>2. row.parent = k - 1 /\ row.cols.value = x.value
    BY <2>1 DEF ExemplarRow
  <2>3. IsExemplar(x)
    BY <1>7, <2>1
  <2>4. MaxUint32 \in Nat
    BY WidthAssumption DEF WidthAssumption
  <2>5. row.parent \in 0..MaxUint32
    BY <1>7, <2>2, <2>4
  <2>6. x.value[1] \in Nat /\ (x.value[1] = EmptyType => x.value = <<EmptyType, 0>>)
    BY <2>3 DEF IsExemplar
  <2> QED
    BY <2>2, <2>5, <2>6
<1>10. PICK parents : parents = DecodeParents(DecodedSameValue, W, MaxUint32)
  OBVIOUS
<1>11. parents = [k \in 1..m |-> sorted[k].parent]
  <2>1. W = WriteRows(sorted, ItemIds(t, sorted),
                      EncodeParents(EqualExemplar, ResetSorter(<<>>), sorted, MaxUint32))
    BY <1>2, <1>4 DEF ItemRows, ItemParents
  <2>2. PICK other : W = WriteRows(sorted, other,
                       EncodeParents(EqualExemplar, ResetSorter(<<>>), sorted, MaxUint32))
    BY <2>1
  <2>3. \A k \in 1..Len(sorted) : sorted[k].parent \in 0..MaxUint32
    <3>1. \A k \in 1..Len(sorted) : sorted[k] \in Range(a.rows)
      BY <1>4, PermutedIs DEF Accu
    <3> QED
      BY <1>9, <3>1
  <2>4. \A k \in 2..Len(sorted) : sorted[k].cols.value[1] = EmptyType
                                    => sorted[k - 1].cols.value = sorted[k].cols.value
    <3>1. sorted = SortRows(ExemplarLess, a.rows)
      BY <1>2, <1>3 DEF SortedOf
    <3> QED
      BY <1>6, <1>9, <3>1, EmptyLeads
  <2>5. MaxUint32 \in Nat
    BY WidthAssumption DEF WidthAssumption
  <2> QED
    BY <1>4, <1>5, <1>10, <2>2, <2>3, <2>4, <2>5, ValuesBack
<1> DEFINE items == [k \in DOMAIN W |->
                       [value |-> W[k].cols.value, data |-> W[k].cols.data,
                        attrs |-> AttributesByDeltaID32(attrs, IdsOf(W), k)]]
<1>12. store = ListsOf(parents, items)
  BY <1>1, <1>2, <1>3, <1>10 DEF ExemplarsStoreFrom
<1>13. \A k \in 1..m : items[k] = [value |-> sorted[k].cols.value, data |-> sorted[k].cols.data,
                                   attrs |-> Named(sorted[k].attrs)]
  BY <1>4, <1>5
<1>14. List(items) /\ Len(items) = m
  <2>1. items = [k \in 1..m |-> items[k]]
    BY <1>4, <1>5
  <2> HIDE DEF items
  <2> QED
    BY <2>1, ListIs
<1> HIDE DEF items
<1>15. PICK places : places = PlacesOf(sorted, q - 1)
  OBVIOUS
<1>16. ExemplarsByID(store, q - 1) = Selected(places, items)
  <2>1. List(items) /\ Len(items) = Len(sorted)
        /\ parents = [k \in 1..Len(sorted) |-> sorted[k].parent]
    BY <1>5, <1>11, <1>14
  <2>2. ListByID(ListsOf(parents, items), q - 1) = Selected(PlacesOf(sorted, q - 1), items)
    BY <1>4, <2>1, ListByIDIs
  <2> QED
    BY <1>12, <1>15, <2>2 DEF ExemplarsByID
<1>17. \A x : x \in Range(Selected(places, items)) <=> \E k \in places : x = items[k]
  <2>1. places \in SUBSET (1..Len(items))
    BY <1>5, <1>14, <1>15 DEF PlacesOf
  <2> QED
    BY <1>14, <2>1, SelectedIs
<1>18. ASSUME NEW x, IsExemplar(x)
       PROVE  Bare(x) = [value |-> x.value, data |-> x.data, attrs |-> Named(x.attrs)]
  <2>1. x = [value |-> x.value, data |-> x.data, attrs |-> x.attrs]
    BY <1>18 DEF IsExemplar
  <2> QED
    BY <2>1 DEF Bare
<1>19. ASSUME NEW k \in places
       PROVE  \E x \in Range(points[q].exemplars) : items[k] = Bare(x)
  <2>1. k \in 1..m /\ sorted[k].parent = q - 1
    BY <1>5, <1>15 DEF PlacesOf
  <2>2. sorted[k] \in Range(a.rows)
    BY <1>4, <1>5, <2>1, PermutedIs DEF Accu
  <2>0. PICK j \in 1..Len(points) :
          \E x \in Range(points[j].exemplars) : sorted[k] = ExemplarRow(j - 1, x)
    <3>1. FromPoints(sorted[k], points)
      BY <1>8, <2>2
    <3> QED
      BY <3>1 DEF FromPoints
  <2>3. PICK x \in Range(points[j].exemplars) : sorted[k] = ExemplarRow(j - 1, x)
    BY <2>0
  <2>4. /\ sorted[k].parent = j - 1 /\ sorted[k].attrs = x.attrs
        /\ sorted[k].cols.value = x.value /\ sorted[k].cols.data = x.data
    BY <2>3 DEF ExemplarRow
  <2>5. j = q
    <3>1. j \in Int /\ q \in Int
      BY <1>7
    <3> QED
      BY <2>1, <2>4, <3>1
  <2>6. IsExemplar(x) /\ x \in Range(points[q].exemplars)
    BY <1>7, <2>3, <2>5
  <2>7. Bare(x) = [value |-> x.value, data |-> x.data, attrs |-> Named(x.attrs)]
    BY <1>18, <2>6
  <2>8. items[k] = Bare(x)
    BY <1>13, <2>1, <2>4, <2>7
  <2> QED
    BY <2>6, <2>8
<1>20. ASSUME NEW x \in Range(points[q].exemplars)
       PROVE  \E k \in places : items[k] = Bare(x)
  <2>1. ExemplarRow(q - 1, x) \in Range(sorted)
    BY <1>6, <1>8 DEF FromPoints
  <2>2. PICK k \in 1..m : sorted[k] = ExemplarRow(q - 1, x)
    BY <1>4, <1>5, <2>1, ListRange
  <2>3. /\ sorted[k].parent = q - 1 /\ sorted[k].attrs = x.attrs
        /\ sorted[k].cols.value = x.value /\ sorted[k].cols.data = x.data
    BY <2>2 DEF ExemplarRow
  <2>4. k \in places
    BY <1>5, <1>15, <2>3 DEF PlacesOf
  <2>5. Bare(x) = [value |-> x.value, data |-> x.data, attrs |-> Named(x.attrs)]
    BY <1>7, <1>18
  <2>6. items[k] = Bare(x)
    BY <1>13, <2>3, <2>5
  <2> QED
    BY <2>4, <2>6
<1>21. \A y : y \in Range(Selected(places, items))
                <=> \E x \in Range(points[q].exemplars) : y = Bare(x)
  BY <1>17, <1>19, <1>20
<1> QED
  BY <1>16, <1>21

\* One of the data points that arrived is this one, with its exemplars.
FoundWith(got, dp) ==
  \E n \in DOMAIN got :
    /\ got[n].data = dp.data
    /\ Range(got[n].exemplars) = {Bare(dp.exemplars[j]) : j \in DOMAIN dp.exemplars}

\* Every data point of an exponential histogram finds its exemplars.
LEMMA EHistogramsArrive ==
  ASSUME Inv, Delivered, signal = "metrics", NEW i \in 1..Len(sent),
         sent[i].entry.type = ExponentialHistogram,
         NEW dps, dps = sent[i].entry.dps, NEW k \in DOMAIN dps
  PROVE  FoundWith(received[i].dps, dps[k])
<1>1. PICK ids, r, t : /\ ids = DenseIds(sent, MaxUint16)
                       /\ r = MetricsRelatedDataFrom(records)
                       /\ t = "EXP_HISTOGRAM_DATA_POINTS"
  OBVIOUS
<1>2. PICK a, lists, W : /\ a = accu[t] /\ lists = PointLists(ids, MetricTypes(t))
                         /\ W = records[t]
  OBVIOUS
<1>3. PICK points, n : points = SortedOf(t, a.rows) /\ n = Len(sent)
  OBVIOUS
<1>4. /\ t \in PointKinds /\ t \in Types(signal) \cap Parents
      /\ MetricTypes(t) = {ExponentialHistogram} /\ AttrsOf[t] = "EXP_HISTOGRAM_DP_ATTRS"
  <2>1. t \in Types(signal)
    BY <1>1, MetricsOrder DEF MetricsTypes
  <2>2. AttrsOf[t] = "EXP_HISTOGRAM_DP_ATTRS"
    BY <1>1 DEF AttrsOf
  <2>3. MetricTypes(t) = {ExponentialHistogram}
    BY <1>1 DEF MetricTypes
  <2> QED
    BY <1>1, <2>1, <2>2, <2>3 DEF PointKinds, Parents
<1>5. /\ Collected(a, n, lists) /\ OwnedBy(n, ids, lists)
      /\ OwnId(i, n, ids, lists)
      /\ DPParents(W) = ParentsIn(points)
  BY <1>1, <1>2, <1>3, <1>4, PointsDelivered
<1>6. /\ List(points) /\ Permuted(points, a.rows) /\ DOMAIN W = 1..Len(points)
      /\ \A q \in 1..Len(points) : W[q].cols = points[q].cols
  BY <1>2, <1>3, <1>4, ItemsDelivered
<1>7. PICK m \in Nat : m = Len(points) /\ Len(W) = m
  <2>1. Len(points) \in Nat
    BY <1>6 DEF List
  <2> QED
    BY <1>6, <2>1, LengthOf
<1>8. PICK exemplars, store :
        /\ exemplars = ExemplarsStoreFrom(records["EXP_HISTOGRAM_DP_EXEMPLARS"],
                         Attributes32StoreFrom(records["EXP_HISTOGRAM_DP_EXEMPLAR_ATTRS"]))
        /\ store = Attributes32StoreFrom(records["EXP_HISTOGRAM_DP_ATTRS"])
  OBVIOUS
<1>9. r.ehistograms = EHistogramDataPointsStoreFrom(W, exemplars, store)
  BY <1>1, <1>2, <1>8 DEF MetricsRelatedDataFrom
<1>10. PICK items : /\ PointItems(items, W, store)
                    /\ EHistogramDataPointsStoreFrom(W, exemplars, store)
                         = ListsOf(DPParents(W), items)
                    /\ ByPlace(items, exemplars, m)
  <2>1. W = records["EXP_HISTOGRAM_DATA_POINTS"] /\ m = Len(W)
    BY <1>1, <1>2, <1>7
  <2> QED
    BY <2>1, EHistogramStoreIs
<1>11. PICK got : got = received[i].dps
  OBVIOUS
<1>12. got = Selected(PlacesOf(points, ids[i]), items) /\ List(items) /\ Len(items) = m
  <2>1. got = ListByID(r.ehistograms, ids[i])
    BY <1>1, <1>11, PointsReceived
  <2>2. List(items) /\ Len(items) = m
    BY <1>7, <1>10 DEF PointItems
  <2>3. PICK parents : parents = DPParents(W)
    OBVIOUS
  <2>4. parents = [q \in 1..Len(points) |-> points[q].parent] /\ Len(items) = Len(points)
    BY <1>5, <1>7, <2>2, <2>3 DEF ParentsIn
  <2>5. ListByID(ListsOf(parents, items), ids[i]) = Selected(PlacesOf(points, ids[i]), items)
    BY <1>6, <2>2, <2>4, ListByIDIs
  <2> QED
    BY <1>9, <1>10, <2>1, <2>2, <2>3, <2>5
<1>13. PICK places : places = PlacesOf(points, ids[i])
  OBVIOUS
<1>14. /\ List(got)
       /\ \A x : x \in Range(got) <=> \E q \in places : x = items[q]
  <2>1. places \in SUBSET (1..Len(items))
    BY <1>7, <1>12, <1>13 DEF PlacesOf
  <2> QED
    BY <1>12, <1>13, <2>1, SelectedIs
<1>15. SentOK("metrics", sent)
  BY Delivery
<1>16. /\ List(dps) /\ List(lists[i]) /\ Len(lists[i]) = Len(dps)
       /\ lists[i] = PointRows(ids[i], dps)
       /\ \A dp \in Range(dps) : List(dp.exemplars)
  <2>1. sent[i].entry.type \in MetricTypes(t)
    BY <1>4
  <2> QED
    BY <1>2, <1>15, <2>1, PointListsAre, SentPoints
<1>17. PICK dp : dp = dps[k] /\ dp \in Range(dps)
  BY DEF Range
<1>18. DPRow(ids[i], dp) \in Range(lists[i])
  <2>1. lists[i][k] = DPRow(ids[i], dp)
    BY <1>16, <1>17 DEF PointRows
  <2>2. k \in 1..Len(lists[i])
    BY <1>16, ListDomain
  <2> QED
    BY <1>16, <2>1, <2>2, ListRange
<1>19. PICK q \in places : points[q] = DPRow(ids[i], dp)
  <2>1. \A x : (\E p \in PlacesOf(points, ids[i]) : x = points[p]) <=> x \in Range(lists[i])
    <3>1. i \in 1..n
      BY <1>3
    <3> QED
      BY ONLY <1>5, <1>6, <3>1, ListFound
  <2> QED
    BY <1>13, <1>18, <2>1
<1>20. q \in 1..m
  BY <1>7, <1>13, <1>19 DEF PlacesOf
<1>21. items[q].data = dp.data
  <2>1. items[q].data = W[q].cols.data
    BY <1>7, <1>10, <1>20 DEF PointItems
  <2>2. W[q].cols = points[q].cols
    BY <1>6, <1>7, <1>20
  <2> QED
    BY <1>19, <2>1, <2>2 DEF DPRow
<1>22. Range(items[q].exemplars) = {Bare(x) : x \in Range(dp.exemplars)}
  <2>1. items[q].exemplars = ExemplarsByID(exemplars, q - 1)
    BY <1>10, <1>20 DEF ByPlace
  <2>2. Range(ExemplarsByID(exemplars, q - 1)) = {Bare(x) : x \in Range(points[q].exemplars)}
    <3>1. points = SortedOf("EXP_HISTOGRAM_DATA_POINTS", accu["EXP_HISTOGRAM_DATA_POINTS"].rows)
      BY <1>1, <1>2, <1>3
    <3>2. q \in 1..Len(points)
      BY <1>7, <1>20
    <3> QED
      BY <1>8, <3>1, <3>2, ExemplarsFound
  <2>3. points[q].exemplars = dp.exemplars
    BY <1>19 DEF DPRow
  <2> QED
    BY <2>1, <2>2, <2>3
<1>23. {Bare(x) : x \in Range(dp.exemplars)}
         = {Bare(dps[k].exemplars[j]) : j \in DOMAIN dps[k].exemplars}
  BY <1>17 DEF Range
<1>24. PICK p \in DOMAIN got : got[p] = items[q]
  <2>1. items[q] \in Range(got)
    BY <1>14, <1>19
  <2> QED
    BY <2>1 DEF Range
<1> QED
  BY <1>11, <1>17, <1>21, <1>22, <1>23, <1>24 DEF FoundWith

\* ItemsFindTheirOwner: what the related records carry is found under its owner again.
THEOREM ItemsArrive == Spec => []ItemsFindTheirOwner
<1>1. ASSUME Inv PROVE SpansHaveTheirChildren
  <2> SUFFICES ASSUME Delivered, signal = "traces", sent # <<>>, HasRelatedData(Row(1)),
                      NEW i \in {j \in DOMAIN sent : HasRelatedData(Row(j))}
               PROVE  /\ Same(received[i].events, Row(i).events)
                      /\ Same(received[i].links, Row(i).links)
    BY DEF SpansHaveTheirChildren
  <2>1. /\ i \in DOMAIN sent /\ HasRelatedData(sent[i].entry)
        /\ HasRelatedData(sent[1].entry)
    BY DEF Row
  <2> QED
    BY <1>1, <2>1, SpansArrive DEF Row
<1>2. ASSUME Inv PROVE MetricsHaveTheirPoints
  <2> SUFFICES ASSUME Delivered, signal = "metrics", NEW i \in DOMAIN sent
               PROVE  Same(Plain(received[i].dps), Plain(sent[i].entry.dps))
    BY DEF MetricsHaveTheirPoints, Plain, Row
  <2>1. i \in 1..Len(sent)
    <3>1. SentOK(signal, sent)
      BY <1>2, Delivery
    <3> QED
      BY <3>1, SentRows
  <2> QED
    BY <1>2, <2>1, MetricsArrive
<1>3. ASSUME Inv PROVE EHistogramsHaveTheirExemplars
  <2> SUFFICES ASSUME Delivered, signal = "metrics",
                      NEW i \in {j \in DOMAIN sent : Row(j).type = ExponentialHistogram},
                      NEW k \in DOMAIN Row(i).dps
               PROVE  FoundWith(received[i].dps, Row(i).dps[k])
    BY DEF EHistogramsHaveTheirExemplars, FoundWith
  <2>1. i \in 1..Len(sent) /\ sent[i].entry.type = ExponentialHistogram
    <3>1. SentOK(signal, sent)
      BY <1>3, Delivery
    <3> QED
      BY <3>1, SentRows DEF Row
  <2>2. PICK dps : dps = sent[i].entry.dps
    OBVIOUS
  <2>3. k \in DOMAIN dps
    BY <2>2 DEF Row
  <2>4. FoundWith(received[i].dps, dps[k])
    BY <1>3, <2>1, <2>2, <2>3, EHistogramsArrive
  <2> QED
    BY <2>2, <2>4 DEF Row
<1>4. Inv => ItemsFindTheirOwner
  BY <1>1, <1>2, <1>3 DEF ItemsFindTheirOwner
<1> QED
  BY <1>4, Invariant, PTL
=============================================================================
