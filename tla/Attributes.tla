----------------------------- MODULE Attributes -----------------------------
(***************************************************************************)
(* Attribute values, the accumulators and records of attributes, and the   *)
(* stores the decoder keeps them in (pkg/otel/common/arrow/attributes*.go, *)
(* pkg/otel/common/otlp/attributes_new.go).                                *)
(*                                                                         *)
(* A value is a pair <<type, content>>; the attributes of an entity are a  *)
(* sequence of pairs <<key, value>>, or a set once they are decoded.       *)
(***************************************************************************)
EXTENDS RelatedRecords

\* The numbers of pcommon's value types.
EmptyType == 0
MapType == 5
SliceType == 6

\* The key "".
EmptyKey == 0

-----------------------------------------------------------------------------
(***************************************************************************)
(* Values.                                                                 *)
(***************************************************************************)

SameType(a, b) == a[1] = b[1]

\* Maps, slices and empty values equal nothing, not even themselves.
Equal(a, b) == a[1] \notin {EmptyType, MapType, SliceType} /\ a = b

Compare(a, b) ==
  IF a[1] \in {EmptyType, MapType, SliceType} \/ a[1] # b[1] THEN 1
  ELSE a[2] - b[2]

\* The text of a value in an identifier: its content, without its type.
ValueID(v) == v[2]

\* Sorted by key, and closed by a brace, which sorts after the letters.
AttributesId(attrs) ==
  LET sorted == SortRows(LAMBDA a, b : a[1] < b[1], attrs)
  IN  FlattenSeq([k \in DOMAIN sorted |->
                    <<sorted[k][1], ValueID(sorted[k][2])>>]) \o <<99>>

-----------------------------------------------------------------------------
(***************************************************************************)
(* Accumulators: the rows to come and the number of entities that added    *)
(* some, which must stay below the maximum.  What one entity adds has the  *)
(* same shape.                                                             *)
(***************************************************************************)

NewAccumulator == [rows |-> <<>>, groups |-> 0]

Joined(accu, added) ==
  [rows |-> accu.rows \o added.rows, groups |-> accu.groups + added.groups]

\* An accumulator after all of these were added.
Filled(accu, added) ==
  LET filled[n \in 0..Len(added)] ==
        IF n = 0 THEN accu ELSE Joined(filled[n - 1], added[n])
  IN  filled[Len(added)]

AttrRow(parent, attr) ==
  [parent |-> parent, cols |-> [key |-> attr[1], value |-> attr[2]]]

Group(rows) == [rows |-> rows, groups |-> IF rows = <<>> THEN 0 ELSE 1]

\* Resources and scopes: the id is the number of groups so far.
AppendGroup(ID, attrs) == Group([k \in DOMAIN attrs |-> AttrRow(ID, attrs[k])])

AppendedId(ID, attrs) == IF attrs = <<>> THEN Null ELSE ID

\* Mutant: no key is skipped.
AppendAllWithID(parent, attrs) == AppendGroup(parent, attrs)

\* Entries with an empty key are skipped, but make a group.
AppendWithID(parent, attrs) ==
  LET kept == Selected({k \in DOMAIN attrs : attrs[k][1] # EmptyKey}, attrs)
  IN  [rows |-> [k \in DOMAIN kept |-> AttrRow(parent, kept[k])],
       groups |-> IF attrs = <<>> THEN 0 ELSE 1]

\* The same with ids of 32 bits.
Append32(ID, attrs) == AppendWithID(ID, attrs)

TooManyGroups16(accu) == accu.groups > MaxUint16

TooManyGroups32(accu) == accu.groups > MaxUint32

-----------------------------------------------------------------------------
(***************************************************************************)
(* Attribute records, sorted by type, key, value and parent.               *)
(***************************************************************************)

KeyValueParentLess(a, b) ==
  LET u == a.cols.value
      v == b.cols.value
  IN  IF ~SameType(u, v) THEN u[1] < v[1]
      ELSE IF a.cols.key # b.cols.key THEN a.cols.key < b.cols.key
      ELSE IF Compare(u, v) = 0 THEN a.parent < b.parent
      ELSE Compare(u, v) < 0

KeyValueParentLess32(a, b) == KeyValueParentLess(a, b)

SameKeyValue(a, b) ==
  a.cols.key = b.cols.key /\ Equal(a.cols.value, b.cols.value)

SameKeyValue32(a, b) == SameKeyValue(a, b)

\* The columns of the value stay empty for a value of no type: they end up
\* shorter than the others, and building the record panics.
NoColumn(rows) == \E k \in DOMAIN rows : rows[k].cols.value[1] = EmptyType

\* Mutant: the sorter remembers all rows.
RememberAll(prev, rows) == prev \o rows

\* What a sorter remembers after a record.
Remembered(prev, rows) == IF rows = <<>> THEN prev ELSE <<Last(rows)>>

\* One try to build the record of an accumulator: its rows, and the sorter.
TryBuildAttrs16(accu, prev) ==
  LET sorted == SortRows(KeyValueParentLess, accu.rows)
      parents == EncodeParents(SameKeyValue, ResetSorter(prev), sorted, MaxUint16)
  IN  [rows   |-> WriteRows(sorted, [k \in DOMAIN sorted |-> Null], parents),
       prev   |-> Remembered(prev, sorted),
       panics |-> NoColumn(sorted)]

TryBuildAttrs32(accu, prev) ==
  LET sorted == SortRows(KeyValueParentLess32, accu.rows)
      parents == EncodeParents(SameKeyValue32, ResetSorter(prev), sorted, MaxUint32)
  IN  [rows   |-> WriteRows(sorted, [k \in DOMAIN sorted |-> Null], parents),
       prev   |-> Remembered(prev, sorted),
       panics |-> NoColumn(sorted)]

-----------------------------------------------------------------------------
(***************************************************************************)
(* Stores: the attributes of each parent id.                               *)
(***************************************************************************)

\* How the decoders tell groups.
DecodedSameKeyValue(a, b) ==
  a.cols.key = b.cols.key /\ Equal(a.cols.value, b.cols.value)

DecodedSameKeyValue32(a, b) == DecodedSameKeyValue(a, b)

StoreOf(rows, parents) ==
  [p \in Range(parents) |->
     {<<rows[k].cols.key, rows[k].cols.value>> : k \in {j \in DOMAIN rows : parents[j] = p}}]

\* The decoders compare the first row too, with the key "" and a value that is
\* nil: a first row with an empty key makes them look into that value, and panic.
NilValue(rows) == rows # <<>> /\ rows[1].cols.key = EmptyKey

Attributes16StoreFrom(rows) ==
  StoreOf(rows, DecodeParents(DecodedSameKeyValue, rows, MaxUint16))

Attributes32StoreFrom(rows) ==
  StoreOf(rows, DecodeParents(DecodedSameKeyValue32, rows, MaxUint32))

AttributesByID(store, ID) == IF ID \in DOMAIN store THEN store[ID] ELSE {}

AttributesByID32(store, ID) == AttributesByID(store, ID)

\* Asked with the ids of an id column, row by row; a null asks for nothing.
AttributesByDeltaID(store, deltas, i) ==
  IF deltas[i] = Null THEN {}
  ELSE AttributesByID(store, Sum(deltas, DOMAIN deltas, i, MaxUint16))

AttributesByDeltaID32(store, deltas, i) ==
  IF deltas[i] = Null THEN {}
  ELSE AttributesByID32(store, Sum(deltas, DOMAIN deltas, i, MaxUint32))

\* What should arrive of an entity's attributes.
Named(attrs) == {attr \in Range(attrs) : attr[1] # EmptyKey}

-----------------------------------------------------------------------------
(***************************************************************************)
(* Records of entities that have attributes of their own.  A try to build  *)
(* one empties the accumulator of those attributes and fills it again.     *)
(***************************************************************************)

\* Mutant: the attributes of an earlier try stay.
KeepAccumulator(accu) == accu

ResetAccumulator(accu) == NewAccumulator

AccumulateAttrs(accu, rows, ids) ==
  Filled(ResetAccumulator(accu), [k \in DOMAIN rows |-> Append32(ids[k], rows[k].attrs)])

\* One try to build the record of an accumulator: its rows, what the sorter
\* remembers and the attributes.
TryBuild(Less(_, _), SameGroup(_, _), Ids(_), max, accu, prev, attrs) ==
  LET sorted == SortRows(Less, accu.rows)
      ids == Ids(sorted)
      parents == EncodeParents(SameGroup, ResetSorter(prev), sorted, max)
      children == AccumulateAttrs(attrs, sorted, ids)
  IN  [rows   |-> WriteRows(sorted, ids, parents),
       prev   |-> Remembered(prev, sorted),
       attrs  |-> children,
       panics |-> Panics(ids) \/ TooManyGroups32(children)]

\* Only rows with attributes get an id.
IdsIfAttrs(rows) ==
  SparseIds([k \in DOMAIN rows |-> rows[k].attrs # <<>>], MaxUint32)
=============================================================================
