--------------------------- MODULE RelatedRecords ---------------------------
(***************************************************************************)
(* How a record and the records related to it refer to each other: rows    *)
(* are sorted, numbered, and their ids and parent ids are written as       *)
(* differences (pkg/otel/common/arrow, pkg/otel/common/schema/builder,     *)
(* pkg/arrow).                                                             *)
(*                                                                         *)
(* A row to be written has a parent, columns (cols) and possibly related   *)
(* data; a written one has an id, a parent and columns.  An absent id is   *)
(* Null.  Ids wrap at the width of their column.                           *)
(***************************************************************************)
EXTENDS Integers, SequencesExt

CONSTANTS
  MaxUint16,  \* math.MaxUint16
  MaxUint32   \* math.MaxUint32

Null == -1

\* Typed reads of a column: a null reads as zero, unless the reader asks for
\* a pointer.
OrZero(id) == IF id = Null THEN 0 ELSE id

\* The totals of the first n values.
Subtotals(values) ==
  LET total[n \in 0..Len(values)] ==
        IF n = 0 THEN 0 ELSE total[n - 1] + values[n]
  IN  total

\* The items at some places, in their order.
Selected(places, items) ==
  LET list[n \in 0..Len(items)] ==
        IF n = 0 THEN <<>>
        ELSE IF n \in places THEN Append(list[n - 1], items[n]) ELSE list[n - 1]
  IN  list[Len(items)]

\* sort.Slice: insertion sort up to 12 rows, and so stable.  before holds the
\* pairs of places whose rows are one less than the other.
Insert(before, sorted, i) ==
  LET place == Max({j \in 0..Len(sorted) : j = 0 \/ <<i, sorted[j]>> \notin before})
  IN  InsertAt(sorted, place + 1, i)

SortOrder(before, n) ==
  LET sorted[m \in 0..n] ==
        IF m = 0 THEN <<>> ELSE Insert(before, sorted[m - 1], m)
  IN  sorted[n]

Sorted(before, rows) ==
  LET order == SortOrder(before, Len(rows)) IN [k \in DOMAIN rows |-> rows[order[k]]]

SortRows(Less(_, _), rows) ==
  Sorted({p \in (DOMAIN rows) \X (DOMAIN rows) : Less(rows[p[1]], rows[p[2]])}, rows)

\* The order of strings.
StringLess(s, t) ==
  \E k \in 1..Len(t) :
    /\ k <= Len(s) + 1
    /\ SubSeq(s, 1, k - 1) = SubSeq(t, 1, k - 1)
    /\ k <= Len(s) => s[k] < t[k]

\* A run of equal keys starts at a head.
Heads(keys) == {i \in DOMAIN keys : i = 1 \/ keys[i] # keys[i - 1]}

HeadOf(keys, i) == Max({h \in Heads(keys) : h <= i})

-----------------------------------------------------------------------------
(***************************************************************************)
(* Ids.  Rows that nothing refers to have no id; the others are numbered   *)
(* from 0.  The builder of an id column writes differences and panics when *)
(* one is negative or above its maximum of 1.                              *)
(***************************************************************************)

SparseIds(referred, max) ==
  LET before == Subtotals([i \in DOMAIN referred |-> IF referred[i] THEN 1 ELSE 0])
  IN  [i \in DOMAIN referred |->
         IF referred[i] THEN before[i - 1] % (max + 1) ELSE Null]

DenseIds(rows, max) == [i \in DOMAIN rows |-> (i - 1) % (max + 1)]

\* The builder's prev when row i comes.
PrevId(ids, i) ==
  LET before == {j \in 1..(i - 1) : ids[j] # Null}
  IN  IF before = {} THEN 0 ELSE ids[Max(before)]

Step(ids, i) == IF i = 1 THEN ids[i] ELSE ids[i] - PrevId(ids, i)

Deltas(ids) ==
  [i \in DOMAIN ids |-> IF ids[i] = Null THEN Null ELSE Step(ids, i)]

Panics(ids) ==
  \E i \in DOMAIN ids : i > 1 /\ ids[i] # Null /\ Step(ids, i) \notin 0..1

\* The accumulated differences of some of the rows up to i.
Sum(deltas, rows, i, max) ==
  Subtotals([j \in DOMAIN deltas |-> IF j \in rows THEN OrZero(deltas[j]) ELSE 0])[i]
    % (max + 1)

-----------------------------------------------------------------------------
(***************************************************************************)
(* Parent ids.  A sorter remembers the row it encoded last (prev: empty    *)
(* after Reset) and writes the difference to it when the next is in the    *)
(* same group; the decoder finds the groups again from the columns.        *)
(***************************************************************************)

ResetSorter(prev) == <<>>

EncodeParents(SameGroup(_, _), prev, rows, max) ==
  LET seen == prev \o rows
      n == Len(prev)
  IN  [i \in DOMAIN rows |->
         IF i + n > 1 /\ SameGroup(seen[i + n - 1], rows[i])
         THEN (rows[i].parent - seen[i + n - 1].parent) % (max + 1)
         ELSE rows[i].parent]

\* The parents of rows of which some continue the group before.
ParentsOf(continues, rows, max) ==
  LET parent[i \in 0..Len(rows)] ==
        IF i = 0 THEN Null
        ELSE IF i \in continues
        THEN (parent[i - 1] + rows[i].parent) % (max + 1)
        ELSE rows[i].parent
  IN  [i \in DOMAIN rows |-> parent[i]]

\* Nothing is before the first row.  The decoders that compare it with zeros
\* then add to a parent of zero, which is the same; those of attributes panic
\* instead (NilValue in Attributes).
DecodeParents(SameGroup(_, _), rows, max) ==
  ParentsOf({i \in DOMAIN rows : i > 1 /\ SameGroup(rows[i - 1], rows[i])}, rows, max)

\* The rows of a record: ids and parents as written.
WriteRows(rows, ids, parents) ==
  [i \in DOMAIN rows |->
     [id |-> Deltas(ids)[i], parent |-> parents[i], cols |-> rows[i].cols]]

IdsOf(rows) == [i \in DOMAIN rows |-> rows[i].id]

-----------------------------------------------------------------------------
(***************************************************************************)
(* The lists a decoder keeps by parent id.                                 *)
(***************************************************************************)

ListsOf(parents, items) ==
  [p \in Range(parents) |-> Selected({i \in DOMAIN items : parents[i] = p}, items)]

ListByID(lists, ID) == IF ID \in DOMAIN lists THEN lists[ID] ELSE <<>>

\* Reading moves the items: only the first row to ask for an id gets them.
\* Later ones get blanks, if they move item by item, or nothing.
Blank == [blank |-> TRUE]

FirstToAsk(asked, i) == \A j \in 1..(i - 1) : asked[j] # asked[i]

MovedEach(list, asked, i) ==
  IF FirstToAsk(asked, i) THEN list ELSE [k \in DOMAIN list |-> Blank]

MovedAll(list, asked, i) == IF FirstToAsk(asked, i) THEN list ELSE <<>>
=============================================================================
