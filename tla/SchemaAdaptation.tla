------------------------- MODULE SchemaAdaptation -------------------------
(***************************************************************************)
(* How the encoder adapts the schema of one payload type to the data: the  *)
(* transformation tree (pkg/otel/common/schema), RecordBuilderExt and the  *)
(* column builders (schema/builder), and the loop that builds a record     *)
(* again after a schema update (recordBuilder of the producer, Build of    *)
(* the related records).                                                   *)
(*                                                                         *)
(* Optional columns are left out until a row has a value for them; a       *)
(* dictionary column gets wider indices, and in the end none, as the       *)
(* dictionary grows.  Either kind of change voids the record being built.  *)
(* A row gives each field of the prototype a value or NoValue.  The        *)
(* totals that only ShowSchema displays are left out.                      *)
(***************************************************************************)
EXTENDS Naturals, Sequences, FiniteSets

CONSTANTS
  Field,         \* fields of the prototype schema, nested ones included
  Path,          \* field -> the field itself and those it is nested in
  Optional,      \* fields marked #optional
  Dictionary,    \* fields marked #dictionary
  Value,         \* what a dictionary column may hold
  Present,       \* what any other column holds, structs and lists included
  NoValue,       \* null
  IndexMaxCard,  \* index type -> the largest cardinality it is used for
  MinCard,       \* dictionary field -> cardinality of its first index type
  MaxCard,       \* Dictionary.MaxCard of the configuration, 0 for none
  MaxRows        \* bound: rows of a record

ASSUME SchemaAssumption ==
  /\ Path \in [Field -> SUBSET Field]
  /\ \A f \in Field : f \in Path[f]
  /\ Optional \subseteq Field /\ Dictionary \subseteq Field
  /\ Present \notin Value /\ NoValue \notin Value \cup {Present} \cup Nat
  /\ IndexMaxCard \in Seq(Nat) /\ IndexMaxCard # <<>>
  /\ MinCard \in [Dictionary -> Nat] /\ MaxCard \in Nat
  /\ MaxRows \in Nat \ {0}

VARIABLES
  optional,   \* fields whose NoField transform is still in the tree
  index,      \* dictionary field -> its index type, 0 for the value type
  pending,    \* whether updateRequest.Count() is not 0
  columns,    \* fields of the record builder's schema
  width,      \* dictionary field -> its index type in the builder's schema
  memo,       \* dictionary field -> values of the builder's dictionary
  rows,       \* rows in the record builder
  pc,         \* where the retry loop is
  entity,     \* the rows to encode
  next,       \* the row to append next
  updates,    \* schemaNotUpToDateCount
  record      \* the record that was built, NoRecord while there is none

treeVars == <<optional, index>>
builderVars == <<columns, width, memo, rows>>
loopVars == <<pc, entity, next, updates, record>>
vars == <<treeVars, pending, builderVars, loopVars>>

-----------------------------------------------------------------------------

\* A value is only there inside a struct or list that is.
Row == {row \in [Field -> Value \cup {Present, NoValue}] :
          \A f \in Field :
            /\ row[f] \in {NoValue} \cup (IF f \in Dictionary THEN Value ELSE {Present})
            /\ row[f] # NoValue => \A g \in Path[f] : row[g] # NoValue}

Entity == UNION {[1..n -> Row] : n \in 1..MaxRows}

NoRecord == [rows |-> <<>>, columns |-> {}, width |-> <<>>, memo |-> <<>>]

IndexType == 1..Len(IndexMaxCard)

\* findIndex: the last index type takes what the others do not.
FindIndex(card) ==
  LET enough == {i \in IndexType : card <= IndexMaxCard[i]} IN
  IF enough = {} THEN Len(IndexMaxCard)
  ELSE CHOOSE i \in enough : \A j \in enough : i <= j

WidestIndex == FindIndex(MaxCard)

\* NewDictionaryFrom and initIndices.
FirstIndex(f) ==
  IF MaxCard = 0 THEN 0
  ELSE FindIndex(IF MaxCard < MinCard[f] THEN MaxCard ELSE MinCard[f])

\* NewFieldFrom: a removed field takes the fields nested in it along.
ColumnsUnder(removed) == {f \in Field : Path[f] \cap removed = {}}

\* A fresh record builder, whose dictionaries are empty.
EmptyMemo == [f \in Dictionary |-> <<>>]

Init ==
  /\ optional = Optional
  /\ index = [f \in Dictionary |-> FirstIndex(f)]
  /\ pending = FALSE
  /\ columns = ColumnsUnder(Optional)
  /\ width = [f \in Dictionary |-> FirstIndex(f)]
  /\ memo = EmptyMemo
  /\ rows = <<>>
  /\ pc = "idle"
  /\ entity = <<>>
  /\ next = 1
  /\ updates = 0
  /\ record = NoRecord

-----------------------------------------------------------------------------

\* A new batch for the payload type.
Start ==
  /\ pc = "idle"
  /\ entity' \in Entity
  /\ pc' = "append"
  /\ next' = 1
  /\ updates' = 0
  /\ record' = NoRecord
  /\ UNCHANGED <<treeVars, pending, builderVars>>

\* Fields that are dictionary columns of the record builder.
Encoded == {f \in Dictionary \cap columns : width[f] # 0}

\* The dictionary after value v was looked up or added.
Memoized(dictionary, v) ==
  IF v = NoValue \/ \E i \in 1..Len(dictionary) : dictionary[i] = v THEN dictionary
  ELSE Append(dictionary, v)

\* The index of v, as many bits as the index type has.
IndexOf(f, dictionary, v) ==
  ((CHOOSE i \in 1..Len(dictionary) : dictionary[i] = v) - 1)
    % (IndexMaxCard[width[f]] + 1)

\* What the row leaves in each column.
Cells(row, dictionaries) ==
  [f \in Field |->
     IF f \notin columns \/ row[f] = NoValue THEN NoValue
     ELSE IF f \in Encoded THEN IndexOf(f, dictionaries[f], row[f])
     ELSE row[f]]

\* Mutant: only the outermost missing fields are noticed.
OutermostMissing(row) ==
  {f \in Field \ columns : row[f] # NoValue /\ Path[f] \ columns = {f}}

\* Fields the row has a value for and no column.  Their builders are nil; the
\* appenders of nested fields are called all the same.
Missing(row) == {f \in Field \ columns : row[f] # NoValue}

\* RemoveOptional.
Revealed(fields) == optional \ fields

\* One row through every column builder.
AppendRow ==
  LET row == entity[next]
      grown == [f \in Dictionary |->
                  IF f \in Encoded THEN Memoized(memo[f], row[f]) ELSE memo[f]]
  IN
  /\ pc = "append"
  /\ next <= Len(entity)
  /\ optional' = Revealed(Missing(row))
  /\ pending' = (pending \/ Missing(row) # {})
  /\ memo' = grown
  /\ rows' = Append(rows, Cells(row, grown))
  /\ next' = next + 1
  /\ UNCHANGED <<index, columns, width, pc, entity, updates, record>>

\* The panic of recordBuilder: "This shouldn't happen."
MaxUpdates == 5

\* Mutant: the request is not reset.
StillPending == TRUE

NothingPending == FALSE

\* UpdateSchema, then the loop goes round: a new record builder from the tree,
\* without rows and dictionary values, whose column builders init() of the
\* entity builder fetches.
UpdateSchema(newIndex) ==
  /\ columns' = ColumnsUnder(optional)
  /\ index' = newIndex
  /\ width' = newIndex
  /\ memo' = EmptyMemo
  /\ rows' = <<>>
  /\ pending' = NothingPending
  /\ updates' = updates + 1
  /\ pc' = IF updates < MaxUpdates THEN "append" ELSE "panicked"
  /\ next' = 1
  /\ UNCHANGED <<optional, entity, record>>

RowsDone == pc = "append" /\ next > Len(entity)

\* NewRecord: a column builder has asked for a column.
AddColumns == RowsDone /\ pending /\ UpdateSchema(index)

\* Mutants: the search starts again at the first index type; the index moves
\* past the last one instead of giving way to the value type.
FittingAnew(f) ==
  LET enough == {i \in 1..WidestIndex : Len(memo[f]) <= IndexMaxCard[i]} IN
  IF enough = {} THEN 0 ELSE CHOOSE i \in enough : \A j \in enough : i <= j
PastWidest(f) ==
  LET tooSmall == {i \in index[f]..WidestIndex : Len(memo[f]) > IndexMaxCard[i]} IN
  IF index[f] = 0 THEN 0 ELSE index[f] + Cardinality(tooSmall)

\* updateIndexType, for the cardinality of the record's dictionary.
Fitting(f) ==
  LET card == Len(memo[f])
      enough == {i \in index[f]..WidestIndex : card <= IndexMaxCard[i]}
  IN
  IF index[f] = 0 \/ enough = {} THEN 0
  ELSE CHOOSE i \in enough : \A j \in enough : i <= j

\* Mutant: overflow goes unnoticed.
SameIndex == index

\* detectDictionaryOverflow, over the columns of the record.
Measured == [f \in Dictionary |-> IF f \in Encoded THEN Fitting(f) ELSE index[f]]

\* NewRecord: a dictionary has outgrown its index type.
WidenIndices ==
  RowsDone /\ ~pending /\ Measured # index /\ UpdateSchema(Measured)

\* NewRecord succeeds.  The dictionaries stay in the record builder.
Accept ==
  /\ RowsDone /\ ~pending /\ Measured = index
  /\ record' = [rows |-> rows, columns |-> columns, width |-> width, memo |-> memo]
  /\ rows' = <<>>
  /\ pc' = "idle"
  /\ UNCHANGED <<treeVars, pending, columns, width, memo, entity, next, updates>>

Next == Start \/ AppendRow \/ AddColumns \/ WidenIndices \/ Accept

Spec == Init /\ [][Next]_vars

-----------------------------------------------------------------------------

Index == 0..WidestIndex

TypeOK ==
  /\ optional \subseteq Optional
  /\ index \in [Dictionary -> Index]
  /\ pending \in BOOLEAN
  /\ columns \subseteq Field
  /\ width \in [Dictionary -> Index]
  /\ memo \in [Dictionary -> Seq(Value)]
  /\ rows \in Seq([Field -> Value \cup {Present, NoValue} \cup Nat])
  /\ pc \in {"idle", "append", "panicked"}
  /\ entity \in Entity \cup {<<>>}
  /\ next \in 1..MaxRows + 1
  /\ updates \in 0..MaxUpdates + 1

\* What the decoder makes of the record that was built.
Decoded ==
  [i \in 1..Len(record.rows) |->
     [f \in Field |->
        LET cell == record.rows[i][f] IN
        IF cell = NoValue \/ f \notin record.columns \cap Dictionary THEN cell
        ELSE IF record.width[f] = 0 THEN cell ELSE record.memo[f][cell + 1]]]

\* The record of a batch holds its rows, all of them, once and as they were:
\* no value is lost for want of a column, no index has wrapped, no row of a
\* void attempt is left.
RecordIsEntity == pc = "idle" /\ record # NoRecord => Decoded = entity

\* producer.go: "Too many consecutive schema updates. This shouldn't happen."
\* One update brings every column the batch needs, one more the index types
\* its dictionaries need: no batch comes near the limit of five.
FewUpdates == updates <= 2

\* Whenever the dictionaries start again empty the schema is another one, so
\* its payloads open a new sub-stream and the decoder starts afresh, too.
FreshDictionariesMeanNewSchema ==
  [][(\E f \in Dictionary : Len(memo'[f]) < Len(memo[f]))
       => <<columns, width>>' # <<columns, width>>]_vars

\* A column never goes and an index type never narrows: a schema that was left
\* does not come back, and a payload type has finitely many.
SchemaOnlyGrows ==
  [][/\ columns \subseteq columns'
     /\ \A f \in Dictionary :
          width'[f] = 0 \/ (width[f] # 0 /\ width[f] <= width'[f])]_vars
=============================================================================
