---------------------------- MODULE ColumnValues ----------------------------
(***************************************************************************)
(* What the column builders write and what the typed readers make of it    *)
(* (pkg/otel/common/schema/builder, pkg/arrow).  0 stands for the zero     *)
(* value of every type: 0, "", false, an id of zero bytes.  Byte arrays    *)
(* and lists are sequences.                                                *)
(***************************************************************************)
EXTENDS Integers, Sequences

CONSTANT Null   \* no value: a null cell, an optional field that is not set

\* What a call does: the cell it writes if the builder has its column, and
\* whether it asks for the column if not.
Call(cell, asks) == [cell |-> cell, asks |-> asks]

AppendNull == Call(Null, FALSE)

\* The calls of two groups of builders (TLC's @@, which provers do not know).
With(calls, others) ==
  [c \in DOMAIN calls \cup DOMAIN others |->
     IF c \in DOMAIN calls THEN calls[c] ELSE others[c]]

\* Any value is a reason to ask for a column.
Always(v) == Call(v, TRUE)

\* A zero is written as it is, but no reason to ask for a column.
Plain(v) == Call(v, v # 0)

\* A zero is written as null.
NonZero(v) == Call(IF v = 0 THEN Null ELSE v, v # 0)

-----------------------------------------------------------------------------
(***************************************************************************)
(* The builders.                                                           *)
(***************************************************************************)

Uint8Append(v) == Plain(v)
Uint32Append(v) == Plain(v)
Uint32AppendNonZero(v) == NonZero(v)
Uint64Append(v) == Plain(v)
Int32Append(v) == Always(v)
Int32AppendNonZero(v) == NonZero(v)
Int64Append(v) == Always(v)
Float64Append(v) == Always(v)
Float64AppendNonZero(v) == NonZero(v)
TimestampAppend(v) == Plain(v)
DurationAppend(v) == Plain(v)
BooleanAppend(v) == Always(v)
StringAppend(v) == Call(IF v = 0 THEN Null ELSE v, TRUE)
StringAppendNonEmpty(v) == NonZero(v)

\* pdata has nil for an empty byte array.  Ids are never nil.
BinaryAppend(v) == Call(IF v = <<>> THEN Null ELSE v, TRUE)

\* Mutant: ids of zero bytes are left out.
NonZeroId(v) == NonZero(v)

FixedSizeBinaryAppend(v) == Always(v)

Struct == "struct"
StructAppend == Always(Struct)

ListAppend(cells) == IF cells = <<>> THEN AppendNull ELSE Call(cells, TRUE)

\* The calls to the builder of a list's elements.
Elements(calls) ==
  Call([k \in DOMAIN calls |-> calls[k].cell], \E k \in DOMAIN calls : calls[k].asks)

-----------------------------------------------------------------------------
(***************************************************************************)
(* The readers.                                                            *)
(***************************************************************************)

\* The cells of a row in the fields a decoder looks for; a column that is
\* absent reads like a null.
Fields(row, ids) == [f \in ids |-> IF f \in DOMAIN row THEN row[f] ELSE Null]

OrZero(cell) == IF cell = Null THEN 0 ELSE cell

OrNil(cell) == cell

U8FromRecord(cell) == OrZero(cell)
U32FromRecord(cell) == OrZero(cell)
U64FromRecord(cell) == OrZero(cell)
I32FromRecord(cell) == OrZero(cell)
I64FromRecord(cell) == OrZero(cell)
I64OrNilFromRecord(cell) == OrNil(cell)
F64FromRecord(cell) == OrZero(cell)
F64OrNilFromRecord(cell) == OrNil(cell)
BoolFromRecord(cell) == OrZero(cell)
TimestampFromRecord(cell) == OrZero(cell)
DurationFromRecord(cell) == OrZero(cell)
StructFromRecord(cell) == OrNil(cell)

StringFromArray(cell) == OrZero(cell)
StringFromRecord(cell) == StringFromArray(cell)
BinaryFromArray(cell) == IF cell = Null THEN <<>> ELSE cell
BinaryFromRecord(cell) == BinaryFromArray(cell)
FixedSizeBinaryFromArray(cell) == OrNil(cell)
FixedSizeBinaryFieldByIDFromRecord(cell) == FixedSizeBinaryFromArray(cell)
FixedSizeBinaryFromRecord(cell) == FixedSizeBinaryFromArray(cell)

U8FromArray(cell) == OrZero(cell)
U8FromStruct(cell) == U8FromArray(cell)
U32FromArray(cell) == OrZero(cell)
U32FromStruct(cell) == U32FromArray(cell)
I32FromArray(cell) == OrZero(cell)
I32FromStruct(cell) == I32FromArray(cell)
I64FromArray(cell) == OrZero(cell)
I64FromStruct(cell) == I64FromArray(cell)
F64FromArray(cell) == OrZero(cell)
F64FromStruct(cell) == F64FromArray(cell)
F64FieldByID(cell) == F64FromArray(cell)
BoolFromArray(cell) == OrZero(cell)
BoolFromStruct(cell) == BoolFromArray(cell)
StringFromStruct(cell) == StringFromArray(cell)
BinaryFromStruct(cell) == BinaryFromArray(cell)

\* The elements of a list, whose nulls read as zeros.
ListValuesByIDFromRecord(cell) ==
  IF cell = Null THEN Null ELSE [k \in DOMAIN cell |-> OrZero(cell[k])]
=============================================================================
