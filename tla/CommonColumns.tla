--------------------------- MODULE CommonColumns ---------------------------
(***************************************************************************)
(* The columns of attributes, resources and scopes (pkg/otel/common/arrow, *)
(* pkg/otel/common/otlp, pkg/otel/common).  A value is a pair of a type    *)
(* and a content; maps and slices are sequences of values.                 *)
(***************************************************************************)
EXTENDS ColumnValues

EmptyType == 0
StrType == 1
IntType == 2
DoubleType == 3
BoolType == 4
MapType == 5
SliceType == 6
BytesType == 7

EmptyValue == <<EmptyType, 0>>

-----------------------------------------------------------------------------
(***************************************************************************)
(* Maps and slices, as CBOR.                                               *)
(***************************************************************************)

\* nil for no value, and for an empty byte array.
Encode(v) == IF v = EmptyValue \/ v = <<BytesType, <<>>>> THEN Null ELSE v

Decode(v) == IF v = Null THEN EmptyValue ELSE v

Serialize(v) == <<"cbor", v[1], [k \in DOMAIN v[2] |-> Encode(v[2][k])]>>

Deserialize(cbor) ==
  <<cbor[2], [k \in DOMAIN cbor[3] |-> Decode(cbor[3][k])]>>

-----------------------------------------------------------------------------
(***************************************************************************)
(* Attributes.                                                             *)
(***************************************************************************)

AttrOptional == {"int", "double", "bool", "bytes", "ser"}

NoValue ==
  [c \in {"str", "int", "double", "bool", "bytes", "ser"} |-> AppendNull]

AppendValue(v) ==
  With([type |-> Uint8Append(v[1])],
    CASE v[1] = StrType    -> [NoValue EXCEPT !.str = StringAppend(v[2])]
      [] v[1] = IntType    -> [NoValue EXCEPT !.int = Int64Append(v[2])]
      [] v[1] = DoubleType -> [NoValue EXCEPT !.double = Float64Append(v[2])]
      [] v[1] = BoolType   -> [NoValue EXCEPT !.bool = BooleanAppend(v[2])]
      [] v[1] = BytesType  -> [NoValue EXCEPT !.bytes = BinaryAppend(v[2])]
      [] v[1] \in {MapType, SliceType} -> [NoValue EXCEPT !.ser = BinaryAppend(Serialize(v))])

AppendAttr(attr) == With([key |-> StringAppend(attr.key)], AppendValue(attr.value))

AttrIDs == {"key", "type", "str", "int", "double", "bool", "bytes", "ser"}

\* Where no row is before it, an empty key equals the previous key, which is empty;
\* then the value is compared with the previous value, which is nil.
NoPrevious(row) == StringFromRecord(Fields(row, AttrIDs).key) = 0

AttrFrom(row) ==
  LET c == Fields(row, AttrIDs)
      type == U8FromRecord(c.type)
  IN  [key   |-> StringFromRecord(c.key),
       value |->
         CASE type = StrType    -> <<StrType, StringFromRecord(c.str)>>
           [] type = IntType    -> <<IntType, I64FromRecord(c.int)>>
           [] type = DoubleType -> <<DoubleType, F64FromRecord(c.double)>>
           [] type = BoolType   -> <<BoolType, BoolFromRecord(c.bool)>>
           [] type = BytesType  -> <<BytesType, BinaryFromRecord(c.bytes)>>
           [] type \in {MapType, SliceType} -> Deserialize(BinaryFromRecord(c.ser))
           [] OTHER -> EmptyValue]

-----------------------------------------------------------------------------
(***************************************************************************)
(* Resources and scopes; each row begins another one.                      *)
(***************************************************************************)

ResourceOptional == {"resource", "schema_url", "dropped_attributes_count"}

AppendResource(resource) ==
  [resource   |-> StructAppend,
   schema_url |-> StringAppendNonEmpty(resource.schema_url),
   dropped_attributes_count |-> Uint32AppendNonZero(resource.dropped_attributes_count)]

ResourceIDs == {"resource", "schema_url", "dropped_attributes_count"}

ResourceFrom(row) ==
  LET c == Fields(row, ResourceIDs)
  IN  [schema_url |-> StringFromStruct(c.schema_url),
       dropped_attributes_count |-> U32FromStruct(c.dropped_attributes_count)]

ScopeOptional ==
  {"scope", "name", "version", "dropped_attributes_count", "schema_url"}

AppendScope(scope) ==
  [scope      |-> StructAppend,
   name       |-> StringAppendNonEmpty(scope.name),
   version    |-> StringAppendNonEmpty(scope.version),
   dropped_attributes_count |-> Uint32AppendNonZero(scope.dropped_attributes_count),
   schema_url |-> StringAppendNonEmpty(scope.schema_url)]

ScopeIDs == {"scope", "name", "version", "dropped_attributes_count", "schema_url"}

ScopeFrom(row) ==
  LET c == Fields(row, ScopeIDs)
  IN  [name       |-> StringFromStruct(c.name),
       version    |-> StringFromStruct(c.version),
       dropped_attributes_count |-> U32FromStruct(c.dropped_attributes_count),
       schema_url |-> StringFromRecord(c.schema_url)]
=============================================================================
