--------------------------- MODULE ResourceScope ---------------------------
(***************************************************************************)
(* Resources and scopes in a main record (pkg/otel/common/arrow/resource.go*)
(* and scope.go, pkg/otel/common/otlp/resource.go, scope.go and ids.go).   *)
(*                                                                         *)
(* A resource or scope has attributes and data, which stands for its other *)
(* fields (name, version, dropped attributes, schema URL).  Every row of a *)
(* main record carries both; the decoder tells from the ids in the columns *)
(* where another resource or scope begins.                                 *)
(***************************************************************************)
EXTENDS Attributes

ResourceID(resource) == AttributesId(resource.attrs) \o <<resource.data>>

ScopeID(scope) == <<scope.data>> \o AttributesId(scope.attrs)

\* The groups of attributes of the resources (or scopes) of rows with these
\* keys: one for every head with attributes.
Groups(keys, entities) ==
  Subtotals([i \in DOMAIN keys |->
               IF i \in Heads(keys) /\ entities[i].attrs # <<>> THEN 1 ELSE 0])

Accumulate(keys, entities) ==
  Filled(NewAccumulator,
         [i \in DOMAIN keys |->
            IF i \in Heads(keys)
            THEN AppendGroup(Groups(keys, entities)[i - 1], entities[i].attrs)
            ELSE NewAccumulator])

\* The id column: null for rows whose resource (or scope) has no attributes.
GroupIds(keys, entities) ==
  [i \in DOMAIN keys |->
     LET head == HeadOf(keys, i)
     IN  AppendedId(Groups(keys, entities)[head - 1], entities[head].attrs)]

\* The columns of a resource: AppendWithID for every row.
ResourceColumns(keys, resources) ==
  [i \in DOMAIN keys |->
     [id |-> Deltas(GroupIds(keys, resources))[i], data |-> resources[i].data]]

ScopeColumns(keys, scopes) ==
  [i \in DOMAIN keys |->
     [id |-> Deltas(GroupIds(keys, scopes))[i], data |-> scopes[i].data]]

\* The part of a main record that all signals share, for optimized rows
\* with these ids, and the accumulators it fills.
KeysOf(rows) == [resource |-> [i \in DOMAIN rows |-> rows[i].resID],
                 scope    |-> [i \in DOMAIN rows |-> rows[i].scopeID]]

Main(rows, ids) ==
  LET keys == KeysOf(rows)
      resources == [i \in DOMAIN rows |-> rows[i].resource]
      scopes == [i \in DOMAIN rows |-> rows[i].scope]
      resAttrs == Accumulate(keys.resource, resources)
      scopeAttrs == Accumulate(keys.scope, scopes)
  IN  [ids |-> Deltas(ids),
       resources |-> ResourceColumns(keys.resource, resources),
       scopes |-> ScopeColumns(keys.scope, scopes),
       resAttrs |-> resAttrs,
       scopeAttrs |-> scopeAttrs,
       panics |-> \/ Panics(ids)
                  \/ Panics(GroupIds(keys.resource, resources))
                  \/ Panics(GroupIds(keys.scope, scopes))
                  \/ TooManyGroups16(resAttrs)
                  \/ TooManyGroups16(scopeAttrs)]

-----------------------------------------------------------------------------
(***************************************************************************)
(* Decoding.                                                               *)
(***************************************************************************)

IdColumn(column) == [i \in DOMAIN column |-> column[i].id]

\* What the decoder compares from row to row: the column as it is, a
\* difference, with null as zero.
ResourceIDFromRecord(column) == [i \in DOMAIN column |-> OrZero(column[i].id)]

ScopeIDFromRecord(column) == [i \in DOMAIN column |-> OrZero(column[i].id)]

\* The attributes found at head h: only heads are looked up, and the store
\* adds up the ids it is asked for.
LookUp(store, column, heads, h) ==
  IF column[h].id = Null THEN {}
  ELSE AttributesByID(store, Sum(IdColumn(column), heads, h, MaxUint16))

\* Mutant: the difference is taken for the id.
ResourceByDelta(column, store, h) ==
  [attrs |-> AttributesByID(store, OrZero(column[h].id)), data |-> column[h].data]

\* The resource that starts at row h.
UpdateResourceFromRecord(column, store, h) ==
  [attrs |-> LookUp(store, column, Heads(ResourceIDFromRecord(column)), h),
   data |-> column[h].data]

UpdateScopeFromRecord(column, store, h) ==
  [attrs |-> LookUp(store, column, Heads(ScopeIDFromRecord(column)), h),
   data |-> column[h].data]

\* Where row i ends up.  The slice rows are appended to changes with the
\* scope only: its resource is the one that was current then.
ScopeHead(scopes, i) == HeadOf(ScopeIDFromRecord(scopes), i)

ResourceHead(resources, scopes, i) ==
  HeadOf(ResourceIDFromRecord(resources), ScopeHead(scopes, i))

Place(resources, scopes, resStore, scopeStore, i) ==
  [resource |-> UpdateResourceFromRecord(resources, resStore,
                                         ResourceHead(resources, scopes, i)),
   scope    |-> UpdateScopeFromRecord(scopes, scopeStore, ScopeHead(scopes, i))]

\* What should arrive of a resource or scope: here the empty key is kept.
Entity(entity) == [attrs |-> Range(entity.attrs), data |-> entity.data]
=============================================================================
