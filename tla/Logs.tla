-------------------------------- MODULE Logs --------------------------------
(***************************************************************************)
(* Logs to records and back (pkg/otel/logs/arrow, pkg/otel/logs/otlp).  A  *)
(* log record has a trace id and attributes; data stands for its other     *)
(* fields, the body included.  Resources and scopes are numbered by first  *)
(* appearance.                                                             *)
(***************************************************************************)
EXTENDS ResourceScope

-----------------------------------------------------------------------------
(***************************************************************************)
(* Encoding.                                                               *)
(***************************************************************************)

\* The number of the identifier at place i among those seen before it.
FirstSeen(identifiers, i) ==
  LET first == Min({j \in 1..i : identifiers[j] = identifiers[i]})
  IN  Cardinality({identifiers[j] : j \in 1..(first - 1)})

LogLess(a, b) ==
  IF a.resID # b.resID THEN a.resID < b.resID
  ELSE IF a.scopeID # b.scopeID THEN a.scopeID < b.scopeID
  ELSE a.entry.trace < b.entry.trace

\* Scopes are numbered over the whole batch, and so are those without logs.
OptimizeLogs(logs) ==
  LET resIDs == [i \in DOMAIN logs |-> ResourceID(logs[i].resource)]
      scopeIDs == [i \in DOMAIN logs |->
                     [j \in DOMAIN logs[i].scopes |-> ScopeID(logs[i].scopes[j].scope)]]
      \* The place of scope j of resource i among all scopes.
      Nth(i, j) == Len(FlattenSeq(SubSeq(scopeIDs, 1, i - 1))) + j
  IN  SortRows(LogLess,
        FlattenSeq([i \in DOMAIN logs |->
          FlattenSeq([j \in DOMAIN logs[i].scopes |->
            [k \in DOMAIN logs[i].scopes[j].entries |->
               [resID    |-> FirstSeen(resIDs, i),
                resource |-> logs[i].resource,
                scopeID  |-> FirstSeen(FlattenSeq(scopeIDs), Nth(i, j)),
                scope    |-> logs[i].scopes[j].scope,
                entry    |-> logs[i].scopes[j].entries[k]]]])]))

LogIds(logs) ==
  SparseIds([i \in DOMAIN logs |-> logs[i].entry.attrs # <<>>], MaxUint16)

\* The main record of optimized logs, and what goes to the accumulators.
AppendLogs(logs) ==
  LET ids == LogIds(logs)
      main == Main(logs, ids)
      attrs == Filled(NewAccumulator, [i \in DOMAIN logs |->
                        AppendWithID(ids[i], logs[i].entry.attrs)])
  IN  [ids |-> main.ids, resources |-> main.resources, scopes |-> main.scopes,
       data |-> [i \in DOMAIN logs |-> logs[i].entry.data],
       accu |-> [RESOURCE_ATTRS |-> main.resAttrs, SCOPE_ATTRS |-> main.scopeAttrs,
                 LOG_ATTRS |-> attrs],
       panics |-> main.panics \/ TooManyGroups16(attrs)]

-----------------------------------------------------------------------------
(***************************************************************************)
(* Decoding.                                                               *)
(***************************************************************************)

LogRecordIDFromDelta(main, i) == Sum(main.ids, DOMAIN main.ids, i, MaxUint16)

LogsRelatedDataFrom(records) ==
  [resource |-> Attributes16StoreFrom(records["RESOURCE_ATTRS"]),
   scope    |-> Attributes16StoreFrom(records["SCOPE_ATTRS"]),
   attrs    |-> Attributes16StoreFrom(records["LOG_ATTRS"])]

\* The log records, in the order of the rows.
LogsFrom(main, related) ==
  [i \in DOMAIN main.ids |->
     [place |-> Place(main.resources, main.scopes, related.resource,
                      related.scope, i),
      data  |-> main.data[i],
      attrs |-> AttributesByID(related.attrs, LogRecordIDFromDelta(main, i))]]
=============================================================================
