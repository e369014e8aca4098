------------------------- MODULE ExperimentProcessor -------------------------
(***************************************************************************)
(* The routing table of the experiment processor (collector/processor/     *)
(* experimentprocessor): each request goes to the exporters of one route,  *)
(* drawn by weight.  A table is a sequence of weights and exporter names.  *)
(***************************************************************************)
EXTENDS Integers, SequencesExt

\* A name that is not a component ID.
NoID == "bad"

\* The running total of the weights.
Totals(table) ==
  LET total[n \in 0..Len(table)] ==
        IF n = 0 THEN 0 ELSE total[n - 1] + table[n].weight
  IN  total

Validate(table) ==
  /\ table # <<>>
  /\ \A n \in DOMAIN table : table[n].weight >= 0 /\ table[n].exporters # <<>>
  /\ Totals(table)[Len(table)] > 0

\* Exporters that do not exist are left out with a warning, other errors make
\* Start fail.
ExtractFails(name) == name = NoID

RegisterFails(table) ==
  \E n \in DOMAIN table : \E name \in Range(table[n].exporters) : ExtractFails(name)

Extract(found, name, available) ==
  IF name \in available THEN Append(found, name) ELSE found

ExtractAll(names, available) ==
  LET found[n \in 0..Len(names)] ==
        IF n = 0 THEN <<>> ELSE Extract(found[n - 1], names[n], available)
  IN  found[Len(names)]

RegisterExporters(table, available) ==
  [n \in DOMAIN table |->
     [cumWeight |-> Totals(table)[n],
      exporters |-> ExtractAll(table[n].exporters, available)]]

\* Mutant: >= in place of >.
GetExportersAtLeast(routes, x) ==
  LET n == Len(routes)
      found == {i \in 1..(n - 1) : routes[i].cumWeight >= x}
  IN  IF found = {} THEN n ELSE Min(found)

\* The route for a number drawn from 0..total-1.
GetExporters(routes, x) ==
  LET n == Len(routes)
      found == {i \in 1..(n - 1) : routes[i].cumWeight > x}
  IN  IF found = {} THEN n ELSE Min(found)

Drawn(routes) == 0..(routes[Len(routes)].cumWeight - 1)
=============================================================================
