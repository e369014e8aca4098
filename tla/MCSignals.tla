----------------------------- MODULE MCSignals -----------------------------
(***************************************************************************)
(* Small batches of each signal.  Ids go up to 3 instead of 2^16 - 1 and   *)
(* 2^32 - 1.  Names, trace ids and keys are numbers; data tells the        *)
(* entities of a batch apart.                                              *)
(***************************************************************************)
EXTENDS Signals, TLC

\* A string, another key, a map, the empty key with values of two types, a value
\* of no type.
Text == <<1, <<1, 1>>>>
Text2 == <<2, <<1, 2>>>>
Table == <<1, <<5, 1>>>>
NoKey == <<0, <<1, 1>>>>
NoKey2 == <<0, <<2, 1>>>>
NoType == <<1, <<0, 0>>>>

Owner(data, attrs) == [data |-> data, attrs |-> attrs]

Scope(scope, entries) == [scope |-> scope, entries |-> entries]

Resource(resource, scopes) == [resource |-> resource, scopes |-> scopes]

A == Owner(1, <<Text>>)
B == Owner(2, <<Text, Table>>)
C == Owner(3, <<Text2>>)
D == Owner(4, <<>>)
E == Owner(5, <<NoKey, Text>>)
F == Owner(6, <<Text, NoKey2>>)

\* All under one resource and one scope.
Together(entries) == <<Resource(A, <<Scope(B, entries)>>)>>

\* Three entries under several resources and scopes: in two orders, with one
\* scope in two resources, without attributes, also before others with some,
\* and with the empty key, which comes first in its record or not.
Apart(e) ==
  {<<Resource(A, <<Scope(B, <<e[1]>>)>>),
     Resource(B, <<Scope(C, <<e[2], e[3]>>)>>)>>,
   <<Resource(B, <<Scope(A, <<e[1]>>)>>), Resource(C, <<Scope(B, <<>>)>>),
     Resource(A, <<Scope(C, <<e[2], e[3]>>)>>)>>,
   <<Resource(C, <<Scope(A, <<e[1]>>)>>), Resource(B, <<Scope(A, <<e[2], e[3]>>)>>)>>,
   <<Resource(D, <<Scope(D, <<e[1], e[2]>>)>>)>>,
   <<Resource(D, <<Scope(D, <<e[1]>>)>>), Resource(A, <<Scope(B, <<e[2], e[3]>>)>>)>>,
   <<Resource(E, <<Scope(A, <<e[1], e[2]>>)>>)>>,
   <<Resource(A, <<Scope(B, <<e[1]>>)>>), Resource(F, <<Scope(E, <<e[2]>>)>>)>>,
   <<Resource(F, <<Scope(F, <<e[1]>>)>>), Resource(A, <<Scope(B, <<e[2], e[3]>>)>>)>>}

Lists(set, n) == [1..n -> set]

Numbered(entries) == [k \in DOMAIN entries |-> [entries[k] EXCEPT !.data = k]]

-----------------------------------------------------------------------------
Event(name, data, attrs) == [name |-> name, data |-> data, attrs |-> attrs]
Link(trace, data, attrs) == [trace |-> trace, data |-> data, attrs |-> attrs]

Span(name, attrs, events, links) ==
  [name |-> name, trace |-> 1, data |-> 0, attrs |-> attrs, events |-> events,
   links |-> links]

Bare1 == Span(2, <<>>, <<>>, <<>>)
Spans ==
  {Bare1,
   Span(1, <<Text>>, <<>>, <<>>),
   Span(1, <<Table, Text2>>, <<Event(1, 1, <<Text>>)>>, <<>>),
   Span(2, <<NoKey, Text2>>, <<Event(2, 2, <<>>), Event(1, 3, <<Text, Table>>)>>, <<>>),
   Span(1, <<>>, <<Event(1, 4, <<>>)>>, <<Link(2, 5, <<Text>>), Link(1, 6, <<>>)>>),
   Span(2, <<>>, <<>>, <<Link(1, 7, <<NoKey>>), Link(2, 8, <<Text2>>)>>)}

Full == Span(1, <<Text>>, <<Event(1, 9, <<Text>>), Event(1, 10, <<>>)>>,
             <<Link(1, 11, <<>>), Link(1, 12, <<Text>>)>>)

TraceBatches ==
  {Together(Numbered(entries)) : entries \in Lists(Spans, 3)}
    \cup Apart(Numbered([k \in 1..3 |-> Full]))
    \cup {Together(Numbered([k \in 1..4 |-> Full])),
          Together(<<Span(1, <<NoType>>, <<>>, <<>>)>>)}

-----------------------------------------------------------------------------
Log(trace, attrs) == [trace |-> trace, data |-> 0, attrs |-> attrs]

LogRecords == {Log(2, <<>>), Log(1, <<Text>>), Log(2, <<Text2, Text>>), Log(1, <<Table>>),
               Log(2, <<NoKey>>)}

LogBatches ==
  {Together(Numbered(entries)) : entries \in Lists(LogRecords, 3)}
    \cup Apart(Numbered([k \in 1..3 |-> Log(1, <<Text>>)]))

-----------------------------------------------------------------------------
\* Exemplars with a value of no type, integers and a double.
Exemplar(value, attrs) == [value |-> value, data |-> 0, attrs |-> attrs]
None == Exemplar(<<0, 0>>, <<Text>>)
One == Exemplar(<<1, 1>>, <<>>)
OneText == Exemplar(<<1, 1>>, <<Text>>)
Half == Exemplar(<<2, 1>>, <<Text2>>)

Point(attrs, exemplars) == [data |-> 0, attrs |-> attrs, exemplars |-> exemplars]

Metric(type, name, dps) == [type |-> type, name |-> name, data |-> 0, dps |-> dps]

SomeMetrics ==
  {Metric(1, 1, <<>>),
   Metric(1, 2, <<Point(<<Text>>, <<>>), Point(<<Table>>, <<One>>)>>),
   Metric(2, 1, <<Point(<<>>, <<OneText>>)>>),
   Metric(3, 2, <<Point(<<Text>>, <<One>>), Point(<<>>, <<OneText>>)>>),
   Metric(4, 1, <<Point(<<Text2>>, <<OneText, Half>>), Point(<<>>, <<>>),
                  Point(<<Text>>, <<One>>)>>),
   Metric(4, 1, <<Point(<<>>, <<None>>), Point(<<>>, <<None, None>>)>>),
   Metric(5, 2, <<Point(<<Text>>, <<>>), Point(<<NoKey>>, <<>>)>>)}

\* The place of everything in the batch as its data.
NumberedMetrics(entries) ==
  [k \in DOMAIN entries |->
     [entries[k] EXCEPT !.data = k, !.dps = [j \in DOMAIN @ |->
        [@[j] EXCEPT !.data = <<k, j>>, !.exemplars = [n \in DOMAIN @ |->
           [@[n] EXCEPT !.data = <<k, j, n>>]]]]]]

ThreeGauges == NumberedMetrics([k \in 1..3 |-> Metric(1, 1, <<Point(<<Text>>, <<>>)>>)])

MetricBatches ==
  {Together(NumberedMetrics(entries)) : entries \in Lists(SomeMetrics, 3)}
    \cup Apart(ThreeGauges)

-----------------------------------------------------------------------------
MCBatches ==
  [traces |-> <<TraceBatches, {Together(<<Full>>)}>>,
   logs |-> <<LogBatches, Apart(Numbered([k \in 1..3 |-> Log(1, <<Text>>)]))>>,
   metrics |-> <<MetricBatches,
                 {Together(NumberedMetrics(<<Metric(4, 1, <<Point(<<Text>>, <<OneText>>)>>)>>))}>>]
=============================================================================
