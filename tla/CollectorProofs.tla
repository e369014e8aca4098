--------------------------- MODULE CollectorProofs ---------------------------
(***************************************************************************)
(* Theorems about Collector for every configuration, all signals,          *)
(* exporters and routing tables, and any number of requests.               *)
(***************************************************************************)
EXTENDS Collector, TLAPS, SequenceTheorems, FiniteSetTheorems, BoundedInduction

-----------------------------------------------------------------------------
(***************************************************************************)
(* The inductive invariant: types first.                                   *)
(***************************************************************************)

Phase == {"build", "start exporters", "start processors", "start receivers",
          "start http", "running", "stop receivers", "close http", "close grpc",
          "await servers", "stop exporters", "stopped", "crashed"}

Server == {"none", "created", "serving", "broken", "closing", "stopped"}

Way == {"grpc", "http", "arrow"}

AnyReceiver ==
  [started : BOOLEAN, stopped : BOOLEAN, timedOut : BOOLEAN,
   consumers : SUBSET Signal, grpc : Server, http : Server,
   services : SUBSET ({"otlp", "arrow"} \X (Signal \cup {"mixed"})), arrow : BOOLEAN]

AnyExporter ==
  [conn : {"none", "open", "closed"}, arrow : {"none", "up", "refused", "stopped"}]

InHand ==
  [state : {"consuming"}, receiver : Nat, way : Way, signal : Signal,
   route : SUBSET STRING, todo : Seq(STRING), tries : Nat,
   errors : SUBSET {"permanent", "retry", "throttle"},
   delivered : SUBSET STRING, final : SUBSET STRING]

AnyAnswer == {"OK", "error", "INVALID_ARGUMENT", "UNAVAILABLE",
              "200", "400", "404", "405", "415", "500"}

Done ==
  [state : {"answered"}, way : Way, answer : AnyAnswer, route : SUBSET STRING,
   delivered : SUBSET STRING, final : SUBSET STRING]

Types ==
  /\ config.cfg \in Config /\ config.table \in Tables /\ Validate(config.table)
  /\ phase \in Phase
  /\ turn \in 1..Len(Signals)
  /\ receivers \in Seq(AnyReceiver) /\ Len(receivers) <= MaxGenerations
  /\ shared \in {0, Len(receivers)}
  /\ handle \in [Signal -> {0, Len(receivers)}]
  /\ exporter \in [Exporter -> AnyExporter]
  /\ stream \in {0, Len(receivers)}
  /\ request \in [Request -> {Idle} \cup InHand \cup Done]

(***************************************************************************)
(* The service takes the newest receiver through its phases.               *)
(***************************************************************************)

Newest == receivers[Len(receivers)]

\* The receiver of this generation is still to be built.
Unbuilt == phase = "build" /\ turn = 1

Closed(r) == r.grpc \in {"none", "stopped"} /\ r.http \in {"none", "stopped"}

Fresh(r) ==
  ~r.started /\ ~r.stopped /\ ~r.timedOut /\ r.grpc = "none" /\ r.http = "none"

ServesGRPC(r) ==
  config.cfg.grpc =>
    r.grpc = "serving" /\ \A s \in Signal : <<"otlp", s>> \in r.services

ServesHTTP(r) == config.cfg.http => r.http = "serving"

\* Who holds which receiver.
Generations ==
  /\ Unbuilt => /\ shared = 0 /\ Len(receivers) < MaxGenerations
                /\ \A s \in Signal : handle[s] = 0
  /\ ~Unbuilt => Len(receivers) # 0
  /\ phase = "build" /\ turn # 1 => shared = Len(receivers)
  /\ phase = "build" => \A i \in 1..Len(Signals) : i < turn =>
       /\ handle[Signals[i]] = Len(receivers)
       /\ Signals[i] \in Newest.consumers
  /\ phase # "build" => \A s \in Signal :
       handle[s] = Len(receivers) /\ s \in Newest.consumers
  /\ \A n \in 1..Len(receivers) : n # Len(receivers) \/ Unbuilt => Closed(receivers[n])

\* What the newest receiver is in each phase.
Phases ==
  /\ phase = "build" /\ turn # 1 => Fresh(Newest)
  /\ phase \in {"start exporters", "start processors"} => Fresh(Newest)
  /\ phase = "start receivers" =>
       /\ ~Newest.stopped
       /\ Newest.started => ServesGRPC(Newest) /\ ServesHTTP(Newest)
       /\ ~Newest.started => Fresh(Newest)
  /\ phase = "start http" =>
       ~Newest.stopped /\ Newest.started /\ ServesGRPC(Newest) /\ Newest.http = "none"
  /\ phase = "running" => ~Newest.stopped /\ ServesGRPC(Newest) /\ ServesHTTP(Newest)
  /\ phase = "stop receivers" /\ Newest.stopped => Closed(Newest) /\ shared = 0
  /\ phase = "close http" => Newest.stopped /\ Newest.http \in {"none", "closing", "stopped"}
  /\ phase = "close grpc" => Newest.stopped /\ Newest.http \in {"none", "stopped"}
                             /\ Newest.grpc \in {"none", "closing", "stopped"}
  /\ phase = "await servers" => Newest.stopped /\ Closed(Newest)
  /\ phase \in {"stop exporters", "stopped"} => Closed(Newest) /\ shared = 0
  /\ ~Unbuilt /\ ~Newest.started => Newest.grpc = "none" /\ Newest.http = "none"

(***************************************************************************)
(* The pipeline is complete when the receiver starts, and until it has     *)
(* stopped; only requests it gave up on remain then.                       *)
(***************************************************************************)

Route(s) == RegisterExporters(config.table, {e[2] : e \in Available(s)})

Opened(s) == \A e \in Available(s) : exporter[e].conn = "open"

Complete == \A s \in Signal : Opened(s) /\ routes[s] = Route(s)

Pipeline ==
  /\ DOMAIN routes = Signal
  /\ \A s \in Signal : routes[s] \in {<<>>, Route(s)}
  /\ phase = "start exporters" => \A i \in 1..Len(Signals) : i < turn => Opened(Signals[i])
  /\ phase = "start processors" =>
       /\ \A s \in Signal : Opened(s)
       /\ \A i \in 1..Len(Signals) : i < turn => routes[Signals[i]] = Route(Signals[i])
  /\ phase = "start receivers" => Complete
  /\ phase \notin {"build", "stop exporters", "stopped"} /\ Newest.started => Complete

Busy(server) == server \in {"serving", "broken", "closing"}

\* A request, or a stream, holds up the server it came through.
Held(q) ==
  /\ ~Unbuilt
  /\ q.receiver = Len(receivers)
  /\ q.way = "grpc" => Busy(Newest.grpc)
  /\ q.way = "arrow" => stream = Len(receivers)
  /\ q.way = "http" => Newest.timedOut \/ Busy(Newest.http)
  /\ \A e \in Range(q.todo) : <<q.signal, e>> \in Exporter

Requests ==
  /\ stream # 0 => ~Unbuilt /\ Busy(Newest.grpc)
  /\ \A r \in Request : request[r].state = "consuming" => Held(request[r])

(***************************************************************************)
(* What a request in hand has come to.                                     *)
(***************************************************************************)

Told(q) ==
  /\ Range(q.todo) \subseteq q.route /\ q.delivered \subseteq q.route
  /\ q.errors = {} => q.route \subseteq Range(q.todo) \cup q.delivered
  /\ "permanent" \in q.errors => q.final # {}

Outcomes == \A r \in Request : request[r].state = "consuming" => Told(request[r])

-----------------------------------------------------------------------------
(***************************************************************************)
(* Routing.                                                                *)
(***************************************************************************)

Item == [weight : Int, exporters : Seq(STRING)]

Table == Seq(Item)

LEMMA Items ==
  ASSUME NEW table \in Table
  PROVE  /\ Len(table) \in Nat /\ DOMAIN table = 1..Len(table)
         /\ \A n \in 1..Len(table) :
              table[n].weight \in Int /\ table[n].exporters \in Seq(STRING)
<1>1. \A n \in 1..Len(table) : table[n] \in Item
  BY ElementOfSeq DEF Table
<1> QED
  BY <1>1, LenProperties DEF Table, Item

LEMMA TotalsUnfold ==
  ASSUME NEW table \in Table
  PROVE  Totals(table) = [n \in 0..Len(table) |->
           IF n = 0 THEN 0 ELSE Totals(table)[n - 1] + table[n].weight]
<1> DEFINE Sums(f, n) ==
             f = [i \in 0..n |-> IF i = 0 THEN 0 ELSE f[i - 1] + table[i].weight]
           G == {n \in 0..Len(table) : \E f : Sums(f, n)}
<1>1. Len(table) \in Nat
  BY Items
<1>2. 0 \in G
  <2>1. \A i \in 0..0 : i = 0
    OBVIOUS
  <2>2. \E f : Sums(f, 0)
    <3>1. Sums([i \in 0..0 |-> 0], 0)
      BY <2>1
    <3> QED
      BY <3>1
  <2> HIDE DEF Sums
  <2> QED
    BY <1>1, <2>2
<1>3. ASSUME NEW n \in 1..Len(table), n - 1 \in G PROVE n \in G
  <2>1. PICK f : Sums(f, n - 1)
    BY <1>3
  <2> DEFINE g == [i \in 0..n |-> IF i = n THEN f[n - 1] + table[n].weight ELSE f[i]]
  <2>2. \A i \in 0..n : g[i] = IF i = 0 THEN 0 ELSE g[i - 1] + table[i].weight
    BY <1>1, <2>1
  <2>3. \E h : Sums(h, n)
    <3>1. Sums(g, n)
      BY <2>2
    <3> QED
      BY <3>1
  <2> HIDE DEF Sums
  <2> QED
    BY <1>1, <2>3
<1>4. Len(table) \in G
  <2> HIDE DEF G
  <2>1. 0..Len(table) \subseteq G
    BY <1>1, <1>2, <1>3, Induction
  <2> QED
    BY <1>1, <2>1
<1> QED
  BY <1>4 DEF Totals

LEMMA TotalsType ==
  ASSUME NEW table \in Table
  PROVE  /\ Totals(table) \in [0..Len(table) -> Int] /\ Totals(table)[0] = 0
         /\ \A n \in 1..Len(table) :
              Totals(table)[n] = Totals(table)[n - 1] + table[n].weight
<1> DEFINE t == Totals(table)
           G == {n \in 0..Len(table) : t[n] \in Int}
<1>1. Len(table) \in Nat /\ \A n \in 1..Len(table) : table[n].weight \in Int
  BY Items
<1>2. t = [n \in 0..Len(table) |-> IF n = 0 THEN 0 ELSE t[n - 1] + table[n].weight]
  BY TotalsUnfold
<1> HIDE DEF t
<1>3. t[0] = 0 /\ \A n \in 1..Len(table) : t[n] = t[n - 1] + table[n].weight
  BY <1>1, <1>2
<1>4. 0 \in G /\ \A n \in 1..Len(table) : n - 1 \in G => n \in G
  BY <1>1, <1>3
<1>5. 0..Len(table) \subseteq G
  <2> HIDE DEF G
  <2> QED
    BY <1>1, <1>4, Induction
<1> QED
  BY <1>2, <1>3, <1>5 DEF t

\* Totals never decrease.
LEMMA TotalsGrow ==
  ASSUME NEW table \in Table, \A n \in DOMAIN table : table[n].weight >= 0,
         NEW i \in 0..Len(table), NEW j \in 0..Len(table), i <= j
  PROVE  Totals(table)[i] <= Totals(table)[j]
<1> DEFINE t == Totals(table)
           G == {n \in 0..Len(table) : i <= n => t[i] <= t[n]}
<1>1. /\ Len(table) \in Nat
      /\ \A n \in 1..Len(table) : table[n].weight \in Int /\ table[n].weight >= 0
  BY Items
<1>2. /\ t \in [0..Len(table) -> Int]
      /\ \A n \in 1..Len(table) : t[n] = t[n - 1] + table[n].weight
  BY TotalsType
<1> HIDE DEF t
<1>3. 0 \in G
  BY <1>1, <1>2
<1>4. ASSUME NEW n \in 1..Len(table), n - 1 \in G PROVE n \in G
  <2>1. n \in 0..Len(table) /\ n - 1 \in 0..Len(table)
    BY <1>1
  <2>2. t[n] \in Int /\ t[n - 1] \in Int /\ t[i] \in Int
    BY <1>2, <2>1
  <2>3. t[n - 1] <= t[n]
    <3>1. table[n].weight \in Int /\ table[n].weight >= 0 /\ t[n] = t[n - 1] + table[n].weight
      BY <1>1, <1>2
    <3> QED
      BY <2>2, <3>1
  <2>4. i <= n - 1 \/ i = n \/ i > n
    BY <1>1
  <2> QED
    BY <1>1, <1>4, <2>2, <2>3, <2>4
<1>5. 0..Len(table) \subseteq G
  <2> HIDE DEF G
  <2> QED
    BY <1>1, <1>3, <1>4, Induction
<1> QED
  BY <1>5 DEF t

\* A route has exporters that exist.
LEMMA ExtractAllKnown ==
  ASSUME NEW names \in Seq(STRING), NEW available
  PROVE  /\ ExtractAll(names, available) \in Seq(STRING)
         /\ Range(ExtractAll(names, available)) \subseteq available
<1> DEFINE S == STRING \cap available
           Found(f, n) ==
             f = [i \in 0..n |->
                    IF i = 0 THEN <<>> ELSE Extract(f[i - 1], names[i], available)]
           G == {n \in 0..Len(names) : \E f : Found(f, n)}
<1>1. Len(names) \in Nat /\ \A i \in 1..Len(names) : names[i] \in STRING
  BY LenProperties, ElementOfSeq
<1>2. 0 \in G
  <2>1. \A i \in 0..0 : i = 0
    OBVIOUS
  <2>2. \E f : Found(f, 0)
    <3>1. Found([i \in 0..0 |-> <<>>], 0)
      BY <2>1
    <3> QED
      BY <3>1
  <2> HIDE DEF Found
  <2> QED
    BY <1>1, <2>2
<1>3. ASSUME NEW n \in 1..Len(names), n - 1 \in G PROVE n \in G
  <2>1. PICK f : Found(f, n - 1)
    BY <1>3
  <2> DEFINE last == Extract(f[n - 1], names[n], available)
             g == [i \in 0..n |-> IF i = n THEN last ELSE f[i]]
  <2>2. \A i \in 0..n :
          g[i] = IF i = 0 THEN <<>> ELSE Extract(g[i - 1], names[i], available)
    BY <1>1, <2>1
  <2>3. \E h : Found(h, n)
    <3>1. Found(g, n)
      BY <2>2
    <3> QED
      BY <3>1
  <2> HIDE DEF Found
  <2> QED
    BY <1>1, <2>3
<1>4. \E f : Found(f, Len(names))
  <2>1. 0..Len(names) \subseteq G
    <3> HIDE DEF G
    <3> QED
      BY <1>1, <1>2, <1>3, Induction
  <2> QED
    BY <1>1, <2>1
<1>5. PICK f : Found(f, Len(names)) /\ ExtractAll(names, available) = f[Len(names)]
  BY <1>4 DEF ExtractAll
<1> DEFINE H == {n \in 0..Len(names) : f[n] \in Seq(S)}
<1>6. 0 \in H
  BY <1>1, <1>5, EmptySeq
<1>7. ASSUME NEW n \in 1..Len(names), n - 1 \in H PROVE n \in H
  <2>1. f[n] = Extract(f[n - 1], names[n], available)
    BY <1>1, <1>5
  <2>2. names[n] \in available => names[n] \in S
    BY <1>1
  <2>3. n \in 0..Len(names) /\ f[n - 1] \in Seq(S)
    BY <1>1, <1>7
  <2> HIDE DEF S
  <2>4. f[n] \in Seq(S)
    BY <2>1, <2>2, <2>3, AppendProperties DEF Extract
  <2> QED
    BY <2>3, <2>4
<1>8. f[Len(names)] \in Seq(S)
  <2>1. 0..Len(names) \subseteq H
    <3> HIDE DEF H
    <3> QED
      BY <1>1, <1>6, <1>7, Induction
  <2> QED
    BY <1>1, <2>1
<1>9. /\ ExtractAll(names, available) \in Seq(STRING)
      /\ \A i \in 1..Len(f[Len(names)]) : f[Len(names)][i] \in S
  BY <1>5, <1>8, ElementOfSeq, SeqMonotonic
<1>10. DOMAIN f[Len(names)] = 1..Len(f[Len(names)])
  BY <1>8, LenProperties
<1> QED
  BY <1>5, <1>9, <1>10 DEF Range

\* The function of a table that is a sequence of routes.
LEMMA Routes ==
  ASSUME NEW table \in Table, NEW available
  PROVE  LET routing == RegisterExporters(table, available) IN
         /\ DOMAIN routing = 1..Len(table) /\ Len(routing) = Len(table)
         /\ \A n \in 1..Len(table) :
              /\ routing[n].cumWeight = Totals(table)[n]
              /\ routing[n].exporters \in Seq(STRING)
              /\ Range(routing[n].exporters) \subseteq available
<1> DEFINE routing == RegisterExporters(table, available)
<1>1. DOMAIN routing = 1..Len(table) /\ Len(table) \in Nat
  BY Items DEF RegisterExporters
<1>2. Len(routing) = Len(table)
  BY <1>1 DEF RegisterExporters
<1>3. ASSUME NEW n \in 1..Len(table)
      PROVE  /\ routing[n].cumWeight = Totals(table)[n]
             /\ routing[n].exporters = ExtractAll(table[n].exporters, available)
             /\ table[n].exporters \in Seq(STRING)
  BY <1>1, Items DEF RegisterExporters
<1> QED
  BY <1>1, <1>2, <1>3, ExtractAllKnown

\* The search of getExporters finds the route whose share the number falls in.
LEMMA RouteFound ==
  ASSUME NEW table \in Table, \A i \in DOMAIN table : table[i].weight >= 0, table # <<>>,
         NEW available, NEW x \in 0..(Totals(table)[Len(table)] - 1), NEW n \in 1..Len(table)
  PROVE  LET routing == RegisterExporters(table, available) IN
         /\ GetExporters(routing, x) \in 1..Len(table)
         /\ GetExporters(routing, x) = n <=>
              Totals(table)[n - 1] <= x /\ x < Totals(table)[n]
<1> DEFINE routing == RegisterExporters(table, available)
           t == Totals(table)
           N == Len(table)
           found == {i \in 1..(N - 1) : t[i] > x}
           m == IF found = {} THEN N ELSE Min(found)
<1>1. N \in Nat /\ N # 0
  BY Items, EmptySeq DEF Table
<1>2. /\ t \in [0..N -> Int] /\ t[0] = 0 /\ t[N] > x /\ x \in Nat
      /\ \A i, j \in 0..N : i <= j => t[i] <= t[j]
  <2>1. t \in [0..N -> Int] /\ t[0] = 0
    BY TotalsType
  <2>2. \A i, j \in 0..N : i <= j => t[i] <= t[j]
    BY TotalsGrow
  <2>3. t[N] \in Int
    BY <1>1, <2>1
  <2> HIDE DEF t, N
  <2>4. x \in 0..(t[N] - 1)
    BY DEF t, N
  <2> QED
    BY <2>1, <2>2, <2>3, <2>4
<1>3. GetExporters(routing, x) = m
  <2>1. Len(routing) = N /\ \A i \in 1..N : routing[i].cumWeight = t[i]
    BY Routes
  <2>2. {i \in 1..(N - 1) : routing[i].cumWeight > x} = found
    BY <1>1, <2>1
  <2> HIDE DEF routing, found
  <2> QED
    BY <2>1, <2>2 DEF GetExporters
<1> HIDE DEF t, N
<1>4. /\ m \in 1..N /\ t[m] > x
      /\ \A i \in 1..N : i < m => t[i] <= x
  <2>1. CASE found = {}
    <3>1. m = N /\ N \in 1..N
      BY <1>1, <2>1
    <3>2. ASSUME NEW i \in 1..N, i < N PROVE t[i] <= x
      <4>1. i \in 1..(N - 1) /\ i \in 0..N
        BY <1>1, <3>2
      <4>2. t[i] \in Int /\ ~(t[i] > x)
        BY <1>2, <2>1, <4>1
      <4> QED
        BY <1>2, <4>2
    <3> HIDE DEF m
    <3> QED
      BY <1>2, <3>1, <3>2
  <2>2. CASE found # {}
    <3>1. found \in SUBSET Nat
      BY <1>1
    <3>2. \E i \in found : \A j \in found : i <= j
      <4> HIDE DEF found
      <4> QED
        BY <2>2, <3>1, LeastElement
    <3>3. Min(found) \in found /\ \A j \in found : Min(found) <= j
      <4> HIDE DEF found
      <4> QED
        BY <3>2 DEF Min
    <3>4. m = Min(found)
      BY <2>2
    <3>5. m \in 1..(N - 1) /\ t[m] > x /\ \A j \in 1..(N - 1) : t[j] > x => m <= j
      <4> HIDE DEF m
      <4> QED
        BY <3>3, <3>4
    <3> HIDE DEF m, found
    <3> QED
      BY <1>1, <1>2, <3>5
  <2> QED
    BY <2>1, <2>2
<1> HIDE DEF m
<1>5. ASSUME m = n PROVE t[n - 1] <= x /\ x < t[n]
  <2>1. n - 1 \in 0..N /\ n - 1 < n
    BY <1>1 DEF N
  <2>2. n - 1 = 0 \/ n - 1 \in 1..N
    BY <2>1
  <2> QED
    BY <1>2, <1>4, <1>5, <2>1, <2>2
<1>6. ASSUME t[n - 1] <= x, x < t[n] PROVE m = n
  <2>1. n \in 1..N /\ n - 1 \in 0..N
    BY <1>1 DEF N
  <2>2. ~(m < n)
    <3> SUFFICES ASSUME m < n PROVE FALSE
      OBVIOUS
    <3>1. m <= n - 1 /\ m \in 0..N
      BY <1>1, <1>4, <2>1
    <3>2. t[m] <= t[n - 1] /\ t[m] \in Int /\ t[n - 1] \in Int
      BY <1>2, <2>1, <3>1
    <3> QED
      BY <1>2, <1>4, <1>6, <3>2
  <2>3. ~(n < m)
    <3>1. t[n] \in Int
      BY <1>2, <2>1
    <3> QED
      BY <1>2, <1>4, <1>6, <2>1, <3>1
  <2> QED
    BY <1>1, <1>4, <2>1, <2>2, <2>3
<1> QED
  BY <1>3, <1>4, <1>5, <1>6 DEF t, N

\* Of the numbers drawn as many lead to an item as its weight says.
LEMMA RouteShare ==
  ASSUME NEW table \in Table, \A i \in DOMAIN table : table[i].weight >= 0, table # <<>>,
         NEW available, NEW n \in 1..Len(table)
  PROVE  LET routing == RegisterExporters(table, available) IN
         Cardinality({x \in Drawn(routing) : GetExporters(routing, x) = n}) = table[n].weight
<1> DEFINE routing == RegisterExporters(table, available)
           t == Totals(table)
           N == Len(table)
<1>1. N \in Nat /\ N # 0 /\ table[n].weight \in Int /\ table[n].weight >= 0
  BY Items, EmptySeq DEF Table
<1>2. /\ t \in [0..N -> Int] /\ t[0] = 0 /\ t[n] = t[n - 1] + table[n].weight
      /\ \A i, j \in 0..N : i <= j => t[i] <= t[j]
  BY <1>1, TotalsType, TotalsGrow
<1>3. Drawn(routing) = 0..(t[N] - 1)
  BY <1>1, Routes DEF Drawn
<1>4. \A x \in 0..(t[N] - 1) : GetExporters(routing, x) = n <=> t[n - 1] <= x /\ x < t[n]
  BY RouteFound
<1> HIDE DEF routing, t
<1>5. /\ n \in 0..N /\ n - 1 \in 0..N /\ N \in 0..N /\ n <= N /\ 0 <= n - 1 /\ 0 \in 0..N
  BY <1>1
<1>6. t[n - 1] \in Int /\ t[n] \in Int /\ t[N] \in Int /\ 0 <= t[n - 1] /\ t[n] <= t[N]
  BY <1>2, <1>5
<1>7. {x \in Drawn(routing) : GetExporters(routing, x) = n} = t[n - 1]..(t[n] - 1)
  BY <1>3, <1>4, <1>6
<1>8. Cardinality(t[n - 1]..(t[n] - 1)) = table[n].weight
  <2> DEFINE a == t[n - 1]
             b == t[n] - 1
  <2>1. a \in Int /\ b \in Int /\ b - a + 1 = table[n].weight /\ (a > b <=> table[n].weight = 0)
    BY <1>1, <1>2, <1>6
  <2> HIDE DEF a, b
  <2>2. Cardinality(a..b) = IF a > b THEN 0 ELSE b - a + 1
    BY <2>1, FS_Interval
  <2>3. Cardinality(a..b) = table[n].weight
    BY <1>1, <2>1, <2>2
  <2> QED
    BY <2>3 DEF a, b
<1> QED
  BY <1>7, <1>8 DEF routing

-----------------------------------------------------------------------------
(***************************************************************************)
(* The service.                                                            *)
(***************************************************************************)

Inv == Types /\ Generations /\ Phases /\ Pipeline /\ Requests

LEMMA SignalFacts ==
  /\ Len(Signals) \in Nat \ {0}
  /\ \A i \in 1..Len(Signals) : Signals[i] \in Signal
  /\ \A s \in Signal : \E i \in 1..Len(Signals) : Signals[i] = s
<1>1. Signals \in Seq(STRING) /\ Signals # <<>>
  BY CollectorAssumption
<1>2. Len(Signals) \in Nat \ {0} /\ DOMAIN Signals = 1..Len(Signals)
  BY <1>1, EmptySeq, LenProperties
<1> QED
  BY <1>2 DEF Signal, Range

LEMMA FirstTurn == 1 \in 1..Len(Signals)
<1>1. Len(Signals) \in Nat \ {0}
  BY SignalFacts
<1> QED
  BY <1>1

LEMMA NewestFacts ==
  ASSUME Types, Generations, ~Unbuilt
  PROVE  /\ Len(receivers) \in Nat \ {0} /\ Len(receivers) \in DOMAIN receivers
         /\ Newest \in AnyReceiver
<1>1. Len(receivers) \in Nat \ {0} /\ DOMAIN receivers = 1..Len(receivers)
  BY LenProperties DEF Types, Generations
<1>2. Len(receivers) \in 1..Len(receivers)
  BY <1>1
<1> QED
  BY <1>1, <1>2, ElementOfSeq DEF Newest, Types

\* The receiver in turn is the newest.
LEMMA MineIsNewest ==
  ASSUME Types, Generations, phase # "build"
  PROVE  /\ Mine \in Signal /\ handle[Mine] = Len(receivers)
         /\ Receiver = Newest /\ ~Unbuilt
  BY SignalFacts DEF Types, Generations, Mine, Receiver, Newest, Unbuilt

LEMMA SetNewest ==
  ASSUME Types, Generations, ~Unbuilt, NEW r \in AnyReceiver,
         receivers' = [receivers EXCEPT ![Len(receivers)] = r]
  PROVE  /\ receivers' \in Seq(AnyReceiver) /\ Len(receivers') = Len(receivers)
         /\ Newest' = r
         /\ \A n \in 1..Len(receivers) : n # Len(receivers) => receivers'[n] = receivers[n]
<1>1. Len(receivers) \in 1..Len(receivers) /\ receivers \in Seq(AnyReceiver)
  BY NewestFacts DEF Types
<1>2. /\ receivers' \in Seq(AnyReceiver) /\ Len(receivers') = Len(receivers)
      /\ \A n \in 1..Len(receivers) :
           receivers'[n] = IF n = Len(receivers) THEN r ELSE receivers[n]
  BY <1>1, ExceptSeq
<1> QED
  BY <1>1, <1>2 DEF Newest

\* What the steps of Start and Shutdown make of a receiver.
LEMMA ReceiverOperators ==
  ASSUME NEW r \in AnyReceiver, NEW cfg \in Configs
  PROVE  /\ [r EXCEPT !.started = TRUE] \in AnyReceiver
         /\ [r EXCEPT !.stopped = TRUE] \in AnyReceiver
         /\ GRPCServing(r, cfg) \in AnyReceiver
         /\ GRPCFailures(r, cfg) \subseteq AnyReceiver
         /\ HTTPServing(r) \in AnyReceiver /\ HTTPFailures(r) \subseteq AnyReceiver
         /\ CloseHTTP(r) \in AnyReceiver /\ HTTPDrained(r) \in AnyReceiver
         /\ HTTPTimesOut(r) \in AnyReceiver
         /\ CloseGRPC(r) \in AnyReceiver /\ GRPCDrained(r) \in AnyReceiver
<1> USE DEF AnyReceiver, Server
<1>1. [r EXCEPT !.started = TRUE] \in AnyReceiver /\ [r EXCEPT !.stopped = TRUE] \in AnyReceiver
  OBVIOUS
<1>2. Services(r, cfg) \in SUBSET ({"otlp", "arrow"} \X (Signal \cup {"mixed"}))
  BY DEF Services
<1>3. GRPCServing(r, cfg) \in AnyReceiver /\ GRPCFailures(r, cfg) \subseteq AnyReceiver
  <2>1. (cfg.arrow = "enabled") \in BOOLEAN
    OBVIOUS
  <2>2. GRPCServing(r, cfg) \in AnyReceiver
    BY <1>2, <2>1 DEF GRPCServing
  <2>3. [r EXCEPT !.grpc = "created"] \in AnyReceiver
    OBVIOUS
  <2>4. [r EXCEPT !.grpc = "created", !.arrow = (cfg.arrow = "enabled"),
                  !.services = Services(r, cfg)] \in AnyReceiver
    BY <1>2, <2>1
  <2> QED
    BY <2>2, <2>3, <2>4 DEF GRPCFailures
<1>4. HTTPServing(r) \in AnyReceiver /\ HTTPFailures(r) \subseteq AnyReceiver
  BY DEF HTTPServing, HTTPFailures
<1>5. CloseHTTP(r) \in AnyReceiver /\ HTTPDrained(r) \in AnyReceiver
  BY DEF CloseHTTP, HTTPDrained, CloseServer
<1>6. HTTPTimesOut(r) \in AnyReceiver
  BY DEF HTTPTimesOut, HTTPDrained
<1>7. CloseGRPC(r) \in AnyReceiver /\ GRPCDrained(r) \in AnyReceiver
  BY DEF CloseGRPC, GRPCDrained, CloseServer
<1> QED
  BY <1>1, <1>3, <1>4, <1>5, <1>6, <1>7

\* What the gRPC part of Start leaves as it was, and what it adds.
LEMMA StartedGRPC ==
  ASSUME NEW r \in AnyReceiver, NEW cfg \in Configs,
         NEW q, q \in GRPCFailures(r, cfg) \/ q = GRPCServing(r, cfg)
  PROVE  /\ q \in AnyReceiver
         /\ q.consumers = r.consumers /\ q.stopped = r.stopped /\ q.http = r.http
         /\ q = GRPCServing(r, cfg) =>
              q.grpc = "serving" /\ \A s \in r.consumers : <<"otlp", s>> \in q.services
<1>1. q \in AnyReceiver
  BY ReceiverOperators
<1>2. q.consumers = r.consumers /\ q.stopped = r.stopped /\ q.http = r.http
  BY DEF GRPCFailures, GRPCServing, AnyReceiver
<1>3. ASSUME q = GRPCServing(r, cfg)
      PROVE  q.grpc = "serving" /\ \A s \in r.consumers : <<"otlp", s>> \in q.services
  <2>1. \A s \in r.consumers : <<"otlp", s>> \in Services(r, cfg)
    BY DEF Services
  <2>2. q.grpc = "serving" /\ q.services = Services(r, cfg)
    BY <1>3 DEF GRPCServing, AnyReceiver
  <2> QED
    BY <2>1, <2>2
<1> QED
  BY <1>1, <1>2, <1>3

\* The same, once the component is marked as started.
LEMMA MarkedStarted ==
  ASSUME NEW q \in AnyReceiver, NEW r, r = [q EXCEPT !.started = TRUE]
  PROVE  /\ r \in AnyReceiver /\ r.started /\ r.consumers = q.consumers
         /\ r.stopped = q.stopped /\ r.http = q.http /\ r.grpc = q.grpc
         /\ r.services = q.services
  BY DEF AnyReceiver

\* What the parts of the invariant look at.
LEMMA GenerationsStay ==
  ASSUME Generations, Unbuilt' = Unbuilt, UNCHANGED <<phase, turn, receivers, shared, handle>>
  PROVE  Generations'
<1>1. Newest' = Newest
  BY DEF Newest
<1> QED
  BY <1>1 DEF Generations

LEMMA PhasesStay ==
  ASSUME Phases, UNCHANGED <<config, phase, turn, receivers, shared>>
  PROVE  Phases'
<1>1. Newest' = Newest /\ Unbuilt' = Unbuilt
  BY DEF Newest, Unbuilt
<1>2. ServesGRPC(Newest)' = ServesGRPC(Newest) /\ ServesHTTP(Newest)' = ServesHTTP(Newest)
  BY <1>1 DEF ServesGRPC, ServesHTTP
<1> QED
  BY <1>1, <1>2 DEF Phases

LEMMA PipelineStay ==
  ASSUME Pipeline, UNCHANGED <<config, exporter, routes, turn, phase, receivers>>
  PROVE  Pipeline'
<1>1. Newest' = Newest
  BY DEF Newest
<1>2. \A s : Opened(s)' = Opened(s) /\ Route(s)' = Route(s)
  BY DEF Opened, Route, Available
<1>3. Complete' = Complete
  BY <1>2 DEF Complete
<1> QED
  BY <1>1, <1>2, <1>3 DEF Pipeline

\* A step that sets the newest receiver: what holds up a server is still there
\* if the server waited for it.
LEMMA StepNewest ==
  ASSUME Inv, phase # "build", phase' \in Phase \ {"build"}, turn' \in 1..Len(Signals),
         NEW r \in AnyReceiver, r.consumers = Newest.consumers,
         receivers' = [receivers EXCEPT ![Len(receivers)] = r],
         UNCHANGED <<config, shared, handle, exporter, routes, stream, request>>,
         phase' \notin {"start exporters", "start processors"},
         Complete \/ (phase' # "start receivers" /\ ~r.started),
         \/ Busy(Newest.grpc) => Busy(r.grpc)
         \/ stream # Len(receivers) /\ InFlight(Len(receivers), {"grpc", "arrow"}) = {},
         \/ Newest.timedOut \/ Busy(Newest.http) => r.timedOut \/ Busy(r.http)
         \/ InFlight(Len(receivers), {"http"}) = {}
  PROVE  Types' /\ Generations' /\ Pipeline' /\ Requests' /\ Newest' = r
<1>1. ~Unbuilt /\ ~Unbuilt'
  BY DEF Unbuilt
<1>2. /\ receivers' \in Seq(AnyReceiver) /\ Len(receivers') = Len(receivers)
      /\ Newest' = r
      /\ \A n \in 1..Len(receivers) : n # Len(receivers) => receivers'[n] = receivers[n]
  BY <1>1, SetNewest DEF Inv
<1>3. Types'
  BY <1>2 DEF Inv, Types
<1>4. Generations'
  BY <1>1, <1>2 DEF Inv, Generations
<1>5. Pipeline'
  <2>1. Complete' = Complete /\ \A s \in Signal : Route(s)' = Route(s)
    BY DEF Complete, Opened, Route, Available
  <2> QED
    BY <1>2, <2>1 DEF Inv, Pipeline
<1>6. Requests'
  <2>1. stream # 0 => Busy(r.grpc)
    BY DEF Inv, Requests, Types
  <2>2. ASSUME NEW q \in Request, request[q].state = "consuming" PROVE Held(request[q])'
    <3>1. Held(request[q])
      BY <2>2 DEF Inv, Requests
    <3>2. request[q].way = "grpc" => Busy(r.grpc)
      BY <2>2, <3>1 DEF Held, InFlight
    <3>3. request[q].way = "http" => r.timedOut \/ Busy(r.http)
      BY <2>2, <3>1 DEF Held, InFlight
    <3> QED
      BY <1>1, <1>2, <3>1, <3>2, <3>3 DEF Held
  <2> QED
    BY <1>1, <1>2, <2>1, <2>2 DEF Requests
<1> QED
  BY <1>2, <1>3, <1>4, <1>5, <1>6

LEMMA StartGRPCStep == Inv /\ StartGRPC => Inv'
<1> SUFFICES ASSUME Inv, StartGRPC PROVE Inv'
  OBVIOUS
<1>1. /\ phase = "start receivers" /\ Complete /\ ~Unbuilt
      /\ Receiver = Newest /\ handle[Mine] = Len(receivers)
      /\ Newest \in AnyReceiver /\ config.cfg \in Configs
      /\ ~Newest.started /\ Fresh(Newest)
      /\ UNCHANGED <<config, shared, handle, exporter, routes, stream, request>>
      /\ Newest.consumers = Signal
  BY MineIsNewest, NewestFacts, CollectorAssumption
     DEF StartGRPC, Inv, Pipeline, Phases, Types, Generations, AnyReceiver
<1>2. PICK r \in AnyReceiver :
        /\ r.consumers = Newest.consumers /\ r.started /\ ~r.stopped /\ r.http = "none"
        /\ receivers' = [receivers EXCEPT ![Len(receivers)] = r]
        /\ phase' \in {"stop receivers", "start http"} /\ turn' = 1
        /\ phase' = "start http" => ServesGRPC(r)
  <2>1. CASE config.cfg.grpc /\ ~AddressTaken("grpc")
             /\ SetReceiver([GRPCServing(Receiver, config.cfg) EXCEPT !.started = TRUE])
             /\ GoTo("start http")
    <3> DEFINE served == GRPCServing(Newest, config.cfg)
               r == [served EXCEPT !.started = TRUE]
    <3>1. /\ served \in AnyReceiver /\ served.consumers = Newest.consumers
          /\ served.stopped = Newest.stopped /\ served.http = Newest.http
          /\ served.grpc = "serving"
          /\ \A s \in Newest.consumers : <<"otlp", s>> \in served.services
      BY <1>1, StartedGRPC
    <3>2. receivers' = [receivers EXCEPT ![Len(receivers)] = r]
      BY <1>1, <2>1 DEF SetReceiver
    <3> HIDE DEF served
    <3>3. /\ r \in AnyReceiver /\ r.started /\ r.consumers = served.consumers
          /\ r.stopped = served.stopped /\ r.http = served.http /\ r.grpc = served.grpc
          /\ r.services = served.services
      BY <3>1, MarkedStarted
    <3> HIDE DEF r
    <3> QED
      BY <1>1, <2>1, <3>1, <3>2, <3>3 DEF GoTo, ServesGRPC, Fresh
  <2>2. CASE \E r \in GRPCFailures(Receiver, config.cfg) :
               SetReceiver([r EXCEPT !.started = TRUE]) /\ GoTo("stop receivers")
    <3>1. PICK failed \in GRPCFailures(Newest, config.cfg) :
            receivers' = [receivers EXCEPT ![Len(receivers)] = [failed EXCEPT !.started = TRUE]]
      BY <1>1, <2>2 DEF SetReceiver
    <3>2. phase' = "stop receivers" /\ turn' = 1
      BY <2>2 DEF GoTo
    <3> DEFINE r == [failed EXCEPT !.started = TRUE]
    <3>3. /\ failed \in AnyReceiver /\ failed.consumers = Newest.consumers
          /\ failed.stopped = Newest.stopped /\ failed.http = Newest.http
      BY <1>1, StartedGRPC
    <3>4. /\ r \in AnyReceiver /\ r.started /\ r.consumers = failed.consumers
          /\ r.stopped = failed.stopped /\ r.http = failed.http
      BY <3>3, MarkedStarted
    <3>5. receivers' = [receivers EXCEPT ![Len(receivers)] = r]
      BY <3>1
    <3> HIDE DEF r
    <3> QED
      BY <1>1, <3>2, <3>3, <3>4, <3>5 DEF Fresh
  <2>3. CASE ~config.cfg.grpc /\ SetReceiver([Receiver EXCEPT !.started = TRUE])
             /\ GoTo("start http")
    <3> DEFINE r == [Newest EXCEPT !.started = TRUE]
    <3>1. /\ r \in AnyReceiver /\ r.consumers = Newest.consumers /\ r.started
          /\ ~r.stopped /\ r.http = "none" /\ ServesGRPC(r)
      BY <1>1, <2>3 DEF Fresh, ServesGRPC, AnyReceiver
    <3>2. receivers' = [receivers EXCEPT ![Len(receivers)] = r]
      BY <1>1, <2>3 DEF SetReceiver
    <3> HIDE DEF r
    <3> QED
      BY <2>3, <3>1, <3>2 DEF GoTo
  <2> QED
    BY <1>1, <2>1, <2>2, <2>3 DEF StartGRPC
<1>3. /\ phase' \in Phase \ {"build", "start exporters", "start processors"}
      /\ turn' \in 1..Len(Signals)
  <2>1. phase' \in Phase \ {"build", "start exporters", "start processors"}
    BY <1>2 DEF Phase
  <2>2. turn' \in 1..Len(Signals)
    <3>1. turn' = 1
      BY <1>2, Zenon
    <3> QED
      BY <3>1, FirstTurn, Zenon
  <2> QED
    BY <2>1, <2>2
<1>4. ~Busy(Newest.grpc) /\ ~Newest.timedOut /\ ~Busy(Newest.http)
  BY <1>1 DEF Busy, Fresh
<1>5. Types' /\ Generations' /\ Pipeline' /\ Requests' /\ Newest' = r
  BY <1>4, <1>1, <1>2, <1>3, StepNewest
<1>6. Phases'
  BY <1>1, <1>2, <1>5 DEF Phases, ServesGRPC, Unbuilt
<1> QED
  BY <1>5, <1>6 DEF Inv

LEMMA StartHTTPStep == Inv /\ StartHTTP => Inv'
<1> SUFFICES ASSUME Inv, StartHTTP PROVE Inv'
  OBVIOUS
<1>1. /\ phase = "start http" /\ Complete /\ ~Unbuilt
      /\ Receiver = Newest /\ handle[Mine] = Len(receivers)
      /\ Newest \in AnyReceiver /\ receivers \in Seq(AnyReceiver)
      /\ Len(receivers) \in DOMAIN receivers
      /\ ~Newest.stopped /\ Newest.started /\ ServesGRPC(Newest) /\ Newest.http = "none"
      /\ UNCHANGED <<config, turn, shared, handle, exporter, routes, stream, request>>
  BY MineIsNewest, NewestFacts DEF StartHTTP, Inv, Pipeline, Phases, Types, Generations
<1>2. PICK r \in AnyReceiver :
        /\ r.consumers = Newest.consumers /\ r.started /\ ~r.stopped
        /\ r.grpc = Newest.grpc /\ r.services = Newest.services /\ r.timedOut = Newest.timedOut
        /\ receivers' = [receivers EXCEPT ![Len(receivers)] = r]
        /\ phase' \in {"stop receivers", "start receivers"}
        /\ phase' = "start receivers" => ServesHTTP(r)
  <2>1. CASE config.cfg.http /\ SetReceiver(HTTPServing(Receiver)) /\ phase' = "start receivers"
    <3> DEFINE r == HTTPServing(Newest)
    <3>1. /\ r \in AnyReceiver /\ r.consumers = Newest.consumers /\ r.started /\ ~r.stopped
          /\ r.grpc = Newest.grpc /\ r.services = Newest.services /\ r.timedOut = Newest.timedOut
          /\ r.http = "serving"
      BY <1>1 DEF HTTPServing, AnyReceiver, Server
    <3>2. receivers' = [receivers EXCEPT ![Len(receivers)] = r]
      BY <1>1, <2>1 DEF SetReceiver
    <3> HIDE DEF r
    <3> QED
      BY <2>1, <3>1, <3>2 DEF ServesHTTP
  <2>2. CASE \E r \in HTTPFailures(Receiver) : SetReceiver(r) /\ phase' = "stop receivers"
    <3>1. PICK r \in HTTPFailures(Newest) :
            receivers' = [receivers EXCEPT ![Len(receivers)] = r] /\ phase' = "stop receivers"
      BY <1>1, <2>2 DEF SetReceiver
    <3>2. /\ r \in AnyReceiver /\ r.consumers = Newest.consumers /\ r.started /\ ~r.stopped
          /\ r.grpc = Newest.grpc /\ r.services = Newest.services /\ r.timedOut = Newest.timedOut
      BY <1>1 DEF HTTPFailures, AnyReceiver, Server
    <3> QED
      BY <3>1, <3>2
  <2>3. CASE ~config.cfg.http /\ UNCHANGED receivers /\ phase' = "start receivers"
    <3>1. receivers' = [receivers EXCEPT ![Len(receivers)] = Newest]
      <4>1. receivers \in [1..Len(receivers) -> AnyReceiver] /\ DOMAIN receivers = 1..Len(receivers)
        BY <1>1, LenProperties
      <4> QED
        BY <1>1, <2>3, <4>1 DEF Newest
    <3> QED
      BY <1>1, <2>3, <3>1 DEF ServesHTTP
  <2> QED
    BY <2>1, <2>2, <2>3 DEF StartHTTP
<1>3. phase' \in Phase \ {"build", "start exporters", "start processors"}
  BY <1>2 DEF Phase
<1>4. Types' /\ Generations' /\ Pipeline' /\ Requests' /\ Newest' = r
  <2>1. turn' \in 1..Len(Signals)
    BY <1>1 DEF Inv, Types
  <2>2. ~Busy(Newest.http)
    BY <1>1 DEF Busy
  <2> QED
    BY <1>1, <1>2, <1>3, <2>1, <2>2, StepNewest
<1>5. ServesGRPC(r)'
  BY <1>1, <1>2 DEF ServesGRPC
<1>6. phase' = "start receivers" => ServesHTTP(r)'
  BY <1>1, <1>2 DEF ServesHTTP
<1>7. Phases'
  BY <1>2, <1>4, <1>5, <1>6 DEF Phases, Unbuilt
<1> QED
  BY <1>4, <1>7 DEF Inv

LEMMA ServeFailsStep == Inv /\ (\E n \in DOMAIN receivers : ServeFails(n)) => Inv'
<1> SUFFICES ASSUME Inv, NEW n \in DOMAIN receivers, ServeFails(n) PROVE Inv'
  OBVIOUS
<1>1. /\ phase = "running" /\ ~Unbuilt /\ receivers \in Seq(AnyReceiver)
      /\ Newest \in AnyReceiver /\ Len(receivers) \in DOMAIN receivers
      /\ ~Newest.stopped
      /\ UNCHANGED <<config, shared, handle, exporter, routes, stream, request>>
  BY MineIsNewest, NewestFacts DEF ServeFails, Inv, Phases, Types
<1>2. n = Len(receivers)
  <2>1. n \in 1..Len(receivers)
    BY <1>1, LenProperties
  <2> QED
    BY <2>1 DEF ServeFails, Inv, Generations, Closed
<1>3. PICK r \in AnyReceiver :
        /\ r.consumers = Newest.consumers /\ r.started = Newest.started /\ ~r.stopped
        /\ r.timedOut = Newest.timedOut
        /\ r.grpc = Newest.grpc \/ (Newest.grpc = "serving" /\ r.grpc = "broken")
        /\ r.http = Newest.http \/ (Newest.http = "serving" /\ r.http = "broken")
        /\ receivers' = [receivers EXCEPT ![Len(receivers)] = r]
  <2>1. CASE Newest.grpc = "serving" /\ receivers' = [receivers EXCEPT ![n].grpc = "broken"]
    <3> DEFINE r == [Newest EXCEPT !.grpc = "broken"]
    <3>1. /\ r \in AnyReceiver /\ r.consumers = Newest.consumers
          /\ r.started = Newest.started /\ ~r.stopped /\ r.timedOut = Newest.timedOut
          /\ r.grpc = "broken" /\ r.http = Newest.http
      BY <1>1 DEF AnyReceiver, Server
    <3>2. receivers' = [receivers EXCEPT ![Len(receivers)] = r]
      BY <1>2, <2>1 DEF Newest
    <3> HIDE DEF r
    <3> QED
      BY <2>1, <3>1, <3>2
  <2>2. CASE Newest.http = "serving" /\ receivers' = [receivers EXCEPT ![n].http = "broken"]
    <3> DEFINE r == [Newest EXCEPT !.http = "broken"]
    <3>1. /\ r \in AnyReceiver /\ r.consumers = Newest.consumers
          /\ r.started = Newest.started /\ ~r.stopped /\ r.timedOut = Newest.timedOut
          /\ r.http = "broken" /\ r.grpc = Newest.grpc
      BY <1>1 DEF AnyReceiver, Server
    <3>2. receivers' = [receivers EXCEPT ![Len(receivers)] = r]
      BY <1>2, <2>2 DEF Newest
    <3> HIDE DEF r
    <3> QED
      BY <2>2, <3>1, <3>2
  <2> QED
    BY <1>2, <2>1, <2>2 DEF ServeFails, Newest
<1>4. phase' = "stop receivers" /\ phase' \in Phase /\ turn' = 1 /\ turn' \in 1..Len(Signals)
  <2>1. phase' = "stop receivers" /\ turn' = 1
    BY DEF ServeFails, GoTo
  <2>2. phase' \in Phase
    BY <2>1 DEF Phase
  <2>3. turn' \in 1..Len(Signals)
    BY <2>1, FirstTurn, Zenon
  <2> QED
    BY <2>1, <2>2, <2>3
<1>5. Types' /\ Generations' /\ Pipeline' /\ Requests' /\ Newest' = r
  <2>1. Complete \/ ~r.started
    BY <1>1, <1>3 DEF Inv, Pipeline
  <2>2. (Busy(Newest.grpc) => Busy(r.grpc)) /\ (Busy(Newest.http) => Busy(r.http))
    BY <1>3 DEF Busy
  <2>3. Newest.timedOut \/ Busy(Newest.http) => r.timedOut \/ Busy(r.http)
    BY <1>3, <2>2
  <2> QED
    BY <1>1, <1>3, <1>4, <2>1, <2>2, <2>3, StepNewest
<1>6. ~r.started => r.grpc = "none" /\ r.http = "none"
  BY <1>1, <1>3 DEF Inv, Phases
<1>7. Phases'
  BY <1>3, <1>4, <1>5, <1>6 DEF Phases, Unbuilt
<1> QED
  BY <1>5, <1>7 DEF Inv

\* What a server comes to while it is closed.
LEMMA Closing ==
  ASSUME NEW r \in AnyReceiver
  PROVE  LET stopped == [CloseHTTP(r) EXCEPT !.stopped = TRUE] IN
         /\ stopped \in AnyReceiver /\ stopped.stopped
         /\ stopped.http = CloseServer(r.http) /\ stopped.grpc = r.grpc
         /\ stopped.started = r.started /\ stopped.consumers = r.consumers
         /\ stopped.timedOut = r.timedOut
  BY DEF AnyReceiver, Server, CloseHTTP, CloseServer

LEMMA StopHTTPStep == Inv /\ StopHTTP => Inv'
<1> SUFFICES ASSUME Inv, StopHTTP PROVE Inv'
  OBVIOUS
<1>1. /\ phase = "stop receivers" /\ ~Unbuilt
      /\ Receiver = Newest /\ handle[Mine] = Len(receivers) /\ Newest \in AnyReceiver
      /\ phase' = "close http" /\ phase' \in Phase /\ turn' \in 1..Len(Signals)
      /\ UNCHANGED <<config, turn, shared, handle, exporter, routes, stream, request>>
  BY MineIsNewest, NewestFacts DEF StopHTTP, Inv, Types, Phase
<1> DEFINE r == [CloseHTTP(Newest) EXCEPT !.stopped = TRUE]
<1>2. /\ r \in AnyReceiver /\ r.stopped /\ r.consumers = Newest.consumers
      /\ r.started = Newest.started /\ r.timedOut = Newest.timedOut
      /\ r.grpc = Newest.grpc /\ r.http = CloseServer(Newest.http)
  BY <1>1, Closing
<1>3. receivers' = [receivers EXCEPT ![Len(receivers)] = r]
  BY <1>1 DEF StopHTTP, SetReceiver
<1> HIDE DEF r
<1>4. /\ Busy(Newest.http) => Busy(r.http)
      /\ r.http \in {"none", "closing", "stopped"}
      /\ Newest.http = "none" => r.http = "none"
  BY <1>1, <1>2 DEF Busy, CloseServer, AnyReceiver, Server
<1>5. Types' /\ Generations' /\ Pipeline' /\ Requests' /\ Newest' = r
  <2>1. Complete \/ ~r.started
    BY <1>1, <1>2 DEF Inv, Pipeline
  <2>2. Newest.timedOut \/ Busy(Newest.http) => r.timedOut \/ Busy(r.http)
    BY <1>2, <1>4
  <2> QED
    BY <1>1, <1>2, <1>3, <2>1, <2>2, StepNewest
<1>6. ~r.started => r.grpc = "none" /\ r.http = "none"
  BY <1>1, <1>2, <1>4 DEF Inv, Phases
<1>7. Phases'
  BY <1>1, <1>2, <1>4, <1>5, <1>6 DEF Phases, Unbuilt
<1> QED
  BY <1>5, <1>7 DEF Inv

LEMMA ClosingGRPC ==
  ASSUME NEW r \in AnyReceiver, r.http \in {"none", "closing", "stopped"},
         NEW drained, drained = HTTPDrained(r) \/ drained = HTTPTimesOut(r),
         NEW q, q = CloseGRPC(drained)
  PROVE  /\ q \in AnyReceiver
         /\ q.grpc = CloseServer(r.grpc) /\ q.http \in {"none", "stopped"}
         /\ q.http = "none" <=> r.http = "none"
         /\ q.started = r.started /\ q.stopped = r.stopped /\ q.consumers = r.consumers
         /\ drained = HTTPTimesOut(r) => q.timedOut
  BY DEF AnyReceiver, Server, CloseGRPC, HTTPTimesOut, HTTPDrained, CloseServer

LEMMA StopGRPCStep == Inv /\ StopGRPC => Inv'
<1> SUFFICES ASSUME Inv, StopGRPC PROVE Inv'
  OBVIOUS
<1>1. /\ phase = "close http" /\ ~Unbuilt
      /\ Receiver = Newest /\ handle[Mine] = Len(receivers) /\ Newest \in AnyReceiver
      /\ Newest.stopped /\ Newest.http \in {"none", "closing", "stopped"}
      /\ phase' = "close grpc" /\ phase' \in Phase /\ turn' \in 1..Len(Signals)
      /\ UNCHANGED <<config, turn, shared, handle, exporter, routes, stream, request>>
  BY MineIsNewest, NewestFacts DEF StopGRPC, Inv, Types, Phase, Phases
<1>2. PICK drained \in {HTTPDrained(Newest), HTTPTimesOut(Newest)} :
        /\ receivers' = [receivers EXCEPT ![Len(receivers)] = CloseGRPC(drained)]
        /\ InFlight(Len(receivers), {"http"}) = {} \/ drained = HTTPTimesOut(Newest)
  BY <1>1 DEF StopGRPC, SetReceiver
<1> DEFINE r == CloseGRPC(drained)
<1>3. receivers' = [receivers EXCEPT ![Len(receivers)] = r]
  BY <1>2
<1>4. /\ r \in AnyReceiver
      /\ r.grpc = CloseServer(Newest.grpc) /\ r.http \in {"none", "stopped"}
      /\ r.http = "none" <=> Newest.http = "none"
      /\ r.started = Newest.started /\ r.stopped /\ r.consumers = Newest.consumers
      /\ drained = HTTPTimesOut(Newest) => r.timedOut
  <2>1. Newest \in AnyReceiver /\ Newest.http \in {"none", "closing", "stopped"}
    BY <1>1
  <2>2. drained = HTTPDrained(Newest) \/ drained = HTTPTimesOut(Newest)
    OBVIOUS
  <2>3. r = CloseGRPC(drained)
    OBVIOUS
  <2> HIDE DEF r
  <2>4. /\ r \in AnyReceiver
        /\ r.grpc = CloseServer(Newest.grpc) /\ r.http \in {"none", "stopped"}
        /\ r.http = "none" <=> Newest.http = "none"
        /\ r.started = Newest.started /\ r.stopped = Newest.stopped
        /\ r.consumers = Newest.consumers
        /\ drained = HTTPTimesOut(Newest) => r.timedOut
    BY <2>1, <2>2, <2>3, ClosingGRPC
  <2> QED
    BY <1>1, <2>4
<1> HIDE DEF r
<1>5. /\ Busy(Newest.grpc) => Busy(r.grpc)
      /\ r.grpc \in {"none", "closing", "stopped"}
      /\ Newest.grpc = "none" => r.grpc = "none"
  BY <1>1, <1>4 DEF Busy, CloseServer, AnyReceiver, Server
<1>6. Types' /\ Generations' /\ Pipeline' /\ Requests' /\ Newest' = r
  <2>1. Complete \/ ~r.started
    BY <1>1, <1>4 DEF Inv, Pipeline
  <2>2. \/ Newest.timedOut \/ Busy(Newest.http) => r.timedOut \/ Busy(r.http)
        \/ InFlight(Len(receivers), {"http"}) = {}
    BY <1>2, <1>4
  <2> QED
    BY <1>1, <1>3, <1>4, <1>5, <2>1, <2>2, StepNewest
<1>7. ~r.started => r.grpc = "none" /\ r.http = "none"
  BY <1>1, <1>4, <1>5 DEF Inv, Phases
<1>8. Phases'
  BY <1>1, <1>4, <1>5, <1>6, <1>7 DEF Phases, Unbuilt
<1> QED
  BY <1>6, <1>8 DEF Inv

LEMMA DrainedGRPC ==
  ASSUME NEW r \in AnyReceiver, r.grpc \in {"none", "closing", "stopped"}
  PROVE  LET q == GRPCDrained(r) IN
         /\ q \in AnyReceiver
         /\ q.grpc \in {"none", "stopped"} /\ q.http = r.http
         /\ q.grpc = "none" <=> r.grpc = "none"
         /\ q.started = r.started /\ q.stopped = r.stopped /\ q.consumers = r.consumers
         /\ q.timedOut = r.timedOut
  BY DEF AnyReceiver, Server, GRPCDrained

LEMMA AwaitGRPCStep == Inv /\ AwaitGRPC => Inv'
<1> SUFFICES ASSUME Inv, AwaitGRPC PROVE Inv'
  OBVIOUS
<1>1. /\ phase = "close grpc" /\ ~Unbuilt
      /\ Receiver = Newest /\ handle[Mine] = Len(receivers) /\ Newest \in AnyReceiver
      /\ Newest.stopped /\ Newest.http \in {"none", "stopped"}
      /\ Newest.grpc \in {"none", "closing", "stopped"}
      /\ phase' = "await servers" /\ phase' \in Phase /\ turn' \in 1..Len(Signals)
      /\ UNCHANGED <<config, turn, shared, handle, exporter, routes, stream, request>>
  BY MineIsNewest, NewestFacts DEF AwaitGRPC, Inv, Types, Phase, Phases
<1> DEFINE r == GRPCDrained(Newest)
<1>2. /\ receivers' = [receivers EXCEPT ![Len(receivers)] = r]
      /\ InFlight(Len(receivers), {"grpc", "arrow"}) = {} /\ stream # Len(receivers)
  BY <1>1 DEF AwaitGRPC, SetReceiver, GracefullyStopped
<1>3. /\ r \in AnyReceiver
      /\ r.grpc \in {"none", "stopped"} /\ r.http = Newest.http
      /\ r.grpc = "none" <=> Newest.grpc = "none"
      /\ r.started = Newest.started /\ r.stopped /\ r.consumers = Newest.consumers
      /\ r.timedOut = Newest.timedOut
  BY <1>1, DrainedGRPC
<1> HIDE DEF r
<1>4. Types' /\ Generations' /\ Pipeline' /\ Requests' /\ Newest' = r
  <2>1. Complete \/ ~r.started
    BY <1>1, <1>3 DEF Inv, Pipeline
  <2>2. Newest.timedOut \/ Busy(Newest.http) => r.timedOut \/ Busy(r.http)
    BY <1>3
  <2> QED
    BY <1>1, <1>2, <1>3, <2>1, <2>2, StepNewest
<1>5. ~r.started => r.grpc = "none" /\ r.http = "none"
  BY <1>1, <1>3 DEF Inv, Phases
<1>6. Closed(r)
  BY <1>1, <1>3 DEF Closed
<1>7. Phases'
  BY <1>1, <1>3, <1>4, <1>5, <1>6 DEF Phases, Unbuilt
<1> QED
  BY <1>4, <1>7 DEF Inv

\* A step that leaves receivers and requests alone.
LEMMA StepService ==
  ASSUME Inv, phase # "build", phase' \in Phase \ {"build"}, turn' \in 1..Len(Signals),
         shared' \in {0, Len(receivers)}, exporter' \in [Exporter -> AnyExporter],
         UNCHANGED <<config, receivers, handle, stream, request>>
  PROVE  Types' /\ Generations' /\ Requests' /\ Newest' = Newest /\ ~Unbuilt'
<1>1. ~Unbuilt /\ ~Unbuilt' /\ Newest' = Newest
  BY DEF Unbuilt, Newest
<1>2. Types'
  BY DEF Inv, Types
<1>3. Generations'
  BY <1>1 DEF Inv, Generations
<1>4. Requests'
  BY <1>1 DEF Inv, Requests, Held
<1> QED
  BY <1>1, <1>2, <1>3, <1>4

LEMMA TurnIsNat == turn \in 1..Len(Signals) => turn \in Nat \ {0}
<1>1. Len(Signals) \in Nat
  BY SignalFacts
<1> QED
  BY <1>1

LEMMA Turns ==
  ASSUME turn \in 1..Len(Signals), NEW then, Onward(then)
  PROVE  /\ turn' \in 1..Len(Signals)
         /\ \/ phase' = then /\ LastTurn /\ turn' = 1
            \/ phase' = phase /\ ~LastTurn /\ turn' = turn + 1
<1>1. Len(Signals) \in Nat \ {0}
  BY SignalFacts
<1>2. CASE LastTurn
  <2>1. turn' = 1 /\ phase' = then
    BY <1>2 DEF Onward
  <2> QED
    BY <1>2, <2>1, FirstTurn, Zenon
<1>3. CASE ~LastTurn
  <2>1. turn' = turn + 1 /\ phase' = phase
    BY <1>3 DEF Onward
  <2>2. turn + 1 \in 1..Len(Signals)
    BY <1>1, <1>3 DEF LastTurn
  <2> QED
    BY <1>3, <2>1, <2>2, Zenon
<1> QED
  BY <1>2, <1>3

\* When the last turn ends, every signal has had its turn.
LEMMA AllTurns ==
  ASSUME turn \in 1..Len(Signals), LastTurn, NEW s \in Signal
  PROVE  \E i \in 1..Len(Signals) : Signals[i] = s /\ (i < turn \/ Signals[i] = Mine)
<1>1. PICK i \in 1..Len(Signals) : Signals[i] = s
  BY SignalFacts
<1>2. Len(Signals) \in Nat
  BY SignalFacts
<1>3. i < turn \/ i = turn
  BY <1>1, <1>2 DEF LastTurn
<1> QED
  BY <1>1, <1>3 DEF Mine

LEMMA StartExportersStep == Inv /\ StartExporters => Inv'
<1> SUFFICES ASSUME Inv, StartExporters PROVE Inv'
  OBVIOUS
<1>1. /\ phase = "start exporters" /\ Fresh(Newest) /\ ~Newest.started
      /\ turn \in 1..Len(Signals) /\ exporter \in [Exporter -> AnyExporter]
      /\ shared \in {0, Len(receivers)}
      /\ UNCHANGED <<config, receivers, shared, handle, routes, stream, request>>
  BY DEF StartExporters, Inv, Types, Phases, Fresh
<1>2. PICK started \in SUBSET Available(Mine) :
        \E connected \in SUBSET (Available(Mine) \ started) :
          /\ exporter' = [e \in Exporter |->
               CASE e \in started -> StartExporter(exporter[e], config.arrowDisabled)
                 [] e \in connected -> StartFailsLate(exporter[e])
                 [] OTHER -> exporter[e]]
          /\ IF started = Available(Mine) THEN Onward("start processors")
             ELSE GoTo("stop receivers")
  BY DEF StartExporters
<1>3. PICK connected \in SUBSET (Available(Mine) \ started) :
        exporter' = [e \in Exporter |->
          CASE e \in started -> StartExporter(exporter[e], config.arrowDisabled)
            [] e \in connected -> StartFailsLate(exporter[e])
            [] OTHER -> exporter[e]]
  BY <1>2
<1>4. /\ exporter' \in [Exporter -> AnyExporter]
      /\ \A e \in Exporter : exporter[e].conn = "open" => exporter'[e].conn = "open"
      /\ \A e \in Exporter : e \in started => exporter'[e].conn = "open"
  <2>1. \A e \in Exporter : exporter[e] \in AnyExporter
    BY <1>1
  <2>2. ASSUME NEW e \in Exporter
        PROVE  /\ exporter'[e] \in AnyExporter
               /\ exporter[e].conn = "open" => exporter'[e].conn = "open"
               /\ e \in started => exporter'[e].conn = "open"
    <3>1. CASE e \in started
      BY <1>3, <2>1, <3>1 DEF StartExporter, AnyExporter
    <3>2. CASE e \notin started /\ e \in connected
      BY <1>3, <2>1, <3>2 DEF StartFailsLate, AnyExporter
    <3>3. CASE e \notin started /\ e \notin connected
      BY <1>3, <2>1, <3>3
    <3> QED
      BY <3>1, <3>2, <3>3
  <2>3. exporter' = [e \in Exporter |-> exporter'[e]]
    BY <1>3
  <2> QED
    BY <2>2, <2>3
<1>5. CASE started = Available(Mine) /\ Onward("start processors")
  <2>1. /\ turn' \in 1..Len(Signals)
        /\ \/ phase' = "start processors" /\ LastTurn /\ turn' = 1
           \/ phase' = "start exporters" /\ ~LastTurn /\ turn' = turn + 1
    BY <1>1, <1>5, Turns
  <2>2. phase' \in Phase \ {"build"}
    BY <2>1 DEF Phase
  <2>3. Types' /\ Generations' /\ Requests' /\ Newest' = Newest /\ ~Unbuilt'
    BY <1>1, <1>4, <2>1, <2>2, StepService
  <2>4. Phases'
    BY <1>1, <2>1, <2>3 DEF Phases, Fresh
  <2>5. \A i \in 1..Len(Signals) : i < turn \/ Signals[i] = Mine => Opened(Signals[i])'
    BY <1>1, <1>4, <1>5 DEF Inv, Pipeline, Opened, Available
  <2>6. CASE phase' = "start processors" /\ LastTurn /\ turn' = 1
    <3>1. \A s \in Signal : Opened(s)'
      BY <1>1, <2>5, <2>6, AllTurns
    <3>2. \A i \in 1..Len(Signals) : ~(i < turn')
      <4>1. turn' = 1
        BY <2>6
      <4>2. \A i \in 1..Len(Signals) : ~(i < 1)
        OBVIOUS
      <4> QED
        BY <4>1, <4>2, Zenon
    <3> QED
      BY <1>1, <2>3, <2>4, <2>6, <3>1, <3>2 DEF Inv, Pipeline, Route, Available
  <2>7. CASE phase' = "start exporters" /\ ~LastTurn /\ turn' = turn + 1
    <3>1. \A i \in 1..Len(Signals) : i < turn' => Opened(Signals[i])'
      <4>1. turn' = turn + 1 /\ turn \in Nat
        BY <1>1, <2>7, TurnIsNat, Zenon
      <4>2. ASSUME NEW i \in 1..Len(Signals), i < turn + 1 PROVE i < turn \/ i = turn
        BY <4>1, <4>2
      <4> QED
        BY <2>5, <4>1, <4>2 DEF Mine
    <3> QED
      BY <1>1, <2>3, <2>4, <2>7, <3>1 DEF Inv, Pipeline, Route, Available
  <2> QED
    BY <2>1, <2>6, <2>7
<1>6. CASE GoTo("stop receivers")
  <2>1. phase' = "stop receivers" /\ turn' = 1
    BY <1>6 DEF GoTo
  <2>2. phase' \in Phase \ {"build"} /\ turn' \in 1..Len(Signals)
    <3>1. phase' \in Phase \ {"build"}
      BY <2>1 DEF Phase
    <3> QED
      BY <2>1, <3>1, FirstTurn, Zenon
  <2>3. Types' /\ Generations' /\ Requests' /\ Newest' = Newest /\ ~Unbuilt'
    BY <1>1, <1>4, <2>2, StepService
  <2>4. Phases'
    BY <1>1, <2>1, <2>3 DEF Phases, Fresh
  <2>5. Pipeline'
    BY <1>1, <2>1, <2>3 DEF Inv, Pipeline, Route, Available
  <2> QED
    BY <2>3, <2>4, <2>5 DEF Inv
<1> QED
  BY <1>2, <1>5, <1>6

LEMMA StartProcessorStep == Inv /\ StartProcessor => Inv'
<1> SUFFICES ASSUME Inv, StartProcessor PROVE Inv'
  OBVIOUS
<1>1. /\ phase = "start processors" /\ Fresh(Newest) /\ ~Newest.started
      /\ turn \in 1..Len(Signals) /\ exporter \in [Exporter -> AnyExporter]
      /\ shared \in {0, Len(receivers)} /\ Mine \in Signal
      /\ UNCHANGED <<config, receivers, shared, handle, exporter, stream, request>>
  BY MineIsNewest DEF StartProcessor, Inv, Types, Phases, Fresh
<1>2. CASE GoTo("stop receivers") /\ UNCHANGED routes
  <2>1. phase' = "stop receivers" /\ turn' = 1
    BY <1>2 DEF GoTo
  <2>2. phase' \in Phase \ {"build"} /\ turn' \in 1..Len(Signals)
    <3>1. phase' \in Phase \ {"build"}
      BY <2>1 DEF Phase
    <3> QED
      BY <2>1, <3>1, FirstTurn, Zenon
  <2>3. Types' /\ Generations' /\ Requests' /\ Newest' = Newest /\ ~Unbuilt'
    BY <1>1, <2>2, StepService
  <2>4. Phases'
    BY <1>1, <2>1, <2>3 DEF Phases, Fresh
  <2>5. Pipeline'
    BY <1>1, <1>2, <2>1, <2>3 DEF Inv, Pipeline, Route, Available
  <2> QED
    BY <2>3, <2>4, <2>5 DEF Inv
<1>3. CASE Onward("start receivers") /\ routes' = [routes EXCEPT ![Mine] = Route(Mine)]
  <2>1. /\ turn' \in 1..Len(Signals)
        /\ \/ phase' = "start receivers" /\ LastTurn /\ turn' = 1
           \/ phase' = "start processors" /\ ~LastTurn /\ turn' = turn + 1
    BY <1>1, <1>3, Turns
  <2>2. phase' \in Phase \ {"build"}
    BY <2>1 DEF Phase
  <2>3. Types' /\ Generations' /\ Requests' /\ Newest' = Newest /\ ~Unbuilt'
    BY <1>1, <2>1, <2>2, StepService
  <2>4. Phases'
    BY <1>1, <2>1, <2>3 DEF Phases, Fresh
  <2>5. \A s \in Signal : Route(s)' = Route(s) /\ Opened(s)' = Opened(s)
    BY <1>1 DEF Route, Available, Opened
  <2>6. /\ DOMAIN routes' = Signal /\ \A s \in Signal : routes'[s] \in {<<>>, Route(s)}
        /\ \A i \in 1..Len(Signals) :
             i < turn \/ Signals[i] = Mine => routes'[Signals[i]] = Route(Signals[i])
        /\ \A s \in Signal : Opened(s)
    BY <1>1, <1>3, SignalFacts DEF Inv, Pipeline
  <2>7. CASE phase' = "start receivers" /\ LastTurn /\ turn' = 1
    <3>1. \A s \in Signal : routes'[s] = Route(s)
      <4>1. SUFFICES ASSUME NEW s \in Signal PROVE routes'[s] = Route(s)
        OBVIOUS
      <4>2. PICK i \in 1..Len(Signals) : Signals[i] = s /\ (i < turn \/ Signals[i] = Mine)
        BY <1>1, <2>7, AllTurns
      <4> QED
        BY <2>6, <4>2
    <3>2. Complete'
      BY <2>5, <2>6, <3>1 DEF Complete
    <3>3. Pipeline'
      BY <2>5, <2>6, <2>7, <3>2 DEF Pipeline
    <3> QED
      BY <2>3, <2>4, <3>3 DEF Inv
  <2>8. CASE phase' = "start processors" /\ ~LastTurn /\ turn' = turn + 1
    <3>1. \A i \in 1..Len(Signals) : i < turn' => routes'[Signals[i]] = Route(Signals[i])
      <4>1. turn \in Nat
        BY <1>1, TurnIsNat
      <4>2. ASSUME NEW i \in 1..Len(Signals), i < turn + 1 PROVE i < turn \/ i = turn
        BY <4>1, <4>2
      <4> QED
        BY <2>6, <2>8, <4>2 DEF Mine
    <3>2. Pipeline'
      <4>1. \A i \in 1..Len(Signals) : Route(Signals[i])' = Route(Signals[i])
        BY <2>5, SignalFacts
      <4>2. ~Newest'.started
        BY <1>1, <2>3
      <4> QED
        BY <2>5, <2>6, <2>8, <3>1, <4>1, <4>2 DEF Pipeline
    <3> QED
      BY <2>3, <2>4, <3>2 DEF Inv
  <2> QED
    BY <2>1, <2>7, <2>8
<1> QED
  BY <1>2, <1>3 DEF StartProcessor, Route

\* A step that only takes the service to another phase, and may take the
\* receiver from the map.
LEMMA StepPhase ==
  ASSUME Inv, phase # "build", phase' \in Phase \ {"build"}, turn' \in 1..Len(Signals),
         shared' \in {0, Len(receivers)},
         phase' \notin {"start exporters", "start processors"},
         phase' = "start receivers" => Complete,
         phase \in {"stop exporters", "stopped"} => phase' \in {"stop exporters", "stopped"},
         UNCHANGED <<config, receivers, handle, exporter, routes, stream, request>>
  PROVE  /\ Types' /\ Generations' /\ Requests' /\ Newest' = Newest /\ ~Unbuilt'
         /\ Pipeline'
<1>1. Types' /\ Generations' /\ Requests' /\ Newest' = Newest /\ ~Unbuilt'
  <2>1. exporter' \in [Exporter -> AnyExporter]
    BY DEF Inv, Types
  <2> QED
    BY <2>1, StepService
<1>2. Complete' = Complete /\ \A s \in Signal : Route(s)' = Route(s)
  BY DEF Complete, Opened, Route, Available
<1>3. Pipeline'
  BY <1>1, <1>2 DEF Inv, Pipeline
<1> QED
  BY <1>1, <1>3

LEMMA StartAgainStep == Inv /\ StartAgain => Inv'
<1> SUFFICES ASSUME Inv, StartAgain PROVE Inv'
  OBVIOUS
<1>1. /\ phase = "start receivers" /\ Newest.started /\ turn \in 1..Len(Signals)
      /\ shared \in {0, Len(receivers)} /\ Complete
      /\ UNCHANGED <<config, receivers, shared, handle, exporter, routes, stream, request>>
  BY MineIsNewest DEF StartAgain, Inv, Types, Pipeline
<1>2. phase' \in {"running", "start receivers"} /\ turn' \in 1..Len(Signals)
  BY <1>1, Turns DEF StartAgain
<1>3. Types' /\ Generations' /\ Requests' /\ Newest' = Newest /\ ~Unbuilt' /\ Pipeline'
  BY <1>1, <1>2, StepPhase DEF Phase
<1>4. ServesGRPC(Newest)' = ServesGRPC(Newest) /\ ServesHTTP(Newest)' = ServesHTTP(Newest)
  BY <1>1, <1>3 DEF ServesGRPC, ServesHTTP
<1>5. ~Newest.stopped /\ ServesGRPC(Newest) /\ ServesHTTP(Newest)
  BY <1>1 DEF Inv, Phases
<1>6. Phases'
  BY <1>1, <1>2, <1>3, <1>4, <1>5 DEF Phases
<1> QED
  BY <1>3, <1>6 DEF Inv

LEMMA StopStep == Inv /\ Stop => Inv'
<1> SUFFICES ASSUME Inv, Stop PROVE Inv'
  OBVIOUS
<1>1. /\ phase = "running" /\ phase' = "stop receivers" /\ turn' = 1
      /\ shared \in {0, Len(receivers)} /\ ~Newest.stopped /\ ~Unbuilt
      /\ UNCHANGED <<config, receivers, shared, handle, exporter, routes, stream, request>>
  BY DEF Stop, GoTo, Inv, Types, Phases, Unbuilt
<1>2. phase' \in Phase /\ turn' \in 1..Len(Signals)
  <2>1. phase' \in Phase
    BY <1>1 DEF Phase
  <2> QED
    BY <1>1, <2>1, FirstTurn, Zenon
<1>3. Types' /\ Generations' /\ Requests' /\ Newest' = Newest /\ ~Unbuilt' /\ Pipeline'
  BY <1>1, <1>2, StepPhase
<1>4. Phases'
  BY <1>1, <1>3 DEF Inv, Phases
<1> QED
  BY <1>3, <1>4 DEF Inv

LEMMA StopAgainStep == Inv /\ StopAgain => Inv'
<1> SUFFICES ASSUME Inv, StopAgain PROVE Inv'
  OBVIOUS
<1>1. /\ phase = "stop receivers" /\ Newest.stopped /\ turn \in 1..Len(Signals) /\ ~Unbuilt
      /\ shared = 0 /\ Closed(Newest)
      /\ UNCHANGED <<config, receivers, shared, handle, exporter, routes, stream, request>>
  BY MineIsNewest DEF StopAgain, Inv, Types, Phases
<1>2. phase' \in {"stop receivers", "stop exporters"} /\ turn' \in 1..Len(Signals)
  BY <1>1, Turns DEF StopAgain
<1>3. Types' /\ Generations' /\ Requests' /\ Newest' = Newest /\ ~Unbuilt' /\ Pipeline'
  BY <1>1, <1>2, StepPhase DEF Phase
<1>4. Closed(Newest)' /\ (~Newest.started => Newest.grpc = "none" /\ Newest.http = "none")
  BY <1>1, <1>3 DEF Closed, Inv, Phases
<1>5. Phases'
  BY <1>1, <1>2, <1>3, <1>4 DEF Phases
<1> QED
  BY <1>3, <1>5 DEF Inv

LEMMA AwaitServersStep == Inv /\ AwaitServers => Inv'
<1> SUFFICES ASSUME Inv, AwaitServers PROVE Inv'
  OBVIOUS
<1>1. /\ phase = "await servers" /\ Newest.stopped /\ Closed(Newest) /\ ~Unbuilt
      /\ phase' = "stop receivers" /\ shared' = 0 /\ turn' \in 1..Len(Signals)
      /\ UNCHANGED <<config, turn, receivers, handle, exporter, routes, stream, request>>
  BY DEF AwaitServers, Removed, Inv, Types, Phases, Unbuilt
<1>2. Types' /\ Generations' /\ Requests' /\ Newest' = Newest /\ ~Unbuilt' /\ Pipeline'
  BY <1>1, StepPhase DEF Phase
<1>3. Closed(Newest)' /\ (~Newest.started => Newest.grpc = "none" /\ Newest.http = "none")
  BY <1>1, <1>2 DEF Closed, Inv, Phases
<1>4. Phases'
  BY <1>1, <1>2, <1>3 DEF Phases
<1> QED
  BY <1>2, <1>4 DEF Inv

LEMMA StopExportersStep == Inv /\ StopExporters => Inv'
<1> SUFFICES ASSUME Inv, StopExporters PROVE Inv'
  OBVIOUS
<1>1. /\ phase = "stop exporters" /\ shared = 0 /\ Closed(Newest) /\ turn \in 1..Len(Signals)
      /\ ~Unbuilt /\ exporter \in [Exporter -> AnyExporter]
      /\ UNCHANGED <<config, receivers, shared, handle, routes, stream, request>>
  BY DEF StopExporters, Inv, Types, Phases, Unbuilt
<1>2. phase' \in {"stop exporters", "stopped"} /\ turn' \in 1..Len(Signals)
  BY <1>1, Turns DEF StopExporters
<1>3. exporter' \in [Exporter -> AnyExporter]
  <2>1. \A e \in Exporter : ShutdownExporter(exporter[e]) \in AnyExporter
    BY <1>1 DEF ShutdownExporter, AnyExporter
  <2> QED
    BY <1>1, <2>1 DEF StopExporters
<1>4. Types' /\ Generations' /\ Requests' /\ Newest' = Newest /\ ~Unbuilt'
  BY <1>1, <1>2, <1>3, StepService DEF Phase
<1>5. Closed(Newest)' /\ (~Newest.started => Newest.grpc = "none" /\ Newest.http = "none")
  BY <1>1, <1>4 DEF Closed, Inv, Phases
<1>6. Phases'
  BY <1>1, <1>2, <1>4, <1>5 DEF Phases
<1>7. Pipeline'
  BY <1>1, <1>2 DEF Inv, Pipeline, Route, Available
<1> QED
  BY <1>4, <1>6, <1>7 DEF Inv

\* A receiver with a server that takes requests is the newest, it was started,
\* and the service is past its build.
LEMMA BusyIsNewest ==
  ASSUME Inv, NEW n \in DOMAIN receivers,
         receivers[n].grpc \in {"serving", "broken"} \/ receivers[n].http \in {"serving", "broken"}
  PROVE  /\ n = Len(receivers) /\ ~Unbuilt /\ n # 0 /\ Newest = receivers[n]
         /\ Newest.started /\ phase \notin {"build", "stop exporters", "stopped"}
<1>1. n \in 1..Len(receivers)
  BY LenProperties DEF Inv, Types
<1>2. n = Len(receivers) /\ ~Unbuilt
  BY <1>1 DEF Inv, Generations, Closed
<1>3. /\ Newest = receivers[n]
      /\ Newest.grpc \in {"serving", "broken"} \/ Newest.http \in {"serving", "broken"}
  BY <1>2 DEF Newest
<1>4. phase \notin {"build", "stop exporters", "stopped"}
  BY <1>2, <1>3 DEF Inv, Phases, Unbuilt, Fresh, Closed
<1>5. n # 0
  BY <1>1
<1>6. Newest.started
  BY <1>2, <1>3 DEF Inv, Phases
<1> QED
  BY <1>2, <1>3, <1>4, <1>5, <1>6

LEMMA ConsumingInHand ==
  ASSUME Types, NEW r \in Request, request[r].state = "consuming"
  PROVE  request[r] \in InHand
  BY DEF Types, Idle, Done

LEMMA OpenStreamStep == Inv /\ OpenStream => Inv'
<1> SUFFICES ASSUME Inv, OpenStream PROVE Inv'
  OBVIOUS
<1>1. PICK n \in DOMAIN receivers :
        /\ stream = 0 /\ receivers[n].grpc \in {"serving", "broken"}
        /\ \/ stream' = n /\ UNCHANGED <<phase, turn>>
           \/ GoTo("crashed") /\ UNCHANGED stream
        /\ UNCHANGED <<config, receivers, shared, handle, exporter, routes, request>>
  BY DEF OpenStream
<1>2. /\ n = Len(receivers) /\ ~Unbuilt /\ n # 0 /\ Busy(Newest.grpc)
      /\ phase \notin {"build", "stop exporters", "stopped"}
  BY <1>1, BusyIsNewest DEF Busy
<1>3. ASSUME NEW r \in Request, request[r].state = "consuming"
      PROVE  Held(request[r]) /\ request[r].way # "arrow"
  BY <1>1, <1>2, <1>3 DEF Inv, Requests, Held
<1>4. Newest' = Newest
  BY <1>1 DEF Newest
<1>5. CASE stream' = n /\ UNCHANGED <<phase, turn>>
  <2>1. Unbuilt' = Unbuilt
    BY <1>5 DEF Unbuilt
  <2>2. Types'
    BY <1>1, <1>2, <1>5 DEF Inv, Types
  <2>3. Generations' /\ Phases' /\ Pipeline'
    BY <1>1, <1>5, <2>1, GenerationsStay, PhasesStay, PipelineStay DEF Inv
  <2>4. Requests'
    BY <1>1, <1>2, <1>3, <1>4, <1>5, <2>1 DEF Requests, Held
  <2> QED
    BY <2>2, <2>3, <2>4 DEF Inv
<1>6. CASE GoTo("crashed") /\ UNCHANGED stream
  <2>1. phase' = "crashed" /\ turn' = 1
    BY <1>6 DEF GoTo
  <2>2. phase' \in Phase /\ turn' \in 1..Len(Signals)
    <3>1. phase' \in Phase
      BY <2>1 DEF Phase
    <3> QED
      BY <2>1, <3>1, FirstTurn, Zenon
  <2>3. shared' \in {0, Len(receivers)}
    BY <1>1 DEF Inv, Types
  <2>4. Types' /\ Generations' /\ Requests' /\ ~Unbuilt' /\ Pipeline'
    BY <1>1, <1>2, <1>6, <2>1, <2>2, <2>3, StepPhase
  <2>5. Phases'
    BY <1>2, <1>4, <2>1 DEF Inv, Phases
  <2> QED
    BY <2>4, <2>5 DEF Inv
<1> QED
  BY <1>1, <1>5, <1>6

LEMMA CloseStreamStep == Inv /\ CloseStream => Inv'
<1> SUFFICES ASSUME Inv, CloseStream PROVE Inv'
  OBVIOUS
<1>1. /\ stream' = 0 /\ stream # 0 /\ InFlight(stream, {"arrow"}) = {}
      /\ UNCHANGED <<config, phase, turn, receivers, shared, handle, exporter, routes, request>>
  BY DEF CloseStream, Running, service
<1>2. Unbuilt' = Unbuilt /\ Newest' = Newest /\ stream = Len(receivers)
  BY <1>1 DEF Unbuilt, Newest, Inv, Types
<1>3. ASSUME NEW r \in Request, request[r].state = "consuming"
      PROVE  Held(request[r]) /\ request[r].way # "arrow"
  BY <1>1, <1>2, <1>3 DEF Inv, Requests, Held, InFlight
<1>4. Types'
  BY <1>1 DEF Inv, Types
<1>5. Generations' /\ Phases'
  BY <1>1, <1>2, GenerationsStay, PhasesStay DEF Inv
<1>6. Pipeline'
  BY <1>1, PipelineStay DEF Inv
<1>7. Requests'
  BY <1>1, <1>2, <1>3 DEF Requests, Held
<1> QED
  BY <1>4, <1>5, <1>6, <1>7 DEF Inv

LEMMA DowngradeStep == Inv /\ (\E e \in Exporter : Downgrade(e)) => Inv'
<1> SUFFICES ASSUME Inv, NEW e \in Exporter, Downgrade(e) PROVE Inv'
  OBVIOUS
<1>1. /\ exporter' = [exporter EXCEPT ![e].arrow = "refused"]
      /\ exporter \in [Exporter -> AnyExporter]
      /\ UNCHANGED <<config, phase, turn, receivers, shared, handle, routes, stream, request>>
  BY DEF Downgrade, service, Inv, Types
<1>2. /\ exporter' \in [Exporter -> AnyExporter]
      /\ \A x \in Exporter : exporter'[x].conn = exporter[x].conn
  BY <1>1 DEF AnyExporter
<1>3. Unbuilt' = Unbuilt /\ Newest' = Newest
  BY <1>1 DEF Unbuilt, Newest
<1>4. Types'
  BY <1>1, <1>2 DEF Inv, Types
<1>5. Generations' /\ Phases'
  BY <1>1, <1>3, GenerationsStay, PhasesStay DEF Inv
<1>6. \A s \in Signal : Opened(s)' = Opened(s) /\ Route(s)' = Route(s)
  BY <1>1, <1>2 DEF Opened, Route, Available
<1>7. Pipeline'
  <2>1. Complete' = Complete
    BY <1>1, <1>6 DEF Complete
  <2>2. \A i \in 1..Len(Signals) : /\ Opened(Signals[i])' = Opened(Signals[i])
                                   /\ Route(Signals[i])' = Route(Signals[i])
    BY <1>6, SignalFacts
  <2> QED
    BY <1>1, <1>3, <1>6, <2>1, <2>2 DEF Inv, Pipeline
<1>8. Requests'
  BY <1>1, <1>3 DEF Inv, Requests, Held
<1> QED
  BY <1>4, <1>5, <1>7, <1>8 DEF Inv

LEMMA RebuildStep == Inv /\ Rebuild => Inv'
<1> SUFFICES ASSUME Inv, Rebuild PROVE Inv'
  OBVIOUS
<1>1. /\ phase = "stopped" /\ Len(receivers) < MaxGenerations
      /\ InFlight(handle[Mine], {"http"}) = {} /\ handle[Mine] = Len(receivers)
      /\ ~Unbuilt /\ Len(receivers) \in Nat \ {0}
      /\ phase' = "build" /\ turn' = 1
      /\ handle' = [s \in Signal |-> 0] /\ routes' = [s \in Signal |-> <<>>]
      /\ exporter' = [e \in Exporter |-> NewExporter]
      /\ UNCHANGED <<config, receivers, shared, stream, request>>
  BY MineIsNewest, NewestFacts DEF Rebuild, GoTo, Inv
<1>2. Closed(Newest) /\ shared = 0 /\ ~Busy(Newest.grpc) /\ ~Busy(Newest.http)
  BY <1>1 DEF Inv, Phases, Closed, Busy
<1>3. stream = 0 /\ \A r \in Request : request[r].state # "consuming"
  <2>1. stream = 0
    BY <1>2 DEF Inv, Requests
  <2>2. ASSUME NEW r \in Request, request[r].state = "consuming" PROVE FALSE
    <3>1. Held(request[r]) /\ request[r].way \in Way
      BY <2>2, ConsumingInHand DEF Inv, Requests, InHand
    <3>2. request[r].way # "grpc" /\ request[r].way # "arrow"
      BY <1>1, <1>2, <2>1, <3>1 DEF Held
    <3> QED
      BY <1>1, <2>2, <3>1, <3>2 DEF Held, InFlight, Way
  <2> QED
    BY <2>1, <2>2
<1>4. Unbuilt' /\ Newest' = Newest
  BY <1>1 DEF Unbuilt, Newest
<1>5. Types'
  <2>1. phase' \in Phase
    BY <1>1 DEF Phase
  <2>2. turn' \in 1..Len(Signals)
    BY <1>1, FirstTurn, Zenon
  <2>3. exporter' \in [Exporter -> AnyExporter]
    BY <1>1 DEF NewExporter, AnyExporter
  <2> QED
    BY <1>1, <2>1, <2>2, <2>3 DEF Inv, Types
<1>6. Generations'
  <2>1. \A n \in 1..Len(receivers) : Closed(receivers[n])
    BY <1>1, <1>2 DEF Inv, Generations, Newest
  <2>2. \A i \in 1..Len(Signals) : ~(i < turn')
    <3>1. \A i \in 1..Len(Signals) : ~(i < 1)
      OBVIOUS
    <3> QED
      BY <1>1, <3>1, Zenon
  <2> QED
    BY <1>1, <1>2, <1>4, <2>1, <2>2 DEF Generations
<1>7. Phases'
  BY <1>1, <1>4 DEF Phases
<1>8. Pipeline'
  BY <1>1 DEF Pipeline
<1>9. Requests'
  BY <1>1, <1>3 DEF Requests
<1> QED
  BY <1>5, <1>6, <1>7, <1>8, <1>9 DEF Inv

\* The receiver of a generation while it is built.
LEMMA Registered ==
  ASSUME NEW r \in AnyReceiver, NEW s \in Signal
  PROVE  LET q == RegisterConsumer(r, s) IN
         /\ q \in AnyReceiver /\ s \in q.consumers /\ r.consumers \subseteq q.consumers
         /\ q.started = r.started /\ q.grpc = r.grpc /\ q.http = r.http
         /\ Fresh(r) => Fresh(q)
  BY DEF AnyReceiver, RegisterConsumer, Fresh

LEMMA BuildStep == Inv /\ Build => Inv'
<1> SUFFICES ASSUME Inv, Build PROVE Inv'
  OBVIOUS
<1>1. /\ phase = "build" /\ turn \in 1..Len(Signals) /\ Mine \in Signal
      /\ receivers \in Seq(AnyReceiver) /\ Len(receivers) \in Nat
      /\ turn \in Nat \ {0}
      /\ GetOrAdd /\ handle' = [handle EXCEPT ![Mine] = shared']
      /\ UNCHANGED <<config, exporter, routes, stream, request>>
  BY SignalFacts, TurnIsNat, LenProperties DEF Build, Inv, Types, Mine
<1>2. stream = 0 /\ \A r \in Request : request[r].state # "consuming"
  <2>1. CASE Unbuilt
    BY <2>1 DEF Inv, Requests, Held
  <2>2. CASE ~Unbuilt
    <3>1. Fresh(Newest) /\ ~Busy(Newest.grpc) /\ ~Busy(Newest.http)
      BY <1>1, <2>2 DEF Inv, Phases, Unbuilt, Fresh, Busy
    <3>2. stream = 0
      BY <3>1 DEF Inv, Requests
    <3>3. Len(receivers) # 0
      BY <2>2 DEF Inv, Generations
    <3>4. ASSUME NEW r \in Request, request[r].state = "consuming" PROVE FALSE
      <4>1. Held(request[r]) /\ request[r].way \in Way
        BY <3>4, ConsumingInHand DEF Inv, Requests, InHand
      <4> QED
        BY <3>1, <3>2, <3>3, <4>1 DEF Held, Way, Fresh
    <3> QED
      BY <3>2, <3>4
  <2> QED
    BY <2>1, <2>2
<1>3. /\ turn' \in 1..Len(Signals) /\ phase' \in Phase
      /\ \/ phase' = "start exporters" /\ LastTurn /\ turn' = 1
         \/ phase' = "build" /\ ~LastTurn /\ turn' = turn + 1
  <2>1. /\ turn' \in 1..Len(Signals)
        /\ \/ phase' = "start exporters" /\ LastTurn /\ turn' = 1
           \/ phase' = "build" /\ ~LastTurn /\ turn' = turn + 1
    BY <1>1, Turns DEF Build
  <2> QED
    BY <2>1 DEF Phase
<1>4. ~Unbuilt'
  <2>1. turn \in Nat \ {0}
    BY <1>1
  <2>2. turn + 1 # 1
    BY <2>1
  <2>3. CASE phase' = "build" /\ turn' = turn + 1
    BY <2>2, <2>3, Zenon DEF Unbuilt
  <2>4. CASE phase' = "start exporters"
    BY <2>4 DEF Unbuilt
  <2> QED
    BY <1>3, <2>3, <2>4
<1>5. PICK r \in AnyReceiver :
        /\ Fresh(r) /\ Mine \in r.consumers
        /\ receivers' \in Seq(AnyReceiver) /\ Len(receivers') \in Nat \ {0}
        /\ Len(receivers') <= MaxGenerations /\ shared' = Len(receivers')
        /\ Newest' = r
        /\ \A n \in 1..Len(receivers') : n # Len(receivers') => Closed(receivers'[n])
        /\ handle' \in [Signal -> {0, Len(receivers')}]
        /\ \A i \in 1..Len(Signals) : i < turn \/ Signals[i] = Mine =>
             handle'[Signals[i]] = Len(receivers') /\ Signals[i] \in r.consumers
  <2>1. CASE Unbuilt
    <3> DEFINE r == RegisterConsumer(NewOtlpReceiver, Mine)
               N == Len(receivers) + 1
    <3>1. r \in AnyReceiver /\ Fresh(r) /\ Mine \in r.consumers
      BY <1>1 DEF RegisterConsumer, NewOtlpReceiver, Fresh, AnyReceiver, Server
    <3>2. /\ shared = 0 /\ Len(receivers) < MaxGenerations /\ turn = 1
          /\ handle \in [Signal -> {0, Len(receivers)}] /\ \A s \in Signal : handle[s] = 0
          /\ \A n \in 1..Len(receivers) : Closed(receivers[n])
      BY <2>1 DEF Inv, Types, Generations, Unbuilt
    <3>3. shared' = N /\ receivers' = Append(receivers, r)
      BY <1>1, <3>2 DEF GetOrAdd
    <3> HIDE DEF r
    <3>4. /\ receivers' \in Seq(AnyReceiver) /\ Len(receivers') = N
          /\ receivers'[N] = r
          /\ \A n \in 1..Len(receivers) : receivers'[n] = receivers[n]
      BY <1>1, <3>1, <3>3, AppendProperties
    <3>5. N \in Nat \ {0} /\ N <= MaxGenerations
      BY <1>1, <3>2, CollectorAssumption
    <3>6. \A n \in 1..N : n # N => n \in 1..Len(receivers)
      BY <1>1
    <3>7. \A i \in 1..Len(Signals) : ~(i < turn)
      BY <3>2
    <3>8. handle'[Mine] = N /\ handle' \in [Signal -> {0, N}]
      BY <1>1, <3>2, <3>3
    <3> HIDE DEF N
    <3> QED
      BY <3>1, <3>2, <3>3, <3>4, <3>5, <3>6, <3>7, <3>8 DEF Newest, Closed
  <2>2. CASE ~Unbuilt
    <3> DEFINE r == RegisterConsumer(Newest, Mine)
    <3>1. /\ shared = Len(receivers) /\ Len(receivers) # 0 /\ Fresh(Newest)
          /\ Newest \in AnyReceiver
          /\ handle \in [Signal -> {0, Len(receivers)}] /\ Len(receivers) <= MaxGenerations
          /\ \A n \in 1..Len(receivers) : n # Len(receivers) => Closed(receivers[n])
          /\ \A i \in 1..Len(Signals) : i < turn =>
               /\ handle[Signals[i]] = Len(receivers)
               /\ Signals[i] \in Newest.consumers
      BY <1>1, <2>2, NewestFacts DEF Inv, Types, Generations, Phases, Unbuilt
    <3>2. /\ r \in AnyReceiver /\ Fresh(r) /\ Mine \in r.consumers
          /\ Newest.consumers \subseteq r.consumers
      BY <1>1, <3>1, Registered
    <3>3. shared' = Len(receivers) /\ receivers' = [receivers EXCEPT ![Len(receivers)] = r]
      BY <1>1, <3>1 DEF GetOrAdd, Newest
    <3> HIDE DEF r
    <3>4. /\ receivers' \in Seq(AnyReceiver) /\ Len(receivers') = Len(receivers)
          /\ Newest' = r
          /\ \A n \in 1..Len(receivers) : n # Len(receivers) => receivers'[n] = receivers[n]
      BY <2>2, <3>2, <3>3, SetNewest DEF Inv
    <3>5. /\ handle'[Mine] = Len(receivers) /\ handle' \in [Signal -> {0, Len(receivers)}]
          /\ \A s \in Signal : handle[s] = Len(receivers) => handle'[s] = Len(receivers)
      BY <1>1, <3>1, <3>3
    <3>6. \A i \in 1..Len(Signals) : Signals[i] \in Signal
      BY SignalFacts
    <3> QED
      BY <1>1, <3>1, <3>2, <3>3, <3>4, <3>5, <3>6 DEF Closed
  <2> QED
    BY <2>1, <2>2
<1>6. Types'
  BY <1>1, <1>2, <1>3, <1>5 DEF Inv, Types
<1>7. Generations'
  <2>1. CASE phase' = "start exporters" /\ LastTurn /\ turn' = 1
    <3>1. ASSUME NEW s \in Signal PROVE handle'[s] = Len(receivers') /\ s \in r.consumers
      <4>1. PICK i \in 1..Len(Signals) : Signals[i] = s /\ (i < turn \/ Signals[i] = Mine)
        BY <1>1, <2>1, AllTurns
      <4> QED
        BY <1>5, <4>1
    <3> QED
      BY <1>4, <1>5, <2>1, <3>1 DEF Generations
  <2>2. CASE phase' = "build" /\ ~LastTurn /\ turn' = turn + 1
    <3>1. ASSUME NEW i \in 1..Len(Signals), i < turn'
          PROVE  handle'[Signals[i]] = Len(receivers') /\ Signals[i] \in r.consumers
      <4>1. i < turn \/ i = turn
        BY <1>1, <2>2, <3>1
      <4> QED
        BY <1>5, <4>1 DEF Mine
    <3> QED
      BY <1>4, <1>5, <2>2, <3>1 DEF Generations
  <2> QED
    BY <1>3, <2>1, <2>2
<1>8. Phases'
  BY <1>3, <1>5 DEF Phases, Fresh
<1>9. Pipeline'
  <2>1. ~Newest'.started
    BY <1>5 DEF Fresh
  <2>2. \A s \in Signal : Route(s)' = Route(s)
    BY <1>1 DEF Route, Available
  <2>3. phase' = "start exporters" => \A i \in 1..Len(Signals) : ~(i < turn')
    <3>1. \A i \in 1..Len(Signals) : ~(i < 1)
      OBVIOUS
    <3> QED
      BY <1>3, <3>1, Zenon
  <2> QED
    BY <1>1, <1>3, <2>1, <2>2, <2>3 DEF Inv, Pipeline
<1>10. Requests'
  BY <1>1, <1>2 DEF Requests
<1> QED
  BY <1>6, <1>7, <1>8, <1>9, <1>10 DEF Inv

-----------------------------------------------------------------------------
(***************************************************************************)
(* Requests.                                                               *)
(***************************************************************************)

\* A step that only takes one request further.
LEMMA StepRequest ==
  ASSUME Inv, NEW r \in Request, NEW q \in {Idle} \cup InHand \cup Done,
         request' = [request EXCEPT ![r] = q],
         q.state = "consuming" => Held(q),
         UNCHANGED <<service, receivers, exporter, stream>>
  PROVE  /\ Inv'
         /\ Outcomes /\ (q.state = "consuming" => Told(q)) => Outcomes'
         /\ \A p \in Request : request'[p] = IF p = r THEN q ELSE request[p]
<1>1. /\ request \in [Request -> {Idle} \cup InHand \cup Done]
      /\ UNCHANGED <<config, phase, turn, shared, handle, routes>>
  BY DEF Inv, Types, service
<1>2. \A p \in Request : request'[p] = IF p = r THEN q ELSE request[p]
  BY <1>1
<1>3. Unbuilt' = Unbuilt /\ Newest' = Newest
  BY <1>1 DEF Unbuilt, Newest
<1>4. Types'
  BY <1>1 DEF Inv, Types
<1>5. Generations' /\ Phases' /\ Pipeline'
  BY <1>1, <1>3, GenerationsStay, PhasesStay, PipelineStay DEF Inv
<1>6. Requests'
  BY <1>1, <1>2, <1>3 DEF Inv, Requests, Held
<1>7. Outcomes /\ (q.state = "consuming" => Told(q)) => Outcomes'
  BY <1>2 DEF Outcomes, Told
<1> QED
  BY <1>2, <1>4, <1>5, <1>6, <1>7 DEF Inv

\* An answer tells the truth.
Truthful(q) ==
  q.state = "answered" /\ q.route # {} =>
    /\ q.answer \in {"200", "OK"} => q.route = q.delivered
    /\ q.answer = "INVALID_ARGUMENT" => q.final # {}

LEMMA AnswersTruthful == AnswersAreTrue <=> \A r \in Request : Truthful(request[r])
  BY DEF AnswersAreTrue, Truthful

Answers == Outcomes /\ AnswersAreTrue

LEMMA RequestStep ==
  ASSUME Inv, NEW r \in Request, NEW q \in {Idle} \cup InHand \cup Done,
         request' = [request EXCEPT ![r] = q],
         q.state = "consuming" => Held(q),
         Answers => (q.state = "consuming" => Told(q)) /\ Truthful(q),
         UNCHANGED <<service, receivers, exporter, stream>>
  PROVE  Inv' /\ (Answers => Answers')
<1>1. /\ Inv'
      /\ Outcomes /\ (q.state = "consuming" => Told(q)) => Outcomes'
      /\ \A p \in Request : request'[p] = IF p = r THEN q ELSE request[p]
  BY StepRequest
<1>2. ASSUME Answers PROVE AnswersAreTrue'
  <2>1. \A p \in Request : Truthful(request'[p])
    BY <1>1, <1>2, AnswersTruthful DEF Answers
  <2> QED
    BY <2>1 DEF AnswersAreTrue, Truthful
<1> QED
  BY <1>1, <1>2 DEF Answers

LEMMA AnsweredStep ==
  ASSUME Inv, NEW r \in Request, NEW way \in Way, NEW answer \in AnyAnswer,
         Answered(r, way, answer), UNCHANGED <<service, receivers, exporter, stream>>
  PROVE  Inv' /\ (Answers => Answers')
<1> DEFINE q == [state |-> "answered", way |-> way, answer |-> answer, route |-> {},
                 delivered |-> {}, final |-> {}]
<1>1. q \in Done /\ q.state = "answered" /\ q.route = {}
  BY DEF Done
<1>2. request' = [request EXCEPT ![r] = q]
  BY DEF Answered
<1> HIDE DEF q
<1>3. Truthful(q) /\ q.state # "consuming"
  BY <1>1 DEF Truthful
<1> QED
  BY <1>1, <1>2, <1>3, RequestStep

\* The exporters of a route exist.
LEMMA RouteExporters ==
  ASSUME Inv, NEW s \in Signal, routes[s] = Route(s), NEW x \in Drawn(routes[s])
  PROVE  LET names == routes[s][GetExporters(routes[s], x)].exporters IN
         /\ names \in Seq(STRING)
         /\ \A e \in Range(names) : <<s, e>> \in Exporter
<1> DEFINE table == config.table
           available == {e[2] : e \in Available(s)}
           n == GetExporters(routes[s], x)
<1>1. table \in Table /\ Validate(table)
  BY CollectorAssumption DEF Inv, Types, Table, Item
<1>2. routes[s] = RegisterExporters(table, available)
  BY DEF Route
<1>3. table # <<>> /\ \A i \in DOMAIN table : table[i].weight >= 0
  BY <1>1 DEF Validate
<1>4. Len(table) \in 1..Len(table)
  <2>1. Len(table) \in Nat /\ Len(table) # 0
    BY <1>1, <1>3, EmptySeq, LenProperties DEF Table
  <2> QED
    BY <2>1
<1> HIDE DEF table, available
<1>5. /\ Len(routes[s]) = Len(table)
      /\ \A i \in 1..Len(table) :
           /\ routes[s][i].cumWeight = Totals(table)[i]
           /\ routes[s][i].exporters \in Seq(STRING)
           /\ Range(routes[s][i].exporters) \subseteq available
  BY <1>1, <1>2, Routes
<1>6. x \in 0..(Totals(table)[Len(table)] - 1)
  BY <1>4, <1>5 DEF Drawn
<1>7. n \in 1..Len(table)
  BY <1>1, <1>2, <1>3, <1>4, <1>6, RouteFound
<1>8. ASSUME NEW e \in available PROVE <<s, e>> \in Exporter
  <2>1. PICK pair \in Exporter : pair[1] = s /\ pair[2] = e
    BY <1>8 DEF available, Available
  <2>2. pair = <<s, e>>
    BY <2>1, CollectorAssumption
  <2> QED
    BY <2>2
<1> QED
  BY <1>5, <1>7, <1>8

LEMMA ConsumeStep ==
  ASSUME Inv, NEW r \in Request, NEW way \in Way, NEW s \in Signal, NEW n,
         n = Len(receivers), ~Unbuilt, Newest.started,
         phase \notin {"build", "stop exporters", "stopped"},
         way = "grpc" => Busy(Newest.grpc), way = "http" => Busy(Newest.http),
         way = "arrow" => stream = n,
         Consume(r, n, way, s), UNCHANGED <<service, receivers, exporter, stream>>
  PROVE  Inv' /\ (Answers => Answers')
<1>1. routes[s] = Route(s) /\ n \in Nat
  BY NewestFacts DEF Inv, Pipeline, Complete
<1>2. PICK x \in Drawn(routes[s]) :
        LET names == routes[s][GetExporters(routes[s], x)].exporters IN
        request' = [request EXCEPT ![r] =
          [state |-> "consuming", receiver |-> n, way |-> way, signal |-> s,
           route |-> Range(names), todo |-> names,
           tries |-> 0, errors |-> {}, delivered |-> {}, final |-> {}]]
  BY DEF Consume
<1> DEFINE names == routes[s][GetExporters(routes[s], x)].exporters
           q == [state |-> "consuming", receiver |-> n, way |-> way, signal |-> s,
                 route |-> Range(names), todo |-> names,
                 tries |-> 0, errors |-> {}, delivered |-> {}, final |-> {}]
<1>3. names \in Seq(STRING) /\ \A e \in Range(names) : <<s, e>> \in Exporter
  BY <1>1, RouteExporters
<1>4. request' = [request EXCEPT ![r] = q]
  BY <1>2
<1> HIDE DEF names
<1>5. Range(names) \subseteq STRING
  <2>1. \A i \in DOMAIN names : names[i] \in STRING
    BY <1>3, ElementOfSeq, LenProperties
  <2> QED
    BY <2>1 DEF Range
<1>6. q \in InHand
  BY <1>1, <1>3, <1>5 DEF InHand
<1>7. Held(q)
  BY <1>3 DEF Held, Inv, Types
<1>8. Told(q) /\ Truthful(q)
  BY DEF Told, Truthful
<1> HIDE DEF q
<1> QED
  BY <1>4, <1>6, <1>7, <1>8, RequestStep

LEMMA AnswersKnown ==
  ASSUME NEW errors
  PROVE  /\ HTTPAnswers(errors) \subseteq AnyAnswer /\ GRPCAnswer(errors) \in AnyAnswer
         /\ ArrowAnswer(errors) \in AnyAnswer
  BY DEF HTTPAnswers, GRPCAnswer, ArrowAnswer, WriteError, AnyAnswer

LEMMA ReceiveGRPCStep ==
  Inv /\ (\E r \in Request, s \in Signal : ReceiveGRPC(r, s)) => Inv' /\ (Answers => Answers')
<1> SUFFICES ASSUME Inv, NEW r \in Request, NEW s \in Signal, ReceiveGRPC(r, s)
             PROVE  Inv' /\ (Answers => Answers')
  OBVIOUS
<1>1. PICK n \in DOMAIN receivers :
        /\ receivers[n].grpc \in {"serving", "broken"}
        /\ \/ Consume(r, n, "grpc", s)
           \/ \E answer \in AnyAnswer : Answered(r, "grpc", answer)
        /\ UNCHANGED <<service, receivers, exporter, stream>>
  <2>1. "OK" \in AnyAnswer /\ "error" \in AnyAnswer
    BY DEF AnyAnswer
  <2> QED
    BY <2>1 DEF ReceiveGRPC, Export
<1>2. CASE Consume(r, n, "grpc", s)
  <2>1. /\ n = Len(receivers) /\ ~Unbuilt /\ Newest.started /\ Busy(Newest.grpc)
        /\ phase \notin {"build", "stop exporters", "stopped"}
    BY <1>1, BusyIsNewest DEF Busy
  <2> QED
    BY <1>1, <1>2, <2>1, ConsumeStep DEF Way
<1>3. CASE \E answer \in AnyAnswer : Answered(r, "grpc", answer)
  BY <1>1, <1>3, AnsweredStep DEF Way
<1> QED
  BY <1>1, <1>2, <1>3

LEMMA ReceiveHTTPStep ==
  Inv /\ (\E r \in Request, s \in Signal : ReceiveHTTP(r, s)) => Inv' /\ (Answers => Answers')
<1> SUFFICES ASSUME Inv, NEW r \in Request, NEW s \in Signal, ReceiveHTTP(r, s)
             PROVE  Inv' /\ (Answers => Answers')
  OBVIOUS
<1>1. PICK n \in DOMAIN receivers :
        /\ receivers[n].http \in {"serving", "broken"}
        /\ \/ Consume(r, n, "http", s)
           \/ \E answer \in AnyAnswer : Answered(r, "http", answer)
        /\ UNCHANGED <<service, receivers, exporter, stream>>
  <2>1. \A kind \in DOMAIN HTTPStatus : WriteError(HTTPStatus[kind]) \subseteq AnyAnswer
    <3>1. DOMAIN HTTPStatus = {"method", "contentType", "body", "encoding"}
      BY DEF HTTPStatus
    <3>2. \A kind \in DOMAIN HTTPStatus : HTTPStatus[kind] \in {"405", "415", "400"}
      BY <3>1 DEF HTTPStatus
    <3>3. \A status \in {"405", "415", "400"} : WriteError(status) \subseteq AnyAnswer
      BY DEF WriteError, AnyAnswer
    <3> QED
      BY <3>2, <3>3
  <2>2. "404" \in AnyAnswer /\ "200" \in AnyAnswer
    BY DEF AnyAnswer
  <2>3. PICK n \in DOMAIN receivers :
          /\ receivers[n].http \in {"serving", "broken"}
          /\ \/ Answered(r, "http", "404") \/ Export(r, n, "http", s, "200")
             \/ \E kind \in DOMAIN HTTPStatus : \E status \in WriteError(HTTPStatus[kind]) :
                  Answered(r, "http", status)
          /\ UNCHANGED <<service, receivers, exporter, stream>>
    BY DEF ReceiveHTTP
  <2>4. Consume(r, n, "http", s) \/ \E answer \in AnyAnswer : Answered(r, "http", answer)
    BY <2>1, <2>2, <2>3 DEF Export
  <2> QED
    BY <2>3, <2>4
<1>2. CASE Consume(r, n, "http", s)
  <2>1. /\ n = Len(receivers) /\ ~Unbuilt /\ Newest.started /\ Busy(Newest.http)
        /\ phase \notin {"build", "stop exporters", "stopped"}
    BY <1>1, BusyIsNewest DEF Busy
  <2> QED
    BY <1>1, <1>2, <2>1, ConsumeStep DEF Way
<1>3. CASE \E answer \in AnyAnswer : Answered(r, "http", answer)
  BY <1>1, <1>3, AnsweredStep DEF Way
<1> QED
  BY <1>1, <1>2, <1>3

LEMMA ReceiveArrowStep ==
  Inv /\ (\E r \in Request, s \in Signal : ReceiveArrow(r, s)) => Inv' /\ (Answers => Answers')
<1> SUFFICES ASSUME Inv, NEW r \in Request, NEW s \in Signal, ReceiveArrow(r, s)
             PROVE  Inv' /\ (Answers => Answers')
  OBVIOUS
<1>1. /\ stream # 0
      /\ \/ Consume(r, stream, "arrow", s)
         \/ \E answer \in AnyAnswer : Answered(r, "arrow", answer)
      /\ UNCHANGED <<service, receivers, exporter, stream>>
  <2>1. \A errors \in {{}, {"permanent"}, {"retry"}} : ArrowAnswer(errors) \in AnyAnswer
    BY AnswersKnown
  <2> QED
    BY <2>1 DEF ReceiveArrow, Running
<1>2. CASE Consume(r, stream, "arrow", s)
  <2>1. /\ stream = Len(receivers) /\ ~Unbuilt /\ Busy(Newest.grpc)
    BY <1>1 DEF Inv, Types, Requests
  <2>2. /\ Newest.started /\ phase \notin {"build", "stop exporters", "stopped"}
    BY <2>1 DEF Inv, Phases, Unbuilt, Fresh, Closed, Busy
  <2> QED
    BY <1>1, <1>2, <2>1, <2>2, ConsumeStep DEF Way
<1>3. CASE \E answer \in AnyAnswer : Answered(r, "arrow", answer)
  BY <1>1, <1>3, AnsweredStep DEF Way
<1> QED
  BY <1>1, <1>2, <1>3

\* What a push returns: nil only for a batch that was delivered.
LEMMA PushResults ==
  ASSUME NEW e, NEW codes, NEW outcome \in PushOutcomes(e, codes)
  PROVE  /\ outcome.result \in {"nil", "permanent", "retry", "throttle"}
         /\ outcome.result = "nil" => outcome.delivered
<1>1. CASE outcome \in ArrowOutcomes(e)
  BY <1>1 DEF ArrowOutcomes, Outcome
<1>2. CASE outcome \in ExportOutcomes(e, codes)
  <2>1. PICK code, info : outcome = Outcome(code = "OK", ProcessGRPCError(code, info))
    BY <1>2 DEF ExportOutcomes
  <2>2. outcome.result = ProcessGRPCError(code, info) /\ outcome.delivered = (code = "OK")
    BY <2>1 DEF Outcome
  <2> QED
    BY <2>2 DEF ProcessGRPCError
<1> QED
  BY <1>1, <1>2 DEF PushOutcomes

LEMMA HeadOfRange ==
  ASSUME NEW todo \in Seq(STRING), todo # <<>>
  PROVE  /\ Head(todo) \in STRING /\ Tail(todo) \in Seq(STRING)
         /\ Range(todo) = {Head(todo)} \cup Range(Tail(todo))
<1>1. /\ Head(todo) \in STRING /\ Tail(todo) \in Seq(STRING)
      /\ Len(todo) \in Nat \ {0} /\ Len(Tail(todo)) = Len(todo) - 1
      /\ todo[1] = Head(todo) /\ DOMAIN todo = 1..Len(todo)
      /\ DOMAIN Tail(todo) = 1..(Len(todo) - 1)
      /\ \A i \in 1..(Len(todo) - 1) : Tail(todo)[i] = todo[i + 1]
  BY HeadTailProperties, EmptySeq, LenProperties
<1>2. ASSUME NEW x PROVE x \in Range(todo) <=> x = Head(todo) \/ x \in Range(Tail(todo))
  <2>1. ASSUME NEW i \in DOMAIN todo, todo[i] = x
        PROVE  x = Head(todo) \/ x \in Range(Tail(todo))
    <3>1. i = 1 \/ (i - 1 \in 1..(Len(todo) - 1) /\ (i - 1) + 1 = i)
      BY <1>1
    <3> QED
      BY <1>1, <2>1, <3>1 DEF Range
  <2>2. ASSUME NEW i \in DOMAIN Tail(todo), Tail(todo)[i] = x PROVE x \in Range(todo)
    <3>1. i + 1 \in DOMAIN todo /\ todo[i + 1] = x
      BY <1>1, <2>2
    <3> QED
      BY <3>1 DEF Range
  <2>3. 1 \in DOMAIN todo
    BY <1>1
  <2> QED
    BY <1>1, <2>1, <2>2, <2>3 DEF Range
<1> QED
  BY <1>1, <1>2

LEMMA PushStep == Inv /\ (\E r \in Request : Push(r)) => Inv' /\ (Answers => Answers')
<1> SUFFICES ASSUME Inv, NEW r \in Request, Push(r) PROVE Inv' /\ (Answers => Answers')
  OBVIOUS
<1> DEFINE q == request[r]
           e == Head(q.todo)
<1>1. /\ q \in InHand /\ Held(q) /\ q.state = "consuming" /\ q.todo # <<>>
      /\ q.todo \in Seq(STRING)
      /\ UNCHANGED <<service, receivers, exporter, stream>>
  BY ConsumingInHand DEF Push, Inv, Requests, InHand
<1>2. PICK outcome \in PushOutcomes(exporter[<<q.signal, e>>], Codes) :
        LET done == outcome.result \in {"nil", "permanent"} \/ q.tries + 1 = MaxTries
        IN  request' = [request EXCEPT ![r] =
              [q EXCEPT !.todo = IF done THEN Tail(@) ELSE @,
                        !.tries = IF done THEN 0 ELSE @ + 1,
                        !.errors = IF done THEN Appended(@, outcome.result) ELSE @,
                        !.delivered = IF outcome.delivered THEN @ \cup {e} ELSE @,
                        !.final = IF outcome.result = "permanent" THEN @ \cup {e} ELSE @]]
  BY DEF Push
<1> DEFINE done == outcome.result \in {"nil", "permanent"} \/ q.tries + 1 = MaxTries
           todo == IF done THEN Tail(q.todo) ELSE q.todo
           tries == IF done THEN 0 ELSE q.tries + 1
           errors == IF done THEN Appended(q.errors, outcome.result) ELSE q.errors
           delivered == IF outcome.delivered THEN q.delivered \cup {e} ELSE q.delivered
           final == IF outcome.result = "permanent" THEN q.final \cup {e} ELSE q.final
           p == [q EXCEPT !.todo = todo, !.tries = tries, !.errors = errors,
                          !.delivered = delivered, !.final = final]
<1>3. request' = [request EXCEPT ![r] = p]
  BY <1>2
<1>4. /\ outcome.result \in {"nil", "permanent", "retry", "throttle"}
      /\ outcome.result = "nil" => outcome.delivered
      /\ outcome.result \in {"nil", "permanent"} => done
  BY PushResults
<1>5. /\ p.state = "consuming" /\ p.receiver = q.receiver /\ p.way = q.way
      /\ p.signal = q.signal /\ p.route = q.route
      /\ p.todo = todo /\ p.tries = tries /\ p.errors = errors
      /\ p.delivered = delivered /\ p.final = final
  <2> HIDE DEF todo, tries, errors, delivered, final, done, e
  <2> QED
    BY <1>1 DEF InHand
<1>6. ASSUME todo \in Seq(STRING), tries \in Nat,
             errors \subseteq {"permanent", "retry", "throttle"},
             delivered \subseteq STRING, final \subseteq STRING
      PROVE  p \in InHand
  <2> HIDE DEF todo, tries, errors, delivered, final, done, e
  <2> QED
    BY <1>1, <1>6 DEF InHand
<1> HIDE DEF p, done
<1>7. /\ e \in STRING /\ Tail(q.todo) \in Seq(STRING)
      /\ Range(q.todo) = {e} \cup Range(Tail(q.todo))
  BY <1>1, HeadOfRange
<1> HIDE DEF e
<1>8. /\ p.todo \in Seq(STRING) /\ Range(p.todo) \subseteq Range(q.todo)
      /\ Range(q.todo) \subseteq Range(p.todo) \cup {e}
      /\ ~done => p.todo = q.todo
  BY <1>1, <1>5, <1>7
<1>9. Appended(q.errors, outcome.result) =
        IF outcome.result = "nil" THEN q.errors ELSE q.errors \cup {outcome.result}
  BY DEF Appended
<1>10. p \in InHand
  <2>1. /\ q.receiver \in Nat /\ q.way \in Way /\ q.signal \in Signal /\ q.tries \in Nat
        /\ q.route \subseteq STRING /\ q.delivered \subseteq STRING /\ q.final \subseteq STRING
        /\ q.errors \subseteq {"permanent", "retry", "throttle"}
    BY <1>1 DEF InHand
  <2>2. p.tries \in Nat
    BY <1>5, <2>1
  <2>3. p.errors \subseteq {"permanent", "retry", "throttle"}
    BY <1>4, <1>5, <1>9, <2>1
  <2>4. p.delivered \subseteq STRING /\ p.final \subseteq STRING
    BY <1>5, <1>7, <2>1
  <2> QED
    BY <1>5, <1>8, <1>6, <2>2, <2>3, <2>4
<1>11. Held(p)
  BY <1>1, <1>5, <1>8 DEF Held
<1>12. ASSUME Answers PROVE Told(p)
  <2>1. Told(q)
    BY <1>1, <1>12 DEF Answers, Outcomes
  <2>2. e \in q.route
    BY <1>7, <2>1 DEF Told
  <2>3. Range(p.todo) \subseteq p.route /\ p.delivered \subseteq p.route
    BY <1>5, <1>8, <2>1, <2>2 DEF Told
  <2>4. p.errors = {} => p.route \subseteq Range(p.todo) \cup p.delivered
    <3>1. CASE done
      <4>1. p.errors = {} => q.errors = {} /\ outcome.delivered
        BY <1>4, <1>5, <1>9, <3>1
      <4> QED
        BY <1>5, <1>8, <2>1, <4>1 DEF Told
    <3>2. CASE ~done
      BY <1>5, <1>8, <2>1, <3>2 DEF Told
    <3> QED
      BY <3>1, <3>2
  <2>5. "permanent" \in p.errors => p.final # {}
    BY <1>4, <1>5, <1>9, <2>1 DEF Told
  <2> QED
    BY <2>3, <2>4, <2>5 DEF Told
<1>13. Truthful(p)
  BY <1>5 DEF Truthful
<1> QED
  BY <1>1, <1>3, <1>10, <1>11, <1>12, <1>13, RequestStep

LEMMA AnswerStep == Inv /\ (\E r \in Request : Answer(r)) => Inv' /\ (Answers => Answers')
<1> SUFFICES ASSUME Inv, NEW r \in Request, Answer(r) PROVE Inv' /\ (Answers => Answers')
  OBVIOUS
<1> DEFINE q == request[r]
<1>1. /\ q \in InHand /\ q.state = "consuming" /\ q.todo = <<>> /\ q.way \in Way
      /\ UNCHANGED <<service, receivers, exporter, stream>>
  BY ConsumingInHand DEF Answer, Inv, InHand
<1>2. PICK answer \in CASE q.way = "http" -> HTTPAnswers(q.errors)
                        [] q.way = "grpc" -> {GRPCAnswer(q.errors)}
                        [] q.way = "arrow" -> {ArrowAnswer(q.errors)} :
        request' = [request EXCEPT ![r] =
          [state |-> "answered", way |-> q.way, answer |-> answer, route |-> q.route,
           delivered |-> q.delivered, final |-> q.final]]
  BY DEF Answer
<1>3. answer \in HTTPAnswers(q.errors) \cup {GRPCAnswer(q.errors), ArrowAnswer(q.errors)}
  <2>1. CASE q.way = "http"
    BY <2>1
  <2>2. CASE q.way = "grpc"
    BY <2>2
  <2>3. CASE q.way = "arrow"
    BY <2>3
  <2> QED
    BY <1>1, <2>1, <2>2, <2>3 DEF Way
<1>4. /\ answer \in AnyAnswer
      /\ answer \in {"200", "OK"} => q.errors = {}
      /\ answer = "INVALID_ARGUMENT" => "permanent" \in q.errors
  <2>1. answer \in AnyAnswer
    BY <1>3, AnswersKnown
  <2>2. ASSUME q.errors # {}, answer \in {"200", "OK"} PROVE FALSE
    BY <1>3, <2>2 DEF HTTPAnswers, GRPCAnswer, ArrowAnswer, WriteError
  <2>3. ASSUME "permanent" \notin q.errors, answer = "INVALID_ARGUMENT" PROVE FALSE
    BY <1>3, <2>3 DEF HTTPAnswers, GRPCAnswer, ArrowAnswer, WriteError
  <2> QED
    BY <2>1, <2>2, <2>3
<1> DEFINE p == [state |-> "answered", way |-> q.way, answer |-> answer, route |-> q.route,
                 delivered |-> q.delivered, final |-> q.final]
<1>5. p \in Done /\ p.state # "consuming"
  BY <1>1, <1>4 DEF Done, InHand
<1>6. request' = [request EXCEPT ![r] = p]
  BY <1>2
<1>7. ASSUME Answers PROVE Truthful(p)
  <2>1. Told(q) /\ Range(q.todo) = {}
    BY <1>1, <1>7 DEF Answers, Outcomes, Range
  <2> QED
    BY <1>4, <2>1 DEF Told, Truthful
<1> HIDE DEF p, q
<1> QED
  BY <1>1, <1>5, <1>6, <1>7, RequestStep

LEMMA ForgetStep == Inv /\ (\E r \in Request : Forget(r)) => Inv' /\ (Answers => Answers')
<1> SUFFICES ASSUME Inv, NEW r \in Request, Forget(r) PROVE Inv' /\ (Answers => Answers')
  OBVIOUS
<1>1. request' = [request EXCEPT ![r] = Idle] /\ UNCHANGED <<service, receivers, exporter, stream>>
  BY DEF Forget
<1>2. Idle.state # "consuming" /\ Truthful(Idle)
  BY DEF Idle, Truthful
<1>3. Idle \in {Idle} \cup InHand \cup Done
  OBVIOUS
<1> QED
  BY <1>1, <1>2, <1>3, RequestStep

-----------------------------------------------------------------------------
(***************************************************************************)
(* The invariant, and what follows from it.                                *)
(***************************************************************************)

LEMMA InitInv == Init => Inv /\ Answers
<1> SUFFICES ASSUME Init PROVE Inv /\ Answers
  OBVIOUS
<1>1. /\ config.cfg \in Config /\ config.table \in Tables /\ Validate(config.table)
      /\ phase = "build" /\ turn = 1 /\ receivers = <<>> /\ shared = 0 /\ stream = 0
      /\ handle = [s \in Signal |-> 0] /\ exporter = [e \in Exporter |-> NewExporter]
      /\ routes = [s \in Signal |-> <<>>] /\ request = [r \in Request |-> Idle]
  BY DEF Init
<1>2. Unbuilt /\ Len(receivers) = 0 /\ receivers \in Seq(AnyReceiver)
  BY <1>1, EmptySeq DEF Unbuilt
<1>3. phase \in Phase /\ turn \in 1..Len(Signals)
  <2>1. phase \in Phase
    BY <1>1 DEF Phase
  <2> QED
    BY <1>1, <2>1, FirstTurn, Zenon
<1>4. NewExporter \in AnyExporter
  BY DEF NewExporter, AnyExporter
<1>5. 0 < MaxGenerations /\ 0 <= MaxGenerations
  BY CollectorAssumption
<1>6. Types
  BY <1>1, <1>2, <1>3, <1>4, <1>5 DEF Types
<1>7. Generations
  <2>1. \A i \in 1..Len(Signals) : ~(i < turn)
    <3>1. \A i \in 1..Len(Signals) : ~(i < 1)
      OBVIOUS
    <3> QED
      BY <1>1, <3>1, Zenon
  <2>2. \A n \in 1..Len(receivers) : FALSE
    BY <1>2
  <2> QED
    BY <1>1, <1>2, <1>5, <2>1, <2>2 DEF Generations
<1>8. Phases
  BY <1>1, <1>2 DEF Phases
<1>9. Pipeline
  BY <1>1 DEF Pipeline
<1>10. \A r \in Request : request[r].state = "idle"
  BY <1>1 DEF Idle
<1>11. Requests /\ Answers
  BY <1>1, <1>10 DEF Requests, Answers, Outcomes, AnswersAreTrue
<1> QED
  BY <1>6, <1>7, <1>8, <1>9, <1>11 DEF Inv

\* The steps of the service do not touch a request.
LEMMA AnswersStay == Answers /\ UNCHANGED request => Answers'
  BY DEF Answers, Outcomes, Told, AnswersAreTrue

LEMMA NextInv == Inv /\ Answers /\ [Next]_vars => Inv' /\ Answers'
<1> SUFFICES ASSUME Inv, Answers, [Next]_vars PROVE Inv' /\ Answers'
  OBVIOUS
<1>1. CASE Build
  <2>1. UNCHANGED request
    BY <1>1 DEF Build
  <2> QED
    BY <1>1, <2>1, BuildStep, AnswersStay
<1>2. CASE StartExporters
  <2>1. UNCHANGED request
    BY <1>2 DEF StartExporters
  <2> QED
    BY <1>2, <2>1, StartExportersStep, AnswersStay
<1>3. CASE StartProcessor
  <2>1. UNCHANGED request
    BY <1>3 DEF StartProcessor
  <2> QED
    BY <1>3, <2>1, StartProcessorStep, AnswersStay
<1>4. CASE StartAgain
  <2>1. UNCHANGED request
    BY <1>4 DEF StartAgain
  <2> QED
    BY <1>4, <2>1, StartAgainStep, AnswersStay
<1>5. CASE StartGRPC
  <2>1. UNCHANGED request
    BY <1>5 DEF StartGRPC
  <2> QED
    BY <1>5, <2>1, StartGRPCStep, AnswersStay
<1>6. CASE StartHTTP
  <2>1. UNCHANGED request
    BY <1>6 DEF StartHTTP
  <2> QED
    BY <1>6, <2>1, StartHTTPStep, AnswersStay
<1>7. CASE OpenStream
  <2>1. UNCHANGED request
    BY <1>7 DEF OpenStream
  <2> QED
    BY <1>7, <2>1, OpenStreamStep, AnswersStay
<1>8. CASE CloseStream
  <2>1. UNCHANGED request
    BY <1>8 DEF CloseStream
  <2> QED
    BY <1>8, <2>1, CloseStreamStep, AnswersStay
<1>9. CASE Stop
  <2>1. UNCHANGED request
    BY <1>9 DEF Stop
  <2> QED
    BY <1>9, <2>1, StopStep, AnswersStay
<1>10. CASE Stopping
  <2>1. UNCHANGED request
    BY <1>10 DEF Stopping, StopAgain, StopHTTP, StopGRPC, AwaitGRPC, AwaitServers, StopExporters
  <2>2. Inv'
    BY <1>10, StopAgainStep, StopHTTPStep, StopGRPCStep, AwaitGRPCStep, AwaitServersStep,
       StopExportersStep DEF Stopping
  <2> QED
    BY <2>1, <2>2, AnswersStay
<1>11. CASE Rebuild
  <2>1. UNCHANGED request
    BY <1>11 DEF Rebuild
  <2> QED
    BY <1>11, <2>1, RebuildStep, AnswersStay
<1>12. CASE \E n \in DOMAIN receivers : ServeFails(n)
  <2>1. UNCHANGED request
    BY <1>12 DEF ServeFails
  <2> QED
    BY <1>12, <2>1, ServeFailsStep, AnswersStay
<1>13. CASE \E e \in Exporter : Downgrade(e)
  <2>1. UNCHANGED request
    BY <1>13 DEF Downgrade
  <2> QED
    BY <1>13, <2>1, DowngradeStep, AnswersStay
<1>14. CASE \E r \in Request, s \in Signal : ReceiveGRPC(r, s)
  BY <1>14, ReceiveGRPCStep
<1>15. CASE \E r \in Request, s \in Signal : ReceiveHTTP(r, s)
  BY <1>15, ReceiveHTTPStep
<1>16. CASE \E r \in Request, s \in Signal : ReceiveArrow(r, s)
  BY <1>16, ReceiveArrowStep
<1>17. CASE \E r \in Request : Push(r)
  BY <1>17, PushStep
<1>18. CASE \E r \in Request : Answer(r)
  BY <1>18, AnswerStep
<1>19. CASE \E r \in Request : Forget(r)
  BY <1>19, ForgetStep
<1>20. CASE UNCHANGED vars
  <2>1. UNCHANGED <<service, receivers, exporter, stream, request>>
    BY <1>20 DEF vars, service
  <2>2. UNCHANGED <<config, phase, turn, shared, handle, routes, receivers, exporter, stream>>
    BY <2>1 DEF service
  <2>3. Unbuilt' = Unbuilt /\ Newest' = Newest
    BY <2>2 DEF Unbuilt, Newest
  <2>4. Types' /\ Generations' /\ Phases' /\ Pipeline'
    BY <2>1, <2>2, <2>3, GenerationsStay, PhasesStay, PipelineStay DEF Inv, Types
  <2>5. Requests'
    BY <2>1, <2>2, <2>3 DEF Inv, Requests, Held
  <2>6. Answers'
    BY <2>1, AnswersStay
  <2> QED
    BY <2>4, <2>5, <2>6 DEF Inv
<1> QED
  BY <1>1, <1>2, <1>3, <1>4, <1>5, <1>6, <1>7, <1>8, <1>9, <1>10, <1>11, <1>12, <1>13, <1>14,
     <1>15, <1>16, <1>17, <1>18, <1>19, <1>20 DEF Next

\* The invariants above hold in every reachable state.
LEMMA Invariant == Spec => [](Inv /\ Answers)
  BY InitInv, NextInv, PTL DEF Spec

LEMMA TypeFollows == Inv => TypeOK
<1> SUFFICES ASSUME Inv PROVE TypeOK
  OBVIOUS
<1>1. Types
  BY DEF Inv
<1>2. Len(receivers) \in Nat /\ DOMAIN receivers = 1..Len(receivers)
  BY <1>1, LenProperties DEF Types
<1>3. 0 \in 0..Len(receivers) /\ Len(receivers) \in 0..Len(receivers)
  BY <1>2
<1>4. /\ shared \in 0..Len(receivers) /\ stream \in 0..Len(receivers)
      /\ handle \in [Signal -> 0..Len(receivers)]
  BY <1>1, <1>3 DEF Types
<1>5. Cardinality(Range(handle) \ {0}) <= 1
  <2>1. Range(handle) \ {0} \subseteq {Len(receivers)}
    BY <1>1 DEF Types, Range
  <2>2. IsFiniteSet({Len(receivers)}) /\ Cardinality({Len(receivers)}) = 1
    BY FS_Singleton
  <2>3. /\ IsFiniteSet(Range(handle) \ {0})
        /\ Cardinality(Range(handle) \ {0}) <= Cardinality({Len(receivers)})
    BY <2>1, <2>2, FS_Subset
  <2> QED
    BY <2>2, <2>3
<1>6. \A n \in DOMAIN receivers :
        /\ receivers[n].consumers \subseteq Signal
        /\ {receivers[n].grpc, receivers[n].http} \subseteq Server
  <2>1. \A n \in DOMAIN receivers : receivers[n] \in AnyReceiver
    BY <1>1, <1>2, ElementOfSeq DEF Types
  <2> QED
    BY <2>1 DEF AnyReceiver
<1>7. \A r \in Request : request[r].state \in {"idle", "consuming", "answered"}
  BY <1>1 DEF Types, Idle, InHand, Done
<1> QED
  BY <1>1, <1>4, <1>5, <1>6, <1>7 DEF TypeOK, Types, Phase, Server, AnyExporter

\* Of all numbers that may be drawn for a signal, exactly as many lead to a
\* route as the weight of the route says (router.go).
LEMMA WeightsFollow == Inv => RoutesByWeight
<1> SUFFICES ASSUME Inv, NEW s \in Signal, NEW n \in DOMAIN routes[s]
             PROVE  Cardinality({x \in Drawn(routes[s]) : GetExporters(routes[s], x) = n})
                      = config.table[n].weight
  BY DEF RoutesByWeight
<1>1. routes[s] # <<>>
  OBVIOUS
<1>2. routes[s] = Route(s)
  BY <1>1 DEF Inv, Pipeline
<1> DEFINE table == config.table
           available == {e[2] : e \in Available(s)}
<1>3. table \in Table /\ Validate(table)
  BY CollectorAssumption DEF Inv, Types, Table, Item
<1>4. table # <<>> /\ \A i \in DOMAIN table : table[i].weight >= 0
  BY <1>3 DEF Validate
<1>5. routes[s] = RegisterExporters(table, available)
  BY <1>2 DEF Route
<1> HIDE DEF table, available
<1>6. n \in 1..Len(table)
  BY <1>3, <1>5, Routes
<1>7. Cardinality({x \in Drawn(routes[s]) : GetExporters(routes[s], x) = n}) = table[n].weight
  BY <1>3, <1>4, <1>5, <1>6, RouteShare
<1> QED
  BY <1>7 DEF table

LEMMA ServingFollows == Inv => StartedMeansServing
<1> SUFFICES ASSUME Inv, phase = "running", NEW s \in Signal
             PROVE  LET r == receivers[handle[s]] IN
                    /\ config.cfg.grpc => r.grpc = "serving" /\ <<"otlp", s>> \in r.services
                    /\ config.cfg.http => r.http = "serving" /\ s \in r.consumers
  BY DEF StartedMeansServing
<1>1. handle[s] = Len(receivers) /\ s \in Newest.consumers
  BY DEF Inv, Generations
<1>2. ServesGRPC(Newest) /\ ServesHTTP(Newest)
  BY DEF Inv, Phases
<1> QED
  BY <1>1, <1>2 DEF Newest, ServesGRPC, ServesHTTP

LEMMA OutlivesFollows == Inv => PipelineOutlivesRequests
<1> SUFFICES ASSUME Inv, NEW r \in Request, request[r].state = "consuming"
             PROVE  \/ \A e \in Range(request[r].todo) :
                         exporter[<<request[r].signal, e>>].conn = "open"
                    \/ request[r].way = "http" /\ receivers[request[r].receiver].timedOut
  BY DEF PipelineOutlivesRequests
<1> DEFINE q == request[r]
<1>1. Held(q) /\ q \in InHand
  BY ConsumingInHand DEF Inv, Requests
<1>2. q.way \in Way /\ q.signal \in Signal /\ q.receiver = Len(receivers) /\ ~Unbuilt
  BY <1>1 DEF InHand, Held
<1>3. CASE q.way = "http" /\ Newest.timedOut
  BY <1>2, <1>3 DEF Newest
<1>4. CASE Busy(Newest.grpc) \/ Busy(Newest.http)
  <2>1. phase \notin {"build", "stop exporters", "stopped"} /\ Newest.started
    BY <1>2, <1>4 DEF Inv, Phases, Unbuilt, Fresh, Closed, Busy
  <2>2. Opened(q.signal)
    BY <1>2, <2>1 DEF Inv, Pipeline, Complete
  <2>3. ASSUME NEW e \in Range(q.todo) PROVE <<q.signal, e>> \in Available(q.signal)
    BY <1>1, <2>3 DEF Held, Available
  <2> QED
    BY <2>2, <2>3 DEF Opened
<1>5. \/ q.way = "http" /\ Newest.timedOut
      \/ Busy(Newest.grpc) \/ Busy(Newest.http)
  <2>1. CASE q.way = "arrow"
    <3>1. Len(receivers) # 0
      BY <1>2 DEF Inv, Generations
    <3> QED
      BY <1>1, <2>1, <3>1 DEF Inv, Requests, Held
  <2>2. CASE q.way \in {"grpc", "http"}
    BY <1>1, <2>2 DEF Held
  <2> QED
    BY <1>2, <2>1, <2>2 DEF Way
<1> HIDE DEF q
<1> QED
  BY <1>3, <1>4, <1>5 DEF q

-----------------------------------------------------------------------------
(***************************************************************************)
(* Theorems.                                                               *)
(***************************************************************************)

\* The phases, the receivers and the exporters are of their types, and all
\* signals of one generation share one receiver (SharedComponents.GetOrAdd).
THEOREM TypeCorrect == Spec => []TypeOK
  BY Invariant, TypeFollows, PTL

\* A client is told of success only if every exporter of the route delivered its
\* request, and not to try again only if an endpoint refused it for good.
THEOREM TrueAnswers == Spec => []AnswersAreTrue
<1>1. Answers => AnswersAreTrue
  BY DEF Answers
<1> QED
  BY <1>1, Invariant, PTL

\* Of all numbers that may be drawn for a request, as many lead to a route as
\* its weight says, for every routing table Validate accepts.
THEOREM WeightedRoutes == Spec => []RoutesByWeight
  BY Invariant, WeightsFollow, PTL

\* Once every Start returned nil the configured servers run and serve every
\* signal, in every generation.
THEOREM Serving == Spec => []StartedMeansServing
  BY Invariant, ServingFollows, PTL

\* A request never meets an exporter that was shut down, unless the receiver's
\* Shutdown gave up waiting for it.
THEOREM Outlives == Spec => []PipelineOutlivesRequests
  BY Invariant, OutlivesFollows, PTL
=============================================================================
