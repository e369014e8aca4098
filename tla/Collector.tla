------------------------------ MODULE Collector ------------------------------
(***************************************************************************)
(* A collector with the components of this repository: an OTLP receiver    *)
(* for all signals and, for each signal, an experiment processor and the   *)
(* OTLP exporters it chooses from.  The service that builds, starts and    *)
(* stops them, its retries, the clients and the endpoints of the exporters *)
(* are not part of the repository: they do what they may.                  *)
(*                                                                         *)
(* Nothing is queued before an exporter: a request is answered when its    *)
(* exporters are done.                                                     *)
(***************************************************************************)
EXTENDS OtlpReceiver, OtlpExporter, ExperimentProcessor

CONSTANTS
  Signals,         \* a sequence: the pipelines in the order they are started
  Exporter,        \* the exporters, pairs of a signal and a name
  Request,
  Config,          \* the configurations of the receiver
  Tables,          \* routing tables
  Codes,           \* the statuses endpoints answer with
  MaxTries,        \* pushes the retry logic makes before it gives up
  MaxGenerations   \* bound: how often the collector is built

ASSUME CollectorAssumption ==
  /\ Signals \in Seq(STRING) \ {<<>>}
  /\ Exporter \subseteq Range(Signals) \X STRING
  /\ Config \subseteq Configs
  /\ Tables \subseteq Seq([weight : Int, exporters : Seq(STRING)])
  /\ MaxGenerations \in Nat \ {0}

Signal == Range(Signals)

VARIABLES
  config,     \* [cfg, table, arrowDisabled]
  phase,      \* of the service
  turn,       \* whose turn it is in a phase
  receivers,  \* every receiver there has been
  shared,     \* the map of SharedComponents: the receiver it holds, or 0
  handle,     \* the receiver of each signal, or 0
  exporter,   \* [Exporter -> exporter]
  routes,     \* the router of each signal
  stream,     \* the receiver an Arrow stream is open to, or 0
  request

vars == <<config, phase, turn, receivers, shared, handle, exporter, routes,
          stream, request>>

service == <<config, phase, turn, shared, handle, routes>>

Idle == [state |-> "idle"]

Init ==
  /\ config \in [cfg : {cfg \in Config : ValidConfig(cfg)},
                 table : {table \in Tables : Validate(table)}, arrowDisabled : BOOLEAN]
  /\ phase = "build"
  /\ turn = 1
  /\ receivers = <<>>
  /\ shared = 0
  /\ handle = [s \in Signal |-> 0]
  /\ exporter = [e \in Exporter |-> NewExporter]
  /\ routes = [s \in Signal |-> <<>>]
  /\ stream = 0
  /\ request = [r \in Request |-> Idle]

Mine == Signals[turn]

\* The exporters of a signal.
Available(s) == {e \in Exporter : e[1] = s}

LastTurn == turn = Len(Signals)

\* The next signal, or the next phase.
Onward(then) ==
  /\ phase' = IF LastTurn THEN then ELSE phase
  /\ turn' = IF LastTurn THEN 1 ELSE turn + 1

GoTo(then) == phase' = then /\ turn' = 1

-----------------------------------------------------------------------------
(***************************************************************************)
(* Building and starting: exporters, processors, receivers.                *)
(***************************************************************************)

\* Mutant: every signal gets a receiver of its own.
AddAlways ==
  /\ shared' = Len(receivers) + 1
  /\ receivers' = Append(receivers, RegisterConsumer(NewOtlpReceiver, Mine))

\* createTraces, createMetrics or createLog.
GetOrAdd ==
  IF shared # 0 THEN /\ UNCHANGED shared
                     /\ receivers' = [receivers EXCEPT ![shared] = RegisterConsumer(@, Mine)]
  ELSE /\ shared' = Len(receivers) + 1
       /\ receivers' = Append(receivers, RegisterConsumer(NewOtlpReceiver, Mine))

Build ==
  /\ phase = "build"
  /\ GetOrAdd
  /\ handle' = [handle EXCEPT ![Mine] = shared']
  /\ Onward("start exporters")
  /\ UNCHANGED <<config, exporter, routes, stream, request>>

\* The first exporter that fails ends the start, with or without a connection.
StartExporters ==
  /\ phase = "start exporters"
  /\ \E started \in SUBSET Available(Mine) :
       \E connected \in SUBSET (Available(Mine) \ started) :
         /\ connected # {} => ~config.arrowDisabled /\ Cardinality(connected) = 1
         /\ exporter' = [e \in Exporter |->
              CASE e \in started -> StartExporter(exporter[e], config.arrowDisabled)
                [] e \in connected -> StartFailsLate(exporter[e])
                [] OTHER -> exporter[e]]
         /\ IF started = Available(Mine) THEN Onward("start processors")
            ELSE GoTo("stop receivers")
  /\ UNCHANGED <<config, receivers, shared, handle, routes, stream, request>>

StartProcessor ==
  /\ phase = "start processors"
  /\ IF RegisterFails(config.table)
     THEN GoTo("stop receivers") /\ UNCHANGED routes
     ELSE /\ Onward("start receivers")
          /\ routes' = [routes EXCEPT ![Mine] =
                          RegisterExporters(config.table, {e[2] : e \in Available(Mine)})]
  /\ UNCHANGED <<config, receivers, shared, handle, exporter, stream, request>>

Receiver == receivers[handle[Mine]]

SetReceiver(r) == receivers' = [receivers EXCEPT ![handle[Mine]] = r]

\* SharedComponent.Start: only the first call starts the component.
StartAgain ==
  /\ phase = "start receivers"
  /\ Receiver.started
  /\ Onward("running")
  /\ UNCHANGED <<config, receivers, shared, handle, exporter, routes, stream, request>>

\* Another receiver has the address.
AddressTaken(kind) ==
  \E n \in DOMAIN receivers \ {handle[Mine]} : receivers[n][kind] = "serving"

StartGRPC ==
  /\ phase = "start receivers"
  /\ ~Receiver.started
  /\ \/ /\ config.cfg.grpc /\ ~AddressTaken("grpc")
        /\ SetReceiver([GRPCServing(Receiver, config.cfg) EXCEPT !.started = TRUE])
        /\ GoTo("start http")
     \/ /\ config.cfg.grpc
        /\ \E r \in GRPCFailures(Receiver, config.cfg) :
             SetReceiver([r EXCEPT !.started = TRUE])
        /\ GoTo("stop receivers")
     \/ /\ ~config.cfg.grpc
        /\ SetReceiver([Receiver EXCEPT !.started = TRUE])
        /\ GoTo("start http")
  /\ UNCHANGED <<config, shared, handle, exporter, routes, stream, request>>

StartHTTP ==
  /\ phase = "start http"
  /\ \/ /\ config.cfg.http /\ ~AddressTaken("http")
        /\ SetReceiver(HTTPServing(Receiver))
        /\ phase' = "start receivers"
     \/ /\ config.cfg.http
        /\ \E r \in HTTPFailures(Receiver) : SetReceiver(r)
        /\ phase' = "stop receivers"
     \/ /\ ~config.cfg.http
        /\ UNCHANGED receivers
        /\ phase' = "start receivers"
  /\ UNCHANGED <<config, turn, shared, handle, exporter, routes, stream, request>>

-----------------------------------------------------------------------------
(***************************************************************************)
(* Requests.                                                               *)
(***************************************************************************)

Running(n) == n # 0 /\ phase # "crashed"

\* The requests receiver n is busy with, by the way they came.
InFlight(n, ways) ==
  {r \in Request : request[r].state = "consuming" /\ request[r].receiver = n
                   /\ request[r].way \in ways}

Answered(r, way, answer) ==
  request' = [request EXCEPT ![r] =
    [state |-> "answered", way |-> way, answer |-> answer, route |-> {},
     delivered |-> {}, final |-> {}]]

\* A request goes to the exporters of a route.
Consume(r, n, way, s) ==
  \E x \in Drawn(routes[s]) :
    LET route == GetExporters(routes[s], x) IN
    request' = [request EXCEPT ![r] =
      [state |-> "consuming", receiver |-> n, way |-> way, signal |-> s,
       route |-> Range(routes[s][route].exporters), todo |-> routes[s][route].exporters,
       tries |-> 0, errors |-> {}, delivered |-> {}, final |-> {}]]

\* Export: a request without items is not passed on.
Export(r, n, way, s, ok) == Consume(r, n, way, s) \/ Answered(r, way, ok)

ReceiveGRPC(r, s) ==
  \E n \in DOMAIN receivers :
    /\ Running(n)
    /\ request[r].state = "idle"
    /\ receivers[n].grpc \in {"serving", "broken"}
    /\ IF <<"otlp", s>> \in receivers[n].services
       THEN Export(r, n, "grpc", s, "OK") ELSE Answered(r, "grpc", "error")
    /\ UNCHANGED <<service, receivers, exporter, stream>>

ReceiveHTTP(r, s) ==
  \E n \in DOMAIN receivers :
    /\ Running(n)
    /\ request[r].state = "idle"
    /\ receivers[n].http \in {"serving", "broken"}
    /\ IF s \notin receivers[n].consumers THEN Answered(r, "http", "404")
       ELSE \/ \E kind \in DOMAIN HTTPStatus :
                 \E status \in WriteError(HTTPStatus[kind]) : Answered(r, "http", status)
            \/ Export(r, n, "http", s, "200")
    /\ UNCHANGED <<service, receivers, exporter, stream>>

\* A service that is registered without an Arrow receiver fails on its first
\* use, and takes the process with it.
OpenStream ==
  \E n \in DOMAIN receivers :
    /\ Running(n)
    /\ stream = 0
    /\ receivers[n].grpc \in {"serving", "broken"}
    /\ \E s \in Signal \cup {"mixed"} : <<"arrow", s>> \in receivers[n].services
    /\ \/ receivers[n].arrow /\ stream' = n /\ UNCHANGED <<phase, turn>>
       \/ ~receivers[n].arrow /\ GoTo("crashed") /\ UNCHANGED stream
    /\ UNCHANGED <<config, receivers, shared, handle, exporter, routes, request>>

\* A batch that is rejected, that cannot be decoded or whose signal has no
\* consumer is answered, any other is consumed: see ArrowRecordStream.  The
\* server waits for streams, and they for batches, also when it is closing.
ReceiveArrow(r, s) ==
  /\ Running(stream)
  /\ request[r].state = "idle"
  /\ \/ s \in receivers[stream].consumers /\ Consume(r, stream, "arrow", s)
     \/ \E errors \in {{}, {"permanent"}, {"retry"}} : Answered(r, "arrow", ArrowAnswer(errors))
  /\ UNCHANGED <<service, receivers, exporter, stream>>

\* Batches of a stream are consumed one by one; one in hand is finished first.
CloseStream ==
  /\ Running(stream)
  /\ InFlight(stream, {"arrow"}) = {}
  /\ stream' = 0
  /\ UNCHANGED <<service, receivers, exporter, request>>

-----------------------------------------------------------------------------
\* Mutant: an error is forgotten if the next exporter has none.
LastError(errors, result) == IF result = "nil" THEN {} ELSE {result}

\* multierr.Append.
Appended(errors, result) == IF result = "nil" THEN errors ELSE errors \cup {result}

\* The exporter in turn pushes the request.  Errors that are not permanent are
\* tried again until the retry logic gives up.
Push(r) ==
  /\ phase # "crashed"
  /\ request[r].state = "consuming"
  /\ request[r].todo # <<>>
  /\ LET q == request[r]
         e == Head(q.todo)
     IN  \E outcome \in PushOutcomes(exporter[<<q.signal, e>>], Codes) :
           LET done == outcome.result \in {"nil", "permanent"} \/ q.tries + 1 = MaxTries
           IN  request' = [request EXCEPT ![r] =
                 [q EXCEPT !.todo = IF done THEN Tail(@) ELSE @,
                           !.tries = IF done THEN 0 ELSE @ + 1,
                           !.errors = IF done THEN Appended(@, outcome.result) ELSE @,
                           !.delivered = IF outcome.delivered THEN @ \cup {e} ELSE @,
                           !.final = IF outcome.result = "permanent" THEN @ \cup {e} ELSE @]]
  /\ UNCHANGED <<service, receivers, exporter, stream>>

Answer(r) ==
  /\ phase # "crashed"
  /\ request[r].state = "consuming"
  /\ request[r].todo = <<>>
  /\ LET q == request[r] IN
     \E answer \in CASE q.way = "http" -> HTTPAnswers(q.errors)
                     [] q.way = "grpc" -> {GRPCAnswer(q.errors)}
                     [] q.way = "arrow" -> {ArrowAnswer(q.errors)} :
       request' = [request EXCEPT ![r] =
         [state |-> "answered", way |-> q.way, answer |-> answer, route |-> q.route,
          delivered |-> q.delivered, final |-> q.final]]
  /\ UNCHANGED <<service, receivers, exporter, stream>>

\* The client is done with the answer.
Forget(r) ==
  /\ request[r].state = "answered"
  /\ request' = [request EXCEPT ![r] = Idle]
  /\ UNCHANGED <<service, receivers, exporter, stream>>

\* The last stream of an exporter finds that its endpoint does not know Arrow.
Downgrade(e) ==
  /\ phase # "crashed"
  /\ exporter[e].arrow = "up"
  /\ exporter' = [exporter EXCEPT ![e].arrow = "refused"]
  /\ UNCHANGED <<service, receivers, stream, request>>

-----------------------------------------------------------------------------
(***************************************************************************)
(* Stopping: receivers, then exporters.  A processor has nothing to stop.  *)
(***************************************************************************)

\* ReportFatalError: a server that loses its listener stops the service.
ServeFails(n) ==
  /\ phase = "running"
  /\ \/ receivers[n].grpc = "serving" /\ receivers' = [receivers EXCEPT ![n].grpc = "broken"]
     \/ receivers[n].http = "serving" /\ receivers' = [receivers EXCEPT ![n].http = "broken"]
  /\ GoTo("stop receivers")
  /\ UNCHANGED <<config, shared, handle, exporter, routes, stream, request>>

Stop ==
  /\ phase = "running"
  /\ GoTo("stop receivers")
  /\ UNCHANGED <<config, receivers, shared, handle, exporter, routes, stream, request>>

\* SharedComponent.Shutdown: only the first call stops the component.
StopAgain ==
  /\ phase = "stop receivers"
  /\ Receiver.stopped
  /\ Onward("stop exporters")
  /\ UNCHANGED <<config, receivers, shared, handle, exporter, routes, stream, request>>

StopHTTP ==
  /\ phase = "stop receivers"
  /\ ~Receiver.stopped
  /\ SetReceiver([CloseHTTP(Receiver) EXCEPT !.stopped = TRUE])
  /\ phase' = "close http"
  /\ UNCHANGED <<config, turn, shared, handle, exporter, routes, stream, request>>

StopGRPC ==
  /\ phase = "close http"
  /\ \/ /\ InFlight(handle[Mine], {"http"}) = {}
        /\ SetReceiver(CloseGRPC(HTTPDrained(Receiver)))
     \/ /\ InFlight(handle[Mine], {"http"}) # {}
        /\ SetReceiver(CloseGRPC(HTTPTimesOut(Receiver)))
  /\ phase' = "close grpc"
  /\ UNCHANGED <<config, turn, shared, handle, exporter, routes, stream, request>>

\* Mutant: the gRPC server does not wait.
Stopped(n) == TRUE

\* GracefulStop waits for calls and for streams.
GracefullyStopped(n) == InFlight(n, {"grpc", "arrow"}) = {} /\ stream # n

AwaitGRPC ==
  /\ phase = "close grpc"
  /\ GracefullyStopped(handle[Mine])
  /\ SetReceiver(GRPCDrained(Receiver))
  /\ phase' = "await servers"
  /\ UNCHANGED <<config, turn, shared, handle, exporter, routes, stream, request>>

\* Mutant: the map keeps the receiver.
KeepShared == shared

\* removeFunc.
Removed == 0

AwaitServers ==
  /\ phase = "await servers"
  /\ ServersDone(Receiver)
  /\ shared' = Removed
  /\ phase' = "stop receivers"
  /\ UNCHANGED <<config, turn, receivers, handle, exporter, routes, stream, request>>

StopExporters ==
  /\ phase = "stop exporters"
  /\ exporter' = [e \in Exporter |->
       IF e \in Available(Mine) THEN ShutdownExporter(exporter[e]) ELSE exporter[e]]
  /\ Onward("stopped")
  /\ UNCHANGED <<config, receivers, shared, handle, routes, stream, request>>

\* The same configuration again.
Rebuild ==
  /\ phase = "stopped"
  /\ Len(receivers) < MaxGenerations
  /\ InFlight(handle[Mine], {"http"}) = {}
  /\ GoTo("build")
  /\ handle' = [s \in Signal |-> 0]
  /\ exporter' = [e \in Exporter |-> NewExporter]
  /\ routes' = [s \in Signal |-> <<>>]
  /\ UNCHANGED <<config, receivers, shared, stream, request>>

-----------------------------------------------------------------------------
Stopping ==
  \/ StopAgain
  \/ StopHTTP
  \/ StopGRPC
  \/ AwaitGRPC
  \/ AwaitServers
  \/ StopExporters

Next ==
  \/ Build
  \/ StartExporters
  \/ StartProcessor
  \/ StartAgain
  \/ StartGRPC
  \/ StartHTTP
  \/ OpenStream
  \/ CloseStream
  \/ Stop
  \/ Stopping
  \/ Rebuild
  \/ \E n \in DOMAIN receivers : ServeFails(n)
  \/ \E e \in Exporter : Downgrade(e)
  \/ \E r \in Request :
       \/ \E s \in Signal : ReceiveGRPC(r, s) \/ ReceiveHTTP(r, s) \/ ReceiveArrow(r, s)
       \/ Push(r)
       \/ Answer(r)
       \/ Forget(r)

Spec == Init /\ [][Next]_vars

\* The service goes on stopping, and the pushes of a request end: an endpoint
\* answers or the call times out.  Clients do as they like.
FairSpec ==
  /\ Spec
  /\ WF_vars(Stopping)
  /\ \A r \in Request : WF_vars(Push(r)) /\ WF_vars(Answer(r))

-----------------------------------------------------------------------------
(***************************************************************************)
(* Properties.                                                             *)
(***************************************************************************)

\* Types; and the signals of one generation share one receiver.
TypeOK ==
  /\ phase \in {"build", "start exporters", "start processors", "start receivers",
                "start http", "running", "stop receivers", "close http", "close grpc",
                "await servers", "stop exporters", "stopped", "crashed"}
  /\ turn \in 1..Len(Signals)
  /\ shared \in 0..Len(receivers)
  /\ handle \in [Signal -> 0..Len(receivers)]
  /\ Cardinality(Range(handle) \ {0}) <= 1
  /\ stream \in 0..Len(receivers)
  /\ Len(receivers) <= MaxGenerations
  /\ \A n \in DOMAIN receivers :
       /\ receivers[n].consumers \subseteq Signal
       /\ {receivers[n].grpc, receivers[n].http}
            \subseteq {"none", "created", "serving", "broken", "closing", "stopped"}
  /\ \A e \in Exporter :
       exporter[e] \in [conn : {"none", "open", "closed"},
                        arrow : {"none", "up", "refused", "stopped"}]
  /\ \A r \in Request : request[r].state \in {"idle", "consuming", "answered"}

\* Success is answered only if every exporter of the route has delivered the
\* request, whatever the others returned; and a client is told not to try again
\* only if an endpoint has refused the request for good.
AnswersAreTrue ==
  \A r \in Request : request[r].state = "answered" /\ request[r].route # {} =>
    /\ request[r].answer \in {"200", "OK"} => request[r].route = request[r].delivered
    /\ request[r].answer = "INVALID_ARGUMENT" => request[r].final # {}

\* Of all numbers that may be drawn, as many lead to a route as its weight says.
RoutesByWeight ==
  \A s \in Signal : \A n \in DOMAIN routes[s] :
    Cardinality({x \in Drawn(routes[s]) : GetExporters(routes[s], x) = n})
      = config.table[n].weight

\* Once every Start has returned nil the servers of the configuration run, with
\* the services of every signal, although only the first call of Start and of
\* Shutdown has an effect and the receiver is built again and again.
StartedMeansServing ==
  phase = "running" =>
    \A s \in Signal :
      LET r == receivers[handle[s]] IN
      /\ config.cfg.grpc => r.grpc = "serving" /\ <<"otlp", s>> \in r.services
      /\ config.cfg.http => r.http = "serving" /\ s \in r.consumers

\* A request never meets an exporter that was shut down, unless the context of
\* the receiver's Shutdown ended before the request.
PipelineOutlivesRequests ==
  \A r \in Request : request[r].state = "consuming" =>
    \/ \A e \in Range(request[r].todo) : exporter[<<request[r].signal, e>>].conn = "open"
    \/ request[r].way = "http" /\ receivers[request[r].receiver].timedOut

\* Nothing holds up Shutdown for ever, except an Arrow stream its client keeps.
StopCompletes ==
  phase = "stop receivers" ~> (phase \in {"stopped", "crashed"} \/ stream # 0)
=============================================================================
