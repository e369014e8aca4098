--------------------------- MODULE ArrowExporter ---------------------------
(***************************************************************************)
(* The OTel-Arrow exporter's stream machinery                              *)
(* (collector/gen/exporter/otlpexporter/internal/arrow): callers that      *)
(* export a batch (Exporter.SendAndWait), the streams that carry it        *)
(* (Stream.run with its reader and its writer goroutine), the channel of   *)
(* streams that are ready for a batch (streamPrioritizer), the controller  *)
(* that restarts broken streams or downgrades the exporter, and shutdown.  *)
(*                                                                         *)
(* One action is one step between two points where another goroutine can   *)
(* observe or change shared state: a channel operation, a locked section,  *)
(* a call into gRPC.                                                       *)
(***************************************************************************)
EXTENDS Integers, Sequences, FiniteSets

CONSTANTS
  Stream,            \* names for Stream objects; a name is reused once nothing refers to it
  Request,           \* calls of Exporter.SendAndWait
  NumStreams,        \* configured number of concurrent streams
  DisableDowngrade,  \* configured: never give up on Arrow
  EndpointRefuses,   \* the endpoint may refuse Arrow streams
  CredentialsFail,   \* the auth extension may fail to produce request metadata
  BatchId,           \* batch IDs a producer may hand out (bounds the counter)
  StatusCode,        \* status codes the server is taken to answer with
  NoStream,
  NoRequest

ASSUME ExporterAssumption ==
  /\ NumStreams \in Nat \ {0}
  /\ DisableDowngrade \in BOOLEAN
  /\ EndpointRefuses \in BOOLEAN
  /\ CredentialsFail \in BOOLEAN
  /\ BatchId \subseteq Nat
  /\ StatusCode \subseteq {"OK", "UNAVAILABLE", "INVALID_ARGUMENT", "OTHER"}
  /\ NoStream \notin Stream
  /\ NoRequest \notin Request

\* Names are reused, so there need not be more of them than a process can hold.
ASSUME StreamAssumption == IsFiniteSet(Stream)

VARIABLES
  \* one per Stream object
  spc,        \* where Stream.run is
  wpc,        \* where the writer goroutine is
  client,     \* stream.client # nil
  cancelled,  \* the stream's own context was cancelled
  toWrite,    \* the one-place channel of writeItems, NoRequest when empty
  item,       \* the writeItem the writer took
  batchId,    \* the producer's batch counter
  waiters,    \* batch ID -> the call waiting for its status
  sent,       \* batch ID -> the call whose records the server holds unanswered
  alternate,  \* the other stream removeReady holds in its hand
  \* channels and the controller
  ready,      \* streamPrioritizer.channel
  downgraded, \* that channel is closed
  returning,  \* Exporter.returning
  cpc,        \* where runStreamController is
  running,    \* its count of streams
  wg,         \* Exporter.wg
  shutdown,   \* where Shutdown is; its first step cancels the background context
  \* one per call
  rpc,        \* where SendAndWait is
  hold,       \* the stream it took from the ready channel
  errCh,      \* the one-place response channel, "empty" when empty
  result,     \* what SendAndWait returned
  verdict     \* history: the status codes received for this call's records, or
              \* "UNENCODABLE" when the producer refused them

streamVars == <<spc, wpc, client, cancelled, toWrite, item, batchId,
                waiters, sent, alternate>>
controlVars == <<ready, downgraded, returning, cpc, running, wg, shutdown>>
callVars == <<rpc, hold, errCh, result, verdict>>
vars == <<streamVars, controlVars, callVars>>

-----------------------------------------------------------------------------

Answer == {"nil", "retryable", "permanent", "restarting"}

Result == [sent : BOOLEAN,
           err : {"nil", "ctx", "credentials", "retryable", "permanent"}]

NoResult == [sent |-> FALSE, err |-> "none"]

NoBatches == [id \in BatchId |-> NoRequest]

\* The calls that wait for a batch of stream s, or whose records it sent.
CallsIn(batches) == {batches[id] : id \in BatchId} \ {NoRequest}

InReady(s) == \E i \in 1..Len(ready) : ready[i] = s

ShuttingDown == shutdown # "no"

\* Mutant: the stream's context is not a child of the background context.
OwnContextDone(s) == cancelled[s]

\* ctx.Done() of the context Stream.run derives from the background context.
ContextDone(s) == cancelled[s] \/ ShuttingDown

\* Nothing refers to the object named s any more, once the controller has
\* taken the first element of returning: the name may be reused.
Reusable(s) ==
  /\ spc[s] = "off"
  /\ \A i \in 2..Len(returning) : returning[i] # s
  /\ ~InReady(s)
  /\ toWrite[s] = NoRequest
  /\ \A r \in Request : rpc[r] = "holding" => hold[r] # s
  /\ \A t \in Stream : alternate[t] # s

-----------------------------------------------------------------------------
(***************************************************************************)
(* The state after Exporter.Start: the controller goroutine was started    *)
(* and counted, no stream has been.                                        *)
(***************************************************************************)
Init ==
  /\ spc = [s \in Stream |-> "off"]
  /\ wpc = [s \in Stream |-> "off"]
  /\ client = [s \in Stream |-> FALSE]
  /\ cancelled = [s \in Stream |-> FALSE]
  /\ toWrite = [s \in Stream |-> NoRequest]
  /\ item = [s \in Stream |-> NoRequest]
  /\ batchId = [s \in Stream |-> 0]
  /\ waiters = [s \in Stream |-> NoBatches]
  /\ sent = [s \in Stream |-> NoBatches]
  /\ alternate = [s \in Stream |-> NoStream]
  /\ ready = <<>>
  /\ downgraded = FALSE
  /\ returning = <<>>
  /\ cpc = "spawn"
  /\ running = NumStreams
  /\ wg = 1
  /\ shutdown = "no"
  /\ rpc = [r \in Request |-> "idle"]
  /\ hold = [r \in Request |-> NoStream]
  /\ errCh = [r \in Request |-> "empty"]
  /\ result = [r \in Request |-> NoResult]
  /\ verdict = [r \in Request |-> {}]

-----------------------------------------------------------------------------
(***************************************************************************)
(* The controller.                                                         *)
(***************************************************************************)

\* Mutant: wg.Add is forgotten.
Uncounted(S) == wg

\* wg.Add, once per stream.
Counted(S) == wg + Cardinality(S)

\* wg.Add, then "go runArrowStream" on a new Stream object, for each s in S.
\* The old object named s no longer exists; only its name is reused.
Spawn(S) ==
  /\ spc' = [s \in Stream |-> IF s \in S THEN "spawned" ELSE spc[s]]
  /\ client' = [s \in Stream |-> s \notin S /\ client[s]]
  /\ cancelled' = [s \in Stream |-> s \notin S /\ cancelled[s]]
  /\ wg' = Counted(S)

SpawnInitialStreams ==
  /\ cpc = "spawn"
  /\ \E S \in SUBSET {s \in Stream : Reusable(s)} :
       /\ Cardinality(S) = NumStreams
       /\ Spawn(S)
  /\ cpc' = "select"
  /\ UNCHANGED <<wpc, toWrite, item, batchId, waiters, sent, alternate, ready,
                 downgraded, returning, running, shutdown, callVars>>

\* A stream came back with a client, or downgrade is disabled: start another.
\* Shutdown may have happened: select picks any channel that is ready.
RestartStream ==
  /\ cpc = "select"
  /\ returning # <<>>
  /\ client[Head(returning)] \/ DisableDowngrade
  /\ \E s \in Stream : Reusable(s) /\ Spawn({s})
  /\ returning' = Tail(returning)
  /\ UNCHANGED <<wpc, toWrite, item, batchId, waiters, sent, alternate, ready,
                 downgraded, cpc, running, shutdown, callVars>>

\* Mutant: the first stream without a client downgrades the exporter.
AnyStreamDowngrades == running > 0

\* None of the streams was able to use an Arrow endpoint.
LastStreamDowngrades == running = 1

\* A stream came back without a client.  The last one closes the ready
\* channel (streamPrioritizer.downgrade).
AbandonStream ==
  /\ cpc = "select"
  /\ returning # <<>>
  /\ ~client[Head(returning)] /\ ~DisableDowngrade
  /\ returning' = Tail(returning)
  /\ running' = running - 1
  /\ downgraded' = (downgraded \/ LastStreamDowngrades)
  /\ UNCHANGED <<streamVars, ready, cpc, wg, shutdown, callVars>>

\* The bgctx.Done() branch, with the deferred wg.Done().
ControllerStops ==
  /\ cpc = "select"
  /\ ShuttingDown
  /\ cpc' = "done"
  /\ wg' = wg - 1
  /\ UNCHANGED <<streamVars, ready, downgraded, returning, running, shutdown,
                 callVars>>

-----------------------------------------------------------------------------
(***************************************************************************)
(* Stream.run and the reader it becomes.                                   *)
(***************************************************************************)

MayDial(s) == ~ContextDone(s)

\* The streamClient call starts.  gRPC refuses a context that is already
\* cancelled; one cancelled during the call may still get a stream.
Dial(s) ==
  /\ spc[s] = "spawned"
  /\ MayDial(s)
  /\ spc' = [spc EXCEPT ![s] = "dialing"]
  /\ UNCHANGED <<wpc, client, cancelled, toWrite, item, batchId, waiters, sent,
                 alternate, controlVars, callVars>>

\* streamClient succeeds: the writer goroutine is started.
Connect(s) ==
  /\ spc[s] = "dialing"
  /\ spc' = [spc EXCEPT ![s] = "read"]
  /\ client' = [client EXCEPT ![s] = TRUE]
  /\ wpc' = [wpc EXCEPT ![s] = "setReady"]
  /\ UNCHANGED <<cancelled, toWrite, item, batchId, waiters, sent, alternate,
                 controlVars, callVars>>

\* streamClient fails: run returns with client = nil; deferred wg.Done().
ConnectFails(s) ==
  /\ \/ spc[s] = "dialing" /\ (EndpointRefuses \/ ContextDone(s))
     \/ spc[s] = "spawned" /\ ContextDone(s)
  /\ spc' = [spc EXCEPT ![s] = "returning"]
  /\ cancelled' = [cancelled EXCEPT ![s] = TRUE]
  /\ wg' = wg - 1
  /\ UNCHANGED <<wpc, client, toWrite, item, batchId, waiters, sent, alternate,
                 ready, downgraded, returning, cpc, running, shutdown, callVars>>

\* Mutant: run does not cancel before it waits for the writer.
StopReadingOnly(s, pc) ==
  spc' = [spc EXCEPT ![s] = pc] /\ UNCHANGED cancelled

\* read returns: run cancels the context and waits for the writer.
StopReading(s, pc) ==
  /\ spc' = [spc EXCEPT ![s] = pc]
  /\ cancelled' = [cancelled EXCEPT ![s] = TRUE]

\* Mutants: the status code reaches the caller as it is; a code the reader does
\* not know counts as success; it is retried inside the exporter.
AnswerForRaw(code) == IF code = "OK" THEN "nil" ELSE code
AnswerForLenient(code) == IF code = "UNAVAILABLE" THEN "retryable" ELSE "nil"
AnswerForRetried(code) == IF code = "OK" THEN "nil" ELSE "restarting"

\* The error, if any, that a status code becomes for the caller.
AnswerFor(code) ==
  CASE code = "OK" -> "nil"
    [] code = "UNAVAILABLE" -> "retryable"
    [] OTHER -> "permanent"

\* One BatchStatus: the server answers the batches in ids, each with a code,
\* and stray says that it also names a batch it was never sent or has already
\* answered.  The senders found are answered even when the response
\* breaks the stream.
ReceiveStatus(s, ids, code, stray) ==
  LET found == {id \in ids : waiters[s][id] # NoRequest}
      broken == stray \/ found # ids \/ \E id \in found : code[id] = "OTHER"
      answered(r) == {id \in found : waiters[s][id] = r}
  IN
  /\ spc[s] = "read"
  /\ ids # {} \/ stray
  /\ \A id \in found : errCh[waiters[s][id]] = "empty"
  /\ errCh' = [r \in Request |->
                 IF answered(r) = {} THEN errCh[r]
                 ELSE AnswerFor(code[CHOOSE id \in answered(r) : TRUE])]
  /\ waiters' = [waiters EXCEPT ![s] =
                   [id \in BatchId |-> IF id \in ids THEN NoRequest ELSE @[id]]]
  /\ sent' = [sent EXCEPT ![s] =
                [id \in BatchId |-> IF id \in ids THEN NoRequest ELSE @[id]]]
  /\ verdict' = [r \in Request |->
                   verdict[r] \cup {code[id] : id \in {i \in ids : sent[s][i] = r}}]
  /\ IF broken THEN StopReading(s, "stopping") ELSE UNCHANGED <<spc, cancelled>>
  /\ UNCHANGED <<wpc, client, toWrite, item, batchId, alternate, controlVars,
                 rpc, hold, result>>

ReceiveSomeStatus(s) ==
  \E ids \in SUBSET {id \in BatchId : sent[s][id] # NoRequest} :
    \E code \in [ids -> StatusCode], stray \in BOOLEAN :
      ReceiveStatus(s, ids, code, stray)

\* client.Recv() fails, with status Unimplemented or any other; also the way
\* the reader learns that the context was cancelled.
ReceiveError(s) ==
  /\ spc[s] = "read"
  /\ \E pc \in {"stopping"} \cup (IF EndpointRefuses THEN {"unsupported"} ELSE {}) :
       StopReading(s, pc)
  /\ UNCHANGED <<wpc, client, toWrite, item, batchId, waiters, sent, alternate,
                 controlVars, callVars>>

\* Mutant: the clean-up releases nobody.
NoneOutstanding(s) == {}

\* The calls the clean-up at the end of run has to release.
Outstanding(s) == CallsIn(waiters[s])

\* The writer has finished: every waiter is told to retry, the producer is
\* closed (so the counter starts again in the next stream), wg.Done().
Finish(s) ==
  /\ spc[s] \in {"stopping", "unsupported"}
  /\ wpc[s] = "done"
  /\ \A r \in Outstanding(s) : errCh[r] = "empty"
  /\ errCh' = [r \in Request |->
                 IF r \in Outstanding(s) THEN "restarting" ELSE errCh[r]]
  /\ client' = [client EXCEPT ![s] = spc[s] # "unsupported"]
  /\ spc' = [spc EXCEPT ![s] = "returning"]
  /\ wpc' = [wpc EXCEPT ![s] = "off"]
  /\ waiters' = [waiters EXCEPT ![s] = NoBatches]
  /\ sent' = [sent EXCEPT ![s] = NoBatches]
  /\ batchId' = [batchId EXCEPT ![s] = 0]
  /\ wg' = wg - 1
  /\ UNCHANGED <<cancelled, toWrite, item, alternate, ready, downgraded,
                 returning, cpc, running, shutdown, rpc, hold, result, verdict>>

\* Mutant: one place too few.
SmallReturningCapacity == NumStreams - 1

ReturningCapacity == NumStreams

\* e.returning <- stream, after which the goroutine is gone.
Return(s) ==
  /\ spc[s] = "returning"
  /\ Len(returning) < ReturningCapacity
  /\ returning' = Append(returning, s)
  /\ spc' = [spc EXCEPT ![s] = "off"]
  /\ UNCHANGED <<wpc, client, cancelled, toWrite, item, batchId, waiters, sent,
                 alternate, ready, downgraded, cpc, running, wg, shutdown,
                 callVars>>

-----------------------------------------------------------------------------
(***************************************************************************)
(* Stream.write, the writer goroutine.                                     *)
(***************************************************************************)

\* prioritizer.setReady.  A send on the closed channel would panic, which is
\* what NoSendOnClosedChannel excludes.
SetReady(s) ==
  /\ wpc[s] = "setReady"
  /\ Len(ready) < NumStreams
  /\ ready' = Append(ready, s)
  /\ wpc' = [wpc EXCEPT ![s] = "select"]
  /\ UNCHANGED <<spc, client, cancelled, toWrite, item, batchId, waiters, sent,
                 alternate, downgraded, returning, cpc, running, wg, shutdown,
                 callVars>>

TakeItem(s) ==
  /\ wpc[s] = "select"
  /\ toWrite[s] # NoRequest
  /\ item' = [item EXCEPT ![s] = toWrite[s]]
  /\ toWrite' = [toWrite EXCEPT ![s] = NoRequest]
  /\ wpc' = [wpc EXCEPT ![s] = "encode"]
  /\ UNCHANGED <<spc, client, cancelled, batchId, waiters, sent, alternate,
                 controlVars, callVars>>

\* Mutant: the writer returns and leaves its stream in the ready set.
QuitWhenContextDone == "done"

RemoveWhenContextDone == "remove"

SeeContextDone(s) ==
  /\ wpc[s] = "select"
  /\ ContextDone(s)
  /\ wpc' = [wpc EXCEPT ![s] = RemoveWhenContextDone]
  /\ UNCHANGED <<spc, client, cancelled, toWrite, item, batchId, waiters, sent,
                 alternate, controlVars, callVars>>

\* write returns; its deferred cancel() wakes the reader.
StopWriting(s) ==
  /\ wpc' = [wpc EXCEPT ![s] = "done"]
  /\ cancelled' = [cancelled EXCEPT ![s] = TRUE]
  /\ item' = [item EXCEPT ![s] = NoRequest]

\* Mutant: the batch is sent without its caller being registered.
Unregistered(s) == waiters

\* setBatchChannel.
Registered(s) == [waiters EXCEPT ![s][batchId[s]] = item[s]]

\* The producer encodes the records under the next batch ID, and the call is
\* registered under it before anything is sent.
Encode(s) ==
  /\ wpc[s] = "encode"
  /\ batchId[s] \in BatchId
  /\ waiters' = Registered(s)
  /\ batchId' = [batchId EXCEPT ![s] = @ + 1]
  /\ wpc' = [wpc EXCEPT ![s] = "send"]
  /\ UNCHANGED <<spc, client, cancelled, toWrite, item, sent, alternate,
                 controlVars, callVars>>

\* The producer fails or panics, or the metadata does not encode: a permanent
\* error for this call, and the end of the stream.
EncodeFails(s) ==
  /\ wpc[s] = "encode"
  /\ errCh[item[s]] = "empty"
  /\ errCh' = [errCh EXCEPT ![item[s]] = "permanent"]
  /\ verdict' = [verdict EXCEPT ![item[s]] = @ \cup {"UNENCODABLE"}]
  /\ StopWriting(s)
  /\ UNCHANGED <<spc, client, toWrite, batchId, waiters, sent, alternate,
                 controlVars, rpc, hold, result>>

Send(s) ==
  /\ wpc[s] = "send"
  /\ sent' = [sent EXCEPT ![s][batchId[s] - 1] = item[s]]
  /\ item' = [item EXCEPT ![s] = NoRequest]
  /\ wpc' = [wpc EXCEPT ![s] = "setReady"]
  /\ UNCHANGED <<spc, client, cancelled, toWrite, batchId, waiters, alternate,
                 controlVars, callVars>>

\* The waiter stays registered: Finish answers it.
SendFails(s) ==
  /\ wpc[s] = "send"
  /\ StopWriting(s)
  /\ UNCHANGED <<spc, client, toWrite, batchId, waiters, sent, alternate,
                 controlVars, callVars>>

\* removeReady, first branch of its select: the exporter is shutting down.
RemoveOnShutdown(s) ==
  /\ wpc[s] = "remove"
  /\ ShuttingDown
  /\ StopWriting(s)
  /\ UNCHANGED <<spc, client, toWrite, batchId, waiters, sent, alternate,
                 controlVars, callVars>>

\* Second branch: the stream found is this one ...
RemoveSelf(s) ==
  /\ wpc[s] = "remove"
  /\ ready # <<>> /\ Head(ready) = s
  /\ ready' = Tail(ready)
  /\ StopWriting(s)
  /\ UNCHANGED <<spc, client, toWrite, batchId, waiters, sent, alternate,
                 downgraded, returning, cpc, running, wg, shutdown, callVars>>

\* ... or another one ...
RemoveOther(s) ==
  /\ wpc[s] = "remove"
  /\ ready # <<>> /\ Head(ready) # s
  /\ ready' = Tail(ready)
  /\ alternate' = [alternate EXCEPT ![s] = Head(ready)]
  /\ wpc' = [wpc EXCEPT ![s] = "putBack"]
  /\ UNCHANGED <<spc, client, cancelled, toWrite, item, batchId, waiters, sent,
                 downgraded, returning, cpc, running, wg, shutdown, callVars>>

\* Mutant: the other stream is dropped.
DropAlternate(s) == ready

\* ... which goes to the end of the queue.
Requeue(s) == Append(ready, alternate[s])

PutBack(s) ==
  /\ wpc[s] = "putBack"
  /\ Len(ready) < NumStreams
  /\ ready' = Requeue(s)
  /\ alternate' = [alternate EXCEPT ![s] = NoStream]
  /\ wpc' = [wpc EXCEPT ![s] = "remove"]
  /\ UNCHANGED <<spc, client, cancelled, toWrite, item, batchId, waiters, sent,
                 downgraded, returning, cpc, running, wg, shutdown, callVars>>

\* Third branch: a consumer got the stream first; it is told to retry.
RemoveItem(s) ==
  /\ wpc[s] = "remove"
  /\ toWrite[s] # NoRequest
  /\ errCh[toWrite[s]] = "empty"
  /\ errCh' = [errCh EXCEPT ![toWrite[s]] = "restarting"]
  /\ toWrite' = [toWrite EXCEPT ![s] = NoRequest]
  /\ StopWriting(s)
  /\ UNCHANGED <<spc, client, batchId, waiters, sent, alternate, controlVars,
                 rpc, hold, result, verdict>>

-----------------------------------------------------------------------------
(***************************************************************************)
(* Exporter.SendAndWait and, inside it, Stream.SendAndWait.                *)
(***************************************************************************)

Call(r) ==
  /\ rpc[r] = "idle"
  /\ rpc' = [rpc EXCEPT ![r] = "choose"]
  /\ UNCHANGED <<streamVars, controlVars, hold, errCh, result, verdict>>

ReturnToCaller(r, isSent, err) ==
  /\ rpc' = [rpc EXCEPT ![r] = "done"]
  /\ hold' = [hold EXCEPT ![r] = NoStream]
  /\ result' = [result EXCEPT ![r] = [sent |-> isSent, err |-> err]]

\* Mutant: the stream stays in the ready queue.
PeekReady == ready

\* What a receive leaves in the ready channel.
DequeueReady == Tail(ready)

TakeStream(r) ==
  /\ rpc[r] = "choose"
  /\ ready # <<>>
  /\ hold' = [hold EXCEPT ![r] = Head(ready)]
  /\ ready' = DequeueReady
  /\ rpc' = [rpc EXCEPT ![r] = "holding"]
  /\ UNCHANGED <<streamVars, downgraded, returning, cpc, running, wg, shutdown,
                 errCh, result, verdict>>

\* A receive from the closed channel yields nil once it is empty.
FallBack(r) ==
  /\ rpc[r] = "choose"
  /\ downgraded /\ ready = <<>>
  /\ ReturnToCaller(r, FALSE, "nil")
  /\ UNCHANGED <<streamVars, controlVars, errCh, verdict>>

ExpireBeforeStream(r) ==
  /\ rpc[r] = "choose"
  /\ ReturnToCaller(r, FALSE, "ctx")
  /\ UNCHANGED <<streamVars, controlVars, errCh, verdict>>

\* GetRequestMetadata fails: the call returns with the stream in its hand.
CredentialsError(r) ==
  /\ CredentialsFail
  /\ rpc[r] = "holding"
  /\ ReturnToCaller(r, TRUE, "credentials")
  /\ UNCHANGED <<streamVars, controlVars, errCh, verdict>>

\* Mutant: toWrite has no buffer.
Receiving(s) == wpc[s] \in {"select", "remove"} /\ toWrite[s] = NoRequest

\* A send on the one-place channel goes through.
HasRoom(s) == toWrite[s] = NoRequest

\* The send on toWrite, with a fresh response channel.  It does not watch the
\* caller's context.
HandOff(r) ==
  /\ rpc[r] = "holding"
  /\ HasRoom(hold[r])
  /\ toWrite' = [toWrite EXCEPT ![hold[r]] = r]
  /\ errCh' = [errCh EXCEPT ![r] = "empty"]
  /\ hold' = [hold EXCEPT ![r] = NoStream]
  /\ rpc' = [rpc EXCEPT ![r] = "await"]
  /\ UNCHANGED <<spc, wpc, client, cancelled, item, batchId, waiters, sent,
                 alternate, controlVars, result, verdict>>

Retry(r) ==
  /\ rpc[r] = "await"
  /\ errCh[r] = "restarting"
  /\ errCh' = [errCh EXCEPT ![r] = "empty"]
  /\ rpc' = [rpc EXCEPT ![r] = "choose"]
  /\ UNCHANGED <<streamVars, controlVars, hold, result, verdict>>

Answered(r) ==
  /\ rpc[r] = "await"
  /\ errCh[r] \in {"nil", "retryable", "permanent"}
  /\ errCh' = [errCh EXCEPT ![r] = "empty"]
  /\ ReturnToCaller(r, TRUE, errCh[r])
  /\ UNCHANGED <<streamVars, controlVars, verdict>>

ExpireAwaiting(r) ==
  /\ rpc[r] = "await"
  /\ ReturnToCaller(r, TRUE, "ctx")
  /\ UNCHANGED <<streamVars, controlVars, errCh, verdict>>

-----------------------------------------------------------------------------
(***************************************************************************)
(* Exporter.Shutdown: cancel, then wait.                                   *)
(***************************************************************************)

Shutdown ==
  /\ shutdown = "no"
  /\ shutdown' = "waiting"
  /\ UNCHANGED <<streamVars, ready, downgraded, returning, cpc, running, wg,
                 callVars>>

ShutdownReturns ==
  /\ shutdown = "waiting"
  /\ wg = 0
  /\ shutdown' = "returned"
  /\ UNCHANGED <<streamVars, ready, downgraded, returning, cpc, running, wg,
                 callVars>>

-----------------------------------------------------------------------------

ControllerNext ==
  SpawnInitialStreams \/ RestartStream \/ AbandonStream \/ ControllerStops

RunnerNext(s) ==
  \/ Dial(s) \/ Connect(s) \/ ConnectFails(s)
  \/ ReceiveSomeStatus(s) \/ ReceiveError(s)
  \/ Finish(s) \/ Return(s)

WriterNext(s) ==
  \/ SetReady(s) \/ TakeItem(s) \/ SeeContextDone(s)
  \/ Encode(s) \/ EncodeFails(s) \/ Send(s) \/ SendFails(s)
  \/ RemoveOnShutdown(s) \/ RemoveSelf(s) \/ RemoveOther(s)
  \/ PutBack(s) \/ RemoveItem(s)

CallerNext(r) ==
  \/ Call(r) \/ TakeStream(r) \/ FallBack(r) \/ ExpireBeforeStream(r)
  \/ CredentialsError(r) \/ HandOff(r) \/ Retry(r) \/ Answered(r)
  \/ ExpireAwaiting(r)

ShutdownNext == Shutdown \/ ShutdownReturns

\* Shutdown and every goroutine of the exporter have returned.
Terminated ==
  /\ shutdown = "returned" /\ cpc = "done"
  /\ \A s \in Stream : spc[s] = "off"
  /\ UNCHANGED vars

Next ==
  \/ ControllerNext
  \/ \E s \in Stream : RunnerNext(s) \/ WriterNext(s)
  \/ \E r \in Request : CallerNext(r)
  \/ ShutdownNext
  \/ Terminated

Spec == Init /\ [][Next]_vars

-----------------------------------------------------------------------------
(***************************************************************************)
(* Fairness.  Goroutines that can run do run.  Calls into gRPC (opening a  *)
(* stream, Send, Recv) are only sure to return once their context is       *)
(* cancelled.  The removal loop is strongly fair: Go's select picks at     *)
(* random among the ready channels, and two loops that rotate the queue    *)
(* are not scheduled in lockstep for ever.  Every caller has a deadline    *)
(* (exporterhelper's TimeoutSettings); after it, each select the caller    *)
(* passes may pick ctx.Done(), and one of them does.  Nothing is assumed   *)
(* of the server or of the caller of Shutdown.                             *)
(***************************************************************************)
RemoveSucceeds(s) == RemoveOnShutdown(s) \/ RemoveSelf(s) \/ RemoveItem(s)

RunnerFairness(s) ==
  /\ WF_vars(Dial(s))
  /\ WF_vars(ContextDone(s) /\ (Connect(s) \/ ConnectFails(s)))
  /\ WF_vars(ContextDone(s) /\ ReceiveError(s))
  /\ WF_vars(Finish(s))
  /\ WF_vars(Return(s))

WriterFairness(s) ==
  /\ WF_vars(SetReady(s))
  /\ WF_vars(TakeItem(s) \/ SeeContextDone(s))
  /\ WF_vars(Encode(s) \/ EncodeFails(s))
  /\ WF_vars(ContextDone(s) /\ (Send(s) \/ SendFails(s)))
  /\ WF_vars(RemoveOther(s))
  /\ WF_vars(PutBack(s))
  /\ SF_vars(RemoveSucceeds(s))
  /\ SF_vars(ready # <<>> /\ PutBack(s))

ControllerFairness ==
  /\ WF_vars(SpawnInitialStreams)
  /\ WF_vars(RestartStream \/ AbandonStream)
  /\ WF_vars(ControllerStops)

CallerFairness(r) ==
  /\ WF_vars(CredentialsError(r) \/ HandOff(r))
  /\ SF_vars(ExpireBeforeStream(r) \/ ExpireAwaiting(r))

Fairness ==
  /\ \A s \in Stream : RunnerFairness(s) /\ WriterFairness(s)
  /\ ControllerFairness
  /\ \A r \in Request : CallerFairness(r)
  /\ WF_vars(ShutdownReturns)

FairSpec == Spec /\ Fairness

-----------------------------------------------------------------------------
(***************************************************************************)
(* Properties.                                                             *)
(***************************************************************************)

StreamTypeOK ==
  /\ spc \in [Stream -> {"off", "spawned", "dialing", "read", "stopping",
                         "unsupported", "returning"}]
  /\ wpc \in [Stream -> {"off", "setReady", "select", "encode", "send",
                         "remove", "putBack", "done"}]
  /\ client \in [Stream -> BOOLEAN]
  /\ cancelled \in [Stream -> BOOLEAN]
  /\ toWrite \in [Stream -> Request \cup {NoRequest}]
  /\ item \in [Stream -> Request \cup {NoRequest}]
  /\ batchId \in [Stream -> Nat]
  /\ waiters \in [Stream -> [BatchId -> Request \cup {NoRequest}]]
  /\ sent \in [Stream -> [BatchId -> Request \cup {NoRequest}]]
  /\ alternate \in [Stream -> Stream \cup {NoStream}]
  /\ \A s \in Stream :
       /\ wpc[s] \in {"encode", "send"} => item[s] # NoRequest
       /\ wpc[s] = "putBack" <=> alternate[s] # NoStream
       /\ wpc[s] = "off" <=> spc[s] \in {"off", "spawned", "dialing", "returning"}

ControlTypeOK ==
  /\ ready \in Seq(Stream)
  /\ downgraded \in BOOLEAN
  /\ returning \in Seq(Stream)
  /\ cpc \in {"spawn", "select", "done"}
  /\ running \in Int
  /\ wg \in Int
  /\ shutdown \in {"no", "waiting", "returned"}

CallTypeOK ==
  /\ rpc \in [Request -> {"idle", "choose", "holding", "await", "done"}]
  /\ hold \in [Request -> Stream \cup {NoStream}]
  /\ errCh \in [Request -> Answer \cup {"empty"}]
  /\ result \in [Request -> Result \cup {NoResult}]
  /\ verdict \in [Request -> SUBSET (StatusCode \cup {"UNENCODABLE"})]
  /\ \A r \in Request : rpc[r] = "holding" <=> hold[r] # NoStream

\* The types of the variables, and which of them a program counter implies.
TypeOK == StreamTypeOK /\ ControlTypeOK /\ CallTypeOK

\* The send on toWrite in Stream.SendAndWait, which does not watch the
\* caller's context, never finds the channel full: no two callers hold the
\* same stream and none holds a stream whose last item is still queued, across
\* restarts, removals and the reshuffling of the ready queue.
HandOffNeverBlocks ==
  \A r \in Request : rpc[r] = "holding" => toWrite[hold[r]] = NoRequest

\* Who will answer, or has answered, the response channel of call r.
ReplyHolders(r) ==
  {<<"toWrite", s>> : s \in {t \in Stream : toWrite[t] = r}} \cup
  {<<"encode", s>> : s \in {t \in Stream : wpc[t] = "encode" /\ item[t] = r}} \cup
  {<<"waiter", w>> : w \in {v \in Stream \X BatchId : waiters[v[1]][v[2]] = r}} \cup
  (IF errCh[r] = "empty" THEN {} ELSE {<<"errCh", r>>})

\* The response channel has room for one answer and gets at most one, from one
\* of the writer, the reader, the removal loop or the final clean-up; and while
\* the caller waits one of them has its item (stream.go: "respond to any
\* outstanding waiters").
OneReplyPerCall ==
  \A r \in Request :
    /\ Cardinality(ReplyHolders(r)) <= 1
    /\ rpc[r] = "await" => ReplyHolders(r) # {}

\* A status the server sends for a batch it holds always finds its caller, so
\* a correct server never breaks a stream with an "unrecognized batch ID", and
\* the caller found is the one whose records the server judged.
SentBatchHasItsWaiter ==
  \A s \in Stream, id \in BatchId :
    spc[s] = "read" /\ sent[s][id] # NoRequest => waiters[s][id] = sent[s][id]

\* stream.go: "this can't block b/c stream has capacity & individual streams
\* shut down synchronously".  Neither setReady nor the put-back of removeReady
\* finds the ready channel full.
ReadyNeverOverflows ==
  \A s \in Stream :
    wpc[s] \in {"setReady", "putBack"} => Len(ready) < NumStreams

\* prioritizer.go: setReady and removeReady are never concurrent with
\* downgrade(), so nothing is sent on the closed channel and removeReady never
\* receives nil from it; and no stale stream is found in it.
NoSendOnClosedChannel ==
  downgraded =>
    /\ \A s \in Stream : spc[s] = "off" /\ wpc[s] = "off"
    /\ ShuttingDown \/ ready = <<>>

\* A stream goroutine never blocks when it returns its stream, also when the
\* controller has gone.
ReturnNeverBlocks ==
  \A s \in Stream : spc[s] = "returning" => Len(returning) < ReturningCapacity

\* Where callers can still meet stream s: in the ready queue, in the hand of a
\* caller or of another stream's removal loop, or with an item queued.
Findable(s) ==
  \/ InReady(s)
  \/ toWrite[s] # NoRequest
  \/ \E r \in Request : rpc[r] = "holding" /\ hold[r] = s
  \/ \E t \in Stream : alternate[t] = s

\* stream.go: a writer that stops waiting for an item "is currently in the
\* ready set".  Otherwise removeReady would search for ever.
WaitingStreamIsFindable ==
  \A s \in Stream : wpc[s] \in {"select", "remove"} => Findable(s)

\* Until shutdown no caller can pick up a stream whose goroutine is over
\* (exporter.go: "this call synchronously waits for and unblocks the
\* consumers").
NoStaleStreamBeforeShutdown ==
  ~ShuttingDown =>
    \A s \in Stream : spc[s] \in {"off", "returning"} => ~Findable(s)

\* exporter.go: "Shutdown returns when all Arrow-associated goroutines have
\* returned": none is left that uses a producer, a gRPC stream or the ready
\* channel.
ShutdownWaitsForStreams ==
  shutdown = "returned" =>
    /\ cpc = "done"
    /\ \A s \in Stream : spc[s] \in {"off", "returning"} /\ wpc[s] = "off"

\* Records the server has judged, or that cannot be encoded, are not sent
\* again: the internal retry never repeats a batch with a known outcome.
NoResendAfterVerdict ==
  [][\A s \in Stream, id \in BatchId :
       sent'[s][id] # NoRequest /\ sent[s][id] = NoRequest =>
         verdict[sent'[s][id]] = {}]_vars

\* Every call returns once its deadline passes, whatever streams do.
CallReturns ==
  \A r \in Request : rpc[r] # "idle" ~> rpc[r] = "done"

\* A stream whose reader has stopped finishes: the writer is found out of the
\* ready set, the waiters are released and the stream goes back to the
\* controller (stream.go: "When this stream finishes, it will be restarted").
BrokenStreamFinishes ==
  \A s \in Stream :
    spc[s] \in {"stopping", "unsupported"} ~> spc[s] \in {"off", "spawned"}

\* Shutdown returns.
ShutdownCompletes == shutdown = "waiting" ~> shutdown = "returned"
=============================================================================
