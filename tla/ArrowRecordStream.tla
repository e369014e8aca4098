------------------------- MODULE ArrowRecordStream -------------------------
(***************************************************************************)
(* One OTel-Arrow stream from its encoder to its decoder: the Producer of  *)
(* the exporter (pkg/otel/arrow_record/producer.go), the gRPC stream, the  *)
(* receiver's loop (otlpreceiver/internal/arrow/arrow.go) and its Consumer *)
(* (pkg/otel/arrow_record/consumer.go).                                    *)
(*                                                                         *)
(* Both ends keep state: a sub-stream carries its schema in its first      *)
(* payload and, in later ones, only the dictionary values that are new;    *)
(* request headers are compressed against a table both ends update.        *)
(* Payload type 1 is the main record, the others are related records.  Of  *)
(* a record one row is followed, the number of a value in the dictionary;  *)
(* the encoder's dictionary (means) goes along for the properties.         *)
(***************************************************************************)
EXTENDS Integers, SequencesExt

CONSTANTS
  NumTypes,     \* payload types of the signal
  MaxSchema,    \* schema versions of a payload type
  MaxValues,    \* values in a dictionary
  MaxHeaders,   \* entries of the header table
  MaxBatches,   \* batches per stream
  MaxInFlight,  \* batches between Send and Recv
  AuthMayFail,  \* the auth extension may reject a batch
  LimitMayHit   \* the consumer's allocator may hit its limit

ASSUME StreamAssumption ==
  /\ {NumTypes, MaxSchema, MaxValues, MaxBatches, MaxInFlight} \subseteq Nat \ {0}
  /\ MaxHeaders \in Nat
  /\ {AuthMayFail, LimitMayHit} \subseteq BOOLEAN

PayloadType == 1..NumTypes

VARIABLES
  \* the producer
  schema,           \* payload type -> version of its builder's schema
  values,           \* payload type -> values in its builder's dictionary
  streamProducers,  \* open IPC writers
  nextSubStreamId,
  batchId,
  building,         \* payloads of the batch being produced
  hpackEncoder,     \* entries of the exporter's header table
  sending,          \* the exporter's end of the stream is open
  \* the stream
  wire,
  \* the receiver and its consumer
  hpackDecoder,     \* entries of the receiver's header table
  pc,               \* where the receiver's loop is
  req,              \* payloads of the current batch
  left,             \* those still to consume
  ibes,             \* the records read from the current batch
  streamConsumers,  \* sub-stream consumers
  outcome,          \* what processing the current batch came to
  data,             \* what the decoder found the current batch's data to be
  intact            \* history: no batch was rejected, no record skipped

producerVars ==
  <<schema, values, streamProducers, nextSubStreamId, batchId, building,
    hpackEncoder, sending>>
batchVars == <<req, left, ibes, outcome, data>>
receiverVars == <<hpackDecoder, pc, batchVars, streamConsumers, intact>>
vars == <<producerVars, wire, receiverVars>>

Init ==
  /\ schema = [t \in PayloadType |-> 1]
  /\ values = [t \in PayloadType |-> 0]
  /\ streamProducers = {}
  /\ nextSubStreamId = 0
  /\ batchId = 0
  /\ building = <<>>
  /\ hpackEncoder = 0
  /\ sending = TRUE
  /\ wire = <<>>
  /\ hpackDecoder = 0
  /\ pc = "recv"
  /\ req = <<>>
  /\ left = <<>>
  /\ ibes = <<>>
  /\ streamConsumers = {}
  /\ outcome = "none" /\ data = "none"
  /\ intact = TRUE

-----------------------------------------------------------------------------
(***************************************************************************)
(* The producer.  A batch is produced payload by payload: the main record, *)
(* then the related records that have rows, in the order they are declared.*)
(***************************************************************************)

\* Mutant: the key leaves the schema out.
SubStreamByType(t) == <<t, 1>>

\* The schema ID keys the producer's map; related records prefix it with
\* their type.  Producers of one schema version share their dictionary.
SubStream(t) == <<t, schema'[t]>>

OpenProducers(t) == {sp \in streamProducers : sp.key = SubStream(t)}

\* Mutant: the writers of earlier schemas stay open.
AllProducers(t) == streamProducers

\* A new writer closes the others of its payload type.
KeptProducers(t) == {sp \in streamProducers : sp.type # t}

NewProducer(t) ==
  [key |-> SubStream(t), type |-> t, id |-> nextSubStreamId, written |-> <<>>]

\* The dictionary of the builder, each value named by the schema that met it.
Dictionary(t) == [k \in 1..values'[t] |-> <<schema'[t], k>>]

\* The values a writer has not sent yet.
Delta(t, sp) == SubSeq(Dictionary(t), Len(sp.written) + 1, values'[t])

\* Encoding the entity adds values to the dictionary, or asks for another
\* schema: then the record is built again from an empty dictionary.
BuildRecord(t) ==
  \/ /\ schema' = schema
     /\ \E n \in values[t]..MaxValues : values' = [values EXCEPT ![t] = n]
  \/ /\ schema[t] < MaxSchema
     /\ schema' = [schema EXCEPT ![t] = @ + 1]
     /\ \E n \in 0..MaxValues : values' = [values EXCEPT ![t] = n]

InOrder(t) == IF building = <<>> THEN t = 1 ELSE Last(building).type < t

\* Write the record of type t to its sub-stream.
WritePayload(t, sp, first) ==
  building' = Append(building,
    [id     |-> sp.id,
     type   |-> t,
     schema |-> first,
     delta  |-> Delta(t, sp),
     means  |-> Dictionary(t)])

ContinueSubStream(t) ==
  /\ sending /\ batchId < MaxBatches /\ InOrder(t)
  /\ BuildRecord(t)
  /\ \E sp \in OpenProducers(t) :
       /\ WritePayload(t, sp, FALSE)
       /\ streamProducers' = (streamProducers \ {sp})
                               \cup {[sp EXCEPT !.written = Dictionary(t)]}
  /\ UNCHANGED <<nextSubStreamId, batchId, hpackEncoder, sending, wire, receiverVars>>

StartSubStream(t) ==
  /\ sending /\ batchId < MaxBatches /\ InOrder(t)
  /\ BuildRecord(t)
  /\ OpenProducers(t) = {}
  /\ WritePayload(t, NewProducer(t), TRUE)
  /\ streamProducers' = KeptProducers(t)
                          \cup {[NewProducer(t) EXCEPT !.written = Dictionary(t)]}
  /\ nextSubStreamId' = nextSubStreamId + 1
  /\ UNCHANGED <<batchId, hpackEncoder, sending, wire, receiverVars>>

\* The header block of a batch is absent (0), an entry of the table, or a new
\* entry, which both ends add.
Headers == 0..IF hpackEncoder < MaxHeaders THEN hpackEncoder + 1 ELSE hpackEncoder

SendBatch ==
  /\ sending /\ building # <<>> /\ Len(wire) < MaxInFlight
  /\ batchId' = batchId + 1
  /\ building' = <<>>
  /\ \E h \in Headers :
       /\ hpackEncoder' = IF h > hpackEncoder THEN h ELSE hpackEncoder
       /\ wire' = Append(wire, [id |-> batchId, payloads |-> building, header |-> h,
                                literal |-> h > hpackEncoder])
  /\ UNCHANGED <<schema, values, streamProducers, nextSubStreamId, sending, receiverVars>>

\* The stream ends for any reason, a failure of Produce in the middle of a batch
\* among them: the producer closes its writers and is gone with its builders, and
\* what was written of the batch is dropped.
EndSending ==
  /\ sending
  /\ sending' = FALSE
  /\ building' = <<>> /\ streamProducers' = {}
  /\ schema' = [t \in PayloadType |-> 1] /\ values' = [t \in PayloadType |-> 0]
  /\ UNCHANGED <<nextSubStreamId, batchId, hpackEncoder, wire, receiverVars>>

-----------------------------------------------------------------------------
(***************************************************************************)
(* The receiver: one batch at a time.                                      *)
(***************************************************************************)

\* Mutant: a block is decoded only when its headers are wanted.
NotDecoded(b) == hpackDecoder

\* Mutant: every block adds an entry.
AlwaysAdded(b) == hpackDecoder + 1

\* The table after a header block is decoded.
Decoded(b) == IF b.literal THEN hpackDecoder + 1 ELSE hpackDecoder

\* Recv and combineHeaders.
Receive(b) ==
  /\ pc = "recv" /\ wire # <<>>
  /\ b = Head(wire)
  /\ hpackDecoder' = Decoded(b)
  /\ wire' = Tail(wire)
  /\ ibes' = <<>>
  /\ UNCHANGED <<producerVars, data, streamConsumers>>

\* Nothing of the batch is looked at again.
Dropped == req' = <<>> /\ left' = <<>> /\ ibes' = <<>>

\* The loop has returned and closed its consumer, or the process is gone.
NothingLeft ==
  /\ Dropped /\ outcome' = "none" /\ streamConsumers' = {}

\* The stream breaks, or the exporter has closed it.
RecvFails ==
  /\ pc = "recv"
  /\ pc' = "closed"
  /\ NothingLeft
  /\ UNCHANGED <<producerVars, wire, hpackDecoder, data, intact>>

\* A block may refer to an entry the table lacks.
Resolves(b) == b.literal \/ b.header <= hpackDecoder

\* An authorization error is answered without looking at the records.
Reject ==
  /\ AuthMayFail
  /\ \E b \in ToSet(wire) : Receive(b) /\ Resolves(b)
  /\ req' = <<>> /\ left' = <<>>
  /\ outcome' = "unauthorized"
  /\ intact' = FALSE
  /\ pc' = "respond"

\* A header block that cannot be decoded ends the stream.
Accept ==
  /\ \E b \in ToSet(wire) :
       /\ Receive(b)
       /\ req' = b.payloads /\ left' = b.payloads
       /\ pc' = IF Resolves(b) THEN "consume" ELSE "closed"
  /\ outcome' = "none"
  /\ UNCHANGED intact

\* Mutant: the consumers of every payload type are cleaned up.
AllStale(p) == streamConsumers

\* The consumers of the payload type that a new sub-stream id replaces.
Stale(p) == {sc \in streamConsumers : sc.type = p.type}

\* Mutant: the consumer is looked up by payload type.
KnownByType(p) == {sc \in streamConsumers : sc.type = p.type}

Known(p) == {sc \in streamConsumers : sc.id = p.id}

\* A consumer that has not read a schema has no IPC reader.
NewConsumer(p) == [id |-> p.id, type |-> p.type, reader |-> "nil", dictionary |-> <<>>]

ConsumerOf(p) == IF Known(p) # {} THEN CHOOSE sc \in Known(p) : TRUE ELSE NewConsumer(p)

Others(p) == IF Known(p) # {} THEN streamConsumers \ Known(p) ELSE streamConsumers \ Stale(p)

PanicsOnCleanup(p) == Known(p) = {} /\ \E sc \in Stale(p) : sc.reader = "nil"

\* Releasing a reader that was never made takes the process down.
CleanUpPanics ==
  /\ pc = "consume" /\ left # <<>>
  /\ PanicsOnCleanup(Head(left))
  /\ pc' = "panicked"
  /\ NothingLeft
  /\ UNCHANGED <<producerVars, wire, hpackDecoder, data, intact>>

CanOpen(p) == p.schema \/ ConsumerOf(p).reader # "nil"

\* ipc.NewReader finds no schema: the rest of the batch is skipped, the consumer
\* stays without a reader.
OpenFails ==
  /\ pc = "consume" /\ left # <<>>
  /\ ~PanicsOnCleanup(Head(left))
  /\ ~CanOpen(Head(left))
  /\ streamConsumers' = Others(Head(left)) \cup {ConsumerOf(Head(left))}
  /\ Dropped /\ outcome' = "invalid"
  /\ pc' = "respond"
  /\ UNCHANGED <<producerVars, wire, hpackDecoder, data, intact>>

\* The allocator's limit is hit now or was hit before: Next returns false, and
\* goes on doing so.
SkipRecord ==
  /\ pc = "consume" /\ left # <<>>
  /\ LET p == Head(left) IN
       /\ ~PanicsOnCleanup(p)
       /\ CanOpen(p)
       /\ LimitMayHit \/ ConsumerOf(p).reader = "failed"
       /\ streamConsumers' = Others(p) \cup {[ConsumerOf(p) EXCEPT !.reader = "failed"]}
  /\ left' = Tail(left)
  /\ intact' = FALSE
  /\ UNCHANGED <<producerVars, wire, hpackDecoder, pc, req, ibes, outcome, data>>

\* The reader's dictionary with the payload's new values.
Extended(sc, p) == sc.dictionary \o p.delta

\* Of the rows of a record one is followed, which refers to any value the encoder
\* had; zero if there is none.  It is chosen here because nothing looked at it
\* before.
Rows(p) == IF p.means = <<>> THEN {0} ELSE DOMAIN p.means

ReadRecord ==
  /\ pc = "consume" /\ left # <<>>
  /\ LET p == Head(left) IN
       /\ ~PanicsOnCleanup(p)
       /\ CanOpen(p)
       /\ ConsumerOf(p).reader # "failed"
       /\ LET dict == Extended(ConsumerOf(p), p) IN
            /\ streamConsumers' =
                 Others(p) \cup {[ConsumerOf(p) EXCEPT !.reader = "open", !.dictionary = dict]}
            /\ \E row \in Rows(p) :
                 ibes' = Append(ibes, [type |-> p.type, row |-> row, dictionary |-> dict])
  /\ left' = Tail(left)
  /\ UNCHANGED <<producerVars, wire, hpackDecoder, pc, req, outcome, data, intact>>

-----------------------------------------------------------------------------
(***************************************************************************)
(* The decoder.  What it makes of a batch depends on values that no other  *)
(* step looks at, so they are chosen here.                                 *)
(***************************************************************************)

\* The decoder takes the data; or finds an error in it; or in the related records
\* of traces or logs, where TracesFrom and LogsFrom drop the error and the batch;
\* or panics.
Data == {"decodes", "fails", "lost", "panics"}

\* Each payload was read and means what the producer encoded.
Delivered ==
  /\ Len(ibes) = Len(req)
  /\ \A i \in DOMAIN ibes :
       /\ ibes[i].type = req[i].type
       /\ ibes[i].row # 0 => ibes[i].dictionary[ibes[i].row] = req[i].means[ibes[i].row]

\* The values the decoder meets are the batch's own, or others.
Finds(d) == data' = IF Delivered THEN d ELSE "others"

InDictionary(r) == r.row <= Len(r.dictionary)

HasMain == \E i \in DOMAIN ibes : ibes[i].type = 1

\* A row outside its dictionary panics.
RowPanics ==
  /\ pc = "consume" /\ left = <<>>
  /\ \E i \in DOMAIN ibes : ~InDictionary(ibes[i])
  /\ pc' = "panicked"
  /\ NothingLeft
  /\ UNCHANGED <<producerVars, wire, hpackDecoder, data, intact>>

DecodePanics ==
  /\ pc = "consume" /\ left = <<>>
  /\ \A i \in DOMAIN ibes : InDictionary(ibes[i])
  /\ Finds("panics")
  /\ pc' = "panicked"
  /\ NothingLeft
  /\ UNCHANGED <<producerVars, wire, hpackDecoder, intact>>

\* RelatedDataFrom, TracesFrom and the pipeline.  An error of the decoder is
\* permanent; without a main record there is no result, and no error either.
Decode ==
  /\ pc = "consume" /\ left = <<>>
  /\ \A i \in DOMAIN ibes : InDictionary(ibes[i])
  /\ \/ Finds("decodes") /\ outcome' = "ok" /\ UNCHANGED <<req, left, ibes>>
     \/ Finds("decodes") /\ HasMain /\ outcome' = "refused" /\ Dropped
     \/ Finds("fails") /\ outcome' = "invalid" /\ Dropped
     \/ Finds("lost") /\ outcome' = "ok" /\ UNCHANGED <<req, left, ibes>>
  /\ pc' = "respond"
  /\ UNCHANGED <<producerVars, wire, hpackDecoder, streamConsumers, intact>>

-----------------------------------------------------------------------------
\* Send the status of the batch: OK for "ok", INVALID_ARGUMENT for "invalid",
\* UNAVAILABLE for "unauthorized", either error for "refused".
Respond ==
  /\ pc = "respond"
  /\ pc' = "recv"
  /\ Dropped /\ outcome' = "none" /\ data' = "none"
  /\ UNCHANGED <<producerVars, wire, hpackDecoder, streamConsumers, intact>>

\* Send of the status fails: the loop returns.
RespondFails ==
  /\ pc = "respond"
  /\ pc' = "closed"
  /\ NothingLeft /\ data' = "none"
  /\ UNCHANGED <<producerVars, wire, hpackDecoder, intact>>

ProducerNext ==
  \/ \E t \in PayloadType : ContinueSubStream(t) \/ StartSubStream(t)
  \/ SendBatch \/ EndSending

ReceiverNext ==
  \/ RecvFails \/ Reject \/ Accept
  \/ CleanUpPanics \/ OpenFails \/ SkipRecord \/ ReadRecord
  \/ RowPanics \/ DecodePanics \/ Decode \/ Respond \/ RespondFails

Next == ProducerNext \/ ReceiverNext

Spec == Init /\ [][Next]_vars

-----------------------------------------------------------------------------
(***************************************************************************)
(* Properties.                                                             *)
(***************************************************************************)

Value == (1..MaxSchema) \X (1..MaxValues)

Payload == [id : Nat, type : PayloadType, schema : BOOLEAN, delta : Seq(Value),
            means : Seq(Value)]

Batch == [id : 0..MaxBatches, payloads : Seq(Payload), header : 0..MaxHeaders,
          literal : BOOLEAN]

Producer == [key : PayloadType \X (1..MaxSchema), type : PayloadType, id : Nat,
             written : Seq(Value)]

Consumer == [id : Nat, type : PayloadType, reader : {"nil", "open", "failed"},
             dictionary : Seq(Value)]

RecordMessage == [type : PayloadType, row : Nat, dictionary : Seq(Value)]

ProducerTypeOK ==
  /\ schema \in [PayloadType -> 1..MaxSchema]
  /\ values \in [PayloadType -> 0..MaxValues]
  /\ streamProducers \subseteq Producer
  /\ nextSubStreamId \in Nat
  /\ \A sp \in streamProducers : sp.id < nextSubStreamId
  /\ batchId \in 0..MaxBatches
  /\ building \in Seq(Payload)
  /\ hpackEncoder \in 0..MaxHeaders
  /\ sending \in BOOLEAN

ReceiverTypeOK ==
  /\ hpackDecoder \in 0..MaxHeaders
  /\ pc \in {"recv", "consume", "respond", "closed", "panicked"}
  /\ req \in Seq(Payload) /\ left \in Seq(Payload)
  /\ ibes \in Seq(RecordMessage)
  /\ streamConsumers \subseteq Consumer
  /\ outcome \in {"none", "ok", "refused", "unauthorized", "invalid"}
  /\ data \in Data \cup {"none", "others"}
  /\ intact \in BOOLEAN

\* The types of the producer's, the stream's and the receiver's state, and the
\* producer's ids stay below the next one.
TypeOK == ProducerTypeOK /\ wire \in Seq(Batch) /\ ReceiverTypeOK

\* The payloads that are produced and not yet consumed, oldest first: what is left
\* of the batch in hand, the batches on the wire, the one being built.
Segments(l, w, b) ==
  [k \in 1..(Len(w) + 2) |->
     IF k = 1 THEN l ELSE IF k = Len(w) + 2 THEN b ELSE w[k - 1].payloads]

InFlight == Segments(left, wire, building)

\* The values that the first payloads of a batch bring to a sub-stream.
Deltas(payloads, id) ==
  LET brought[n \in 0..Len(payloads)] ==
        IF n = 0 THEN <<>>
        ELSE IF payloads[n].id = id THEN brought[n - 1] \o payloads[n].delta
        ELSE brought[n - 1]
  IN  brought

\* The same of the first batches.
AllDeltas(batches, id) ==
  LET brought[k \in 0..Len(batches)] ==
        IF k = 0 THEN <<>>
        ELSE brought[k - 1] \o Deltas(batches[k], id)[Len(batches[k])]
  IN  brought

\* The values on their way to the consumer of a sub-stream.
DeltasInFlight(id) == AllDeltas(InFlight, id)[Len(InFlight)]

ReadSoFar(id) ==
  IF \E sc \in streamConsumers : sc.id = id
  THEN (CHOOSE sc \in streamConsumers : sc.id = id).dictionary
  ELSE <<>>

\* While the stream lasts and no batch was rejected, what a sub-stream's reader
\* has and what is on its way make up exactly the dictionary its writer has
\* written, across schema changes and however far the producer runs ahead
\* (Produce, Consume).
DictionariesInStep ==
  intact /\ sending /\ pc \notin {"closed", "panicked"} =>
    \A sp \in streamProducers :
      ReadSoFar(sp.id) \o DeltasInFlight(sp.id) = sp.written

\* The header tables of the two ends differ by exactly the entries in flight, even
\* when batches are rejected (Stream.write, combineHeaders).
HeadersInStep ==
  pc # "closed" =>
    hpackDecoder + Cardinality({i \in DOMAIN wire : wire[i].literal}) = hpackEncoder

\* However often the schema changes, each end keeps one writer or reader per
\* payload type: those of earlier schemas are closed (Produce, Consume).
OneSubStreamPerType ==
  /\ \A a, b \in streamProducers : a.type = b.type => a = b
  /\ \A a, b \in streamConsumers : a.type = b.type => a = b

\* OK is "success at consumer": each payload of the batch was read and reaches the
\* decoder with the meaning the producer encoded, as long as no batch is rejected
\* and no record skipped.
OkMeansDelivered == intact /\ pc = "respond" /\ outcome = "ok" => Delivered

\* Up to then, a batch is called invalid (and the exporter drops it for good), or
\* takes the collector down, only for what the decoder finds in its own data: never
\* for a schema, dictionary value or reader that the ends disagree about, nor for
\* the data of earlier batches, those that the decoder did not take among them
\* (processRecords, Consume, TracesFrom).
GoodBatchAccepted ==
  intact => /\ outcome = "invalid" => data = "fails"
            /\ pc = "panicked" => data = "panics"

\* "Success at consumer" also after a rejected batch, which "does not necessarily
\* break the stream" (arrow.go).
OkAfterRejection == pc = "respond" /\ outcome = "ok" => Delivered
=============================================================================
