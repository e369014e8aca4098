---------------------- MODULE ArrowRecordStreamProofs ----------------------
(***************************************************************************)
(* Theorems about ArrowRecordStream for every number of payload types,     *)
(* schemas, values, headers and batches.                                   *)
(***************************************************************************)
EXTENDS ArrowRecordStream, TLAPS, SequenceTheorems, FiniteSetTheorems, BoundedInduction

USE DEF vars, producerVars, batchVars, receiverVars

-----------------------------------------------------------------------------
(***************************************************************************)
(* The header entries in flight.                                           *)
(***************************************************************************)

Literals(w) == {i \in DOMAIN w : w[i].literal}

LEMMA LiteralsFinite ==
  ASSUME NEW w \in Seq(Batch)
  PROVE  IsFiniteSet(Literals(w)) /\ Cardinality(Literals(w)) \in Nat
<1>1. DOMAIN w = 1..Len(w) /\ Len(w) \in Nat
  BY LenProperties
<1>2. IsFiniteSet(1..Len(w))
  BY <1>1, FS_Interval
<1>3. Literals(w) \in SUBSET (1..Len(w))
  BY <1>1 DEF Literals
<1> QED
  BY <1>2, <1>3, FS_Subset, FS_CardinalityType

\* Sending a batch puts one entry in flight, or none.
LEMMA LiteralsOfAppend ==
  ASSUME NEW w \in Seq(Batch), NEW b \in Batch
  PROVE  Cardinality(Literals(Append(w, b)))
           = Cardinality(Literals(w)) + IF b.literal THEN 1 ELSE 0
<1>1. /\ Len(w) \in Nat /\ DOMAIN w = 1..Len(w)
      /\ DOMAIN Append(w, b) = 1..(Len(w) + 1)
      /\ \A i \in 1..Len(w) : Append(w, b)[i] = w[i]
      /\ Append(w, b)[Len(w) + 1] = b
  BY LenProperties, AppendProperties
<1>2. Literals(Append(w, b)) = IF b.literal THEN Literals(w) \cup {Len(w) + 1} ELSE Literals(w)
  BY <1>1 DEF Literals
<1>3. Len(w) + 1 \notin Literals(w)
  BY <1>1 DEF Literals
<1>4. IsFiniteSet(Literals(w)) /\ Cardinality(Literals(w)) \in Nat
  BY LiteralsFinite
<1>5. Cardinality(Literals(w) \cup {Len(w) + 1}) = Cardinality(Literals(w)) + 1
  BY <1>3, <1>4, FS_AddElement
<1>6. CASE b.literal
  BY <1>2, <1>5, <1>6
<1>7. CASE ~b.literal
  BY <1>2, <1>4, <1>7
<1> QED
  BY <1>6, <1>7

\* Receiving the first batch takes its entry from those in flight.
LEMMA LiteralsOfTail ==
  ASSUME NEW w \in Seq(Batch), w # <<>>
  PROVE  Cardinality(Literals(w))
           = Cardinality(Literals(Tail(w))) + IF Head(w).literal THEN 1 ELSE 0
<1> DEFINE L == Literals(Tail(w))
           later == {i + 1 : i \in L}
           next == [i \in L |-> i + 1]
<1>1. /\ Len(w) \in Nat \ {0} /\ DOMAIN w = 1..Len(w) /\ Head(w) = w[1]
      /\ Tail(w) \in Seq(Batch)
      /\ Len(Tail(w)) = Len(w) - 1
      /\ \A i \in 1..Len(Tail(w)) : Tail(w)[i] = w[i + 1]
      /\ DOMAIN Tail(w) = 1..Len(Tail(w))
  BY LenProperties, EmptySeq, HeadTailProperties
<1>2. IsFiniteSet(L) /\ Cardinality(L) \in Nat /\ L \subseteq Nat /\ 0 \notin L
  <2>1. IsFiniteSet(L) /\ Cardinality(L) \in Nat
    BY <1>1, LiteralsFinite
  <2>2. L \subseteq 1..Len(Tail(w))
    BY <1>1 DEF Literals
  <2> QED
    BY <1>1, <2>1, <2>2
<1>3. next \in Bijection(L, later)
  BY <1>2 DEF Bijection, Injection, Surjection, IsInjective
<1>4. IsFiniteSet(later) /\ Cardinality(later) = Cardinality(L)
  BY <1>2, <1>3, FS_Bijection DEF ExistsBijection
<1>5. 1 \notin later
  BY <1>2
<1>6. Literals(w) = IF Head(w).literal THEN later \cup {1} ELSE later
  <2>1. ASSUME NEW i \in 1..Len(w), i # 1
        PROVE  w[i].literal <=> i \in later
    <3>1. i - 1 \in 1..Len(Tail(w)) /\ Tail(w)[i - 1] = w[i]
      BY <1>1, <2>1
    <3>2. i \in later <=> i - 1 \in L
      BY <1>2
    <3> QED
      BY <1>1, <3>1, <3>2 DEF Literals
  <2>2. \A i \in later : i \in 1..Len(w)
    BY <1>1 DEF Literals
  <2> QED
    BY <1>1, <1>5, <2>1, <2>2 DEF Literals
<1>7. Cardinality(later \cup {1}) = Cardinality(L) + 1
  <2> HIDE DEF L, later
  <2> QED
    BY <1>4, <1>5, FS_AddElement
<1>8. CASE Head(w).literal
  <2> HIDE DEF later
  <2> QED
    BY <1>6, <1>7, <1>8
<1>9. CASE ~Head(w).literal
  <2> HIDE DEF later
  <2> QED
    BY <1>2, <1>4, <1>6, <1>9
<1> QED
  BY <1>8, <1>9

-----------------------------------------------------------------------------
(***************************************************************************)
(* Types, header tables, one writer and one reader per payload type.       *)
(***************************************************************************)

\* A batch is only begun while there is room for it.
BatchHasRoom == building # <<>> => batchId < MaxBatches

Typed == TypeOK /\ HeadersInStep /\ OneSubStreamPerType /\ BatchHasRoom

LEMMA TypedInit == Init => Typed
<1> SUFFICES ASSUME Init PROVE Typed
  OBVIOUS
<1> USE StreamAssumption DEF Init
<1>1. Literals(<<>>) = {}
  BY DEF Literals
<1>2. Cardinality({i \in DOMAIN wire : wire[i].literal}) = 0
  BY <1>1, FS_EmptySet DEF Literals
<1>3. HeadersInStep
  BY <1>2 DEF HeadersInStep
<1>4. /\ <<>> \in Seq(Payload) /\ <<>> \in Seq(Batch) /\ <<>> \in Seq(RecordMessage)
  BY EmptySeq
<1>5. TypeOK
  BY <1>4 DEF TypeOK, ProducerTypeOK, ReceiverTypeOK, PayloadType
<1> QED
  BY <1>3, <1>5 DEF Typed, OneSubStreamPerType, BatchHasRoom

LEMMA FunctionIsSeq ==
  ASSUME NEW X, NEW n \in Nat, NEW f \in [1..n -> X]
  PROVE  f \in Seq(X) /\ Len(f) = n
BY SeqDef

\* What BuildRecord and the dictionary give.
LEMMA BuildTypes ==
  ASSUME TypeOK, NEW t \in PayloadType, BuildRecord(t)
  PROVE  /\ schema' \in [PayloadType -> 1..MaxSchema]
         /\ values' \in [PayloadType -> 0..MaxValues]
         /\ Dictionary(t) \in Seq(Value)
         /\ Len(Dictionary(t)) = values'[t]
         /\ SubStream(t) \in PayloadType \X (1..MaxSchema)
<1> USE StreamAssumption DEF TypeOK, ProducerTypeOK
<1>1. MaxSchema \in Nat \ {0} /\ MaxValues \in Nat \ {0}
  BY DEF StreamAssumption
<1>2. schema' \in [PayloadType -> 1..MaxSchema] /\ values' \in [PayloadType -> 0..MaxValues]
  <2>1. \A n \in values[t]..MaxValues : n \in 0..MaxValues
    BY <1>1
  <2>2. schema[t] < MaxSchema => schema[t] + 1 \in 1..MaxSchema
    BY <1>1
  <2> QED
    BY <1>1, <2>1, <2>2 DEF BuildRecord
<1>3. values'[t] \in Nat /\ values'[t] <= MaxValues /\ schema'[t] \in 1..MaxSchema
  BY <1>2
<1>4. \A k \in 1..values'[t] : <<schema'[t], k>> \in Value
  <2>1. \A k \in 1..values'[t] : k \in 1..MaxValues
    BY <1>1, <1>3
  <2> QED
    BY <1>3, <2>1 DEF Value
<1>5. Dictionary(t) \in [1..values'[t] -> Value]
  BY <1>4 DEF Dictionary
<1>6. Dictionary(t) \in Seq(Value) /\ Len(Dictionary(t)) = values'[t]
  BY <1>3, <1>5, FunctionIsSeq
<1> QED
  BY <1>2, <1>3, <1>6 DEF SubStream


\* The values a writer has not sent come from the builder's dictionary.
LEMMA DeltaTypes ==
  ASSUME TypeOK, NEW t \in PayloadType, BuildRecord(t), NEW sp \in Producer
  PROVE  Delta(t, sp) \in Seq(Value)
<1>1. Len(sp.written) \in Nat /\ values'[t] \in Nat
  BY BuildTypes, LenProperties DEF Producer
<1>2. \A i \in (Len(sp.written) + 1)..values'[t] : Dictionary(t)[i] \in Value
  BY <1>1, BuildTypes, ElementOfSeq
<1> QED
  BY <1>1, <1>2, SubSeqProperties DEF Delta

\* A payload is added to the batch being built.
LEMMA WriteTypes ==
  ASSUME TypeOK, NEW t \in PayloadType, BuildRecord(t), NEW sp \in Producer,
         NEW first \in BOOLEAN, WritePayload(t, sp, first)
  PROVE  building' \in Seq(Payload)
<1>1. building \in Seq(Payload)
  BY DEF TypeOK, ProducerTypeOK
<1>2. [id |-> sp.id, type |-> t, schema |-> first, delta |-> Delta(t, sp),
       means |-> Dictionary(t)] \in Payload
  BY BuildTypes, DeltaTypes DEF Payload, Producer
<1> QED
  BY <1>1, <1>2, AppendProperties DEF WritePayload

LEMMA TypedContinue ==
  ASSUME Typed, NEW t \in PayloadType, ContinueSubStream(t)
  PROVE  Typed'
<1> USE DEF Typed, TypeOK, ProducerTypeOK, ReceiverTypeOK
<1>1. BuildRecord(t) /\ batchId < MaxBatches
  BY DEF ContinueSubStream
<1>2. PICK sp \in OpenProducers(t) :
        /\ WritePayload(t, sp, FALSE)
        /\ streamProducers' = (streamProducers \ {sp})
                                \cup {[sp EXCEPT !.written = Dictionary(t)]}
  BY DEF ContinueSubStream
<1>3. sp \in Producer /\ sp \in streamProducers
  BY <1>2 DEF OpenProducers
<1> DEFINE new == [sp EXCEPT !.written = Dictionary(t)]
<1>4. new \in Producer /\ new.type = sp.type /\ new.id = sp.id
  BY <1>1, <1>3, BuildTypes DEF Producer
<1>5. building' \in Seq(Payload)
  BY <1>1, <1>2, <1>3, WriteTypes
<1>6. streamProducers' = (streamProducers \ {sp}) \cup {new}
  BY <1>2
<1> HIDE DEF new
<1>7. UNCHANGED <<nextSubStreamId, batchId, hpackEncoder, sending, wire, receiverVars>>
  BY DEF ContinueSubStream
<1>8. TypeOK'
  <2>1. streamProducers' \subseteq Producer
    BY <1>3, <1>4, <1>6
  <2>2. \A x \in streamProducers' : x.id < nextSubStreamId'
    BY <1>3, <1>4, <1>6, <1>7
  <2> QED
    BY <1>1, <1>5, <1>7, <2>1, <2>2, BuildTypes
<1>9. OneSubStreamPerType'
  BY <1>3, <1>4, <1>6, <1>7 DEF OneSubStreamPerType
<1>10. HeadersInStep' /\ BatchHasRoom'
  BY <1>1, <1>7 DEF HeadersInStep, BatchHasRoom
<1> QED
  BY <1>8, <1>9, <1>10

LEMMA TypedStart ==
  ASSUME Typed, NEW t \in PayloadType, StartSubStream(t)
  PROVE  Typed'
<1> USE DEF Typed, TypeOK, ProducerTypeOK, ReceiverTypeOK
<1>1. BuildRecord(t) /\ batchId < MaxBatches /\ WritePayload(t, NewProducer(t), TRUE)
  BY DEF StartSubStream
<1> DEFINE new == [NewProducer(t) EXCEPT !.written = Dictionary(t)]
<1>2. NewProducer(t) \in Producer
  BY <1>1, BuildTypes, EmptySeq DEF NewProducer, Producer
<1>3. new \in Producer /\ new.type = t /\ new.id = nextSubStreamId
  BY <1>1, <1>2, BuildTypes DEF Producer, NewProducer
<1>4. building' \in Seq(Payload)
  BY <1>1, <1>2, WriteTypes
<1>5. streamProducers' = KeptProducers(t) \cup {new}
  BY DEF StartSubStream
<1> HIDE DEF new
<1>6. /\ UNCHANGED <<batchId, hpackEncoder, sending, wire, receiverVars>>
      /\ nextSubStreamId' = nextSubStreamId + 1
  BY DEF StartSubStream
<1>7. TypeOK'
  <2>1. streamProducers' \subseteq Producer
    BY <1>3, <1>5 DEF KeptProducers
  <2>2. \A x \in streamProducers' : x.id < nextSubStreamId'
    <3>1. \A x \in streamProducers : x.id \in Nat
      BY DEF Producer
    <3> QED
      BY <1>3, <1>5, <1>6, <3>1 DEF KeptProducers
  <2> QED
    <3>1. schema' \in [PayloadType -> 1..MaxSchema] /\ values' \in [PayloadType -> 0..MaxValues]
      BY <1>1, BuildTypes
    <3>2. nextSubStreamId' \in Nat
      BY <1>6
    <3> QED
      BY <1>4, <1>6, <2>1, <2>2, <3>1, <3>2
<1>8. OneSubStreamPerType'
  BY <1>3, <1>5, <1>6 DEF OneSubStreamPerType, KeptProducers
<1>9. HeadersInStep' /\ BatchHasRoom'
  BY <1>1, <1>6 DEF HeadersInStep, BatchHasRoom
<1> QED
  BY <1>7, <1>8, <1>9

LEMMA TypedSend == Typed /\ SendBatch => Typed'
<1> SUFFICES ASSUME Typed, SendBatch PROVE Typed'
  OBVIOUS
<1> USE DEF Typed, TypeOK, ProducerTypeOK, ReceiverTypeOK
<1>1. PICK h \in Headers :
        /\ hpackEncoder' = IF h > hpackEncoder THEN h ELSE hpackEncoder
        /\ wire' = Append(wire, [id |-> batchId, payloads |-> building, header |-> h,
                                 literal |-> h > hpackEncoder])
  BY DEF SendBatch
<1> DEFINE b == [id |-> batchId, payloads |-> building, header |-> h,
                 literal |-> h > hpackEncoder]
<1>2. /\ batchId < MaxBatches /\ batchId' = batchId + 1 /\ building' = <<>>
      /\ UNCHANGED <<schema, values, streamProducers, nextSubStreamId, sending, receiverVars>>
  BY DEF SendBatch, BatchHasRoom
<1>3. MaxHeaders \in Nat /\ MaxBatches \in Nat
  BY StreamAssumption
<1>4. b \in Batch /\ hpackEncoder' \in 0..MaxHeaders
  BY <1>1, <1>2, <1>3 DEF Headers, Batch
<1>5. hpackEncoder' = hpackEncoder + IF b.literal THEN 1 ELSE 0
  <2>1. b.literal = (h > hpackEncoder)
    OBVIOUS
  <2>2. h \in Nat /\ hpackEncoder \in Nat /\ h <= hpackEncoder + 1
    BY <1>3 DEF Headers
  <2>3. hpackEncoder' = IF h > hpackEncoder THEN h ELSE hpackEncoder
    BY <1>1
  <2> HIDE DEF b
  <2>4. CASE h > hpackEncoder
    <3>1. hpackEncoder' = hpackEncoder + 1
      BY <2>2, <2>4, <2>3
    <3>2. b.literal
      BY <2>1, <2>4
    <3> QED
      BY <3>1, <3>2
  <2>5. CASE ~(h > hpackEncoder)
    <3>1. hpackEncoder' = hpackEncoder + 0
      BY <2>2, <2>5, <2>3
    <3>2. ~b.literal
      BY <2>1, <2>5
    <3> QED
      BY <3>1, <3>2
  <2> QED
    BY <2>4, <2>5
<1>6. wire' = Append(wire, b)
  BY <1>1
<1> HIDE DEF b
<1>7. wire' \in Seq(Batch)
  BY <1>4, <1>6, AppendProperties
<1>8. TypeOK'
  BY <1>2, <1>3, <1>4, <1>7, EmptySeq
<1>9. HeadersInStep'
  <2>1. Cardinality(Literals(wire')) = Cardinality(Literals(wire)) + IF b.literal THEN 1 ELSE 0
    BY <1>4, <1>6, LiteralsOfAppend
  <2>2. Cardinality(Literals(wire)) \in Nat
    BY LiteralsFinite
  <2>3. pc' = pc /\ hpackDecoder' = hpackDecoder
    BY <1>2
  <2>4. pc # "closed" => hpackDecoder + Cardinality(Literals(wire)) = hpackEncoder
    BY DEF HeadersInStep, Literals
  <2>5. pc' # "closed" => hpackDecoder' + Cardinality(Literals(wire')) = hpackEncoder'
    <3>1. CASE b.literal
      BY <1>3, <1>5, <2>1, <2>2, <2>3, <2>4, <3>1
    <3>2. CASE ~b.literal
      BY <1>3, <1>5, <2>1, <2>2, <2>3, <2>4, <3>2
    <3> QED
      BY <3>1, <3>2
  <2> QED
    BY <2>5 DEF HeadersInStep, Literals
<1>10. OneSubStreamPerType' /\ BatchHasRoom'
  BY <1>2 DEF OneSubStreamPerType, BatchHasRoom
<1> QED
  BY <1>8, <1>9, <1>10

LEMMA TypedEnd == Typed /\ EndSending => Typed'
<1> SUFFICES ASSUME Typed, EndSending PROVE Typed'
  OBVIOUS
<1> USE DEF Typed, TypeOK, ProducerTypeOK, ReceiverTypeOK
<1>1. TypeOK'
  <2>1. /\ [t \in PayloadType |-> 1] \in [PayloadType -> 1..MaxSchema]
        /\ [t \in PayloadType |-> 0] \in [PayloadType -> 0..MaxValues]
    BY StreamAssumption
  <2>2. {} \subseteq Producer /\ <<>> \in Seq(Payload)
    BY EmptySeq
  <2> QED
    BY <2>1, <2>2 DEF EndSending, receiverVars, batchVars
<1>2. HeadersInStep' /\ OneSubStreamPerType' /\ BatchHasRoom'
  BY DEF EndSending, HeadersInStep, OneSubStreamPerType, BatchHasRoom
<1> QED
  BY <1>1, <1>2

\* A batch is received, whatever becomes of it.
LEMMA ReceiveTypes ==
  ASSUME Typed, NEW b, Receive(b)
  PROVE  /\ b \in Batch /\ wire' \in Seq(Batch)
         /\ hpackDecoder' \in 0..MaxHeaders
         /\ hpackDecoder' + Cardinality(Literals(wire')) = hpackEncoder'
<1> USE DEF Typed, TypeOK, ProducerTypeOK, ReceiverTypeOK
<1>1. /\ pc = "recv" /\ wire # <<>> /\ b = Head(wire)
      /\ wire' = Tail(wire) /\ hpackEncoder' = hpackEncoder
  BY DEF Receive
<1>2. b \in Batch /\ wire' \in Seq(Batch)
  BY <1>1, HeadTailProperties
<1>3. /\ Cardinality(Literals(wire)) = Cardinality(Literals(wire')) + IF b.literal THEN 1 ELSE 0
      /\ Cardinality(Literals(wire')) \in Nat
  BY <1>1, <1>2, LiteralsOfTail, LiteralsFinite
<1>4. hpackDecoder + Cardinality(Literals(wire)) = hpackEncoder
  BY <1>1 DEF HeadersInStep, Literals
<1>5. hpackDecoder' = Decoded(b) /\ MaxHeaders \in Nat
  BY StreamAssumption DEF Receive
<1> HIDE DEF TypeOK
<1>6. hpackDecoder \in Nat /\ hpackEncoder \in 0..MaxHeaders
  BY DEF TypeOK
<1>7. CASE b.literal
  BY <1>1, <1>2, <1>3, <1>4, <1>5, <1>6, <1>7 DEF Decoded
<1>8. CASE ~b.literal
  BY <1>1, <1>2, <1>3, <1>4, <1>5, <1>6, <1>8 DEF Decoded
<1> QED
  BY <1>7, <1>8

LEMMA TypedReceive == Typed /\ (Reject \/ Accept) => Typed'
<1> SUFFICES ASSUME Typed, Reject \/ Accept PROVE Typed'
  OBVIOUS
<1> USE DEF Typed, TypeOK, ProducerTypeOK, ReceiverTypeOK
<1>1. PICK b \in ToSet(wire) :
        Receive(b) /\ left' \in {<<>>, b.payloads} /\ req' = left'
  BY DEF Reject, Accept
<1>2. /\ pc' \in {"respond", "consume", "closed"}
      /\ outcome' \in {"unauthorized", "none"}
      /\ intact' \in BOOLEAN
  BY DEF Reject, Accept
<1>3. UNCHANGED <<producerVars, data, streamConsumers>> /\ ibes' = <<>>
  BY <1>1 DEF Receive
<1>4. b.payloads \in Seq(Payload)
  BY <1>1, ReceiveTypes DEF Batch
<1>5. /\ wire' \in Seq(Batch) /\ hpackDecoder' \in 0..MaxHeaders
      /\ hpackDecoder' + Cardinality(Literals(wire')) = hpackEncoder'
  BY <1>1, ReceiveTypes
<1>6. <<>> \in Seq(Payload) /\ <<>> \in Seq(RecordMessage)
  BY EmptySeq
<1>7. ProducerTypeOK' /\ data' \in Data \cup {"none", "others"}
  BY <1>3
<1>8. TypeOK'
  BY <1>1, <1>2, <1>3, <1>4, <1>5, <1>6, <1>7
<1>9. HeadersInStep'
  BY <1>5 DEF HeadersInStep, Literals
<1>10. OneSubStreamPerType' /\ BatchHasRoom'
  BY <1>3 DEF OneSubStreamPerType, BatchHasRoom
<1> QED
  BY <1>8, <1>9, <1>10

\* The consumer that takes a payload is typed, and the others of its type make
\* room for it.
LEMMA ConsumerTypes ==
  ASSUME Typed, NEW p \in Payload
  PROVE  /\ ConsumerOf(p) \in Consumer
         /\ ConsumerOf(p).id = p.id
         /\ Others(p) \subseteq streamConsumers
         /\ Known(p) # {} => ConsumerOf(p) \in streamConsumers /\ ConsumerOf(p) \notin Others(p)
         /\ Known(p) = {} => ConsumerOf(p) = NewConsumer(p)
         /\ Known(p) = {} => Others(p) = streamConsumers \ Stale(p)
<1>1. streamConsumers \subseteq Consumer
  BY DEF Typed, TypeOK, ReceiverTypeOK
<1>2. CASE Known(p) # {}
  <2>1. ConsumerOf(p) \in Known(p)
    BY <1>2 DEF ConsumerOf
  <2> QED
    BY <1>1, <1>2, <2>1 DEF Known, Others
<1>3. CASE Known(p) = {}
  <2>1. ConsumerOf(p) = NewConsumer(p)
    BY <1>3 DEF ConsumerOf
  <2>2. NewConsumer(p) \in Consumer
    BY EmptySeq DEF NewConsumer, Consumer, Payload
  <2> QED
    BY <1>3, <2>1, <2>2 DEF NewConsumer, Others, Stale
<1> QED
  BY <1>2, <1>3

\* Whatever becomes of the payload's reader, there is one per payload type.
LEMMA ConsumerReplaced ==
  ASSUME Typed, NEW p \in Payload, NEW n \in Consumer,
         n.id = ConsumerOf(p).id, n.type = ConsumerOf(p).type,
         streamConsumers' = Others(p) \cup {n}
  PROVE  /\ streamConsumers' \subseteq Consumer
         /\ \A a, b \in streamConsumers' : a.type = b.type => a = b
<1>1. streamConsumers \subseteq Consumer
  BY DEF Typed, TypeOK, ReceiverTypeOK
<1>2. \A a, b \in streamConsumers : a.type = b.type => a = b
  BY DEF Typed, OneSubStreamPerType
<1>3. \A a \in Others(p) : a.type # n.type
  <2>1. CASE Known(p) # {}
    BY <1>2, <2>1, ConsumerTypes
  <2>2. CASE Known(p) = {}
    BY <2>2, ConsumerTypes DEF NewConsumer, Stale
  <2> QED
    BY <2>1, <2>2
<1> QED
  BY <1>1, <1>2, <1>3, ConsumerTypes

LEMMA RowsInRange ==
  ASSUME NEW p \in Payload
  PROVE  Rows(p) \subseteq 0..Len(p.means)
<1>1. p.means \in Seq(Value)
  BY DEF Payload
<1>2. Len(p.means) \in Nat /\ DOMAIN p.means = 1..Len(p.means)
  BY <1>1, LenProperties
<1> QED
  BY <1>2 DEF Rows

LEMMA TypedConsume ==
  ASSUME Typed, OpenFails \/ SkipRecord \/ ReadRecord
  PROVE  Typed'
<1> USE DEF Typed, TypeOK, ProducerTypeOK, ReceiverTypeOK
<1> DEFINE p == Head(left)
           sc == ConsumerOf(p)
<1>1. /\ pc = "consume" /\ left # <<>> /\ pc' \in {"consume", "respond"}
      /\ left' \in {<<>>, Tail(left)}
      /\ outcome' \in {outcome, "invalid"}
      /\ intact' \in {intact, FALSE}
      /\ req' \in {req, <<>>}
      /\ UNCHANGED <<producerVars, wire, hpackDecoder, data>>
  BY DEF OpenFails, SkipRecord, ReadRecord, Dropped
<1>2. p \in Payload /\ Tail(left) \in Seq(Payload) /\ <<>> \in Seq(Payload)
  BY <1>1, HeadTailProperties, EmptySeq
<1>3. sc \in Consumer
  BY <1>2, ConsumerTypes
<1>4. Extended(sc, p) \in Seq(Value)
  BY <1>2, <1>3, ConcatProperties DEF Extended, Consumer, Payload
<1>5. PICK n \in Consumer :
        n.id = sc.id /\ n.type = sc.type /\ streamConsumers' = Others(p) \cup {n}
  <2>1. CASE OpenFails
    BY <1>3, <2>1 DEF OpenFails
  <2>2. CASE SkipRecord
    <3>1. [sc EXCEPT !.reader = "failed"] \in Consumer
      BY <1>3 DEF Consumer
    <3> QED
      BY <1>3, <2>2, <3>1 DEF SkipRecord, Consumer
  <2>3. CASE ReadRecord
    <3>1. [sc EXCEPT !.reader = "open", !.dictionary = Extended(sc, p)] \in Consumer
      BY <1>3, <1>4 DEF Consumer
    <3> QED
      BY <1>3, <2>3, <3>1 DEF ReadRecord, Consumer
  <2> QED
    BY <2>1, <2>2, <2>3
<1>6. ibes' \in Seq(RecordMessage)
  <2>1. CASE ReadRecord
    <3>1. PICK row \in 0..Len(p.means) :
            ibes' = Append(ibes, [type |-> p.type, row |-> row, dictionary |-> Extended(sc, p)])
      BY <2>1, <1>2, RowsInRange DEF ReadRecord
    <3>2. row \in Nat
      BY <1>2, LenProperties DEF Payload
    <3>3. [type |-> p.type, row |-> row, dictionary |-> Extended(sc, p)] \in RecordMessage
      BY <1>2, <1>4, <3>2 DEF RecordMessage, Payload
    <3> QED
      BY <3>1, <3>3, AppendProperties
  <2>2. CASE ~ReadRecord
    BY <2>2, EmptySeq DEF OpenFails, SkipRecord, Dropped
  <2> QED
    BY <2>1, <2>2
<1> HIDE DEF p, sc
<1>7. /\ streamConsumers' \subseteq Consumer
      /\ \A a, b \in streamConsumers' : a.type = b.type => a = b
  BY <1>2, <1>5, ConsumerReplaced DEF sc
<1>8. TypeOK'
  <2>1. ProducerTypeOK' /\ data' \in Data \cup {"none", "others"}
    BY <1>1
  <2> QED
    BY <1>1, <1>2, <1>6, <1>7, <2>1
<1>9. OneSubStreamPerType'
  BY <1>1, <1>7 DEF OneSubStreamPerType
<1>10. HeadersInStep' /\ BatchHasRoom'
  BY <1>1 DEF HeadersInStep, BatchHasRoom
<1> QED
  BY <1>8, <1>9, <1>10

\* The other steps of the receiver leave the payloads and the readers alone.
Quiet ==
  \/ RecvFails \/ CleanUpPanics \/ RowPanics \/ DecodePanics \/ Decode
  \/ Respond \/ RespondFails

LEMMA TypedQuiet == Typed /\ Quiet => Typed'
<1> SUFFICES ASSUME Typed, Quiet PROVE Typed'
  OBVIOUS
<1> USE DEF Typed, TypeOK, ProducerTypeOK, ReceiverTypeOK
<1>1. /\ UNCHANGED <<producerVars, wire, hpackDecoder, intact>>
      /\ streamConsumers' \in {streamConsumers, {}} /\ left' \in {left, <<>>}
      /\ req' \in {req, <<>>} /\ ibes' \in {ibes, <<>>}
      /\ outcome' \in {outcome, "ok", "refused", "invalid", "none"}
      /\ data' \in {data, "none", "others"} \cup Data
      /\ pc # "closed" /\ pc' \in {"closed", "panicked", "respond", "recv"}
  BY DEF Quiet, RecvFails, CleanUpPanics, RowPanics, DecodePanics, Decode, Respond,
         RespondFails, Finds, Data, NothingLeft, Dropped
<1>2. <<>> \in Seq(Payload) /\ <<>> \in Seq(RecordMessage)
  BY EmptySeq
<1>3. TypeOK'
  <2>1. streamConsumers' \subseteq Consumer
    BY <1>1
  <2>2. /\ left' \in Seq(Payload) /\ req' \in Seq(Payload)
        /\ ibes' \in Seq(RecordMessage)
    BY <1>1, <1>2
  <2>3. ProducerTypeOK'
    BY <1>1
  <2>4. /\ outcome' \in {"none", "ok", "refused", "unauthorized", "invalid"}
        /\ data' \in Data \cup {"none", "others"}
    BY <1>1
  <2> QED
    BY <1>1, <2>1, <2>2, <2>3, <2>4
<1>4. HeadersInStep' /\ BatchHasRoom'
  BY <1>1 DEF HeadersInStep, BatchHasRoom
<1>5. OneSubStreamPerType'
  <2>1. CASE UNCHANGED streamConsumers
    BY <1>1, <2>1 DEF OneSubStreamPerType
  <2>2. CASE streamConsumers' = {}
    BY <1>1, <2>2 DEF OneSubStreamPerType
  <2> QED
    BY <1>1, <2>1, <2>2
<1> QED
  BY <1>3, <1>4, <1>5

LEMMA TypedStutter == Typed /\ UNCHANGED vars => Typed'
BY DEF Typed, TypeOK, ProducerTypeOK, ReceiverTypeOK, HeadersInStep, OneSubStreamPerType,
       BatchHasRoom

LEMMA TypedNext == Typed /\ [Next]_vars => Typed'
<1> SUFFICES ASSUME Typed, [Next]_vars PROVE Typed'
  OBVIOUS
<1>1. ASSUME NEW t \in PayloadType, ContinueSubStream(t) \/ StartSubStream(t)
      PROVE  Typed'
  BY <1>1, TypedContinue, TypedStart
<1>2. CASE ProducerNext
  BY <1>1, <1>2, TypedSend, TypedEnd DEF ProducerNext
<1>3. CASE ReceiverNext
  BY <1>3, TypedReceive, TypedConsume, TypedQuiet DEF ReceiverNext, Quiet
<1> QED
  BY <1>2, <1>3, TypedStutter DEF Next

LEMMA TypedTheorem == Spec => []Typed
<1> QED
  BY TypedInit, TypedNext, PTL DEF Spec

\* TypeOK: the state of both ends has its types, and ids are not given twice.
THEOREM TypeCorrect == Spec => []TypeOK
<1>1. Typed => TypeOK
  BY DEF Typed
<1> QED
  BY <1>1, TypedTheorem, PTL

\* HeadersInStep: the header tables of the two ends differ by exactly the entries
\* in flight.
THEOREM HeaderTables == Spec => []HeadersInStep
<1>1. Typed => HeadersInStep
  BY DEF Typed
<1> QED
  BY <1>1, TypedTheorem, PTL

\* OneSubStreamPerType: each end keeps one writer or reader per payload type.
THEOREM OneSubStream == Spec => []OneSubStreamPerType
<1>1. Typed => OneSubStreamPerType
  BY DEF Typed
<1> QED
  BY <1>1, TypedTheorem, PTL

-----------------------------------------------------------------------------
(***************************************************************************)
(* Payloads in flight.  They lie in segments: what is left of the batch in *)
(* hand, the batches on the wire, the batch being built.  A reader counts  *)
(* as a payload before all others, a writer as one after all others.       *)
(***************************************************************************)

Cells(S) == {c \in Nat \X Nat : c[1] \in 1..Len(S) /\ c[2] \in 1..Len(S[c[1]])}

At(S, c) == S[c[1]][c[2]]

Before(c, d) == c[1] < d[1] \/ (c[1] = d[1] /\ c[2] < d[2])

\* What may come after p: an older sub-stream does not come back, and what p
\* means is not sent again.
Follows(p, q) ==
  /\ p.type = q.type => p.id <= q.id
  /\ p.id = q.id =>
       p.type = q.type /\ ~q.schema /\ Len(p.means) + Len(q.delta) <= Len(q.means)

\* q extends the dictionary as p left it.
Extends(p, q) == p.id = q.id /\ p.means \o q.delta = q.means

\* Each payload follows those before it.
Ordered(S, R, W) ==
  /\ \A c, d \in Cells(S) : Before(c, d) => Follows(At(S, c), At(S, d))
  /\ \A r \in R, d \in Cells(S) : Follows(r, At(S, d))
  /\ \A c \in Cells(S), w \in W : Follows(At(S, c), w)
  /\ \A r \in R, w \in W : Follows(r, w)

\* A payload begins its sub-stream, or extends what some payload before it left.
Begun(q) == q.schema /\ q.delta = q.means

Rooted(S, R, W) ==
  /\ \A d \in Cells(S) :
       \/ Begun(At(S, d))
       \/ \E r \in R : Extends(r, At(S, d))
       \/ \E c \in Cells(S) : Before(c, d) /\ Extends(At(S, c), At(S, d))
  /\ \A w \in W :
       \/ \E r \in R : Extends(r, w)
       \/ \E c \in Cells(S) : Extends(At(S, c), w)

Linked(S, R, W) == Ordered(S, R, W) /\ Rooted(S, R, W)

LEMMA CellTypes ==
  ASSUME NEW S \in Seq(Seq(Payload)), NEW c \in Cells(S)
  PROVE  At(S, c) \in Payload
BY ElementOfSeq DEF Cells, At

\* What was dropped from the end was extended by nothing that stays; f says where
\* the cells that stay came from.
LEMMA Kept ==
  ASSUME NEW S, NEW T, NEW R, NEW W, NEW V \in SUBSET W,
         NEW f \in [Cells(T) -> Cells(S)],
         \A c \in Cells(T) : At(T, c) = At(S, f[c]),
         \A c, d \in Cells(T) : Before(c, d) <=> Before(f[c], f[d]),
         \A d \in Cells(T), c \in Cells(S) :
           Before(c, f[d]) => \E b \in Cells(T) : f[b] = c,
         V = {} \/ \A c \in Cells(S) : \E b \in Cells(T) : f[b] = c,
         Linked(S, R, W)
  PROVE  Linked(T, R, V)
<1>1. Ordered(T, R, V)
  BY DEF Linked, Ordered
<1>2. ASSUME NEW d \in Cells(T)
      PROVE  \/ Begun(At(T, d))
             \/ \E r \in R : Extends(r, At(T, d))
             \/ \E c \in Cells(T) : Before(c, d) /\ Extends(At(T, c), At(T, d))
  <2>1. CASE Begun(At(S, f[d])) \/ \E r \in R : Extends(r, At(S, f[d]))
    BY <2>1
  <2>2. CASE \E c \in Cells(S) : Before(c, f[d]) /\ Extends(At(S, c), At(S, f[d]))
    BY <2>2
  <2> QED
    BY <2>1, <2>2 DEF Linked, Rooted
<1>3. ASSUME NEW w \in V
      PROVE  \/ \E r \in R : Extends(r, w)
             \/ \E c \in Cells(T) : Extends(At(T, c), w)
  BY DEF Linked, Rooted
<1> QED
  BY <1>1, <1>2, <1>3 DEF Linked, Rooted

-----------------------------------------------------------------------------
(***************************************************************************)
(* A payload is read.                                                      *)
(***************************************************************************)

First == <<1, 1>>

\* What the first payload means is what its reader has, extended.
LEMMA HeadOfChain ==
  ASSUME NEW S \in Seq(Seq(Payload)), NEW R \in SUBSET Payload, NEW W \in SUBSET Payload,
         Linked(S, R, W), First \in Cells(S)
  PROVE  \/ /\ Begun(At(S, First))
            /\ \A r \in R : r.id # At(S, First).id
         \/ \E r \in R : Extends(r, At(S, First)) /\ r.type = At(S, First).type
<1>1. \A c \in Cells(S) : ~Before(c, First)
  BY DEF Cells, Before, First
<1>2. \A r \in R : Follows(r, At(S, First))
  BY DEF Linked, Ordered
<1>3. Begun(At(S, First)) \/ \E r \in R : Extends(r, At(S, First))
  BY <1>1 DEF Linked, Rooted
<1> QED
  BY <1>2, <1>3 DEF Follows, Begun, Extends

\* If q extends the reader of p's sub-stream, or of one p replaces, so it does p.
LEMMA ReaderSuperseded ==
  ASSUME NEW r \in Payload, NEW s \in Payload, NEW p \in Payload, NEW q \in Payload,
         Follows(r, p), Follows(p, q), Follows(r, q), Extends(r, q), r.type = p.type,
         (Begun(p) /\ r.id # p.id) \/ (Extends(s, p) /\ s = r)
  PROVE  Extends(p, q)
<1>1. r.id = q.id /\ r.type = q.type /\ p.type = q.type
  BY DEF Extends, Follows
<1>2. p.id = r.id
  BY <1>1 DEF Follows, Payload
<1>3. Extends(r, p)
  BY <1>2
<1>4. /\ r.means \in Seq(Value) /\ p.means \in Seq(Value) /\ q.means \in Seq(Value)
      /\ q.delta \in Seq(Value) /\ p.delta \in Seq(Value)
  BY DEF Payload
<1>5. /\ Len(r.means \o q.delta) = Len(r.means) + Len(q.delta)
      /\ Len(r.means \o p.delta) = Len(r.means) + Len(p.delta)
  BY <1>4, ConcatProperties
<1>6. /\ Len(q.means) = Len(r.means) + Len(q.delta)
      /\ Len(p.means) = Len(r.means) + Len(p.delta)
      /\ Len(p.means) + Len(q.delta) <= Len(q.means)
  BY <1>1, <1>2, <1>3, <1>5 DEF Follows, Extends
<1>7. /\ Len(r.means) \in Nat /\ Len(p.means) \in Nat /\ Len(q.means) \in Nat
      /\ Len(q.delta) \in Nat /\ Len(p.delta) \in Nat
  BY <1>4, LenProperties
<1>8. Len(p.delta) = 0
  <2>1. \A a, b, c, d, e \in Nat : c = a + d /\ b = a + e /\ b + d <= c => e = 0
    OBVIOUS
  <2> QED
    BY <1>6, <1>7, <2>1
<1>9. p.delta = <<>>
  BY <1>4, <1>8, EmptySeq
<1>10. p.means = r.means
  BY <1>3, <1>4, <1>9, ConcatEmptySeq DEF Extends
<1> QED
  BY <1>1, <1>2, <1>10 DEF Extends

\* Where the payloads were before the first was read.
Was(c) == <<c[1], IF c[1] = 1 THEN c[2] + 1 ELSE c[2]>>

LEMMA CellsAfterRead ==
  ASSUME NEW S \in Seq(Seq(Payload)), First \in Cells(S),
         NEW T \in Seq(Seq(Payload)), Len(T) = Len(S), T[1] = Tail(S[1]),
         \A k \in 2..Len(S) : T[k] = S[k]
  PROVE  /\ \A c \in Cells(T) :
              /\ Was(c) \in Cells(S) /\ At(S, Was(c)) = At(T, c)
              /\ Before(First, Was(c))
         /\ \A c, d \in Cells(T) : Before(c, d) <=> Before(Was(c), Was(d))
         /\ \A c \in Cells(S) : c = First \/ \E b \in Cells(T) : c = Was(b)
<1>1. /\ Len(S) \in Nat \ {0} /\ S[1] \in Seq(Payload) /\ Len(S[1]) \in Nat \ {0}
      /\ S[1] # <<>>
  BY LenProperties, EmptySeq, ElementOfSeq DEF Cells, First
<1>2. Len(T[1]) = Len(S[1]) - 1 /\ \A i \in 1..Len(T[1]) : T[1][i] = S[1][i + 1]
  BY <1>1, HeadTailProperties
<1>3. ASSUME NEW c \in Cells(T)
      PROVE  Was(c) \in Cells(S) /\ At(S, Was(c)) = At(T, c) /\ Before(First, Was(c))
  <2>1. c \in Nat \X Nat /\ c[1] \in 1..Len(S) /\ c[2] \in 1..Len(T[c[1]])
    BY DEF Cells
  <2>2. CASE c[1] = 1
    <3>1. c[2] \in 1..(Len(S[1]) - 1) /\ Was(c) = <<1, c[2] + 1>>
      BY <1>1, <1>2, <2>1, <2>2 DEF Was
    <3>2. Was(c) \in Cells(S) /\ Before(First, Was(c))
      <4> DEFINE j == c[2] + 1
      <4>1. j \in Nat /\ j \in 1..Len(S[1]) /\ 1 < j /\ 1 \in 1..Len(S)
        BY <1>1, <3>1
      <4> HIDE DEF j
      <4>2. <<1, j>> \in Cells(S)
        BY <4>1 DEF Cells
      <4>3. Before(First, <<1, j>>)
        BY <4>1 DEF Before, First
      <4> QED
        BY <3>1, <4>2, <4>3 DEF j
    <3>3. At(S, Was(c)) = S[1][c[2] + 1] /\ At(T, c) = T[1][c[2]]
      <4>1. Was(c)[1] = 1 /\ Was(c)[2] = c[2] + 1
        BY <3>1
      <4> QED
        BY <2>2, <4>1 DEF At
    <3> QED
      BY <1>2, <3>1, <3>2, <3>3
  <2>3. CASE c[1] # 1
    <3>1. Was(c) = <<c[1], c[2]>> /\ c[1] \in 2..Len(S)
      BY <1>1, <2>1, <2>3 DEF Was
    <3>2. T[c[1]] = S[c[1]]
      BY <3>1
    <3> QED
      BY <1>1, <2>1, <3>1, <3>2 DEF Cells, At, Before, First
  <2> QED
    BY <2>2, <2>3
<1>4. ASSUME NEW c \in Cells(T), NEW d \in Cells(T)
      PROVE  Before(c, d) <=> Before(Was(c), Was(d))
  <2>1. c[1] \in Nat /\ c[2] \in Nat /\ d[1] \in Nat /\ d[2] \in Nat
    BY DEF Cells
  <2>2. /\ Was(c)[1] = c[1] /\ Was(c)[2] = IF c[1] = 1 THEN c[2] + 1 ELSE c[2]
        /\ Was(d)[1] = d[1] /\ Was(d)[2] = IF d[1] = 1 THEN d[2] + 1 ELSE d[2]
    BY DEF Was
  <2>3. CASE c[1] # d[1]
    BY <2>1, <2>2, <2>3 DEF Before
  <2>4. CASE c[1] = d[1]
    BY <2>1, <2>2, <2>4 DEF Before
  <2> QED
    BY <2>3, <2>4
<1>5. ASSUME NEW c \in Cells(S), c # First
      PROVE  \E b \in Cells(T) : c = Was(b)
  <2>1. c \in Nat \X Nat /\ c[1] \in 1..Len(S) /\ c[2] \in 1..Len(S[c[1]])
    BY DEF Cells
  <2>2. CASE c[1] = 1
    <3>1. c[2] # 1
      BY <1>5, <2>1, <2>2 DEF First
    <3>2. c[2] - 1 \in 1..Len(T[1]) /\ c[2] - 1 \in Nat
      BY <1>1, <1>2, <2>1, <2>2, <3>1
    <3>3. <<1, c[2] - 1>> \in Cells(T)
      <4>1. \A j \in Nat : j \in 1..Len(T[1]) => <<1, j>> \in Cells(T)
        <5>1. 1 \in 1..Len(T)
          BY <1>1
        <5>2. ASSUME NEW j \in Nat, j \in 1..Len(T[1])
              PROVE  <<1, j>> \in Cells(T)
          <6> DEFINE d == <<1, j>>
          <6>1. d[1] = 1 /\ d[2] = j /\ d \in Nat \X Nat
            OBVIOUS
          <6> HIDE DEF d
          <6>2. d \in Cells(T)
            BY <5>1, <5>2, <6>1 DEF Cells
          <6> QED
            BY <6>2 DEF d
        <5> QED
          BY <5>2
      <4> QED
        BY <3>2, <4>1
    <3>4. c = Was(<<1, c[2] - 1>>)
      BY <2>1, <2>2, <3>1 DEF Was
    <3> QED
      BY <3>4, <3>3
  <2>3. CASE c[1] # 1
    <3>1. c = Was(c) /\ c[1] \in 2..Len(S)
      BY <1>1, <2>1, <2>3 DEF Was
    <3>2. T[c[1]] = S[c[1]]
      BY <3>1
    <3>3. c \in Cells(T)
      BY <1>1, <2>1, <3>1, <3>2 DEF Cells
    <3> QED
      BY <3>1, <3>3
  <2> QED
    BY <2>2, <2>3
<1> QED
  BY <1>3, <1>4, <1>5

\* The reader of the payload takes its place.
LEMMA LinkedRead ==
  ASSUME NEW S \in Seq(Seq(Payload)), First \in Cells(S),
         NEW T \in Seq(Seq(Payload)), Len(T) = Len(S), T[1] = Tail(S[1]),
         \A k \in 2..Len(S) : T[k] = S[k],
         NEW R \in SUBSET Payload, NEW W \in SUBSET Payload, Linked(S, R, W),
         \A a, b \in R : a.type = b.type => a = b,
         NEW n \in Payload, n.id = At(S, First).id, n.type = At(S, First).type,
         n.means = At(S, First).means
  PROVE  Linked(T, {r \in R : r.type # n.type} \cup {n}, W)
<1> DEFINE p == At(S, First)
           Q == {r \in R : r.type # n.type} \cup {n}
<1>1. /\ \A c \in Cells(T) :
              /\ Was(c) \in Cells(S) /\ At(S, Was(c)) = At(T, c)
              /\ Before(First, Was(c))
      /\ \A c, d \in Cells(T) : Before(c, d) <=> Before(Was(c), Was(d))
      /\ \A c \in Cells(S) : c = First \/ \E b \in Cells(T) : c = Was(b)
  BY CellsAfterRead
<1>2. p \in Payload
  BY CellTypes
<1>3. \A q : Follows(p, q) => Follows(n, q)
  BY DEF Follows
<1>4. \A q : Extends(p, q) => Extends(n, q)
  BY DEF Extends
<1>5. \A r \in R : Follows(r, p)
  BY DEF Linked, Ordered
<1>6. \/ Begun(p) /\ \A r \in R : r.id # p.id
      \/ \E r \in R : Extends(r, p) /\ r.type = p.type
  BY HeadOfChain
<1>7. ASSUME NEW q \in Payload, Follows(p, q), NEW r \in R, Follows(r, q), Extends(r, q)
      PROVE  \E s \in Q : Extends(s, q)
  <2>1. CASE r.type # n.type
    BY <1>7, <2>1
  <2>2. CASE r.type = n.type
    <3>1. (Begun(p) /\ r.id # p.id) \/ Extends(r, p)
      BY <1>6, <2>2
    <3>2. Extends(p, q)
      BY <1>2, <1>5, <1>7, <2>2, <3>1, ReaderSuperseded
    <3> QED
      BY <1>4, <3>2
  <2> QED
    BY <2>1, <2>2
<1>8. /\ \A c, d \in Cells(S) : Before(c, d) => Follows(At(S, c), At(S, d))
      /\ \A r \in R, d \in Cells(S) : Follows(r, At(S, d))
      /\ \A c \in Cells(S), w \in W : Follows(At(S, c), w)
      /\ \A r \in R, w \in W : Follows(r, w)
  BY DEF Linked, Ordered
<1>9. /\ \A d \in Cells(S) :
           \/ Begun(At(S, d))
           \/ \E r \in R : Extends(r, At(S, d))
           \/ \E c \in Cells(S) : Before(c, d) /\ Extends(At(S, c), At(S, d))
      /\ \A w \in W :
           \/ \E r \in R : Extends(r, w)
           \/ \E c \in Cells(S) : Extends(At(S, c), w)
  BY DEF Linked, Rooted
<1>10. \A q \in Cells(T) : At(T, q) \in Payload
  BY CellTypes
<1>11. Ordered(T, Q, W)
  <2>1. \A c, d \in Cells(T) : Before(c, d) => Follows(At(T, c), At(T, d))
    BY <1>1, <1>8
  <2>2. \A d \in Cells(T) : Follows(p, At(T, d))
    BY <1>1, <1>8
  <2>3. \A r \in Q, d \in Cells(T) : Follows(r, At(T, d))
    BY <1>1, <1>3, <1>8, <2>2
  <2>4. \A c \in Cells(T), w \in W : Follows(At(T, c), w)
    BY <1>1, <1>8
  <2>5. \A r \in Q, w \in W : Follows(r, w)
    BY <1>3, <1>8
  <2> QED
    BY <2>1, <2>3, <2>4, <2>5 DEF Ordered
<1>12. ASSUME NEW d \in Cells(T)
       PROVE  \/ Begun(At(T, d))
              \/ \E r \in Q : Extends(r, At(T, d))
              \/ \E c \in Cells(T) : Before(c, d) /\ Extends(At(T, c), At(T, d))
  <2> DEFINE e == Was(d)
             q == At(T, d)
  <2>1. e \in Cells(S) /\ q = At(S, e) /\ Before(First, e) /\ q \in Payload
    BY <1>1, <1>10
  <2>2. Follows(p, q)
    BY <1>8, <2>1
  <2>3. CASE Begun(q)
    BY <2>3
  <2>4. CASE \E r \in R : Extends(r, q)
    <3> HIDE DEF q, Q, p
    <3> QED
      BY <1>7, <1>8, <2>1, <2>2, <2>4 DEF q
  <2>5. CASE \E c \in Cells(S) : Before(c, e) /\ Extends(At(S, c), q)
    <3>1. PICK c \in Cells(S) : Before(c, e) /\ Extends(At(S, c), q)
      BY <2>5
    <3>2. CASE c = First
      BY <1>4, <3>1, <3>2
    <3>3. CASE c # First
      <4>1. PICK b \in Cells(T) : c = Was(b)
        BY <1>1, <3>3
      <4>2. Before(b, d) /\ At(T, b) = At(S, c)
        BY <1>1, <3>1, <4>1
      <4> QED
        BY <3>1, <4>2
    <3> QED
      BY <3>2, <3>3
  <2> QED
    BY <1>9, <2>1, <2>3, <2>4, <2>5
<1>13. ASSUME NEW w \in W
       PROVE  \/ \E r \in Q : Extends(r, w)
              \/ \E c \in Cells(T) : Extends(At(T, c), w)
  <2>1. Follows(p, w) /\ w \in Payload
    BY <1>8
  <2>2. CASE \E r \in R : Extends(r, w)
    <3> HIDE DEF Q, p
    <3> QED
      BY <1>7, <1>8, <2>1, <2>2
  <2>3. CASE \E c \in Cells(S) : Extends(At(S, c), w)
    <3>1. PICK c \in Cells(S) : Extends(At(S, c), w)
      BY <2>3
    <3>2. CASE c = First
      BY <1>4, <3>1, <3>2
    <3>3. CASE c # First
      BY <1>1, <3>1, <3>3
    <3> QED
      BY <3>2, <3>3
  <2> QED
    BY <1>9, <2>2, <2>3
<1> HIDE DEF Q
<1>14. Rooted(T, Q, W)
  BY <1>12, <1>13 DEF Rooted
<1> QED
  BY <1>11, <1>14 DEF Linked, Q

-----------------------------------------------------------------------------
(***************************************************************************)
(* A payload is written, sent, received, dropped.                          *)
(***************************************************************************)

\* The payload is the last of the last segment.
LEMMA CellsAfterWrite ==
  ASSUME NEW S \in Seq(Seq(Payload)), S # <<>>, NEW q \in Payload,
         NEW T \in Seq(Seq(Payload)), Len(T) = Len(S),
         T[Len(S)] = Append(S[Len(S)], q),
         \A k \in 1..(Len(S) - 1) : T[k] = S[k]
  PROVE  \E e \in Cells(T) :
           /\ At(T, e) = q
           /\ Cells(T) = Cells(S) \cup {e}
           /\ \A c \in Cells(S) : At(T, c) = At(S, c) /\ Before(c, e) /\ ~Before(e, c)
           /\ ~Before(e, e)
<1> DEFINE L == Len(S)
           m == Len(S[L]) + 1
           e == <<L, m>>
<1>1. L \in Nat \ {0} /\ S[L] \in Seq(Payload) /\ Len(S[L]) \in Nat
  BY LenProperties, EmptySeq, ElementOfSeq
<1>2. /\ Len(T[L]) = m /\ T[L][m] = q
      /\ \A i \in 1..Len(S[L]) : T[L][i] = S[L][i]
  BY <1>1, AppendProperties
<1>3. e[1] = L /\ e[2] = m /\ e \in Nat \X Nat
  BY <1>1
<1> HIDE DEF e
<1>4. e \in Cells(T) /\ At(T, e) = q /\ ~Before(e, e)
  BY <1>1, <1>2, <1>3 DEF Cells, At, Before
<1>5. ASSUME NEW c \in Cells(S)
      PROVE  c \in Cells(T) /\ At(T, c) = At(S, c) /\ Before(c, e) /\ ~Before(e, c)
  <2>1. c \in Nat \X Nat /\ c[1] \in 1..L /\ c[2] \in 1..Len(S[c[1]])
    BY DEF Cells
  <2>2. CASE c[1] = L
    BY <1>1, <1>2, <1>3, <2>1, <2>2 DEF Cells, At, Before
  <2>3. CASE c[1] # L
    <3>1. c[1] \in 1..(L - 1)
      BY <1>1, <2>1, <2>3
    <3>2. T[c[1]] = S[c[1]]
      BY <3>1
    <3>3. c \in Cells(T) /\ At(T, c) = At(S, c)
      BY <2>1, <3>2 DEF Cells, At
    <3>4. c[1] < e[1] /\ c[1] \in Nat /\ e[1] \in Nat
      <4>1. \A a, n \in Nat : a \in 1..(n - 1) => a < n
        OBVIOUS
      <4> QED
        BY <1>1, <1>3, <2>1, <3>1, <4>1
    <3> QED
      BY <3>3, <3>4 DEF Before
  <2> QED
    BY <2>2, <2>3
<1>6. ASSUME NEW c \in Cells(T)
      PROVE  c \in Cells(S) \/ c = e
  <2>1. c \in Nat \X Nat /\ c[1] \in 1..L /\ c[2] \in 1..Len(T[c[1]])
    BY DEF Cells
  <2>2. CASE c[1] = L /\ c[2] = m
    BY <2>1, <2>2 DEF e
  <2>3. CASE c[1] = L /\ c[2] # m
    BY <1>1, <1>2, <2>1, <2>3 DEF Cells
  <2>4. CASE c[1] # L
    <3>1. c[1] \in 1..(L - 1)
      BY <1>1, <2>1, <2>4
    <3>2. T[c[1]] = S[c[1]]
      BY <3>1
    <3> QED
      BY <2>1, <3>2 DEF Cells
  <2> QED
    BY <2>2, <2>3, <2>4
<1> QED
  BY <1>4, <1>5, <1>6

\* The writer of the payload takes its place after it.
LEMMA LinkedWrite ==
  ASSUME NEW S \in Seq(Seq(Payload)), S # <<>>, NEW q \in Payload,
         NEW T \in Seq(Seq(Payload)), Len(T) = Len(S),
         T[Len(S)] = Append(S[Len(S)], q),
         \A k \in 1..(Len(S) - 1) : T[k] = S[k],
         NEW R \in SUBSET Payload, NEW W \in SUBSET Payload, Linked(S, R, W),
         \* q comes after all that is there, and begins or extends its sub-stream
         \A p \in Payload : (p \in R \/ \E c \in Cells(S) : p = At(S, c)) => Follows(p, q),
         Begun(q) \/ \E w \in W : w.delta = <<>> /\ Extends(w, q),
         NEW n \in Payload, n.id = q.id, n.type = q.type, ~n.schema, n.delta = <<>>,
         n.means = q.means,
         \A w \in W : w.type # q.type => w.id # q.id
  PROVE  Linked(T, R, {w \in W : w.type # q.type} \cup {n})
<1> DEFINE V == {w \in W : w.type # q.type} \cup {n}
<1>1. PICK e \in Cells(T) :
        /\ At(T, e) = q
        /\ Cells(T) = Cells(S) \cup {e}
        /\ \A c \in Cells(S) : At(T, c) = At(S, c) /\ Before(c, e) /\ ~Before(e, c)
        /\ ~Before(e, e)
  BY CellsAfterWrite
<1>2. /\ q.means \in Seq(Value) /\ q.delta \in Seq(Value)
      /\ Len(q.means) \in Nat /\ Len(q.delta) \in Nat /\ Len(<<>>) = 0
  BY LenProperties, EmptySeq DEF Payload
<1>3. \A c \in Cells(S) : At(S, c) \in Payload
  BY CellTypes
<1>4. \A c \in Cells(S) : Follows(At(S, c), q)
  BY <1>3
<1>5. \A r \in R : Follows(r, q)
  OBVIOUS
<1>6. ASSUME NEW p \in Payload, Follows(p, q)
      PROVE  Follows(p, n)
  <2>1. Len(p.means) \in Nat /\ Len(n.delta) = 0 /\ Len(n.means) = Len(q.means)
    BY <1>2, LenProperties DEF Payload
  <2>2. \A a, b, c \in Nat : a + b <= c => a + 0 <= c
    OBVIOUS
  <2>3. p.id = n.id => Len(p.means) + Len(n.delta) <= Len(n.means)
    BY <1>2, <1>6, <2>1, <2>2 DEF Follows
  <2>4. /\ p.type = n.type => p.id <= n.id
        /\ p.id = n.id => p.type = n.type /\ ~n.schema
    BY <1>6 DEF Follows
  <2> QED
    BY <2>3, <2>4 DEF Follows
<1>7. Follows(q, n) /\ Extends(q, n)
  BY <1>2, ConcatEmptySeq DEF Follows, Extends, Payload
<1>8. \A w \in W : w.type # q.type => Follows(q, w)
  BY DEF Follows
<1>9. /\ \A c, d \in Cells(S) : Before(c, d) => Follows(At(S, c), At(S, d))
      /\ \A r \in R, d \in Cells(S) : Follows(r, At(S, d))
      /\ \A c \in Cells(S), w \in W : Follows(At(S, c), w)
      /\ \A r \in R, w \in W : Follows(r, w)
  BY DEF Linked, Ordered
<1>10. Ordered(T, R, V)
  <2>1. \A c, d \in Cells(T) : Before(c, d) => Follows(At(T, c), At(T, d))
    BY <1>1, <1>4, <1>9
  <2>2. \A r \in R, d \in Cells(T) : Follows(r, At(T, d))
    BY <1>1, <1>5, <1>9
  <2>3. \A c \in Cells(T), w \in V : Follows(At(T, c), w)
    BY <1>1, <1>3, <1>4, <1>6, <1>7, <1>8, <1>9
  <2>4. \A r \in R, w \in V : Follows(r, w)
    BY <1>5, <1>6, <1>9
  <2> QED
    BY <2>1, <2>2, <2>3, <2>4 DEF Ordered
<1>11. /\ \A d \in Cells(S) :
           \/ Begun(At(S, d))
           \/ \E r \in R : Extends(r, At(S, d))
           \/ \E c \in Cells(S) : Before(c, d) /\ Extends(At(S, c), At(S, d))
      /\ \A w \in W :
           \/ \E r \in R : Extends(r, w)
           \/ \E c \in Cells(S) : Extends(At(S, c), w)
  BY DEF Linked, Rooted
<1>12. ASSUME NEW p \in Payload, NEW w \in W, w.delta = <<>>, Extends(p, w), Extends(w, q)
       PROVE  Extends(p, q)
  <2>1. p.means = w.means
    BY <1>12, ConcatEmptySeq DEF Extends, Payload
  <2> QED
    BY <1>12, <2>1 DEF Extends
<1>13. \/ Begun(q)
       \/ \E r \in R : Extends(r, q)
       \/ \E c \in Cells(S) : Extends(At(S, c), q)
  <2>1. ASSUME NEW w \in W, w.delta = <<>>, Extends(w, q)
        PROVE  \/ \E r \in R : Extends(r, q)
               \/ \E c \in Cells(S) : Extends(At(S, c), q)
    BY <1>3, <1>11, <1>12, <2>1
  <2> QED
    BY <2>1
<1>14. Rooted(T, R, V)
  <2>1. ASSUME NEW d \in Cells(T)
        PROVE  \/ Begun(At(T, d))
               \/ \E r \in R : Extends(r, At(T, d))
               \/ \E c \in Cells(T) : Before(c, d) /\ Extends(At(T, c), At(T, d))
    <3>1. CASE d = e
      BY <1>1, <1>13, <3>1
    <3>2. CASE d \in Cells(S)
      <4>1. At(T, d) = At(S, d)
        BY <1>1, <3>2
      <4> QED
        BY <1>1, <1>11, <3>2, <4>1
    <3> QED
      BY <1>1, <3>1, <3>2
  <2>2. ASSUME NEW w \in V
        PROVE  \/ \E r \in R : Extends(r, w)
               \/ \E c \in Cells(T) : Extends(At(T, c), w)
    <3>1. CASE w = n
      BY <1>1, <1>7, <3>1
    <3>2. CASE w \in W
      BY <1>1, <1>11, <3>2
    <3> QED
      BY <3>1, <3>2
  <2> QED
    BY <2>1, <2>2 DEF Rooted
<1> QED
  BY <1>10, <1>14 DEF Linked

\* The batch is put on the wire, and an empty one begun.
LEMMA LinkedSend ==
  ASSUME NEW S \in Seq(Seq(Payload)), NEW R, NEW W, Linked(S, R, W),
         NEW T \in Seq(Seq(Payload)), Len(T) = Len(S) + 1, T[Len(T)] = <<>>,
         \A k \in 1..Len(S) : T[k] = S[k]
  PROVE  Linked(T, R, W)
<1>1. Len(S) \in Nat /\ Len(<<>>) = 0
  BY LenProperties, EmptySeq
<1>2. ASSUME NEW c \in Cells(S)
      PROVE  c \in Cells(T) /\ At(T, c) = At(S, c)
  <2>1. c \in Nat \X Nat /\ c[1] \in 1..Len(S) /\ c[2] \in 1..Len(S[c[1]])
    BY DEF Cells
  <2>2. T[c[1]] = S[c[1]] /\ c[1] \in 1..Len(T)
    BY <1>1, <2>1
  <2> QED
    BY <2>1, <2>2 DEF Cells, At
<1>3. \A c \in Cells(T) : c \in Cells(S)
  <2> SUFFICES ASSUME NEW c \in Cells(T) PROVE c \in Cells(S)
    OBVIOUS
  <2>1. c \in Nat \X Nat /\ c[1] \in 1..Len(T) /\ c[2] \in 1..Len(T[c[1]])
    BY DEF Cells
  <2>2. c[1] # Len(T)
    BY <1>1, <2>1
  <2>3. c[1] \in 1..Len(S)
    BY <1>1, <2>1, <2>2
  <2> QED
    BY <2>1, <2>3 DEF Cells
<1>4. Cells(T) = Cells(S)
  BY <1>2, <1>3
<1>5. Ordered(T, R, W)
  BY <1>2, <1>4 DEF Linked, Ordered
<1>6. Rooted(T, R, W)
  <2> DEFINE Root(U, d) ==
        \/ Begun(At(U, d))
        \/ \E r \in R : Extends(r, At(U, d))
        \/ \E c \in Cells(S) : Before(c, d) /\ Extends(At(U, c), At(U, d))
  <2>1. \A d \in Cells(S) : Root(S, d)
    BY DEF Linked, Rooted
  <2>2. \A d \in Cells(S) : Root(T, d)
    BY <1>2, <2>1
  <2>3. \A w \in W : \/ \E r \in R : Extends(r, w)
                     \/ \E c \in Cells(S) : Extends(At(T, c), w)
    BY <1>2 DEF Linked, Rooted
  <2> QED
    BY <1>4, <2>2, <2>3 DEF Rooted
<1> QED
  BY <1>5, <1>6 DEF Linked

\* Nothing is left of the batch in hand: the next is taken from the wire.
LEMMA LinkedReceive ==
  ASSUME NEW S \in Seq(Seq(Payload)), S # <<>>, S[1] = <<>>, NEW R, NEW W, Linked(S, R, W),
         NEW T \in Seq(Seq(Payload)), Len(T) = Len(S) - 1,
         \A k \in 1..Len(T) : T[k] = S[k + 1]
  PROVE  Linked(T, R, W)
<1> DEFINE f == [c \in Cells(T) |-> <<c[1] + 1, c[2]>>]
<1>1. Len(S) \in Nat \ {0} /\ Len(<<>>) = 0
  BY LenProperties, EmptySeq
<1>2. ASSUME NEW c \in Cells(T)
      PROVE  /\ c \in Nat \X Nat /\ f[c] \in Nat \X Nat
             /\ f[c][1] = c[1] + 1 /\ f[c][2] = c[2]
             /\ c[1] \in 1..Len(T) /\ c[2] \in 1..Len(T[c[1]])
             /\ T[c[1]] = S[c[1] + 1] /\ c[1] + 1 \in 1..Len(S)
  <2>1. c \in Nat \X Nat /\ c[1] \in 1..Len(T) /\ c[2] \in 1..Len(T[c[1]])
    BY DEF Cells
  <2>2. f[c] = <<c[1] + 1, c[2]>>
    OBVIOUS
  <2>3. T[c[1]] = S[c[1] + 1]
    BY <2>1
  <2>4. c[1] + 1 \in 1..Len(S)
    <3>1. \A a, n \in Nat : a \in 1..(n - 1) => a + 1 \in 1..n
      OBVIOUS
    <3>2. c[1] \in Nat /\ c[1] \in 1..(Len(S) - 1) /\ Len(S) \in Nat
      BY <1>1, <2>1
    <3> QED
      BY <3>1, <3>2
  <2> HIDE DEF f
  <2> QED
    BY <2>1, <2>2, <2>3, <2>4
<1>3. ASSUME NEW c \in Cells(S)
      PROVE  \E b \in Cells(T) : f[b] = c
  <2>1. c \in Nat \X Nat /\ c[1] \in 1..Len(S) /\ c[2] \in 1..Len(S[c[1]])
    BY DEF Cells
  <2>2. c[1] # 1
    BY <1>1, <2>1
  <2> DEFINE b == <<c[1] - 1, c[2]>>
  <2>3. c[1] - 1 \in 1..Len(T) /\ T[c[1] - 1] = S[c[1]]
    <3>1. c[1] - 1 \in 1..Len(T) /\ (c[1] - 1) + 1 = c[1]
      <4>1. \A i, n \in Nat : i \in 1..n /\ i # 1 => i - 1 \in 1..(n - 1) /\ (i - 1) + 1 = i
        OBVIOUS
      <4>2. c[1] \in Nat /\ Len(S) \in Nat
        BY <1>1, <2>1
      <4> HIDE DEF f, b
      <4> QED
        BY <2>1, <2>2, <4>1, <4>2
    <3>2. T[c[1] - 1] = S[(c[1] - 1) + 1]
      BY <3>1
    <3> QED
      BY <3>1, <3>2
  <2>4. b[1] = c[1] - 1 /\ b[2] = c[2] /\ b \in Nat \X Nat
    BY <2>1, <2>3
  <2> HIDE DEF b
  <2>5. b \in Cells(T)
    BY <2>1, <2>3, <2>4 DEF Cells
  <2>6. f[b] = <<c[1], c[2]>>
    <3>1. b[1] + 1 = c[1]
      BY <2>1, <2>4
    <3> QED
      BY <2>5, <2>4, <3>1
  <2>7. c = <<c[1], c[2]>>
    BY <2>1
  <2> HIDE DEF f
  <2> QED
    BY <2>5, <2>6, <2>7
<1> HIDE DEF f
<1>4. \A c \in Cells(T) : f[c] \in Cells(S) /\ At(T, c) = At(S, f[c])
  BY <1>2 DEF Cells, At
<1>5. f \in [Cells(T) -> Cells(S)]
  BY <1>4 DEF f
<1>6. ASSUME NEW c \in Cells(T), NEW d \in Cells(T)
      PROVE  Before(c, d) <=> Before(f[c], f[d])
  <2>1. /\ c[1] \in Nat /\ d[1] \in Nat /\ c[2] \in Nat /\ d[2] \in Nat
        /\ f[c][1] = c[1] + 1 /\ f[c][2] = c[2]
        /\ f[d][1] = d[1] + 1 /\ f[d][2] = d[2]
    BY <1>2
  <2> QED
    BY <2>1, SMTT(30) DEF Before
<1>7. \A d \in Cells(T), c \in Cells(S) : Before(c, f[d]) => \E b \in Cells(T) : f[b] = c
  BY <1>3
<1>8. W = {} \/ \A c \in Cells(S) : \E b \in Cells(T) : f[b] = c
  BY <1>3
<1>9. \A c \in Cells(T) : At(T, c) = At(S, f[c])
  BY <1>4
<1>10. W \in SUBSET W
  OBVIOUS
<1> QED
  BY <1>5, <1>6, <1>7, <1>8, <1>9, <1>10, Kept

\* What was written so far of a batch is dropped with its writers.
LEMMA LinkedDrop ==
  ASSUME NEW S \in Seq(Seq(Payload)), S # <<>>, NEW R, NEW W, Linked(S, R, W),
         NEW T \in Seq(Seq(Payload)), Len(T) = Len(S), T[Len(S)] = <<>>,
         \A k \in 1..(Len(S) - 1) : T[k] = S[k]
  PROVE  Linked(T, R, {})
<1> DEFINE f == [c \in Cells(T) |-> c]
<1>1. Len(S) \in Nat \ {0} /\ Len(<<>>) = 0
  BY LenProperties, EmptySeq
<1>2. ASSUME NEW c \in Cells(T)
      PROVE  /\ c \in Nat \X Nat /\ c[1] \in 1..(Len(S) - 1)
             /\ c \in Cells(S) /\ At(T, c) = At(S, c)
  <2>1. c \in Nat \X Nat /\ c[1] \in 1..Len(T) /\ c[2] \in 1..Len(T[c[1]])
    BY DEF Cells
  <2>2. c[1] # Len(T)
    BY <1>1, <2>1
  <2>3. c[1] \in 1..(Len(S) - 1)
    BY <1>1, <2>1, <2>2
  <2> QED
    BY <1>1, <2>1, <2>3 DEF Cells, At
<1>3. ASSUME NEW d \in Cells(T), NEW c \in Cells(S), Before(c, d)
      PROVE  c \in Cells(T)
  <2>1. c \in Nat \X Nat /\ c[1] \in 1..Len(S) /\ c[2] \in 1..Len(S[c[1]])
    BY DEF Cells
  <2>2. c[1] \in 1..(Len(S) - 1)
    <3>1. \A i, j, n \in Nat : i \in 1..n /\ j \in 1..(n - 1) /\ i <= j => i \in 1..(n - 1)
      OBVIOUS
    <3>2. d[1] \in Nat /\ d[1] \in 1..(Len(S) - 1)
      BY <1>2
    <3>3. c[1] \in Nat /\ c[1] <= d[1]
      <4>1. c[1] \in Nat
        BY <2>1
      <4>2. c[1] < d[1] \/ c[1] = d[1]
        BY <1>3, Zenon DEF Before
      <4>3. \A i, j \in Nat : i < j \/ i = j => i <= j
        OBVIOUS
      <4> QED
        BY <3>2, <4>1, <4>2, <4>3
    <3> HIDE DEF f
    <3> QED
      BY <1>1, <2>1, <3>1, <3>2, <3>3
  <2> QED
    BY <1>1, <2>1, <2>2 DEF Cells
<1>4. f \in [Cells(T) -> Cells(S)] /\ \A c \in Cells(T) : f[c] = c
  BY <1>2
<1> HIDE DEF f
<1>5. \A d \in Cells(T), c \in Cells(S) : Before(c, f[d]) => \E b \in Cells(T) : f[b] = c
  BY <1>3, <1>4
<1>6. \A c \in Cells(T) : At(T, c) = At(S, f[c])
  BY <1>2, <1>4
<1>7. \A c, d \in Cells(T) : Before(c, d) <=> Before(f[c], f[d])
  BY <1>4
<1> DEFINE V == {}
<1>8. V \in SUBSET W /\ V = {}
  OBVIOUS
<1> HIDE DEF V
<1>9. V = {} \/ \A c \in Cells(S) : \E b \in Cells(T) : f[b] = c
  BY <1>8
<1>10. Linked(T, R, V)
  BY <1>4, <1>5, <1>6, <1>7, <1>8, <1>9, Kept
<1> QED
  BY <1>8, <1>10

-----------------------------------------------------------------------------
(***************************************************************************)
(* The payloads of a state, and the invariant.                             *)
(***************************************************************************)

LaidOut(S, l, w, b) ==
  /\ S \in Seq(Seq(Payload)) /\ S # <<>>
  /\ Len(S) = Len(w) + 2 /\ Len(w) \in Nat
  /\ S[1] = l /\ S[Len(w) + 2] = b
  /\ \A k \in 2..(Len(w) + 1) : S[k] = w[k - 1].payloads

LEMMA Laid ==
  ASSUME NEW l \in Seq(Payload), NEW w \in Seq(Batch), NEW b \in Seq(Payload)
  PROVE  LaidOut(Segments(l, w, b), l, w, b)
<1> DEFINE S == Segments(l, w, b)
<1>1. Len(w) \in Nat
  BY LenProperties
<1>2. \A k \in 1..(Len(w) + 2) :
        S[k] = IF k = 1 THEN l ELSE IF k = Len(w) + 2 THEN b ELSE w[k - 1].payloads
  BY DEF Segments
<1>3. ASSUME NEW k \in 2..(Len(w) + 1)
      PROVE  S[k] = w[k - 1].payloads /\ S[k] \in Seq(Payload)
  <2>1. k - 1 \in 1..Len(w) /\ k \in 1..(Len(w) + 2) /\ k # 1 /\ k # Len(w) + 2
    BY <1>1
  <2>2. w[k - 1] \in Batch
    BY <2>1, ElementOfSeq
  <2>3. S[k] = w[k - 1].payloads
    BY <1>2, <2>1
  <2> QED
    BY <2>2, <2>3 DEF Batch
<1>4. S[1] = l /\ S[Len(w) + 2] = b
  BY <1>1, <1>2
<1>5. \A k \in 1..(Len(w) + 2) : S[k] \in Seq(Payload)
  <2> SUFFICES ASSUME NEW k \in 1..(Len(w) + 2) PROVE S[k] \in Seq(Payload)
    OBVIOUS
  <2>1. k = 1 \/ k = Len(w) + 2 \/ k \in 2..(Len(w) + 1)
    BY <1>1
  <2> QED
    BY <1>3, <1>4, <2>1
<1>6. S \in [1..(Len(w) + 2) -> Seq(Payload)]
  <2>1. DOMAIN S = 1..(Len(w) + 2) /\ S = [k \in DOMAIN S |-> S[k]]
    BY DEF Segments
  <2> HIDE DEF S
  <2> QED
    BY <1>5, <2>1
<1> HIDE DEF S
<1>7. S \in Seq(Seq(Payload)) /\ Len(S) = Len(w) + 2
  <2> DEFINE n == Len(w) + 2
  <2>1. n \in Nat /\ S \in [1..n -> Seq(Payload)]
    BY <1>1, <1>6
  <2> HIDE DEF n
  <2>2. S \in Seq(Seq(Payload)) /\ Len(S) = n
    BY <2>1, FunctionIsSeq
  <2> QED
    BY <2>2 DEF n
<1>8. S # <<>>
  BY <1>1, <1>7, EmptySeq
<1> QED
  <2>1. LaidOut(S, l, w, b)
    BY <1>1, <1>3, <1>4, <1>7, <1>8 DEF LaidOut
  <2> QED
    BY <2>1 DEF S

\* A reader and a writer as payloads: what they have read and written.
Reading(sc) ==
  [id |-> sc.id, type |-> sc.type, schema |-> FALSE, delta |-> <<>>, means |-> sc.dictionary]

Writing(sp) ==
  [id |-> sp.id, type |-> sp.type, schema |-> FALSE, delta |-> <<>>, means |-> sp.written]

Readers(consumers) == {Reading(sc) : sc \in consumers}

Writers(producers) == {Writing(sp) : sp \in producers}

LEMMA EndTypes ==
  /\ \A sc \in Consumer : Reading(sc) \in Payload
  /\ \A sp \in Producer : Writing(sp) \in Payload
  /\ \A X \in SUBSET Consumer : Readers(X) \in SUBSET Payload
  /\ \A X \in SUBSET Producer : Writers(X) \in SUBSET Payload
<1>1. \A sc \in Consumer : Reading(sc) \in Payload
  BY EmptySeq DEF Reading, Consumer, Payload
<1>2. \A sp \in Producer : Writing(sp) \in Payload
  BY EmptySeq DEF Writing, Producer, Payload
<1> QED
  BY <1>1, <1>2 DEF Readers, Writers

\* All that is in flight continues what the readers have and leads up to what the
\* writers have; once the producer is gone nothing has to lead anywhere.
InLine ==
  Linked(Segments(left, wire, building), Readers(streamConsumers),
         Writers(IF sending THEN streamProducers ELSE {}))

\* A writer has written its builder's dictionary up to some value, unless its
\* schema is gone.
WritersInStep ==
  \A sp \in streamProducers :
    /\ sp.key[1] = sp.type /\ sp.key[2] <= schema[sp.type]
    /\ sp.key[2] = schema[sp.type] =>
         /\ Len(sp.written) <= values[sp.type]
         /\ \A k \in 1..Len(sp.written) : sp.written[k] = <<schema[sp.type], k>>

DistinctIds == \A a, b \in streamProducers : a.id = b.id => a = b

Numbered(s, n) == \A i \in 1..Len(s) : s[i].id < n

IdsGiven ==
  /\ Numbered(left, nextSubStreamId) /\ Numbered(building, nextSubStreamId)
  /\ \A k \in 1..Len(wire) : Numbered(wire[k].payloads, nextSubStreamId)
  /\ \A sc \in streamConsumers : sc.id < nextSubStreamId

\* What was read of the batch in hand, and what is left of it.
Progress ==
  /\ Len(ibes) + Len(left) = Len(req)
  /\ \A i \in 1..Len(left) : left[i] = req[Len(ibes) + i]
  /\ \A i \in 1..Len(ibes) :
       /\ ibes[i].type = req[i].type
       /\ ibes[i].dictionary = req[i].means
       /\ ibes[i].row <= Len(req[i].means)

Sound ==
  /\ outcome = "invalid" => data = "fails"
  /\ pc = "panicked" => data = "panics"
  /\ \A sc \in streamConsumers : sc.reader = "open"
  /\ pc \in {"recv", "respond"} => left = <<>>
  /\ pc \in {"consume", "respond"} => Progress
  /\ pc = "consume" => outcome = "none"
  /\ pc \notin {"closed", "panicked"} => InLine

Delivering == Typed /\ WritersInStep /\ DistinctIds /\ IdsGiven /\ (intact => Sound)

LEMMA DeliveringInit == Init => Delivering
<1> SUFFICES ASSUME Init PROVE Delivering
  OBVIOUS
<1>1. Typed
  BY TypedInit
<1>2. WritersInStep /\ DistinctIds
  BY DEF Init, WritersInStep, DistinctIds
<1>3. Len(<<>>) = 0
  BY EmptySeq
<1>4. IdsGiven
  BY <1>3 DEF Init, IdsGiven, Numbered
<1>5. Cells(Segments(left, wire, building)) = {}
  <2>1. <<>> \in Seq(Payload) /\ <<>> \in Seq(Batch)
    BY EmptySeq
  <2> DEFINE S == Segments(left, wire, building)
  <2>2. Len(S) = 2 /\ S[1] = <<>> /\ S[2] = <<>>
    <3>1. LaidOut(S, <<>>, <<>>, <<>>)
      BY <2>1, Laid DEF Init
    <3> HIDE DEF S
    <3> QED
      BY <1>3, <3>1 DEF LaidOut
  <2> HIDE DEF S
  <2>3. \A k \in 1..Len(S) : S[k] = <<>>
    BY <2>2
  <2>4. \A k \in 1..Len(S) : Len(S[k]) = 0
    BY <1>3, <2>3
  <2>5. Cells(S) = {}
    BY <2>4 DEF Cells
  <2> QED
    BY <2>5 DEF S
<1>6. Readers(streamConsumers) = {} /\ Writers(IF sending THEN streamProducers ELSE {}) = {}
  BY DEF Init, Readers, Writers
<1>7. InLine
  BY <1>5, <1>6 DEF InLine, Linked, Ordered, Rooted
<1>8. Sound
  BY <1>7 DEF Init, Sound
<1> QED
  BY <1>1, <1>2, <1>4, <1>8 DEF Delivering

-----------------------------------------------------------------------------
(***************************************************************************)
(* The producer's steps.                                                   *)
(***************************************************************************)

\* A writer that stays open has written the beginning of the dictionary.
LEMMA WrittenAndDelta ==
  ASSUME TypeOK, WritersInStep, NEW t \in PayloadType, BuildRecord(t),
         NEW sp \in OpenProducers(t)
  PROVE  /\ sp.type = t /\ sp.written \o Delta(t, sp) = Dictionary(t)
         /\ schema' = schema /\ values'[t] >= values[t]
         /\ \A u \in PayloadType : u # t => values'[u] = values[u]
<1> USE DEF TypeOK, ProducerTypeOK
<1>1. sp \in Producer /\ sp \in streamProducers /\ sp.key = <<t, schema'[t]>>
  BY DEF OpenProducers, SubStream
<1>2. sp.type = t /\ sp.key[2] = schema'[t] /\ schema'[t] <= schema[t]
  BY <1>1 DEF WritersInStep
<1>3. schema[t] \in Nat /\ values[t] \in Nat
  BY StreamAssumption
<1>4. schema' = schema /\ \E n \in values[t]..MaxValues : values' = [values EXCEPT ![t] = n]
  <2>1. schema' # [schema EXCEPT ![t] = @ + 1]
    BY <1>2, <1>3
  <2> QED
    BY <2>1 DEF BuildRecord
<1>5. values'[t] >= values[t] /\ \A u \in PayloadType : u # t => values'[u] = values[u]
  BY <1>3, <1>4
<1> DEFINE n == Len(sp.written)
<1>6. /\ n \in Nat /\ n <= values[t]
      /\ \A k \in 1..n : sp.written[k] = <<schema[t], k>>
  BY <1>1, <1>2, <1>4, LenProperties DEF WritersInStep, Producer
<1>7. values'[t] \in Nat /\ Dictionary(t) \in Seq(Value) /\ Len(Dictionary(t)) = values'[t]
  BY BuildTypes
<1>8. \A k \in 1..values'[t] : Dictionary(t)[k] = <<schema[t], k>>
  BY <1>4 DEF Dictionary
<1>9. \A i \in (n + 1)..values'[t] : Dictionary(t)[i] \in Value
  BY <1>6, <1>7, ElementOfSeq
<1>10. /\ Delta(t, sp) \in Seq(Value)
       /\ Len(Delta(t, sp)) = IF n + 1 <= values'[t] THEN values'[t] - (n + 1) + 1 ELSE 0
       /\ \A i \in 1..(values'[t] - (n + 1) + 1) : Delta(t, sp)[i] = Dictionary(t)[n + 1 + i - 1]
  <2>1. n + 1 \in Int /\ values'[t] \in Int
    BY <1>6, <1>7
  <2> QED
    BY <1>9, <2>1, SubSeqProperties, SMTT(30) DEF Delta
<1>11. Len(Delta(t, sp)) = values'[t] - n
  <2>1. \A a, b, c \in Nat : a <= b /\ c >= b =>
          (IF a + 1 <= c THEN c - (a + 1) + 1 ELSE 0) = c - a
    OBVIOUS
  <2> HIDE DEF n
  <2> QED
    BY <1>3, <1>5, <1>6, <1>7, <1>10, <2>1
<1>12. sp.written \in Seq(Value)
  BY <1>1 DEF Producer
<1> DEFINE all == sp.written \o Delta(t, sp)
<1>13. /\ all \in Seq(Value) /\ Len(all) = Len(sp.written) + Len(Delta(t, sp))
       /\ \A i \in 1..(Len(sp.written) + Len(Delta(t, sp))) :
            all[i] = IF i <= Len(sp.written) THEN sp.written[i]
                     ELSE Delta(t, sp)[i - Len(sp.written)]
  BY <1>10, <1>12, ConcatProperties
<1>14. Len(all) = values'[t]
  <2>1. \A a, b \in Nat : a + (b - a) = b
    OBVIOUS
  <2>2. Len(all) = n + (values'[t] - n)
    BY <1>11, <1>13
  <2> HIDE DEF all, n
  <2> QED
    BY <1>6, <1>7, <2>1, <2>2
<1>15. ASSUME NEW i \in 1..values'[t]
       PROVE  all[i] = Dictionary(t)[i]
  <2>1. all[i] = IF i <= n THEN sp.written[i] ELSE Delta(t, sp)[i - n]
    BY <1>13, <1>14
  <2>2. CASE i <= n
    <3>1. i \in 1..n
      BY <1>6, <1>7, <2>2
    <3>2. sp.written[i] = <<schema[t], i>> /\ Dictionary(t)[i] = <<schema[t], i>>
      BY <1>6, <1>8, <3>1
    <3> QED
      BY <2>1, <2>2, <3>2
  <2>3. CASE ~(i <= n)
    <3>1. i - n \in 1..(values'[t] - (n + 1) + 1) /\ n + 1 + (i - n) - 1 = i
      <4>1. \A a, b, c \in Nat : c \in 1..b /\ ~(c <= a) =>
              c - a \in 1..(b - (a + 1) + 1) /\ a + 1 + (c - a) - 1 = c
        OBVIOUS
      <4>2. i \in Nat /\ n \in Nat /\ values'[t] \in Nat
        BY <1>6, <1>7
      <4> HIDE DEF n
      <4> QED
        BY <2>3, <4>1, <4>2
    <3>2. Delta(t, sp)[i - n] = Dictionary(t)[n + 1 + (i - n) - 1]
      BY <1>10, <3>1
    <3> QED
      BY <2>1, <2>3, <3>1, <3>2
  <2> QED
    BY <2>2, <2>3
<1> HIDE DEF all
<1>16. all = Dictionary(t)
  BY <1>7, <1>13, <1>14, <1>15, SeqEqual
<1> QED
  BY <1>2, <1>4, <1>5, <1>16 DEF all

\* The payload goes to the end of what is in line.
LEMMA LineWrite ==
  ASSUME TypeOK, InLine, sending, NEW q \in Payload, NEW new \in Producer,
         building' = Append(building, q),
         streamProducers' = {sp \in streamProducers : sp.type # q.type} \cup {new},
         new.id = q.id, new.type = q.type, new.written = q.means,
         UNCHANGED <<left, wire, streamConsumers, sending>>,
         LET S == Segments(left, wire, building) IN
           \A p \in Payload :
             (p \in Readers(streamConsumers) \/ \E c \in Cells(S) : p = At(S, c)) => Follows(p, q),
         Begun(q) \/ \E sp \in streamProducers : Extends(Writing(sp), q),
         \A sp \in streamProducers : sp.type # q.type => sp.id # q.id
  PROVE  InLine'
<1> DEFINE S == Segments(left, wire, building)
           T == Segments(left, wire, Append(building, q))
           R == Readers(streamConsumers)
           W == Writers(streamProducers)
           n == Writing(new)
<1>1. /\ left \in Seq(Payload) /\ wire \in Seq(Batch) /\ building \in Seq(Payload)
      /\ Append(building, q) \in Seq(Payload)
      /\ streamProducers \in SUBSET Producer /\ streamConsumers \in SUBSET Consumer
  BY AppendProperties DEF TypeOK, ProducerTypeOK, ReceiverTypeOK
<1>2. LaidOut(S, left, wire, building) /\ LaidOut(T, left, wire, Append(building, q))
  BY <1>1, Laid
<1>3. R \in SUBSET Payload /\ W \in SUBSET Payload /\ n \in Payload
  BY <1>1, EndTypes
<1>4. n.id = q.id /\ n.type = q.type /\ ~n.schema /\ n.delta = <<>> /\ n.means = q.means
  BY DEF Writing
<1>5. Linked(S, R, W)
  BY DEF InLine
<1>6. Begun(q) \/ \E w \in W : w.delta = <<>> /\ Extends(w, q)
  BY DEF Writers, Writing
<1>7. \A w \in W : w.type # q.type => w.id # q.id
  BY DEF Writers, Writing
<1>8. \A p \in Payload : (p \in R \/ \E c \in Cells(S) : p = At(S, c)) => Follows(p, q)
  OBVIOUS
<1>9. Writers(streamProducers') = {w \in W : w.type # q.type} \cup {n}
  BY DEF Writers, Writing
<1>10. InLine' <=> Linked(T, R, Writers(streamProducers'))
  BY DEF InLine
<1> HIDE DEF S, T, R, W, n
<1>11. /\ S \in Seq(Seq(Payload)) /\ S # <<>> /\ T \in Seq(Seq(Payload))
       /\ Len(T) = Len(S) /\ T[Len(S)] = Append(S[Len(S)], q)
  BY <1>2 DEF LaidOut
<1>12. \A k \in 1..(Len(S) - 1) : T[k] = S[k]
  <2> SUFFICES ASSUME NEW k \in 1..(Len(S) - 1) PROVE T[k] = S[k]
    OBVIOUS
  <2>1. k = 1 \/ k \in 2..(Len(wire) + 1)
    BY <1>2 DEF LaidOut
  <2> QED
    BY <1>2, <2>1 DEF LaidOut
<1>13. Linked(T, R, {w \in W : w.type # q.type} \cup {n})
  BY <1>3, <1>4, <1>5, <1>6, <1>7, <1>8, <1>11, <1>12, LinkedWrite
<1> QED
  BY <1>9, <1>10, <1>13

\* The payload written joins those whose ids are given.
LEMMA NumberedAppend ==
  ASSUME NEW s \in Seq(Payload), NEW q \in Payload, NEW n \in Nat, NEW m \in Nat,
         n <= m, Numbered(s, n), q.id < m
  PROVE  Numbered(Append(s, q), m)
<1>1. Len(s) \in Nat
  BY LenProperties
<1> SUFFICES ASSUME NEW i \in 1..Len(Append(s, q)) PROVE Append(s, q)[i].id < m
  BY DEF Numbered
<1>2. i \in 1..Len(s) \/ i = Len(s) + 1
  BY <1>1, AppendProperties
<1>3. CASE i \in 1..Len(s)
  <2>1. Append(s, q)[i] = s[i] /\ s[i] \in Payload /\ s[i].id < n
    BY <1>3, AppendProperties, ElementOfSeq DEF Numbered
  <2>2. \A a, b, c \in Nat : a < b /\ b <= c => a < c
    OBVIOUS
  <2>3. s[i].id \in Nat
    BY <2>1 DEF Payload
  <2> QED
    BY <2>1, <2>2, <2>3
<1>4. CASE i = Len(s) + 1
  BY <1>4, AppendProperties
<1> QED
  BY <1>2, <1>3, <1>4

LEMMA NumberedMore ==
  ASSUME NEW s \in Seq(Payload), NEW n \in Nat, NEW m \in Nat, n <= m, Numbered(s, n)
  PROVE  Numbered(s, m)
<1> SUFFICES ASSUME NEW i \in 1..Len(s) PROVE s[i].id < m
  BY DEF Numbered
<1>1. s[i] \in Payload /\ s[i].id < n
  BY ElementOfSeq DEF Numbered
<1> QED
  BY <1>1 DEF Payload

\* Nothing in line has an id that is not given yet.
LEMMA LineIds ==
  ASSUME TypeOK, IdsGiven
  PROVE  /\ \A c \in Cells(Segments(left, wire, building)) :
              At(Segments(left, wire, building), c).id < nextSubStreamId
         /\ \A r \in Readers(streamConsumers) : r.id < nextSubStreamId
<1> DEFINE S == Segments(left, wire, building)
<1>1. LaidOut(S, left, wire, building)
  BY Laid DEF TypeOK, ProducerTypeOK, ReceiverTypeOK
<1>2. ASSUME NEW c \in Cells(S)
      PROVE  At(S, c).id < nextSubStreamId
  <2> HIDE DEF S
  <2>1. c[1] \in 1..Len(S) /\ c[2] \in 1..Len(S[c[1]])
    BY DEF Cells
  <2>2. c[1] = 1 \/ c[1] = Len(wire) + 2 \/ c[1] \in 2..(Len(wire) + 1)
    BY <1>1, <2>1 DEF LaidOut
  <2>3. CASE c[1] = 1
    BY <1>1, <2>1, <2>3 DEF LaidOut, At, IdsGiven, Numbered
  <2>4. CASE c[1] = Len(wire) + 2
    BY <1>1, <2>1, <2>4 DEF LaidOut, At, IdsGiven, Numbered
  <2>5. CASE c[1] \in 2..(Len(wire) + 1)
    <3>1. c[1] - 1 \in 1..Len(wire) /\ S[c[1]] = wire[c[1] - 1].payloads
      <4>1. \A k, n \in Nat : k \in 2..(n + 1) => k - 1 \in 1..n
        OBVIOUS
      <4>2. c[1] \in Nat /\ Len(wire) \in Nat
        BY <1>1, <2>5 DEF LaidOut
      <4> QED
        BY <1>1, <2>5, <4>1, <4>2 DEF LaidOut
    <3>2. Numbered(S[c[1]], nextSubStreamId)
      BY <3>1 DEF IdsGiven
    <3> QED
      BY <2>1, <3>2 DEF Numbered, At
  <2> QED
    BY <2>2, <2>3, <2>4, <2>5
<1> QED
  BY <1>2 DEF Readers, Reading, IdsGiven

LEMMA DeliveringContinue ==
  ASSUME Delivering, NEW t \in PayloadType, ContinueSubStream(t)
  PROVE  Delivering'
<1>1. Typed /\ Typed' /\ TypeOK
  BY TypedContinue DEF Delivering, Typed
<1>2. /\ sending /\ BuildRecord(t)
      /\ UNCHANGED <<nextSubStreamId, batchId, hpackEncoder, sending, wire, receiverVars>>
  BY DEF ContinueSubStream
<1>3. PICK sp \in OpenProducers(t) :
        /\ WritePayload(t, sp, FALSE)
        /\ streamProducers' = (streamProducers \ {sp})
                                \cup {[sp EXCEPT !.written = Dictionary(t)]}
  BY DEF ContinueSubStream
<1>4. WritersInStep /\ DistinctIds /\ IdsGiven
  BY DEF Delivering
<1>5. /\ sp.type = t /\ sp.written \o Delta(t, sp) = Dictionary(t)
      /\ schema' = schema /\ values'[t] >= values[t]
      /\ \A u \in PayloadType : u # t => values'[u] = values[u]
  BY <1>1, <1>2, <1>4, WrittenAndDelta
<1>6. sp \in streamProducers /\ sp \in Producer /\ sp.id < nextSubStreamId
      /\ sp.key = <<t, schema'[t]>>
  BY <1>1, <1>3 DEF OpenProducers, SubStream, TypeOK, ProducerTypeOK
<1>7. /\ Dictionary(t) \in Seq(Value) /\ Len(Dictionary(t)) = values'[t]
      /\ Delta(t, sp) \in Seq(Value)
      /\ values' \in [PayloadType -> 0..MaxValues]
  BY <1>1, <1>2, <1>6, BuildTypes, DeltaTypes
<1> DEFINE q == [id |-> sp.id, type |-> t, schema |-> FALSE, delta |-> Delta(t, sp),
                 means |-> Dictionary(t)]
           new == [sp EXCEPT !.written = Dictionary(t)]
<1>8. /\ q \in Payload /\ q.id = sp.id /\ q.type = t /\ ~q.schema
      /\ q.delta = Delta(t, sp) /\ q.means = Dictionary(t)
  BY <1>6, <1>7 DEF Payload, Producer
<1>9. /\ new \in Producer /\ new.id = sp.id /\ new.type = t /\ new.key = sp.key
      /\ new.written = Dictionary(t)
  BY <1>5, <1>6, <1>7 DEF Producer
<1>10. building' = Append(building, q) /\ streamProducers' = (streamProducers \ {sp}) \cup {new}
  BY <1>3 DEF WritePayload
<1>11. \A x \in streamProducers : x.type = t => x = sp
  BY <1>1, <1>5, <1>6 DEF Typed, OneSubStreamPerType
<1> HIDE DEF q, new
<1>12. streamProducers' = {x \in streamProducers : x.type # q.type} \cup {new}
  BY <1>5, <1>8, <1>10, <1>11
<1>13. WritersInStep'
  <2>1. ASSUME NEW x \in streamProducers, x # sp
        PROVE  x.type # t /\ x.type \in PayloadType /\ values'[x.type] = values[x.type]
    BY <1>1, <1>5, <1>11, <2>1 DEF TypeOK, ProducerTypeOK, Producer
  <2>2. \A k \in 1..Len(Dictionary(t)) : Dictionary(t)[k] = <<schema'[t], k>>
    BY <1>7 DEF Dictionary
  <2>3. Len(new.written) <= values'[t] /\ values'[t] \in Nat
    BY <1>7, <1>9
  <2>4. schema'[t] \in Nat
    BY <1>1, <1>5, StreamAssumption DEF TypeOK, ProducerTypeOK
  <2>5. new.key[1] = t /\ new.key[2] = schema'[t]
    BY <1>6, <1>9
  <2>6. ASSUME NEW x \in streamProducers'
        PROVE  /\ x.key[1] = x.type /\ x.key[2] <= schema'[x.type]
               /\ x.key[2] = schema'[x.type] =>
                    /\ Len(x.written) <= values'[x.type]
                    /\ \A k \in 1..Len(x.written) : x.written[k] = <<schema'[x.type], k>>
    <3>1. CASE x = new
      BY <1>9, <2>2, <2>3, <2>4, <2>5, <3>1
    <3>2. CASE x \in streamProducers /\ x # sp
      BY <1>4, <1>5, <2>1, <3>2 DEF WritersInStep
    <3> QED
      BY <1>10, <3>1, <3>2
  <2> QED
    BY <2>6 DEF WritersInStep
<1>14. DistinctIds'
  BY <1>4, <1>6, <1>9, <1>10 DEF DistinctIds
<1>15. IdsGiven'
  <2>1. Numbered(building', nextSubStreamId)
    BY <1>1, <1>4, <1>6, <1>8, <1>10, NumberedAppend DEF IdsGiven, TypeOK, ProducerTypeOK
  <2> QED
    BY <1>2, <1>4, <2>1 DEF IdsGiven
<1>16. ASSUME intact, Sound
       PROVE  Sound'
  <2>1. CASE pc \in {"closed", "panicked"}
    BY <1>2, <1>16, <2>1 DEF Sound, Progress
  <2>2. CASE pc \notin {"closed", "panicked"}
    <3> DEFINE S == Segments(left, wire, building)
               W == Writers(streamProducers)
    <3>1. InLine
      BY <1>16, <2>2 DEF Sound
    <3>2. Linked(S, Readers(streamConsumers), W)
      BY <1>2, <3>1 DEF InLine
    <3>3. Writing(sp) \in W
      BY <1>6 DEF Writers
    <3>4. Extends(Writing(sp), q)
      BY <1>5, <1>8 DEF Extends, Writing
    <3>5. Len(Dictionary(t)) = Len(sp.written) + Len(Delta(t, sp))
      <4>1. sp.written \in Seq(Value) /\ Delta(t, sp) \in Seq(Value)
        BY <1>6, <1>7 DEF Producer
      <4>2. Len(sp.written \o Delta(t, sp)) = Len(sp.written) + Len(Delta(t, sp))
        BY <4>1, ConcatProperties
      <4> QED
        BY <1>5, <4>2
    <3>6. ASSUME NEW p \in Payload, Follows(p, Writing(sp))
          PROVE  Follows(p, q)
      <4>1. Len(p.means) \in Nat /\ Len(sp.written) \in Nat /\ Len(Delta(t, sp)) \in Nat
            /\ Len(<<>>) = 0
        BY <1>6, <1>7, LenProperties, EmptySeq DEF Payload, Producer
      <4>2. \A a, b, c \in Nat : a + 0 <= b => a + c <= b + c
        OBVIOUS
      <4>3. Writing(sp).id = q.id /\ Writing(sp).type = q.type
        BY <1>5, <1>8 DEF Writing
      <4>4. p.id = q.id => Len(p.means) + Len(<<>>) <= Len(sp.written)
        BY <3>6, <4>3 DEF Follows, Writing
      <4>5. p.id = q.id => Len(p.means) + Len(q.delta) <= Len(q.means)
        BY <1>8, <3>5, <4>1, <4>2, <4>4
      <4> QED
        BY <1>8, <3>6, <4>3, <4>5 DEF Follows
    <3>7. \A p \in Payload :
            (p \in Readers(streamConsumers) \/ \E c \in Cells(S) : p = At(S, c)) => Follows(p, q)
      <4> HIDE DEF S, W
      <4> QED
        BY <3>2, <3>3, <3>6 DEF Linked, Ordered
    <3>8. \A x \in streamProducers : x.type # q.type => x.id # q.id
      BY <1>4, <1>5, <1>6, <1>8 DEF DistinctIds
    <3>9. UNCHANGED <<left, wire, streamConsumers, sending>>
      BY <1>2
    <3>10. Begun(q) \/ \E x \in streamProducers : Extends(Writing(x), q)
      BY <1>6, <3>4
    <3>11. new.id = q.id /\ new.type = q.type /\ new.written = q.means
      BY <1>8, <1>9
    <3>12. InLine'
      BY <1>1, <1>2, <1>8, <1>9, <1>10, <1>12, <3>1, <3>7, <3>8, <3>9, <3>10, <3>11, LineWrite
    <3> QED
      BY <1>2, <1>16, <3>12 DEF Sound, Progress
  <2> QED
    BY <2>1, <2>2
<1> QED
  BY <1>1, <1>2, <1>13, <1>14, <1>15, <1>16 DEF Delivering

LEMMA DeliveringStart ==
  ASSUME Delivering, NEW t \in PayloadType, StartSubStream(t)
  PROVE  Delivering'
<1>1. Typed /\ Typed' /\ TypeOK
  BY TypedStart DEF Delivering, Typed
<1>2. /\ sending /\ BuildRecord(t)
      /\ UNCHANGED <<batchId, hpackEncoder, sending, wire, receiverVars>>
      /\ nextSubStreamId' = nextSubStreamId + 1
      /\ WritePayload(t, NewProducer(t), TRUE)
  BY DEF StartSubStream
<1>3. WritersInStep /\ DistinctIds /\ IdsGiven
  BY DEF Delivering
<1>4. /\ Dictionary(t) \in Seq(Value) /\ Len(Dictionary(t)) = values'[t]
      /\ SubStream(t) \in PayloadType \X (1..MaxSchema)
      /\ values' \in [PayloadType -> 0..MaxValues]
      /\ schema' \in [PayloadType -> 1..MaxSchema]
  BY <1>1, <1>2, BuildTypes
<1>5. Delta(t, NewProducer(t)) = Dictionary(t)
  <2>1. NewProducer(t).written = <<>> /\ Len(<<>>) = 0
    BY EmptySeq DEF NewProducer
  <2>2. Delta(t, NewProducer(t)) = SubSeq(Dictionary(t), 1, Len(Dictionary(t)))
    BY <1>4, <2>1 DEF Delta
  <2> QED
    BY <1>4, <2>2, SubSeqFull
<1> DEFINE q == [id |-> nextSubStreamId, type |-> t, schema |-> TRUE,
                 delta |-> Dictionary(t), means |-> Dictionary(t)]
           new == [NewProducer(t) EXCEPT !.written = Dictionary(t)]
<1>6. /\ q \in Payload /\ q.id = nextSubStreamId /\ q.type = t /\ q.schema
      /\ q.delta = Dictionary(t) /\ q.means = Dictionary(t)
  BY <1>1, <1>4 DEF Payload, TypeOK, ProducerTypeOK
<1>7. /\ new \in Producer /\ new.id = nextSubStreamId /\ new.type = t
      /\ new.key = SubStream(t) /\ new.written = Dictionary(t)
  BY <1>1, <1>4 DEF Producer, NewProducer, TypeOK, ProducerTypeOK
<1>8. building' = Append(building, q)
  BY <1>2, <1>5 DEF WritePayload, NewProducer
<1>9. streamProducers' = KeptProducers(t) \cup {new}
  BY DEF StartSubStream
<1> HIDE DEF q, new
<1>10. streamProducers' = {x \in streamProducers : x.type # q.type} \cup {new}
  BY <1>6, <1>9 DEF KeptProducers
<1>11. /\ \A x \in streamProducers : x \in Producer /\ x.id \in Nat /\ x.id < nextSubStreamId
       /\ nextSubStreamId \in Nat
  BY <1>1 DEF TypeOK, ProducerTypeOK, Producer
<1>12. WritersInStep'
  <2>1. ASSUME NEW x \in streamProducers, x.type # t
        PROVE  /\ x.type \in PayloadType /\ schema'[x.type] = schema[x.type]
               /\ values'[x.type] = values[x.type]
    BY <1>1, <1>2, <1>11, <2>1 DEF BuildRecord, TypeOK, ProducerTypeOK, Producer
  <2>2. \A k \in 1..Len(Dictionary(t)) : Dictionary(t)[k] = <<schema'[t], k>>
    BY <1>4 DEF Dictionary
  <2>3. Len(new.written) <= values'[t] /\ values'[t] \in Nat /\ schema'[t] \in Nat
    BY <1>4, <1>7
  <2>4. new.key[1] = t /\ new.key[2] = schema'[t]
    BY <1>7 DEF SubStream
  <2>5. ASSUME NEW x \in streamProducers'
        PROVE  /\ x.key[1] = x.type /\ x.key[2] <= schema'[x.type]
               /\ x.key[2] = schema'[x.type] =>
                    /\ Len(x.written) <= values'[x.type]
                    /\ \A k \in 1..Len(x.written) : x.written[k] = <<schema'[x.type], k>>
    <3>1. CASE x = new
      BY <1>7, <2>2, <2>3, <2>4, <3>1
    <3>2. CASE x \in streamProducers /\ x.type # t
      BY <1>3, <2>1, <3>2 DEF WritersInStep
    <3> QED
      BY <1>9, <3>1, <3>2 DEF KeptProducers
  <2> QED
    BY <2>5 DEF WritersInStep
<1>13. DistinctIds'
  <2>1. \A x \in streamProducers : x.id # new.id
    BY <1>7, <1>11
  <2> QED
    BY <1>3, <1>9, <2>1 DEF DistinctIds, KeptProducers
<1>14. IdsGiven'
  <2>1. Numbered(building', nextSubStreamId')
    BY <1>1, <1>2, <1>3, <1>6, <1>8, <1>11, NumberedAppend DEF IdsGiven, TypeOK, ProducerTypeOK
  <2>2. Numbered(left', nextSubStreamId')
    BY <1>1, <1>2, <1>3, <1>11, NumberedMore DEF IdsGiven, TypeOK, ReceiverTypeOK
  <2>3. ASSUME NEW k \in 1..Len(wire)
        PROVE  Numbered(wire[k].payloads, nextSubStreamId')
    <3>1. wire[k] \in Batch
      BY <1>1, ElementOfSeq DEF TypeOK
    <3>2. wire[k].payloads \in Seq(Payload)
      BY <3>1 DEF Batch
    <3>3. Numbered(wire[k].payloads, nextSubStreamId)
      BY <1>3 DEF IdsGiven
    <3> QED
      BY <1>2, <1>11, <3>2, <3>3, NumberedMore
  <2>4. \A sc \in streamConsumers : sc.id < nextSubStreamId'
    <3>1. \A sc \in streamConsumers : sc.id \in Nat /\ sc.id < nextSubStreamId
      BY <1>1, <1>3 DEF IdsGiven, TypeOK, ReceiverTypeOK, Consumer
    <3> QED
      BY <1>2, <1>11, <3>1
  <2> QED
    BY <1>2, <2>1, <2>2, <2>3, <2>4 DEF IdsGiven
<1>15. ASSUME intact, Sound
       PROVE  Sound'
  <2>1. CASE pc \in {"closed", "panicked"}
    BY <1>2, <1>15, <2>1 DEF Sound, Progress
  <2>2. CASE pc \notin {"closed", "panicked"}
    <3> DEFINE S == Segments(left, wire, building)
    <3>1. InLine
      BY <1>15, <2>2 DEF Sound
    <3>2. ASSUME NEW p \in Payload, p.id < nextSubStreamId
          PROVE  Follows(p, q)
      BY <1>6, <1>11, <3>2 DEF Follows, Payload
    <3>3. \A p \in Payload :
            (p \in Readers(streamConsumers) \/ \E c \in Cells(S) : p = At(S, c)) => Follows(p, q)
      BY <1>1, <1>3, <3>2, LineIds
    <3>4. \A x \in streamProducers : x.type # q.type => x.id # q.id
      BY <1>6, <1>11
    <3>5. UNCHANGED <<left, wire, streamConsumers, sending>>
      BY <1>2
    <3>6. Begun(q)
      BY <1>6 DEF Begun
    <3>7. new.id = q.id /\ new.type = q.type /\ new.written = q.means
      BY <1>6, <1>7
    <3>8. InLine'
      BY <1>1, <1>2, <1>6, <1>7, <1>8, <1>10, <3>1, <3>3, <3>4, <3>5, <3>6, <3>7, LineWrite
    <3> QED
      BY <1>2, <1>15, <3>8 DEF Sound, Progress
  <2> QED
    BY <2>1, <2>2
<1> QED
  BY <1>1, <1>2, <1>12, <1>13, <1>14, <1>15 DEF Delivering

LEMMA DeliveringSend == Delivering /\ SendBatch => Delivering'
<1> SUFFICES ASSUME Delivering, SendBatch PROVE Delivering'
  OBVIOUS
<1>1. Typed /\ Typed' /\ TypeOK /\ TypeOK'
  BY TypedSend DEF Delivering, Typed
<1>2. /\ sending /\ building' = <<>>
      /\ UNCHANGED <<schema, values, streamProducers, nextSubStreamId, sending, receiverVars>>
  BY DEF SendBatch
<1>3. PICK b : b.payloads = building /\ wire' = Append(wire, b) /\ b \in Batch
  <2>1. PICK h \in Headers :
          wire' = Append(wire, [id |-> batchId, payloads |-> building, header |-> h,
                                literal |-> h > hpackEncoder])
    BY DEF SendBatch
  <2> DEFINE b == [id |-> batchId, payloads |-> building, header |-> h,
                   literal |-> h > hpackEncoder]
  <2>2. /\ batchId \in 0..MaxBatches /\ building \in Seq(Payload)
        /\ h \in 0..MaxHeaders
    <3>1. /\ batchId \in 0..MaxBatches /\ building \in Seq(Payload)
          /\ hpackEncoder \in 0..MaxHeaders
      BY <1>1 DEF TypeOK, ProducerTypeOK
    <3>2. h \in 0..MaxHeaders
      BY <3>1, StreamAssumption DEF Headers
    <3> QED
      BY <3>1, <3>2
  <2>3. b \in Batch
    BY <2>2 DEF Batch
  <2> QED
    BY <2>1, <2>3
<1>4. /\ left \in Seq(Payload) /\ wire \in Seq(Batch) /\ building \in Seq(Payload)
      /\ wire' \in Seq(Batch) /\ <<>> \in Seq(Payload)
  BY <1>1, EmptySeq DEF TypeOK, ProducerTypeOK, ReceiverTypeOK
<1>5. /\ Len(wire) \in Nat /\ Len(wire') = Len(wire) + 1
      /\ wire'[Len(wire) + 1] = b
      /\ \A k \in 1..Len(wire) : wire'[k] = wire[k]
  BY <1>3, <1>4, AppendProperties, LenProperties
<1>6. WritersInStep' /\ DistinctIds'
  BY <1>2 DEF Delivering, WritersInStep, DistinctIds
<1>7. IdsGiven'
  <2>1. Numbered(building', nextSubStreamId')
    BY <1>2, EmptySeq DEF Numbered
  <2>2. IdsGiven
    BY DEF Delivering
  <2>3. ASSUME NEW k \in 1..Len(wire')
        PROVE  Numbered(wire'[k].payloads, nextSubStreamId')
    <3>1. k \in 1..Len(wire) \/ k = Len(wire) + 1
      BY <1>5
    <3> QED
      BY <1>2, <1>3, <1>5, <2>2, <3>1 DEF IdsGiven
  <2> QED
    BY <1>2, <2>1, <2>2, <2>3 DEF IdsGiven
<1>8. ASSUME InLine
      PROVE  InLine'
  <2> DEFINE S == Segments(left, wire, building)
             T == Segments(left, wire', <<>>)
             R == Readers(streamConsumers)
             W == Writers(IF sending THEN streamProducers ELSE {})
  <2>1. LaidOut(S, left, wire, building) /\ LaidOut(T, left, wire', <<>>)
    BY <1>4, Laid
  <2>2. Linked(S, R, W)
    BY <1>8 DEF InLine
  <2>3. InLine' <=> Linked(T, R, W)
    BY <1>2 DEF InLine
  <2> HIDE DEF S, T, R, W
  <2>4. Len(T) = Len(S) + 1 /\ T[Len(T)] = <<>>
    BY <1>5, <2>1 DEF LaidOut
  <2>5. ASSUME NEW k \in 1..Len(S)
        PROVE  T[k] = S[k]
    <3>1. k = 1 \/ k \in 2..(Len(wire) + 1) \/ k = Len(wire) + 2
      BY <2>1 DEF LaidOut
    <3>2. CASE k = 1
      BY <2>1, <3>2 DEF LaidOut
    <3>3. CASE k \in 2..(Len(wire) + 1)
      <4>1. \A i, n \in Nat : i \in 2..(n + 1) => i - 1 \in 1..n /\ i \in 2..(n + 1 + 1)
        OBVIOUS
      <4>2. k \in Nat /\ Len(wire) \in Nat
        BY <1>5, <3>3
      <4>3. k - 1 \in 1..Len(wire) /\ k \in 2..(Len(wire') + 1)
        BY <1>5, <3>3, <4>1, <4>2
      <4>4. T[k] = wire'[k - 1].payloads /\ S[k] = wire[k - 1].payloads
        BY <2>1, <3>3, <4>3 DEF LaidOut
      <4> QED
        BY <1>5, <4>3, <4>4
    <3>4. CASE k = Len(wire) + 2
      <4>1. k \in 2..(Len(wire') + 1) /\ k - 1 = Len(wire) + 1
        BY <1>5, <3>4
      <4>2. T[k] = wire'[k - 1].payloads /\ S[k] = building
        BY <2>1, <3>4, <4>1 DEF LaidOut
      <4> QED
        BY <1>3, <1>5, <4>1, <4>2
    <3> QED
      BY <3>1, <3>2, <3>3, <3>4
  <2>6. S \in Seq(Seq(Payload)) /\ T \in Seq(Seq(Payload))
    BY <2>1 DEF LaidOut
  <2>7. Linked(T, R, W)
    BY <2>2, <2>4, <2>5, <2>6, LinkedSend
  <2> QED
    BY <2>3, <2>7
<1>9. (intact => Sound)'
  BY <1>2, <1>8 DEF Delivering, Sound, Progress
<1> QED
  BY <1>1, <1>6, <1>7, <1>9 DEF Delivering

LEMMA DeliveringEnd == Delivering /\ EndSending => Delivering'
<1> SUFFICES ASSUME Delivering, EndSending PROVE Delivering'
  OBVIOUS
<1>1. Typed /\ Typed' /\ TypeOK
  BY TypedEnd DEF Delivering, Typed
<1>2. /\ ~sending' /\ building' = <<>> /\ streamProducers' = {}
      /\ UNCHANGED <<nextSubStreamId, wire, receiverVars>>
  BY DEF EndSending
<1>3. /\ left \in Seq(Payload) /\ wire \in Seq(Batch)
      /\ building \in Seq(Payload) /\ <<>> \in Seq(Payload)
  BY <1>1, EmptySeq DEF TypeOK, ProducerTypeOK, ReceiverTypeOK
<1>4. WritersInStep' /\ DistinctIds'
  BY <1>2 DEF Delivering, WritersInStep, DistinctIds
<1>5. IdsGiven'
  BY <1>2, EmptySeq DEF Delivering, IdsGiven, Numbered
<1>6. ASSUME InLine
      PROVE  InLine'
  <2> DEFINE S == Segments(left, wire, building)
             T == Segments(left, wire, <<>>)
             R == Readers(streamConsumers)
             W == Writers(IF sending THEN streamProducers ELSE {})
  <2>1. LaidOut(S, left, wire, building) /\ LaidOut(T, left, wire, <<>>)
    BY <1>3, Laid
  <2>2. Linked(S, R, W)
    BY <1>6 DEF InLine
  <2>3. InLine' <=> Linked(T, R, {})
    BY <1>2 DEF InLine, Writers
  <2> HIDE DEF S, T, R, W
  <2>4. /\ Len(T) = Len(S) /\ T[Len(S)] = <<>> /\ S # <<>>
        /\ S \in Seq(Seq(Payload)) /\ T \in Seq(Seq(Payload))
    BY <2>1 DEF LaidOut
  <2>5. ASSUME NEW k \in 1..(Len(S) - 1)
        PROVE  T[k] = S[k]
    <3>1. k = 1 \/ k \in 2..(Len(wire) + 1)
      BY <2>1 DEF LaidOut
    <3> QED
      BY <2>1, <3>1 DEF LaidOut
  <2>6. Linked(T, R, {})
    BY <2>2, <2>4, <2>5, LinkedDrop
  <2> QED
    BY <2>3, <2>6
<1>7. (intact => Sound)'
  BY <1>2, <1>6 DEF Delivering, Sound, Progress
<1> QED
  BY <1>1, <1>4, <1>5, <1>7 DEF Delivering

-----------------------------------------------------------------------------
(***************************************************************************)
(* The receiver's steps.                                                   *)
(***************************************************************************)

LEMMA NumberedTail ==
  ASSUME NEW s \in Seq(Payload), s # <<>>, NEW n \in Nat, Numbered(s, n)
  PROVE  Head(s).id < n /\ Numbered(Tail(s), n)
<1>1. /\ Len(s) \in Nat \ {0} /\ Head(s) = s[1]
      /\ Len(Tail(s)) = Len(s) - 1 /\ \A i \in 1..Len(Tail(s)) : Tail(s)[i] = s[i + 1]
  BY LenProperties, EmptySeq, HeadTailProperties
<1>2. ASSUME NEW i \in 1..Len(Tail(s))
      PROVE  Tail(s)[i].id < n
  <2>1. i + 1 \in 1..Len(s)
    BY <1>1
  <2> QED
    BY <1>1, <2>1 DEF Numbered
<1> QED
  BY <1>1, <1>2 DEF Numbered

LEMMA DeliveringReceive == Delivering /\ (Reject \/ Accept) => Delivering'
<1> SUFFICES ASSUME Delivering, Reject \/ Accept PROVE Delivering'
  OBVIOUS
<1>1. Typed /\ Typed' /\ TypeOK
  BY TypedReceive DEF Delivering, Typed
<1>2. PICK b \in ToSet(wire) :
        Receive(b) /\ left' \in {<<>>, b.payloads} /\ req' = left'
  BY DEF Reject, Accept
<1>3. /\ pc = "recv" /\ wire # <<>> /\ b = Head(wire) /\ wire' = Tail(wire)
      /\ req' = left' /\ ibes' = <<>>
      /\ UNCHANGED <<producerVars, streamConsumers>>
  BY <1>2 DEF Receive
<1>4. /\ left \in Seq(Payload) /\ wire \in Seq(Batch) /\ building \in Seq(Payload)
      /\ wire' \in Seq(Batch) /\ nextSubStreamId \in Nat
  BY <1>1, <1>3, HeadTailProperties DEF TypeOK, ProducerTypeOK, ReceiverTypeOK
<1>5. /\ Len(wire) \in Nat \ {0} /\ Len(wire') = Len(wire) - 1 /\ b = wire[1] /\ b \in Batch
      /\ \A k \in 1..Len(wire') : wire'[k] = wire[k + 1]
  BY <1>3, <1>4, LenProperties, EmptySeq, HeadTailProperties
<1>6. WritersInStep' /\ DistinctIds'
  BY <1>3 DEF Delivering, WritersInStep, DistinctIds
<1>7. IdsGiven'
  <2>1. IdsGiven
    BY DEF Delivering
  <2>2. Numbered(b.payloads, nextSubStreamId)
    BY <1>5, <2>1 DEF IdsGiven
  <2>3. Numbered(left', nextSubStreamId')
    BY <1>2, <1>3, <2>2, EmptySeq DEF Numbered
  <2>4. ASSUME NEW k \in 1..Len(wire')
        PROVE  Numbered(wire'[k].payloads, nextSubStreamId')
    <3>1. k + 1 \in 1..Len(wire)
      BY <1>5
    <3> QED
      BY <1>3, <1>5, <2>1, <3>1 DEF IdsGiven
  <2> QED
    BY <1>3, <2>1, <2>3, <2>4 DEF IdsGiven
<1>8. ASSUME InLine, left = <<>>, left' = b.payloads
      PROVE  InLine'
  <2> DEFINE S == Segments(left, wire, building)
             T == Segments(b.payloads, wire', building)
             R == Readers(streamConsumers)
             W == Writers(IF sending THEN streamProducers ELSE {})
  <2>1. b.payloads \in Seq(Payload)
    BY <1>5 DEF Batch
  <2>2. LaidOut(S, left, wire, building) /\ LaidOut(T, b.payloads, wire', building)
    BY <1>4, <2>1, Laid
  <2>3. Linked(S, R, W)
    BY <1>8 DEF InLine
  <2>4. InLine' <=> Linked(T, R, W)
    BY <1>3, <1>8 DEF InLine
  <2> HIDE DEF S, T, R, W
  <2>5. /\ Len(T) = Len(S) - 1 /\ S # <<>> /\ S[1] = <<>>
        /\ S \in Seq(Seq(Payload)) /\ T \in Seq(Seq(Payload))
    BY <1>5, <1>8, <2>2 DEF LaidOut
  <2>6. ASSUME NEW k \in 1..Len(T)
        PROVE  T[k] = S[k + 1]
    <3>1. /\ Len(wire') = Len(wire) - 1 /\ Len(wire) \in Nat \ {0}
          /\ Len(T) = Len(wire) + 1 /\ k \in Nat
      BY <1>5, <2>2 DEF LaidOut
    <3>2. k = 1 \/ k \in 2..Len(wire) \/ k = Len(wire) + 1
      BY <3>1
    <3>3. CASE k = 1
      <4>1. k + 1 \in 2..(Len(wire) + 1) /\ (k + 1) - 1 = 1
        BY <3>1, <3>3
      <4>2. S[k + 1] = wire[1].payloads
        BY <2>2, <4>1 DEF LaidOut
      <4> QED
        BY <1>5, <2>2, <3>3, <4>2 DEF LaidOut
    <3>4. CASE k \in 2..Len(wire)
      <4>1. /\ k + 1 \in 2..(Len(wire) + 1) /\ (k + 1) - 1 = k
            /\ k \in 2..(Len(wire') + 1) /\ k - 1 \in 1..Len(wire') /\ (k - 1) + 1 = k
        BY <3>1, <3>4
      <4>2. S[k + 1] = wire[k].payloads /\ T[k] = wire'[k - 1].payloads
        BY <2>2, <4>1 DEF LaidOut
      <4>3. wire'[k - 1] = wire[k]
        BY <1>5, <4>1
      <4> QED
        BY <4>2, <4>3
    <3>5. CASE k = Len(wire) + 1
      <4>1. k = Len(wire') + 2 /\ k + 1 = Len(wire) + 2
        BY <3>1, <3>5
      <4> QED
        BY <2>2, <4>1 DEF LaidOut
    <3> QED
      BY <3>2, <3>3, <3>4, <3>5
  <2>7. Linked(T, R, W)
    BY <2>3, <2>5, <2>6, LinkedReceive
  <2> QED
    BY <2>4, <2>7
<1>9. ASSUME intact'
      PROVE  Sound'
  <2>1. /\ intact /\ left' = b.payloads /\ outcome' = "none"
        /\ pc' \in {"consume", "closed"}
    <3>1. CASE Reject
      BY <1>9, <3>1 DEF Reject
    <3>2. CASE Accept
      BY <1>3, <1>9, <3>2 DEF Accept, Receive
    <3> QED
      BY <3>1, <3>2
  <2>2. Sound
    BY <2>1 DEF Delivering
  <2>3. left = <<>> /\ InLine
    BY <1>3, <2>2 DEF Sound
  <2>4. InLine'
    BY <1>8, <2>1, <2>3
  <2>5. Progress'
    <3>1. b.payloads \in Seq(Payload) /\ Len(b.payloads) \in Nat /\ Len(<<>>) = 0
      BY <1>5, LenProperties, EmptySeq DEF Batch
    <3> QED
      BY <1>3, <2>1, <3>1 DEF Progress
  <2> QED
    BY <1>3, <2>1, <2>2, <2>4, <2>5 DEF Sound
<1> QED
  BY <1>1, <1>6, <1>7, <1>9 DEF Delivering

\* The next payload can be read: its reader is there or it carries its schema, and
\* what it means is what its reader has with the values it brings.
LEMMA NextPayload ==
  ASSUME Typed, Sound, pc = "consume", left # <<>>
  PROVE  LET p == Head(left) IN
           /\ p \in Payload
           /\ First \in Cells(Segments(left, wire, building))
           /\ At(Segments(left, wire, building), First) = p
           /\ ~PanicsOnCleanup(p) /\ CanOpen(p)
           /\ ConsumerOf(p).id = p.id /\ ConsumerOf(p).type = p.type
           /\ Extended(ConsumerOf(p), p) = p.means
           /\ Others(p) = {sc \in streamConsumers : sc.type # p.type}
<1> DEFINE p == Head(left)
           S == Segments(left, wire, building)
           R == Readers(streamConsumers)
           W == Writers(IF sending THEN streamProducers ELSE {})
<1>1. TypeOK /\ OneSubStreamPerType
  BY DEF Typed
<1>2. /\ left \in Seq(Payload) /\ wire \in Seq(Batch) /\ building \in Seq(Payload)
      /\ streamConsumers \in SUBSET Consumer /\ streamProducers \in SUBSET Producer
  BY <1>1 DEF TypeOK, ProducerTypeOK, ReceiverTypeOK
<1>3. p \in Payload /\ p = left[1] /\ Len(left) \in Nat \ {0}
  BY <1>2, HeadTailProperties, EmptySeq
<1>4. LaidOut(S, left, wire, building)
  BY <1>2, Laid
<1>5. Linked(S, R, W)
  BY DEF Sound, InLine
<1>6. R \in SUBSET Payload /\ W \in SUBSET Payload
  BY <1>2, EndTypes
<1>7. First \in Cells(S) /\ At(S, First) = p
  <2> HIDE DEF S, p
  <2>1. First[1] = 1 /\ First[2] = 1 /\ First \in Nat \X Nat
    BY DEF First
  <2>2. 1 \in 1..Len(S) /\ 1 \in 1..Len(S[1]) /\ S[1] = left
    BY <1>3, <1>4 DEF LaidOut
  <2> QED
    BY <1>3, <2>1, <2>2 DEF Cells, At
<1>8. \/ Begun(p) /\ \A r \in R : r.id # p.id
      \/ \E r \in R : Extends(r, p) /\ r.type = p.type
  <2> HIDE DEF S, R, W, p
  <2>1. S \in Seq(Seq(Payload))
    BY <1>4 DEF LaidOut
  <2> QED
    BY <1>5, <1>6, <1>7, <2>1, HeadOfChain
<1>9. \A sc \in streamConsumers : sc.reader = "open"
  BY DEF Sound
<1>10. ~PanicsOnCleanup(p)
  BY <1>9 DEF PanicsOnCleanup, Stale
<1>11. \A a, b \in streamConsumers : a.type = b.type => a = b
  BY <1>1 DEF OneSubStreamPerType
<1>12. CASE Begun(p) /\ \A r \in R : r.id # p.id
  <2>1. Known(p) = {}
    <3> SUFFICES ASSUME NEW x \in streamConsumers, x.id = p.id PROVE FALSE
      BY DEF Known
    <3>1. Reading(x) \in R /\ Reading(x).id = p.id
      BY DEF Readers, Reading
    <3> HIDE DEF R, S, W, p
    <3> QED
      BY <1>12, <3>1
  <2>2. ConsumerOf(p) = NewConsumer(p) /\ Others(p) = streamConsumers \ Stale(p)
    BY <1>3, <2>1, ConsumerTypes
  <2>3. CanOpen(p)
    BY <1>12 DEF CanOpen, Begun
  <2>4. p.delta \in Seq(Value) /\ p.delta = p.means
    BY <1>3, <1>12 DEF Payload, Begun
  <2>5. Extended(ConsumerOf(p), p) = p.means
    <3>1. ConsumerOf(p).dictionary = <<>>
      BY <2>2 DEF NewConsumer
    <3>2. <<>> \o p.delta = p.delta
      BY <2>4, ConcatEmptySeq
    <3> QED
      BY <2>4, <3>1, <3>2 DEF Extended
  <2>6. ConsumerOf(p).id = p.id /\ ConsumerOf(p).type = p.type
    BY <2>2 DEF NewConsumer
  <2>7. Others(p) = {sc \in streamConsumers : sc.type # p.type}
    BY <2>2 DEF Stale
  <2> QED
    BY <1>3, <1>7, <1>10, <2>3, <2>5, <2>6, <2>7
<1>13. CASE \E r \in R : Extends(r, p) /\ r.type = p.type
  <2>1. PICK sc \in streamConsumers : Extends(Reading(sc), p) /\ Reading(sc).type = p.type
    BY <1>13 DEF Readers
  <2>2. sc.id = p.id /\ sc.type = p.type /\ sc.dictionary \o p.delta = p.means
    BY <2>1 DEF Extends, Reading
  <2>3. sc \in Known(p)
    BY <2>2 DEF Known
  <2>4. \A x \in Known(p) : x = sc
    <3> SUFFICES ASSUME NEW x \in Known(p) PROVE x = sc
      OBVIOUS
    <3>1. x \in streamConsumers /\ x.id = p.id
      BY DEF Known
    <3>2. Follows(Reading(x), p)
      <4>1. Reading(x) \in R
        BY <3>1 DEF Readers
      <4> HIDE DEF R, S, W, p
      <4> QED
        BY <1>5, <1>7, <4>1 DEF Linked, Ordered
    <3>3. x.type = p.type
      BY <3>1, <3>2 DEF Follows, Reading
    <3> QED
      BY <1>11, <2>2, <3>1, <3>3
  <2>5. ConsumerOf(p) = sc /\ Known(p) = {sc}
    <3>1. Known(p) = {sc}
      BY <2>3, <2>4
    <3>2. ConsumerOf(p) \in Known(p)
      BY <3>1 DEF ConsumerOf
    <3> QED
      BY <3>1, <3>2
  <2>6. Others(p) = streamConsumers \ {sc}
    BY <2>5 DEF Others
  <2>7. Others(p) = {x \in streamConsumers : x.type # p.type}
    BY <1>11, <2>2, <2>6
  <2>8. CanOpen(p)
    BY <1>9, <2>5 DEF CanOpen
  <2>9. Extended(ConsumerOf(p), p) = p.means
    BY <2>2, <2>5 DEF Extended
  <2> QED
    BY <1>3, <1>7, <1>10, <2>2, <2>5, <2>7, <2>8, <2>9
<1> QED
  BY <1>8, <1>12, <1>13

LEMMA DeliveringRead == Delivering /\ ReadRecord => Delivering'
<1> SUFFICES ASSUME Delivering, ReadRecord PROVE Delivering'
  OBVIOUS
<1> DEFINE p == Head(left)
           dict == Extended(ConsumerOf(p), p)
           new == [ConsumerOf(p) EXCEPT !.reader = "open", !.dictionary = dict]
<1>1. Typed /\ Typed' /\ TypeOK /\ TypeOK'
  BY TypedConsume DEF Delivering, Typed
<1>2. /\ pc = "consume" /\ left # <<>> /\ left' = Tail(left)
      /\ streamConsumers' = Others(p) \cup {new}
      /\ UNCHANGED <<producerVars, wire, hpackDecoder, pc, req, outcome, data, intact>>
  BY DEF ReadRecord
<1>3. PICK row \in 0..Len(p.means) :
        ibes' = Append(ibes, [type |-> p.type, row |-> row, dictionary |-> dict])
  <2>1. p \in Payload
    BY <1>1, <1>2, HeadTailProperties DEF TypeOK, ReceiverTypeOK
  <2> QED
    BY <2>1, RowsInRange DEF ReadRecord
<1>4. /\ left \in Seq(Payload) /\ wire \in Seq(Batch) /\ building \in Seq(Payload)
      /\ left' \in Seq(Payload) /\ ibes \in Seq(RecordMessage) /\ req \in Seq(Payload)
      /\ streamConsumers \in SUBSET Consumer /\ streamProducers \in SUBSET Producer
      /\ nextSubStreamId \in Nat
  BY <1>1 DEF TypeOK, ProducerTypeOK, ReceiverTypeOK
<1>5. /\ p \in Payload /\ Len(left) \in Nat \ {0} /\ p = left[1]
      /\ Len(left') = Len(left) - 1 /\ \A i \in 1..Len(left') : left'[i] = left[i + 1]
  BY <1>2, <1>4, HeadTailProperties, EmptySeq
<1>6. WritersInStep' /\ DistinctIds'
  BY <1>2 DEF Delivering, WritersInStep, DistinctIds
<1>7. IdsGiven'
  <2>1. IdsGiven
    BY DEF Delivering
  <2>2. p.id < nextSubStreamId /\ Numbered(left', nextSubStreamId')
    BY <1>2, <1>4, <2>1, NumberedTail DEF IdsGiven
  <2>3. ConsumerOf(p) \in Consumer /\ ConsumerOf(p).id = p.id /\ Others(p) \subseteq streamConsumers
    BY <1>1, <1>5, ConsumerTypes
  <2>4. new.id = p.id
    BY <2>3 DEF Consumer
  <2> HIDE DEF p, new
  <2>5. \A sc \in streamConsumers' : sc.id < nextSubStreamId'
    BY <1>2, <2>1, <2>2, <2>3, <2>4 DEF IdsGiven
  <2> QED
    BY <1>2, <2>1, <2>2, <2>5 DEF IdsGiven
<1>8. ASSUME intact
      PROVE  Sound'
  <2>1. Sound /\ Progress /\ InLine
    BY <1>2, <1>8 DEF Delivering, Sound
  <2> DEFINE S == Segments(left, wire, building)
             T == Segments(left', wire, building)
             R == Readers(streamConsumers)
             W == Writers(IF sending THEN streamProducers ELSE {})
             n == Reading(new)
  <2>2. /\ First \in Cells(S) /\ At(S, First) = p
        /\ ConsumerOf(p).id = p.id /\ ConsumerOf(p).type = p.type
        /\ dict = p.means
        /\ Others(p) = {sc \in streamConsumers : sc.type # p.type}
    BY <1>1, <1>2, <2>1, NextPayload
  <2>3. new \in Consumer /\ new.id = p.id /\ new.type = p.type /\ new.dictionary = p.means
        /\ new.reader = "open"
    <3>1. ConsumerOf(p) \in Consumer
      BY <1>1, <1>5, ConsumerTypes
    <3>2. dict \in Seq(Value)
      BY <1>5, <2>2 DEF Payload
    <3> HIDE DEF p, dict
    <3> QED
      BY <2>2, <3>1, <3>2 DEF Consumer
  <2>4. /\ n \in Payload /\ n.id = p.id /\ n.type = p.type /\ n.means = p.means
    <3> HIDE DEF p, new
    <3> QED
      BY <2>3, EndTypes DEF Reading
  <2>5. InLine'
    <3>1. LaidOut(S, left, wire, building) /\ LaidOut(T, left', wire, building)
      BY <1>4, Laid
    <3>2. Linked(S, R, W)
      BY <2>1 DEF InLine
    <3>3. InLine' <=> Linked(T, Readers(streamConsumers'), W)
      BY <1>2 DEF InLine
    <3>4. R \in SUBSET Payload /\ W \in SUBSET Payload
      BY <1>4, EndTypes
    <3>5. \A a, b \in R : a.type = b.type => a = b
      <4> SUFFICES ASSUME NEW x \in streamConsumers, NEW y \in streamConsumers,
                          Reading(x).type = Reading(y).type
                   PROVE  x = y
        BY DEF Readers
      <4>1. x.type = y.type
        BY DEF Reading
      <4> QED
        BY <1>1, <4>1 DEF Typed, OneSubStreamPerType
    <3>6. Readers(streamConsumers') = {r \in R : r.type # n.type} \cup {n}
      <4>1. streamConsumers' = {sc \in streamConsumers : sc.type # p.type} \cup {new}
        BY <1>2, <2>2
      <4>2. n = Reading(new) /\ n.type = p.type
        BY <2>4
      <4> HIDE DEF new, n, p
      <4> QED
        BY <4>1, <4>2 DEF Readers, Reading
    <3> HIDE DEF S, T, R, W, n, p, new
    <3>7. /\ S \in Seq(Seq(Payload)) /\ T \in Seq(Seq(Payload)) /\ Len(T) = Len(S)
          /\ T[1] = Tail(S[1])
      BY <1>2, <3>1 DEF LaidOut
    <3>8. ASSUME NEW k \in 2..Len(S)
          PROVE  T[k] = S[k]
      <4>1. k \in 2..(Len(wire) + 1) \/ k = Len(wire) + 2
        BY <3>1 DEF LaidOut
      <4> QED
        BY <3>1, <4>1 DEF LaidOut
    <3>9. n.id = At(S, First).id /\ n.type = At(S, First).type /\ n.means = At(S, First).means
      BY <2>2, <2>4
    <3>10. Linked(T, {r \in R : r.type # n.type} \cup {n}, W)
      BY <2>2, <2>4, <3>2, <3>4, <3>5, <3>7, <3>8, <3>9, LinkedRead
    <3> QED
      BY <3>3, <3>6, <3>10
  <2>6. Progress'
    <3> DEFINE m == [type |-> p.type, row |-> row, dictionary |-> dict]
    <3>1. m.type = p.type /\ m.row <= Len(p.means) /\ m.dictionary = p.means
      <4>1. Len(p.means) \in Nat
        BY <1>5, LenProperties DEF Payload
      <4> QED
        BY <2>2, <4>1
    <3>2. m \in RecordMessage /\ ibes' = Append(ibes, m)
      <4>1. Len(p.means) \in Nat /\ p.means \in Seq(Value) /\ p.type \in PayloadType
        BY <1>5, LenProperties DEF Payload
      <4>2. row \in Nat
        BY <4>1
      <4> QED
        BY <1>3, <2>2, <4>1, <4>2 DEF RecordMessage
    <3> HIDE DEF m, p, dict
    <3>3. /\ Len(ibes) \in Nat /\ Len(ibes') = Len(ibes) + 1
          /\ \A i \in 1..Len(ibes) : ibes'[i] = ibes[i]
          /\ ibes'[Len(ibes) + 1] = m
      BY <1>4, <3>2, AppendProperties, LenProperties
    <3>4. p = req[Len(ibes) + 1]
      BY <1>5, <2>1 DEF Progress
    <3>5. Len(ibes') + Len(left') = Len(req)
      <4>1. \A a, b \in Nat : (a + 1) + (b - 1) = a + b
        OBVIOUS
      <4>2. Len(ibes) + Len(left) = Len(req)
        BY <2>1 DEF Progress
      <4> QED
        BY <1>5, <3>3, <4>1, <4>2
    <3>6. ASSUME NEW i \in 1..Len(left')
          PROVE  left'[i] = req[Len(ibes') + i]
      <4>1. i + 1 \in 1..Len(left) /\ Len(ibes) + (i + 1) = Len(ibes') + i
        BY <1>5, <3>3
      <4>2. left[i + 1] = req[Len(ibes) + (i + 1)]
        BY <2>1, <4>1 DEF Progress
      <4> QED
        BY <1>5, <4>1, <4>2
    <3>7. ASSUME NEW i \in 1..Len(ibes')
          PROVE  /\ ibes'[i].type = req[i].type
                 /\ ibes'[i].dictionary = req[i].means
                 /\ ibes'[i].row <= Len(req[i].means)
      <4>1. i \in 1..Len(ibes) \/ i = Len(ibes) + 1
        BY <3>3
      <4> QED
        BY <2>1, <3>1, <3>3, <3>4, <4>1 DEF Progress
    <3> QED
      BY <1>2, <3>5, <3>6, <3>7 DEF Progress
  <2>7. \A sc \in streamConsumers' : sc.reader = "open"
    <3>1. Others(p) \subseteq streamConsumers
      BY <2>2
    <3> HIDE DEF p, new
    <3> QED
      BY <1>2, <2>1, <2>3, <3>1 DEF Sound
  <2> QED
    BY <1>2, <2>1, <2>5, <2>6, <2>7 DEF Sound
<1> QED
  BY <1>1, <1>2, <1>6, <1>7, <1>8 DEF Delivering

\* While nothing was rejected or skipped, the reader never lacks its schema.
LEMMA DeliveringSkip == Delivering /\ (OpenFails \/ SkipRecord) => Delivering'
<1> SUFFICES ASSUME Delivering, OpenFails \/ SkipRecord PROVE Delivering'
  OBVIOUS
<1> DEFINE p == Head(left)
<1>1. Typed /\ Typed' /\ TypeOK
  BY TypedConsume DEF Delivering, Typed
<1>2. /\ pc = "consume" /\ left # <<>> /\ left' \in {<<>>, Tail(left)}
      /\ UNCHANGED <<producerVars, wire>>
  BY DEF OpenFails, SkipRecord, Dropped
<1>3. /\ left \in Seq(Payload) /\ nextSubStreamId \in Nat /\ p \in Payload
  BY <1>1, <1>2, HeadTailProperties DEF TypeOK, ProducerTypeOK, ReceiverTypeOK
<1>4. PICK new : new.id = ConsumerOf(p).id /\ streamConsumers' = Others(p) \cup {new}
  <2>1. CASE OpenFails
    BY <2>1 DEF OpenFails
  <2>2. CASE SkipRecord
    <3>1. ConsumerOf(p) \in Consumer
      BY <1>1, <1>3, ConsumerTypes
    <3>2. [ConsumerOf(p) EXCEPT !.reader = "failed"].id = ConsumerOf(p).id
      BY <3>1 DEF Consumer
    <3>3. streamConsumers' = Others(p) \cup {[ConsumerOf(p) EXCEPT !.reader = "failed"]}
      BY <2>2 DEF SkipRecord
    <3> QED
      BY <3>2, <3>3
  <2> QED
    BY <2>1, <2>2
<1>5. WritersInStep' /\ DistinctIds'
  BY <1>2 DEF Delivering, WritersInStep, DistinctIds
<1>6. IdsGiven'
  <2>1. IdsGiven
    BY DEF Delivering
  <2>2. p.id < nextSubStreamId /\ Numbered(Tail(left), nextSubStreamId)
    BY <1>2, <1>3, <2>1, NumberedTail DEF IdsGiven
  <2>3. Numbered(left', nextSubStreamId')
    BY <1>2, <2>2, EmptySeq DEF Numbered
  <2>4. ConsumerOf(p).id = p.id /\ Others(p) \subseteq streamConsumers
    BY <1>1, <1>3, ConsumerTypes
  <2> HIDE DEF p
  <2>5. \A sc \in streamConsumers' : sc.id < nextSubStreamId'
    BY <1>2, <1>4, <2>1, <2>2, <2>4 DEF IdsGiven
  <2> QED
    BY <1>2, <2>1, <2>3, <2>5 DEF IdsGiven
<1>7. ~intact'
  <2>1. CASE SkipRecord
    BY <2>1 DEF SkipRecord
  <2>2. CASE OpenFails
    <3> SUFFICES ASSUME intact PROVE FALSE
      BY <2>2 DEF OpenFails
    <3>1. Sound
      BY DEF Delivering
    <3>2. CanOpen(p)
      BY <1>1, <1>2, <3>1, NextPayload
    <3> QED
      BY <2>2, <3>2 DEF OpenFails
  <2> QED
    BY <2>1, <2>2
<1> QED
  BY <1>1, <1>5, <1>6, <1>7 DEF Delivering

\* What was read of a batch, all of it read, is what the producer encoded.
LEMMA BatchDelivered ==
  ASSUME TypeOK, Sound, left = <<>>, pc \in {"consume", "respond"}
  PROVE  Delivered /\ (pc = "consume" => outcome # "invalid")
<1>1. Progress /\ (pc = "consume" => outcome = "none")
  BY DEF Sound
<1>2. ibes \in Seq(RecordMessage) /\ req \in Seq(Payload)
  BY DEF TypeOK, ReceiverTypeOK
<1>3. DOMAIN ibes = 1..Len(ibes) /\ Len(ibes) \in Nat /\ Len(<<>>) = 0
  BY <1>2, LenProperties, EmptySeq
<1>4. Len(ibes) = Len(req)
  BY <1>1, <1>3 DEF Progress
<1> QED
  BY <1>1, <1>3, <1>4 DEF Delivered, Progress

LEMMA DeliveringQuiet == Delivering /\ Quiet => Delivering'
<1> SUFFICES ASSUME Delivering, Quiet PROVE Delivering'
  OBVIOUS
<1>1. Typed /\ Typed' /\ TypeOK
  BY TypedQuiet DEF Delivering, Typed
<1>2. /\ UNCHANGED <<producerVars, wire, hpackDecoder, intact>>
      /\ streamConsumers' \in {streamConsumers, {}} /\ left' \in {left, <<>>}
  BY DEF Quiet, RecvFails, CleanUpPanics, RowPanics, DecodePanics, Decode, Respond,
         RespondFails, NothingLeft, Dropped
<1>3. WritersInStep' /\ DistinctIds' /\ IdsGiven'
  BY <1>2, EmptySeq DEF Delivering, WritersInStep, DistinctIds, IdsGiven, Numbered
<1>4. ASSUME intact
      PROVE  Sound'
  <2>1. Sound
    BY <1>4 DEF Delivering
  <2>2. CASE RecvFails \/ RespondFails
    BY <2>1, <2>2 DEF Sound, RecvFails, RespondFails, NothingLeft
  <2>3. CASE Respond \/ Decode
    <3>1. /\ left = <<>> /\ left' = <<>> /\ UNCHANGED streamConsumers
          /\ pc \in {"consume", "respond"} /\ pc' \in {"recv", "respond"}
      BY <2>1, <2>3 DEF Sound, Respond, Decode, Dropped
    <3>2. InLine'
      BY <1>2, <2>1, <3>1 DEF Sound, InLine
    <3>3. pc' = "respond" => Progress'
      <4> SUFFICES ASSUME pc' = "respond" PROVE Progress'
        OBVIOUS
      <4>1. CASE UNCHANGED <<req, left, ibes>>
        BY <2>1, <3>1, <4>1 DEF Sound, Progress
      <4>2. CASE Dropped
        BY <4>2, EmptySeq DEF Dropped, Progress
      <4> QED
        BY <2>3, <4>1, <4>2 DEF Respond, Decode
    <3>4. outcome' = "invalid" => data' = "fails"
      <4> SUFFICES ASSUME outcome' = "invalid" PROVE data' = "fails"
        OBVIOUS
      <4>1. Decode /\ pc = "consume"
        BY <2>3 DEF Respond, Decode
      <4>2. Delivered
        BY <1>1, <2>1, <3>1, BatchDelivered
      <4> QED
        BY <4>1, <4>2 DEF Decode, Finds
    <3> QED
      BY <2>1, <3>1, <3>2, <3>3, <3>4 DEF Sound
  <2>4. CASE DecodePanics
    <3>1. pc = "consume" /\ left = <<>>
      BY <2>4 DEF DecodePanics
    <3>2. Delivered
      BY <1>1, <2>1, <3>1, BatchDelivered
    <3>3. data' = "panics" /\ pc' = "panicked" /\ NothingLeft
      BY <2>4, <3>2 DEF DecodePanics, Finds
    <3> QED
      BY <3>3 DEF Sound, NothingLeft
  <2>5. CASE CleanUpPanics
    BY <1>1, <2>1, <2>5, NextPayload DEF CleanUpPanics
  <2>6. CASE RowPanics
    <3>1. PICK i \in DOMAIN ibes : ~InDictionary(ibes[i])
      BY <2>6 DEF RowPanics
    <3>2. Progress
      BY <2>1, <2>6 DEF Sound, RowPanics
    <3>3. DOMAIN ibes = 1..Len(ibes)
      BY <1>1, LenProperties DEF TypeOK, ReceiverTypeOK
    <3> QED
      BY <3>1, <3>2, <3>3 DEF Progress, InDictionary
  <2> QED
    BY <2>2, <2>3, <2>4, <2>5, <2>6 DEF Quiet
<1> QED
  BY <1>1, <1>2, <1>3, <1>4 DEF Delivering

LEMMA DeliveringStutter == Delivering /\ UNCHANGED vars => Delivering'
<1> SUFFICES ASSUME Delivering, UNCHANGED vars PROVE Delivering'
  OBVIOUS
<1>1. Typed'
  BY TypedStutter DEF Delivering
<1>2. WritersInStep' /\ DistinctIds' /\ IdsGiven'
  BY DEF Delivering, WritersInStep, DistinctIds, IdsGiven
<1>3. (intact => Sound)'
  BY DEF Delivering, Sound, Progress, InLine
<1> QED
  BY <1>1, <1>2, <1>3 DEF Delivering

LEMMA DeliveringNext == Delivering /\ [Next]_vars => Delivering'
<1> SUFFICES ASSUME Delivering, [Next]_vars PROVE Delivering'
  OBVIOUS
<1>1. ASSUME NEW t \in PayloadType, ContinueSubStream(t) \/ StartSubStream(t)
      PROVE  Delivering'
  BY <1>1, DeliveringContinue, DeliveringStart
<1>2. CASE ProducerNext
  BY <1>1, <1>2, DeliveringSend, DeliveringEnd DEF ProducerNext
<1>3. CASE ReceiverNext
  BY <1>3, DeliveringReceive, DeliveringRead, DeliveringSkip, DeliveringQuiet
     DEF ReceiverNext, Quiet
<1> QED
  BY <1>2, <1>3, DeliveringStutter DEF Next

LEMMA DeliveringTheorem == Spec => []Delivering
<1> QED
  BY DeliveringInit, DeliveringNext, PTL DEF Spec

\* OkMeansDelivered: when the receiver answers OK, each payload of the batch was
\* read and its rows mean what the producer encoded, however far the producer runs
\* ahead, as long as no batch is rejected and no record skipped.
THEOREM OkIsDelivered == Spec => []OkMeansDelivered
<1>1. Delivering => OkMeansDelivered
  <2> SUFFICES ASSUME Delivering, intact, pc = "respond" PROVE Delivered
    BY DEF OkMeansDelivered
  <2>1. Typed /\ TypeOK /\ Sound
    BY DEF Delivering, Typed
  <2>2. left = <<>>
    BY <2>1 DEF Sound
  <2> QED
    BY <2>1, <2>2, BatchDelivered
<1> QED
  BY <1>1, DeliveringTheorem, PTL

\* GoodBatchAccepted: until a batch is rejected or a record skipped, a batch is
\* called invalid or takes the collector down only for what the decoder finds in
\* the batch's own data, whatever the schemas, the dictionaries and the earlier
\* batches; data that the decoder did not take among them.
THEOREM GoodBatches == Spec => []GoodBatchAccepted
<1>1. Delivering => GoodBatchAccepted
  BY DEF Delivering, Sound, GoodBatchAccepted
<1> QED
  BY <1>1, DeliveringTheorem, PTL

-----------------------------------------------------------------------------
(***************************************************************************)
(* Both ends of a sub-stream.                                              *)
(***************************************************************************)

LEMMA DeltasUnfold ==
  ASSUME NEW s \in Seq(Payload), NEW id
  PROVE  Deltas(s, id) = [n \in 0..Len(s) |->
           IF n = 0 THEN <<>>
           ELSE IF s[n].id = id THEN Deltas(s, id)[n - 1] \o s[n].delta
           ELSE Deltas(s, id)[n - 1]]
<1> DEFINE Brought(f, n) ==
             f = [i \in 0..n |->
                    IF i = 0 THEN <<>>
                    ELSE IF s[i].id = id THEN f[i - 1] \o s[i].delta
                    ELSE f[i - 1]]
           G == {n \in 0..Len(s) : \E f : Brought(f, n)}
<1>1. Len(s) \in Nat
  BY LenProperties
<1>2. 0 \in G
  <2>1. Brought([i \in 0..0 |-> <<>>], 0)
    OBVIOUS
  <2>2. \E f : Brought(f, 0)
    BY <2>1
  <2> HIDE DEF Brought
  <2> QED
    BY <1>1, <2>2
<1>3. ASSUME NEW n \in 1..Len(s), n - 1 \in G PROVE n \in G
  <2>1. PICK f : Brought(f, n - 1)
    BY <1>3
  <2> DEFINE next == IF s[n].id = id THEN f[n - 1] \o s[n].delta ELSE f[n - 1]
             g == [i \in 0..n |-> IF i = n THEN next ELSE f[i]]
  <2>2. \A i \in 0..n : g[i] = IF i = 0 THEN <<>>
                               ELSE IF s[i].id = id THEN g[i - 1] \o s[i].delta
                               ELSE g[i - 1]
    <3> SUFFICES ASSUME NEW i \in 0..n
                 PROVE  g[i] = IF i = 0 THEN <<>>
                               ELSE IF s[i].id = id THEN g[i - 1] \o s[i].delta
                               ELSE g[i - 1]
      OBVIOUS
    <3>1. CASE i = n
      <4>1. g[i] = next /\ g[i - 1] = f[n - 1] /\ i # 0
        BY <1>1, <3>1
      <4> QED
        BY <3>1, <4>1
    <3>2. CASE i # n
      <4>1. i \in 0..(n - 1) /\ g[i] = f[i] /\ (i # 0 => g[i - 1] = f[i - 1])
        BY <1>1, <3>2
      <4> HIDE DEF g
      <4> QED
        BY <2>1, <4>1
    <3> QED
      BY <3>1, <3>2
  <2>3. Brought(g, n)
    BY <2>2
  <2>4. \E h : Brought(h, n)
    BY <2>3
  <2> HIDE DEF Brought
  <2> QED
    BY <1>1, <2>4
<1>4. Len(s) \in G
  <2> HIDE DEF G
  <2>1. 0..Len(s) \subseteq G
    BY <1>1, <1>2, <1>3, Induction
  <2> QED
    BY <1>1, <2>1
<1> QED
  BY <1>4 DEF Deltas

LEMMA AllDeltasUnfold ==
  ASSUME NEW S \in Seq(Seq(Payload)), NEW id
  PROVE  AllDeltas(S, id) = [k \in 0..Len(S) |->
           IF k = 0 THEN <<>>
           ELSE AllDeltas(S, id)[k - 1] \o Deltas(S[k], id)[Len(S[k])]]
<1> DEFINE Brought(f, n) ==
             f = [i \in 0..n |->
                    IF i = 0 THEN <<>> ELSE f[i - 1] \o Deltas(S[i], id)[Len(S[i])]]
           G == {n \in 0..Len(S) : \E f : Brought(f, n)}
<1>1. Len(S) \in Nat
  BY LenProperties
<1>2. 0 \in G
  <2>1. Brought([i \in 0..0 |-> <<>>], 0)
    OBVIOUS
  <2>2. \E f : Brought(f, 0)
    BY <2>1
  <2> HIDE DEF Brought
  <2> QED
    BY <1>1, <2>2
<1>3. ASSUME NEW n \in 1..Len(S), n - 1 \in G PROVE n \in G
  <2>1. PICK f : Brought(f, n - 1)
    BY <1>3
  <2> DEFINE next == f[n - 1] \o Deltas(S[n], id)[Len(S[n])]
             g == [i \in 0..n |-> IF i = n THEN next ELSE f[i]]
  <2>2. \A i \in 0..n :
          g[i] = IF i = 0 THEN <<>> ELSE g[i - 1] \o Deltas(S[i], id)[Len(S[i])]
    <3> SUFFICES ASSUME NEW i \in 0..n
                 PROVE  g[i] = IF i = 0 THEN <<>>
                               ELSE g[i - 1] \o Deltas(S[i], id)[Len(S[i])]
      OBVIOUS
    <3>1. CASE i = n
      <4>1. g[i] = next /\ g[i - 1] = f[n - 1] /\ i # 0
        <5> HIDE DEF next
        <5>1. n - 1 \in 0..n /\ n - 1 # n /\ n # 0
          BY <1>1
        <5> QED
          BY <3>1, <5>1
      <4> QED
        BY <3>1, <4>1
    <3>2. CASE i # n
      <4>1. i \in 0..(n - 1) /\ g[i] = f[i] /\ (i # 0 => g[i - 1] = f[i - 1])
        BY <1>1, <3>2
      <4> HIDE DEF g
      <4> QED
        BY <2>1, <4>1
    <3> QED
      BY <3>1, <3>2
  <2>3. Brought(g, n)
    BY <2>2
  <2>4. \E h : Brought(h, n)
    BY <2>3
  <2> HIDE DEF Brought
  <2> QED
    BY <1>1, <2>4
<1>4. Len(S) \in G
  <2> HIDE DEF G
  <2>1. 0..Len(S) \subseteq G
    BY <1>1, <1>2, <1>3, Induction
  <2> QED
    BY <1>1, <2>1
<1> QED
  BY <1>4 DEF AllDeltas

\* What is known of a sub-stream, d, after the payloads P of it: all that any
\* of them means, and no more.
Reached(P, d) ==
  /\ d \in Seq(Value)
  /\ \A p \in P : Len(p.means) <= Len(d) /\ \A i \in 1..Len(p.means) : p.means[i] = d[i]
  /\ IF P = {} THEN d = <<>> ELSE \E p \in P : p.means = d

\* The next payload of the sub-stream completes it.
LEMMA Joined ==
  ASSUME NEW P \in SUBSET Payload, NEW d, Reached(P, d), NEW q \in Payload,
         \A p \in P : p.id = q.id /\ Follows(p, q),
         Begun(q) \/ \E p \in P : Extends(p, q)
  PROVE  d \o q.delta = q.means /\ Reached(P \cup {q}, q.means)
<1>1. /\ d \in Seq(Value) /\ q.delta \in Seq(Value) /\ q.means \in Seq(Value)
      /\ \A p \in P : p.means \in Seq(Value)
  BY DEF Reached, Payload
<1>2. /\ Len(d) \in Nat /\ Len(q.delta) \in Nat /\ Len(q.means) \in Nat
      /\ \A p \in P : Len(p.means) \in Nat
  BY <1>1, LenProperties
<1>3. d \o q.delta = q.means
  <2>1. CASE P = {}
    <3>1. d = <<>> /\ q.delta = q.means
      BY <2>1 DEF Reached, Begun
    <3> QED
      BY <1>1, <3>1, ConcatEmptySeq
  <2>2. CASE P # {}
    <3>1. PICK y \in P : y.means = d
      BY <2>2 DEF Reached
    <3>2. ~q.schema /\ Len(d) + Len(q.delta) <= Len(q.means)
      BY <3>1 DEF Follows
    <3>3. PICK x \in P : Extends(x, q)
      BY <3>2 DEF Begun
    <3>4. x.means \o q.delta = q.means
      BY <3>3 DEF Extends
    <3>5. Len(q.means) = Len(x.means) + Len(q.delta)
      <4>1. Len(x.means \o q.delta) = Len(x.means) + Len(q.delta)
        BY <1>1, ConcatProperties
      <4> QED
        BY <3>4, <4>1
    <3>6. Len(x.means) <= Len(d) /\ \A i \in 1..Len(x.means) : x.means[i] = d[i]
      BY DEF Reached
    <3>7. Len(x.means) = Len(d)
      BY <1>2, <3>2, <3>5, <3>6
    <3>8. x.means = d
      BY <1>1, <3>6, <3>7, SeqEqual
    <3> QED
      BY <3>4, <3>8
  <2> QED
    BY <2>1, <2>2
<1>4. /\ Len(q.means) = Len(d) + Len(q.delta)
      /\ \A i \in 1..Len(d) : q.means[i] = d[i]
  <2>1. /\ Len(d \o q.delta) = Len(d) + Len(q.delta)
        /\ \A i \in 1..(Len(d) + Len(q.delta)) :
             (d \o q.delta)[i] = IF i <= Len(d) THEN d[i] ELSE q.delta[i - Len(d)]
    BY <1>1, ConcatProperties
  <2>2. \A i \in 1..Len(d) : i \in 1..(Len(d) + Len(q.delta)) /\ i <= Len(d)
    BY <1>2
  <2> QED
    BY <1>3, <2>1, <2>2
<1>5. ASSUME NEW p \in P
      PROVE  Len(p.means) <= Len(q.means) /\ \A i \in 1..Len(p.means) : p.means[i] = q.means[i]
  <2>1. Len(p.means) <= Len(d) /\ \A i \in 1..Len(p.means) : p.means[i] = d[i]
    BY DEF Reached
  <2>2. Len(p.means) \in Nat
    BY <1>2
  <2>3. Len(p.means) <= Len(q.means)
    BY <1>2, <1>4, <2>1, <2>2
  <2>4. ASSUME NEW i \in 1..Len(p.means) PROVE p.means[i] = q.means[i]
    <3>1. i \in 1..Len(d)
      BY <1>2, <2>1, <2>2
    <3> QED
      BY <1>4, <2>1, <3>1
  <2> QED
    BY <2>3, <2>4
<1> QED
  BY <1>1, <1>2, <1>3, <1>5 DEF Reached

\* The payloads of a sub-stream up to place n of segment k, readers included.
Own(S, R, id, k, n) ==
  {r \in R : r.id = id} \cup
  {At(S, c) : c \in {b \in Cells(S) : /\ b[1] < k \/ (b[1] = k /\ b[2] <= n)
                                      /\ At(S, b).id = id}}

LEMMA OwnTypes ==
  ASSUME NEW S \in Seq(Seq(Payload)), NEW R \in SUBSET Payload, NEW id, NEW k, NEW n
  PROVE  /\ Own(S, R, id, k, n) \in SUBSET Payload
         /\ \A p \in Own(S, R, id, k, n) : p.id = id
BY CellTypes DEF Own

LEMMA OneMore ==
  ASSUME NEW S \in Seq(Seq(Payload)), NEW R \in SUBSET Payload, NEW W, Linked(S, R, W),
         NEW id, NEW k \in 1..Len(S), NEW n \in 1..Len(S[k]),
         NEW d, Reached(Own(S, R, id, k, n - 1), d)
  PROVE  Reached(Own(S, R, id, k, n),
                 IF S[k][n].id = id THEN d \o S[k][n].delta ELSE d)
<1> DEFINE b == <<k, n>>
           q == S[k][n]
           P == Own(S, R, id, k, n - 1)
<1>1. k \in Nat /\ n \in Nat \ {0} /\ S[k] \in Seq(Payload)
  BY LenProperties, ElementOfSeq
<1>2. b \in Cells(S) /\ At(S, b) = q /\ q \in Payload /\ b[1] = k /\ b[2] = n
  <2>1. b \in Cells(S) /\ At(S, b) = q
    BY <1>1 DEF Cells, At
  <2> QED
    BY <2>1, CellTypes
<1>3. ASSUME NEW c \in Cells(S)
      PROVE  /\ c[1] \in Nat /\ c[2] \in Nat
             /\ c[1] < k \/ (c[1] = k /\ c[2] <= n - 1) <=> Before(c, b)
             /\ c[1] < k \/ (c[1] = k /\ c[2] <= n) <=> Before(c, b) \/ c = b
  <2>1. c \in Nat \X Nat
    BY DEF Cells
  <2>2. c[1] \in Nat /\ c[2] \in Nat /\ c = <<c[1], c[2]>>
    BY <2>1
  <2>3. c = b <=> c[1] = k /\ c[2] = n
    BY <2>2
  <2> HIDE DEF b
  <2> QED
    BY <1>1, <1>2, <2>2, <2>3 DEF Before
<1> HIDE DEF b, q
<1>4. P = {r \in R : r.id = id} \cup
          {At(S, c) : c \in {c \in Cells(S) : Before(c, b) /\ At(S, c).id = id}}
  BY <1>3 DEF Own
<1>5. Own(S, R, id, k, n) = IF q.id = id THEN P \cup {q} ELSE P
  <2> DEFINE C == {c \in Cells(S) : Before(c, b) /\ At(S, c).id = id}
             E == {c \in Cells(S) : (Before(c, b) \/ c = b) /\ At(S, c).id = id}
  <2>1. Own(S, R, id, k, n) = {r \in R : r.id = id} \cup {At(S, c) : c \in E}
    BY <1>3 DEF Own
  <2>2. E = IF q.id = id THEN C \cup {b} ELSE C
    BY <1>2
  <2>3. P = {r \in R : r.id = id} \cup {At(S, c) : c \in C}
    BY <1>4
  <2> HIDE DEF P, C, E
  <2> QED
    BY <1>2, <2>1, <2>2, <2>3
<1>6. CASE q.id # id
  BY <1>5, <1>6 DEF q
<1>7. CASE q.id = id
  <2>1. \A p \in P : p.id = q.id /\ Follows(p, q)
    BY <1>2, <1>4, <1>7 DEF Linked, Ordered
  <2>2. Begun(q) \/ \E p \in P : Extends(p, q)
    BY <1>2, <1>4, <1>7 DEF Linked, Rooted, Extends
  <2>3. P \in SUBSET Payload
    BY OwnTypes
  <2> HIDE DEF P
  <2>4. d \o q.delta = q.means /\ Reached(P \cup {q}, q.means)
    <3>1. Reached(P, d)
      BY DEF P
    <3> QED
      BY <1>2, <2>1, <2>2, <2>3, <3>1, Joined
  <2> QED
    BY <1>5, <1>7, <2>4 DEF q
<1> QED
  BY <1>6, <1>7

LEMMA PayloadTypes ==
  ASSUME NEW s \in Seq(Payload), NEW n \in 1..Len(s)
  PROVE  s[n] \in Payload /\ s[n].delta \in Seq(Value)
<1>1. s[n] \in Payload
  BY ElementOfSeq
<1> QED
  BY <1>1 DEF Payload

LEMMA Concatenated ==
  ASSUME NEW a \in Seq(Value), NEW b \in Seq(Value), NEW c \in Seq(Value)
  PROVE  b \o c \in Seq(Value) /\ (a \o b) \o c = a \o (b \o c)
BY ConcatProperties, ConcatAssociative

LEMMA Segment ==
  ASSUME NEW S \in Seq(Seq(Payload)), NEW R \in SUBSET Payload, NEW W, Linked(S, R, W),
         NEW id, NEW k \in 1..Len(S), NEW d, Reached(Own(S, R, id, k, 0), d)
  PROVE  /\ Deltas(S[k], id)[Len(S[k])] \in Seq(Value)
         /\ Reached(Own(S, R, id, k, Len(S[k])), d \o Deltas(S[k], id)[Len(S[k])])
<1> DEFINE s == S[k]
           D == Deltas(s, id)
           G == {n \in 0..Len(s) :
                   D[n] \in Seq(Value) /\ Reached(Own(S, R, id, k, n), d \o D[n])}
<1>1. s \in Seq(Payload) /\ Len(s) \in Nat /\ d \in Seq(Value)
  BY ElementOfSeq, LenProperties DEF Reached
<1>2. /\ D[0] = <<>>
      /\ \A n \in 1..Len(s) :
           D[n] = IF s[n].id = id THEN D[n - 1] \o s[n].delta ELSE D[n - 1]
  <2> HIDE DEF s
  <2>1. D = [n \in 0..Len(s) |->
               IF n = 0 THEN <<>>
               ELSE IF s[n].id = id THEN D[n - 1] \o s[n].delta
               ELSE D[n - 1]]
    BY <1>1, DeltasUnfold
  <2> HIDE DEF D
  <2>2. ASSUME NEW n \in 0..Len(s)
        PROVE  D[n] = IF n = 0 THEN <<>>
                      ELSE IF s[n].id = id THEN D[n - 1] \o s[n].delta
                      ELSE D[n - 1]
    BY <2>1, Zenon
  <2>3. 0 \in 0..Len(s) /\ \A n \in 1..Len(s) : n \in 0..Len(s) /\ n # 0
    BY <1>1
  <2> QED
    BY <2>2, <2>3
<1> HIDE DEF D
<1>3. 0 \in G
  <2>1. d \o <<>> = d /\ <<>> \in Seq(Value)
    BY <1>1, ConcatEmptySeq, EmptySeq
  <2>2. D[0] \in Seq(Value) /\ Reached(Own(S, R, id, k, 0), d \o D[0])
    BY <1>2, <2>1
  <2>3. 0 \in 0..Len(s)
    BY <1>1
  <2> QED
    BY <2>2, <2>3
<1>4. ASSUME NEW n \in 1..Len(s), n - 1 \in G PROVE n \in G
  <2>1. s[n] \in Payload /\ s[n].delta \in Seq(Value)
    BY <1>1, PayloadTypes
  <2>2. D[n - 1] \in Seq(Value) /\ Reached(Own(S, R, id, k, n - 1), d \o D[n - 1])
    BY <1>4
  <2>3. Reached(Own(S, R, id, k, n),
                IF s[n].id = id THEN (d \o D[n - 1]) \o s[n].delta ELSE d \o D[n - 1])
    BY <2>2, OneMore
  <2>4. /\ D[n - 1] \o s[n].delta \in Seq(Value)
        /\ (d \o D[n - 1]) \o s[n].delta = d \o (D[n - 1] \o s[n].delta)
    BY <1>1, <2>1, <2>2, Concatenated, Zenon
  <2>5. D[n] \in Seq(Value) /\ Reached(Own(S, R, id, k, n), d \o D[n])
    <3>1. CASE s[n].id = id
      BY <1>2, <2>3, <2>4, <3>1
    <3>2. CASE s[n].id # id
      BY <1>2, <2>2, <2>3, <3>2
    <3> QED
      BY <3>1, <3>2
  <2>6. n \in 0..Len(s)
    BY <1>1
  <2> QED
    BY <2>5, <2>6
<1>5. Len(s) \in G
  <2>1. Len(s) \in Nat /\ Len(s) \in 0..Len(s)
    BY <1>1
  <2> HIDE DEF G, s
  <2>2. 0..Len(s) \subseteq G
    BY <1>3, <1>4, <2>1, Induction
  <2> QED
    BY <2>1, <2>2
<1> QED
  BY <1>5 DEF D

LEMMA AllSegments ==
  ASSUME NEW S \in Seq(Seq(Payload)), NEW R \in SUBSET Payload, NEW W, Linked(S, R, W),
         NEW id, NEW d, Reached({r \in R : r.id = id}, d)
  PROVE  Reached({r \in R : r.id = id} \cup
                   {At(S, c) : c \in {b \in Cells(S) : At(S, b).id = id}},
                 d \o AllDeltas(S, id)[Len(S)])
<1> DEFINE A == AllDeltas(S, id)
           G == {k \in 0..Len(S) :
                   A[k] \in Seq(Value) /\ Reached(Own(S, R, id, k + 1, 0), d \o A[k])}
<1>1. Len(S) \in Nat /\ d \in Seq(Value)
  BY LenProperties DEF Reached
<1>2. /\ A[0] = <<>>
      /\ \A k \in 1..Len(S) : A[k] = A[k - 1] \o Deltas(S[k], id)[Len(S[k])]
  <2>1. A = [k \in 0..Len(S) |->
               IF k = 0 THEN <<>> ELSE A[k - 1] \o Deltas(S[k], id)[Len(S[k])]]
    BY AllDeltasUnfold
  <2> HIDE DEF A
  <2>2. ASSUME NEW k \in 0..Len(S)
        PROVE  A[k] = IF k = 0 THEN <<>> ELSE A[k - 1] \o Deltas(S[k], id)[Len(S[k])]
    BY <2>1, Zenon
  <2>3. 0 \in 0..Len(S) /\ \A k \in 1..Len(S) : k \in 0..Len(S) /\ k # 0
    BY <1>1
  <2> QED
    BY <2>2, <2>3
<1> HIDE DEF A
<1>3. \A c \in Cells(S) : /\ c[1] \in 1..Len(S) /\ c[2] \in Nat \ {0}
                          /\ c[2] <= Len(S[c[1]])
  <2>1. \A k \in 1..Len(S) : Len(S[k]) \in Nat
    BY ElementOfSeq, LenProperties
  <2> QED
    BY <2>1 DEF Cells
<1>4. 0 \in G
  <2>1. Own(S, R, id, 1, 0) = {r \in R : r.id = id}
    BY <1>1, <1>3 DEF Own
  <2>2. d \o <<>> = d /\ <<>> \in Seq(Value)
    BY <1>1, ConcatEmptySeq, EmptySeq
  <2>3. A[0] \in Seq(Value) /\ Reached(Own(S, R, id, 0 + 1, 0), d \o A[0])
    <3>1. 0 + 1 = 1
      OBVIOUS
    <3> QED
      BY <1>2, <2>1, <2>2, <3>1
  <2> QED
    BY <1>1, <2>3
<1>5. ASSUME NEW k \in 1..Len(S), k - 1 \in G PROVE k \in G
  <2> DEFINE B == Deltas(S[k], id)[Len(S[k])]
  <2>1. A[k - 1] \in Seq(Value) /\ Reached(Own(S, R, id, k, 0), d \o A[k - 1])
    <3>1. (k - 1) + 1 = k
      BY <1>1
    <3> QED
      BY <1>5, <3>1
  <2>2. B \in Seq(Value) /\ Reached(Own(S, R, id, k, Len(S[k])), (d \o A[k - 1]) \o B)
    BY <2>1, Segment
  <2> HIDE DEF B
  <2>3. /\ A[k - 1] \o B \in Seq(Value)
        /\ (d \o A[k - 1]) \o B = d \o (A[k - 1] \o B)
    BY <1>1, <2>1, <2>2, Concatenated, Zenon
  <2>4. A[k] = A[k - 1] \o B
    BY <1>2 DEF B
  <2>5. Own(S, R, id, k + 1, 0) = Own(S, R, id, k, Len(S[k]))
    <3>1. ASSUME NEW c \in Cells(S)
          PROVE  c[1] < k + 1 \/ (c[1] = k + 1 /\ c[2] <= 0)
                   <=> c[1] < k \/ (c[1] = k /\ c[2] <= Len(S[k]))
      <4>1. c[1] \in Nat /\ c[2] \in Nat \ {0} /\ c[2] <= Len(S[c[1]]) /\ k \in Nat
        BY <1>1, <1>3
      <4>2. \A x, y \in Nat : x < y + 1 <=> x < y \/ x = y
        OBVIOUS
      <4>3. ~(c[2] <= 0)
        BY <4>1
      <4> QED
        BY <4>1, <4>2, <4>3
    <3> QED
      BY <3>1 DEF Own
  <2>6. k \in 0..Len(S)
    BY <1>1
  <2> QED
    BY <2>2, <2>3, <2>4, <2>5, <2>6
<1>6. Len(S) \in G
  <2> HIDE DEF G
  <2>1. 0..Len(S) \subseteq G
    BY <1>1, <1>4, <1>5, Induction
  <2> QED
    BY <1>1, <2>1
<1>7. Own(S, R, id, Len(S) + 1, 0)
        = {r \in R : r.id = id} \cup
          {At(S, c) : c \in {b \in Cells(S) : At(S, b).id = id}}
  BY <1>1, <1>3 DEF Own
<1>8. Reached(Own(S, R, id, Len(S) + 1, 0), d \o A[Len(S)])
  BY <1>6
<1> QED
  BY <1>7, <1>8 DEF A

\* What a reader has and what is in flight lead up to what the writer has written.
LEMMA WriterReached ==
  ASSUME Delivering, intact, sending, pc \notin {"closed", "panicked"},
         NEW sp \in streamProducers
  PROVE  ReadSoFar(sp.id) \o DeltasInFlight(sp.id) = sp.written
<1> DEFINE S == InFlight
           R == Readers(streamConsumers)
           W == Writers(streamProducers)
           w == Writing(sp)
           d == ReadSoFar(sp.id)
           own == {r \in R : r.id = sp.id}
           P == own \cup {At(S, c) : c \in {b \in Cells(S) : At(S, b).id = sp.id}}
<1>1. /\ left \in Seq(Payload) /\ wire \in Seq(Batch) /\ building \in Seq(Payload)
      /\ streamConsumers \in SUBSET Consumer /\ streamProducers \in SUBSET Producer
      /\ \A a, b \in streamConsumers : a.type = b.type => a = b
  BY DEF Delivering, Typed, TypeOK, ProducerTypeOK, ReceiverTypeOK, OneSubStreamPerType
<1>2. S \in Seq(Seq(Payload)) /\ R \in SUBSET Payload /\ w \in W /\ w \in Payload
  <2>1. LaidOut(S, left, wire, building)
    BY <1>1, Laid DEF InFlight
  <2> QED
    BY <1>1, <2>1, EndTypes DEF LaidOut, Writers
<1>3. Linked(S, R, W)
  BY DEF Delivering, Sound, InLine, InFlight
<1>4. w.id = sp.id /\ w.type = sp.type /\ w.delta = <<>> /\ w.means = sp.written
  BY DEF Writing
<1>5. Reached(own, d)
  <2>1. ASSUME NEW a \in streamConsumers, a.id = sp.id
        PROVE  /\ a.type = sp.type /\ a.dictionary \in Seq(Value)
               /\ Reading(a).id = a.id /\ Reading(a).means = a.dictionary
    <3>1. Reading(a) \in R /\ Reading(a).id = a.id /\ Reading(a).type = a.type
          /\ Reading(a).means = a.dictionary
      BY DEF Readers, Reading
    <3> HIDE DEF S, R, W, w
    <3>2. Follows(Reading(a), w)
      BY <1>2, <1>3, <3>1 DEF Linked, Ordered
    <3> QED
      BY <1>1, <1>4, <2>1, <3>1, <3>2 DEF Follows, Consumer
  <2>2. CASE \E sc \in streamConsumers : sc.id = sp.id
    <3>1. PICK sc \in streamConsumers : sc.id = sp.id
      BY <2>2
    <3>2. \A a \in streamConsumers : a.id = sp.id => a = sc
      BY <1>1, <2>1, <3>1
    <3>3. d = sc.dictionary
      BY <3>1, <3>2 DEF ReadSoFar
    <3>4. own = {Reading(sc)}
      <4>1. Reading(sc) \in own
        BY <2>1, <3>1 DEF Readers
      <4>2. ASSUME NEW r \in own PROVE r = Reading(sc)
        <5>1. PICK a \in streamConsumers : r = Reading(a)
          BY DEF Readers
        <5>2. a.id = sp.id
          BY <5>1 DEF Reading
        <5> QED
          BY <3>2, <5>1, <5>2
      <4> HIDE DEF own
      <4> QED
        BY <4>1, <4>2
    <3>5. Reading(sc).means = d /\ d \in Seq(Value) /\ Len(d) \in Nat
      BY <2>1, <3>1, <3>3, LenProperties
    <3> HIDE DEF own, d
    <3> QED
      BY <3>4, <3>5 DEF Reached
  <2>3. CASE ~\E sc \in streamConsumers : sc.id = sp.id
    <3>1. d = <<>>
      BY <2>3 DEF ReadSoFar
    <3>2. own = {}
      BY <2>3 DEF Readers, Reading
    <3> QED
      BY <3>1, <3>2, EmptySeq DEF Reached
  <2> QED
    BY <2>2, <2>3
<1> HIDE DEF S, R, W, w, d
<1>6. Reached(P, d \o AllDeltas(S, sp.id)[Len(S)])
  BY <1>2, <1>3, <1>5, AllSegments
<1>7. P \in SUBSET Payload /\ \A p \in P : p.id = w.id
  BY <1>2, <1>4, CellTypes
<1>8. \A p \in P : Follows(p, w)
  BY <1>2, <1>3 DEF Linked, Ordered
<1>9. \E p \in P : Extends(p, w)
  BY <1>2, <1>3, <1>4 DEF Linked, Rooted, Extends
<1> DEFINE e == d \o AllDeltas(S, sp.id)[Len(S)]
<1>10. e \o w.delta = w.means
  <2>1. Reached(P, e)
    BY <1>6
  <2> HIDE DEF e, P
  <2> QED
    BY <1>2, <1>7, <1>8, <1>9, <2>1, Joined
<1>11. e \o <<>> = e
  <2>1. e \in Seq(Value)
    BY <1>6 DEF Reached
  <2> HIDE DEF e
  <2> QED
    BY <2>1, ConcatEmptySeq
<1>12. e = sp.written
  BY <1>4, <1>10, <1>11
<1> QED
  BY <1>12 DEF e, d, S, DeltasInFlight

\* DictionariesInStep: however far the producer runs ahead and however often its
\* schemas change, what a reader has and what is in flight make up what the writer
\* has written, until a batch is rejected or a record skipped.
THEOREM Dictionaries == Spec => []DictionariesInStep
<1>1. Delivering => DictionariesInStep
  BY WriterReached DEF DictionariesInStep
<1> QED
  BY <1>1, DeliveringTheorem, PTL
=============================================================================
