------------------------ MODULE ArrowExporterProofs ------------------------
(***************************************************************************)
(* Theorems about ArrowExporter for every set of streams and calls, every  *)
(* number of streams and every setting: where streams and items are, what  *)
(* becomes of batches and calls, and how streams and channels end.         *)
(***************************************************************************)
EXTENDS ArrowExporter, ExporterContract, TLAPS, SequenceTheorems, FiniteSetTheorems

USE DEF vars, streamVars, controlVars, callVars

-----------------------------------------------------------------------------
(***************************************************************************)
(* Type correctness.                                                       *)
(***************************************************************************)

LEMMA TypeInit == Init => TypeOK
<1> SUFFICES ASSUME Init PROVE TypeOK
  OBVIOUS
<1> USE ExporterAssumption DEF Init
<1>1. StreamTypeOK
  BY DEF StreamTypeOK, NoBatches
<1>2. ControlTypeOK
  <2>1. <<>> \in Seq(Stream)
    BY EmptySeq
  <2>2. downgraded \in BOOLEAN
    BY Zenon
  <2> QED
    BY <2>1, <2>2 DEF ControlTypeOK
<1>3. CallTypeOK
  BY DEF CallTypeOK
<1> QED
  BY <1>1, <1>2, <1>3 DEF TypeOK

LEMMA TypeController == TypeOK /\ ControllerNext => TypeOK'
<1> SUFFICES ASSUME TypeOK, ControllerNext PROVE TypeOK'
  OBVIOUS
<1> USE DEF TypeOK, StreamTypeOK, ControlTypeOK, CallTypeOK
<1>1. CASE SpawnInitialStreams
  BY <1>1, ExporterAssumption DEF SpawnInitialStreams, Spawn, Counted, Reusable
<1>2. CASE RestartStream
  BY <1>2, FS_Singleton DEF RestartStream, Spawn, Counted, Reusable
<1>3. CASE AbandonStream
  BY <1>3 DEF AbandonStream, LastStreamDowngrades
<1>4. CASE ControllerStops
  BY <1>4 DEF ControllerStops
<1> QED
  BY <1>1, <1>2, <1>3, <1>4 DEF ControllerNext

LEMMA TypeRunner == ASSUME NEW s \in Stream PROVE TypeOK /\ RunnerNext(s) => TypeOK'
<1> SUFFICES ASSUME TypeOK, RunnerNext(s) PROVE TypeOK'
  OBVIOUS
<1> USE DEF TypeOK, StreamTypeOK, ControlTypeOK, CallTypeOK
<1>1. CASE Dial(s)
  BY <1>1 DEF Dial
<1>2. CASE Connect(s)
  BY <1>2 DEF Connect
<1>3. CASE ConnectFails(s)
  BY <1>3 DEF ConnectFails
<1>4. CASE ReceiveSomeStatus(s)
  <2>0. PICK ids \in SUBSET {id \in BatchId : sent[s][id] # NoRequest} :
          \E code \in [ids -> StatusCode], stray \in BOOLEAN :
            ReceiveStatus(s, ids, code, stray)
    BY <1>4 DEF ReceiveSomeStatus
  <2>a. PICK code \in [ids -> StatusCode], stray \in BOOLEAN :
          ReceiveStatus(s, ids, code, stray)
    BY <2>0
  <2>b. /\ spc' = spc /\ cancelled' = cancelled
        \/ StopReading(s, "stopping")
    BY <2>a DEF ReceiveStatus
  <2>c. /\ waiters' = [waiters EXCEPT ![s] =
              [id \in BatchId |-> IF id \in ids THEN NoRequest ELSE @[id]]]
        /\ sent' = [sent EXCEPT ![s] =
              [id \in BatchId |-> IF id \in ids THEN NoRequest ELSE @[id]]]
        /\ UNCHANGED <<wpc, client, toWrite, item, batchId, alternate>>
    BY <2>a DEF ReceiveStatus
  <2>d. /\ waiters' \in [Stream -> [BatchId -> Request \cup {NoRequest}]]
        /\ sent' \in [Stream -> [BatchId -> Request \cup {NoRequest}]]
    BY <2>c
  <2>e. spc[s] = "read"
    BY <2>a DEF ReceiveStatus
  <2>1. StreamTypeOK'
    BY <2>b, <2>c, <2>d, <2>e DEF StopReading
  <2>2. ControlTypeOK'
    BY <2>a DEF ReceiveStatus
  <2>3. errCh' \in [Request -> Answer \cup {"empty"}]
    BY <2>a DEF ReceiveStatus, AnswerFor, Answer
  <2>4. verdict' \in [Request -> SUBSET (StatusCode \cup {"UNENCODABLE"})]
    BY <2>a DEF ReceiveStatus
  <2> QED
    BY <2>a, <2>1, <2>2, <2>3, <2>4 DEF ReceiveStatus
<1>5. CASE ReceiveError(s)
  BY <1>5 DEF ReceiveError, StopReading
<1>6. CASE Finish(s)
  BY <1>6 DEF Finish, Outstanding, NoBatches, Answer
<1>7. CASE Return(s)
  BY <1>7 DEF Return
<1> QED
  BY <1>1, <1>2, <1>3, <1>4, <1>5, <1>6, <1>7 DEF RunnerNext

LEMMA TypeWriter == ASSUME NEW s \in Stream PROVE TypeOK /\ WriterNext(s) => TypeOK'
<1> SUFFICES ASSUME TypeOK, WriterNext(s) PROVE TypeOK'
  OBVIOUS
<1> USE DEF TypeOK, StreamTypeOK, ControlTypeOK, CallTypeOK
<1>1. CASE SetReady(s)
  BY <1>1 DEF SetReady
<1>2. CASE TakeItem(s)
  BY <1>2 DEF TakeItem
<1>3. CASE SeeContextDone(s)
  BY <1>3 DEF SeeContextDone, RemoveWhenContextDone
<1>4. CASE Encode(s)
  BY <1>4, ExporterAssumption DEF Encode, Registered
<1>5. CASE EncodeFails(s)
  BY <1>5, ExporterAssumption DEF EncodeFails, StopWriting, Answer
<1>6. CASE Send(s)
  BY <1>6 DEF Send
<1>7. CASE SendFails(s)
  BY <1>7 DEF SendFails, StopWriting
<1>8. CASE RemoveOnShutdown(s)
  BY <1>8 DEF RemoveOnShutdown, StopWriting
<1>9. CASE RemoveSelf(s)
  BY <1>9 DEF RemoveSelf, StopWriting
<1>10. CASE RemoveOther(s)
  BY <1>10, ExporterAssumption DEF RemoveOther
<1>11. CASE PutBack(s)
  BY <1>11 DEF PutBack, Requeue
<1>12. CASE RemoveItem(s)
  BY <1>12 DEF RemoveItem, StopWriting, Answer
<1> QED
  BY <1>1, <1>2, <1>3, <1>4, <1>5, <1>6, <1>7, <1>8, <1>9, <1>10, <1>11, <1>12
     DEF WriterNext

LEMMA TypeCaller == ASSUME NEW r \in Request PROVE TypeOK /\ CallerNext(r) => TypeOK'
<1> SUFFICES ASSUME TypeOK, CallerNext(r) PROVE TypeOK'
  OBVIOUS
<1> USE DEF TypeOK, StreamTypeOK, ControlTypeOK, CallTypeOK
<1>1. CASE Call(r)
  BY <1>1 DEF Call
<1>2. CASE TakeStream(r)
  BY <1>2, ExporterAssumption DEF TakeStream, DequeueReady
<1>3. CASE FallBack(r)
  BY <1>3 DEF FallBack, ReturnToCaller, Result
<1>4. CASE ExpireBeforeStream(r)
  BY <1>4 DEF ExpireBeforeStream, ReturnToCaller, Result
<1>5. CASE CredentialsError(r)
  BY <1>5 DEF CredentialsError, ReturnToCaller, Result
<1>6. CASE HandOff(r)
  BY <1>6 DEF HandOff, HasRoom
<1>7. CASE Retry(r)
  BY <1>7 DEF Retry
<1>8. CASE Answered(r)
  BY <1>8 DEF Answered, ReturnToCaller, Result
<1>9. CASE ExpireAwaiting(r)
  BY <1>9 DEF ExpireAwaiting, ReturnToCaller, Result
<1> QED
  BY <1>1, <1>2, <1>3, <1>4, <1>5, <1>6, <1>7, <1>8, <1>9 DEF CallerNext

LEMMA TypeStutter == TypeOK /\ UNCHANGED vars => TypeOK'
  BY DEF TypeOK, StreamTypeOK, ControlTypeOK, CallTypeOK

\* Every variable has its type in every reachable state, whatever the number
\* of streams and calls.
THEOREM TypeCorrect == Spec => []TypeOK
<1>1. TypeOK /\ [Next]_vars => TypeOK'
  <2> SUFFICES ASSUME TypeOK, [Next]_vars PROVE TypeOK'
    OBVIOUS
  <2>1. CASE ControllerNext
    BY <2>1, TypeController
  <2>2. CASE \E s \in Stream : RunnerNext(s) \/ WriterNext(s)
    BY <2>2, TypeRunner, TypeWriter
  <2>3. CASE \E r \in Request : CallerNext(r)
    BY <2>3, TypeCaller
  <2>4. CASE ShutdownNext
    BY <2>4 DEF ShutdownNext, Shutdown, ShutdownReturns,
                TypeOK, StreamTypeOK, ControlTypeOK, CallTypeOK
  <2>5. CASE Terminated
    BY <2>5, TypeStutter DEF Terminated
  <2>6. CASE UNCHANGED vars
    BY <2>6, TypeStutter
  <2> QED
    BY <2>1, <2>2, <2>3, <2>4, <2>5, <2>6 DEF Next
<1> QED
  BY <1>1, TypeInit, PTL DEF Spec

-----------------------------------------------------------------------------
(***************************************************************************)
(* Queues without duplicates.                                              *)
(***************************************************************************)

Occurs(x, q) == \E i \in 1..Len(q) : q[i] = x
NoDuplicates(q) == \A i, j \in 1..Len(q) : q[i] = q[j] => i = j

LEMMA AppendOnce ==
  ASSUME NEW S, NEW q \in Seq(S), NEW x \in S, NoDuplicates(q), ~Occurs(x, q)
  PROVE  /\ NoDuplicates(Append(q, x))
         /\ \A y : Occurs(y, Append(q, x)) <=> Occurs(y, q) \/ y = x
<1>1. /\ Len(q) \in Nat
      /\ Len(Append(q, x)) = Len(q) + 1
      /\ Append(q, x)[Len(q) + 1] = x
      /\ \A i \in 1..Len(q) : Append(q, x)[i] = q[i]
  BY AppendProperties, LenProperties
<1>2. \A i \in 1..(Len(q) + 1) : i \in 1..Len(q) \/ i = Len(q) + 1
  BY <1>1
<1>3. Len(q) + 1 \in 1..(Len(q) + 1) /\ 1..Len(q) \subseteq 1..(Len(q) + 1)
  BY <1>1
<1>4. NoDuplicates(Append(q, x))
  BY <1>1, <1>2 DEF NoDuplicates, Occurs
<1>5. \A y : Occurs(y, Append(q, x)) <=> Occurs(y, q) \/ y = x
  BY <1>1, <1>2, <1>3 DEF Occurs
<1> QED
  BY <1>4, <1>5

LEMMA TailOnce ==
  ASSUME NEW S, NEW q \in Seq(S), q # <<>>, NoDuplicates(q)
  PROVE  /\ NoDuplicates(Tail(q))
         /\ Occurs(Head(q), q) /\ Head(q) \in S
         /\ \A y : Occurs(y, Tail(q)) <=> Occurs(y, q) /\ y # Head(q)
<1>1. /\ Len(q) \in Nat \ {0}
      /\ Head(q) = q[1] /\ Head(q) \in S
      /\ Len(Tail(q)) = Len(q) - 1
      /\ \A i \in 1..(Len(q) - 1) : Tail(q)[i] = q[i + 1]
  BY HeadTailProperties, LenProperties, EmptySeq
<1>2. \A i \in 1..(Len(q) - 1) : i + 1 \in 1..Len(q) /\ i + 1 # 1
  BY <1>1
<1>3. \A i \in 1..Len(q) : i = 1 \/ (i - 1 \in 1..(Len(q) - 1) /\ (i - 1) + 1 = i)
  BY <1>1
<1>4. 1 \in 1..Len(q)
  BY <1>1
<1>5. NoDuplicates(Tail(q))
  <2> SUFFICES ASSUME NEW i \in 1..(Len(q) - 1), NEW j \in 1..(Len(q) - 1),
                      Tail(q)[i] = Tail(q)[j]
               PROVE  i = j
    BY <1>1 DEF NoDuplicates
  <2>1. i + 1 = j + 1
    BY <1>1, <1>2 DEF NoDuplicates
  <2> QED
    BY <2>1, <1>1
<1>6. Occurs(Head(q), q)
  BY <1>1, <1>4 DEF Occurs
<1>7. ASSUME NEW y PROVE Occurs(y, Tail(q)) <=> Occurs(y, q) /\ y # Head(q)
  <2>1. ASSUME Occurs(y, Tail(q)) PROVE Occurs(y, q) /\ y # Head(q)
    <3>1. PICK i \in 1..(Len(q) - 1) : Tail(q)[i] = y
      BY <1>1, <2>1 DEF Occurs
    <3>2. q[i + 1] = y /\ i + 1 \in 1..Len(q) /\ i + 1 # 1
      BY <1>1, <1>2, <3>1
    <3> QED
      BY <1>1, <1>4, <3>2 DEF Occurs, NoDuplicates
  <2>2. ASSUME Occurs(y, q), y # Head(q) PROVE Occurs(y, Tail(q))
    <3>1. PICK i \in 1..Len(q) : q[i] = y
      BY <2>2 DEF Occurs
    <3>2. i - 1 \in 1..(Len(q) - 1) /\ Tail(q)[i - 1] = q[(i - 1) + 1] /\ (i - 1) + 1 = i
      BY <1>1, <1>3, <2>2, <3>1
    <3> QED
      BY <1>1, <3>1, <3>2 DEF Occurs
  <2> QED
    BY <2>1, <2>2
<1> QED
  BY <1>1, <1>5, <1>6, <1>7

-----------------------------------------------------------------------------
(***************************************************************************)
(* A stream is in one place at a time.  HandOffNeverBlocks is not          *)
(* inductive: it holds because a stream that was taken from the ready      *)
(* queue is neither left in it, nor in another hand, nor has an item, and  *)
(* because the writer publishes its stream only when it is nowhere.        *)
(***************************************************************************)

\* The stream will be published, or published again, by a step to come.
Publishing(s) ==
  spc[s] \in {"spawned", "dialing"} \/ wpc[s] \in {"setReady", "encode", "send"}

HeldByCaller(s) == \E r \in Request : hold[r] = s
HeldByRemover(s) == \E t \in Stream : alternate[t] = s

OnePlace ==
  /\ NoDuplicates(ready)
  /\ \A s \in Stream :
       /\ Occurs(s, ready) =>
            ~HeldByCaller(s) /\ ~HeldByRemover(s) /\ toWrite[s] = NoRequest
       /\ HeldByCaller(s) => ~HeldByRemover(s) /\ toWrite[s] = NoRequest
       /\ HeldByRemover(s) => toWrite[s] = NoRequest
       /\ Publishing(s) =>
            /\ ~Occurs(s, ready) /\ ~HeldByCaller(s) /\ ~HeldByRemover(s)
            /\ toWrite[s] = NoRequest
  /\ \A q, r \in Request : hold[q] = hold[r] /\ hold[q] # NoStream => q = r
  /\ \A t, u \in Stream : alternate[t] = alternate[u] /\ alternate[t] # NoStream => t = u

LEMMA OnePlaceInit == Init => OnePlace
<1> SUFFICES ASSUME Init PROVE OnePlace
  OBVIOUS
<1>1. Len(ready) = 0
  BY EmptySeq DEF Init
<1> QED
  BY <1>1, ExporterAssumption DEF Init, OnePlace, NoDuplicates, Occurs, HeldByCaller,
     HeldByRemover, Publishing

\* A step that moves no stream and publishes none anew.
LEMMA OnePlaceQuiet ==
  ASSUME OnePlace, UNCHANGED <<ready, hold, alternate, toWrite>>,
         \A s \in Stream : Publishing(s)' => Publishing(s)
  PROVE  OnePlace'
  BY DEF OnePlace, NoDuplicates, Occurs, HeldByCaller, HeldByRemover

LEMMA OnePlaceController == TypeOK /\ OnePlace /\ ControllerNext => OnePlace'
<1> SUFFICES ASSUME TypeOK, OnePlace, ControllerNext PROVE OnePlace'
  OBVIOUS
<1>1. ASSUME NEW S \in SUBSET {s \in Stream : Reusable(s)}, Spawn(S),
             UNCHANGED <<wpc, ready, hold, alternate, toWrite>>
      PROVE  OnePlace'
  <2>1. \A s \in Stream : Publishing(s)' => Publishing(s) \/ s \in S
    BY <1>1 DEF Spawn, Publishing, TypeOK, StreamTypeOK
  <2>2. \A s \in S : /\ ~Occurs(s, ready) /\ toWrite[s] = NoRequest
                    /\ ~HeldByCaller(s) /\ ~HeldByRemover(s)
    BY <1>1, ExporterAssumption
       DEF Reusable, InReady, Occurs, HeldByCaller, HeldByRemover, TypeOK, CallTypeOK
  <2> QED
    BY <1>1, <2>1, <2>2 DEF OnePlace, NoDuplicates, Occurs, HeldByCaller, HeldByRemover
<1>2. CASE SpawnInitialStreams
  BY <1>1, <1>2 DEF SpawnInitialStreams
<1>3. CASE RestartStream
  <2>1. PICK s \in Stream : Reusable(s) /\ Spawn({s})
    BY <1>3 DEF RestartStream
  <2> QED
    BY <1>1, <1>3, <2>1 DEF RestartStream
<1>4. CASE AbandonStream
  BY <1>4, OnePlaceQuiet DEF AbandonStream, Publishing
<1>5. CASE ControllerStops
  BY <1>5, OnePlaceQuiet DEF ControllerStops, Publishing
<1> QED
  BY <1>2, <1>3, <1>4, <1>5 DEF ControllerNext

LEMMA OnePlaceRunner ==
  ASSUME NEW s \in Stream PROVE TypeOK /\ OnePlace /\ RunnerNext(s) => OnePlace'
<1> SUFFICES ASSUME TypeOK, OnePlace, RunnerNext(s) PROVE OnePlace'
  OBVIOUS
<1>1. UNCHANGED <<ready, hold, alternate, toWrite>>
  BY DEF RunnerNext, Dial, Connect, ConnectFails, ReceiveSomeStatus, ReceiveStatus,
         ReceiveError, Finish, Return
<1>2. \A t \in Stream : Publishing(t)' => Publishing(t)
  <2> USE DEF Publishing, TypeOK, StreamTypeOK
  <2>1. CASE Dial(s)
    BY <2>1 DEF Dial
  <2>2. CASE Connect(s)
    BY <2>2 DEF Connect
  <2>3. CASE ConnectFails(s)
    BY <2>3 DEF ConnectFails
  <2>4. CASE ReceiveSomeStatus(s)
    <3>1. wpc' = wpc /\ (spc' = spc \/ spc' = [spc EXCEPT ![s] = "stopping"])
      BY <2>4 DEF ReceiveSomeStatus, ReceiveStatus, StopReading
    <3> QED
      BY <3>1
  <2>5. CASE ReceiveError(s)
    BY <2>5 DEF ReceiveError, StopReading
  <2>6. CASE Finish(s)
    BY <2>6 DEF Finish
  <2>7. CASE Return(s)
    BY <2>7 DEF Return
  <2> QED
    BY <2>1, <2>2, <2>3, <2>4, <2>5, <2>6, <2>7 DEF RunnerNext
<1> QED
  BY <1>1, <1>2, OnePlaceQuiet

LEMMA OnePlaceWriter ==
  ASSUME NEW s \in Stream PROVE TypeOK /\ OnePlace /\ WriterNext(s) => OnePlace'
<1> SUFFICES ASSUME TypeOK, OnePlace, WriterNext(s) PROVE OnePlace'
  OBVIOUS
<1> USE DEF TypeOK, StreamTypeOK, ControlTypeOK
<1>1. CASE SetReady(s)
  <2>1. ready' = Append(ready, s) /\ Publishing(s) /\ ~Publishing(s)'
        /\ UNCHANGED <<hold, alternate, toWrite>>
        /\ \A t \in Stream : Publishing(t)' => Publishing(t)
    BY <1>1 DEF SetReady, Publishing
  <2>2. /\ NoDuplicates(ready')
        /\ \A y : Occurs(y, ready') <=> Occurs(y, ready) \/ y = s
    BY <2>1, AppendOnce DEF OnePlace
  <2> QED
    BY <2>1, <2>2 DEF OnePlace, HeldByCaller, HeldByRemover
<1>2. CASE TakeItem(s)
  <2>1. toWrite[s] # NoRequest /\ toWrite' = [toWrite EXCEPT ![s] = NoRequest]
        /\ UNCHANGED <<ready, hold, alternate>>
        /\ \A t \in Stream : Publishing(t)' => Publishing(t) \/ t = s
    BY <1>2 DEF TakeItem, Publishing
  <2> QED
    BY <2>1 DEF OnePlace, HeldByCaller, HeldByRemover
<1>3. CASE SeeContextDone(s)
  BY <1>3, OnePlaceQuiet DEF SeeContextDone, RemoveWhenContextDone, Publishing
<1>4. CASE Encode(s)
  BY <1>4, OnePlaceQuiet DEF Encode, Publishing
<1>5. CASE EncodeFails(s)
  BY <1>5, OnePlaceQuiet DEF EncodeFails, StopWriting, Publishing
<1>6. CASE Send(s)
  BY <1>6, OnePlaceQuiet DEF Send, Publishing
<1>7. CASE SendFails(s)
  BY <1>7, OnePlaceQuiet DEF SendFails, StopWriting, Publishing
<1>8. CASE RemoveOnShutdown(s)
  BY <1>8, OnePlaceQuiet DEF RemoveOnShutdown, StopWriting, Publishing
<1>9. CASE RemoveSelf(s)
  <2>1. ready # <<>> /\ ready' = Tail(ready) /\ UNCHANGED <<hold, alternate, toWrite>>
        /\ \A t \in Stream : Publishing(t)' => Publishing(t)
    BY <1>9 DEF RemoveSelf, StopWriting, Publishing
  <2>2. /\ NoDuplicates(ready')
        /\ \A y : Occurs(y, ready') => Occurs(y, ready)
    BY <2>1, TailOnce DEF OnePlace
  <2> QED
    BY <2>1, <2>2 DEF OnePlace, HeldByCaller, HeldByRemover
<1>10. CASE RemoveOther(s)
  <2>1. ready # <<>> /\ ready' = Tail(ready) /\ UNCHANGED <<hold, toWrite>>
        /\ alternate[s] = NoStream /\ alternate' = [alternate EXCEPT ![s] = Head(ready)]
        /\ \A t \in Stream : Publishing(t)' => Publishing(t)
    BY <1>10 DEF RemoveOther, Publishing
  <2>2. /\ NoDuplicates(ready') /\ Occurs(Head(ready), ready) /\ Head(ready) \in Stream
        /\ \A y : Occurs(y, ready') <=> Occurs(y, ready) /\ y # Head(ready)
    BY <2>1, TailOnce DEF OnePlace
  <2>3. \A t \in Stream : HeldByRemover(t)' => HeldByRemover(t) \/ t = Head(ready)
    BY <2>1 DEF HeldByRemover
  <2>4. \A t, u \in Stream :
          alternate'[t] = alternate'[u] /\ alternate'[t] # NoStream => t = u
    BY <2>1, <2>2 DEF OnePlace, HeldByRemover
  <2> QED
    BY <2>1, <2>2, <2>3, <2>4 DEF OnePlace, HeldByCaller
<1>11. CASE PutBack(s)
  <2>0. alternate[s] \in Stream
    BY <1>11 DEF PutBack
  <2>1. ready' = Append(ready, alternate[s]) /\ UNCHANGED <<hold, toWrite>>
        /\ alternate' = [alternate EXCEPT ![s] = NoStream]
        /\ \A t \in Stream : Publishing(t)' => Publishing(t)
    BY <1>11 DEF PutBack, Requeue, Publishing
  <2>2. HeldByRemover(alternate[s])
    BY DEF HeldByRemover
  <2>3. /\ NoDuplicates(ready')
        /\ \A y : Occurs(y, ready') <=> Occurs(y, ready) \/ y = alternate[s]
    BY <2>0, <2>1, <2>2, AppendOnce DEF OnePlace
  <2>4. \A t \in Stream : HeldByRemover(t)' => HeldByRemover(t) /\ t # alternate[s]
    BY <2>0, <2>1, ExporterAssumption DEF OnePlace, HeldByRemover
  <2>5. \A t, u \in Stream :
          alternate'[t] = alternate'[u] /\ alternate'[t] # NoStream => t = u
    BY <2>1 DEF OnePlace
  <2> QED
    BY <2>0, <2>1, <2>2, <2>3, <2>4, <2>5 DEF OnePlace, HeldByCaller
<1>12. CASE RemoveItem(s)
  <2>1. toWrite' = [toWrite EXCEPT ![s] = NoRequest] /\ UNCHANGED <<ready, hold, alternate>>
        /\ \A t \in Stream : Publishing(t)' => Publishing(t)
    BY <1>12 DEF RemoveItem, StopWriting, Publishing
  <2> QED
    BY <2>1 DEF OnePlace, HeldByCaller, HeldByRemover
<1> QED
  BY <1>1, <1>2, <1>3, <1>4, <1>5, <1>6, <1>7, <1>8, <1>9, <1>10, <1>11, <1>12
     DEF WriterNext

LEMMA OnePlaceCaller ==
  ASSUME NEW r \in Request PROVE TypeOK /\ OnePlace /\ CallerNext(r) => OnePlace'
<1> SUFFICES ASSUME TypeOK, OnePlace, CallerNext(r) PROVE OnePlace'
  OBVIOUS
<1> USE DEF TypeOK, StreamTypeOK, ControlTypeOK, CallTypeOK
<1>1. ASSUME hold' = [hold EXCEPT ![r] = NoStream],
             UNCHANGED <<spc, wpc, ready, alternate, toWrite>>
      PROVE  OnePlace'
  <2>1. \A s \in Stream : HeldByCaller(s)' => HeldByCaller(s)
    BY <1>1, ExporterAssumption DEF HeldByCaller
  <2> QED
    BY <1>1, <2>1 DEF OnePlace, HeldByRemover, NoDuplicates, Occurs, Publishing
<1>2. CASE Call(r) \/ Retry(r)
  BY <1>2, OnePlaceQuiet DEF Call, Retry, Publishing
<1>3. CASE TakeStream(r)
  <2>1. ready # <<>> /\ ready' = Tail(ready) /\ UNCHANGED <<spc, wpc, alternate, toWrite>>
        /\ hold[r] = NoStream /\ hold' = [hold EXCEPT ![r] = Head(ready)]
    BY <1>3 DEF TakeStream, DequeueReady
  <2>2. /\ NoDuplicates(ready') /\ Occurs(Head(ready), ready) /\ Head(ready) \in Stream
        /\ \A y : Occurs(y, ready') <=> Occurs(y, ready) /\ y # Head(ready)
    BY <2>1, TailOnce DEF OnePlace
  <2>3. \A s \in Stream : HeldByCaller(s)' => HeldByCaller(s) \/ s = Head(ready)
    BY <2>1 DEF HeldByCaller
  <2>4. \A q, x \in Request : hold'[q] = hold'[x] /\ hold'[q] # NoStream => q = x
    BY <2>1, <2>2 DEF OnePlace, HeldByCaller
  <2> QED
    BY <2>1, <2>2, <2>3, <2>4 DEF OnePlace, HeldByRemover, Publishing
<1>4. CASE HandOff(r)
  <2>1. hold[r] \in Stream /\ HeldByCaller(hold[r])
    BY <1>4, ExporterAssumption DEF HandOff, HeldByCaller
  <2>2. hold' = [hold EXCEPT ![r] = NoStream] /\ toWrite' = [toWrite EXCEPT ![hold[r]] = r]
        /\ UNCHANGED <<spc, wpc, ready, alternate>>
    BY <1>4 DEF HandOff
  <2>3. \A s \in Stream : HeldByCaller(s)' => HeldByCaller(s) /\ s # hold[r]
    BY <2>1, <2>2, ExporterAssumption DEF HeldByCaller, OnePlace
  <2> QED
    BY <2>1, <2>2, <2>3 DEF OnePlace, HeldByRemover, NoDuplicates, Occurs, Publishing
<1>5. CASE FallBack(r) \/ ExpireBeforeStream(r) \/ CredentialsError(r)
           \/ Answered(r) \/ ExpireAwaiting(r)
  BY <1>1, <1>5 DEF FallBack, ExpireBeforeStream, CredentialsError, Answered,
     ExpireAwaiting, ReturnToCaller
<1> QED
  BY <1>2, <1>3, <1>4, <1>5 DEF CallerNext

LEMMA OnePlaceStep == TypeOK /\ OnePlace /\ [Next]_vars => OnePlace'
<1> SUFFICES ASSUME TypeOK, OnePlace, [Next]_vars PROVE OnePlace'
  OBVIOUS
<1>1. CASE ShutdownNext \/ Terminated \/ UNCHANGED vars
  BY <1>1, OnePlaceQuiet
     DEF ShutdownNext, Shutdown, ShutdownReturns, Terminated, Publishing
<1> QED
  BY <1>1, OnePlaceController, OnePlaceRunner, OnePlaceWriter, OnePlaceCaller DEF Next

\* A stream is never in two places: twice in the ready queue, in two hands, or
\* in a hand while it has an item.
THEOREM StreamInOnePlace == Spec => []OnePlace
  BY TypeCorrect, OnePlaceInit, OnePlaceStep, PTL DEF Spec

\* The send on toWrite, the one wait in SendAndWait that ignores the caller's
\* context, never waits.
THEOREM HandOffFree == Spec => []HandOffNeverBlocks
<1>1. TypeOK /\ OnePlace => HandOffNeverBlocks
  BY DEF TypeOK, CallTypeOK, OnePlace, HandOffNeverBlocks, HeldByCaller
<1> QED
  BY <1>1, TypeCorrect, StreamInOnePlace, PTL

-----------------------------------------------------------------------------
(***************************************************************************)
(* Places.  A writer that waits for an item, or searches its stream, has   *)
(* it in one of the places callers look, and until shutdown only such a    *)
(* writer has.                                                             *)
(***************************************************************************)

IsPlaced(s) ==
  Occurs(s, ready) \/ HeldByCaller(s) \/ HeldByRemover(s) \/ toWrite[s] # NoRequest

IsSearching(s) == wpc[s] \in {"select", "remove", "putBack"}

\* Until shutdown a stream that can be found has a writer that waits for it.
PlacedHasWriter == \A s \in Stream : IsPlaced(s) => IsSearching(s) \/ ShuttingDown

\* If no credentials fail, a writer that waits has its stream where it is found.
WriterIsPlaced == \A s \in Stream : IsSearching(s) => IsPlaced(s)

LEMMA FindableIsPlaced ==
  ASSUME TypeOK, NEW s \in Stream PROVE Findable(s) <=> IsPlaced(s)
<1>1. HeldByCaller(s) <=> \E r \in Request : rpc[r] = "holding" /\ hold[r] = s
  BY ExporterAssumption DEF HeldByCaller, TypeOK, CallTypeOK
<1> QED
  BY <1>1 DEF Findable, IsPlaced, InReady, Occurs, HeldByRemover

\* What one step may do to a stream and its writer.
PlacesFollow(t) ==
  /\ IsPlaced(t)' => IsPlaced(t) \/ IsSearching(t)'
  /\ IsSearching(t)' => IsSearching(t) \/ IsPlaced(t)'
  /\ IsSearching(t) => IsSearching(t)' \/ ~IsPlaced(t)' \/ ShuttingDown
  /\ IsPlaced(t) => IsPlaced(t)' \/ ~IsSearching(t)' \/ CredentialsFail

LEMMA PlacesQuiet ==
  ASSUME UNCHANGED <<ready, hold, alternate, toWrite>>, NEW t \in Stream,
         IsSearching(t)' <=> IsSearching(t)
  PROVE  PlacesFollow(t)
  BY DEF PlacesFollow, IsPlaced, Occurs, HeldByCaller, HeldByRemover

LEMMA PlacesWriter ==
  ASSUME TypeOK, OnePlace, NEW s \in Stream, WriterNext(s), NEW t \in Stream
  PROVE  PlacesFollow(t)
<1> USE DEF TypeOK, StreamTypeOK, ControlTypeOK
<1>1. CASE SetReady(s)
  <2>1. ready' = Append(ready, s) /\ UNCHANGED <<hold, alternate, toWrite>>
        /\ wpc' = [wpc EXCEPT ![s] = "select"] /\ Publishing(s)
    BY <1>1 DEF SetReady, Publishing
  <2>2. \A y : Occurs(y, ready') <=> Occurs(y, ready) \/ y = s
    BY <2>1, AppendOnce DEF OnePlace
  <2> QED
    BY <2>1, <2>2 DEF PlacesFollow, IsPlaced, IsSearching, HeldByCaller, HeldByRemover
<1>2. CASE TakeItem(s)
  <2>1. toWrite[s] # NoRequest /\ toWrite' = [toWrite EXCEPT ![s] = NoRequest]
        /\ wpc[s] = "select" /\ wpc' = [wpc EXCEPT ![s] = "encode"]
        /\ UNCHANGED <<ready, hold, alternate>>
    BY <1>2 DEF TakeItem
  <2>2. ~Occurs(s, ready) /\ ~HeldByCaller(s) /\ ~HeldByRemover(s)
    BY <2>1 DEF OnePlace
  <2> QED
    BY <2>1, <2>2 DEF PlacesFollow, IsPlaced, IsSearching, Occurs, HeldByCaller,
       HeldByRemover
<1>3. CASE SeeContextDone(s) \/ Encode(s) \/ EncodeFails(s) \/ Send(s) \/ SendFails(s)
  <2>1. UNCHANGED <<ready, hold, alternate, toWrite>>
        /\ (IsSearching(t)' <=> IsSearching(t))
    BY <1>3 DEF SeeContextDone, RemoveWhenContextDone, Encode, EncodeFails, Send,
       SendFails, StopWriting, IsSearching
  <2> QED
    BY <2>1, PlacesQuiet
<1>4. CASE RemoveOnShutdown(s)
  <2>1. UNCHANGED <<ready, hold, alternate, toWrite>> /\ ShuttingDown
        /\ wpc' = [wpc EXCEPT ![s] = "done"]
    BY <1>4 DEF RemoveOnShutdown, StopWriting
  <2> QED
    BY <2>1 DEF PlacesFollow, IsPlaced, IsSearching, Occurs, HeldByCaller, HeldByRemover
<1>5. CASE RemoveSelf(s)
  <2>1. ready # <<>> /\ Head(ready) = s /\ ready' = Tail(ready)
        /\ wpc' = [wpc EXCEPT ![s] = "done"] /\ UNCHANGED <<hold, alternate, toWrite>>
    BY <1>5 DEF RemoveSelf, StopWriting
  <2>2. /\ Occurs(s, ready)
        /\ \A y : Occurs(y, ready') <=> Occurs(y, ready) /\ y # s
    BY <2>1, TailOnce DEF OnePlace
  <2>3. ~HeldByCaller(s) /\ ~HeldByRemover(s) /\ toWrite[s] = NoRequest
    BY <2>2 DEF OnePlace
  <2> QED
    BY <2>1, <2>2, <2>3 DEF PlacesFollow, IsPlaced, IsSearching, HeldByCaller,
       HeldByRemover
<1>6. CASE RemoveOther(s)
  <2>1. ready # <<>> /\ ready' = Tail(ready) /\ UNCHANGED <<hold, toWrite>>
        /\ alternate[s] = NoStream /\ alternate' = [alternate EXCEPT ![s] = Head(ready)]
        /\ wpc[s] = "remove" /\ wpc' = [wpc EXCEPT ![s] = "putBack"]
    BY <1>6 DEF RemoveOther
  <2>2. /\ Occurs(Head(ready), ready)
        /\ \A y : Occurs(y, ready') <=> Occurs(y, ready) /\ y # Head(ready)
    BY <2>1, TailOnce DEF OnePlace
  <2>3. HeldByRemover(t)' <=> HeldByRemover(t) \/ t = Head(ready)
    BY <2>1, ExporterAssumption DEF HeldByRemover
  <2> QED
    BY <2>1, <2>2, <2>3 DEF PlacesFollow, IsPlaced, IsSearching, HeldByCaller
<1>7. CASE PutBack(s)
  <2>1. alternate[s] \in Stream /\ HeldByRemover(alternate[s])
        /\ ready' = Append(ready, alternate[s]) /\ UNCHANGED <<hold, toWrite>>
        /\ alternate' = [alternate EXCEPT ![s] = NoStream]
        /\ wpc[s] = "putBack" /\ wpc' = [wpc EXCEPT ![s] = "remove"]
    BY <1>7 DEF PutBack, Requeue, HeldByRemover
  <2>2. \A y : Occurs(y, ready') <=> Occurs(y, ready) \/ y = alternate[s]
    BY <2>1, AppendOnce DEF OnePlace
  <2>3. HeldByRemover(t)' <=> HeldByRemover(t) /\ t # alternate[s]
    BY <2>1, ExporterAssumption DEF HeldByRemover, OnePlace
  <2> QED
    BY <2>1, <2>2, <2>3 DEF PlacesFollow, IsPlaced, IsSearching, HeldByCaller
<1>8. CASE RemoveItem(s)
  <2>1. toWrite[s] # NoRequest /\ toWrite' = [toWrite EXCEPT ![s] = NoRequest]
        /\ wpc' = [wpc EXCEPT ![s] = "done"] /\ UNCHANGED <<ready, hold, alternate>>
    BY <1>8 DEF RemoveItem, StopWriting
  <2>2. ~Occurs(s, ready) /\ ~HeldByCaller(s) /\ ~HeldByRemover(s)
    BY <2>1 DEF OnePlace
  <2> QED
    BY <2>1, <2>2 DEF PlacesFollow, IsPlaced, IsSearching, Occurs, HeldByCaller,
       HeldByRemover
<1> QED
  BY <1>1, <1>2, <1>3, <1>4, <1>5, <1>6, <1>7, <1>8 DEF WriterNext

LEMMA PlacesCaller ==
  ASSUME TypeOK, OnePlace, NEW r \in Request, CallerNext(r), NEW t \in Stream
  PROVE  PlacesFollow(t)
<1> USE DEF TypeOK, StreamTypeOK, ControlTypeOK, CallTypeOK
<1>0. wpc' = wpc
  BY DEF CallerNext, Call, TakeStream, FallBack, ExpireBeforeStream, CredentialsError,
     HandOff, Retry, Answered, ExpireAwaiting
<1>1. ASSUME UNCHANGED <<ready, hold, alternate, toWrite>> PROVE PlacesFollow(t)
  BY <1>0, <1>1, PlacesQuiet DEF IsSearching
<1>2. CASE Call(r) \/ Retry(r)
  BY <1>1, <1>2 DEF Call, Retry
<1>3. CASE FallBack(r) \/ ExpireBeforeStream(r) \/ Answered(r) \/ ExpireAwaiting(r)
  <2>1. hold[r] = NoStream /\ hold' = [hold EXCEPT ![r] = NoStream]
        /\ UNCHANGED <<ready, alternate, toWrite>>
    BY <1>3 DEF FallBack, ExpireBeforeStream, Answered, ExpireAwaiting, ReturnToCaller
  <2>2. hold' = hold
    BY <2>1
  <2> QED
    BY <1>1, <2>1, <2>2
<1>4. CASE CredentialsError(r)
  <2>1. hold' = [hold EXCEPT ![r] = NoStream] /\ CredentialsFail
        /\ UNCHANGED <<ready, alternate, toWrite>>
    BY <1>4 DEF CredentialsError, ReturnToCaller
  <2>2. HeldByCaller(t)' => HeldByCaller(t)
    BY <2>1, ExporterAssumption DEF HeldByCaller
  <2> QED
    BY <1>0, <2>1, <2>2 DEF PlacesFollow, IsPlaced, IsSearching, Occurs, HeldByRemover
<1>5. CASE TakeStream(r)
  <2>1. ready # <<>> /\ ready' = Tail(ready) /\ UNCHANGED <<alternate, toWrite>>
        /\ hold[r] = NoStream /\ hold' = [hold EXCEPT ![r] = Head(ready)]
    BY <1>5 DEF TakeStream, DequeueReady
  <2>2. /\ Occurs(Head(ready), ready)
        /\ \A y : Occurs(y, ready') <=> Occurs(y, ready) /\ y # Head(ready)
    BY <2>1, TailOnce DEF OnePlace
  <2>3. HeldByCaller(t)' <=> HeldByCaller(t) \/ t = Head(ready)
    BY <2>1, ExporterAssumption DEF HeldByCaller
  <2> QED
    BY <1>0, <2>1, <2>2, <2>3 DEF PlacesFollow, IsPlaced, IsSearching, HeldByRemover
<1>6. CASE HandOff(r)
  <2>1. hold[r] \in Stream /\ HeldByCaller(hold[r])
        /\ hold' = [hold EXCEPT ![r] = NoStream]
        /\ toWrite' = [toWrite EXCEPT ![hold[r]] = r] /\ UNCHANGED <<ready, alternate>>
    BY <1>6, ExporterAssumption DEF HandOff, HeldByCaller
  <2>2. HeldByCaller(t)' <=> HeldByCaller(t) /\ t # hold[r]
    BY <2>1, ExporterAssumption DEF HeldByCaller, OnePlace
  <2> QED
    BY <1>0, <2>1, <2>2, ExporterAssumption
       DEF PlacesFollow, IsPlaced, IsSearching, Occurs, HeldByRemover
<1> QED
  BY <1>2, <1>3, <1>4, <1>5, <1>6 DEF CallerNext

LEMMA PlacesStep ==
  ASSUME TypeOK, OnePlace, [Next]_vars, NEW t \in Stream PROVE PlacesFollow(t)
<1>1. ASSUME NEW s \in Stream, RunnerNext(s) PROVE PlacesFollow(t)
  <2>1. UNCHANGED <<ready, hold, alternate, toWrite>>
    BY <1>1 DEF RunnerNext, Dial, Connect, ConnectFails, ReceiveSomeStatus, ReceiveStatus,
       ReceiveError, Finish, Return
  <2>2. IsSearching(t)' <=> IsSearching(t)
    <3> USE DEF TypeOK, StreamTypeOK, IsSearching
    <3>1. CASE Connect(s)
      BY <3>1 DEF Connect
    <3>2. CASE Finish(s)
      BY <3>2 DEF Finish
    <3>3. Connect(s) \/ Finish(s) \/ wpc' = wpc
      BY <1>1 DEF RunnerNext, Dial, ConnectFails, ReceiveSomeStatus, ReceiveStatus,
         ReceiveError, Return
    <3> QED
      BY <3>1, <3>2, <3>3
  <2> QED
    BY <2>1, <2>2, PlacesQuiet
<1>2. CASE ControllerNext \/ ShutdownNext \/ Terminated \/ UNCHANGED vars
  <2>1. UNCHANGED <<ready, hold, alternate, toWrite, wpc>>
    BY <1>2 DEF ControllerNext, SpawnInitialStreams, RestartStream, AbandonStream,
       ControllerStops, ShutdownNext, Shutdown, ShutdownReturns, Terminated
  <2> QED
    BY <2>1, PlacesQuiet DEF IsSearching
<1> QED
  BY <1>1, <1>2, PlacesWriter, PlacesCaller DEF Next

LEMMA ShutdownStays == [Next]_vars /\ ShuttingDown => ShuttingDown'
<1> SUFFICES ASSUME [Next]_vars, ShuttingDown PROVE ShuttingDown'
  OBVIOUS
<1>1. CASE ShutdownNext
  BY <1>1 DEF ShutdownNext, Shutdown, ShutdownReturns, ShuttingDown
<1>2. ShutdownNext \/ shutdown' = shutdown
  <2>1. ControllerNext \/ Terminated \/ UNCHANGED vars => shutdown' = shutdown
    BY DEF ControllerNext, SpawnInitialStreams, RestartStream, AbandonStream,
       ControllerStops, Terminated
  <2>2. ASSUME NEW s \in Stream, RunnerNext(s) PROVE shutdown' = shutdown
    BY <2>2 DEF RunnerNext, Dial, Connect, ConnectFails, ReceiveSomeStatus, ReceiveStatus,
       ReceiveError, Finish, Return
  <2>3. ASSUME NEW s \in Stream, WriterNext(s) PROVE shutdown' = shutdown
    BY <2>3 DEF WriterNext, SetReady, TakeItem, SeeContextDone, Encode, EncodeFails, Send,
       SendFails, RemoveOnShutdown, RemoveSelf, RemoveOther, PutBack, RemoveItem
  <2>4. ASSUME NEW r \in Request, CallerNext(r) PROVE shutdown' = shutdown
    BY <2>4 DEF CallerNext, Call, TakeStream, FallBack, ExpireBeforeStream,
       CredentialsError, HandOff, Retry, Answered, ExpireAwaiting
  <2> QED
    BY <2>1, <2>2, <2>3, <2>4 DEF Next
<1> QED
  BY <1>1, <1>2 DEF ShuttingDown

LEMMA PlacesInit == Init => PlacedHasWriter /\ WriterIsPlaced
<1>1. Init => Len(ready) = 0
  BY EmptySeq DEF Init
<1> QED
  BY <1>1, ExporterAssumption DEF Init, PlacedHasWriter, WriterIsPlaced, IsPlaced,
     IsSearching, Occurs, HeldByCaller, HeldByRemover

\* Until shutdown the ready queue, the hands and the items only name streams
\* whose writer is there.
THEOREM PlacedStreamsHaveWriters == Spec => []PlacedHasWriter
<1>1. TypeOK /\ OnePlace /\ PlacedHasWriter /\ [Next]_vars => PlacedHasWriter'
  BY PlacesStep, ShutdownStays DEF PlacedHasWriter, PlacesFollow
<1> QED
  BY <1>1, PlacesInit, TypeCorrect, StreamInOnePlace, PTL DEF Spec

\* Until shutdown no caller can pick up a stream whose goroutine is over.
THEOREM NoStaleStream == Spec => []NoStaleStreamBeforeShutdown
<1>1. TypeOK /\ PlacedHasWriter => NoStaleStreamBeforeShutdown
  BY FindableIsPlaced
     DEF NoStaleStreamBeforeShutdown, PlacedHasWriter, IsSearching, TypeOK, StreamTypeOK
<1> QED
  BY <1>1, TypeCorrect, PlacedStreamsHaveWriters, PTL

\* A writer that waits for an item or searches for its stream can find it,
\* provided no call loses the stream it holds to an error of its credentials.
THEOREM WaitingIsFindable ==
  ASSUME ~CredentialsFail PROVE Spec => []WaitingStreamIsFindable
<1>1. TypeOK /\ OnePlace /\ WriterIsPlaced /\ [Next]_vars => WriterIsPlaced'
  BY PlacesStep DEF WriterIsPlaced, PlacesFollow
<1>2. TypeOK /\ WriterIsPlaced => WaitingStreamIsFindable
  BY FindableIsPlaced DEF WaitingStreamIsFindable, WriterIsPlaced, IsSearching
<1> QED
  BY <1>1, <1>2, PlacesInit, TypeCorrect, StreamInOnePlace, PTL DEF Spec

-----------------------------------------------------------------------------
(***************************************************************************)
(* Counts.  The controller's count of streams is that of the goroutines    *)
(* that have not returned and of the returned streams it has not taken;    *)
(* wg counts itself and the goroutines that have not finished.             *)
(***************************************************************************)

Active == {s \in Stream : spc[s] # "off"}

Unfinished ==
  {s \in Stream : spc[s] \in {"spawned", "dialing", "read", "stopping", "unsupported"}}

StreamCounts ==
  /\ running \in 0..NumStreams
  /\ cpc = "spawn" => running = NumStreams /\ Active = {} /\ returning = <<>>
  /\ cpc # "spawn" => Cardinality(Active) + Len(returning) = running
  /\ downgraded => running = 0
  /\ wg = Cardinality(Unfinished) + (IF cpc = "done" THEN 0 ELSE 1)
  /\ shutdown = "returned" => cpc = "done" /\ Unfinished = {}

LEMMA FiniteCounts ==
  /\ IsFiniteSet(Active) /\ Cardinality(Active) \in Nat
  /\ IsFiniteSet(Unfinished) /\ Cardinality(Unfinished) \in Nat
<1>1. Active \in SUBSET Stream /\ Unfinished \in SUBSET Stream
  BY DEF Active, Unfinished
<1>2. IsFiniteSet(Active) /\ IsFiniteSet(Unfinished)
  BY <1>1, StreamAssumption, FS_Subset
<1> QED
  BY <1>2, FS_CardinalityType

\* The union of two finite sets that have nothing in common.
LEMMA DisjointUnion ==
  ASSUME NEW S, NEW T, IsFiniteSet(S), IsFiniteSet(T), S \cap T = {}
  PROVE  Cardinality(S \cup T) = Cardinality(S) + Cardinality(T)
<1>1. Cardinality(S) \in Nat /\ Cardinality(T) \in Nat
  BY FS_CardinalityType
<1>2. Cardinality(S \cap T) = 0
  BY FS_EmptySet
<1>3. Cardinality(S \cup T) = Cardinality(S) + Cardinality(T) - Cardinality(S \cap T)
  BY FS_Union, Zenon
<1> QED
  BY <1>1, <1>2, <1>3

LEMMA CountsInit == Init => StreamCounts
<1> SUFFICES ASSUME Init PROVE StreamCounts
  OBVIOUS
<1>1. Active = {} /\ Unfinished = {}
  BY DEF Init, Active, Unfinished
<1> QED
  BY <1>1, FS_EmptySet, ExporterAssumption DEF Init, StreamCounts

\* New streams are counted twice.
LEMMA SpawnCounts ==
  ASSUME TypeOK, NEW S \in SUBSET {s \in Stream : Reusable(s)}, Spawn(S)
  PROVE  /\ Cardinality(S) \in Nat
         /\ Cardinality(Active)' = Cardinality(Active) + Cardinality(S)
         /\ Cardinality(Unfinished)' = Cardinality(Unfinished) + Cardinality(S)
<1>1. S \in SUBSET Stream /\ \A s \in S : spc[s] = "off"
  BY DEF Reusable
<1>2. IsFiniteSet(S)
  BY <1>1, StreamAssumption, FS_Subset
<1>3. \A s \in Stream : spc'[s] = IF s \in S THEN "spawned" ELSE spc[s]
  BY DEF Spawn
<1>4. Active' = Active \cup S /\ Active \cap S = {}
  BY <1>1, <1>3 DEF Active
<1>5. Unfinished' = Unfinished \cup S /\ Unfinished \cap S = {}
  BY <1>1, <1>3 DEF Unfinished
<1> QED
  BY <1>2, <1>4, <1>5, FiniteCounts, DisjointUnion, FS_CardinalityType

LEMMA CountsController ==
  ASSUME TypeOK, StreamCounts, ControllerNext PROVE StreamCounts'
<1> USE DEF TypeOK, ControlTypeOK
<1>0. /\ Cardinality(Active) \in Nat /\ Cardinality(Unfinished) \in Nat
      /\ NumStreams \in Nat \ {0} /\ running \in Nat /\ running <= NumStreams
      /\ Len(returning) \in Nat
  BY FiniteCounts, ExporterAssumption, LenProperties DEF StreamCounts
<1>1. CASE SpawnInitialStreams
  <2>1. PICK S \in SUBSET {s \in Stream : Reusable(s)} :
          Cardinality(S) = NumStreams /\ Spawn(S)
    BY <1>1 DEF SpawnInitialStreams
  <2>2. /\ cpc = "spawn" /\ cpc' = "select" /\ wg' = wg + NumStreams
        /\ UNCHANGED <<returning, running, downgraded, shutdown>>
    BY <1>1, <2>1 DEF SpawnInitialStreams, Spawn, Counted
  <2>3. Cardinality(Active) = 0 /\ Len(returning) = 0
    BY <2>2, FS_EmptySet, EmptySeq DEF StreamCounts
  <2>4. /\ Cardinality(Active)' = NumStreams
        /\ Cardinality(Unfinished)' = Cardinality(Unfinished) + NumStreams
    BY <1>0, <2>1, <2>3, SpawnCounts
  <2> QED
    BY <1>0, <2>2, <2>3, <2>4 DEF StreamCounts
<1>2. CASE RestartStream
  <2>1. PICK s \in Stream : Reusable(s) /\ Spawn({s})
    BY <1>2 DEF RestartStream
  <2>2. /\ {s} \in SUBSET {t \in Stream : Reusable(t)} /\ Cardinality({s}) = 1
    BY <2>1, FS_Singleton
  <2>3. /\ cpc = "select" /\ returning # <<>> /\ returning' = Tail(returning)
        /\ wg' = wg + 1 /\ UNCHANGED <<cpc, running, downgraded, shutdown>>
    BY <1>2, <2>1, <2>2 DEF RestartStream, Spawn, Counted
  <2>4. /\ Cardinality(Active)' = Cardinality(Active) + 1
        /\ Cardinality(Unfinished)' = Cardinality(Unfinished) + 1
    BY <2>1, <2>2, SpawnCounts
  <2>5. Len(returning') = Len(returning) - 1
    BY <2>3, HeadTailProperties
  <2> QED
    BY <1>0, <2>3, <2>4, <2>5 DEF StreamCounts
<1>3. CASE AbandonStream
  <2>1. /\ cpc = "select" /\ returning # <<>> /\ returning' = Tail(returning)
        /\ running' = running - 1 /\ downgraded' = (downgraded \/ running = 1)
        /\ UNCHANGED <<cpc, wg, shutdown, spc>>
    BY <1>3 DEF AbandonStream, LastStreamDowngrades
  <2>2. Len(returning') = Len(returning) - 1 /\ Len(returning') \in Nat
    BY <2>1, HeadTailProperties, LenProperties
  <2>3. UNCHANGED <<Active, Unfinished>>
    BY <2>1 DEF Active, Unfinished
  <2>4. Cardinality(Active) + Len(returning) = running
    BY <2>1 DEF StreamCounts
  <2>5. running >= 1 /\ running' \in 0..NumStreams /\ ~downgraded
    BY <1>0, <2>1, <2>2, <2>4 DEF StreamCounts
  <2> QED
    BY <1>0, <2>1, <2>2, <2>3, <2>4, <2>5 DEF StreamCounts
<1>4. CASE ControllerStops
  <2>1. /\ cpc = "select" /\ cpc' = "done" /\ wg' = wg - 1
        /\ UNCHANGED <<spc, returning, running, downgraded, shutdown>>
    BY <1>4 DEF ControllerStops
  <2>2. UNCHANGED <<Active, Unfinished>>
    BY <2>1 DEF Active, Unfinished
  <2> QED
    BY <1>0, <2>1, <2>2 DEF StreamCounts
<1> QED
  BY <1>1, <1>2, <1>3, <1>4 DEF ControllerNext

\* A step that leaves the controller alone and changes where stream s is ...
LEMMA CountsMove ==
  ASSUME TypeOK, StreamCounts, NEW s \in Stream, s \in Unfinished, NEW pc,
         pc \in {"spawned", "dialing", "read", "stopping", "unsupported"},
         spc' = [spc EXCEPT ![s] = pc], UNCHANGED controlVars
  PROVE  StreamCounts'
<1>1. UNCHANGED <<Active, Unfinished>>
  BY DEF Active, Unfinished, TypeOK, StreamTypeOK
<1> QED
  BY <1>1 DEF StreamCounts

\* ... which may be the end of its run, with the deferred wg.Done().
LEMMA CountsFinish ==
  ASSUME TypeOK, StreamCounts, NEW s \in Stream, s \in Unfinished,
         spc' = [spc EXCEPT ![s] = "returning"], wg' = wg - 1,
         UNCHANGED <<returning, downgraded, cpc, running, shutdown>>
  PROVE  StreamCounts'
<1>1. Active' = Active
  BY DEF Active, Unfinished, TypeOK, StreamTypeOK
<1>2. Unfinished' = Unfinished \ {s}
  BY DEF Unfinished, TypeOK, StreamTypeOK
<1>3. Cardinality(Unfinished') = Cardinality(Unfinished) - 1
  BY <1>2, FiniteCounts, FS_RemoveElement
<1>4. shutdown # "returned"
  BY DEF StreamCounts
<1> QED
  BY <1>1, <1>3, <1>4, FiniteCounts DEF StreamCounts

LEMMA CountsRunner ==
  ASSUME TypeOK, StreamCounts, NEW s \in Stream, RunnerNext(s) PROVE StreamCounts'
<1> USE DEF TypeOK, StreamTypeOK, ControlTypeOK
<1>1. CASE Dial(s)
  BY <1>1, CountsMove DEF Dial, Unfinished
<1>2. CASE Connect(s)
  BY <1>2, CountsMove DEF Connect, Unfinished
<1>3. CASE ConnectFails(s)
  BY <1>3, CountsFinish DEF ConnectFails, Unfinished
<1>4. CASE ReceiveSomeStatus(s)
  <2>1. /\ spc[s] = "read" /\ UNCHANGED controlVars
        /\ spc' = spc \/ spc' = [spc EXCEPT ![s] = "stopping"]
    BY <1>4 DEF ReceiveSomeStatus, ReceiveStatus, StopReading
  <2>2. \E pc \in {"read", "stopping"} : spc' = [spc EXCEPT ![s] = pc]
    BY <2>1
  <2> QED
    BY <2>1, <2>2, CountsMove DEF Unfinished
<1>5. CASE ReceiveError(s)
  BY <1>5, CountsMove DEF ReceiveError, StopReading, Unfinished
<1>6. CASE Finish(s)
  BY <1>6, CountsFinish DEF Finish, Unfinished
<1>7. CASE Return(s)
  <2>1. /\ spc[s] = "returning" /\ spc' = [spc EXCEPT ![s] = "off"]
        /\ returning' = Append(returning, s)
        /\ UNCHANGED <<downgraded, cpc, running, wg, shutdown>>
    BY <1>7 DEF Return
  <2>2. s \in Active /\ Active' = Active \ {s} /\ Unfinished' = Unfinished
    BY <2>1 DEF Active, Unfinished
  <2>3. Cardinality(Active') = Cardinality(Active) - 1
    BY <2>2, FiniteCounts, FS_RemoveElement
  <2>4. Len(returning') = Len(returning) + 1 /\ Len(returning) \in Nat
    BY <2>1, AppendProperties, LenProperties
  <2>5. cpc # "spawn"
    BY <2>2 DEF StreamCounts
  <2> QED
    BY <2>1, <2>2, <2>3, <2>4, <2>5, FiniteCounts DEF StreamCounts
<1> QED
  BY <1>1, <1>2, <1>3, <1>4, <1>5, <1>6, <1>7 DEF RunnerNext

\* A step that changes neither a count nor where a stream is.
LEMMA CountsQuiet ==
  ASSUME StreamCounts, UNCHANGED <<spc, downgraded, returning, cpc, running, wg>>,
         shutdown' = shutdown \/ shutdown' = "waiting"
  PROVE  StreamCounts'
<1>1. UNCHANGED <<Active, Unfinished>>
  BY DEF Active, Unfinished
<1> QED
  BY <1>1 DEF StreamCounts

LEMMA CountsStep == TypeOK /\ StreamCounts /\ [Next]_vars => StreamCounts'
<1> SUFFICES ASSUME TypeOK, StreamCounts, [Next]_vars PROVE StreamCounts'
  OBVIOUS
<1>1. ASSUME NEW s \in Stream, WriterNext(s) PROVE StreamCounts'
  <2>1. UNCHANGED <<spc, downgraded, returning, cpc, running, wg, shutdown>>
    BY <1>1 DEF WriterNext, SetReady, TakeItem, SeeContextDone, Encode, EncodeFails, Send,
       SendFails, RemoveOnShutdown, RemoveSelf, RemoveOther, PutBack, RemoveItem
  <2> QED
    BY <2>1, CountsQuiet
<1>2. ASSUME NEW r \in Request, CallerNext(r) PROVE StreamCounts'
  <2>1. UNCHANGED <<spc, downgraded, returning, cpc, running, wg, shutdown>>
    BY <1>2 DEF CallerNext, Call, TakeStream, FallBack, ExpireBeforeStream,
       CredentialsError, HandOff, Retry, Answered, ExpireAwaiting
  <2> QED
    BY <2>1, CountsQuiet
<1>3. CASE Shutdown \/ Terminated \/ UNCHANGED vars
  BY <1>3, CountsQuiet DEF Shutdown, Terminated
<1>4. CASE ShutdownReturns
  <2>1. wg = 0 /\ UNCHANGED <<spc, downgraded, returning, cpc, running, wg>>
    BY <1>4 DEF ShutdownReturns
  <2>2. cpc = "done" /\ Cardinality(Unfinished) = 0
    BY <2>1, FiniteCounts DEF StreamCounts, TypeOK, ControlTypeOK
  <2>3. Unfinished = {}
    BY <2>2, FiniteCounts, FS_EmptySet
  <2>4. UNCHANGED <<Active, Unfinished>>
    BY <2>1 DEF Active, Unfinished
  <2> QED
    BY <2>1, <2>2, <2>3, <2>4 DEF StreamCounts
<1> QED
  BY <1>1, <1>2, <1>3, <1>4, CountsController, CountsRunner DEF Next, ShutdownNext

\* The controller's count and the wait group agree with the goroutines there are.
THEOREM StreamsCounted == Spec => []StreamCounts
  BY TypeCorrect, CountsInit, CountsStep, PTL DEF Spec

\* No stream goroutine waits for room when it returns its stream.
THEOREM ReturnFree == Spec => []ReturnNeverBlocks
<1>1. TypeOK /\ StreamCounts => ReturnNeverBlocks
  <2> SUFFICES ASSUME TypeOK, StreamCounts, NEW s \in Stream, spc[s] = "returning"
               PROVE  Len(returning) < NumStreams
    BY DEF ReturnNeverBlocks, ReturningCapacity
  <2>1. s \in Active
    BY DEF Active
  <2>2. Cardinality(Active) \in Nat /\ Cardinality(Active) # 0
    BY <2>1, FiniteCounts, FS_EmptySet
  <2>3. Cardinality(Active) + Len(returning) = running /\ running <= NumStreams
    BY <2>1, ExporterAssumption DEF StreamCounts
  <2>4. Len(returning) \in Nat
    BY LenProperties DEF TypeOK, ControlTypeOK
  <2> QED
    BY <2>2, <2>3, <2>4, ExporterAssumption
<1> QED
  BY <1>1, TypeCorrect, StreamsCounted, PTL

\* Once the exporter has given up on Arrow no stream is left to be made ready,
\* and callers find none, except one that a shutdown left behind.
THEOREM ClosedChannelUnused == Spec => []NoSendOnClosedChannel
<1>1. TypeOK /\ PlacedHasWriter /\ StreamCounts => NoSendOnClosedChannel
  <2> SUFFICES ASSUME TypeOK, PlacedHasWriter, StreamCounts, downgraded
               PROVE  /\ \A s \in Stream : spc[s] = "off" /\ wpc[s] = "off"
                      /\ ShuttingDown \/ ready = <<>>
    BY DEF NoSendOnClosedChannel
  <2>1. running = 0 /\ cpc # "spawn"
    BY ExporterAssumption DEF StreamCounts
  <2>2. Cardinality(Active) = 0
    <3>1. Cardinality(Active) + Len(returning) = 0
      BY <2>1 DEF StreamCounts
    <3>2. Len(returning) \in Nat
      BY LenProperties DEF TypeOK, ControlTypeOK
    <3> QED
      BY <3>1, <3>2, FiniteCounts
  <2>3. Active = {}
    BY <2>2, FiniteCounts, FS_EmptySet
  <2>4. \A s \in Stream : spc[s] = "off" /\ wpc[s] = "off"
    BY <2>3 DEF Active, TypeOK, StreamTypeOK
  <2>5. ASSUME ready # <<>> PROVE ShuttingDown
    <3>1. Head(ready) \in Stream /\ Head(ready) = ready[1] /\ 1 \in 1..Len(ready)
      BY <2>5, HeadTailProperties, LenProperties, EmptySeq DEF TypeOK, ControlTypeOK
    <3>2. IsPlaced(Head(ready))
      BY <3>1 DEF IsPlaced, Occurs
    <3> QED
      BY <2>4, <3>1, <3>2 DEF PlacedHasWriter, IsSearching
  <2> QED
    BY <2>4, <2>5
<1> QED
  BY <1>1, TypeCorrect, PlacedStreamsHaveWriters, StreamsCounted, PTL

\* When Shutdown has returned, the controller has, and no stream runs any more.
THEOREM ShutdownWaits == Spec => []ShutdownWaitsForStreams
<1>1. TypeOK /\ StreamCounts => ShutdownWaitsForStreams
  BY DEF ShutdownWaitsForStreams, StreamCounts, Unfinished, TypeOK, StreamTypeOK
<1> QED
  BY <1>1, TypeCorrect, StreamsCounted, PTL

-----------------------------------------------------------------------------
(***************************************************************************)
(* Room in the ready channel.  The streams that are in it, or that may yet *)
(* be sent to it, are never more than NumStreams: before shutdown each of  *)
(* them is active, and from then on none joins them.                       *)
(***************************************************************************)

MayBeReady(s) ==
  \/ Occurs(s, ready) \/ HeldByRemover(s)
  \/ wpc[s] \notin {"off", "done"}
  \/ spc[s] = "dialing"
  \/ spc[s] = "spawned" /\ ~ShuttingDown

Eligible == {s \in Stream : MayBeReady(s)}

ReadyCandidates == Cardinality(Eligible) <= NumStreams

LEMMA FiniteEligible == IsFiniteSet(Eligible) /\ Cardinality(Eligible) \in Nat
<1>1. Eligible \in SUBSET Stream
  BY DEF Eligible
<1>2. IsFiniteSet(Eligible)
  BY <1>1, StreamAssumption, FS_Subset
<1> QED
  BY <1>2, FS_CardinalityType

\* Elements that do not repeat are no more than the set they come from has.
LEMMA LengthBound ==
  ASSUME NEW S, NEW q \in Seq(S), NoDuplicates(q), NEW T, IsFiniteSet(T),
         \A i \in 1..Len(q) : q[i] \in T
  PROVE  Len(q) <= Cardinality(T)
<1> DEFINE f == [i \in 1..Len(q) |-> q[i]]
<1>1. Len(q) \in Nat
  BY LenProperties
<1>2. f \in Injection(1..Len(q), T)
  BY DEF NoDuplicates, Injection, IsInjective
<1>3. Cardinality(1..Len(q)) = Len(q)
  BY <1>1, FS_Interval
<1> HIDE DEF f
<1>4. Cardinality(1..Len(q)) <= Cardinality(T)
  BY <1>2, FS_Injection
<1> QED
  BY <1>3, <1>4

\* Until shutdown the streams that may be ready have a goroutine that runs.
LEMMA EligibleIsActive ==
  TypeOK /\ PlacedHasWriter /\ ~ShuttingDown => Eligible \subseteq Active
<1> SUFFICES ASSUME TypeOK, PlacedHasWriter, ~ShuttingDown, NEW s \in Eligible
             PROVE  s \in Active
  OBVIOUS
<1>1. s \in Stream /\ MayBeReady(s)
  BY DEF Eligible
<1>2. Occurs(s, ready) \/ HeldByRemover(s) => wpc[s] # "off"
  BY <1>1 DEF PlacedHasWriter, IsPlaced, IsSearching
<1>3. wpc[s] # "off" \/ spc[s] \in {"dialing", "spawned"}
  BY <1>1, <1>2 DEF MayBeReady
<1> QED
  BY <1>1, <1>3 DEF Active, TypeOK, StreamTypeOK

LEMMA ActiveBound == StreamCounts /\ TypeOK => Cardinality(Active) <= NumStreams
<1> SUFFICES ASSUME StreamCounts, TypeOK PROVE Cardinality(Active) <= NumStreams
  OBVIOUS
<1>1. Cardinality(Active) \in Nat /\ Len(returning) \in Nat /\ NumStreams \in Nat
  BY FiniteCounts, LenProperties, ExporterAssumption DEF TypeOK, ControlTypeOK
<1>2. CASE cpc = "spawn"
  <2>1. Active = {}
    BY <1>2 DEF StreamCounts
  <2>2. Cardinality(Active) = 0
    BY <2>1, FS_EmptySet
  <2> QED
    BY <1>1, <2>2
<1>3. CASE cpc # "spawn"
  BY <1>1, <1>3 DEF StreamCounts
<1> QED
  BY <1>2, <1>3

\* From shutdown on no stream becomes one that may be ready.
LEMMA EligibleShrinks ==
  ASSUME TypeOK, OnePlace, [Next]_vars, ShuttingDown', NEW t \in Stream, MayBeReady(t)'
  PROVE  MayBeReady(t)
<1> USE DEF TypeOK, StreamTypeOK, ControlTypeOK
<1>0. ASSUME UNCHANGED <<ready, alternate>>,
             wpc'[t] \in {"off", "done"} \/ wpc[t] \notin {"off", "done"}
                         \/ spc[t] = "dialing",
             spc'[t] = "dialing" => MayBeReady(t)
      PROVE  MayBeReady(t)
  BY <1>0 DEF MayBeReady, Occurs, HeldByRemover, ShuttingDown
<1>1. ASSUME NEW s \in Stream, RunnerNext(s) PROVE MayBeReady(t)
  <2>1. UNCHANGED <<ready, alternate, shutdown>>
    BY <1>1 DEF RunnerNext, Dial, Connect, ConnectFails, ReceiveSomeStatus, ReceiveStatus,
       ReceiveError, Finish, Return
  <2>2. CASE Dial(s)
    BY <2>1, <2>2 DEF Dial, MayDial, ContextDone, ShuttingDown
  <2>3. CASE Connect(s)
    BY <1>0, <2>1, <2>3 DEF Connect, MayBeReady
  <2>4. CASE ConnectFails(s) \/ ReceiveError(s) \/ Return(s)
    BY <1>0, <2>1, <2>4
       DEF ConnectFails, ReceiveError, StopReading, Return, MayBeReady
  <2>5. CASE ReceiveSomeStatus(s)
    <3>1. /\ wpc' = wpc
          /\ spc' = spc \/ spc' = [spc EXCEPT ![s] = "stopping"]
      BY <2>5 DEF ReceiveSomeStatus, ReceiveStatus, StopReading
    <3> QED
      BY <1>0, <2>1, <3>1 DEF MayBeReady
  <2>6. CASE Finish(s)
    BY <1>0, <2>1, <2>6 DEF Finish, MayBeReady
  <2> QED
    BY <1>1, <2>2, <2>3, <2>4, <2>5, <2>6 DEF RunnerNext
<1>2. ASSUME NEW s \in Stream, WriterNext(s) PROVE MayBeReady(t)
  <2>1. spc' = spc /\ shutdown' = shutdown
    BY <1>2 DEF WriterNext, SetReady, TakeItem, SeeContextDone, Encode, EncodeFails, Send,
       SendFails, RemoveOnShutdown, RemoveSelf, RemoveOther, PutBack, RemoveItem
  <2>2. wpc'[t] \in {"off", "done"} \/ wpc[t] \notin {"off", "done"}
    BY <1>2 DEF WriterNext, SetReady, TakeItem, SeeContextDone, Encode, EncodeFails, Send,
       SendFails, RemoveOnShutdown, RemoveSelf, RemoveOther, PutBack, RemoveItem,
       StopWriting, RemoveWhenContextDone
  <2>3. ASSUME Occurs(t, ready') \/ HeldByRemover(t)' PROVE MayBeReady(t)
    <3>1. CASE SetReady(s)
      <4>1. ready' = Append(ready, s) /\ alternate' = alternate /\ wpc[s] = "setReady"
        BY <3>1 DEF SetReady
      <4>2. \A y : Occurs(y, ready') <=> Occurs(y, ready) \/ y = s
        BY <4>1, AppendOnce DEF OnePlace, Publishing
      <4> QED
        BY <2>3, <4>1, <4>2 DEF MayBeReady, HeldByRemover
    <3>2. CASE RemoveSelf(s) \/ RemoveOther(s)
      <4>1. /\ ready # <<>> /\ ready' = Tail(ready)
            /\ alternate' = alternate \/ alternate' = [alternate EXCEPT ![s] = Head(ready)]
        BY <3>2 DEF RemoveSelf, RemoveOther
      <4>2. /\ Occurs(Head(ready), ready)
            /\ \A y : Occurs(y, ready') <=> Occurs(y, ready) /\ y # Head(ready)
        BY <4>1, TailOnce DEF OnePlace
      <4> QED
        BY <2>3, <4>1, <4>2 DEF MayBeReady, HeldByRemover
    <3>3. CASE PutBack(s)
      <4>1. /\ alternate[s] \in Stream /\ HeldByRemover(alternate[s])
            /\ ready' = Append(ready, alternate[s])
            /\ alternate' = [alternate EXCEPT ![s] = NoStream]
        BY <3>3 DEF PutBack, Requeue, HeldByRemover
      <4>2. \A y : Occurs(y, ready') <=> Occurs(y, ready) \/ y = alternate[s]
        BY <4>1, AppendOnce DEF OnePlace
      <4>3. HeldByRemover(t)' => HeldByRemover(t)
        BY <4>1, ExporterAssumption DEF HeldByRemover
      <4> QED
        BY <2>3, <4>1, <4>2, <4>3 DEF MayBeReady
    <3>4. CASE UNCHANGED <<ready, alternate>>
      BY <2>3, <3>4 DEF MayBeReady, Occurs, HeldByRemover
    <3> QED
      BY <1>2, <3>1, <3>2, <3>3, <3>4 DEF WriterNext, TakeItem, SeeContextDone, Encode,
         EncodeFails, Send, SendFails, RemoveOnShutdown, RemoveItem
  <2> QED
    BY <2>1, <2>2, <2>3 DEF MayBeReady, ShuttingDown
<1>3. ASSUME NEW r \in Request, CallerNext(r) PROVE MayBeReady(t)
  <2>1. UNCHANGED <<spc, wpc, alternate, shutdown>>
    BY <1>3 DEF CallerNext, Call, TakeStream, FallBack, ExpireBeforeStream,
       CredentialsError, HandOff, Retry, Answered, ExpireAwaiting
  <2>2. Occurs(t, ready') => Occurs(t, ready)
    <3>1. CASE TakeStream(r)
      <4>1. ready # <<>> /\ ready' = Tail(ready)
        BY <3>1 DEF TakeStream, DequeueReady
      <4> QED
        BY <4>1, TailOnce DEF OnePlace
    <3>2. TakeStream(r) \/ ready' = ready
      BY <1>3 DEF CallerNext, Call, FallBack, ExpireBeforeStream, CredentialsError, HandOff,
         Retry, Answered, ExpireAwaiting
    <3> QED
      BY <3>1, <3>2
  <2> QED
    BY <2>1, <2>2 DEF MayBeReady, HeldByRemover, ShuttingDown
<1>4. CASE ControllerNext
  <2>1. UNCHANGED <<ready, alternate, wpc>>
    BY <1>4 DEF ControllerNext, SpawnInitialStreams, RestartStream, AbandonStream,
       ControllerStops
  <2>2. spc'[t] = spc[t] \/ spc'[t] = "spawned"
    <3>1. ASSUME NEW S, Spawn(S) PROVE spc'[t] = spc[t] \/ spc'[t] = "spawned"
      BY <3>1 DEF Spawn
    <3> QED
      BY <1>4, <3>1 DEF ControllerNext, SpawnInitialStreams, RestartStream, AbandonStream,
         ControllerStops
  <2> QED
    BY <1>0, <2>1, <2>2 DEF MayBeReady
<1>5. CASE ShutdownNext \/ Terminated \/ UNCHANGED vars
  <2>1. UNCHANGED <<ready, alternate, spc, wpc>>
    BY <1>5 DEF ShutdownNext, Shutdown, ShutdownReturns, Terminated
  <2> QED
    BY <1>0, <2>1 DEF MayBeReady
<1> QED
  BY <1>1, <1>2, <1>3, <1>4, <1>5 DEF Next

LEMMA CandidatesStep ==
  /\ TypeOK /\ OnePlace /\ PlacedHasWriter /\ StreamCounts /\ ReadyCandidates /\ [Next]_vars
  /\ TypeOK' /\ PlacedHasWriter' /\ StreamCounts'
  => ReadyCandidates'
<1> SUFFICES ASSUME TypeOK, OnePlace, ReadyCandidates, [Next]_vars,
                    TypeOK', PlacedHasWriter', StreamCounts'
             PROVE  ReadyCandidates'
  OBVIOUS
<1>0. NumStreams \in Nat
  BY ExporterAssumption
<1>1. CASE ShuttingDown'
  <2>1. Eligible' \in SUBSET Eligible
    BY <1>1, EligibleShrinks DEF Eligible
  <2>2. Cardinality(Eligible') \in Nat /\ Cardinality(Eligible') <= Cardinality(Eligible)
    BY <2>1, FiniteEligible, FS_Subset, FS_CardinalityType
  <2> QED
    BY <1>0, <2>2, FiniteEligible DEF ReadyCandidates
<1>2. CASE ~ShuttingDown'
  <2>1. (TypeOK /\ PlacedHasWriter /\ ~ShuttingDown => Eligible \subseteq Active)'
    BY EligibleIsActive, PTL
  <2>2. (StreamCounts /\ TypeOK => Cardinality(Active) <= NumStreams)'
    BY ActiveBound, PTL
  <2>3. Eligible' \in SUBSET Active' /\ Active' \in SUBSET Stream
    BY <1>2, <2>1 DEF Active
  <2>4. IsFiniteSet(Active')
    BY <2>3, StreamAssumption, FS_Subset
  <2>5. /\ Cardinality(Eligible') \in Nat /\ Cardinality(Active') \in Nat
        /\ Cardinality(Eligible') <= Cardinality(Active')
    BY <2>3, <2>4, FS_Subset, FS_CardinalityType
  <2>6. Cardinality(Active') <= NumStreams
    BY <2>2
  <2> QED
    BY <1>0, <2>5, <2>6 DEF ReadyCandidates
<1> QED
  BY <1>1, <1>2

\* A stream that is sent to the ready channel is a candidate it does not hold.
THEOREM ReadyHasRoom == Spec => []ReadyNeverOverflows
<1>1. Init => ReadyCandidates
  <2> SUFFICES ASSUME Init PROVE ReadyCandidates
    OBVIOUS
  <2>1. TypeOK /\ PlacedHasWriter /\ StreamCounts /\ ~ShuttingDown
    BY TypeInit, PlacesInit, CountsInit DEF Init, ShuttingDown
  <2>2. Eligible \in SUBSET Active
    BY <2>1, EligibleIsActive
  <2>3. Cardinality(Eligible) <= Cardinality(Active) /\ Cardinality(Active) <= NumStreams
    BY <2>1, <2>2, FiniteCounts, FS_Subset, ActiveBound
  <2> QED
    BY <2>3, FiniteEligible, FiniteCounts, ExporterAssumption DEF ReadyCandidates
<1>2. TypeOK /\ OnePlace /\ ReadyCandidates => ReadyNeverOverflows
  <2> SUFFICES ASSUME TypeOK, OnePlace, ReadyCandidates, NEW s \in Stream,
                      wpc[s] \in {"setReady", "putBack"}
               PROVE  Len(ready) < NumStreams
    BY DEF ReadyNeverOverflows
  <2> USE DEF TypeOK, StreamTypeOK, ControlTypeOK
  <2>1. PICK u \in Stream : MayBeReady(u) /\ ~Occurs(u, ready)
    <3>1. CASE wpc[s] = "setReady"
      BY <3>1 DEF MayBeReady, OnePlace, Publishing
    <3>2. CASE wpc[s] = "putBack"
      <4>1. alternate[s] \in Stream /\ HeldByRemover(alternate[s])
        BY <3>2 DEF HeldByRemover
      <4> QED
        BY <4>1 DEF MayBeReady, OnePlace
    <3> QED
      BY <3>1, <3>2
  <2> DEFINE q == Append(ready, u)
  <2>2. NoDuplicates(q) /\ \A y : Occurs(y, q) <=> Occurs(y, ready) \/ y = u
    BY <2>1, AppendOnce DEF OnePlace
  <2>3. q \in Seq(Stream) /\ Len(q) = Len(ready) + 1 /\ Len(ready) \in Nat
    BY AppendProperties, LenProperties
  <2> HIDE DEF q
  <2>4. \A i \in 1..Len(q) : q[i] \in Eligible
    <3> SUFFICES ASSUME NEW i \in 1..Len(q) PROVE q[i] \in Eligible
      OBVIOUS
    <3>1. Occurs(q[i], q)
      BY DEF Occurs
    <3>2. q[i] \in Stream
      BY <2>3, ElementOfSeq
    <3> QED
      BY <2>1, <2>2, <3>1, <3>2 DEF Eligible, MayBeReady
  <2>5. Len(q) <= Cardinality(Eligible)
    BY <2>2, <2>3, <2>4, FiniteEligible, LengthBound
  <2> QED
    BY <2>3, <2>5, FiniteEligible, ExporterAssumption DEF ReadyCandidates
<1>3. Spec => []ReadyCandidates
  BY <1>1, CandidatesStep, TypeCorrect, StreamInOnePlace, PlacedStreamsHaveWriters,
     StreamsCounted, PTL DEF Spec
<1> QED
  BY <1>2, <1>3, TypeCorrect, StreamInOnePlace, PTL

-----------------------------------------------------------------------------
(***************************************************************************)
(* Batches.  SentBatchHasItsWaiter needs to know that an ID is not reused  *)
(* while its batch is outstanding, and that the writer, between its        *)
(* registration of the call and its send, is not forgotten by the reader.  *)
(***************************************************************************)

\* Nothing is known of a batch of stream s from id on.
UnusedFrom(s, id) ==
  \A i \in BatchId : i >= id => waiters[s][i] = NoRequest /\ sent[s][i] = NoRequest

BatchesOf(s) ==
  /\ UnusedFrom(s, batchId[s])
  /\ wpc[s] = "off" => UnusedFrom(s, 0)
  /\ wpc[s] = "send" =>
       /\ batchId[s] - 1 \in BatchId
       /\ waiters[s][batchId[s] - 1] = item[s]
       /\ sent[s][batchId[s] - 1] = NoRequest
  /\ spc[s] = "read" =>
       \A id \in BatchId : sent[s][id] # NoRequest => waiters[s][id] = sent[s][id]

Batches == \A s \in Stream : BatchesOf(s)

LEMMA BatchesInit == Init => Batches
  BY ExporterAssumption DEF Init, Batches, BatchesOf, UnusedFrom, NoBatches

\* A step that touches no batch and moves no goroutine of stream s into the
\* places the invariant is about.
LEMMA BatchesQuiet ==
  ASSUME NEW s \in Stream, BatchesOf(s),
         UNCHANGED <<waiters[s], sent[s], batchId[s]>>,
         wpc'[s] = "off" => wpc[s] = "off",
         wpc'[s] = "send" => wpc[s] = "send" /\ item'[s] = item[s],
         spc'[s] = "read" => spc[s] = "read"
  PROVE  BatchesOf(s)'
  BY DEF BatchesOf, UnusedFrom

LEMMA BatchesRunner ==
  ASSUME NEW s \in Stream, TypeOK, Batches, RunnerNext(s)
  PROVE  Batches'
<1> SUFFICES ASSUME NEW t \in Stream PROVE BatchesOf(t)'
  BY DEF Batches
<1> USE DEF TypeOK, StreamTypeOK
<1>0. BatchesOf(t) /\ BatchesOf(s)
  BY DEF Batches
<1>1. CASE Dial(s)
  BY <1>0, <1>1, BatchesQuiet DEF Dial
<1>2. CASE Connect(s)
  <2>1. CASE t # s
    BY <1>0, <1>2, <2>1, BatchesQuiet DEF Connect
  <2>2. wpc[s] = "off" /\ wpc' = [wpc EXCEPT ![s] = "setReady"]
        /\ spc' = [spc EXCEPT ![s] = "read"]
        /\ UNCHANGED <<waiters, sent, batchId>>
    BY <1>2 DEF Connect
  <2>3. \A id \in BatchId : sent[s][id] = NoRequest
    BY <1>0, <2>2, ExporterAssumption DEF BatchesOf, UnusedFrom
  <2>4. CASE t = s
    BY <1>0, <2>2, <2>3, <2>4 DEF BatchesOf, UnusedFrom
  <2> QED
    BY <2>1, <2>4
<1>3. CASE ConnectFails(s)
  BY <1>0, <1>3, BatchesQuiet DEF ConnectFails
<1>4. CASE ReceiveSomeStatus(s)
  <2>1. PICK ids \in SUBSET {id \in BatchId : sent[s][id] # NoRequest} :
          \E code \in [ids -> StatusCode], stray \in BOOLEAN :
            ReceiveStatus(s, ids, code, stray)
    BY <1>4 DEF ReceiveSomeStatus
  <2>2. /\ waiters' = [waiters EXCEPT ![s] =
              [id \in BatchId |-> IF id \in ids THEN NoRequest ELSE waiters[s][id]]]
        /\ sent' = [sent EXCEPT ![s] =
              [id \in BatchId |-> IF id \in ids THEN NoRequest ELSE sent[s][id]]]
        /\ UNCHANGED <<wpc, item, batchId>>
        /\ spc' = spc \/ spc' = [spc EXCEPT ![s] = "stopping"]
    BY <2>1 DEF ReceiveStatus, StopReading
  <2>3. CASE t # s
    BY <1>0, <2>2, <2>3, BatchesQuiet
  <2>4. CASE t = s
    BY <1>0, <2>2, <2>4 DEF BatchesOf, UnusedFrom
  <2> QED
    BY <2>3, <2>4
<1>5. CASE ReceiveError(s)
  BY <1>0, <1>5, BatchesQuiet DEF ReceiveError, StopReading
<1>6. CASE Finish(s)
  <2>1. CASE t # s
    BY <1>0, <1>6, <2>1, BatchesQuiet DEF Finish
  <2>2. CASE t = s
    BY <1>6, <2>2 DEF Finish, BatchesOf, UnusedFrom, NoBatches
  <2> QED
    BY <2>1, <2>2
<1>7. CASE Return(s)
  BY <1>0, <1>7, BatchesQuiet DEF Return
<1> QED
  BY <1>1, <1>2, <1>3, <1>4, <1>5, <1>6, <1>7 DEF RunnerNext

LEMMA BatchesWriter ==
  ASSUME NEW s \in Stream, TypeOK, Batches, WriterNext(s)
  PROVE  Batches'
<1> SUFFICES ASSUME NEW t \in Stream PROVE BatchesOf(t)'
  BY DEF Batches
<1> USE DEF TypeOK, StreamTypeOK
<1>0. BatchesOf(t) /\ BatchesOf(s)
  BY DEF Batches
<1>1. CASE SetReady(s) \/ TakeItem(s) \/ SeeContextDone(s) \/ EncodeFails(s)
           \/ SendFails(s)
  BY <1>0, <1>1, BatchesQuiet
     DEF SetReady, TakeItem, SeeContextDone, RemoveWhenContextDone, EncodeFails,
         SendFails, StopWriting
<1>2. CASE RemoveOnShutdown(s) \/ RemoveSelf(s) \/ RemoveItem(s)
  <2>1. /\ UNCHANGED <<waiters, sent, batchId, spc>>
        /\ wpc' = [wpc EXCEPT ![s] = "done"] /\ item' = [item EXCEPT ![s] = NoRequest]
    BY <1>2 DEF RemoveOnShutdown, RemoveSelf, RemoveItem, StopWriting
  <2> QED
    BY <1>0, <2>1, BatchesQuiet
<1>5. CASE RemoveOther(s) \/ PutBack(s)
  <2>1. /\ UNCHANGED <<waiters, sent, batchId, spc, item>>
        /\ \E pc \in {"putBack", "remove"} : wpc' = [wpc EXCEPT ![s] = pc]
    BY <1>5 DEF RemoveOther, PutBack
  <2> QED
    BY <1>0, <2>1, BatchesQuiet
<1>3. CASE Encode(s)
  <2>1. /\ batchId[s] \in BatchId /\ batchId[s] \in Nat /\ wpc[s] = "encode"
        /\ waiters' = [waiters EXCEPT ![s][batchId[s]] = item[s]]
        /\ batchId' = [batchId EXCEPT ![s] = batchId[s] + 1]
        /\ wpc' = [wpc EXCEPT ![s] = "send"]
        /\ UNCHANGED <<spc, item, sent>>
    BY <1>3 DEF Encode, Registered
  <2>2. CASE t # s
    BY <1>0, <2>1, <2>2, BatchesQuiet
  <2>3. sent[s][batchId[s]] = NoRequest
    BY <1>0, <2>1 DEF BatchesOf, UnusedFrom
  <2>4. /\ waiters'[s][batchId[s]] = item[s]
        /\ \A id \in BatchId \ {batchId[s]} : waiters'[s][id] = waiters[s][id]
        /\ batchId'[s] = batchId[s] + 1 /\ batchId'[s] - 1 = batchId[s]
        /\ wpc'[s] = "send" /\ item'[s] = item[s] /\ sent'[s] = sent[s] /\ spc'[s] = spc[s]
    BY <2>1
  <2>5. UnusedFrom(s, batchId[s])
    BY <1>0 DEF BatchesOf
  <2>7. ASSUME NEW i \in BatchId, i >= batchId[s] + 1
        PROVE  waiters'[s][i] = NoRequest /\ sent'[s][i] = NoRequest
    <3>1. i \in Nat /\ i >= batchId[s] /\ i # batchId[s]
      BY <2>1, <2>7, ExporterAssumption
    <3> QED
      BY <2>4, <2>5, <3>1 DEF UnusedFrom
  <2>8. CASE t = s
    BY <1>0, <2>1, <2>3, <2>4, <2>7, <2>8 DEF BatchesOf, UnusedFrom
  <2> QED
    BY <2>2, <2>8
<1>4. CASE Send(s)
  <2>1. /\ wpc[s] = "send"
        /\ sent' = [sent EXCEPT ![s][batchId[s] - 1] = item[s]]
        /\ wpc' = [wpc EXCEPT ![s] = "setReady"]
        /\ UNCHANGED <<spc, waiters, batchId>>
        /\ \A u \in Stream \ {s} : item'[u] = item[u]
    BY <1>4 DEF Send
  <2>2. CASE t # s
    BY <1>0, <2>1, <2>2, BatchesQuiet
  <2>3. /\ batchId[s] \in Nat /\ batchId[s] - 1 \in BatchId
        /\ waiters[s][batchId[s] - 1] = item[s]
    BY <1>0, <2>1 DEF BatchesOf
  <2>4. /\ sent'[s][batchId[s] - 1] = item[s]
        /\ \A id \in BatchId \ {batchId[s] - 1} : sent'[s][id] = sent[s][id]
        /\ \A id \in BatchId : id >= batchId[s] => id # batchId[s] - 1
    BY <2>1, <2>3
  <2>5. CASE t = s
    BY <1>0, <2>1, <2>3, <2>4, <2>5 DEF BatchesOf, UnusedFrom
  <2> QED
    BY <2>2, <2>5
<1> QED
  BY <1>1, <1>2, <1>3, <1>4, <1>5 DEF WriterNext

LEMMA BatchesStep == TypeOK /\ Batches /\ [Next]_vars => Batches'
<1> SUFFICES ASSUME TypeOK, Batches, [Next]_vars PROVE Batches'
  OBVIOUS
<1>1. ASSUME UNCHANGED <<waiters, sent, batchId, wpc, item>>,
             \A s \in Stream : spc'[s] = "read" => spc[s] = "read"
      PROVE  Batches'
  BY <1>1, BatchesQuiet DEF Batches
<1>2. CASE ControllerNext
  BY <1>1, <1>2
     DEF ControllerNext, SpawnInitialStreams, RestartStream, AbandonStream,
         ControllerStops, Spawn
<1>3. CASE \E r \in Request : CallerNext(r)
  BY <1>1, <1>3
     DEF CallerNext, Call, TakeStream, FallBack, ExpireBeforeStream, CredentialsError,
         HandOff, Retry, Answered, ExpireAwaiting
<1>4. CASE ShutdownNext \/ Terminated \/ UNCHANGED vars
  BY <1>1, <1>4 DEF ShutdownNext, Shutdown, ShutdownReturns, Terminated
<1> QED
  BY <1>2, <1>3, <1>4, BatchesRunner, BatchesWriter DEF Next

\* The invariant of the batches of every stream.
THEOREM BatchesTracked == Spec => []Batches
  BY TypeCorrect, BatchesInit, BatchesStep, PTL DEF Spec

\* A status for a batch the server holds finds the call whose records it
\* judges, as long as the reader reads.
THEOREM StatusFindsWaiter == Spec => []SentBatchHasItsWaiter
<1>1. Batches => SentBatchHasItsWaiter
  BY DEF Batches, BatchesOf, SentBatchHasItsWaiter
<1> QED
  BY <1>1, BatchesTracked, PTL

-----------------------------------------------------------------------------
(***************************************************************************)
(* Replies.  A call is owed at most one reply: its item is queued for a    *)
(* stream, or with the writer, or registered with the reader, and once     *)
(* the reply is in the response channel it is nowhere else.                *)
(***************************************************************************)

Encoding(r, s) == wpc[s] = "encode" /\ item[s] = r

IsQueued(r) == \E s \in Stream : toWrite[s] = r
IsEncoding(r) == \E s \in Stream : Encoding(r, s)
IsWaiting(r) == \E s \in Stream, id \in BatchId : waiters[s][id] = r

IsOwed(r) == IsQueued(r) \/ IsEncoding(r) \/ IsWaiting(r)

\* No two streams, and no two batches, owe call r a reply.
OwedOnce(r) ==
  /\ \A s, t \in Stream : toWrite[s] = r /\ toWrite[t] = r => s = t
  /\ \A s, t \in Stream : Encoding(r, s) /\ Encoding(r, t) => s = t
  /\ \A s, t \in Stream, i, j \in BatchId :
       waiters[s][i] = r /\ waiters[t][j] = r => s = t /\ i = j
  /\ IsQueued(r) => ~IsEncoding(r) /\ ~IsWaiting(r)
  /\ IsEncoding(r) => ~IsWaiting(r)

RepliesOf(r) ==
  /\ OwedOnce(r)
  /\ errCh[r] # "empty" => ~IsOwed(r)
  /\ rpc[r] \in {"idle", "choose", "holding"} => ~IsOwed(r) /\ errCh[r] = "empty"
  /\ rpc[r] = "await" => IsOwed(r) \/ errCh[r] # "empty"

Replies == \A r \in Request : RepliesOf(r)

LEMMA RepliesInit == Init => Replies
  BY ExporterAssumption
     DEF Init, Replies, RepliesOf, OwedOnce, IsOwed, IsQueued, IsEncoding, IsWaiting,
         Encoding, NoBatches

\* A step that moves no item of call r keeps what it is owed ...
SameOwed(r) ==
  /\ \A s \in Stream : toWrite'[s] = r <=> toWrite[s] = r
  /\ \A s \in Stream : Encoding(r, s)' <=> Encoding(r, s)
  /\ \A s \in Stream, id \in BatchId : waiters'[s][id] = r <=> waiters[s][id] = r

LEMMA OwedSame ==
  ASSUME NEW r \in Request, SameOwed(r)
  PROVE  /\ OwedOnce(r) => OwedOnce(r)'
         /\ IsOwed(r)' <=> IsOwed(r)
         /\ IsQueued(r)' <=> IsQueued(r)
         /\ IsEncoding(r)' <=> IsEncoding(r)
         /\ IsWaiting(r)' <=> IsWaiting(r)
  BY DEF SameOwed, OwedOnce, IsOwed, IsQueued, IsEncoding, IsWaiting

\* ... and if neither its channel nor its program counter changes, the invariant.
LEMMA RepliesQuiet ==
  ASSUME NEW r \in Request, RepliesOf(r), SameOwed(r),
         errCh'[r] = errCh[r], rpc'[r] = rpc[r]
  PROVE  RepliesOf(r)'
  BY OwedSame DEF RepliesOf

\* The reply to call r, which is owed in one place, is put in its channel.
LEMMA RepliesAnswered ==
  ASSUME NEW r \in Request, RepliesOf(r), IsOwed(r), ~IsOwed(r)',
         rpc'[r] = rpc[r], errCh'[r] # "empty"
  PROVE  RepliesOf(r)'
  BY DEF RepliesOf, OwedOnce, IsOwed, IsQueued, IsEncoding, IsWaiting

LEMMA RepliesRunner ==
  ASSUME NEW s \in Stream, TypeOK, Batches, Replies, RunnerNext(s)
  PROVE  Replies'
<1> SUFFICES ASSUME NEW r \in Request PROVE RepliesOf(r)'
  BY DEF Replies
<1> USE DEF TypeOK, StreamTypeOK
<1>0. RepliesOf(r)
  BY DEF Replies
<1>1. CASE Dial(s) \/ Connect(s) \/ ConnectFails(s) \/ ReceiveError(s) \/ Return(s)
  <2>1. /\ UNCHANGED <<toWrite, item, waiters, errCh, rpc>>
        /\ \A t \in Stream : wpc'[t] = "encode" <=> wpc[t] = "encode"
    BY <1>1 DEF Dial, Connect, ConnectFails, ReceiveError, StopReading, Return
  <2>2. SameOwed(r)
    BY <2>1 DEF SameOwed, Encoding
  <2> QED
    BY <1>0, <2>1, <2>2, RepliesQuiet
<1>2. CASE ReceiveSomeStatus(s)
  <2>1. PICK ids \in SUBSET {id \in BatchId : sent[s][id] # NoRequest} :
          \E code \in [ids -> StatusCode], stray \in BOOLEAN :
            ReceiveStatus(s, ids, code, stray)
    BY <1>2 DEF ReceiveSomeStatus
  <2> DEFINE answered == {id \in ids : waiters[s][id] = r}
  <2>2. /\ waiters' = [waiters EXCEPT ![s] =
              [id \in BatchId |-> IF id \in ids THEN NoRequest ELSE waiters[s][id]]]
        /\ UNCHANGED <<toWrite, wpc, item, rpc>>
    BY <2>1 DEF ReceiveStatus
  <2>3. {id \in {i \in ids : waiters[s][i] # NoRequest} : waiters[s][id] = r} = answered
    BY ExporterAssumption
  <2>4. IF answered = {} THEN errCh'[r] = errCh[r] ELSE errCh'[r] # "empty"
    <3>1. PICK code : errCh'[r] =
            IF {id \in {i \in ids : waiters[s][i] # NoRequest} : waiters[s][id] = r} = {}
            THEN errCh[r]
            ELSE AnswerFor(code[CHOOSE id \in
                   {id \in {i \in ids : waiters[s][i] # NoRequest} : waiters[s][id] = r} : TRUE])
      BY <2>1 DEF ReceiveStatus
    <3>2. \A c : AnswerFor(c) # "empty"
      BY DEF AnswerFor
    <3> QED
      BY <2>3, <3>1, <3>2
  <2>5. CASE answered = {}
    <3>1. SameOwed(r)
      BY <2>2, <2>5, ExporterAssumption DEF SameOwed, Encoding
    <3> QED
      BY <1>0, <2>2, <2>4, <2>5, <3>1, RepliesQuiet
  <2>6. CASE answered # {}
    <3>1. PICK id \in ids : waiters[s][id] = r
      BY <2>6
    <3>2. id \in BatchId /\ IsWaiting(r) /\ ~IsQueued(r) /\ ~IsEncoding(r)
          /\ \A t \in Stream, j \in BatchId : waiters[t][j] = r => t = s /\ j = id
      BY <1>0, <3>1 DEF RepliesOf, OwedOnce, IsWaiting
    <3>3. \A t \in Stream, j \in BatchId : waiters'[t][j] # r
      BY <2>2, <3>1, <3>2, ExporterAssumption
    <3>4. ~IsOwed(r)'
      BY <2>2, <3>2, <3>3 DEF IsOwed, IsQueued, IsEncoding, IsWaiting, Encoding
    <3> QED
      BY <1>0, <2>2, <2>4, <2>6, <3>2, <3>4, RepliesAnswered DEF IsOwed
  <2> QED
    BY <2>5, <2>6
<1>3. CASE Finish(s)
  <2>1. /\ waiters' = [waiters EXCEPT ![s] = NoBatches]
        /\ wpc[s] = "done" /\ wpc' = [wpc EXCEPT ![s] = "off"]
        /\ UNCHANGED <<toWrite, item, rpc>>
        /\ errCh'[r] = IF r \in Outstanding(s) THEN "restarting" ELSE errCh[r]
    BY <1>3 DEF Finish
  <2>2. \A t \in Stream : Encoding(r, t)' <=> Encoding(r, t)
    BY <2>1 DEF Encoding
  <2>3. \A j \in BatchId : waiters'[s][j] # r
    BY <2>1, ExporterAssumption DEF NoBatches
  <2>4. CASE r \in Outstanding(s)
    <3>1. PICK id \in BatchId : waiters[s][id] = r
      BY <2>4 DEF Outstanding, CallsIn
    <3>2. IsWaiting(r) /\ ~IsQueued(r) /\ ~IsEncoding(r)
          /\ \A t \in Stream, j \in BatchId : waiters[t][j] = r => t = s
      BY <1>0, <3>1 DEF RepliesOf, OwedOnce, IsWaiting
    <3>3. ~IsOwed(r)'
      BY <2>1, <2>2, <2>3, <3>2 DEF IsOwed, IsQueued, IsEncoding, IsWaiting
    <3> QED
      BY <1>0, <2>1, <2>4, <3>2, <3>3, RepliesAnswered DEF IsOwed
  <2>5. CASE r \notin Outstanding(s)
    <3>1. \A id \in BatchId : waiters[s][id] # r
      BY <2>5, ExporterAssumption DEF Outstanding, CallsIn
    <3>2. SameOwed(r)
      BY <2>1, <2>2, <2>3, <3>1 DEF SameOwed
    <3> QED
      BY <1>0, <2>1, <2>5, <3>2, RepliesQuiet
  <2> QED
    BY <2>4, <2>5
<1> QED
  BY <1>1, <1>2, <1>3 DEF RunnerNext

LEMMA RepliesWriter ==
  ASSUME NEW s \in Stream, TypeOK, Batches, Replies, WriterNext(s)
  PROVE  Replies'
<1> SUFFICES ASSUME NEW r \in Request PROVE RepliesOf(r)'
  BY DEF Replies
<1> USE DEF TypeOK, StreamTypeOK
<1>0. RepliesOf(r) /\ BatchesOf(s)
  BY DEF Replies, Batches
<1>1. ASSUME UNCHANGED <<toWrite, waiters, errCh, rpc>>,
             \A t \in Stream : wpc'[t] = "encode" <=> wpc[t] = "encode",
             \A t \in Stream : wpc[t] = "encode" => item'[t] = item[t]
      PROVE  RepliesOf(r)'
  <2>1. SameOwed(r)
    BY <1>1 DEF SameOwed, Encoding
  <2> QED
    BY <1>0, <1>1, <2>1, RepliesQuiet
<1>2. CASE SetReady(s) \/ SeeContextDone(s) \/ Send(s) \/ SendFails(s)
  BY <1>1, <1>2
     DEF SetReady, SeeContextDone, RemoveWhenContextDone, Send, SendFails, StopWriting
<1>3. CASE RemoveOnShutdown(s) \/ RemoveSelf(s) \/ RemoveOther(s) \/ PutBack(s)
  BY <1>1, <1>3 DEF RemoveOnShutdown, RemoveSelf, RemoveOther, PutBack, StopWriting
<1>4. CASE TakeItem(s)
  <2>1. /\ wpc[s] = "select" /\ toWrite[s] # NoRequest
        /\ item' = [item EXCEPT ![s] = toWrite[s]]
        /\ toWrite' = [toWrite EXCEPT ![s] = NoRequest]
        /\ wpc' = [wpc EXCEPT ![s] = "encode"]
        /\ UNCHANGED <<waiters, errCh, rpc>>
    BY <1>4 DEF TakeItem
  <2>2. CASE toWrite[s] # r
    <3>1. SameOwed(r)
      BY <2>1, <2>2, ExporterAssumption DEF SameOwed, Encoding
    <3> QED
      BY <1>0, <2>1, <3>1, RepliesQuiet
  <2>3. CASE toWrite[s] = r
    <3>1. IsQueued(r) /\ ~IsEncoding(r) /\ ~IsWaiting(r) /\ IsOwed(r)
          /\ \A t \in Stream : toWrite[t] = r => t = s
      BY <1>0, <2>3 DEF RepliesOf, OwedOnce, IsQueued, IsOwed
    <3>2. ~IsQueued(r)'
      BY <2>1, <3>1, ExporterAssumption DEF IsQueued
    <3>3. ~IsWaiting(r)'
      BY <2>1, <3>1 DEF IsWaiting
    <3>4. \A t \in Stream : Encoding(r, t)' <=> t = s
      BY <2>1, <2>3, <3>1 DEF Encoding, IsEncoding
    <3>5. IsEncoding(r)' /\ IsOwed(r)'
      BY <3>4 DEF IsEncoding, IsOwed
    <3>6. OwedOnce(r)'
      BY <3>2, <3>3, <3>4 DEF OwedOnce, IsQueued, IsWaiting
    <3> QED
      BY <1>0, <2>1, <3>1, <3>5, <3>6 DEF RepliesOf
  <2> QED
    BY <2>2, <2>3
<1>5. CASE Encode(s)
  <2>1. /\ wpc[s] = "encode" /\ item[s] # NoRequest
        /\ batchId[s] \in BatchId
        /\ waiters' = [waiters EXCEPT ![s][batchId[s]] = item[s]]
        /\ wpc' = [wpc EXCEPT ![s] = "send"]
        /\ UNCHANGED <<toWrite, item, errCh, rpc>>
    BY <1>5 DEF Encode, Registered
  <2>2. waiters[s][batchId[s]] = NoRequest
    BY <1>0, <2>1 DEF BatchesOf, UnusedFrom
  <2>3. CASE item[s] # r
    <3>1. SameOwed(r)
      BY <2>1, <2>2, <2>3, ExporterAssumption DEF SameOwed, Encoding
    <3> QED
      BY <1>0, <2>1, <3>1, RepliesQuiet
  <2>4. CASE item[s] = r
    <3>1. IsEncoding(r) /\ ~IsQueued(r) /\ ~IsWaiting(r) /\ IsOwed(r)
          /\ \A t \in Stream : Encoding(r, t) => t = s
      BY <1>0, <2>1, <2>4 DEF RepliesOf, OwedOnce, IsEncoding, Encoding, IsOwed
    <3>2. ~IsQueued(r)'
      BY <2>1, <3>1 DEF IsQueued
    <3>3. ~IsEncoding(r)'
      BY <2>1, <3>1 DEF IsEncoding, Encoding
    <3>4. \A t \in Stream, j \in BatchId : waiters'[t][j] = r <=> t = s /\ j = batchId[s]
      BY <2>1, <2>4, <3>1 DEF IsWaiting
    <3>5. IsWaiting(r)' /\ IsOwed(r)'
      BY <2>1, <3>4 DEF IsWaiting, IsOwed
    <3>6. OwedOnce(r)'
      BY <3>2, <3>3, <3>4 DEF OwedOnce, IsQueued, IsEncoding
    <3> QED
      BY <1>0, <2>1, <3>1, <3>5, <3>6 DEF RepliesOf
  <2> QED
    BY <2>3, <2>4
<1>6. CASE EncodeFails(s)
  <2>1. /\ wpc[s] = "encode" /\ item[s] \in Request
        /\ errCh' = [errCh EXCEPT ![item[s]] = "permanent"]
        /\ wpc' = [wpc EXCEPT ![s] = "done"]
        /\ item' = [item EXCEPT ![s] = NoRequest]
        /\ UNCHANGED <<toWrite, waiters, rpc>>
    BY <1>6 DEF EncodeFails, StopWriting
  <2>2. errCh \in [Request -> Answer \cup {"empty"}]
    BY DEF CallTypeOK
  <2>3. CASE item[s] # r
    <3>1. SameOwed(r) /\ errCh'[r] = errCh[r]
      BY <2>1, <2>2, <2>3 DEF SameOwed, Encoding
    <3> QED
      BY <1>0, <2>1, <3>1, RepliesQuiet
  <2>4. CASE item[s] = r
    <3>1. IsEncoding(r) /\ ~IsQueued(r) /\ ~IsWaiting(r) /\ IsOwed(r)
          /\ \A t \in Stream : Encoding(r, t) => t = s
      BY <1>0, <2>1, <2>4 DEF RepliesOf, OwedOnce, IsEncoding, Encoding, IsOwed
    <3>2. ~IsOwed(r)'
      BY <2>1, <3>1 DEF IsOwed, IsQueued, IsEncoding, IsWaiting, Encoding
    <3>3. errCh'[r] # "empty"
      BY <2>1, <2>2, <2>4
    <3> QED
      BY <1>0, <2>1, <3>1, <3>2, <3>3, RepliesAnswered
  <2> QED
    BY <2>3, <2>4
<1>7. CASE RemoveItem(s)
  <2>1. /\ wpc[s] = "remove" /\ toWrite[s] \in Request
        /\ errCh' = [errCh EXCEPT ![toWrite[s]] = "restarting"]
        /\ toWrite' = [toWrite EXCEPT ![s] = NoRequest]
        /\ wpc' = [wpc EXCEPT ![s] = "done"]
        /\ item' = [item EXCEPT ![s] = NoRequest]
        /\ UNCHANGED <<waiters, rpc>>
    BY <1>7 DEF RemoveItem, StopWriting
  <2>2. errCh \in [Request -> Answer \cup {"empty"}]
    BY DEF CallTypeOK
  <2>3. CASE toWrite[s] # r
    <3>1. SameOwed(r) /\ errCh'[r] = errCh[r]
      BY <2>1, <2>2, <2>3, ExporterAssumption DEF SameOwed, Encoding
    <3> QED
      BY <1>0, <2>1, <3>1, RepliesQuiet
  <2>4. CASE toWrite[s] = r
    <3>1. IsQueued(r) /\ ~IsEncoding(r) /\ ~IsWaiting(r) /\ IsOwed(r)
          /\ \A t \in Stream : toWrite[t] = r => t = s
      BY <1>0, <2>4 DEF RepliesOf, OwedOnce, IsQueued, IsOwed
    <3>2. ~IsOwed(r)'
      BY <2>1, <3>1, ExporterAssumption
         DEF IsOwed, IsQueued, IsEncoding, IsWaiting, Encoding
    <3>3. errCh'[r] # "empty"
      BY <2>1, <2>2, <2>4
    <3> QED
      BY <1>0, <2>1, <3>1, <3>2, <3>3, RepliesAnswered
  <2> QED
    BY <2>3, <2>4
<1> QED
  BY <1>2, <1>3, <1>4, <1>5, <1>6, <1>7 DEF WriterNext

LEMMA RepliesCaller ==
  ASSUME NEW q \in Request, TypeOK, Batches, Replies, CallerNext(q)
  PROVE  Replies'
<1> SUFFICES ASSUME NEW r \in Request PROVE RepliesOf(r)'
  BY DEF Replies
<1> USE DEF TypeOK, StreamTypeOK, CallTypeOK
<1>0. RepliesOf(r)
  BY DEF Replies
\* A step that only moves the caller on, to a place with no more to expect.
<1>1. ASSUME UNCHANGED <<toWrite, wpc, item, waiters, errCh>>,
             NEW pc \in {"choose", "holding", "done"},
             rpc' = [rpc EXCEPT ![q] = pc],
             pc = "done" \/ rpc[q] \in {"idle", "choose"}
      PROVE  RepliesOf(r)'
  <2>1. SameOwed(r)
    BY <1>1 DEF SameOwed, Encoding
  <2> QED
    BY <1>0, <1>1, <2>1, OwedSame DEF RepliesOf
<1>2. CASE Call(q)
  BY <1>1, <1>2 DEF Call
<1>3. CASE TakeStream(q)
  BY <1>1, <1>3 DEF TakeStream
<1>4. CASE FallBack(q) \/ ExpireBeforeStream(q) \/ CredentialsError(q) \/ ExpireAwaiting(q)
  BY <1>1, <1>4
     DEF FallBack, ExpireBeforeStream, CredentialsError, ExpireAwaiting, ReturnToCaller
<1>5. CASE HandOff(q)
  <2>1. /\ rpc[q] = "holding" /\ toWrite[hold[q]] = NoRequest /\ hold[q] \in Stream
        /\ toWrite' = [toWrite EXCEPT ![hold[q]] = q]
        /\ errCh' = [errCh EXCEPT ![q] = "empty"]
        /\ rpc' = [rpc EXCEPT ![q] = "await"]
        /\ UNCHANGED <<wpc, item, waiters>>
    BY <1>5 DEF HandOff, HasRoom
  <2>2. CASE r # q
    <3>1. SameOwed(r) /\ errCh'[r] = errCh[r] /\ rpc'[r] = rpc[r]
      BY <2>1, <2>2, ExporterAssumption DEF SameOwed, Encoding
    <3> QED
      BY <1>0, <3>1, RepliesQuiet
  <2>3. CASE r = q
    <3>1. ~IsOwed(r)
      BY <1>0, <2>1, <2>3 DEF RepliesOf
    <3>2. ~IsEncoding(r)' /\ ~IsWaiting(r)'
      BY <2>1, <3>1 DEF IsOwed, IsEncoding, IsWaiting, Encoding
    <3>3. \A t \in Stream : toWrite'[t] = r <=> t = hold[q]
      BY <2>1, <2>3, <3>1 DEF IsOwed, IsQueued
    <3>4. IsOwed(r)'
      BY <2>1, <3>3 DEF IsOwed, IsQueued
    <3>5. OwedOnce(r)'
      BY <3>2, <3>3 DEF OwedOnce, IsEncoding, IsWaiting
    <3>6. errCh'[r] = "empty" /\ rpc'[r] = "await"
      BY <2>1, <2>3
    <3> QED
      BY <3>4, <3>5, <3>6 DEF RepliesOf
  <2> QED
    BY <2>2, <2>3
<1>6. CASE Retry(q) \/ Answered(q)
  <2>1. /\ rpc[q] = "await" /\ errCh[q] # "empty"
        /\ errCh' = [errCh EXCEPT ![q] = "empty"]
        /\ \E pc \in {"choose", "done"} : rpc' = [rpc EXCEPT ![q] = pc]
        /\ UNCHANGED <<toWrite, wpc, item, waiters>>
    BY <1>6 DEF Retry, Answered, ReturnToCaller
  <2>2. SameOwed(r)
    BY <2>1 DEF SameOwed, Encoding
  <2>3. CASE r # q
    BY <1>0, <2>1, <2>2, <2>3, RepliesQuiet
  <2>4. CASE r = q
    <3>1. ~IsOwed(r) /\ OwedOnce(r)
      BY <1>0, <2>1, <2>4 DEF RepliesOf
    <3>2. errCh'[r] = "empty" /\ rpc'[r] # "await"
      BY <2>1, <2>4
    <3> QED
      BY <2>2, <3>1, <3>2, OwedSame DEF RepliesOf
  <2> QED
    BY <2>3, <2>4
<1> QED
  BY <1>2, <1>3, <1>4, <1>5, <1>6 DEF CallerNext

LEMMA RepliesStep == TypeOK /\ Batches /\ Replies /\ [Next]_vars => Replies'
<1> SUFFICES ASSUME TypeOK, Batches, Replies, [Next]_vars PROVE Replies'
  OBVIOUS
<1>1. ASSUME UNCHANGED <<toWrite, wpc, item, waiters, errCh, rpc>> PROVE Replies'
  BY <1>1, RepliesQuiet DEF Replies, SameOwed, Encoding
<1>2. CASE ControllerNext
  BY <1>1, <1>2
     DEF ControllerNext, SpawnInitialStreams, RestartStream, AbandonStream, ControllerStops
<1>3. CASE ShutdownNext \/ Terminated \/ UNCHANGED vars
  BY <1>1, <1>3 DEF ShutdownNext, Shutdown, ShutdownReturns, Terminated
<1> QED
  BY <1>2, <1>3, RepliesRunner, RepliesWriter, RepliesCaller DEF Next

\* The invariant of the replies owed to every call.
THEOREM RepliesTracked == Spec => []Replies
  BY TypeCorrect, BatchesTracked, RepliesInit, RepliesStep, PTL DEF Spec

\* A call never gets two replies, so no goroutine blocks on its one-place
\* response channel; and while it waits, somebody is going to reply.
THEOREM OneReply == Spec => []OneReplyPerCall
<1>1. Replies => OneReplyPerCall
  <2> SUFFICES ASSUME Replies, NEW r \in Request
               PROVE  /\ Cardinality(ReplyHolders(r)) <= 1
                      /\ rpc[r] = "await" => ReplyHolders(r) # {}
    BY DEF OneReplyPerCall
  <2>1. RepliesOf(r)
    BY DEF Replies
  <2>2. ASSUME NEW x \in ReplyHolders(r), NEW y \in ReplyHolders(r) PROVE x = y
    <3> DEFINE queued == {<<"toWrite", s>> : s \in {t \in Stream : toWrite[t] = r}}
               encoding == {<<"encode", s>> :
                              s \in {t \in Stream : wpc[t] = "encode" /\ item[t] = r}}
               waiting == {<<"waiter", w>> :
                             w \in {v \in Stream \X BatchId : waiters[v[1]][v[2]] = r}}
               told == IF errCh[r] = "empty" THEN {} ELSE {<<"errCh", r>>}
    <3>1. ReplyHolders(r) = queued \cup encoding \cup waiting \cup told
      BY DEF ReplyHolders
    <3>2. /\ queued # {} => IsQueued(r) /\ \A a, b \in queued : a = b
          /\ encoding # {} => IsEncoding(r) /\ \A a, b \in encoding : a = b
      BY <2>1 DEF RepliesOf, OwedOnce, IsQueued, IsEncoding, Encoding
    <3>3. waiting # {} => IsWaiting(r)
      BY DEF IsWaiting
    <3>4. ASSUME NEW a \in waiting, NEW b \in waiting PROVE a = b
      <4>1. PICK v \in Stream \X BatchId : waiters[v[1]][v[2]] = r /\ a = <<"waiter", v>>
        OBVIOUS
      <4>2. PICK w \in Stream \X BatchId : waiters[w[1]][w[2]] = r /\ b = <<"waiter", w>>
        OBVIOUS
      <4>3. v[1] = w[1] /\ v[2] = w[2]
        BY <2>1, <4>1, <4>2 DEF RepliesOf, OwedOnce
      <4> QED
        BY <4>1, <4>2, <4>3
    <3>5. /\ told # {} => errCh[r] # "empty"
          /\ \A a, b \in told : a = b
      OBVIOUS
    <3> HIDE DEF queued, encoding, waiting, told
    <3> QED
      BY <2>1, <3>1, <3>2, <3>3, <3>4, <3>5 DEF RepliesOf, OwedOnce, IsOwed
  <2>3. ReplyHolders(r) = {} \/ \E x : ReplyHolders(r) = {x}
    BY <2>2
  <2>4. Cardinality(ReplyHolders(r)) <= 1
    <3>1. CASE ReplyHolders(r) = {}
      BY <3>1, FS_EmptySet
    <3>2. ASSUME NEW x, ReplyHolders(r) = {x} PROVE Cardinality(ReplyHolders(r)) = 1
      BY <3>2, FS_Singleton
    <3> QED
      BY <2>3, <3>1, <3>2
  <2>5. ASSUME rpc[r] = "await" PROVE ReplyHolders(r) # {}
    <3>1. CASE IsQueued(r) \/ IsEncoding(r)
      BY <3>1 DEF IsQueued, IsEncoding, Encoding, ReplyHolders
    <3>2. CASE IsWaiting(r)
      <4>1. PICK s \in Stream, id \in BatchId : waiters[s][id] = r
        BY <3>2 DEF IsWaiting
      <4>2. <<s, id>> \in {v \in Stream \X BatchId : waiters[v[1]][v[2]] = r}
        BY <4>1
      <4>3. <<"waiter", <<s, id>>>> \in ReplyHolders(r)
        BY <4>2 DEF ReplyHolders
      <4> QED
        BY <4>3
    <3>3. CASE errCh[r] # "empty"
      BY <3>3 DEF ReplyHolders
    <3> QED
      BY <2>1, <2>5, <3>1, <3>2, <3>3 DEF RepliesOf, IsOwed
  <2> QED
    BY <2>4, <2>5
<1> QED
  BY <1>1, RepliesTracked, PTL

-----------------------------------------------------------------------------
(***************************************************************************)
(* Verdicts.  A call whose records were judged is owed nothing any more,   *)
(* its one verdict is the answer in its channel, and it is not retried.    *)
(***************************************************************************)

Refusal == (StatusCode \cup {"UNENCODABLE"}) \ {"OK", "UNAVAILABLE"}

\* The answer in the channel of a call, and the verdict it stands for.
AnswerTells(answer, codes) ==
  /\ answer = "nil" => codes = {"OK"}
  /\ answer = "retryable" => codes = {"UNAVAILABLE"}
  /\ answer = "permanent" => \E c \in Refusal : codes = {c}
  /\ answer = "restarting" => codes = {}

VerdictOf(r) ==
  /\ verdict[r] # {} => ~IsOwed(r) /\ (errCh[r] # "empty" \/ rpc[r] = "done")
  /\ AnswerTells(errCh[r], verdict[r])

Verdicts == \A r \in Request : VerdictOf(r)

LEMMA VerdictsInit == Init => Verdicts
  BY DEF Init, Verdicts, VerdictOf, AnswerTells

\* Items only move on from where they are; a caller brings a new one.
LEMMA OwedStep ==
  ASSUME TypeOK, Batches, [Next]_vars, NEW r \in Request, IsOwed(r)'
  PROVE  IsOwed(r) \/ rpc[r] = "holding"
<1> USE DEF TypeOK, StreamTypeOK
<1>1. ASSUME NEW s \in Stream, toWrite'[s] = r
      PROVE  toWrite[s] = r \/ rpc[r] = "holding"
  <2>1. CASE UNCHANGED toWrite
    BY <1>1, <2>1
  <2>2. ASSUME NEW t \in Stream, TakeItem(t) \/ RemoveItem(t)
        PROVE  toWrite[s] = r
    BY <1>1, <2>2, ExporterAssumption DEF TakeItem, RemoveItem
  <2>3. ASSUME NEW q \in Request, HandOff(q)
        PROVE  toWrite[s] = r \/ rpc[r] = "holding"
    BY <1>1, <2>3 DEF HandOff
  <2>4. ASSUME NEW t \in Stream, RunnerNext(t) PROVE UNCHANGED toWrite
    BY <2>4 DEF RunnerNext, Dial, Connect, ConnectFails, ReceiveSomeStatus, ReceiveStatus,
       ReceiveError, Finish, Return
  <2>5. ASSUME NEW t \in Stream, WriterNext(t)
        PROVE  TakeItem(t) \/ RemoveItem(t) \/ UNCHANGED toWrite
    BY <2>5 DEF WriterNext, SetReady, SeeContextDone, Encode, EncodeFails, Send, SendFails,
       RemoveOnShutdown, RemoveSelf, RemoveOther, PutBack
  <2>6. ASSUME NEW q \in Request, CallerNext(q) PROVE HandOff(q) \/ UNCHANGED toWrite
    BY <2>6 DEF CallerNext, Call, TakeStream, FallBack, ExpireBeforeStream,
       CredentialsError, Retry, Answered, ExpireAwaiting
  <2>7. ControllerNext \/ ShutdownNext \/ Terminated \/ UNCHANGED vars => UNCHANGED toWrite
    BY DEF ControllerNext, SpawnInitialStreams, RestartStream, AbandonStream,
       ControllerStops, ShutdownNext, Shutdown, ShutdownReturns, Terminated
  <2> QED
    BY <2>1, <2>2, <2>3, <2>4, <2>5, <2>6, <2>7 DEF Next
<1>2. ASSUME NEW s \in Stream, Encoding(r, s)'
      PROVE  Encoding(r, s) \/ toWrite[s] = r
  <2>1. CASE UNCHANGED <<wpc, item>>
    BY <1>2, <2>1 DEF Encoding
  <2>2. ASSUME NEW t \in Stream, RunnerNext(t) PROVE Encoding(r, s)
    BY <1>2, <2>2 DEF Encoding, RunnerNext, Dial, Connect, ConnectFails,
       ReceiveSomeStatus, ReceiveStatus, ReceiveError, Finish, Return
  <2>3. ASSUME NEW t \in Stream, TakeItem(t) PROVE Encoding(r, s) \/ toWrite[s] = r
    BY <1>2, <2>3 DEF Encoding, TakeItem
  <2>4. ASSUME NEW t \in Stream,
               SetReady(t) \/ SeeContextDone(t) \/ Encode(t) \/ Send(t)
               \/ RemoveOther(t) \/ PutBack(t)
        PROVE  Encoding(r, s)
    BY <1>2, <2>4 DEF Encoding, SetReady, SeeContextDone, RemoveWhenContextDone, Encode,
       Send, RemoveOther, PutBack
  <2>5. ASSUME NEW t \in Stream,
               EncodeFails(t) \/ SendFails(t) \/ RemoveOnShutdown(t) \/ RemoveSelf(t)
               \/ RemoveItem(t)
        PROVE  Encoding(r, s)
    BY <1>2, <2>5 DEF Encoding, EncodeFails, SendFails, RemoveOnShutdown, RemoveSelf,
       RemoveItem, StopWriting
  <2>6. ASSUME NEW q \in Request, CallerNext(q) PROVE UNCHANGED <<wpc, item>>
    BY <2>6 DEF CallerNext, Call, TakeStream, FallBack, ExpireBeforeStream,
       CredentialsError, HandOff, Retry, Answered, ExpireAwaiting
  <2>7. ControllerNext \/ ShutdownNext \/ Terminated \/ UNCHANGED vars
          => UNCHANGED <<wpc, item>>
    BY DEF ControllerNext, SpawnInitialStreams, RestartStream, AbandonStream,
       ControllerStops, ShutdownNext, Shutdown, ShutdownReturns, Terminated
  <2> QED
    BY <2>1, <2>2, <2>3, <2>4, <2>5, <2>6, <2>7 DEF Next, WriterNext
<1>3. ASSUME NEW s \in Stream, NEW id \in BatchId, waiters'[s][id] = r
      PROVE  waiters[s][id] = r \/ Encoding(r, s)
  <2>1. CASE UNCHANGED waiters
    BY <1>3, <2>1
  <2>2. ASSUME NEW t \in Stream, ReceiveSomeStatus(t) PROVE waiters[s][id] = r
    <3>1. PICK ids \in SUBSET {i \in BatchId : sent[t][i] # NoRequest} :
            \E code \in [ids -> StatusCode], stray \in BOOLEAN :
              ReceiveStatus(t, ids, code, stray)
      BY <2>2 DEF ReceiveSomeStatus
    <3>2. waiters' = [waiters EXCEPT ![t] =
            [i \in BatchId |-> IF i \in ids THEN NoRequest ELSE waiters[t][i]]]
      BY <3>1 DEF ReceiveStatus
    <3> QED
      BY <1>3, <3>2, ExporterAssumption
  <2>3. ASSUME NEW t \in Stream, Finish(t) PROVE waiters[s][id] = r
    BY <1>3, <2>3, ExporterAssumption DEF Finish, NoBatches
  <2>4. ASSUME NEW t \in Stream, Encode(t) PROVE waiters[s][id] = r \/ Encoding(r, s)
    BY <1>3, <2>4 DEF Encode, Registered, Encoding
  <2>5. ASSUME NEW t \in Stream, RunnerNext(t)
        PROVE  ReceiveSomeStatus(t) \/ Finish(t) \/ UNCHANGED waiters
    BY <2>5 DEF RunnerNext, Dial, Connect, ConnectFails, ReceiveError, Return
  <2>6. ASSUME NEW t \in Stream, WriterNext(t) PROVE Encode(t) \/ UNCHANGED waiters
    BY <2>6 DEF WriterNext, SetReady, TakeItem, SeeContextDone, EncodeFails, Send,
       SendFails, RemoveOnShutdown, RemoveSelf, RemoveOther, PutBack, RemoveItem
  <2>7. ASSUME NEW q \in Request, CallerNext(q) PROVE UNCHANGED waiters
    BY <2>7 DEF CallerNext, Call, TakeStream, FallBack, ExpireBeforeStream,
       CredentialsError, HandOff, Retry, Answered, ExpireAwaiting
  <2>8. ControllerNext \/ ShutdownNext \/ Terminated \/ UNCHANGED vars => UNCHANGED waiters
    BY DEF ControllerNext, SpawnInitialStreams, RestartStream, AbandonStream,
       ControllerStops, ShutdownNext, Shutdown, ShutdownReturns, Terminated
  <2> QED
    BY <2>1, <2>2, <2>3, <2>4, <2>5, <2>6, <2>7, <2>8 DEF Next
<1>4. IsQueued(r)' => IsOwed(r) \/ rpc[r] = "holding"
  BY <1>1 DEF IsQueued, IsOwed
<1>5. IsEncoding(r)' => IsOwed(r)
  BY <1>2 DEF IsEncoding, IsQueued, IsOwed
<1>6. IsWaiting(r)' => IsOwed(r)
  BY <1>3 DEF IsWaiting, IsEncoding, IsOwed
<1> QED
  BY <1>4, <1>5, <1>6 DEF IsOwed

\* One BatchStatus gives each call it names one verdict and the answer for it.
LEMMA JudgedByStatus ==
  ASSUME TypeOK, Batches, Replies, Verdicts, NEW s \in Stream,
         NEW ids \in SUBSET {id \in BatchId : sent[s][id] # NoRequest},
         NEW code \in [ids -> StatusCode], NEW stray \in BOOLEAN,
         ReceiveStatus(s, ids, code, stray), NEW r \in Request
  PROVE  /\ \A id \in ids : sent[s][id] = r =>
              /\ IsOwed(r) /\ verdict[r] = {}
              /\ verdict'[r] = {code[id]} /\ errCh'[r] = AnswerFor(code[id])
         /\ (\A id \in ids : sent[s][id] # r) =>
              verdict'[r] = verdict[r] /\ errCh'[r] = errCh[r]
<1> DEFINE found == {id \in ids : waiters[s][id] # NoRequest}
           answered == {id \in found : waiters[s][id] = r}
           judged == {id \in ids : sent[s][id] = r}
<1>1. /\ spc[s] = "read"
      /\ errCh'[r] = IF answered = {} THEN errCh[r]
                     ELSE AnswerFor(code[CHOOSE id \in answered : TRUE])
      /\ verdict'[r] = verdict[r] \cup {code[id] : id \in judged}
  BY DEF ReceiveStatus
<1>2. \A id \in ids : id \in BatchId /\ waiters[s][id] = sent[s][id]
  BY <1>1 DEF Batches, BatchesOf
<1>3. answered = judged
  BY <1>2, ExporterAssumption
<1>4. ASSUME NEW id \in ids, sent[s][id] = r
      PROVE  /\ IsOwed(r) /\ verdict[r] = {}
             /\ verdict'[r] = {code[id]} /\ errCh'[r] = AnswerFor(code[id])
  <2>1. id \in BatchId /\ waiters[s][id] = r
    BY <1>2, <1>4
  <2>2. IsOwed(r)
    BY <2>1 DEF IsWaiting, IsOwed
  <2>3. verdict[r] = {}
    BY <2>2 DEF Verdicts, VerdictOf
  <2>4. \A i \in ids : sent[s][i] = r => i = id
    BY <1>2, <2>1 DEF Replies, RepliesOf, OwedOnce
  <2>5. judged = {id}
    BY <1>4, <2>4
  <2>6. (CHOOSE i \in judged : TRUE) = id
    BY <2>5
  <2>7. errCh'[r] = AnswerFor(code[id])
    BY <1>1, <1>3, <2>5, <2>6
  <2> HIDE DEF judged
  <2>8. verdict'[r] = {code[id]}
    BY <1>1, <2>3, <2>5
  <2> QED
    BY <2>2, <2>3, <2>7, <2>8
<1>5. ASSUME \A id \in ids : sent[s][id] # r
      PROVE  verdict'[r] = verdict[r] /\ errCh'[r] = errCh[r]
  <2>1. judged = {}
    BY <1>5
  <2> QED
    BY <1>1, <1>3, <2>1
<1> QED
  BY <1>4, <1>5

\* The answer for a status code tells the verdict.
LEMMA AnswerForTells ==
  ASSUME NEW c \in StatusCode PROVE AnswerTells(AnswerFor(c), {c})
  BY DEF AnswerTells, AnswerFor, Refusal

\* A step that gives call r neither a verdict nor an answer.
LEMMA VerdictsQuiet ==
  ASSUME TypeOK, Batches, Replies, [Next]_vars, NEW r \in Request, VerdictOf(r),
         verdict'[r] = verdict[r], errCh'[r] = errCh[r], rpc[r] = "done" => rpc'[r] = "done"
  PROVE  VerdictOf(r)'
<1>1. verdict[r] # {} => rpc[r] # "holding"
  BY DEF VerdictOf, Replies, RepliesOf
<1>2. verdict[r] # {} => ~IsOwed(r)'
  BY <1>1, OwedStep DEF VerdictOf
<1> QED
  BY <1>2 DEF VerdictOf, AnswerTells

\* A call that is owed a reply, and whose records nobody judged, is told to try
\* another stream.
LEMMA VerdictsRestarting ==
  ASSUME NEW r \in Request, VerdictOf(r), IsOwed(r), verdict'[r] = verdict[r],
         errCh'[r] = "restarting"
  PROVE  VerdictOf(r)'
  BY DEF VerdictOf, AnswerTells

LEMMA VerdictsStep == TypeOK /\ Batches /\ Replies /\ Verdicts /\ [Next]_vars => Verdicts'
<1> SUFFICES ASSUME TypeOK, Batches, Replies, Verdicts, [Next]_vars,
                    NEW r \in Request
             PROVE  VerdictOf(r)'
  BY DEF Verdicts
<1>0. VerdictOf(r) /\ RepliesOf(r)
  BY DEF Verdicts, Replies
<1>a. CallTypeOK /\ StreamTypeOK
  BY DEF TypeOK
<1>1. ASSUME UNCHANGED <<verdict, errCh>>, rpc[r] = "done" => rpc'[r] = "done"
      PROVE  VerdictOf(r)'
  BY <1>0, <1>1, VerdictsQuiet
<1>2. CASE ControllerNext \/ ShutdownNext \/ Terminated \/ UNCHANGED vars
  <2>1. UNCHANGED <<verdict, errCh, rpc>>
    BY <1>2 DEF ControllerNext, SpawnInitialStreams, RestartStream, AbandonStream,
       ControllerStops, ShutdownNext, Shutdown, ShutdownReturns, Terminated
  <2> QED
    BY <1>1, <2>1
<1>3. ASSUME NEW s \in Stream, RunnerNext(s) PROVE VerdictOf(r)'
  <2>1. CASE Dial(s) \/ Connect(s) \/ ConnectFails(s) \/ ReceiveError(s) \/ Return(s)
    BY <1>1, <2>1 DEF Dial, Connect, ConnectFails, ReceiveError, Return
  <2>2. CASE ReceiveSomeStatus(s)
    <3>1. PICK ids \in SUBSET {id \in BatchId : sent[s][id] # NoRequest} :
            \E code \in [ids -> StatusCode], stray \in BOOLEAN :
              ReceiveStatus(s, ids, code, stray)
      BY <2>2 DEF ReceiveSomeStatus
    <3>2. PICK code \in [ids -> StatusCode], stray \in BOOLEAN :
            ReceiveStatus(s, ids, code, stray)
      BY <3>1
    <3>3. rpc' = rpc
      BY <3>2 DEF ReceiveStatus
    <3>4. CASE \E id \in ids : sent[s][id] = r
      <4>1. PICK id \in ids : sent[s][id] = r
        BY <3>4
      <4>2. IsOwed(r) /\ verdict'[r] = {code[id]} /\ errCh'[r] = AnswerFor(code[id])
        BY <3>2, <4>1, JudgedByStatus
      <4>3. AnswerTells(errCh'[r], verdict'[r])
        BY <4>2, AnswerForTells
      <4>4. errCh'[r] # "empty"
        BY <4>2 DEF AnswerFor
      <4>5. ~IsOwed(r)'
        BY <4>4, RepliesStep DEF Replies, RepliesOf
      <4> QED
        BY <4>3, <4>4, <4>5 DEF VerdictOf
    <3>5. CASE \A id \in ids : sent[s][id] # r
      <4>1. verdict'[r] = verdict[r] /\ errCh'[r] = errCh[r]
        BY <3>2, <3>5, JudgedByStatus
      <4> QED
        BY <1>0, <3>3, <4>1, VerdictsQuiet
    <3> QED
      BY <3>4, <3>5
  <2>3. CASE Finish(s)
    <3>1. /\ UNCHANGED <<verdict, rpc>>
          /\ errCh'[r] = IF r \in Outstanding(s) THEN "restarting" ELSE errCh[r]
      BY <2>3 DEF Finish
    <3>2. r \in Outstanding(s) => IsOwed(r)
      BY DEF Outstanding, CallsIn, IsOwed, IsWaiting
    <3> QED
      BY <1>0, <3>1, <3>2, VerdictsQuiet, VerdictsRestarting
  <2> QED
    BY <1>3, <2>1, <2>2, <2>3 DEF RunnerNext
<1>4. ASSUME NEW s \in Stream, WriterNext(s) PROVE VerdictOf(r)'
  <2>1. CASE UNCHANGED <<verdict, errCh, rpc>>
    BY <1>1, <2>1
  <2>2. CASE EncodeFails(s)
    <3>1. /\ wpc[s] = "encode" /\ item[s] \in Request /\ errCh[item[s]] = "empty"
          /\ errCh' = [errCh EXCEPT ![item[s]] = "permanent"]
          /\ verdict' = [verdict EXCEPT ![item[s]] = verdict[item[s]] \cup {"UNENCODABLE"}]
          /\ UNCHANGED rpc
      BY <1>a, <2>2 DEF EncodeFails, StreamTypeOK
    <3>2. CASE item[s] # r
      BY <1>0, <1>a, <3>1, <3>2, VerdictsQuiet DEF CallTypeOK
    <3>3. CASE item[s] = r
      <4>1. IsOwed(r)
        BY <3>1, <3>3 DEF IsOwed, IsEncoding, Encoding
      <4>2. verdict[r] = {}
        BY <1>0, <4>1 DEF VerdictOf
      <4>3. errCh'[r] = "permanent" /\ verdict'[r] = {"UNENCODABLE"}
        BY <1>a, <3>1, <3>3, <4>2 DEF CallTypeOK
      <4>4. "UNENCODABLE" \in Refusal
        BY DEF Refusal
      <4>5. ~IsOwed(r)'
        BY <4>3, RepliesStep DEF Replies, RepliesOf
      <4> QED
        BY <4>3, <4>4, <4>5 DEF VerdictOf, AnswerTells
    <3> QED
      BY <3>2, <3>3
  <2>3. CASE RemoveItem(s)
    <3>1. /\ toWrite[s] # NoRequest /\ toWrite[s] \in Request
          /\ errCh' = [errCh EXCEPT ![toWrite[s]] = "restarting"]
          /\ UNCHANGED <<verdict, rpc>>
      BY <1>a, <2>3 DEF RemoveItem, StreamTypeOK
    <3>2. CASE toWrite[s] # r
      BY <1>0, <1>a, <3>1, <3>2, VerdictsQuiet DEF CallTypeOK
    <3>3. CASE toWrite[s] = r
      <4>1. IsOwed(r)
        BY <3>3 DEF IsOwed, IsQueued
      <4> QED
        BY <1>0, <1>a, <3>1, <3>3, <4>1, VerdictsRestarting DEF CallTypeOK
    <3> QED
      BY <3>2, <3>3
  <2>4. EncodeFails(s) \/ RemoveItem(s) \/ UNCHANGED <<verdict, errCh, rpc>>
    BY <1>4 DEF WriterNext, SetReady, TakeItem, SeeContextDone, Encode, Send,
       SendFails, RemoveOnShutdown, RemoveSelf, RemoveOther, PutBack
  <2> QED
    BY <2>1, <2>2, <2>3, <2>4
<1>5. ASSUME NEW q \in Request, CallerNext(q) PROVE VerdictOf(r)'
  <2>1. CASE Call(q) \/ TakeStream(q)
    <3>1. rpc[q] \in {"idle", "choose"} /\ UNCHANGED <<verdict, errCh>>
          /\ \E pc \in {"choose", "holding"} : rpc' = [rpc EXCEPT ![q] = pc]
      BY <2>1 DEF Call, TakeStream
    <3> QED
      BY <1>1, <1>a, <3>1 DEF CallTypeOK
  <2>2. CASE FallBack(q) \/ ExpireBeforeStream(q) \/ CredentialsError(q) \/ ExpireAwaiting(q)
    <3>1. rpc' = [rpc EXCEPT ![q] = "done"] /\ UNCHANGED <<verdict, errCh>>
      BY <2>2 DEF FallBack, ExpireBeforeStream, CredentialsError, ExpireAwaiting,
         ReturnToCaller
    <3> QED
      BY <1>1, <1>a, <3>1 DEF CallTypeOK
  <2>3. CASE HandOff(q) \/ Retry(q) \/ Answered(q)
    <3>1. /\ errCh' = [errCh EXCEPT ![q] = "empty"] /\ UNCHANGED verdict
          /\ rpc[q] \in {"holding", "await"}
          /\ \E pc \in {"await", "choose", "done"} : rpc' = [rpc EXCEPT ![q] = pc]
      BY <2>3 DEF HandOff, Retry, Answered, ReturnToCaller
    <3>2. CASE q # r
      BY <1>0, <1>a, <3>1, <3>2, VerdictsQuiet DEF CallTypeOK
    <3>3. CASE q = r
      <4>1. errCh'[r] = "empty"
        BY <1>a, <3>1, <3>3 DEF CallTypeOK
      <4>2. CASE HandOff(q) \/ Retry(q)
        <5>1. rpc[r] = "holding" \/ errCh[r] = "restarting"
          BY <3>3, <4>2 DEF HandOff, Retry
        <5>2. verdict'[r] = {}
          BY <1>0, <3>1, <5>1 DEF VerdictOf, AnswerTells, RepliesOf
        <5> QED
          BY <4>1, <5>2 DEF VerdictOf, AnswerTells
      <4>3. CASE Answered(q)
        <5>1. rpc'[r] = "done" /\ rpc[r] = "await" /\ errCh[r] # "empty"
          BY <1>a, <3>3, <4>3 DEF Answered, ReturnToCaller, CallTypeOK
        <5>2. ~IsOwed(r)'
          BY <1>0, <5>1, OwedStep DEF RepliesOf
        <5> QED
          BY <4>1, <5>1, <5>2 DEF VerdictOf, AnswerTells
      <4> QED
        BY <2>3, <4>2, <4>3
    <3> QED
      BY <3>2, <3>3
  <2> QED
    BY <1>5, <2>1, <2>2, <2>3 DEF CallerNext
<1> QED
  BY <1>2, <1>3, <1>4, <1>5 DEF Next

\* The one verdict on the records of a call, and the answer that tells it.
THEOREM VerdictsTold == Spec => []Verdicts
  BY TypeCorrect, BatchesTracked, RepliesTracked, VerdictsInit, VerdictsStep, PTL DEF Spec

\* Only the writer's send gives the server a batch, the one it registered last.
LEMMA SentBySend ==
  ASSUME TypeOK, [Next]_vars, NEW s \in Stream, NEW id \in BatchId,
         sent[s][id] = NoRequest, sent'[s][id] # NoRequest
  PROVE  Send(s) /\ id = batchId[s] - 1
<1> USE DEF TypeOK, StreamTypeOK
<1>1. sent' # sent
  OBVIOUS
<1>2. ASSUME NEW t \in Stream, RunnerNext(t) PROVE FALSE
  <2>1. ReceiveSomeStatus(t) \/ Finish(t)
    BY <1>1, <1>2 DEF RunnerNext, Dial, Connect, ConnectFails, ReceiveError, Return
  <2>2. CASE ReceiveSomeStatus(t)
    <3>1. PICK ids \in SUBSET {i \in BatchId : sent[t][i] # NoRequest} :
            \E code \in [ids -> StatusCode], stray \in BOOLEAN :
              ReceiveStatus(t, ids, code, stray)
      BY <2>2 DEF ReceiveSomeStatus
    <3>2. sent' = [sent EXCEPT ![t] =
            [i \in BatchId |-> IF i \in ids THEN NoRequest ELSE sent[t][i]]]
      BY <3>1 DEF ReceiveStatus
    <3> QED
      BY <3>2
  <2>3. CASE Finish(t)
    BY <2>3 DEF Finish, NoBatches
  <2> QED
    BY <2>1, <2>2, <2>3
<1>3. ASSUME NEW t \in Stream, WriterNext(t) PROVE Send(t)
  BY <1>1, <1>3 DEF WriterNext, SetReady, TakeItem, SeeContextDone, Encode, EncodeFails,
     SendFails, RemoveOnShutdown, RemoveSelf, RemoveOther, PutBack, RemoveItem
<1>4. ASSUME NEW q \in Request, CallerNext(q) PROVE FALSE
  BY <1>1, <1>4 DEF CallerNext, Call, TakeStream, FallBack, ExpireBeforeStream,
     CredentialsError, HandOff, Retry, Answered, ExpireAwaiting
<1>5. ~(ControllerNext \/ ShutdownNext \/ Terminated \/ UNCHANGED vars)
  BY <1>1 DEF ControllerNext, SpawnInitialStreams, RestartStream, AbandonStream,
     ControllerStops, ShutdownNext, Shutdown, ShutdownReturns, Terminated
<1>6. PICK t \in Stream : Send(t)
  BY <1>2, <1>3, <1>4, <1>5 DEF Next
<1>7. sent' = [sent EXCEPT ![t][batchId[t] - 1] = item[t]]
  BY <1>6 DEF Send
<1>8. t = s
  BY <1>7
<1>9. id = batchId[s] - 1
  BY <1>7, <1>8
<1> QED
  BY <1>6, <1>8, <1>9

\* Records the server has judged, or that cannot be encoded, are never sent
\* again, whatever streams break and whatever calls are retried.
THEOREM NoResend == Spec => NoResendAfterVerdict
<1>1. TypeOK /\ Batches /\ Replies /\ Verdicts /\ [Next]_vars =>
        [\A s \in Stream, id \in BatchId :
           sent'[s][id] # NoRequest /\ sent[s][id] = NoRequest =>
             verdict[sent'[s][id]] = {}]_vars
  <2> SUFFICES ASSUME TypeOK, Batches, Replies, Verdicts, [Next]_vars,
                      NEW s \in Stream, NEW id \in BatchId,
                      sent'[s][id] # NoRequest, sent[s][id] = NoRequest
               PROVE  verdict[sent'[s][id]] = {}
    OBVIOUS
  <2>1. Send(s) /\ id = batchId[s] - 1
    BY SentBySend
  <2>2. sent'[s][id] = item[s] /\ item[s] \in Request /\ wpc[s] = "send"
    BY <2>1 DEF Send, TypeOK, StreamTypeOK
  <2>3. waiters[s][id] = item[s]
    BY <2>1, <2>2 DEF Batches, BatchesOf
  <2>4. IsOwed(item[s])
    BY <2>3 DEF IsOwed, IsWaiting
  <2> QED
    BY <2>2, <2>4 DEF Verdicts, VerdictOf
<1> QED
  BY <1>1, TypeCorrect, BatchesTracked, RepliesTracked, VerdictsTold, PTL
     DEF Spec, NoResendAfterVerdict

-----------------------------------------------------------------------------
(***************************************************************************)
(* ArrowExporter implements SendContract.  Starting a call and returning   *)
(* from it are the steps of the same name, a status or an encoding error   *)
(* judges, the last stream gives up; all other steps stutter.              *)
(***************************************************************************)

LEMMA ContractInit == Init => Contract!Init
  BY DEF Init, Contract!Init, callState, NoResult, Contract!NoResult

LEMMA ContractStutters ==
  ASSUME UNCHANGED <<rpc, verdict, downgraded, result>>
  PROVE  UNCHANGED Contract!vars
  BY DEF Contract!vars, callState

\* A caller moves on without returning.
LEMMA ContractMovesOn ==
  ASSUME TypeOK, NEW r \in Request, rpc[r] \in {"choose", "holding", "await"},
         NEW pc \in {"choose", "holding", "await"}, rpc' = [rpc EXCEPT ![r] = pc],
         UNCHANGED <<verdict, downgraded, result>>
  PROVE  UNCHANGED Contract!vars
<1>1. callState' = callState
  BY DEF callState, TypeOK, CallTypeOK
<1> QED
  BY <1>1 DEF Contract!vars

\* A caller returns what it may.
LEMMA ContractReturns ==
  ASSUME TypeOK, NEW r \in Request, rpc[r] \in {"choose", "holding", "await"},
         NEW isSent \in BOOLEAN, NEW err, ReturnToCaller(r, isSent, err),
         UNCHANGED <<verdict, downgraded>>,
         [sent |-> isSent, err |-> err] \in Contract!Permitted(r),
         ~isSent /\ err = "nil" => verdict[r] = {}
  PROVE  Contract!Return(r)
<1> DEFINE res == [sent |-> isSent, err |-> err]
<1>1. callState[r] = "pending"
  BY DEF callState
<1>2. callState' = [callState EXCEPT ![r] = "done"]
  BY DEF callState, ReturnToCaller, TypeOK, CallTypeOK
<1>3. result' = [result EXCEPT ![r] = res]
  BY DEF ReturnToCaller
<1>4. res = [sent |-> FALSE, err |-> "nil"] => verdict[r] = {}
  OBVIOUS
<1> QED
  BY <1>1, <1>2, <1>3, <1>4 DEF Contract!Return

LEMMA ContractCaller ==
  ASSUME TypeOK, Replies, Verdicts, NEW r \in Request, CallerNext(r)
  PROVE  Contract!Next \/ UNCHANGED Contract!vars
<1>a. CallTypeOK /\ RepliesOf(r) /\ VerdictOf(r)
  BY DEF TypeOK, Replies, Verdicts
<1>1. CASE Call(r)
  <2>1. callState[r] = "idle" /\ callState' = [callState EXCEPT ![r] = "pending"]
    BY <1>1, <1>a DEF Call, callState, CallTypeOK
  <2>2. Contract!Invoke(r)
    BY <1>1, <2>1 DEF Call, Contract!Invoke
  <2> QED
    BY <2>2 DEF Contract!Next
<1>2. CASE TakeStream(r)
  BY <1>2, ContractMovesOn DEF TakeStream
<1>3. CASE HandOff(r)
  BY <1>3, ContractMovesOn DEF HandOff
<1>4. CASE Retry(r)
  BY <1>4, ContractMovesOn DEF Retry
<1>5. CASE FallBack(r)
  <2>1. [sent |-> FALSE, err |-> "nil"] \in Contract!Permitted(r)
    BY <1>5 DEF FallBack, Contract!Permitted
  <2>2. verdict[r] = {}
    BY <1>5, <1>a DEF FallBack, RepliesOf, VerdictOf
  <2>3. Contract!Return(r)
    BY <1>5, <2>1, <2>2, ContractReturns DEF FallBack
  <2> QED
    BY <2>3 DEF Contract!Next
<1>6. CASE ExpireBeforeStream(r) \/ ExpireAwaiting(r)
  <2>1. PICK b \in BOOLEAN : ReturnToCaller(r, b, "ctx")
    BY <1>6 DEF ExpireBeforeStream, ExpireAwaiting
  <2>2. [sent |-> b, err |-> "ctx"] \in Contract!Permitted(r)
    BY DEF Contract!Permitted
  <2>3. Contract!Return(r)
    BY <1>6, <2>1, <2>2, ContractReturns DEF ExpireBeforeStream, ExpireAwaiting
  <2> QED
    BY <2>3 DEF Contract!Next
<1>7. CASE CredentialsError(r)
  <2>1. [sent |-> TRUE, err |-> "credentials"] \in Contract!Permitted(r)
    BY DEF Contract!Permitted
  <2>2. Contract!Return(r)
    BY <1>7, <2>1, ContractReturns DEF CredentialsError
  <2> QED
    BY <2>2 DEF Contract!Next
<1>8. CASE Answered(r)
  <2>1. errCh[r] \in {"nil", "retryable", "permanent"} /\ AnswerTells(errCh[r], verdict[r])
    BY <1>8, <1>a DEF Answered, VerdictOf
  <2>2. [sent |-> TRUE, err |-> errCh[r]] \in Contract!Permitted(r)
    <3>1. CASE errCh[r] = "nil"
      BY <2>1, <3>1 DEF AnswerTells, Contract!Permitted
    <3>2. CASE errCh[r] = "retryable"
      BY <2>1, <3>2 DEF AnswerTells, Contract!Permitted
    <3>3. CASE errCh[r] = "permanent"
      BY <2>1, <3>3 DEF AnswerTells, Refusal, Contract!Permitted
    <3> QED
      BY <2>1, <3>1, <3>2, <3>3
  <2>3. Contract!Return(r)
    BY <1>8, <2>2, ContractReturns DEF Answered
  <2> QED
    BY <2>3 DEF Contract!Next
<1> QED
  BY <1>1, <1>2, <1>3, <1>4, <1>5, <1>6, <1>7, <1>8 DEF CallerNext

\* A step that judges the records of the calls in R, all of them owed a reply.
LEMMA ContractJudges ==
  ASSUME TypeOK, Replies, Verdicts, NEW R \in SUBSET Request,
         NEW code \in [R -> StatusCode \cup {"UNENCODABLE"}],
         \A r \in R : IsOwed(r),
         verdict' = [r \in Request |-> IF r \in R THEN {code[r]} ELSE verdict[r]],
         UNCHANGED <<rpc, downgraded, result>>
  PROVE  Contract!Judge
<1>1. \A r \in R : callState[r] # "idle" /\ verdict[r] = {}
  BY DEF callState, Replies, RepliesOf, Verdicts, VerdictOf, TypeOK, CallTypeOK
<1>2. UNCHANGED <<callState, downgraded, result>>
  BY DEF callState
<1> QED
  BY <1>1, <1>2 DEF Contract!Judge

LEMMA ContractReader ==
  ASSUME TypeOK, Batches, Replies, Verdicts, NEW s \in Stream, ReceiveSomeStatus(s)
  PROVE  Contract!Judge
<1>1. PICK ids \in SUBSET {id \in BatchId : sent[s][id] # NoRequest} :
        \E code \in [ids -> StatusCode], stray \in BOOLEAN :
          ReceiveStatus(s, ids, code, stray)
  BY DEF ReceiveSomeStatus
<1>2. PICK code \in [ids -> StatusCode], stray \in BOOLEAN :
        ReceiveStatus(s, ids, code, stray)
  BY <1>1
<1> DEFINE R == {r \in Request : \E id \in ids : sent[s][id] = r}
           batch(r) == CHOOSE id \in ids : sent[s][id] = r
           codeOf == [r \in R |-> code[batch(r)]]
<1>3. \A r \in R : batch(r) \in ids /\ sent[s][batch(r)] = r
  OBVIOUS
<1>4. codeOf \in [R -> StatusCode \cup {"UNENCODABLE"}]
  BY <1>3
<1>5. ASSUME NEW r \in R PROVE IsOwed(r) /\ verdict'[r] = {codeOf[r]}
  <2>1. r \in Request /\ batch(r) \in ids /\ sent[s][batch(r)] = r
    BY <1>3
  <2>2. codeOf[r] = code[batch(r)]
    OBVIOUS
  <2> HIDE DEF R, codeOf, batch
  <2> QED
    BY <1>2, <2>1, <2>2, JudgedByStatus
<1>6. ASSUME NEW r \in Request \ R PROVE verdict'[r] = verdict[r]
  <2>1. r \in Request /\ \A id \in ids : sent[s][id] # r
    OBVIOUS
  <2> HIDE DEF R, codeOf, batch
  <2> QED
    BY <1>2, <2>1, JudgedByStatus
<1>7. /\ verdict' = [r \in Request |-> verdict'[r]]
      /\ UNCHANGED <<rpc, downgraded, result>>
  BY <1>2 DEF ReceiveStatus
<1> HIDE DEF R, codeOf
<1>8. R \in SUBSET Request
  BY DEF R
<1>9. verdict' = [r \in Request |-> IF r \in R THEN {codeOf[r]} ELSE verdict[r]]
  BY <1>5, <1>6, <1>7
<1> QED
  BY <1>4, <1>5, <1>7, <1>8, <1>9, ContractJudges

LEMMA ContractEncoder ==
  ASSUME TypeOK, Replies, Verdicts, NEW s \in Stream, EncodeFails(s)
  PROVE  Contract!Judge
<1> DEFINE r == item[s]
           codeOf == [x \in {r} |-> "UNENCODABLE"]
<1>1. /\ r \in Request /\ wpc[s] = "encode"
      /\ verdict' = [verdict EXCEPT ![r] = verdict[r] \cup {"UNENCODABLE"}]
      /\ UNCHANGED <<rpc, downgraded, result>>
  BY DEF EncodeFails, TypeOK, StreamTypeOK
<1>2. IsOwed(r)
  BY <1>1 DEF IsOwed, IsEncoding, Encoding
<1>3. verdict[r] = {}
  BY <1>1, <1>2 DEF Verdicts, VerdictOf
<1>4. verdict' = [x \in Request |-> IF x \in {r} THEN {codeOf[x]} ELSE verdict[x]]
  BY <1>1, <1>3 DEF TypeOK, CallTypeOK
<1>5. {r} \in SUBSET Request /\ codeOf \in [{r} -> StatusCode \cup {"UNENCODABLE"}]
  BY <1>1
<1>6. \A x \in {r} : IsOwed(x)
  BY <1>2
<1> HIDE DEF codeOf, r
<1> QED
  BY <1>1, <1>4, <1>5, <1>6, ContractJudges

LEMMA ContractStep ==
  TypeOK /\ Batches /\ Replies /\ Verdicts /\ [Next]_vars => [Contract!Next]_(Contract!vars)
<1> SUFFICES ASSUME TypeOK, Batches, Replies, Verdicts, [Next]_vars
             PROVE  Contract!Next \/ UNCHANGED Contract!vars
  OBVIOUS
<1>1. CASE ControllerNext
  <2>1. CASE AbandonStream
    <3>1. UNCHANGED <<rpc, verdict, result>>
      BY <2>1 DEF AbandonStream
    <3>2. downgraded' = downgraded \/ downgraded' = TRUE
      BY <2>1 DEF AbandonStream, TypeOK, ControlTypeOK
    <3>3. ASSUME downgraded' = TRUE PROVE Contract!GiveUp
      BY <3>1, <3>3 DEF Contract!GiveUp, callState
    <3> QED
      BY <3>1, <3>2, <3>3, ContractStutters DEF Contract!Next
  <2>2. CASE SpawnInitialStreams \/ RestartStream \/ ControllerStops
    BY <2>2, ContractStutters DEF SpawnInitialStreams, RestartStream, ControllerStops
  <2> QED
    BY <1>1, <2>1, <2>2 DEF ControllerNext
<1>2. ASSUME NEW s \in Stream, RunnerNext(s)
      PROVE  Contract!Next \/ UNCHANGED Contract!vars
  <2>1. CASE ReceiveSomeStatus(s)
    BY <2>1, ContractReader DEF Contract!Next
  <2>2. CASE Dial(s) \/ Connect(s) \/ ConnectFails(s) \/ ReceiveError(s) \/ Finish(s)
             \/ Return(s)
    BY <2>2, ContractStutters DEF Dial, Connect, ConnectFails, ReceiveError, Finish, Return
  <2> QED
    BY <1>2, <2>1, <2>2 DEF RunnerNext
<1>3. ASSUME NEW s \in Stream, WriterNext(s)
      PROVE  Contract!Next \/ UNCHANGED Contract!vars
  <2>1. CASE EncodeFails(s)
    BY <2>1, ContractEncoder DEF Contract!Next
  <2>2. EncodeFails(s) \/ UNCHANGED <<rpc, verdict, downgraded, result>>
    BY <1>3 DEF WriterNext, SetReady, TakeItem, SeeContextDone, Encode, Send,
       SendFails, RemoveOnShutdown, RemoveSelf, RemoveOther, PutBack, RemoveItem
  <2> QED
    BY <2>1, <2>2, ContractStutters
<1>4. CASE \E r \in Request : CallerNext(r)
  BY <1>4, ContractCaller
<1>5. CASE ShutdownNext \/ Terminated \/ UNCHANGED vars
  <2>1. UNCHANGED <<rpc, verdict, downgraded, result>>
    BY <1>5 DEF ShutdownNext, Shutdown, ShutdownReturns, Terminated
  <2> QED
    BY <2>1, ContractStutters
<1> QED
  BY <1>1, <1>2, <1>3, <1>4, <1>5 DEF Next

\* The exporter keeps the contract of SendAndWait: every behaviour of the
\* streams, the controller and the callers is one of SendContract.
THEOREM ExporterImplementsContract == Spec => KeepsContract
<1>1. Init => Contract!Init
  BY ContractInit
<1>2. TypeOK /\ Batches /\ Replies /\ Verdicts /\ [Next]_vars
        => [Contract!Next]_(Contract!vars)
  BY ContractStep
<1> QED
  BY <1>1, <1>2, TypeCorrect, BatchesTracked, RepliesTracked, VerdictsTold, PTL
     DEF Spec, KeepsContract, Contract!Spec
=============================================================================
