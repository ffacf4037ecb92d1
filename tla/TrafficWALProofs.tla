-------------------------- MODULE TrafficWALProofs --------------------------
(***************************************************************************)
(* Proofs about TrafficWAL for every set of chunks, every number of        *)
(* session slots and every bound: type correctness, that every chunk is at *)
(* one place, that a sequence number names one batch, that rows are        *)
(* deleted only when billed, and that the pipeline implements              *)
(* TrafficLedger.                                                          *)
(***************************************************************************)
EXTENDS TrafficWAL, TLAPS, SequenceTheorems

\* The rows sendPendingTraffic reads are rows of the WAL (store.go:474).
LEMMA PendingIsWal == PendingTraffic \subseteq wal
  BY DEF PendingTraffic

\* What a record built from the accumulator is (store.go:448).
LEMMA NewBatchType ==
  ASSUME TypeOK, NEW at \in CreatedAt
  PROVE  [boot |-> boot, seq |-> NextSequence, created |-> at, items |-> accumulator]
           \in Batch
  BY DEF TypeOK, Batch, NextSequence

\* The frames of a session's wire stay batches, and within the bound, when
\* one is appended or taken off.
LEMMA TypeStep == TypeOK /\ [Next]_vars => TypeOK'
  <1> SUFFICES ASSUME TypeOK, [Next]_vars PROVE TypeOK'
    OBVIOUS
  <1> USE ConstantsAssumption
  <1> USE DEF TypeOK, storeVars, sessionVars, wireVars
  <1>1. ASSUME NEW c \in Chunk, Meter(c) PROVE TypeOK'
    BY <1>1 DEF Meter
  <1>2. CASE DropCounters
    BY <1>2 DEF DropCounters
  <1>3. CASE Crash
    BY <1>3 DEF Crash, Fault, Phase, Place
  <1>4. ASSUME NEW s \in Slot, WorkerStep(s) PROVE TypeOK'
    <2>1. CASE CollectLoad(s)
      BY <2>1 DEF CollectLoad, Place
    <2>2. CASE CollectStore(s)
      BY <2>2 DEF CollectStore, CountersAfterStore, Place
    <2>3. CASE AddTrafficWindow(s)
      BY <2>3 DEF AddTrafficWindow, Place
    <2>4. CASE DrainTraffic(s)
      <3>1. wal' \in SUBSET Batch /\ sequence' \in Nat /\ accumulator' \in SUBSET Chunk
        BY <2>4, NewBatchType DEF DrainTraffic, NextSequence, AccumulatorAfterDrain
      <3>2. worker' \in [Slot -> Place]
        BY <2>4 DEF DrainTraffic, Place
      <3> QED
        BY <2>4, <3>1, <3>2 DEF DrainTraffic
    <2>5. CASE LoadPending(s)
      BY <2>5, PendingIsWal DEF LoadPending, Place
    <2>6. CASE SendBatch(s)
      BY <2>6 DEF SendBatch, HasRoom
    <2>7. CASE SendDone(s)
      BY <2>7 DEF SendDone, Phase, Place
    <2>8. CASE WorkerStops(s)
      BY <2>8 DEF WorkerStops, Returned, Place
    <2> QED
      BY <1>4, <2>1, <2>2, <2>3, <2>4, <2>5, <2>6, <2>7, <2>8 DEF WorkerStep
  <1>5. ASSUME NEW s \in Slot, WorkerFails(s) PROVE TypeOK'
    BY <1>5 DEF WorkerFails, Returned, Fault, Place
  <1>6. ASSUME NEW s \in Slot, StartSession(s) PROVE TypeOK'
    BY <1>6, PendingIsWal DEF StartSession, Phase
  <1>7. ASSUME NEW s \in Slot, EndSession(s)
        PROVE  /\ sess' \in [Slot -> Phase]
               /\ todo' \in [Slot -> SUBSET Batch]
               /\ toClient' \in [Slot -> Seq(Ack)]
    BY <1>7 DEF EndSession, Phase
  <1>8. ASSUME NEW s \in Slot, ReadAck(s) PROVE TypeOK'
    <2>1. wal' \in SUBSET Batch
      BY <1>8 DEF ReadAck, AcknowledgeTraffic
    <2>2. EndSession(s) \/ Continue(s)
      BY <1>8 DEF ReadAck
    <2>3. /\ sess' \in [Slot -> Phase]
          /\ todo' \in [Slot -> SUBSET Batch]
          /\ toClient' \in [Slot -> Seq(Ack)]
      <3>1. CASE EndSession(s)
        BY <3>1, <1>7
      <3>2. CASE toClient' = [toClient EXCEPT ![s] = Tail(@)] /\ UNCHANGED <<sess, todo>>
        BY <3>2, <1>8 DEF ReadAck
      <3> QED
        BY <2>2, <3>1, <3>2 DEF Continue
    <2> QED
      BY <1>8, <2>1, <2>3 DEF ReadAck
  <1>9. ASSUME NEW s \in Slot, SessionError(s) PROVE TypeOK'
    BY <1>9, <1>7 DEF SessionError
  <1>10. ASSUME NEW s \in Slot, ConnectionLost(s) PROVE TypeOK'
    BY <1>10, <1>7 DEF ConnectionLost, Fault
  <1>11. ASSUME NEW s \in Slot, NEW b \in Batch, NEW st \in Status, Reply(s, b, st)
         PROVE  toClient' \in [Slot -> Seq(Ack)]
    <2>1. [batch |-> b, status |-> st] \in Ack
      BY DEF Ack
    <2>2. toClient[s] \in Seq(Ack)
      OBVIOUS
    <2>3. Append(toClient[s], [batch |-> b, status |-> st]) \in Seq(Ack)
      BY <2>1, <2>2
    <2> QED
      BY <1>11, <2>3 DEF Reply
  <1>12. ASSUME NEW s \in Slot, WireStep(s) \/ ServerReject(s) PROVE TypeOK'
    <2>1. toServer' \in [Slot -> Seq(Batch)] /\ \A t \in Slot : Len(toServer'[t]) <= MaxInFlight
      <3>1. toServer' = [toServer EXCEPT ![s] = Tail(@)] \/ toServer' = [toServer EXCEPT ![s] = <<>>]
        BY <1>12 DEF WireStep, ServerReceive, ServerReject, LoseWire
      <3>2. toServer[s] # <<>> \/ toServer' = [toServer EXCEPT ![s] = <<>>]
        BY <1>12 DEF WireStep, ServerReceive, ServerReject, LoseWire
      <3>3. toServer[s] \in Seq(Batch) /\ Len(toServer[s]) <= MaxInFlight
        OBVIOUS
      <3>4. toServer[s] # <<>> => /\ Tail(toServer[s]) \in Seq(Batch)
                                  /\ Len(Tail(toServer[s])) <= MaxInFlight
        BY <3>3
      <3>5. PICK w \in Seq(Batch) : Len(w) <= MaxInFlight /\ toServer' = [toServer EXCEPT ![s] = w]
        <4>1. CASE toServer' = [toServer EXCEPT ![s] = <<>>]
          <5>1. <<>> \in Seq(Batch) /\ Len(<<>>) <= MaxInFlight
            OBVIOUS
          <5> QED
            BY <4>1, <5>1
        <4>2. CASE toServer[s] # <<>> /\ toServer' = [toServer EXCEPT ![s] = Tail(@)]
          BY <4>2, <3>4
        <4> QED
          BY <3>1, <3>2, <4>1, <4>2
      <3> QED
        BY <3>5
    <2>2. toServer[s] # <<>> => Head(toServer[s]) \in Batch
      OBVIOUS
    <2>3. CASE ServerReceive(s)
      <3> DEFINE b == Head(toServer[s])
      <3>1. b \in Batch /\ Answer(b) \in Status
        BY <2>3, <2>2 DEF ServerReceive, Answer, Status
      <3>2. toClient' \in [Slot -> Seq(Ack)]
        BY <2>3, <3>1, <1>11 DEF ServerReceive
      <3> QED
        BY <2>3, <2>1, <3>1, <3>2 DEF ServerReceive
    <2>4. CASE LoseWire(s)
      BY <2>4, <2>1 DEF LoseWire
    <2>5. CASE ServerReject(s)
      <3>1. toClient' \in [Slot -> Seq(Ack)]
        BY <2>5, <2>2, <1>11 DEF ServerReject, Status
      <3> QED
        BY <2>5, <2>1, <3>1 DEF ServerReject, Fault
    <2> QED
      BY <1>12, <2>3, <2>4, <2>5 DEF WireStep
  <1>13. CASE UNCHANGED vars
    BY <1>13 DEF vars
  <1> QED
    BY <1>1, <1>2, <1>3, <1>4, <1>5, <1>6, <1>8, <1>9, <1>10, <1>12, <1>13 DEF Next

\* Every variable keeps its type in every behaviour (whole component).
THEOREM TypeCorrect == Spec => []TypeOK
  <1>1. Init => TypeOK
    BY ConstantsAssumption DEF Init, TypeOK, Phase, Place
  <1> QED
    BY <1>1, TypeStep, PTL DEF Spec

-----------------------------------------------------------------------------
(* The inductive invariant.  Almost every step leaves the set of known     *)
(* batches, the WAL with the ledger, as it is: an accepted batch was in    *)
(* the WAL, a deleted row is in the ledger.  Only DrainTraffic adds one.   *)

\* Sequence numbers and what is metered only concern known batches.
LEMMA SameKnown ==
  ASSUME IInv, (wal \cup ledger)' = wal \cup ledger, sequence' = sequence,
         metered \subseteq metered', accumulator' = accumulator,
         \A s \in Slot : hand'[s] \subseteq metered
  PROVE  SequenceNamesBatch' /\ SequenceBounds' /\ OnlyMetered'
  BY DEF IInv, SequenceNamesBatch, SequenceBounds, OnlyMetered

\* Chunks stay apart when collectors only let go of what they hold and the
\* counters only shrink.
LEMMA LettingGo ==
  ASSUME IInv, (wal \cup ledger)' = wal \cup ledger, accumulator' = accumulator,
         counters' \subseteq counters,
         \A s \in Slot : hand'[s] \subseteq hand[s],
         \A s \in Slot : worker[s] = "loaded" => worker'[s] = "loaded" \/ hand'[s] = {}
  PROVE  ChunkAtOnePlace'
  <1> USE DEF IInv, ChunkAtOnePlace
  <1>1. \A a, b \in (wal \cup ledger)' : a # b => a.items \cap b.items = {}
    OBVIOUS
  <1>2. \A b \in (wal \cup ledger)' : /\ b.items \cap accumulator' = {}
                                      /\ b.items \cap counters' = {}
    OBVIOUS
  <1>3. ASSUME NEW s \in Slot
        PROVE  /\ hand'[s] \cap accumulator' = {}
               /\ \A b \in (wal \cup ledger)' : hand'[s] \cap b.items = {}
               /\ \A t \in Slot \ {s} : hand'[s] \cap hand'[t] = {}
               /\ worker'[s] # "loaded" => hand'[s] \cap counters' = {}
    OBVIOUS
  <1> QED
    BY <1>1, <1>2, <1>3

\* What is on the wire stays known when nothing is put on it.
LEMMA WireShrinks ==
  ASSUME IInv, TypeOK', (wal \cup ledger)' = wal \cup ledger, ledger \subseteq ledger',
         \A s \in Slot : todo'[s] \subseteq todo[s],
         \A s \in Slot : toServer'[s] \in {toServer[s], <<>>},
         \A s \in Slot : toClient'[s] \in {toClient[s], <<>>}
  PROVE  WireKnown'
  <1> SUFFICES ASSUME NEW s \in Slot
               PROVE  /\ todo'[s] \subseteq (wal \cup ledger)'
                      /\ \A i \in 1..Len(toServer'[s]) : toServer'[s][i] \in (wal \cup ledger)'
                      /\ \A i \in 1..Len(toClient'[s]) :
                           toClient'[s][i].status # "rejected" => toClient'[s][i].batch \in ledger'
    BY DEF WireKnown
  <1>1. todo'[s] \subseteq (wal \cup ledger)'
    BY DEF IInv, WireKnown
  <1>2. \A i \in 1..Len(toServer'[s]) : toServer'[s][i] \in (wal \cup ledger)'
    BY DEF IInv, WireKnown
  <1>3. \A i \in 1..Len(toClient'[s]) :
           toClient'[s][i].status # "rejected" => toClient'[s][i].batch \in ledger'
    BY DEF IInv, WireKnown
  <1> QED
    BY <1>1, <1>2, <1>3

\* Every step of the agent, the server and the connection preserves the
\* inductive invariant (client.go:142-300, store.go:362-511).
LEMMA StepIInv == IInv /\ [Next]_vars => IInv'
  <1> SUFFICES ASSUME IInv, [Next]_vars PROVE IInv'
    OBVIOUS
  <1>0. TypeOK /\ TypeOK'
    BY TypeStep DEF IInv
  <1> USE DEF storeVars, sessionVars, wireVars
  <1>1. ASSUME NEW c \in Chunk, Meter(c) PROVE IInv'
    <2> USE <1>1 DEF Meter
    <2>1. SequenceNamesBatch' /\ SequenceBounds' /\ OnlyMetered'
      BY SameKnown DEF IInv, OnlyMetered
    <2>2. WireKnown'
      BY DEF IInv, WireKnown
    <2>3. ChunkAtOnePlace'
      BY DEF IInv, ChunkAtOnePlace, OnlyMetered
    <2>4. OneCollector' /\ FlushComesFirst'
      BY DEF IInv, OneCollector, FlushComesFirst
    <2> QED
      BY <1>0, <2>1, <2>2, <2>3, <2>4 DEF IInv
  <1>2. CASE DropCounters
    <2> USE <1>2 DEF DropCounters
    <2>1. SequenceNamesBatch' /\ SequenceBounds' /\ OnlyMetered'
      BY SameKnown DEF IInv, OnlyMetered
    <2>2. WireKnown'
      BY DEF IInv, WireKnown
    <2>3. ChunkAtOnePlace'
      BY LettingGo
    <2>4. OneCollector' /\ FlushComesFirst'
      BY DEF IInv, OneCollector, FlushComesFirst
    <2> QED
      BY <1>0, <2>1, <2>2, <2>3, <2>4 DEF IInv
  <1>3. ASSUME NEW s \in Slot, CollectLoad(s) PROVE IInv'
    <2> USE <1>3 DEF CollectLoad
    <2>1. SequenceNamesBatch' /\ SequenceBounds' /\ OnlyMetered'
      BY SameKnown, <1>0 DEF IInv, OnlyMetered, TypeOK
    <2>2. WireKnown'
      BY DEF IInv, WireKnown
    <2>3. ChunkAtOnePlace'
      BY <1>0 DEF IInv, ChunkAtOnePlace, CoreLocked, TypeOK
    <2>4. OneCollector' /\ FlushComesFirst'
      BY <1>0 DEF IInv, OneCollector, FlushComesFirst, CoreLocked, TypeOK
    <2> QED
      BY <1>0, <2>1, <2>2, <2>3, <2>4 DEF IInv
  <1>4. ASSUME NEW s \in Slot, CollectStore(s) PROVE IInv'
    <2> USE <1>4 DEF CollectStore, CountersAfterStore
    <2>1. SequenceNamesBatch' /\ SequenceBounds' /\ OnlyMetered'
      BY SameKnown, <1>0 DEF IInv, OnlyMetered, TypeOK
    <2>2. WireKnown'
      BY DEF IInv, WireKnown
    <2>3. ChunkAtOnePlace'
      <3>1. counters' \subseteq counters /\ counters' \cap hand[s] = {}
        OBVIOUS
      <3>2. \A t \in Slot \ {s} : worker[t] # "loaded" /\ worker'[t] = worker[t]
        BY <1>0 DEF IInv, OneCollector, FlushComesFirst, TypeOK
      <3> QED
        BY <3>1, <3>2 DEF IInv, ChunkAtOnePlace
    <2>4. OneCollector' /\ FlushComesFirst'
      BY <1>0 DEF IInv, OneCollector, FlushComesFirst, TypeOK
    <2> QED
      BY <1>0, <2>1, <2>2, <2>3, <2>4 DEF IInv
  <1>5. ASSUME NEW s \in Slot, AddTrafficWindow(s) PROVE IInv'
    <2> USE <1>5 DEF AddTrafficWindow
    <2>1. SequenceNamesBatch' /\ SequenceBounds' /\ OnlyMetered'
      BY <1>0 DEF IInv, OnlyMetered, TypeOK, SequenceNamesBatch, SequenceBounds
    <2>2. WireKnown'
      BY DEF IInv, WireKnown
    <2>3. ChunkAtOnePlace'
      BY <1>0 DEF IInv, ChunkAtOnePlace, TypeOK
    <2>4. OneCollector' /\ FlushComesFirst'
      BY <1>0 DEF IInv, OneCollector, FlushComesFirst, TypeOK
    <2> QED
      BY <1>0, <2>1, <2>2, <2>3, <2>4 DEF IInv
  <1>6. ASSUME NEW s \in Slot, DrainTraffic(s) PROVE IInv'
    <2> USE <1>6 DEF DrainTraffic
    <2>1. OneCollector' /\ FlushComesFirst'
      BY <1>0 DEF IInv, OneCollector, FlushComesFirst, TypeOK
    <2>2. CASE accumulator = {}
      <3>1. SequenceNamesBatch' /\ SequenceBounds' /\ OnlyMetered'
        BY <2>2, <1>0, SameKnown DEF IInv, OnlyMetered
      <3>2. WireKnown' /\ ChunkAtOnePlace'
        BY <2>2, <1>0 DEF IInv, WireKnown, ChunkAtOnePlace, TypeOK
      <3> QED
        BY <1>0, <2>1, <3>1, <3>2 DEF IInv
    <2>3. CASE accumulator # {}
      <3>1. PICK b \in Batch : /\ wal' = wal \cup {b}
                               /\ b.seq = sequence + 1
                               /\ b.items = accumulator
        BY <2>3, <1>0, NewBatchType DEF NextSequence
      <3>2. (wal \cup ledger)' = (wal \cup ledger) \cup {b}
        BY <3>1
      <3>3. \A a \in wal \cup ledger : a.seq \in Nat /\ a.seq < b.seq
        BY <3>1, <1>0 DEF IInv, SequenceBounds, TypeOK, Batch
      <3>4. SequenceNamesBatch'
        BY <3>2, <3>3 DEF IInv, SequenceNamesBatch
      <3>5. SequenceBounds'
        BY <2>3, <3>1, <3>2, <3>3, <1>0 DEF IInv, SequenceBounds, NextSequence, TypeOK
      <3>6. OnlyMetered'
        BY <2>3, <3>1, <3>2 DEF IInv, OnlyMetered, AccumulatorAfterDrain
      <3>7. WireKnown'
        BY <3>2 DEF IInv, WireKnown
      <3>8. ChunkAtOnePlace'
        <4>1. accumulator' = {} /\ hand' = hand /\ counters' = counters
          BY <2>3 DEF AccumulatorAfterDrain
        <4>2. \A t \in Slot : worker'[t] # "loaded" => worker[t] # "loaded"
          BY <1>0 DEF TypeOK
        <4>3. \A a \in wal \cup ledger : a.items \cap b.items = {}
          BY <3>1 DEF IInv, ChunkAtOnePlace
        <4> QED
          BY <3>1, <3>2, <4>1, <4>2, <4>3 DEF IInv, ChunkAtOnePlace
      <3> QED
        BY <1>0, <2>1, <3>4, <3>5, <3>6, <3>7, <3>8 DEF IInv
    <2> QED
      BY <2>2, <2>3
  <1>7. ASSUME NEW s \in Slot, LoadPending(s) \/ StartSession(s) PROVE IInv'
    <2>1. /\ UNCHANGED <<metered, counters, hand, wireVars, storeVars, ledger>>
          /\ todo' = [todo EXCEPT ![s] = PendingTraffic]
          /\ worker' \in {worker, [worker EXCEPT ![s] = "sending"]}
          /\ worker[s] # "loaded"
          /\ \/ worker' = worker /\ worker[s] = "dead"
             \/ sess' = sess /\ worker[s] # "dead"
          /\ \A t \in Slot \ {s} : sess'[t] = sess[t]
      <3>1. CASE LoadPending(s)
        BY <3>1 DEF LoadPending
      <3>2. CASE StartSession(s)
        BY <3>2, <1>0 DEF StartSession, Reusable, TypeOK
      <3> QED
        BY <1>7, <3>1, <3>2
    <2>2. SequenceNamesBatch' /\ SequenceBounds' /\ OnlyMetered'
      BY <2>1, SameKnown DEF IInv, OnlyMetered
    <2>3. WireKnown'
      BY <2>1, <1>0, PendingIsWal DEF IInv, WireKnown, TypeOK
    <2>4. ChunkAtOnePlace' /\ OneCollector' /\ FlushComesFirst'
      BY <2>1, <1>0, LettingGo DEF IInv, OneCollector, FlushComesFirst, TypeOK
    <2> QED
      BY <1>0, <2>2, <2>3, <2>4 DEF IInv
  <1>8. ASSUME NEW s \in Slot, SendBatch(s) PROVE IInv'
    <2> USE <1>8 DEF SendBatch
    <2>1. SequenceNamesBatch' /\ SequenceBounds' /\ OnlyMetered'
      BY SameKnown DEF IInv, OnlyMetered
    <2>2. ChunkAtOnePlace' /\ OneCollector' /\ FlushComesFirst'
      BY LettingGo DEF IInv, OneCollector, FlushComesFirst
    <2>3. PICK b \in todo[s] : /\ toServer' = [toServer EXCEPT ![s] = Append(@, b)]
                               /\ todo' = [todo EXCEPT ![s] = @ \ {b}]
      OBVIOUS
    <2>4. b \in wal \cup ledger /\ b \in Batch
      BY <1>0 DEF IInv, WireKnown, TypeOK
    <2>5. \A t \in Slot : todo'[t] \subseteq wal \cup ledger
      BY <2>3, <1>0 DEF IInv, WireKnown, TypeOK
    <2>6. \A t \in Slot : \A i \in 1..Len(toServer'[t]) : toServer'[t][i] \in wal \cup ledger
      BY <2>3, <2>4, <1>0 DEF IInv, WireKnown, TypeOK
    <2>7. WireKnown'
      BY <2>5, <2>6 DEF IInv, WireKnown
    <2> QED
      BY <1>0, <2>1, <2>2, <2>7 DEF IInv
  <1>9. ASSUME NEW s \in Slot, SendDone(s) PROVE IInv'
    <2> USE <1>9 DEF SendDone
    <2>1. SequenceNamesBatch' /\ SequenceBounds' /\ OnlyMetered'
      BY SameKnown DEF IInv, OnlyMetered
    <2>2. WireKnown'
      BY DEF IInv, WireKnown
    <2>3. hand[s] = hand'[s] /\ (worker[s] = "loaded" => FALSE)
      BY <1>0 DEF Sending, IInv, FlushComesFirst
    <2>4. ChunkAtOnePlace' /\ OneCollector' /\ FlushComesFirst'
      BY <1>0, <2>3, LettingGo DEF IInv, OneCollector, FlushComesFirst, TypeOK
    <2> QED
      BY <1>0, <2>1, <2>2, <2>4 DEF IInv
  <1>10. ASSUME NEW s \in Slot, WorkerStops(s) \/ WorkerFails(s) PROVE IInv'
    <2>1. /\ UNCHANGED <<metered, counters, sess, wireVars, storeVars, ledger>>
          /\ Returned(s)
          /\ worker[s] # "dead" /\ worker[s] # "loaded"
      BY <1>10 DEF WorkerStops, WorkerFails
    <2> USE <2>1 DEF Returned
    <2>2. \A t \in Slot : hand'[t] \subseteq hand[t] /\ todo'[t] \subseteq todo[t]
      BY <1>0 DEF TypeOK
    <2>3. SequenceNamesBatch' /\ SequenceBounds' /\ OnlyMetered'
      BY <2>2, SameKnown DEF IInv, OnlyMetered
    <2>4. WireKnown'
      BY <2>2, <1>0, WireShrinks
    <2>5. ChunkAtOnePlace'
      BY <2>2, <1>0, LettingGo DEF TypeOK
    <2>6. OneCollector' /\ FlushComesFirst'
      BY <1>0 DEF IInv, OneCollector, FlushComesFirst, TypeOK
    <2> QED
      BY <1>0, <2>3, <2>4, <2>5, <2>6 DEF IInv
  <1>11. CASE Crash
    <2> USE <1>11 DEF Crash
    <2>1. SequenceNamesBatch' /\ SequenceBounds' /\ OnlyMetered'
      BY SameKnown DEF IInv, OnlyMetered
    <2>2. WireKnown'
      BY <1>0, WireShrinks
    <2>3. ChunkAtOnePlace'
      BY LettingGo
    <2>4. OneCollector' /\ FlushComesFirst'
      BY DEF OneCollector, FlushComesFirst
    <2> QED
      BY <1>0, <2>1, <2>2, <2>3, <2>4 DEF IInv
  <1>12. ASSUME NEW s \in Slot, EndSession(s), UNCHANGED <<metered, counters, worker, hand,
                    accumulator, sequence, toServer, ledger>>,
                (wal \cup ledger)' = wal \cup ledger
         PROVE  IInv'
    <2> USE <1>12 DEF EndSession
    <2>1. SequenceNamesBatch' /\ SequenceBounds' /\ OnlyMetered'
      BY SameKnown DEF IInv, OnlyMetered
    <2>2. \A t \in Slot : todo'[t] \subseteq todo[t] /\ toClient'[t] \in {toClient[t], <<>>}
      BY <1>0 DEF TypeOK
    <2>3. WireKnown'
      BY <1>0, <2>2, WireShrinks
    <2>4. ChunkAtOnePlace'
      BY LettingGo
    <2>5. OneCollector' /\ FlushComesFirst'
      BY <1>0 DEF IInv, OneCollector, FlushComesFirst, TypeOK
    <2> QED
      BY <1>0, <2>1, <2>3, <2>4, <2>5 DEF IInv
  <1>13. ASSUME NEW s \in Slot, SessionError(s) \/ ConnectionLost(s) PROVE IInv'
    BY <1>13, <1>12 DEF SessionError, ConnectionLost
  <1>14. ASSUME NEW s \in Slot, ReadAck(s) PROVE IInv'
    <2> DEFINE ack == Head(toClient[s])
    <2>1. ack.status # "rejected" => ack.batch \in ledger
      <3>1. toClient[s] \in Seq(Ack) /\ toClient[s] # <<>>
        BY <1>14, <1>0 DEF ReadAck, TypeOK
      <3>2. 1 \in 1..Len(toClient[s]) /\ ack = toClient[s][1]
        BY <3>1
      <3> QED
        BY <3>2 DEF IInv, WireKnown
    <2>2. (wal \cup ledger)' = wal \cup ledger
      BY <1>14, <2>1 DEF ReadAck, AcknowledgeTraffic
    <2>3. CASE EndSession(s)
      BY <1>14, <1>12, <2>2, <2>3 DEF ReadAck
    <2>4. CASE toClient' = [toClient EXCEPT ![s] = Tail(@)] /\ UNCHANGED <<sess, todo>>
      <3> USE <1>14, <2>4 DEF ReadAck
      <3>1. SequenceNamesBatch' /\ SequenceBounds' /\ OnlyMetered'
        BY <2>2, SameKnown DEF IInv, OnlyMetered
      <3>2. ChunkAtOnePlace' /\ OneCollector' /\ FlushComesFirst'
        BY <2>2, LettingGo DEF IInv, OneCollector, FlushComesFirst
      <3>3. \A t \in Slot : \A i \in 1..Len(toClient'[t]) :
               toClient'[t][i].status # "rejected" => toClient'[t][i].batch \in ledger
        <4>1. toClient[s] \in Seq(Ack) /\ toClient[s] # <<>>
          BY <1>0 DEF TypeOK
        <4>2. \A i \in 1..Len(Tail(toClient[s])) :
                 i + 1 \in 1..Len(toClient[s]) /\ Tail(toClient[s])[i] = toClient[s][i + 1]
          BY <4>1
        <4>3. \A i \in 1..Len(toClient'[s]) :
                 toClient'[s][i].status # "rejected" => toClient'[s][i].batch \in ledger
          <5>1. toClient'[s] = Tail(toClient[s])
            BY <1>0 DEF TypeOK
          <5> QED
            BY <5>1, <4>2 DEF IInv, WireKnown
        <4>4. \A t \in Slot \ {s} : toClient'[t] = toClient[t]
          BY <1>0 DEF TypeOK
        <4> QED
          BY <4>3, <4>4 DEF IInv, WireKnown
      <3>4. WireKnown'
        BY <2>2, <3>3 DEF IInv, WireKnown
      <3> QED
        BY <1>0, <3>1, <3>2, <3>4 DEF IInv
    <2> QED
      BY <1>14, <2>3, <2>4 DEF ReadAck, Continue
  <1>15. ASSUME NEW s \in Slot, LoseWire(s) PROVE IInv'
    <2> USE <1>15 DEF LoseWire
    <2>1. SequenceNamesBatch' /\ SequenceBounds' /\ OnlyMetered'
      BY SameKnown DEF IInv, OnlyMetered
    <2>2. \A t \in Slot : toServer'[t] \in {toServer[t], <<>>}
      BY <1>0 DEF TypeOK
    <2>3. WireKnown'
      BY <1>0, <2>2, WireShrinks
    <2>4. ChunkAtOnePlace' /\ OneCollector' /\ FlushComesFirst'
      BY LettingGo DEF IInv, OneCollector, FlushComesFirst
    <2> QED
      BY <1>0, <2>1, <2>3, <2>4 DEF IInv
  <1>16. ASSUME NEW s \in Slot, ServerReceive(s) \/ ServerReject(s) PROVE IInv'
    <2> DEFINE b == Head(toServer[s])
    <2>1. toServer[s] \in Seq(Batch) /\ toServer[s] # <<>>
      BY <1>16, <1>0 DEF ServerReceive, ServerReject, TypeOK
    <2>2. b \in wal \cup ledger /\ b \in Batch
      <3>1. 1 \in 1..Len(toServer[s]) /\ b = toServer[s][1] /\ b \in Batch
        BY <2>1
      <3> QED
        BY <3>1 DEF IInv, WireKnown
    <2>3. PICK st \in Status : /\ Reply(s, b, st)
                               /\ st # "rejected" => b \in ledger'
      BY <1>16 DEF ServerReceive, ServerReject, Answer, Status
    <2>4. /\ ledger \subseteq ledger'
          /\ (wal \cup ledger)' = wal \cup ledger
          /\ toServer' = [toServer EXCEPT ![s] = Tail(@)]
          /\ UNCHANGED <<metered, counters, sessionVars, storeVars, boot>>
      BY <1>16, <2>2 DEF ServerReceive, ServerReject
    <2>5. SequenceNamesBatch' /\ SequenceBounds' /\ OnlyMetered'
      BY <2>4, SameKnown DEF IInv, OnlyMetered
    <2>6. ChunkAtOnePlace' /\ OneCollector' /\ FlushComesFirst'
      BY <2>4, LettingGo DEF IInv, OneCollector, FlushComesFirst
    <2>7. \A t \in Slot : \A i \in 1..Len(toServer'[t]) : toServer'[t][i] \in wal \cup ledger
      <3>1. \A i \in 1..Len(Tail(toServer[s])) :
               i + 1 \in 1..Len(toServer[s]) /\ Tail(toServer[s])[i] = toServer[s][i + 1]
        BY <2>1
      <3> QED
        BY <2>4, <3>1, <1>0 DEF IInv, WireKnown, TypeOK
    <2>8. \A t \in Slot : \A i \in 1..Len(toClient'[t]) :
             toClient'[t][i].status # "rejected" => toClient'[t][i].batch \in ledger'
      <3>1. CASE toClient' = toClient
        BY <3>1, <2>4 DEF IInv, WireKnown
      <3>2. CASE toClient' = [toClient EXCEPT ![s] = Append(@, [batch |-> b, status |-> st])]
        <4>1. toClient[s] \in Seq(Ack) /\ [batch |-> b, status |-> st] \in Ack
          BY <1>0, <2>2 DEF TypeOK, Ack
        <4>2. \A i \in 1..Len(toClient'[s]) :
                 toClient'[s][i].status # "rejected" => toClient'[s][i].batch \in ledger'
          <5> SUFFICES ASSUME NEW i \in 1..Len(toClient'[s]), toClient'[s][i].status # "rejected"
                       PROVE  toClient'[s][i].batch \in ledger'
            OBVIOUS
          <5>1. toClient'[s] = Append(toClient[s], [batch |-> b, status |-> st])
            BY <3>2, <1>0 DEF TypeOK
          <5>2. CASE i = Len(toClient[s]) + 1
            BY <5>1, <5>2, <4>1, <2>3
          <5>3. CASE i \in 1..Len(toClient[s])
            BY <5>1, <5>3, <4>1, <2>4 DEF IInv, WireKnown
          <5> QED
            BY <5>1, <5>2, <5>3, <4>1
        <4>3. \A t \in Slot \ {s} : toClient'[t] = toClient[t]
          BY <3>2, <1>0 DEF TypeOK
        <4> QED
          BY <4>2, <4>3, <2>4 DEF IInv, WireKnown
      <3> QED
        BY <2>3, <3>1, <3>2 DEF Reply
    <2>9. WireKnown'
      BY <2>4, <2>7, <2>8 DEF IInv, WireKnown
    <2> QED
      BY <1>0, <2>5, <2>6, <2>9 DEF IInv
  <1>17. CASE UNCHANGED vars
    <2> USE <1>17 DEF vars
    <2>1. SequenceNamesBatch' /\ SequenceBounds' /\ OnlyMetered'
      BY SameKnown DEF IInv, OnlyMetered
    <2>2. WireKnown'
      BY DEF IInv, WireKnown
    <2>3. ChunkAtOnePlace' /\ OneCollector' /\ FlushComesFirst'
      BY LettingGo DEF IInv, OneCollector, FlushComesFirst
    <2> QED
      BY <1>0, <2>1, <2>2, <2>3 DEF IInv
  <1> QED
    BY <1>1, <1>2, <1>3, <1>4, <1>5, <1>6, <1>7, <1>8, <1>9, <1>10, <1>11, <1>13, <1>14,
       <1>15, <1>16, <1>17 DEF Next, WorkerStep, WireStep

\* The inductive invariant holds in every behaviour of the pipeline.
THEOREM InvariantHolds == Spec => []IInv
  <1>1. Init => IInv
    <2>1. Init => TypeOK
      BY ConstantsAssumption DEF Init, TypeOK, Phase, Place
    <2>2. Init => /\ ChunkAtOnePlace /\ SequenceNamesBatch /\ WireKnown
                  /\ SequenceBounds /\ OnlyMetered /\ OneCollector /\ FlushComesFirst
      BY DEF Init, ChunkAtOnePlace, SequenceNamesBatch, WireKnown, SequenceBounds,
             OnlyMetered, OneCollector, FlushComesFirst
    <2> QED
      BY <2>1, <2>2 DEF IInv
  <1> QED
    BY <1>1, StepIInv, PTL DEF Spec

\* Every chunk is at one place, whatever sessions, restarts and retransmissions
\* do (collectAndSendTraffic and DrainTraffic).
THEOREM ChunksAtOnePlace == Spec => []ChunkAtOnePlace
  BY InvariantHolds, PTL DEF IInv

\* The control server never bills a chunk twice (DrainTraffic, resends).
THEOREM CreditedOnce == Spec => []NoDoubleCredit
  <1>1. IInv => NoDoubleCredit
    BY DEF IInv, ChunkAtOnePlace, NoDoubleCredit
  <1> QED
    BY <1>1, InvariantHolds, PTL

\* A sequence number names one batch forever (DrainTraffic).
THEOREM SequencesUnique == Spec => []SequenceNamesBatch
  BY InvariantHolds, PTL DEF IInv

\* A positive acknowledgement the read loop is about to handle is about a
\* batch the server has accepted.
LEMMA AckedIsCredited ==
  ASSUME IInv, NEW s \in Slot, toClient[s] # <<>>, Head(toClient[s]).status # "rejected"
  PROVE  Head(toClient[s]).batch \in ledger
  <1>1. toClient[s] \in Seq(Ack)
    BY DEF IInv, TypeOK
  <1>2. 1 \in 1..Len(toClient[s]) /\ Head(toClient[s]) = toClient[s][1]
    BY <1>1
  <1> QED
    BY <1>2 DEF IInv, WireKnown

\* Of all steps only the read loop deletes rows, and only accepted ones.
LEMMA DeletedStep == IInv /\ [Next]_vars => wal \ wal' \subseteq ledger
  <1> SUFFICES ASSUME IInv, [Next]_vars PROVE wal \ wal' \subseteq ledger
    OBVIOUS
  <1> USE DEF storeVars, sessionVars, wireVars
  <1>1. ASSUME NEW s \in Slot, ReadAck(s) PROVE wal \ wal' \subseteq ledger
    BY <1>1, AckedIsCredited DEF ReadAck, AcknowledgeTraffic
  <1>2. ASSUME NEW s \in Slot, WorkerStep(s) PROVE wal \ wal' \subseteq ledger
    BY <1>2 DEF WorkerStep, CollectLoad, CollectStore, AddTrafficWindow, DrainTraffic,
                LoadPending, SendBatch, SendDone, WorkerStops
  <1>3. ASSUME NEW s \in Slot, \/ WorkerFails(s) \/ StartSession(s) \/ SessionError(s)
                               \/ ConnectionLost(s) \/ WireStep(s) \/ ServerReject(s)
        PROVE  wal' = wal
    BY <1>3 DEF WorkerFails, StartSession, SessionError, ConnectionLost, WireStep,
                ServerReceive, LoseWire, ServerReject
  <1>4. ASSUME NEW c \in Chunk, Meter(c) PROVE wal' = wal
    BY <1>4 DEF Meter
  <1>5. CASE DropCounters \/ Crash \/ UNCHANGED vars
    BY <1>5 DEF DropCounters, Crash, vars
  <1> QED
    BY <1>1, <1>2, <1>3, <1>4, <1>5 DEF Next

\* A row leaves the WAL only when the server has accepted that batch
\* (AcknowledgeTraffic).
THEOREM DeletionIsSafe == Spec => DeletedOnlyIfCredited
  <1>1. IInv /\ [Next]_vars => [wal \ wal' \subseteq ledger]_vars
    BY DeletedStep
  <1> QED
    BY <1>1, InvariantHolds, PTL DEF Spec, DeletedOnlyIfCredited

-----------------------------------------------------------------------------
(* Refinement: the pipeline implements TrafficLedger.                      *)


\* A step that changes neither the known batches, nor the accumulator, nor the
\* ledger changes nothing the control plane can bill.
LEMMA Stutters ==
  ASSUME (wal \cup ledger)' = wal \cup ledger, accumulator' = accumulator, ledger' = ledger
  PROVE  UNCHANGED Ledger!ledgerVars
  <1>1. Bills' = Bills
    BY DEF Bills
  <1>2. Items(wal)' \cup Items(ledger)' = Items(wal) \cup Items(ledger)
    BY DEF Items
  <1> QED
    BY <1>1, <1>2 DEF Ledger!ledgerVars, Durable

\* AddTrafficWindow records traffic that was not durable before.
LEMMA AddRecords ==
  ASSUME IInv, NEW s \in Slot, AddTrafficWindow(s)
  PROVE  Ledger!Record
  <1> USE DEF AddTrafficWindow, IInv
  <1>1. hand[s] \subseteq Chunk
    BY DEF TypeOK
  <1>2. hand[s] \cap Durable = {}
    BY DEF ChunkAtOnePlace, Durable, Items
  <1>3. Durable' = Durable \cup hand[s] /\ Bills' = Bills
    BY DEF Durable, Bills, Items
  <1> QED
    BY <1>1, <1>2, <1>3 DEF Ledger!Record

\* DrainTraffic moves durable traffic without billing any.
LEMMA DrainStutters ==
  ASSUME IInv, NEW s \in Slot, DrainTraffic(s)
  PROVE  UNCHANGED Ledger!ledgerVars
  <1> USE DEF DrainTraffic, storeVars, sessionVars, wireVars
  <1>1. Bills' = Bills
    BY DEF Bills
  <1>2. CASE accumulator = {}
    BY <1>1, <1>2 DEF Ledger!ledgerVars, Durable, Items
  <1>3. CASE accumulator # {}
    <2>1. PICK b \in Batch : wal' = wal \cup {b} /\ b.items = accumulator
      BY <1>3, NewBatchType DEF IInv
    <2>2. accumulator' = {} /\ ledger' = ledger
      BY <1>3 DEF AccumulatorAfterDrain
    <2>3. Items(wal)' = Items(wal) \cup accumulator
      BY <2>1 DEF Items
    <2>4. Items(ledger)' = Items(ledger)
      BY <2>2 DEF Items
    <2>5. Durable' = Durable
      BY <2>2, <2>3, <2>4 DEF Durable
    <2> QED
      BY <1>1, <2>5 DEF Ledger!ledgerVars
  <1> QED
    BY <1>2, <1>3

\* The server's acceptance bills a batch nobody has billed.
LEMMA ReceiveCredits ==
  ASSUME IInv, NEW s \in Slot, ServerReceive(s)
  PROVE  Ledger!Credit \/ UNCHANGED Ledger!ledgerVars
  <1> USE DEF ServerReceive, storeVars, sessionVars, wireVars
  <1> DEFINE b == Head(toServer[s])
  <1>1. b \in wal \cup ledger
    <2>1. toServer[s] \in Seq(Batch) /\ toServer[s] # <<>>
      BY DEF IInv, TypeOK
    <2>2. 1 \in 1..Len(toServer[s]) /\ b = toServer[s][1]
      BY <2>1
    <2> QED
      BY <2>2 DEF IInv, WireKnown
  <1>2. CASE Answer(b) # "accepted"
    BY <1>2, Stutters
  <1>3. CASE Answer(b) = "accepted"
    <2>1. b \notin ledger /\ b \in wal /\ ledger' = ledger \cup {b}
      BY <1>1, <1>3 DEF Answer
    <2> DEFINE bill == [id |-> b.seq, items |-> b.items]
    <2>2. Bills' = Bills \cup {bill}
      BY <2>1 DEF Bills
    <2>3. \A old \in Bills : old.id # bill.id
      <3> SUFFICES ASSUME NEW l \in ledger PROVE l.seq # b.seq
        BY DEF Bills
      <3> QED
        BY <2>1 DEF IInv, SequenceNamesBatch
    <2>4. \A l \in ledger : l.items \cap b.items = {}
      BY <2>1 DEF IInv, ChunkAtOnePlace
    <2>5. bill.items \subseteq Durable
      BY <2>1 DEF Durable, Items
    <2>6. \A old \in Bills : old.items \cap bill.items = {}
      BY <2>4 DEF Bills
    <2>7. bill.items \subseteq Durable \ Ledger!Billed
      BY <2>5, <2>6 DEF Ledger!Billed
    <2>8. Durable' = Durable
      <3>1. Items(ledger)' = Items(ledger) \cup b.items
        BY <2>1 DEF Items
      <3>2. b.items \subseteq Items(wal) /\ Items(wal)' = Items(wal)
        BY <2>1 DEF Items
      <3> QED
        BY <3>1, <3>2 DEF Durable
    <2> QED
      BY <2>2, <2>3, <2>7, <2>8 DEF Ledger!Credit
  <1> QED
    BY <1>2, <1>3

\* Every step of the pipeline is a step of the ledger or leaves it alone.
LEMMA LedgerStep == IInv /\ [Next]_vars => [Ledger!Next]_(Ledger!ledgerVars)
  <1> SUFFICES ASSUME IInv, [Next]_vars PROVE Ledger!Next \/ UNCHANGED Ledger!ledgerVars
    OBVIOUS
  <1> USE DEF storeVars, sessionVars, wireVars
  <1>1. ASSUME NEW c \in Chunk, Meter(c) PROVE UNCHANGED Ledger!ledgerVars
    BY <1>1, Stutters DEF Meter
  <1>2. CASE DropCounters \/ Crash \/ UNCHANGED vars
    BY <1>2, Stutters DEF DropCounters, Crash, vars
  <1>3. ASSUME NEW s \in Slot, WorkerStep(s)
        PROVE  Ledger!Next \/ UNCHANGED Ledger!ledgerVars
    <2>1. CASE AddTrafficWindow(s)
      BY <2>1, AddRecords DEF Ledger!Next
    <2>2. CASE DrainTraffic(s)
      BY <2>2, DrainStutters
    <2>3. CASE \/ CollectLoad(s) \/ CollectStore(s) \/ LoadPending(s)
               \/ SendBatch(s) \/ SendDone(s) \/ WorkerStops(s)
      BY <2>3, Stutters DEF CollectLoad, CollectStore, LoadPending, SendBatch, SendDone, WorkerStops
    <2> QED
      BY <1>3, <2>1, <2>2, <2>3 DEF WorkerStep
  <1>4. ASSUME NEW s \in Slot, ReadAck(s) PROVE UNCHANGED Ledger!ledgerVars
    <2>1. (wal \cup ledger)' = wal \cup ledger
      BY <1>4, AckedIsCredited DEF ReadAck, AcknowledgeTraffic
    <2> QED
      BY <1>4, <2>1, Stutters DEF ReadAck
  <1>5. ASSUME NEW s \in Slot, \/ WorkerFails(s) \/ StartSession(s) \/ SessionError(s)
                               \/ ConnectionLost(s) \/ LoseWire(s) \/ ServerReject(s)
        PROVE  UNCHANGED Ledger!ledgerVars
    BY <1>5, Stutters DEF WorkerFails, StartSession, SessionError, ConnectionLost, LoseWire,
                          ServerReject
  <1>6. ASSUME NEW s \in Slot, ServerReceive(s)
        PROVE  Ledger!Next \/ UNCHANGED Ledger!ledgerVars
    BY <1>6, ReceiveCredits DEF Ledger!Next
  <1> QED
    BY <1>1, <1>2, <1>3, <1>4, <1>5, <1>6 DEF Next, WireStep

\* The pipeline implements the ledger: recorded traffic is never lost, and is
\* billed at most once, under a fresh identifier.
THEOREM Refinement == Spec => ImplementsLedger
  <1>1. Init => Ledger!Init
    BY DEF Init, Ledger!Init, Durable, Bills, Items
  <1> QED
    BY <1>1, LedgerStep, InvariantHolds, PTL DEF Spec, ImplementsLedger, Ledger!Spec
=============================================================================
