----------------------------- MODULE TrafficWAL -----------------------------
(***************************************************************************)
(* Traffic accounting of the agent: the data plane's in-memory counters,   *)
(* the collector goroutine of each control session, the accumulator and    *)
(* write-ahead log of the SQLite store, the control connection and the     *)
(* control server's ledger.                                                *)
(*                                                                         *)
(* Byte counts are abstracted to sets: a chunk is an indivisible amount of *)
(* traffic, a sum of counters is the set of chunks it adds up.  A batch is *)
(* identified by (boot, seq) and its hash stands for its whole content, so *)
(* an acknowledgement names a batch.  Sessions live in slots: a slot may   *)
(* be reused once its collector has returned and its connection is empty,  *)
(* which lets old collectors overlap the next session as they do in the    *)
(* code (nothing waits for them), any number of times.                     *)
(***************************************************************************)
EXTENDS Naturals, FiniteSets, Sequences

CONSTANTS Chunk,         \* pieces of traffic the data plane may meter
          Slot,          \* control sessions whose goroutines may coexist
          CreatedAt,     \* wall-clock stamps a batch may get (created_at)
          PendingLimit,  \* batches one sendPendingTraffic reads (100)
          MaxInFlight,   \* frames a connection buffers before send blocks
          MaxFaults      \* bound on crashes, lost connections, store errors

ASSUME ConstantsAssumption == /\ CreatedAt \subseteq Nat
                              /\ CreatedAt # {}
                              /\ PendingLimit \in Nat \ {0}
                              /\ MaxInFlight \in Nat \ {0}
                              /\ MaxFaults \in Nat

VARIABLES
  metered,      \* history: every chunk the data plane has counted
  counters,     \* chunks in the running core's counters
  sess,         \* sess[s]: phase of the session in slot s
  worker,       \* worker[s]: where its traffic goroutine stands
  hand,         \* hand[s]: deltas collected and not yet stored
  todo,         \* todo[s]: batches sendPendingTraffic still has to send
  toServer,     \* toServer[s]: batches on the wire
  toClient,     \* toClient[s]: acknowledgements on the wire
  accumulator,  \* table traffic_accumulator
  wal,          \* table traffic_wal
  sequence,     \* meta.traffic_sequence
  boot,         \* boot_id of the process, new at every start
  ledger,       \* batches the control server has accepted
  faults        \* faults so far, bounded by MaxFaults

storeVars   == <<accumulator, wal, sequence>>
sessionVars == <<sess, worker, hand, todo>>
wireVars    == <<toServer, toClient>>
vars == <<metered, counters, sess, worker, hand, todo, toServer, toClient,
          accumulator, wal, sequence, boot, ledger, faults>>

Batch  == [boot : Nat, seq : Nat, created : CreatedAt, items : SUBSET Chunk]
Status == {"accepted", "already_accepted", "rejected"}
Ack    == [batch : Batch, status : Status]

Phase  == {"flush", "reading", "ended"}
Place  == {"idle", "loaded", "collected", "added", "drained", "sending", "dead"}

Items(batches) == UNION {b.items : b \in batches}

Init == /\ metered = {} /\ counters = {}
        /\ sess = [s \in Slot |-> "ended"]
        /\ worker = [s \in Slot |-> "dead"]
        /\ hand = [s \in Slot |-> {}]
        /\ todo = [s \in Slot |-> {}]
        /\ toServer = [s \in Slot |-> <<>>]
        /\ toClient = [s \in Slot |-> <<>>]
        /\ accumulator = {} /\ wal = {} /\ sequence = 0
        /\ boot = 1 /\ ledger = {} /\ faults = 0

-----------------------------------------------------------------------------
(* The data plane.  runtime.mu serialises collection and rebuilds.         *)

CoreLocked == \E s \in Slot : worker[s] = "loaded"

\* TrafficCounter.Tx / Rx: a connection adds bytes to its user's counter.
Meter(c) == /\ c \notin metered
            /\ metered' = metered \cup {c}
            /\ counters' = counters \cup {c}
            /\ UNCHANGED <<sessionVars, wireVars, storeVars, boot, ledger, faults>>

\* ApplyConfig, ApplyUsers and Close drop the core with its counters, DelUsers
\* drops the counters of the users it removes; none of them collects first.
DropCounters == /\ ~CoreLocked
                /\ \E kept \in SUBSET counters : counters' = kept
                /\ UNCHANGED <<metered, sessionVars, wireVars, storeVars, boot, ledger, faults>>

-----------------------------------------------------------------------------
(* The traffic goroutine of session s (collectAndSendTraffic).  The select *)
(* of the ticker loop may pick a tick after the session's context is done, *)
(* and CollectTraffic ignores the context, so collection needs no live     *)
(* session; every store operation after it does.                           *)

\* GetUserTrafficSlice reads the counters ...
CollectLoad(s) == /\ worker[s] = "idle"
                  /\ ~CoreLocked
                  /\ hand' = [hand EXCEPT ![s] = counters]
                  /\ worker' = [worker EXCEPT ![s] = "loaded"]
                  /\ UNCHANGED <<metered, counters, sess, todo, wireVars, storeVars,
                                 boot, ledger, faults>>

KeepsLoaded(s, kept) == kept \in SUBSET counters

\* ... and sets the non-zero ones to zero.  What a connection added to one of
\* those in between is gone; counters that read zero are left alone.
CountersAfterStore(s, kept) == /\ kept \in SUBSET (counters \ hand[s])
                               /\ hand[s] = {} => kept = counters

CollectStore(s) == /\ worker[s] = "loaded"
                   /\ \E kept \in SUBSET counters :
                         CountersAfterStore(s, kept) /\ counters' = kept
                   /\ worker' = [worker EXCEPT ![s] = "collected"]
                   /\ UNCHANGED <<metered, sess, hand, todo, wireVars, storeVars,
                                  boot, ledger, faults>>

\* One transaction adds the deltas to the accumulator.
AddTrafficWindow(s) == /\ worker[s] = "collected"
                       /\ sess[s] # "ended"
                       /\ accumulator' = accumulator \cup hand[s]
                       /\ hand' = [hand EXCEPT ![s] = {}]
                       /\ worker' = [worker EXCEPT ![s] = "added"]
                       /\ UNCHANGED <<metered, counters, sess, todo, wireVars, wal,
                                      sequence, boot, ledger, faults>>

SequenceOfBoot == IF wal = {} THEN 1 ELSE sequence + 1
NextSequence == sequence + 1

KeepAccumulator == accumulator
AccumulatorAfterDrain == {}

\* One transaction moves the accumulator into a new WAL row under the next
\* sequence number; an empty accumulator leaves everything as it is.
DrainTraffic(s) ==
  /\ worker[s] = "added"
  /\ sess[s] # "ended"
  /\ worker' = [worker EXCEPT ![s] = "drained"]
  /\ \/ /\ accumulator = {}
        /\ UNCHANGED storeVars
     \/ /\ accumulator # {}
        /\ \E at \in CreatedAt :
             wal' = wal \cup {[boot |-> boot, seq |-> NextSequence, created |-> at,
                               items |-> accumulator]}
        /\ sequence' = NextSequence
        /\ accumulator' = AccumulatorAfterDrain
  /\ UNCHANGED <<metered, counters, sess, hand, todo, wireVars, boot, ledger, faults>>

\* ORDER BY created_at, sequence
Before(a, b) == \/ a.created < b.created
                \/ a.created = b.created /\ a.seq < b.seq

PendingOfBoot == {b \in wal : b.boot = boot}
PendingTraffic == {b \in wal : Cardinality({a \in wal : Before(a, b)}) < PendingLimit}

\* sendPendingTraffic reads the rows it is going to send.
LoadPending(s) == /\ worker[s] = "drained"
                  /\ sess[s] # "ended"
                  /\ todo' = [todo EXCEPT ![s] = PendingTraffic]
                  /\ worker' = [worker EXCEPT ![s] = "sending"]
                  /\ UNCHANGED <<metered, counters, sess, hand, wireVars, storeVars,
                                 boot, ledger, faults>>

Sending(s) == sess[s] = "flush" \/ (sess[s] = "reading" /\ worker[s] = "sending")

NoBackpressure(s) == TRUE
HasRoom(s) == Len(toServer[s]) < MaxInFlight

\* sendPendingTraffic writes the next row.
SendBatch(s) ==
  /\ Sending(s)
  /\ HasRoom(s)
  /\ \E b \in todo[s] :
       /\ \A a \in todo[s] : ~Before(a, b)
       /\ toServer' = [toServer EXCEPT ![s] = Append(@, b)]
       /\ todo' = [todo EXCEPT ![s] = @ \ {b}]
  /\ UNCHANGED <<metered, counters, sess, worker, hand, toClient, storeVars,
                 boot, ledger, faults>>

\* All rows are written: the handshake starts the goroutines and the read
\* loop, the goroutine goes back to its tickers.
SendDone(s) ==
  /\ Sending(s)
  /\ todo[s] = {}
  /\ sess' = [sess EXCEPT ![s] = "reading"]
  /\ worker' = [worker EXCEPT ![s] = "idle"]
  /\ UNCHANGED <<metered, counters, hand, todo, wireVars, storeVars, boot, ledger, faults>>

Returned(s) == /\ worker' = [worker EXCEPT ![s] = "dead"]
               /\ hand' = [hand EXCEPT ![s] = {}]
               /\ todo' = [todo EXCEPT ![s] = {}]

\* The session is over: the cancelled context or the closed connection makes
\* the next store operation or write fail, or the ticker loop sees it.
WorkerStops(s) ==
  /\ sess[s] = "ended"
  /\ worker[s] \in {"idle", "collected", "added", "drained", "sending"}
  /\ Returned(s)
  /\ UNCHANGED <<metered, counters, sess, wireVars, storeVars, boot, ledger, faults>>

Fault == faults < MaxFaults /\ faults' = faults + 1

\* A store operation or a write fails while the session is up: the goroutine
\* puts its error into errCh and returns; nothing requeues its deltas.
WorkerFails(s) ==
  /\ Fault
  /\ sess[s] = "reading"
  /\ worker[s] \in {"collected", "added", "drained", "sending"}
  /\ Returned(s)
  /\ UNCHANGED <<metered, counters, sess, wireVars, storeVars, boot, ledger>>

-----------------------------------------------------------------------------
(* The session: Run starts one at a time, runSessionWithEstablished ends   *)
(* it by returning, which cancels its context and closes the connection.   *)

Reusable(s) == sess[s] = "ended" /\ worker[s] = "dead" /\ toServer[s] = <<>>

\* Dial, hello and hello_ack; then sendPendingTraffic of the handshake.
StartSession(s) ==
  /\ \A t \in Slot : sess[t] = "ended"
  /\ Reusable(s)
  /\ sess' = [sess EXCEPT ![s] = "flush"]
  /\ todo' = [todo EXCEPT ![s] = PendingTraffic]
  /\ UNCHANGED <<metered, counters, worker, hand, wireVars, storeVars, boot, ledger, faults>>

\* What is on the wire towards the server may still arrive.
EndSession(s) == /\ sess' = [sess EXCEPT ![s] = "ended"]
                 /\ toClient' = [toClient EXCEPT ![s] = <<>>]
                 /\ todo' = IF worker[s] = "sending" THEN todo
                            ELSE [todo EXCEPT ![s] = {}]

\* errCh is looked at once a message has been handled.
Continue(s) == IF worker[s] = "dead" THEN EndSession(s)
               ELSE /\ toClient' = [toClient EXCEPT ![s] = Tail(@)]
                    /\ UNCHANGED <<sess, todo>>

AckCumulative(b) == {a \in wal : a.seq > b.seq}
AcknowledgeTraffic(b) == wal \ {b}

\* The read loop handles a traffic acknowledgement: a rejected batch, or an
\* acknowledgement of a row that is no longer there, ends the session.
ReadAck(s) ==
  /\ sess[s] = "reading"
  /\ toClient[s] # <<>>
  /\ LET ack == Head(toClient[s]) IN
       \/ /\ ack.status = "rejected" \/ ack.batch \notin wal
          /\ EndSession(s)
          /\ UNCHANGED wal
       \/ /\ ack.status # "rejected" /\ ack.batch \in wal
          /\ wal' = AcknowledgeTraffic(ack.batch)
          /\ Continue(s)
  /\ UNCHANGED <<metered, counters, worker, hand, toServer, accumulator, sequence,
                 boot, ledger, faults>>

\* Another message is handled, or the silent session times out, after the
\* goroutine has failed.
SessionError(s) ==
  /\ sess[s] = "reading"
  /\ worker[s] = "dead"
  /\ EndSession(s)
  /\ UNCHANGED <<metered, counters, worker, hand, toServer, storeVars, boot, ledger, faults>>

\* The connection breaks, a write of the handshake fails, or the store fails
\* to delete an acknowledged row.
ConnectionLost(s) ==
  /\ Fault
  /\ sess[s] # "ended"
  /\ EndSession(s)
  /\ UNCHANGED <<metered, counters, worker, hand, toServer, storeVars, boot, ledger>>

\* The process dies and starts again: memory is gone, the store is not.
Crash ==
  /\ Fault
  /\ counters' = {}
  /\ sess' = [s \in Slot |-> "ended"]
  /\ worker' = [s \in Slot |-> "dead"]
  /\ hand' = [s \in Slot |-> {}]
  /\ todo' = [s \in Slot |-> {}]
  /\ toClient' = [s \in Slot |-> <<>>]
  /\ boot' = boot + 1
  /\ UNCHANGED <<metered, toServer, storeVars, ledger>>

-----------------------------------------------------------------------------
(* The control server, from how the agent uses it: it keeps batches by     *)
(* (boot, seq), answers a batch it has with already_accepted, and may      *)
(* reject one.                                                             *)

Reply(s, b, status) ==
  toClient' = IF sess[s] = "ended" THEN toClient
              ELSE [toClient EXCEPT ![s] = Append(@, [batch |-> b, status |-> status])]

Answer(b) == IF b \in ledger THEN "already_accepted"
             ELSE IF \E l \in ledger : l.boot = b.boot /\ l.seq = b.seq
                  THEN "rejected" ELSE "accepted"

\* The server's answer needs room on the connection it came from.
CanReply(s) == sess[s] = "ended" \/ Len(toClient[s]) < MaxInFlight

ServerReceive(s) ==
  /\ toServer[s] # <<>>
  /\ CanReply(s)
  /\ LET b == Head(toServer[s]) IN
       /\ ledger' = IF Answer(b) = "accepted" THEN ledger \cup {b} ELSE ledger
       /\ Reply(s, b, Answer(b))
  /\ toServer' = [toServer EXCEPT ![s] = Tail(@)]
  /\ UNCHANGED <<metered, counters, sessionVars, storeVars, boot, faults>>

ServerReject(s) ==
  /\ Fault
  /\ toServer[s] # <<>>
  /\ CanReply(s)
  /\ Reply(s, Head(toServer[s]), "rejected")
  /\ toServer' = [toServer EXCEPT ![s] = Tail(@)]
  /\ UNCHANGED <<metered, counters, sessionVars, storeVars, boot, ledger>>

\* A closed connection loses what is still on the wire.
LoseWire(s) ==
  /\ sess[s] = "ended"
  /\ toServer[s] # <<>>
  /\ toServer' = [toServer EXCEPT ![s] = <<>>]
  /\ UNCHANGED <<metered, counters, sessionVars, toClient, storeVars, boot, ledger, faults>>

-----------------------------------------------------------------------------
WorkerStep(s) == \/ CollectLoad(s) \/ CollectStore(s) \/ AddTrafficWindow(s)
                 \/ DrainTraffic(s) \/ LoadPending(s) \/ SendBatch(s)
                 \/ SendDone(s) \/ WorkerStops(s)

WireStep(s) == ServerReceive(s) \/ LoseWire(s)

Next == \/ \E c \in Chunk : Meter(c)
        \/ DropCounters
        \/ Crash
        \/ \E s \in Slot : \/ WorkerStep(s) \/ WorkerFails(s)
                           \/ StartSession(s) \/ ReadAck(s) \/ SessionError(s)
                           \/ ConnectionLost(s) \/ WireStep(s) \/ ServerReject(s)

Spec == Init /\ [][Next]_vars

\* Goroutines are scheduled, the read loop reads, Run reconnects after its
\* timer, the server answers, and a session whose goroutine has failed gets
\* another message or is dropped by the peer.  Faults, metering and rebuilds
\* need not happen.
Fairness == /\ WF_vars(\E s \in Slot : StartSession(s))
            /\ \A s \in Slot : /\ WF_vars(WorkerStep(s))
                               /\ WF_vars(WireStep(s))
                               /\ WF_vars(ReadAck(s))
                               /\ WF_vars(SessionError(s))

FairSpec == Spec /\ Fairness

-----------------------------------------------------------------------------
Durable == accumulator \cup Items(wal) \cup Items(ledger)

\* Every variable ranges over the values the program can give it, and a
\* connection never buffers more than MaxInFlight batches (sendPendingTraffic
\* blocks in WriteJSON, client.go:629).
TypeOK == /\ metered \subseteq Chunk /\ counters \subseteq metered
          /\ sess \in [Slot -> Phase]
          /\ worker \in [Slot -> Place]
          /\ hand \in [Slot -> SUBSET Chunk]
          /\ todo \in [Slot -> SUBSET Batch]
          /\ toServer \in [Slot -> Seq(Batch)]
          /\ \A s \in Slot : Len(toServer[s]) <= MaxInFlight
          /\ toClient \in [Slot -> Seq(Ack)]
          /\ accumulator \in SUBSET Chunk
          /\ wal \in SUBSET Batch
          /\ sequence \in Nat /\ boot \in Nat /\ faults \in Nat
          /\ ledger \in SUBSET Batch

\* No traffic is billed twice: two batches the server has accepted share no
\* chunk, whatever was resent, acknowledged late or drained after a restart
\* (DrainTraffic, store.go:398; sendPendingTraffic, client.go:629).
NoDoubleCredit == \A a, b \in ledger : a # b => a.items \cap b.items = {}

\* A sequence number names one batch forever, across restarts: no two batches
\* of the WAL and of the server's ledger share one (store.go:438), so the
\* server never takes a new batch for one it has already accepted.
SequenceNamesBatch == \A a, b \in wal \cup ledger : a.seq = b.seq => a = b

\* Every chunk is at one place at a time: a batch, the accumulator, one
\* collector's deltas, or the counters (which a collector that has read and
\* not yet reset them still shares), although collectors of old sessions run
\* on beside the new one (client.go:205) and rows are resent.
ChunkAtOnePlace ==
  /\ \A a, b \in wal \cup ledger : a # b => a.items \cap b.items = {}
  /\ \A b \in wal \cup ledger : b.items \cap accumulator = {}
  /\ \A s \in Slot : /\ hand[s] \cap accumulator = {}
                     /\ \A b \in wal \cup ledger : hand[s] \cap b.items = {}
                     /\ \A t \in Slot \ {s} : hand[s] \cap hand[t] = {}
                     /\ worker[s] # "loaded" => hand[s] \cap counters = {}
  /\ counters \cap accumulator = {}
  /\ \A b \in wal \cup ledger : b.items \cap counters = {}

\* A row leaves the WAL only when the server has accepted that very batch
\* (AcknowledgeTraffic, store.go:498).
DeletedOnlyIfCredited == [][wal \ wal' \subseteq ledger]_vars

\* The pipeline implements the ledger: recorded traffic stays recorded until
\* it is billed, and is billed at most once under a fresh identifier.
Bills == {[id |-> b.seq, items |-> b.items] : b \in ledger}
Ledger == INSTANCE TrafficLedger WITH durable <- Durable, bills <- Bills
ImplementsLedger == Ledger!Spec

\* Traffic that has reached the store is eventually billed, although sessions
\* end, duplicated acknowledgements end them again, and the process restarts
\* (collectAndSendTraffic, client.go:603).
DurableEventuallyBilled ==
  \A c \in Chunk : (c \in Durable) ~> (c \in Items(ledger))

-----------------------------------------------------------------------------
(* The parts of the inductive invariant that are not properties of their   *)
(* own.                                                                    *)

\* Batches about to be sent or on the wire are rows of the WAL or accepted,
\* and a positive acknowledgement is about an accepted batch.
WireKnown ==
  \A s \in Slot :
    /\ todo[s] \subseteq wal \cup ledger
    /\ \A i \in 1..Len(toServer[s]) : toServer[s][i] \in wal \cup ledger
    /\ \A i \in 1..Len(toClient[s]) :
          toClient[s][i].status # "rejected" => toClient[s][i].batch \in ledger

\* The stored sequence number is the largest one ever given to a batch.
SequenceBounds == \A b \in wal \cup ledger : b.seq <= sequence

\* Only metered traffic is anywhere.
OnlyMetered == /\ accumulator \subseteq metered
               /\ \A s \in Slot : hand[s] \subseteq metered
               /\ \A b \in wal \cup ledger : b.items \subseteq metered

\* runtime.mu: one collector at a time is between reading and resetting.
OneCollector == \A s, t \in Slot : worker[s] = "loaded" /\ worker[t] = "loaded" => s = t

\* The goroutine starts after the handshake has sent its rows.
FlushComesFirst == \A s \in Slot : sess[s] = "flush" => worker[s] = "dead"

IInv == /\ TypeOK
        /\ ChunkAtOnePlace
        /\ SequenceNamesBatch
        /\ WireKnown
        /\ SequenceBounds
        /\ OnlyMetered
        /\ OneCollector
        /\ FlushComesFirst
=============================================================================
